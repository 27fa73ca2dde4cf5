---------------------------- MODULE StepsMulticast ----------------------------
(***************************************************************************)
(* RingSteps as an implementation of Multicast: the stores at which, for   *)
(* everybody else, a consumer is there, a publication is begun, made,      *)
(* received and let go.                                                    *)
(***************************************************************************)
EXTENDS RingSteps

\* From the store that activates its entry until it takes the lock to close.
OpenConsumers ==
    {c \in Consumers \cap alive : pc[c] \notin {"none", "reap", "countDead", "enter", "activate",
                                                "close", "countDown", "closed"}}

\* From the store of the reader bits until the one of COMMITTED.
Addressees ==
    {c \in OpenConsumers : \E p \in Producers \cap alive :
        pc[p] \in {"advance", "copy", "commit"} /\ handle[c].idx \in slot[pick[p]].mask}

\* What a consumer is still to receive, the pairs in which it will, what it holds.
Due(c) == IF c \in OpenConsumers THEN Deliverable(c) ELSE {}
Earlier(c) == {e \in Due(c) \X Due(c) : SeqNewer(slot[e[2]].seq, slot[e[1]].seq)}
HeldBy(c) == {l.slot : l \in handle[c].leases}

Contract == INSTANCE Multicast WITH
    open <- OpenConsumers,
    addressed <- Addressees,
    due <- [c \in Consumers |-> Due(c)],
    earlier <- [c \in Consumers |-> Earlier(c)],
    held <- [c \in Consumers |-> HeldBy(c)]

\* The multicast survives being taken apart: each consumer receives what was begun
\* while it was open, once and in order, although its scan is no snapshot, slots
\* are recycled under it, and processes die between two stores.
ImplementsMulticast == Contract!Spec
===============================================================================
