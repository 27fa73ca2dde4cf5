--------------------------- MODULE ReferenceMulticast ---------------------------
(***************************************************************************)
(* ReferenceRing as an implementation of Multicast.  What is being copied  *)
(* will reach everybody who is open, since nobody joins meanwhile.         *)
(***************************************************************************)
EXTENDS ReferenceRing

OpenConsumers == {c \in Consumers : cst[c] = "open"}

Addressees == IF pst = "copying" THEN OpenConsumers ELSE {}

\* What a consumer is still to receive, the pairs in which it will, what it holds.
Due(c) == IF cst[c] = "open" THEN Candidates(c) ELSE {}
Earlier(c) == {e \in Due(c) \X Due(c) : seq[e[1]] < seq[e[2]]}
HeldBy(c) == {l.slot : l \in leases[c] \cup views[c]}

Contract == INSTANCE Multicast WITH
    open <- OpenConsumers,
    addressed <- Addressees,
    due <- [c \in Consumers |-> Due(c)],
    earlier <- [c \in Consumers |-> Earlier(c)],
    held <- [c \in Consumers |-> HeldBy(c)]

\* The reference ring is a multicast: each consumer receives exactly what was
\* published while it was open, once and in order, and no slot is recycled
\* while a consumer has a lease on it or an array over it, although publications
\* are cut off in the copy and consumers close early or are killed.
ImplementsMulticast == Contract!Spec
================================================================================
