----------------------------- MODULE RingMulticast -----------------------------
(***************************************************************************)
(* TensorRing as an implementation of Multicast, where the producer has    *)
(* one publication in the making at a time.                                *)
(***************************************************************************)
EXTENDS TensorRing

OpenConsumers == {c \in Consumers : cst[c] = "open"}

\* The reader bits of the slot that is being written are the addressees.
Addressees ==
    {c \in OpenConsumers : \E w \in Writers : wst[w] # "idle" /\ idx[c] \in mask[wslot[w]]}

\* What a consumer is still to receive, the pairs in which it will, what it holds.
Due(c) == IF cst[c] = "open" THEN Deliverable(c) ELSE {}
Earlier(c) == {e \in Due(c) \X Due(c) : SeqNewer(seq[e[2]], seq[e[1]])}
HeldBy(c) == {l.slot : l \in leases[c]}

Contract == INSTANCE Multicast WITH
    open <- OpenConsumers,
    addressed <- Addressees,
    due <- [c \in Consumers |-> Due(c)],
    earlier <- [c \in Consumers |-> Earlier(c)],
    held <- [c \in Consumers |-> HeldBy(c)]

\* The Rust ring is a multicast: each consumer receives exactly the publications
\* begun while it was open, once and in order, and no slot is recycled under it,
\* through reaping, aborts, deaths, indices given away and the wrapping counter.
ImplementsMulticast == Contract!Spec
================================================================================
