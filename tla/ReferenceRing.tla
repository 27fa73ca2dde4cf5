----------------------------- MODULE ReferenceRing -----------------------------
(***************************************************************************)
(* The Python reference ring, src/tenzorbus/ring.py: one producer and any  *)
(* number of consumer processes on one shared-memory object, every         *)
(* operation inside one file lock.  A slot counts its readers down, from   *)
(* the number of consumers at the time it was published.                   *)
(*                                                                         *)
(* Granularity.  A consumer's locked section makes one write to the shared *)
(* header at most, and is one step.  Publishing is three, with the lock    *)
(* held from the first to the last: whoever publishes may be interrupted   *)
(* between them, by a signal or an exception, and the lock is let go.      *)
(*                                                                         *)
(* Left out: timestamps and tensor metadata, the counters of stats(), and  *)
(* the timeouts of publish and next, which change nothing when they expire. *)
(***************************************************************************)
EXTENDS Naturals, FiniteSets

CONSTANTS
    Consumers,      \* TensorConsumers, each in a process of its own
    SlotCount,      \* slot_count
    MaxConsumers,   \* G_MAX_CONSUMERS
    LastSeq,        \* bound: the last sequence that is published
    Mortal,         \* bound: the consumers whose process may be killed
    Interruptible   \* where a publication may be interrupted: while it is
                    \* "copying", or when it has "committed"

ASSUME ReferenceAssumption ==
    /\ SlotCount \in Nat /\ SlotCount >= 2
    /\ MaxConsumers \in Nat \ {0}
    /\ LastSeq \in Nat \ {0}
    /\ Mortal \subseteq Consumers
    /\ Interruptible \subseteq {"copying", "committed"}

\* For counting readers.
ASSUME FiniteAssumption == IsFiniteSet(Consumers)

VARIABLES
    state, seq, readers,   \* of each slot: S_STATE, S_SEQUENCE, S_READERS
    payload,               \* the publication whose bytes the slot holds
    nextSeq,               \* G_NEXT_SEQ
    count,                 \* G_CONSUMERS
    pst, pslot,            \* publish: how far it is, and its slot
    cst, last,             \* of each TensorConsumer: status, last_sequence
    leases,                \* of each TensorConsumer: the leases not released
    views                  \* the arrays over them that are alive

slotVars == <<state, seq, readers, payload>>
publishVars == <<nextSeq, pst, pslot>>
consumerVars == <<cst, last, leases, views>>
vars == <<state, seq, readers, payload, nextSeq, count, pst, pslot,
          cst, last, leases, views>>

Slots == 1 .. SlotCount
NoSlot == 0
Torn == 0        \* the bytes of a slot that is partly overwritten, or unused
Leases == [slot : Slots, seq : 1 .. LastSeq]

\* _FileLock: only a publication keeps the lock for more than one step.
Unlocked == pst = "idle"

-----------------------------------------------------------------------------
(* SharedTensorRing.publish.                                               *)

Unread == {s \in Slots : state[s] = "COMMITTED" /\ readers[s] = 0}

\* Mutant: a committed slot is recycled whether or not it has readers.
SelectSlotIgnoringReaders(s) == state[s] \in {"FREE", "COMMITTED"}
\* _select_slot: the first free slot, else the oldest one without readers.
SelectSlot(s) ==
    \/ state[s] = "FREE" /\ \A t \in Slots : t < s => state[t] # "FREE"
    \/ /\ \A t \in Slots : state[t] # "FREE"
       /\ s \in Unread
       /\ \A t \in Unread : seq[s] < seq[t] \/ (seq[s] = seq[t] /\ s <= t)

Select ==
    /\ Unlocked /\ nextSeq <= LastSeq
    /\ \E s \in Slots :
          /\ SelectSlot(s)
          /\ state' = [state EXCEPT ![s] = "WRITING"]
          /\ seq' = [seq EXCEPT ![s] = nextSeq]
          /\ readers' = [readers EXCEPT ![s] = count]
          /\ payload' = [payload EXCEPT ![s] = Torn]
          /\ pslot' = s
    /\ pst' = "copying"
    /\ UNCHANGED <<nextSeq, count, consumerVars>>

\* The copy is complete and the slot is marked committed.
Commit ==
    /\ pst = "copying"
    /\ payload' = [payload EXCEPT ![pslot] = nextSeq]
    /\ state' = [state EXCEPT ![pslot] = "COMMITTED"]
    /\ pst' = "committed"
    /\ UNCHANGED <<seq, readers, nextSeq, count, pslot, consumerVars>>

\* The sequence is used up, the lock released.
Advance ==
    /\ pst = "committed"
    /\ nextSeq' = nextSeq + 1
    /\ pst' = "idle"
    /\ pslot' = NoSlot
    /\ UNCHANGED <<slotVars, count, consumerVars>>

\* The publisher dies, or leaves the locked section with an exception.
Interrupt ==
    /\ pst \in Interruptible
    /\ pst' = "idle"
    /\ pslot' = NoSlot
    /\ UNCHANGED <<slotVars, nextSeq, count, consumerVars>>

-----------------------------------------------------------------------------
(* TensorConsumer and TensorLease.                                         *)

\* Mutant: an off-by-one.
SubscribeAtNext == nextSeq
SubscribeAt == nextSeq - 1

\* TensorConsumer.__init__
Open(c) ==
    /\ Unlocked /\ cst[c] = "new" /\ count < MaxConsumers
    /\ count' = count + 1
    /\ cst' = [cst EXCEPT ![c] = "open"]
    /\ last' = [last EXCEPT ![c] = SubscribeAt]
    /\ UNCHANGED <<slotVars, publishVars, leases, views>>

\* Mutant: the consumer does not look at what it has had.
CandidatesAll(c) == {s \in Slots : state[s] = "COMMITTED"}
Candidates(c) == {s \in Slots : state[s] = "COMMITTED" /\ seq[s] > last[c]}

\* TensorConsumer.next: the oldest candidate, passed over when nobody counts
\* on its being read.
Take(c) ==
    /\ Unlocked /\ cst[c] = "open"
    /\ \E s \in Candidates(c) :
          /\ \A t \in Candidates(c) : seq[s] < seq[t] \/ (seq[s] = seq[t] /\ s <= t)
          /\ last' = [last EXCEPT ![c] = seq[s]]
          /\ leases' = IF readers[s] = 0 THEN leases
                       ELSE [leases EXCEPT ![c] = @ \cup {[slot |-> s, seq |-> seq[s]]}]
    /\ UNCHANGED <<slotVars, publishVars, count, cst, views>>

\* TensorLease.numpy, TensorLease.torch
View(c, l) ==
    /\ views' = [views EXCEPT ![c] = @ \cup {l}]
    /\ UNCHANGED <<slotVars, publishVars, count, cst, last, leases>>

\* The last array over the lease is garbage-collected.
DropView(c, l) ==
    /\ views' = [views EXCEPT ![c] = @ \ {l}]
    /\ UNCHANGED <<slotVars, publishVars, count, cst, last, leases>>

\* Mutant: releasing does not ask for the views.
NotBorrowedUnchecked(c, l) == TRUE
\* borrowed_views() = 0; the release of the memoryview checks the same again.
NotBorrowed(c, l) == l \notin views[c]

\* TensorLease.release and TensorConsumer._release.  A slot that has another
\* sequence, or no readers, is left alone (an error).
Release(c, l) ==
    /\ Unlocked /\ NotBorrowed(c, l)
    /\ leases' = [leases EXCEPT ![c] = @ \ {l}]
    /\ readers' = IF seq[l.slot] = l.seq
                    THEN [readers EXCEPT ![l.slot] = IF @ = 0 THEN 0 ELSE @ - 1] ELSE readers
    /\ UNCHANGED <<state, seq, payload, publishVars, count, cst, last, views>>

\* TensorConsumer.close.  What was not read stays counted, and leases that are
\* out can still be released.
Close(c) ==
    /\ Unlocked /\ cst[c] = "open"
    /\ count' = IF count = 0 THEN 0 ELSE count - 1
    /\ cst' = [cst EXCEPT ![c] = "closed"]
    /\ UNCHANGED <<slotVars, publishVars, last, leases, views>>

\* The process of c is killed: nothing of the shared header changes.
Die(c) ==
    /\ c \in Mortal /\ cst[c] \in {"open", "closed"}
    /\ cst' = [cst EXCEPT ![c] = "dead"]
    /\ leases' = [leases EXCEPT ![c] = {}]
    /\ views' = [views EXCEPT ![c] = {}]
    /\ UNCHANGED <<slotVars, publishVars, count, last>>

-----------------------------------------------------------------------------
\* SharedTensorRing.create
Init ==
    /\ state = [s \in Slots |-> "FREE"]
    /\ seq = [s \in Slots |-> 0]
    /\ readers = [s \in Slots |-> 0]
    /\ payload = [s \in Slots |-> Torn]
    /\ nextSeq = 1
    /\ count = 0
    /\ pst = "idle"
    /\ pslot = NoSlot
    /\ cst = [c \in Consumers |-> "new"]
    /\ last = [c \in Consumers |-> 0]
    /\ leases = [c \in Consumers |-> {}]
    /\ views = [c \in Consumers |-> {}]

Next ==
    \/ Select
    \/ Commit
    \/ Advance
    \/ Interrupt
    \/ \E c \in Consumers : Open(c)
    \/ \E c \in Consumers : Take(c)
    \/ \E c \in Consumers : \E l \in leases[c] : View(c, l)
    \/ \E c \in Consumers : \E l \in views[c] : DropView(c, l)
    \/ \E c \in Consumers : \E l \in leases[c] : Release(c, l)
    \/ \E c \in Consumers : Close(c)
    \/ \E c \in Consumers : Die(c)

Spec == Init /\ [][Next]_vars

\* A publication that was begun is finished or interrupted; a consumer keeps
\* calling next, lets its arrays go and releases its leases.
Fairness ==
    /\ WF_vars(Commit \/ Advance \/ Interrupt)
    /\ \A c \in Consumers :
          /\ WF_vars(Take(c))
          /\ WF_vars(\E l \in views[c] : DropView(c, l))
          /\ \A s \in Slots : SF_vars(\E l \in leases[c] : l.slot = s /\ Release(c, l))

FairSpec == Spec /\ Fairness

-----------------------------------------------------------------------------
(* Properties.                                                             *)

\* The fields of the shared header and of the handles have their types.
TypeOK ==
    /\ state \in [Slots -> {"FREE", "WRITING", "COMMITTED"}]
    /\ seq \in [Slots -> 0 .. LastSeq]
    /\ readers \in [Slots -> 0 .. MaxConsumers]
    /\ payload \in [Slots -> 0 .. LastSeq]
    /\ nextSeq \in 1 .. LastSeq + 1
    /\ count \in 0 .. MaxConsumers
    /\ pst \in {"idle", "copying", "committed"}
    /\ pslot \in 0 .. SlotCount
    /\ pslot = NoSlot <=> pst = "idle"
    /\ cst \in [Consumers -> {"new", "open", "closed", "dead"}]
    /\ last \in [Consumers -> 0 .. LastSeq]
    /\ leases \in [Consumers -> SUBSET Leases]
    /\ views \in [Consumers -> SUBSET Leases]

\* "the ring recycle memory the caller is still reading" is what release must
\* prevent: as long as a lease or an array over it lives, its slot holds that
\* publication, complete, whoever publishes, closes, dies or is interrupted.
ViewsUndisturbed ==
    \A c \in Consumers : \A l \in leases[c] \cup views[c] :
        /\ state[l.slot] = "COMMITTED"
        /\ seq[l.slot] = l.seq
        /\ payload[l.slot] = l.seq

\* Those who are going to count slot s down: they hold it, or will be given it.
Readers(s) ==
    {c \in Consumers : \/ \E l \in leases[c] : l.slot = s
                       \/ cst[c] = "open" /\ seq[s] > last[c]}
Departed == {c \in Consumers : cst[c] \in {"closed", "dead"}}

\* "each committed slot's readers_remaining was calculated with this consumer
\* included": the count of a slot covers everyone who holds it or will be given
\* it, so nobody's release lets it go under another; and nobody is counted
\* twice, apart from those who left without reading.
ReadersCounted ==
    \A s \in Slots : state[s] = "COMMITTED" =>
        /\ Cardinality(Readers(s)) <= readers[s]
        /\ readers[s] <= Cardinality(Readers(s) \cup Departed)

\* Every publication is read by all it counts and its slot becomes reusable,
\* unless a consumer leaves.
SlotsDrain ==
    \A s \in Slots :
        (state[s] = "COMMITTED" /\ readers[s] > 0) ~> (readers[s] = 0 \/ Departed # {})
================================================================================
