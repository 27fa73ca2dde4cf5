---------------------------- MODULE ReferenceProofs ----------------------------
(***************************************************************************)
(* The reference ring, for every number of slots and consumers: a reader    *)
(* count in place of a mask is enough to keep a slot for whoever reads it,  *)
(* as long as a publication is not cut off between marking its slot         *)
(* committed and using up its sequence.  (If it is, the same sequence is    *)
(* given out again; the theorems name the hypothesis.)                      *)
(***************************************************************************)
EXTENDS ReferenceMulticast, FiniteSetTheorems, TLAPS

\* Publications are not cut off after the commit.
CommitsAdvance == "committed" \notin Interruptible

OpenSet == {c \in Consumers : cst[c] = "open"}

\* Sequences: what is committed has one of its own, below the next, but for the
\* publication that is about to use its sequence up; nobody is ahead of it.
SeqInv ==
    /\ \A s \in Slots : state[s] = "COMMITTED" =>
          /\ payload[s] = seq[s]
          /\ seq[s] < nextSeq \/ (pst = "committed" /\ s = pslot /\ seq[s] = nextSeq)
    /\ \A s, t \in Slots :
          state[s] = "COMMITTED" /\ state[t] = "COMMITTED" /\ seq[s] = seq[t] => s = t
    /\ \A c \in Consumers : last[c] < nextSeq
    /\ pst # "idle" => nextSeq <= LastSeq /\ seq[pslot] = nextSeq
    /\ pst = "copying" => state[pslot] = "WRITING"
    /\ pst = "committed" => state[pslot] = "COMMITTED"

\* A lease, and an array over it, is to the publication its slot holds.
LeaseInv ==
    \A c \in Consumers :
        /\ views[c] \subseteq leases[c]
        /\ cst[c] = "new" => leases[c] = {}
        /\ \A l \in leases[c] :
              state[l.slot] = "COMMITTED" /\ seq[l.slot] = l.seq /\ l.seq <= last[c]

\* The count covers the open consumers, and beyond them only those that left; so
\* does the reader count of the slot that is being filled.
CountInv ==
    /\ Cardinality(OpenSet) <= count /\ count <= Cardinality(OpenSet \cup Departed)
    /\ pst = "copying" => /\ Cardinality(OpenSet) <= readers[pslot]
                          /\ readers[pslot] <= Cardinality(OpenSet \cup Departed)

IInv == TypeOK /\ SeqInv /\ LeaseInv /\ CountInv /\ ReadersCounted

-----------------------------------------------------------------------------
LEMMA SlotNumbers == NoSlot \notin Slots /\ Slots \subseteq Nat /\ Slots \subseteq 0 .. SlotCount
    BY ReferenceAssumption DEF NoSlot, Slots

LEMMA Countable ==
    ASSUME NEW S \in SUBSET Consumers
    PROVE  IsFiniteSet(S) /\ Cardinality(S) \in Nat
<1>1. IsFiniteSet(S)
    BY FiniteAssumption, FS_Subset
<1> QED
    BY <1>1, FS_CardinalityType

LEMMA Fewer ==
    ASSUME NEW S \in SUBSET Consumers, NEW T \in SUBSET S
    PROVE  Cardinality(T) <= Cardinality(S) /\ Cardinality(T) \in Nat /\ Cardinality(S) \in Nat
<1>1. IsFiniteSet(S) /\ T \in SUBSET Consumers
    BY Countable
<1> QED
    BY <1>1, Countable, FS_Subset

LEMMA SetsOfConsumers ==
    /\ OpenSet \subseteq Consumers /\ Departed \subseteq Consumers /\ OpenSet \cap Departed = {}
    /\ \A s \in Slots : Readers(s) \subseteq Consumers
    BY DEF OpenSet, Departed, Readers

\* Where nobody is counted, nobody has a lease.
LEMMA UncountedUnread ==
    ASSUME ReadersCounted, NEW s \in Slots, state[s] = "COMMITTED", readers[s] = 0
    PROVE  Readers(s) = {}
<1>1. Cardinality(Readers(s)) <= 0
    BY DEF ReadersCounted
<1>2. IsFiniteSet(Readers(s)) /\ Cardinality(Readers(s)) \in Nat
    BY SetsOfConsumers, Countable
<1>3. Cardinality(Readers(s)) = 0
    BY <1>1, <1>2
<1> QED
    BY <1>2, <1>3, FS_EmptySet

LEMMA Start == Init => IInv
<1> SUFFICES ASSUME Init PROVE IInv
    OBVIOUS
<1> USE ReferenceAssumption
<1>1. TypeOK
    BY DEF Init, TypeOK, Torn, NoSlot
<1>2. SeqInv /\ LeaseInv
    BY DEF Init, SeqInv, LeaseInv
<1>3. ReadersCounted
    BY DEF Init, ReadersCounted
<1>4. CountInv
  <2>1. OpenSet = {} /\ Departed = {}
    BY DEF Init, OpenSet, Departed
  <2> QED
    BY <2>1, FS_EmptySet DEF Init, CountInv
<1> QED
    BY <1>1, <1>2, <1>3, <1>4 DEF IInv

-----------------------------------------------------------------------------
(* Publishing.                                                             *)

LEMMA SelectKeeps == ASSUME IInv, Select PROVE IInv'
<1> USE DEF IInv
<1>1. PICK s \in Slots :
        /\ SelectSlot(s)
        /\ state' = [state EXCEPT ![s] = "WRITING"] /\ seq' = [seq EXCEPT ![s] = nextSeq]
        /\ readers' = [readers EXCEPT ![s] = count] /\ payload' = [payload EXCEPT ![s] = Torn]
        /\ pslot' = s
    BY DEF Select
<1>2. /\ pst = "idle" /\ pst' = "copying" /\ nextSeq <= LastSeq
      /\ UNCHANGED <<nextSeq, count, cst, last, leases, views>>
    BY DEF Select, Unlocked, consumerVars
<1>3. state[s] = "FREE" \/ (state[s] = "COMMITTED" /\ readers[s] = 0)
    BY <1>1 DEF SelectSlot, Unread
<1>4. \A c \in Consumers : \A l \in leases[c] : l.slot # s
  <2>1. CASE state[s] = "FREE"
    BY <2>1 DEF LeaseInv
  <2>2. CASE state[s] = "COMMITTED" /\ readers[s] = 0
    BY <2>2, UncountedUnread DEF Readers
  <2> QED
    BY <1>3, <2>1, <2>2
<1>5. /\ state'[s] = "WRITING" /\ seq'[s] = nextSeq /\ readers'[s] = count
      /\ \A t \in Slots \ {s} : /\ state'[t] = state[t] /\ seq'[t] = seq[t]
                                /\ readers'[t] = readers[t] /\ payload'[t] = payload[t]
    BY <1>1 DEF TypeOK
<1>6. TypeOK'
    BY <1>1, <1>2, SlotNumbers, ReferenceAssumption DEF TypeOK, Torn
<1>7. SeqInv'
    BY <1>1, <1>2, <1>5 DEF SeqInv
<1>8. LeaseInv'
  <2>1. \A c \in Consumers : \A l \in leases[c] : l.slot \in Slots
    BY DEF TypeOK, Leases
  <2> QED
    BY <1>2, <1>4, <1>5, <2>1 DEF LeaseInv
<1>9. CountInv'
    BY <1>1, <1>2, <1>5 DEF CountInv, OpenSet, Departed
<1>10. ReadersCounted'
  <2>1. \A t \in Slots \ {s} : Readers(t)' = Readers(t)
    BY <1>2, <1>5 DEF Readers
  <2>2. Departed' = Departed
    BY <1>2 DEF Departed
  <2> QED
    BY <1>5, <2>1, <2>2 DEF ReadersCounted
<1> QED
    BY <1>6, <1>7, <1>8, <1>9, <1>10

LEMMA CommitKeeps == ASSUME IInv, Commit PROVE IInv'
<1> USE DEF IInv
<1> DEFINE s == pslot
<1>1. /\ pst = "copying" /\ pst' = "committed" /\ payload' = [payload EXCEPT ![s] = nextSeq]
      /\ state' = [state EXCEPT ![s] = "COMMITTED"]
      /\ UNCHANGED <<seq, readers, nextSeq, count, pslot, cst, last, leases, views>>
    BY DEF Commit, consumerVars
<1>2. s \in Slots
    BY <1>1 DEF TypeOK, NoSlot, Slots
<1>3. state[s] = "WRITING" /\ seq[s] = nextSeq /\ nextSeq <= LastSeq
    BY <1>1 DEF SeqInv
<1>4. /\ state'[s] = "COMMITTED" /\ payload'[s] = nextSeq
      /\ \A t \in Slots \ {s} : state'[t] = state[t] /\ payload'[t] = payload[t]
    BY <1>1, <1>2 DEF TypeOK
<1>5. TypeOK'
    BY <1>1, <1>3, ReferenceAssumption DEF TypeOK
<1>6. SeqInv'
  <2>1. \A t \in Slots \ {s} : state[t] = "COMMITTED" => seq[t] < nextSeq
    BY <1>1 DEF SeqInv
  <2>2. nextSeq \in Nat /\ seq \in [Slots -> Nat]
    BY DEF TypeOK
  <2> HIDE DEF s
  <2>3. \A t \in Slots : state'[t] = "COMMITTED" =>
            /\ payload'[t] = seq[t]
            /\ seq[t] < nextSeq \/ (t = s /\ seq[t] = nextSeq)
    BY <1>3, <1>4, <2>1 DEF SeqInv
  <2>4. \A t, u \in Slots : state'[t] = "COMMITTED" /\ state'[u] = "COMMITTED" /\ seq[t] = seq[u]
                              => t = u
    BY <1>2, <1>3, <1>4, <2>1, <2>2 DEF SeqInv
  <2> QED
    BY <1>1, <1>3, <1>4, <2>3, <2>4 DEF SeqInv, s
<1>7. LeaseInv'
  <2>1. \A c \in Consumers : \A l \in leases[c] : l.slot \in Slots /\ l.slot # s
    BY <1>3 DEF TypeOK, Leases, LeaseInv
  <2> QED
    BY <1>1, <1>4, <2>1 DEF LeaseInv
<1>8. CountInv'
    BY <1>1 DEF CountInv, OpenSet, Departed
<1>9. ReadersCounted'
  <2>1. Departed' = Departed /\ \A t \in Slots : Readers(t)' = Readers(t)
    BY <1>1 DEF Departed, Readers
  <2>2. Readers(s) = OpenSet
    BY <1>3 DEF Readers, OpenSet, LeaseInv, SeqInv
  <2> QED
    BY <1>1, <1>4, <2>1, <2>2 DEF ReadersCounted, CountInv
<1> QED
    BY <1>5, <1>6, <1>7, <1>8, <1>9

LEMMA AdvanceKeeps == ASSUME IInv, Advance PROVE IInv'
<1> USE DEF IInv
<1>1. /\ pst = "committed" /\ pst' = "idle" /\ nextSeq' = nextSeq + 1 /\ pslot' = NoSlot
      /\ UNCHANGED <<state, seq, readers, payload, count, cst, last, leases, views>>
    BY DEF Advance, slotVars, consumerVars
<1>2. nextSeq <= LastSeq /\ nextSeq \in Nat
    BY <1>1 DEF SeqInv, TypeOK
<1>3. TypeOK'
    BY <1>1, <1>2, ReferenceAssumption DEF TypeOK, NoSlot
<1>4. SeqInv'
  <2>1. seq \in [Slots -> Nat] /\ last \in [Consumers -> Nat]
    BY DEF TypeOK
  <2>2. \A s \in Slots : state[s] = "COMMITTED" => seq[s] < nextSeq + 1
    BY <1>2, <2>1 DEF SeqInv
  <2>3. \A c \in Consumers : last[c] < nextSeq + 1
    BY <1>2, <2>1 DEF SeqInv
  <2> QED
    BY <1>1, <2>2, <2>3 DEF SeqInv
<1>5. LeaseInv' /\ CountInv'
    BY <1>1 DEF LeaseInv, CountInv, OpenSet, Departed
<1>6. ReadersCounted'
    BY <1>1 DEF ReadersCounted, Readers, Departed
<1> QED
    BY <1>3, <1>4, <1>5, <1>6

LEMMA InterruptKeeps == ASSUME CommitsAdvance, IInv, Interrupt PROVE IInv'
<1> USE DEF IInv
<1>1. /\ pst = "copying" /\ pst' = "idle" /\ pslot' = NoSlot
      /\ UNCHANGED <<state, seq, readers, payload, nextSeq, count, cst, last, leases, views>>
    BY ReferenceAssumption DEF Interrupt, CommitsAdvance, slotVars, consumerVars
<1>2. TypeOK'
    BY <1>1, ReferenceAssumption DEF TypeOK, NoSlot
<1>3. SeqInv' /\ LeaseInv' /\ CountInv'
    BY <1>1 DEF SeqInv, LeaseInv, CountInv, OpenSet, Departed
<1>4. ReadersCounted'
    BY <1>1 DEF ReadersCounted, Readers, Departed
<1> QED
    BY <1>2, <1>3, <1>4

-----------------------------------------------------------------------------
(* Consumers and leases.                                                   *)

\* The sets of Readers and of the departed, in the form the counts need them.
LEMMA Members ==
    /\ \A s \in Slots : \A d : d \in Readers(s) <=>
          d \in Consumers /\ ((\E l \in leases[d] : l.slot = s) \/ (cst[d] = "open" /\ seq[s] > last[d]))
    /\ \A d : d \in OpenSet <=> d \in Consumers /\ cst[d] = "open"
    /\ \A d : d \in Departed <=> d \in Consumers /\ cst[d] \in {"closed", "dead"}
    BY DEF Readers, OpenSet, Departed

LEMMA OpenKeeps == ASSUME IInv, NEW c \in Consumers, Open(c) PROVE IInv'
<1> USE DEF IInv
<1>1. /\ pst = "idle" /\ cst[c] = "new" /\ count < MaxConsumers /\ count' = count + 1
      /\ cst' = [cst EXCEPT ![c] = "open"] /\ last' = [last EXCEPT ![c] = nextSeq - 1]
      /\ UNCHANGED <<state, seq, readers, payload, nextSeq, pst, pslot, leases, views>>
    BY DEF Open, Unlocked, SubscribeAt, slotVars, publishVars
<1>2. /\ cst'[c] = "open" /\ last'[c] = nextSeq - 1
      /\ \A d \in Consumers \ {c} : cst'[d] = cst[d] /\ last'[d] = last[d]
    BY <1>1 DEF TypeOK
<1>3. nextSeq \in Nat /\ nextSeq >= 1 /\ nextSeq <= LastSeq + 1 /\ seq \in [Slots -> Nat]
      /\ count \in Nat
    BY ReferenceAssumption DEF TypeOK
<1>4. TypeOK'
  <2>1. nextSeq - 1 \in 0 .. LastSeq /\ count + 1 \in 0 .. MaxConsumers
    BY <1>1, <1>3, ReferenceAssumption
  <2> QED
    BY <1>1, <2>1 DEF TypeOK
<1>5. SeqInv'
  <2>1. \A d \in Consumers : last'[d] < nextSeq
    BY <1>2, <1>3 DEF SeqInv
  <2> QED
    BY <1>1, <2>1 DEF SeqInv
<1>6. LeaseInv'
    BY <1>1, <1>2 DEF LeaseInv
<1>7. c \notin OpenSet /\ c \notin Departed /\ OpenSet' = OpenSet \cup {c} /\ Departed' = Departed
    BY <1>1, <1>2 DEF OpenSet, Departed
<1>8. CountInv'
  <2>1. /\ Cardinality(OpenSet \cup {c}) = Cardinality(OpenSet) + 1
        /\ Cardinality((OpenSet \cup Departed) \cup {c}) = Cardinality(OpenSet \cup Departed) + 1
    BY <1>7, SetsOfConsumers, Countable, FS_AddElement
  <2>2. OpenSet' \cup Departed' = (OpenSet \cup Departed) \cup {c}
    BY <1>7
  <2>3. Cardinality(OpenSet) \in Nat /\ Cardinality(OpenSet \cup Departed) \in Nat
    BY SetsOfConsumers, Countable
  <2>4. Cardinality(OpenSet') <= count + 1 /\ count + 1 <= Cardinality(OpenSet' \cup Departed')
    BY <1>3, <1>7, <2>1, <2>2, <2>3 DEF CountInv
  <2> QED
    BY <1>1, <2>4 DEF CountInv
<1>9. ReadersCounted'
  <2>1. ASSUME NEW s \in Slots, state[s] = "COMMITTED" PROVE Readers(s)' = Readers(s)
    <3>1. seq[s] < nextSeq
      BY <1>1, <2>1 DEF SeqInv
    <3>2. ~(seq[s] > nextSeq - 1) /\ leases[c] = {}
      BY <1>1, <1>3, <3>1 DEF LeaseInv
    <3> QED
      BY <1>1, <1>2, <3>2 DEF Readers
  <2> QED
    BY <1>1, <1>7, <2>1 DEF ReadersCounted
<1> QED
    BY <1>4, <1>5, <1>6, <1>8, <1>9

LEMMA TakeKeeps == ASSUME IInv, NEW c \in Consumers, Take(c) PROVE IInv'
<1> USE DEF IInv
<1>1. PICK s \in Slots :
        /\ state[s] = "COMMITTED" /\ seq[s] > last[c]
        /\ \A t \in Slots : state[t] = "COMMITTED" /\ seq[t] > last[c] =>
              seq[s] < seq[t] \/ (seq[s] = seq[t] /\ s <= t)
        /\ last' = [last EXCEPT ![c] = seq[s]]
        /\ leases' = IF readers[s] = 0 THEN leases
                     ELSE [leases EXCEPT ![c] = @ \cup {[slot |-> s, seq |-> seq[s]]}]
    BY DEF Take, Candidates
<1>2. /\ pst = "idle" /\ cst[c] = "open"
      /\ UNCHANGED <<state, seq, readers, payload, nextSeq, pst, pslot, count, cst, views>>
    BY DEF Take, Unlocked, slotVars, publishVars
<1> DEFINE n == [slot |-> s, seq |-> seq[s]]
<1>3. readers[s] # 0
    BY <1>1, <1>2, UncountedUnread DEF Readers
<1>4. /\ last'[c] = seq[s] /\ leases'[c] = leases[c] \cup {n}
      /\ \A d \in Consumers \ {c} : last'[d] = last[d] /\ leases'[d] = leases[d]
    BY <1>1, <1>3 DEF TypeOK
<1>5. seq \in [Slots -> Nat] /\ last \in [Consumers -> Nat] /\ nextSeq \in Nat
    BY DEF TypeOK
<1>6. TypeOK'
  <2>1. seq[s] >= 1 /\ seq[s] \in 1 .. LastSeq
    BY <1>1, <1>5, ReferenceAssumption DEF TypeOK
  <2>2. n \in Leases
    BY <2>1 DEF Leases
  <2>3. leases' = [leases EXCEPT ![c] = @ \cup {n}]
    BY <1>1, <1>3
  <2> HIDE DEF n
  <2>4. leases' \in [Consumers -> SUBSET Leases]
    BY <2>2, <2>3 DEF TypeOK
  <2> QED
    BY <1>1, <1>2, <2>1, <2>4 DEF TypeOK
<1>7. SeqInv'
  <2>1. seq[s] < nextSeq
    BY <1>1, <1>2 DEF SeqInv
  <2> QED
    BY <1>2, <1>4, <2>1 DEF SeqInv
<1>8. LeaseInv'
  <2>1. n.slot = s /\ n.seq = seq[s]
    OBVIOUS
  <2>2. \A l \in leases[c] : l.seq <= seq[s]
    <3>1. \A l \in leases[c] : l.seq \in Nat
      BY DEF TypeOK, Leases
    <3> QED
      BY <1>1, <1>5, <3>1 DEF LeaseInv
  <2> HIDE DEF n
  <2>3. ASSUME NEW d \in Consumers
        PROVE  /\ views[d] \subseteq leases'[d]
               /\ cst[d] = "new" => leases'[d] = {}
               /\ \A l \in leases'[d] :
                     state[l.slot] = "COMMITTED" /\ seq[l.slot] = l.seq /\ l.seq <= last'[d]
    <3>1. CASE d = c
      BY <1>1, <1>2, <1>4, <1>5, <2>1, <2>2, <3>1 DEF LeaseInv
    <3>2. CASE d # c
      BY <1>4, <3>2 DEF LeaseInv
    <3> QED
      BY <3>1, <3>2
  <2> QED
    BY <1>2, <2>3 DEF LeaseInv
<1>9. CountInv'
    BY <1>2 DEF CountInv, OpenSet, Departed
<1>10. ReadersCounted'
  <2>1. Departed' = Departed
    BY <1>2 DEF Departed
  <2>2. n.slot = s
    OBVIOUS
  <2> HIDE DEF n
  <2>3. ASSUME NEW t \in Slots, state[t] = "COMMITTED" PROVE Readers(t)' = Readers(t)
    <3>1. CASE t = s
      BY <1>1, <1>2, <1>4, <2>2, <3>1 DEF Readers
    <3>2. CASE t # s
      <4>1. seq[t] # seq[s]
        BY <1>1, <2>3, <3>2 DEF SeqInv
      <4>2. seq[t] > last[c] <=> seq[t] > seq[s]
        BY <1>1, <1>5, <2>3, <4>1
      <4> QED
        BY <1>2, <1>4, <2>2, <3>2, <4>2 DEF Readers
    <3> QED
      BY <3>1, <3>2
  <2> QED
    BY <1>2, <2>1, <2>3 DEF ReadersCounted
<1> QED
    BY <1>6, <1>7, <1>8, <1>9, <1>10

\* An array over a lease comes or goes.
LEMMA ViewsKeep ==
    ASSUME IInv, NEW c \in Consumers, NEW V \in SUBSET leases[c],
           views' = [views EXCEPT ![c] = V],
           UNCHANGED <<slotVars, publishVars, count, cst, last, leases>>
    PROVE  IInv'
<1> USE DEF IInv
<1>1. UNCHANGED <<state, seq, readers, payload, nextSeq, count, pst, pslot, cst, last, leases>>
    BY DEF slotVars, publishVars
<1>2. \A d \in Consumers : views'[d] \subseteq leases[d]
    BY DEF LeaseInv, TypeOK
<1>3. TypeOK'
    BY <1>1 DEF TypeOK
<1>4. SeqInv' /\ CountInv' /\ LeaseInv'
    BY <1>1, <1>2 DEF SeqInv, CountInv, LeaseInv, OpenSet, Departed
<1>5. ReadersCounted'
    BY <1>1 DEF ReadersCounted, Readers, Departed
<1> QED
    BY <1>3, <1>4, <1>5

LEMMA ReleaseKeeps ==
    ASSUME IInv, NEW c \in Consumers, NEW l \in leases[c], Release(c, l)
    PROVE  IInv'
<1> USE DEF IInv
<1> DEFINE s == l.slot
<1>1. l \in Leases /\ s \in Slots
    BY DEF TypeOK, Leases
<1>2. state[s] = "COMMITTED" /\ seq[s] = l.seq /\ l.seq <= last[c]
    BY DEF LeaseInv
<1>3. c \in Readers(s)
    BY DEF Readers
<1>4. /\ IsFiniteSet(Readers(s)) /\ Cardinality(Readers(s)) \in Nat
      /\ IsFiniteSet(Readers(s) \cup Departed) /\ Cardinality(Readers(s) \cup Departed) \in Nat
    BY <1>1, SetsOfConsumers, Countable
<1>5. readers[s] \in 1 .. MaxConsumers
  <2>1. Cardinality(Readers(s)) <= readers[s] /\ readers[s] \in 0 .. MaxConsumers
    BY <1>1, <1>2 DEF ReadersCounted, TypeOK
  <2>2. Cardinality(Readers(s)) # 0
    BY <1>3, <1>4, FS_EmptySet
  <2> QED
    BY <1>4, <2>1, <2>2, ReferenceAssumption
<1>6. /\ pst = "idle" /\ l \notin views[c]
      /\ leases' = [leases EXCEPT ![c] = @ \ {l}]
      /\ readers' = [readers EXCEPT ![s] = readers[s] - 1]
      /\ UNCHANGED <<state, seq, payload, nextSeq, pst, pslot, count, cst, last, views>>
  <2>1. readers[s] # 0
    BY <1>5
  <2>2. readers' = [readers EXCEPT ![s] = IF readers[s] = 0 THEN 0 ELSE readers[s] - 1]
    BY <1>2 DEF Release
  <2> QED
    BY <2>1, <2>2 DEF Release, Unlocked, NotBorrowed, publishVars
<1> HIDE DEF s
<1>7. /\ leases'[c] = leases[c] \ {l} /\ \A d \in Consumers \ {c} : leases'[d] = leases[d]
      /\ readers'[s] = readers[s] - 1 /\ \A t \in Slots \ {s} : readers'[t] = readers[t]
    BY <1>1, <1>6 DEF TypeOK
<1>8. TypeOK'
  <2>1. readers[s] - 1 \in 0 .. MaxConsumers
    BY <1>5, ReferenceAssumption
  <2>2. readers' \in [Slots -> 0 .. MaxConsumers]
    BY <1>6, <2>1 DEF TypeOK
  <2>3. leases' \in [Consumers -> SUBSET Leases]
    BY <1>6 DEF TypeOK
  <2> QED
    BY <1>6, <2>2, <2>3 DEF TypeOK
<1>9. SeqInv' /\ CountInv'
    BY <1>6 DEF SeqInv, CountInv, OpenSet, Departed
<1>10. LeaseInv'
    BY <1>6, <1>7 DEF LeaseInv
<1>11. ReadersCounted'
  <2>1. Departed' = Departed
    BY <1>6 DEF Departed
  <2>2. \A t \in Slots \ {s} : state[t] = "COMMITTED" => Readers(t)' = Readers(t)
    <3>1. ASSUME NEW t \in Slots \ {s} PROVE Readers(t)' = Readers(t)
      BY <1>6, <1>7, <3>1 DEF Readers, s
    <3> QED
      BY <3>1
  <2>3. Readers(s)' = Readers(s) \ {c}
    <3>1. \A k \in leases[c] : k.slot = s => k = l
      <4>1. \A k \in leases[c] : k \in Leases /\ seq[k.slot] = k.seq
        BY DEF LeaseInv, TypeOK
      <4> QED
        BY <1>1, <1>2, <4>1 DEF Leases, s
    <3>2. ~(seq[s] > last[c])
      <4>1. seq[s] \in Nat /\ last[c] \in Nat
        BY <1>1 DEF TypeOK
      <4> QED
        BY <1>2, <4>1
    <3>3. c \notin Readers(s)'
      BY <1>6, <1>7, <3>1, <3>2 DEF Readers
    <3>4. \A d \in Consumers \ {c} : d \in Readers(s)' <=> d \in Readers(s)
      BY <1>6, <1>7 DEF Readers
    <3>5. Readers(s)' \subseteq Consumers /\ Readers(s) \subseteq Consumers
      BY DEF Readers
    <3> QED
      BY <3>3, <3>4, <3>5
  <2>4. /\ Cardinality(Readers(s)') <= readers'[s]
        /\ readers'[s] <= Cardinality(Readers(s)' \cup Departed')
    <3>1. Cardinality(Readers(s)) <= readers[s] /\ readers[s] <= Cardinality(Readers(s) \cup Departed)
      BY <1>1, <1>2 DEF ReadersCounted
    <3>2. Cardinality(Readers(s) \ {c}) = Cardinality(Readers(s)) - 1
      BY <1>3, <1>4, FS_RemoveElement
    <3>3. readers[s] \in Nat
      BY <1>5, ReferenceAssumption
    <3>4. Cardinality(Readers(s)') = Cardinality(Readers(s)) - 1
      BY <2>3, <3>2
    <3>5. CASE c \in Departed
      <4>1. (Readers(s) \ {c}) \cup Departed = Readers(s) \cup Departed
        BY <3>5
      <4>2. Cardinality(Readers(s)' \cup Departed') = Cardinality(Readers(s) \cup Departed)
        BY <2>1, <2>3, <4>1
      <4> QED
        BY <1>4, <1>7, <3>1, <3>3, <3>4, <4>2
    <3>6. CASE c \notin Departed
      <4>1. (Readers(s) \ {c}) \cup Departed = (Readers(s) \cup Departed) \ {c}
        BY <3>6
      <4>2. Cardinality((Readers(s) \cup Departed) \ {c}) = Cardinality(Readers(s) \cup Departed) - 1
        BY <1>3, <1>4, FS_RemoveElement
      <4>3. Cardinality(Readers(s)' \cup Departed') = Cardinality(Readers(s) \cup Departed) - 1
        BY <2>1, <2>3, <4>1, <4>2
      <4> QED
        BY <1>4, <1>7, <3>1, <3>3, <3>4, <4>3
    <3> QED
      BY <3>5, <3>6
  <2>5. ASSUME NEW t \in Slots, state[t] = "COMMITTED"
        PROVE  /\ Cardinality(Readers(t)') <= readers'[t]
               /\ readers'[t] <= Cardinality(Readers(t)' \cup Departed')
    <3>1. CASE t = s
      BY <2>4, <3>1
    <3>2. CASE t # s
      BY <1>7, <2>1, <2>2, <2>5, <3>2 DEF ReadersCounted
    <3> QED
      BY <3>1, <3>2
  <2> QED
    BY <1>6, <2>5 DEF ReadersCounted
<1> QED
    BY <1>8, <1>9, <1>10, <1>11

\* One consumer leaves: nobody new is counted on, and who is not counted on any
\* more is among those who left.
LEMMA LeavingKeepsReaders ==
    ASSUME IInv, NEW c \in Consumers, c \in Departed',
           UNCHANGED <<state, seq, readers, last>>,
           leases'[c] \subseteq leases[c],
           \A d \in Consumers \ {c} : leases'[d] = leases[d] /\ cst'[d] = cst[d]
    PROVE  ReadersCounted'
<1> USE DEF IInv
<1>1. \A s \in Slots : /\ Readers(s)' \subseteq Readers(s)
                       /\ Readers(s) \cup Departed \subseteq Readers(s)' \cup Departed'
    BY DEF Readers, Departed
<1>2. ASSUME NEW s \in Slots, state[s] = "COMMITTED"
      PROVE  /\ Cardinality(Readers(s)') <= readers[s]
             /\ readers[s] <= Cardinality(Readers(s)' \cup Departed')
  <2>1. Readers(s)' \cup Departed' \in SUBSET Consumers /\ Readers(s) \in SUBSET Consumers
    BY DEF Readers, Departed
  <2>2. /\ Cardinality(Readers(s)') <= Cardinality(Readers(s))
        /\ Cardinality(Readers(s)') \in Nat /\ Cardinality(Readers(s)) \in Nat
    BY <1>1, <2>1, Fewer
  <2>3. /\ Cardinality(Readers(s) \cup Departed) <= Cardinality(Readers(s)' \cup Departed')
        /\ Cardinality(Readers(s) \cup Departed) \in Nat
        /\ Cardinality(Readers(s)' \cup Departed') \in Nat
    BY <1>1, <2>1, Fewer
  <2>4. readers[s] \in Nat
    BY ReferenceAssumption DEF TypeOK
  <2> QED
    BY <1>2, <2>2, <2>3, <2>4 DEF ReadersCounted
<1> QED
    BY <1>2 DEF ReadersCounted

LEMMA CloseKeeps == ASSUME IInv, NEW c \in Consumers, Close(c) PROVE IInv'
<1> USE DEF IInv
<1>1. /\ pst = "idle" /\ cst[c] = "open" /\ cst' = [cst EXCEPT ![c] = "closed"]
      /\ count' = IF count = 0 THEN 0 ELSE count - 1
      /\ UNCHANGED <<state, seq, readers, payload, nextSeq, pst, pslot, last, leases, views>>
    BY DEF Close, Unlocked, slotVars, publishVars
<1>2. cst'[c] = "closed" /\ \A d \in Consumers \ {c} : cst'[d] = cst[d]
    BY <1>1 DEF TypeOK
<1>3. c \in OpenSet /\ OpenSet' = OpenSet \ {c} /\ Departed' = Departed \cup {c}
    BY <1>1, <1>2 DEF OpenSet, Departed
<1>4. /\ IsFiniteSet(OpenSet) /\ Cardinality(OpenSet) \in Nat
      /\ Cardinality(OpenSet \cup Departed) \in Nat
    BY SetsOfConsumers, Countable
<1>5. Cardinality(OpenSet') = Cardinality(OpenSet) - 1 /\ Cardinality(OpenSet) >= 1
  <2>1. Cardinality(OpenSet) # 0
    BY <1>3, <1>4, FS_EmptySet
  <2>2. Cardinality(OpenSet \ {c}) = Cardinality(OpenSet) - 1
    BY <1>3, <1>4, FS_RemoveElement
  <2>3. Cardinality(OpenSet') = Cardinality(OpenSet \ {c})
    BY <1>3
  <2> QED
    BY <1>4, <2>1, <2>2, <2>3
<1>6. count \in Nat /\ count >= 1 /\ count' = count - 1
  <2>1. count \in Nat
    BY ReferenceAssumption DEF TypeOK
  <2> QED
    BY <1>1, <1>4, <1>5, <2>1 DEF CountInv
<1>7. TypeOK'
  <2>1. count' \in 0 .. MaxConsumers
    BY <1>6, ReferenceAssumption DEF TypeOK
  <2> QED
    BY <1>1, <2>1 DEF TypeOK
<1>8. SeqInv'
    BY <1>1 DEF SeqInv
<1>9. LeaseInv'
    BY <1>1, <1>2 DEF LeaseInv
<1>10. CountInv'
  <2>1. OpenSet' \cup Departed' = OpenSet \cup Departed
    BY <1>3
  <2>2. Cardinality(OpenSet' \cup Departed') = Cardinality(OpenSet \cup Departed)
    BY <2>1
  <2>3. Cardinality(OpenSet) <= count /\ count <= Cardinality(OpenSet \cup Departed)
    BY DEF CountInv
  <2>4. Cardinality(OpenSet') <= count' /\ count' <= Cardinality(OpenSet' \cup Departed')
    BY <1>4, <1>5, <1>6, <2>2, <2>3
  <2> QED
    BY <1>1, <2>4 DEF CountInv
<1>11. ReadersCounted'
    BY <1>1, <1>2, <1>3, LeavingKeepsReaders
<1> QED
    BY <1>7, <1>8, <1>9, <1>10, <1>11

LEMMA DieKeeps == ASSUME IInv, NEW c \in Consumers, Die(c) PROVE IInv'
<1> USE DEF IInv
<1>1. /\ cst[c] \in {"open", "closed"} /\ cst' = [cst EXCEPT ![c] = "dead"]
      /\ leases' = [leases EXCEPT ![c] = {}] /\ views' = [views EXCEPT ![c] = {}]
      /\ UNCHANGED <<state, seq, readers, payload, nextSeq, pst, pslot, count, last>>
    BY DEF Die, slotVars, publishVars
<1>2. /\ cst'[c] = "dead" /\ leases'[c] = {} /\ views'[c] = {}
      /\ \A d \in Consumers \ {c} : cst'[d] = cst[d] /\ leases'[d] = leases[d] /\ views'[d] = views[d]
    BY <1>1 DEF TypeOK
<1>3. c \in Departed' /\ OpenSet' \subseteq OpenSet /\ OpenSet' \cup Departed' = OpenSet \cup Departed
    BY <1>1, <1>2 DEF OpenSet, Departed
<1>4. TypeOK'
    BY <1>1 DEF TypeOK
<1>5. SeqInv'
    BY <1>1 DEF SeqInv
<1>6. LeaseInv'
  <2>1. ASSUME NEW d \in Consumers
        PROVE  /\ views'[d] \subseteq leases'[d]
               /\ cst'[d] = "new" => leases'[d] = {}
               /\ \A l \in leases'[d] :
                     state[l.slot] = "COMMITTED" /\ seq[l.slot] = l.seq /\ l.seq <= last[d]
    <3>1. CASE d = c
      BY <1>2, <3>1
    <3>2. CASE d # c
      BY <1>2, <3>2 DEF LeaseInv
    <3> QED
      BY <3>1, <3>2
  <2> QED
    BY <1>1, <2>1 DEF LeaseInv
<1>7. CountInv'
  <2>1. /\ Cardinality(OpenSet') <= Cardinality(OpenSet)
        /\ Cardinality(OpenSet') \in Nat /\ Cardinality(OpenSet) \in Nat
    BY <1>3, SetsOfConsumers, Fewer
  <2>2. count \in Nat /\ (pst = "copying" => readers[pslot] \in Nat)
    BY ReferenceAssumption DEF TypeOK, NoSlot, Slots
  <2> QED
    BY <1>1, <1>3, <2>1, <2>2 DEF CountInv
<1>8. ReadersCounted'
    BY <1>1, <1>2, <1>3, LeavingKeepsReaders
<1> QED
    BY <1>4, <1>5, <1>6, <1>7, <1>8

-----------------------------------------------------------------------------
(* The theorems.                                                           *)

LEMMA Step == ASSUME CommitsAdvance, IInv, [Next]_vars PROVE IInv'
<1>1. CASE Select
    BY <1>1, SelectKeeps
<1>2. CASE Commit
    BY <1>2, CommitKeeps
<1>3. CASE Advance
    BY <1>3, AdvanceKeeps
<1>4. CASE Interrupt
    BY <1>4, InterruptKeeps
<1>5. CASE \E c \in Consumers : Open(c)
    BY <1>5, OpenKeeps
<1>6. CASE \E c \in Consumers : Take(c)
    BY <1>6, TakeKeeps
<1>7. ASSUME NEW c \in Consumers, NEW l \in leases[c], View(c, l) PROVE IInv'
  <2>1. views[c] \cup {l} \in SUBSET leases[c]
    BY DEF IInv, LeaseInv
  <2> QED
    BY <1>7, <2>1, ViewsKeep DEF View
<1>8. ASSUME NEW c \in Consumers, NEW l \in views[c], DropView(c, l) PROVE IInv'
  <2>1. views[c] \ {l} \in SUBSET leases[c]
    BY DEF IInv, LeaseInv
  <2> QED
    BY <1>8, <2>1, ViewsKeep DEF DropView
<1>9. ASSUME NEW c \in Consumers, NEW l \in leases[c], Release(c, l) PROVE IInv'
    BY <1>9, ReleaseKeeps
<1>10. CASE \E c \in Consumers : Close(c)
    BY <1>10, CloseKeeps
<1>11. CASE \E c \in Consumers : Die(c)
    BY <1>11, DieKeeps
<1>12. CASE UNCHANGED vars
  <2>1. /\ UNCHANGED <<state, seq, readers, payload, nextSeq, count>>
        /\ UNCHANGED <<pst, pslot, cst, last, leases, views>>
    BY <1>12 DEF vars
  <2>2. TypeOK' /\ SeqInv' /\ LeaseInv'
    BY <2>1 DEF IInv, TypeOK, SeqInv, LeaseInv
  <2>3. CountInv' /\ ReadersCounted'
    BY <2>1 DEF IInv, CountInv, ReadersCounted, Readers, OpenSet, Departed
  <2> QED
    BY <2>2, <2>3 DEF IInv
<1> QED
    BY <1>1, <1>2, <1>3, <1>4, <1>5, <1>6, <1>7, <1>8, <1>9, <1>10, <1>11, <1>12 DEF Next

LEMMA Invariant == ASSUME CommitsAdvance PROVE Spec => []IInv
<1>1. CommitsAdvance
    OBVIOUS
<1>2. IInv /\ [Next]_vars => IInv'
    BY <1>1, Step
<1> QED
    BY <1>2, Start, PTL DEF Spec

\* The fields of the shared header and of the handles keep their types: publish
\* and the consumers' operations leave no slot, count or lease ill-formed.
THEOREM TypeCorrect == ASSUME CommitsAdvance PROVE Spec => []TypeOK
<1>1. IInv => TypeOK
    BY DEF IInv
<1> QED
    BY <1>1, Invariant, PTL

\* A lease, and an array over one, keeps its publication until it is let go,
\* whatever publish, the other consumers, a death or an interrupted copy do.
THEOREM ViewsKept == ASSUME CommitsAdvance PROVE Spec => []ViewsUndisturbed
<1>1. IInv => ViewsUndisturbed
  <2> SUFFICES ASSUME IInv, NEW c \in Consumers, NEW l \in leases[c] \cup views[c]
               PROVE  state[l.slot] = "COMMITTED" /\ seq[l.slot] = l.seq /\ payload[l.slot] = l.seq
    BY DEF ViewsUndisturbed
  <2>1. l \in leases[c] /\ l.slot \in Slots
    BY DEF IInv, LeaseInv, TypeOK, Leases
  <2> QED
    BY <2>1 DEF IInv, LeaseInv, SeqInv
<1> QED
    BY <1>1, Invariant, PTL

\* The reader count of a committed slot covers everyone who holds it or will be
\* given it, and beyond them only consumers that closed or died.
THEOREM CountsCover == ASSUME CommitsAdvance PROVE Spec => []ReadersCounted
<1>1. IInv => ReadersCounted
    BY DEF IInv
<1> QED
    BY <1>1, Invariant, PTL

-----------------------------------------------------------------------------
(* The reference ring is a multicast: what a step does to those who are     *)
(* open, to the publication being made, and to what is due and held, is a   *)
(* step of Multicast, or none of it changes.                                *)

LEMMA MulticastStart == Init => Contract!Init
<1> SUFFICES ASSUME Init PROVE Contract!Init
    OBVIOUS
<1>1. OpenConsumers = {} /\ Addressees = {}
    BY DEF Init, OpenConsumers, Addressees
<1>2. \A c \in Consumers : Due(c) = {} /\ Earlier(c) = {} /\ HeldBy(c) = {}
    BY DEF Init, Due, Earlier, HeldBy
<1> QED
    BY <1>1, <1>2 DEF Contract!Init

\* What is due to a consumer is as before if the committed slots are.
LEMMA DueStays ==
    ASSUME NEW c \in Consumers, cst'[c] = cst[c], last'[c] = last[c],
           \A s \in Slots : /\ state'[s] = "COMMITTED" <=> state[s] = "COMMITTED"
                            /\ state[s] = "COMMITTED" => seq'[s] = seq[s]
    PROVE  Due(c)' = Due(c) /\ Earlier(c)' = Earlier(c)
<1>1. Due(c)' = Due(c)
    BY DEF Due, Candidates
<1>2. \A s \in Due(c) : seq'[s] = seq[s]
    BY DEF Due, Candidates
<1> QED
    BY <1>1, <1>2 DEF Earlier

\* A slot that is to be overwritten is due to nobody and held by nobody.
LEMMA SelectBegins == ASSUME IInv, Select PROVE Contract!Begin
<1> USE DEF IInv
<1>1. PICK s \in Slots :
        /\ SelectSlot(s)
        /\ state' = [state EXCEPT ![s] = "WRITING"] /\ seq' = [seq EXCEPT ![s] = nextSeq]
    BY DEF Select
<1>2. pst = "idle" /\ pst' = "copying" /\ UNCHANGED <<cst, last, leases, views>>
    BY DEF Select, Unlocked, consumerVars
<1>3. /\ state'[s] = "WRITING"
      /\ \A t \in Slots \ {s} : state'[t] = state[t] /\ seq'[t] = seq[t]
    BY <1>1 DEF TypeOK
<1>4. OpenConsumers' = OpenConsumers /\ Addressees = {} /\ Addressees' = OpenConsumers
    BY <1>2 DEF OpenConsumers, Addressees
<1>5. ASSUME NEW c \in Consumers
      PROVE  Due(c)' = Due(c) /\ Earlier(c)' = Earlier(c) /\ HeldBy(c)' = HeldBy(c)
  <2>1. s \notin Due(c)
    <3>1. state[s] = "FREE" \/ (state[s] = "COMMITTED" /\ readers[s] = 0)
        BY <1>1 DEF SelectSlot, Unread
    <3>2. state[s] = "COMMITTED" /\ readers[s] = 0 => c \notin Readers(s)
        BY UncountedUnread
    <3> QED
        BY <3>1, <3>2 DEF Due, Candidates, Readers
  <2>2. Due(c)' = Due(c)
    BY <1>2, <1>3, <2>1 DEF Due, Candidates
  <2>3. \A t \in Due(c) : seq'[t] = seq[t]
    BY <1>3, <2>1 DEF Due, Candidates
  <2> QED
    BY <1>2, <2>2, <2>3 DEF Earlier, HeldBy
<1> QED
    BY <1>4, <1>5 DEF Contract!Begin

LEMMA CommitPublishes == ASSUME IInv, Commit PROVE Contract!Publish(pslot)
<1> USE DEF IInv
<1> DEFINE s == pslot
<1>1. /\ pst = "copying" /\ pst' = "committed" /\ state' = [state EXCEPT ![s] = "COMMITTED"]
      /\ UNCHANGED <<seq, cst, last, leases, views>>
    BY DEF Commit, consumerVars
<1>2. s \in Slots
    BY <1>1 DEF TypeOK, NoSlot, Slots
<1>3. state[s] = "WRITING" /\ seq[s] = nextSeq
    BY <1>1 DEF SeqInv
<1>4. state'[s] = "COMMITTED" /\ \A t \in Slots \ {s} : state'[t] = state[t]
    BY <1>1, <1>2 DEF TypeOK
<1>5. /\ nextSeq \in Nat /\ seq \in [Slots -> Nat] /\ last \in [Consumers -> Nat]
      /\ \A c \in Consumers : last[c] < nextSeq
      /\ \A t \in Slots : state[t] = "COMMITTED" => seq[t] < nextSeq
    BY <1>1 DEF TypeOK, SeqInv
<1> HIDE DEF s
<1>6. \A c \in Consumers : s \notin Due(c) \cup HeldBy(c)
    BY <1>3 DEF Due, Candidates, HeldBy, LeaseInv
<1>7. /\ OpenConsumers' = OpenConsumers /\ Addressees = OpenConsumers /\ Addressees' = {}
      /\ \A c \in Consumers : HeldBy(c)' = HeldBy(c)
    BY <1>1 DEF OpenConsumers, Addressees, HeldBy
<1>8. ASSUME NEW c \in Consumers, c \notin OpenConsumers
      PROVE  Due(c)' = Due(c) /\ Earlier(c)' = Earlier(c)
    BY <1>1, <1>8 DEF OpenConsumers, Due, Earlier
<1>9. ASSUME NEW c \in Consumers, c \in OpenConsumers
      PROVE  Due(c)' = Due(c) \cup {s} /\ Earlier(c)' = Earlier(c) \cup (Due(c) \X {s})
  <2>1. Due(c)' = Due(c) \cup {s}
    BY <1>1, <1>2, <1>3, <1>4, <1>5, <1>9 DEF OpenConsumers, Due, Candidates
  <2>2. \A t \in Due(c) : seq[t] < seq[s] /\ ~(seq[s] < seq[t])
    BY <1>2, <1>3, <1>5, <1>9 DEF OpenConsumers, Due, Candidates
  <2>3. ~(seq[s] < seq[s])
    BY <1>3, <1>5
  <2>4. Earlier(c)' = {e \in (Due(c) \cup {s}) \X (Due(c) \cup {s}) : seq[e[1]] < seq[e[2]]}
    BY <1>1, <2>1 DEF Earlier
  <2>5. s \notin Due(c)
    BY <1>6, <1>9
  <2>6. ASSUME NEW e PROVE e \in Earlier(c)' <=> e \in Earlier(c) \cup (Due(c) \X {s})
    <3>1. CASE e \in (Due(c) \cup {s}) \X (Due(c) \cup {s})
      <4>1. PICK t \in Due(c) \cup {s}, u \in Due(c) \cup {s} : e = <<t, u>>
        BY <3>1
      <4>2. e \in Earlier(c)' <=> seq[t] < seq[u]
        BY <2>4, <4>1
      <4>3. e \in Earlier(c) <=> t \in Due(c) /\ u \in Due(c) /\ seq[t] < seq[u]
        BY <4>1 DEF Earlier
      <4>4. e \in Due(c) \X {s} <=> t \in Due(c) /\ u = s
        BY <4>1
      <4> QED
        BY <2>2, <2>3, <2>5, <4>2, <4>3, <4>4
    <3>2. CASE e \notin (Due(c) \cup {s}) \X (Due(c) \cup {s})
      BY <2>4, <3>2 DEF Earlier
    <3> QED
      BY <3>1, <3>2
  <2> QED
    BY <2>1, <2>6
<1>10. Contract!Publish(s)
    BY <1>6, <1>7, <1>8, <1>9 DEF Contract!Publish, Contract!Free
<1> QED
    BY <1>10 DEF s

LEMMA InterruptGivesUp == ASSUME CommitsAdvance, Interrupt PROVE Contract!GiveUp
<1>1. pst' = "idle" /\ UNCHANGED <<state, seq, cst, last, leases, views>>
    BY DEF Interrupt, slotVars, consumerVars
<1>2. OpenConsumers' = OpenConsumers /\ Addressees' = {} /\ \A c \in Consumers : HeldBy(c)' = HeldBy(c)
    BY <1>1 DEF OpenConsumers, Addressees, HeldBy
<1>3. \A c \in Consumers : Due(c)' = Due(c) /\ Earlier(c)' = Earlier(c)
    BY <1>1, DueStays
<1> QED
    BY <1>2, <1>3 DEF Contract!GiveUp

LEMMA OpenJoins == ASSUME IInv, NEW c \in Consumers, Open(c) PROVE Contract!Join(c)
<1> USE DEF IInv
<1>1. /\ pst = "idle" /\ cst[c] = "new" /\ cst'[c] = "open" /\ last'[c] = nextSeq - 1
      /\ \A d \in Consumers \ {c} : cst'[d] = cst[d] /\ last'[d] = last[d]
      /\ UNCHANGED <<state, seq, pst, leases, views>>
    BY DEF Open, Unlocked, SubscribeAt, slotVars, publishVars, TypeOK
<1>2. c \notin OpenConsumers /\ OpenConsumers' = OpenConsumers \cup {c} /\ UNCHANGED Addressees
    BY <1>1 DEF OpenConsumers, Addressees
<1>3. Due(c)' = {} /\ Due(c) = {}
  <2>1. \A s \in Slots : state[s] = "COMMITTED" => ~(seq[s] > nextSeq - 1)
    <3>1. nextSeq \in Nat /\ seq \in [Slots -> Nat]
        BY DEF TypeOK
    <3> QED
        BY <1>1, <3>1 DEF SeqInv
  <2> QED
    BY <1>1, <2>1 DEF Due, Candidates
<1>4. ASSUME NEW d \in Consumers
      PROVE  Due(d)' = Due(d) /\ Earlier(d)' = Earlier(d) /\ HeldBy(d)' = HeldBy(d)
  <2>1. CASE d = c
    BY <1>1, <1>3, <2>1 DEF Earlier, HeldBy
  <2>2. CASE d # c
    BY <1>1, <2>2, DueStays DEF HeldBy
  <2> QED
    BY <2>1, <2>2
<1> QED
    BY <1>2, <1>4 DEF Contract!Join

\* next takes what was published first of what is due, and never passes it over:
\* whatever is due is counted.
LEMMA TakeDelivers == ASSUME IInv, NEW c \in Consumers, Take(c) PROVE Contract!Deliver(c)
<1> USE DEF IInv
<1>1. PICK s \in Candidates(c) :
        /\ \A t \in Candidates(c) : seq[s] < seq[t] \/ (seq[s] = seq[t] /\ s <= t)
        /\ last' = [last EXCEPT ![c] = seq[s]]
        /\ leases' = IF readers[s] = 0 THEN leases
                     ELSE [leases EXCEPT ![c] = @ \cup {[slot |-> s, seq |-> seq[s]]}]
    BY DEF Take
<1>2. /\ pst = "idle" /\ cst[c] = "open" /\ UNCHANGED <<state, seq, pst, cst, views>>
      /\ Due(c) = Candidates(c) /\ s \in Slots /\ state[s] = "COMMITTED" /\ seq[s] > last[c]
    BY <1>1 DEF Take, Unlocked, slotVars, publishVars, Due, Candidates
<1> DEFINE n == [slot |-> s, seq |-> seq[s]]
<1>3. readers[s] # 0
    BY <1>1, <1>2, UncountedUnread DEF Readers
<1>4. /\ last'[c] = seq[s] /\ leases'[c] = leases[c] \cup {n} /\ n.slot = s
      /\ \A d \in Consumers \ {c} : last'[d] = last[d] /\ leases'[d] = leases[d]
    BY <1>1, <1>3 DEF TypeOK
<1> HIDE DEF n
<1>5. OpenConsumers' = OpenConsumers /\ Addressees' = Addressees
    BY <1>2 DEF OpenConsumers, Addressees
<1>6. \A d \in Consumers \ {c} : Due(d)' = Due(d) /\ Earlier(d)' = Earlier(d) /\ HeldBy(d)' = HeldBy(d)
    BY <1>2, <1>4, DueStays DEF HeldBy
<1>7. HeldBy(c)' = HeldBy(c) \cup {s}
    BY <1>2, <1>4 DEF HeldBy
<1>8. ASSUME NEW t \in Slots, state[t] = "COMMITTED"
      PROVE  seq[t] > seq[s] <=> (seq[t] > last[c] /\ t # s)
  <2>1. seq[t] \in Nat /\ seq[s] \in Nat /\ last[c] \in Nat
    BY <1>2 DEF TypeOK
  <2>2. seq[t] = seq[s] => t = s
    BY <1>2, <1>8 DEF SeqInv
  <2>3. seq[t] > last[c] => seq[s] < seq[t] \/ seq[s] = seq[t]
    BY <1>1, <1>8 DEF Candidates
  <2> QED
    BY <1>2, <2>1, <2>2, <2>3
<1>9. Due(c)' = Due(c) \ {s}
    BY <1>2, <1>4, <1>8 DEF Due, Candidates
<1>10. Earlier(c)' = {e \in Earlier(c) : e[1] # s /\ e[2] # s}
    BY <1>2, <1>9 DEF Earlier
<1>11. \A t \in Due(c) : <<t, s>> \notin Earlier(c)
  <2>1. seq \in [Slots -> Nat]
    BY DEF TypeOK
  <2> QED
    BY <1>1, <1>2, <2>1 DEF Earlier, Candidates
<1>12. /\ [d \in Consumers |-> HeldBy(d)]' =
              [[d \in Consumers |-> HeldBy(d)] EXCEPT ![c] = @ \cup {s}]
       /\ [d \in Consumers |-> Due(d)]' = [[d \in Consumers |-> Due(d)] EXCEPT ![c] = @ \ {s}]
       /\ [d \in Consumers |-> Earlier(d)]' = [[d \in Consumers |-> Earlier(d)] EXCEPT
                                              ![c] = {e \in @ : e[1] # s /\ e[2] # s}]
    BY <1>6, <1>7, <1>9, <1>10
<1>13. /\ [d \in Consumers |-> Due(d)][c] = Due(c)
       /\ [d \in Consumers |-> Earlier(d)][c] = Earlier(c)
    OBVIOUS
<1>14. s \in Due(c)
    BY <1>1, <1>2
<1> HIDE DEF IInv
<1> QED
    BY <1>5, <1>11, <1>12, <1>13, <1>14 DEF Contract!Deliver

\* Of one publication a consumer has one lease, and no array over it any more.
LEMMA ReleaseLetsGo ==
    ASSUME IInv, NEW c \in Consumers, NEW l \in leases[c], Release(c, l)
    PROVE  Contract!LetGo(c)
<1> USE DEF IInv
<1>1. /\ l \notin views[c] /\ leases' = [leases EXCEPT ![c] = @ \ {l}]
      /\ UNCHANGED <<state, seq, pst, cst, last, views>>
    BY DEF Release, NotBorrowed, publishVars
<1>2. OpenConsumers' = OpenConsumers /\ Addressees' = Addressees
    BY <1>1 DEF OpenConsumers, Addressees
<1>3. \A d \in Consumers : Due(d)' = Due(d) /\ Earlier(d)' = Earlier(d)
    BY <1>1, DueStays
<1>4. leases'[c] = leases[c] \ {l} /\ \A d \in Consumers \ {c} : HeldBy(d)' = HeldBy(d)
    BY <1>1 DEF TypeOK, HeldBy
<1>5. \A m \in leases[c] : m.slot = l.slot => m = l
  <2>1. \A m \in leases[c] : m \in Leases
    BY DEF TypeOK
  <2> QED
    BY <2>1 DEF LeaseInv, Leases
<1>6. HeldBy(c)' = HeldBy(c) \ {l.slot} /\ l.slot \in HeldBy(c)
    BY <1>1, <1>4, <1>5 DEF HeldBy, LeaseInv
<1>7. [d \in Consumers |-> HeldBy(d)]' =
         [[d \in Consumers |-> HeldBy(d)] EXCEPT ![c] = @ \ {l.slot}]
    BY <1>4, <1>6
<1> QED
    BY <1>2, <1>3, <1>6, <1>7 DEF Contract!LetGo

\* Whoever closes receives nothing more, but keeps what it holds.
LEMMA CloseLeaves ==
    ASSUME IInv, NEW c \in Consumers, Close(c)
    PROVE  Contract!Leave({c}, {})
<1>1. /\ cst'[c] = "closed" /\ \A d \in Consumers \ {c} : cst'[d] = cst[d]
      /\ UNCHANGED <<state, seq, pst, last, leases, views>>
    BY DEF Close, slotVars, publishVars, IInv, TypeOK
<1>2. OpenConsumers' = OpenConsumers \ {c} /\ Addressees' = Addressees \ {c}
    BY <1>1 DEF OpenConsumers, Addressees
<1>3. Due(c)' = {} /\ Earlier(c)' = {}
    BY <1>1 DEF Due, Earlier
<1>4. \A d \in Consumers : HeldBy(d)' = HeldBy(d)
    BY <1>1 DEF HeldBy
<1>5. \A d \in Consumers \ {c} : Due(d)' = Due(d) /\ Earlier(d)' = Earlier(d)
    BY <1>1, DueStays
<1> QED
    BY <1>2, <1>3, <1>4, <1>5 DEF Contract!Leave

LEMMA DieLeaves ==
    ASSUME IInv, NEW c \in Consumers, Die(c)
    PROVE  Contract!Leave({c}, {c})
<1>1. /\ cst'[c] = "dead" /\ leases'[c] = {} /\ views'[c] = {}
      /\ \A d \in Consumers \ {c} : cst'[d] = cst[d] /\ leases'[d] = leases[d] /\ views'[d] = views[d]
      /\ UNCHANGED <<state, seq, pst, last>>
    BY DEF Die, slotVars, publishVars, IInv, TypeOK
<1>2. OpenConsumers' = OpenConsumers \ {c} /\ Addressees' = Addressees \ {c}
    BY <1>1 DEF OpenConsumers, Addressees
<1>3. Due(c)' = {} /\ Earlier(c)' = {} /\ HeldBy(c)' = {}
    BY <1>1 DEF Due, Earlier, HeldBy
<1>4. \A d \in Consumers \ {c} :
         Due(d)' = Due(d) /\ Earlier(d)' = Earlier(d) /\ HeldBy(d)' = HeldBy(d)
    BY <1>1, DueStays DEF HeldBy
<1> QED
    BY <1>2, <1>3, <1>4 DEF Contract!Leave

\* An array is over a lease, so making and dropping one holds and lets go nothing.
LEMMA UnseenStep ==
    ASSUME UNCHANGED <<state, seq, cst, last>>, UNCHANGED Addressees,
           \A c \in Consumers : leases'[c] \cup views'[c] = leases[c] \cup views[c]
    PROVE  UNCHANGED Contract!mvars
<1>1. OpenConsumers' = OpenConsumers
    BY DEF OpenConsumers
<1>2. \A c \in Consumers : HeldBy(c)' = HeldBy(c)
    BY DEF HeldBy
<1>3. \A c \in Consumers : Due(c)' = Due(c) /\ Earlier(c)' = Earlier(c)
    BY DueStays
<1> QED
    BY <1>1, <1>2, <1>3 DEF Contract!mvars

LEMMA MulticastStep ==
    ASSUME CommitsAdvance, IInv, [Next]_vars
    PROVE  [Contract!Next]_(Contract!mvars)
<1> DEFINE Unseen == UNCHANGED Contract!mvars
<1>1. ASSUME Select PROVE Contract!Next
    BY <1>1, SelectBegins DEF Contract!Next
<1>2. ASSUME Commit PROVE Contract!Next
  <2>1. pslot \in Slots
    BY <1>2 DEF Commit, IInv, TypeOK, NoSlot, Slots
  <2> QED
    BY <1>2, <2>1, CommitPublishes DEF Contract!Next
<1>3. ASSUME Advance PROVE Unseen
    BY <1>3, UnseenStep DEF Advance, slotVars, consumerVars, Addressees
<1>4. ASSUME Interrupt PROVE Contract!Next
    BY <1>4, InterruptGivesUp DEF Contract!Next
<1>5. ASSUME NEW c \in Consumers, Open(c) PROVE Contract!Next
    BY <1>5, OpenJoins DEF Contract!Next
<1>6. ASSUME NEW c \in Consumers, Take(c) PROVE Contract!Next
    BY <1>6, TakeDelivers DEF Contract!Next
<1>7. ASSUME NEW c \in Consumers, NEW l \in leases[c], View(c, l) PROVE Unseen
  <2>1. \A d \in Consumers : leases'[d] \cup views'[d] = leases[d] \cup views[d]
    BY <1>7 DEF View, IInv, TypeOK
  <2> QED
    BY <1>7, <2>1, UnseenStep DEF View, slotVars, publishVars, Addressees, OpenConsumers
<1>8. ASSUME NEW c \in Consumers, NEW l \in views[c], DropView(c, l) PROVE Unseen
  <2>1. \A d \in Consumers : leases'[d] \cup views'[d] = leases[d] \cup views[d]
    BY <1>8 DEF DropView, IInv, TypeOK, LeaseInv
  <2> QED
    BY <1>8, <2>1, UnseenStep DEF DropView, slotVars, publishVars, Addressees, OpenConsumers
<1>9. ASSUME NEW c \in Consumers, NEW l \in leases[c], Release(c, l) PROVE Contract!Next
    BY <1>9, ReleaseLetsGo DEF Contract!Next
<1>10. ASSUME NEW c \in Consumers, Close(c) PROVE Contract!Next
  <2>1. {c} \in SUBSET Consumers /\ {} \in SUBSET Consumers
    OBVIOUS
  <2>2. Contract!Leave({c}, {})
    BY <1>10, CloseLeaves
  <2> QED
    BY <2>1, <2>2 DEF Contract!Next
<1>11. ASSUME NEW c \in Consumers, Die(c) PROVE Contract!Next
  <2>1. {c} \in SUBSET Consumers
    OBVIOUS
  <2>2. Contract!Leave({c}, {c})
    BY <1>11, DieLeaves
  <2> QED
    BY <2>1, <2>2 DEF Contract!Next
<1>12. ASSUME UNCHANGED vars PROVE Unseen
    BY <1>12, UnseenStep DEF vars, Addressees, OpenConsumers
<1> QED
    BY <1>1, <1>2, <1>3, <1>4, <1>5, <1>6, <1>7, <1>8, <1>9, <1>10, <1>11, <1>12 DEF Next

\* The reference ring keeps what Multicast promises, with a count of readers in place of
\* a mask: each consumer is given what was published while it was open, once and in order,
\* and no slot is overwritten while somebody has a lease on it or an array over it, as
\* long as no publication is cut off after its commit.
THEOREM IsMulticast ==
    ASSUME CommitsAdvance
    PROVE  Spec => ImplementsMulticast
<1>1. Init => Contract!Init
    BY MulticastStart
<1>2. IInv /\ [Next]_vars => [Contract!Next]_(Contract!mvars)
    BY MulticastStep
<1> QED
    BY <1>1, <1>2, Invariant, PTL DEF Spec, ImplementsMulticast, Contract!Spec
===============================================================================
