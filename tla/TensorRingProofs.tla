--------------------------- MODULE TensorRingProofs ---------------------------
(***************************************************************************)
(* What TensorRing guarantees for every number of processes, consumers,    *)
(* writers and slots, every modulus of the sequence counter, and whatever  *)
(* the processes do: type correctness, one producer process, writers that  *)
(* have their slot for themselves, and leases that nothing disturbs.       *)
(***************************************************************************)
EXTENDS TensorRing, FiniteSetTheorems, TLAPS

\* What reduces to a sequence number is one.
LEMMA ModInSeqs == \A n \in Int : n % SeqMod \in Seqs
BY SizesAssumption DEF Seqs

\* The registry is finite, so its entries can be counted.
LEMMA EntriesCounted ==
    ASSUME NEW S \in SUBSET Entries
    PROVE  Cardinality(S) \in Nat
<1>1. IsFiniteSet(Entries)
  BY SizesAssumption, FS_Interval DEF Entries
<1>2. IsFiniteSet(S)
  BY <1>1, FS_Subset
<1> QED BY <1>2, FS_CardinalityType

\* A sweep leaves every field it touches in its type.
LEMMA ReapTyped ==
    ASSUME TypeOK, NEW p \in Procs
    PROVE  /\ ReapedState(p) \in [Slots -> {"FREE", "WRITING", "COMMITTED"}]
           /\ ReapedMask(p) \in [Slots -> SUBSET Entries]
           /\ ReapedActive(p) \in [Entries -> BOOLEAN]
           /\ ReapedRegistered(p) \in Nat
<1>1. ReapedState(p) \in [Slots -> {"FREE", "WRITING", "COMMITTED"}]
  BY DEF TypeOK, ReapedState
<1>2. ReapedMask(p) \in [Slots -> SUBSET Entries]
  BY DEF TypeOK, ReapedMask
<1>3. ReapedActive(p) \in [Entries -> BOOLEAN]
  BY Zenon DEF ReapedActive
<1>4. DeadEntries(p) \in SUBSET Entries
  BY DEF DeadEntries
<1>5. Cardinality(DeadEntries(p)) \in Nat
  BY <1>4, EntriesCounted
<1>6. ReapedRegistered(p) \in Nat
  BY <1>5 DEF TypeOK, ReapedRegistered, AtLeastZero
<1> QED BY <1>1, <1>2, <1>3, <1>6

-----------------------------------------------------------------------------
(* Type correctness.                                                       *)

LEMMA TypeInit == Init => TypeOK
BY ProcsAssumption, SizesAssumption
   DEF Init, TypeOK, Seqs, Payloads, Zeroed, Entries, Slots

LEMMA TypeReapOnly ==
    ASSUME TypeOK, NEW p \in Procs, ReapOnly(p)
    PROVE  TypeOK'
BY ReapTyped DEF ReapOnly, TypeOK, procVars, handleVars, consumerVars, writerVars

LEMMA TypeReserve ==
    ASSUME TypeOK, NEW w \in Writers, Reserve(w)
    PROVE  TypeOK'
<1> DEFINE p == WriterHost[w]
<1>1. p \in Procs
  BY ProcsAssumption
<1>2. /\ ReapedState(p) \in [Slots -> {"FREE", "WRITING", "COMMITTED"}]
      /\ ReapedMask(p) \in [Slots -> SUBSET Entries]
      /\ ReapedActive(p) \in [Entries -> BOOLEAN]
      /\ ReapedRegistered(p) \in Nat
  BY <1>1, ReapTyped
<1>3. Registered(p) \in SUBSET Entries
  BY DEF Registered
<1>4. Succ(nextSeq) \in Seqs
  BY ModInSeqs DEF Succ, TypeOK, Seqs
<1>5. PICK s \in Slots :
         /\ state' = [ReapedState(p) EXCEPT ![s] = "WRITING"]
         /\ seq' = [seq EXCEPT ![s] = nextSeq]
         /\ mask' = [ReapedMask(p) EXCEPT ![s] = Registered(p)]
         /\ wpid' = [wpid EXCEPT ![s] = p]
         /\ wtok' = [wtok EXCEPT ![s] = token[p]]
         /\ wslot' = [wslot EXCEPT ![w] = s]
  BY DEF Reserve
<1>6. s \in 0 .. SlotCount /\ token[p] \in 0 .. MaxTokens
  BY <1>1, SizesAssumption DEF Slots, TypeOK
<1>7. /\ state' \in [Slots -> {"FREE", "WRITING", "COMMITTED"}]
      /\ seq' \in [Slots -> Seqs]
      /\ mask' \in [Slots -> SUBSET Entries]
      /\ wpid' \in [Slots -> Procs \cup {NoProc}]
      /\ wtok' \in [Slots -> 0 .. MaxTokens]
      /\ wslot' \in [Writers -> 0 .. SlotCount]
  BY <1>1, <1>2, <1>3, <1>5, <1>6 DEF TypeOK
<1>8. /\ nextSeq' \in Seqs
      /\ active' \in [Entries -> BOOLEAN]
      /\ registered' \in Nat
      /\ wst' \in [Writers -> {"idle", "writing", "filled"}]
      /\ wseq' \in [Writers -> Seqs]
  BY <1>2, <1>4 DEF Reserve, TypeOK
<1>9. UNCHANGED <<payload, rpid, role, procVars, handleVars, consumerVars>>
  BY DEF Reserve
<1> QED BY <1>7, <1>8, <1>9 DEF TypeOK, procVars, handleVars, consumerVars

LEMMA TypeRegister ==
    ASSUME TypeOK, NEW c \in Consumers, Register(c)
    PROVE  TypeOK'
<1> DEFINE p == ConsumerHost[c]
<1>1. p \in Procs
  BY ProcsAssumption
<1>2. /\ ReapedState(p) \in [Slots -> {"FREE", "WRITING", "COMMITTED"}]
      /\ ReapedMask(p) \in [Slots -> SUBSET Entries]
      /\ ReapedActive(p) \in [Entries -> BOOLEAN]
      /\ ReapedRegistered(p) \in Nat
  BY <1>1, ReapTyped
<1>3. SubscribePoint \in Seqs
  BY ModInSeqs DEF SubscribePoint, TypeOK, Seqs
<1>4. PICK i \in Entries :
         /\ active' = [ReapedActive(p) EXCEPT ![i] = TRUE]
         /\ rpid' = [rpid EXCEPT ![i] = p]
         /\ idx' = [idx EXCEPT ![c] = i]
  BY DEF Register
<1>5. i \in 0 .. MaxConsumers
  BY DEF Entries
<1>6. /\ active' \in [Entries -> BOOLEAN]
      /\ rpid' \in [Entries -> Procs \cup {NoProc}]
      /\ idx' \in [Consumers -> 0 .. MaxConsumers]
  BY <1>1, <1>2, <1>4, <1>5 DEF TypeOK
<1>7. /\ state' \in [Slots -> {"FREE", "WRITING", "COMMITTED"}]
      /\ mask' \in [Slots -> SUBSET Entries]
      /\ registered' \in Nat
      /\ cst' \in [Consumers -> {"none", "open"}]
      /\ last' \in [Consumers -> Seqs]
  BY <1>2, <1>3 DEF Register, TypeOK
<1>8. UNCHANGED <<seq, payload, wpid, wtok, nextSeq, role, procVars, handleVars,
                  leases, writerVars>>
  BY DEF Register
<1> QED BY <1>6, <1>7, <1>8 DEF TypeOK, procVars, handleVars, writerVars

LEMMA TypeTake ==
    ASSUME TypeOK, NEW c \in Consumers, Take(c)
    PROVE  TypeOK'
<1>1. PICK s \in Deliverable(c) :
         /\ leases' = [leases EXCEPT ![c] =
                         @ \cup {[slot |-> s, seq |-> seq[s], data |-> payload[s]]}]
         /\ last' = [last EXCEPT ![c] = seq[s]]
  BY DEF Take
<1>2. s \in Slots
  BY DEF Deliverable
<1>3. [slot |-> s, seq |-> seq[s], data |-> payload[s]] \in Leases
  BY <1>2 DEF TypeOK, Leases
<1>4. leases' \in [Consumers -> SUBSET Leases]
  BY <1>1, <1>3 DEF TypeOK
<1>5. last' \in [Consumers -> Seqs]
  BY <1>1, <1>2 DEF TypeOK
<1>6. UNCHANGED <<slotVars, registryVars, nextSeq, role, procVars, handleVars,
                  cst, idx, writerVars>>
  BY DEF Take
<1> QED
  BY <1>4, <1>5, <1>6
     DEF TypeOK, slotVars, registryVars, procVars, handleVars, writerVars

LEMMA TypeAbort ==
    ASSUME TypeOK, NEW w \in Writers, Abort(w)
    PROVE  TypeOK'
<1>1. SeqAfterAbort(w) \in Seqs /\ 0 \in Seqs
  BY SizesAssumption DEF SeqAfterAbort, TypeOK, Seqs
<1>2. /\ state' \in [Slots -> {"FREE", "WRITING", "COMMITTED"}]
      /\ mask' \in [Slots -> SUBSET Entries]
  BY DEF Abort, TypeOK
<1>3. /\ wst' \in [Writers -> {"idle", "writing", "filled"}]
      /\ wslot' \in [Writers -> 0 .. SlotCount]
      /\ wseq' \in [Writers -> Seqs]
  BY <1>1, SizesAssumption DEF Abort, WriterDone, TypeOK
<1>4. /\ nextSeq' \in Seqs
      /\ UNCHANGED <<seq, payload, wpid, wtok, registryVars, role, procVars,
                     handleVars, consumerVars>>
  BY <1>1 DEF Abort
<1> QED
  BY <1>2, <1>3, <1>4 DEF TypeOK, registryVars, procVars, handleVars, consumerVars

LEMMA TypeHandles ==
    ASSUME TypeOK, NEW p \in Procs, NEW n \in 0 .. MaxHandles[p],
           producers' = [producers EXCEPT ![p] = n]
    PROVE  /\ producers' \in [Procs -> Nat]
           /\ \A q \in Procs : producers'[q] \in 0 .. MaxHandles[q]
BY SizesAssumption DEF TypeOK

LEMMA TypeProducer ==
    ASSUME TypeOK, NEW p \in Procs, ClaimProducer(p) \/ DropProducer(p)
    PROVE  TypeOK'
<1>1. /\ producers[p] \in 0 .. MaxHandles[p]
      /\ MaxHandles[p] \in Nat
  BY SizesAssumption DEF TypeOK
<1>2. PICK n \in 0 .. MaxHandles[p] : producers' = [producers EXCEPT ![p] = n]
  <2>1. CASE ClaimProducer(p)
    <3>1. producers' = [producers EXCEPT ![p] = producers[p] + 1]
      BY <2>1 DEF ClaimProducer
    <3>2. producers[p] + 1 \in 0 .. MaxHandles[p]
      BY <1>1, <2>1 DEF ClaimProducer
    <3> QED BY <3>1, <3>2
  <2>2. CASE DropProducer(p)
    <3>1. producers' = [producers EXCEPT ![p] = producers[p] - 1]
      BY <2>2 DEF DropProducer
    <3>2. producers[p] - 1 \in 0 .. MaxHandles[p]
      BY <1>1, <2>2 DEF DropProducer
    <3> QED BY <3>1, <3>2
  <2> QED BY <2>1, <2>2
<1>3. /\ producers' \in [Procs -> Nat]
      /\ \A q \in Procs : producers'[q] \in 0 .. MaxHandles[q]
  BY <1>2, TypeHandles
<1>4. role' \in Procs \cup {NoProc}
  BY DEF ClaimProducer, DropProducer, TypeOK
<1>5. UNCHANGED <<slotVars, registryVars, nextSeq, procVars, consumerVars, writerVars>>
  BY DEF ClaimProducer, DropProducer
<1>6. handing' \in SUBSET {q \in Procs : alive'[q]}
  BY DEF ClaimProducer, DropProducer, TypeOK, procVars
<1> QED
  BY <1>3, <1>4, <1>5, <1>6
     DEF TypeOK, slotVars, registryVars, procVars, consumerVars, writerVars

LEMMA TypeHandBack ==
    ASSUME TypeOK, NEW p \in Procs, HandBack(p)
    PROVE  TypeOK'
BY DEF HandBack, TypeOK, slotVars, registryVars, procVars, consumerVars, writerVars

LEMMA TypeCrash ==
    ASSUME TypeOK, NEW p \in Procs, Crash(p)
    PROVE  TypeOK'
<1>0. 0 \in Seqs /\ 0 \in 0 .. SlotCount /\ 0 \in 0 .. MaxConsumers
  BY SizesAssumption DEF Seqs
<1>1. /\ producers' \in [Procs -> Nat]
      /\ \A q \in Procs : producers'[q] \in 0 .. MaxHandles[q]
  <2>1. 0 \in 0 .. MaxHandles[p] /\ producers' = [producers EXCEPT ![p] = 0]
    BY SizesAssumption DEF Crash
  <2> QED BY <2>1, TypeHandles
<1>2. /\ cst' \in [Consumers -> {"none", "open"}]
      /\ idx' \in [Consumers -> 0 .. MaxConsumers]
      /\ last' \in [Consumers -> Seqs]
      /\ leases' \in [Consumers -> SUBSET Leases]
  BY <1>0 DEF Crash, TypeOK
<1>3. /\ wst' \in [Writers -> {"idle", "writing", "filled"}]
      /\ wslot' \in [Writers -> 0 .. SlotCount]
      /\ wseq' \in [Writers -> Seqs]
  BY <1>0 DEF Crash, TypeOK
<1>4. /\ alive' \in [Procs -> BOOLEAN]
      /\ handing' \in SUBSET {q \in Procs : alive'[q]}
      /\ UNCHANGED <<slotVars, registryVars, nextSeq, role, token>>
  BY DEF Crash, TypeOK
<1> QED BY <1>1, <1>2, <1>3, <1>4 DEF TypeOK, slotVars, registryVars

LEMMA TypeDrop ==
    ASSUME TypeOK, NEW c \in Consumers, Drop(c)
    PROVE  TypeOK'
<1>1. /\ mask' \in [Slots -> SUBSET Entries]
      /\ active' \in [Entries -> BOOLEAN]
      /\ registered' \in Nat
  <2>1. mask' \in [Slots -> SUBSET Entries]
    BY DEF Drop, TypeOK
  <2>2. active' \in [Entries -> BOOLEAN]
    BY DEF Drop, TypeOK
  <2>3. registered' \in Nat
    BY DEF Drop, AtLeastZero, TypeOK
  <2> QED BY <2>1, <2>2, <2>3
<1>2. /\ cst' \in [Consumers -> {"none", "open"}]
      /\ idx' \in [Consumers -> 0 .. MaxConsumers]
      /\ last' \in [Consumers -> Seqs]
  BY SizesAssumption DEF Drop, TypeOK, Seqs
<1>3. UNCHANGED <<state, seq, payload, wpid, wtok, rpid, nextSeq, role, procVars,
                  handleVars, leases, writerVars>>
  BY DEF Drop
<1> QED BY <1>1, <1>2, <1>3 DEF TypeOK, procVars, handleVars, writerVars

LEMMA TypeRelease ==
    ASSUME TypeOK, NEW c \in Consumers, NEW l \in leases[c], Release(c, l)
    PROVE  TypeOK'
<1>1. leases' \in [Consumers -> SUBSET Leases]
  BY DEF Release, TypeOK
<1>2. mask' \in [Slots -> SUBSET Entries]
  <2>1. CASE mask' = mask
    BY <2>1 DEF TypeOK
  <2>2. CASE mask' = [mask EXCEPT ![l.slot] = @ \ {idx[c]}]
    BY <2>2 DEF TypeOK
  <2> QED BY <2>1, <2>2 DEF Release
<1>3. UNCHANGED <<state, seq, payload, wpid, wtok, registryVars, nextSeq, role,
                  procVars, handleVars, cst, idx, last, writerVars>>
  BY DEF Release
<1> QED BY <1>1, <1>2, <1>3 DEF TypeOK, registryVars, procVars, handleVars, writerVars

LEMMA TypeCommit ==
    ASSUME TypeOK, NEW w \in Writers, Commit(w)
    PROVE  TypeOK'
<1>1. state' \in [Slots -> {"FREE", "WRITING", "COMMITTED"}]
  BY DEF Commit, TypeOK
<1>2. /\ wst' \in [Writers -> {"idle", "writing", "filled"}]
      /\ wslot' \in [Writers -> 0 .. SlotCount]
      /\ wseq' \in [Writers -> Seqs]
  BY SizesAssumption DEF Commit, WriterDone, TypeOK, Seqs
<1>3. UNCHANGED <<seq, mask, payload, wpid, wtok, registryVars, nextSeq, role,
                  procVars, handleVars, consumerVars>>
  BY DEF Commit
<1> QED
  BY <1>1, <1>2, <1>3 DEF TypeOK, registryVars, procVars, handleVars, consumerVars

LEMMA TypeStep == TypeOK /\ [Next]_vars => TypeOK'
<1> SUFFICES ASSUME TypeOK, [Next]_vars PROVE TypeOK'
  OBVIOUS
<1>1. ASSUME NEW p \in Procs, Sweep(p) PROVE TypeOK'
  BY <1>1, TypeReapOnly DEF Sweep
<1>2. ASSUME NEW p \in Procs, ClaimProducer(p) PROVE TypeOK'
  BY <1>2, TypeProducer
<1>3. ASSUME NEW p \in Procs, DropProducer(p) PROVE TypeOK'
  BY <1>3, TypeProducer
<1>4. ASSUME NEW p \in Procs, Crash(p) PROVE TypeOK'
  BY <1>4, TypeCrash
<1>5. ASSUME NEW p \in Procs, Restart(p) PROVE TypeOK'
  BY <1>5, SizesAssumption
     DEF Restart, TypeOK, slotVars, registryVars, handleVars, consumerVars, writerVars
<1>6. ASSUME NEW w \in Writers, ReserveFull(w) PROVE TypeOK'
  BY <1>6, TypeReapOnly, ProcsAssumption DEF ReserveFull
<1>7. ASSUME NEW w \in Writers, Fill(w) PROVE TypeOK'
  BY <1>7 DEF Fill, TypeOK, Payloads, registryVars, procVars, handleVars, consumerVars
<1>8. ASSUME NEW w \in Writers, Commit(w) PROVE TypeOK'
  BY <1>8, TypeCommit
<1>9. ASSUME NEW c \in Consumers, RegisterFull(c) PROVE TypeOK'
  BY <1>9, TypeReapOnly, ProcsAssumption DEF RegisterFull
<1>10. ASSUME NEW c \in Consumers, NEW l \in leases[c], Release(c, l) PROVE TypeOK'
  BY <1>10, TypeRelease
<1>11. ASSUME NEW c \in Consumers, Drop(c) PROVE TypeOK'
  BY <1>11, TypeDrop
<1>12. CASE UNCHANGED vars
  BY <1>12 DEF vars, TypeOK
<1> QED
  BY <1>1, <1>2, <1>3, <1>4, <1>5, <1>6, <1>7, <1>8, <1>9, <1>10, <1>11, <1>12,
     TypeHandBack, TypeReserve, TypeRegister, TypeTake, TypeAbort
     DEF Next

\* Every field of the header, the slots, the registry and the handles keeps its
\* type, in particular the wrapping sequence counter and the reader masks.
THEOREM TypeCorrect == Spec => []TypeOK
BY TypeInit, TypeStep, PTL DEF Spec

-----------------------------------------------------------------------------
(* The producer role: only the process it is recorded for has handles.     *)
(* That rests on who uses the library: Producer::drop counts the handle    *)
(* off and then hands the role back, and a thread of the same process that *)
(* claims in between is granted a role that is then taken from it.         *)

\* Hypothesis on who uses the library: no thread claims the producer role while
\* another one of its process is between the two accesses of Producer::drop.
NoClaimDuringDrop == ~ClaimDuringDrop

RoleInv ==
    /\ \A p \in Procs : producers[p] > 0 => alive[p] /\ role = p
    /\ \A p \in handing : producers[p] = 0

LEMMA RoleStep ==
    ASSUME NoClaimDuringDrop
    PROVE  TypeOK /\ RoleInv /\ [Next]_vars => RoleInv'
<1> SUFFICES ASSUME TypeOK, RoleInv, [Next]_vars PROVE RoleInv'
  OBVIOUS
<1> USE DEF NoClaimDuringDrop
<1>1. ASSUME NEW p \in Procs, ClaimProducer(p) PROVE RoleInv'
  <2>1. \A q \in handing' : producers'[q] = 0
    <3>1. p \notin handing /\ handing' = handing
      BY <1>1 DEF ClaimProducer
    <3>2. \A q \in handing : q # p /\ producers'[q] = producers[q]
      BY <1>1, <3>1 DEF ClaimProducer, TypeOK
    <3> QED BY <3>1, <3>2 DEF RoleInv
  <2>2. ASSUME NEW q \in Procs, producers'[q] > 0 PROVE alive'[q] /\ role' = q
    <3>1. CASE q = p
      BY <1>1, <3>1 DEF ClaimProducer, procVars
    <3>2. CASE q # p
      <4>1. producers[q] > 0
        BY <1>1, <2>2, <3>2 DEF ClaimProducer, TypeOK
      <4>2. PidAlive(role) /\ role = q
        BY <4>1 DEF RoleInv, PidAlive
      <4> QED BY <1>1, <3>2, <4>2 DEF ClaimProducer
    <3> QED BY <3>1, <3>2
  <2> QED BY <2>1, <2>2 DEF RoleInv
<1>2. ASSUME NEW p \in Procs, DropProducer(p) PROVE RoleInv'
  <2>1. ASSUME NEW q \in handing' PROVE producers'[q] = 0
    <3>1. q \in handing => producers[q] = 0 /\ q \in Procs
      BY DEF RoleInv, TypeOK
    <3>2. CASE q \in handing
      BY <1>2, <3>1, <3>2 DEF DropProducer, TypeOK
    <3>3. CASE q \notin handing
      <4>1. q = p /\ producers[p] = 1
        BY <1>2, <2>1, <3>3 DEF DropProducer
      <4> QED BY <1>2, <4>1 DEF DropProducer, TypeOK
    <3> QED BY <3>2, <3>3
  <2>2. ASSUME NEW q \in Procs, producers'[q] > 0 PROVE alive'[q] /\ role' = q
    <3>1. producers[q] > 0
      BY <1>2, <2>2 DEF DropProducer, TypeOK
    <3> QED BY <1>2, <3>1 DEF DropProducer, procVars, RoleInv
  <2> QED BY <2>1, <2>2 DEF RoleInv
<1>3. ASSUME NEW p \in Procs, HandBack(p) PROVE RoleInv'
  <2>1. producers[p] = 0 /\ UNCHANGED <<producers, alive>>
    BY <1>3 DEF HandBack, RoleInv, procVars
  <2>2. ASSUME NEW q \in Procs, producers[q] > 0 PROVE alive[q] /\ role' = q
    <3>1. q # p /\ role = q /\ alive[q]
      BY <2>1, <2>2 DEF RoleInv
    <3> QED BY <1>3, <3>1 DEF HandBack
  <2> QED BY <1>3, <2>1, <2>2 DEF HandBack, RoleInv
<1>4. ASSUME NEW p \in Procs, Crash(p) PROVE RoleInv'
  BY <1>4 DEF Crash, RoleInv, TypeOK
<1>5. ASSUME NEW p \in Procs, Restart(p) PROVE RoleInv'
  BY <1>5 DEF Restart, RoleInv, TypeOK, handleVars
<1>6. CASE UNCHANGED <<handleVars, procVars, role>>
  BY <1>6 DEF RoleInv, handleVars, procVars
<1>7. ASSUME NEW w \in Writers, \/ Reserve(w) \/ ReserveFull(w) \/ Fill(w)
                               \/ Commit(w) \/ Abort(w)
      PROVE UNCHANGED <<handleVars, procVars, role>>
  BY <1>7 DEF Reserve, ReserveFull, ReapOnly, Fill, Commit, Abort
<1>8. ASSUME NEW c \in Consumers, \/ Register(c) \/ RegisterFull(c) \/ Take(c) \/ Drop(c)
      PROVE UNCHANGED <<handleVars, procVars, role>>
  BY <1>8 DEF Register, RegisterFull, ReapOnly, Take, Drop
<1>9. ASSUME NEW c \in Consumers, NEW l \in leases[c], Release(c, l)
      PROVE UNCHANGED <<handleVars, procVars, role>>
  BY <1>9 DEF Release
<1>10. ASSUME NEW p \in Procs, Sweep(p) PROVE UNCHANGED <<handleVars, procVars, role>>
  BY <1>10 DEF Sweep, ReapOnly
<1>11. CASE UNCHANGED vars
  BY <1>6, <1>11 DEF vars, handleVars, procVars
<1> QED
  BY <1>1, <1>2, <1>3, <1>4, <1>5, <1>6, <1>7, <1>8, <1>9, <1>10, <1>11 DEF Next

\* Two processes never have Producer handles at once, across handovers (counting
\* off the last handle and handing the role back are two steps), deaths and pids
\* that are reused, if no thread claims the role while another one of its process
\* is between those two steps.
THEOREM OneProducerProcess ==
    ASSUME NoClaimDuringDrop
    PROVE  Spec => []SingleProducer
<1>1. Init => RoleInv
  BY DEF Init, RoleInv
<1>2. RoleInv => SingleProducer
  BY DEF RoleInv, SingleProducer
<1>3. TypeOK /\ RoleInv /\ [Next]_vars => RoleInv'
  BY RoleStep
<1> QED BY <1>1, <1>2, <1>3, TypeCorrect, PTL DEF Spec

-----------------------------------------------------------------------------
(* The registry: an open consumer has a live entry of its own, which no    *)
(* sweep takes from it.                                                    *)

EntryInv ==
    \A c \in Consumers : cst[c] = "open" =>
        /\ alive[ConsumerHost[c]]
        /\ idx[c] \in Entries /\ active[idx[c]]
        /\ rpid[idx[c]] = ConsumerHost[c]
        /\ \A d \in Consumers \ {c} : cst[d] = "open" => idx[d] # idx[c]

LEMMA ReapKeepsEntries ==
    ASSUME TypeOK, EntryInv, NEW p \in Procs, NEW c \in Consumers, cst[c] = "open"
    PROVE  idx[c] \notin DeadEntries(p) /\ ReapedActive(p)[idx[c]]
<1>1. idx[c] \in Entries /\ active[idx[c]] /\ PidAlive(rpid[idx[c]])
  BY ProcsAssumption DEF EntryInv, PidAlive
<1> QED BY <1>1 DEF DeadEntries, ReapedActive

\* What only sweeps keeps the entries of the consumers that stay open.
LEMMA ReapOnlyEntries ==
    ASSUME TypeOK, EntryInv, NEW p \in Procs, active' = ReapedActive(p),
           UNCHANGED <<rpid, procVars, consumerVars>>
    PROVE  EntryInv'
BY ReapKeepsEntries DEF EntryInv, procVars, consumerVars

LEMMA RegisterEntries ==
    ASSUME TypeOK, EntryInv, NEW c \in Consumers, Register(c)
    PROVE  EntryInv'
<1> DEFINE p == ConsumerHost[c]
<1>1. p \in Procs
  BY ProcsAssumption
<1>2. PICK i \in Entries :
         /\ ~ReapedActive(p)[i]
         /\ active' = [ReapedActive(p) EXCEPT ![i] = TRUE]
         /\ rpid' = [rpid EXCEPT ![i] = p]
         /\ idx' = [idx EXCEPT ![c] = i]
  BY DEF Register
<1>3. cst[c] = "none" /\ alive[p] /\ cst' = [cst EXCEPT ![c] = "open"] /\ alive' = alive
  BY DEF Register, procVars
<1>4. ASSUME NEW d \in Consumers, cst[d] = "open"
      PROVE  idx[d] # i /\ ReapedActive(p)[idx[d]]
  BY <1>1, <1>2, <1>4, ReapKeepsEntries
<1>5. ReapedActive(p) \in [Entries -> BOOLEAN]
  BY <1>1, ReapTyped
<1>6. /\ active'[i] /\ rpid'[i] = p /\ idx'[c] = i
      /\ \A d \in Consumers \ {c} : idx'[d] = idx[d] /\ cst'[d] = cst[d]
      /\ \A j \in Entries \ {i} : active'[j] = ReapedActive(p)[j] /\ rpid'[j] = rpid[j]
  BY <1>2, <1>3, <1>5 DEF TypeOK
<1> QED
  <2> SUFFICES ASSUME NEW d \in Consumers, cst'[d] = "open"
               PROVE  /\ alive'[ConsumerHost[d]]
                      /\ idx'[d] \in Entries /\ active'[idx'[d]]
                      /\ rpid'[idx'[d]] = ConsumerHost[d]
                      /\ \A e \in Consumers \ {d} : cst'[e] = "open" => idx'[e] # idx'[d]
    BY DEF EntryInv
  <2>1. CASE d = c
    BY <1>2, <1>3, <1>4, <1>6, <2>1
  <2>2. CASE d # c
    <3>1. cst[d] = "open" /\ idx'[d] = idx[d]
      BY <1>6, <2>2
    <3>2. idx[d] \in Entries /\ idx[d] # i /\ ReapedActive(p)[idx[d]]
      BY <1>4, <3>1 DEF EntryInv
    <3> QED BY <1>2, <1>3, <1>6, <3>1, <3>2 DEF EntryInv
  <2> QED BY <2>1, <2>2

LEMMA EntryStep == TypeOK /\ EntryInv /\ [Next]_vars => EntryInv'
<1> SUFFICES ASSUME TypeOK, EntryInv, [Next]_vars PROVE EntryInv'
  OBVIOUS
<1>1. ASSUME NEW p \in Procs, Sweep(p) PROVE EntryInv'
  BY <1>1, ReapOnlyEntries DEF Sweep, ReapOnly
<1>2. ASSUME NEW w \in Writers, Reserve(w) \/ ReserveFull(w) PROVE EntryInv'
  BY <1>2, ReapOnlyEntries, ProcsAssumption DEF Reserve, ReserveFull, ReapOnly
<1>3. ASSUME NEW c \in Consumers, RegisterFull(c) PROVE EntryInv'
  BY <1>3, ReapOnlyEntries, ProcsAssumption DEF RegisterFull, ReapOnly
<1>4. ASSUME NEW c \in Consumers, Drop(c) PROVE EntryInv'
  BY <1>4 DEF Drop, EntryInv, TypeOK, procVars
<1>5. ASSUME NEW p \in Procs, Crash(p) PROVE EntryInv'
  BY <1>5 DEF Crash, EntryInv, TypeOK, registryVars
<1>6. ASSUME NEW p \in Procs, Restart(p) PROVE EntryInv'
  BY <1>6 DEF Restart, EntryInv, TypeOK, registryVars, consumerVars
<1>7. CASE UNCHANGED <<active, rpid, procVars, cst, idx>>
  BY <1>7 DEF EntryInv, procVars
<1>8. ASSUME NEW w \in Writers, Fill(w) \/ Commit(w) \/ Abort(w)
      PROVE  UNCHANGED <<active, rpid, procVars, cst, idx>>
  BY <1>8 DEF Fill, Commit, Abort, registryVars, consumerVars
<1>9. ASSUME NEW c \in Consumers, Take(c)
      PROVE  UNCHANGED <<active, rpid, procVars, cst, idx>>
  BY <1>9 DEF Take, registryVars
<1>10. ASSUME NEW c \in Consumers, NEW l \in leases[c], Release(c, l)
       PROVE  UNCHANGED <<active, rpid, procVars, cst, idx>>
  BY <1>10 DEF Release, registryVars
<1>11. ASSUME NEW p \in Procs, ClaimProducer(p) \/ DropProducer(p) \/ HandBack(p)
       PROVE  UNCHANGED <<active, rpid, procVars, cst, idx>>
  BY <1>11 DEF ClaimProducer, DropProducer, HandBack, registryVars, consumerVars
<1>12. CASE UNCHANGED vars
  BY <1>7, <1>12 DEF vars, procVars
<1> QED
  BY <1>1, <1>2, <1>3, <1>4, <1>5, <1>6, <1>7, <1>8, <1>9, <1>10, <1>11, <1>12,
     RegisterEntries DEF Next

LEMMA EntriesKept == Spec => []EntryInv
<1>1. Init => EntryInv
  BY DEF Init, EntryInv
<1> QED BY <1>1, TypeCorrect, EntryStep, PTL DEF Spec

-----------------------------------------------------------------------------
(* Writers: the slot a writer was given stays its own.  The pid and the    *)
(* token in the slot are what keeps a sweep from taking it away.           *)

WriterInv ==
    \A w \in Writers : wst[w] # "idle" =>
        /\ alive[WriterHost[w]]
        /\ wslot[w] \in Slots
        /\ state[wslot[w]] = "WRITING"
        /\ seq[wslot[w]] = wseq[w]
        /\ wpid[wslot[w]] = WriterHost[w]
        /\ wtok[wslot[w]] = token[WriterHost[w]]
        /\ \A v \in Writers \ {w} : wst[v] # "idle" => wslot[v] # wslot[w]

LEMMA ReapKeepsWriters ==
    ASSUME TypeOK, WriterInv, NEW p \in Procs, NEW w \in Writers, wst[w] # "idle"
    PROVE  ReapedState(p)[wslot[w]] = "WRITING"
<1>1. wslot[w] \in Slots /\ state[wslot[w]] = "WRITING"
  BY DEF WriterInv
<1>2. PidAliveWithToken(wpid[wslot[w]], wtok[wslot[w]])
  BY ProcsAssumption DEF WriterInv, PidAliveWithToken, PidAlive
<1> QED BY <1>1, <1>2 DEF AbandonedSlots, ReapedState

LEMMA ReapOnlyWriters ==
    ASSUME TypeOK, WriterInv, NEW p \in Procs, state' = ReapedState(p),
           UNCHANGED <<seq, wpid, wtok, procVars, writerVars>>
    PROVE  WriterInv'
BY ReapKeepsWriters DEF WriterInv, procVars, writerVars

LEMMA ReserveWriters ==
    ASSUME TypeOK, WriterInv, NEW w \in Writers, Reserve(w)
    PROVE  WriterInv'
<1> DEFINE p == WriterHost[w]
<1>1. p \in Procs
  BY ProcsAssumption
<1>2. PICK s \in Slots :
         /\ Chosen(p, s)
         /\ state' = [ReapedState(p) EXCEPT ![s] = "WRITING"]
         /\ seq' = [seq EXCEPT ![s] = nextSeq]
         /\ wpid' = [wpid EXCEPT ![s] = p]
         /\ wtok' = [wtok EXCEPT ![s] = token[p]]
         /\ wslot' = [wslot EXCEPT ![w] = s]
  BY DEF Reserve
<1>3. /\ alive[p] /\ wst[w] = "idle"
      /\ wst' = [wst EXCEPT ![w] = "writing"]
      /\ wseq' = [wseq EXCEPT ![w] = nextSeq]
      /\ alive' = alive /\ token' = token
  BY DEF Reserve, procVars
<1>4. ReapedState(p)[s] \in {"FREE", "COMMITTED"}
  <2>1. CASE ReapedState(p)[s] = "FREE"
    BY <2>1
  <2>2. CASE s \in Reclaimable(p)
    BY <2>2 DEF ReapedState, Reclaimable, AbandonedSlots
  <2> QED BY <1>2, <2>1, <2>2 DEF Chosen
<1>5. ASSUME NEW v \in Writers, wst[v] # "idle"
      PROVE  wslot[v] # s /\ ReapedState(p)[wslot[v]] = "WRITING"
  BY <1>1, <1>4, <1>5, ReapKeepsWriters
<1>6. ReapedState(p) \in [Slots -> {"FREE", "WRITING", "COMMITTED"}]
  BY <1>1, ReapTyped
<1>7. /\ state'[s] = "WRITING" /\ seq'[s] = nextSeq /\ wpid'[s] = p /\ wtok'[s] = token[p]
      /\ \A t \in Slots \ {s} : /\ state'[t] = ReapedState(p)[t] /\ seq'[t] = seq[t]
                                /\ wpid'[t] = wpid[t] /\ wtok'[t] = wtok[t]
  BY <1>2, <1>6 DEF TypeOK
<1>8. /\ wslot'[w] = s /\ wseq'[w] = nextSeq
      /\ \A v \in Writers \ {w} :
            wst'[v] = wst[v] /\ wslot'[v] = wslot[v] /\ wseq'[v] = wseq[v]
  BY <1>2, <1>3 DEF TypeOK
<1> QED
  <2> SUFFICES ASSUME NEW v \in Writers, wst'[v] # "idle"
               PROVE  /\ alive'[WriterHost[v]]
                      /\ wslot'[v] \in Slots
                      /\ state'[wslot'[v]] = "WRITING"
                      /\ seq'[wslot'[v]] = wseq'[v]
                      /\ wpid'[wslot'[v]] = WriterHost[v]
                      /\ wtok'[wslot'[v]] = token'[WriterHost[v]]
                      /\ \A u \in Writers \ {v} : wst'[u] # "idle" => wslot'[u] # wslot'[v]
    BY DEF WriterInv
  <2>1. CASE v = w
    BY <1>3, <1>5, <1>7, <1>8, <2>1
  <2>2. CASE v # w
    <3>1. wst[v] # "idle" /\ wslot'[v] = wslot[v] /\ wseq'[v] = wseq[v]
      BY <1>8, <2>2
    <3>2. wslot[v] \in Slots \ {s} /\ ReapedState(p)[wslot[v]] = "WRITING"
      BY <1>5, <3>1 DEF WriterInv
    <3> QED BY <1>3, <1>7, <1>8, <3>1, <3>2 DEF WriterInv
  <2> QED BY <2>1, <2>2

LEMMA DoneWriters ==
    ASSUME TypeOK, WriterInv, NEW w \in Writers, Commit(w) \/ Abort(w)
    PROVE  WriterInv'
<1>1. /\ wst[w] # "idle" /\ wst' = [wst EXCEPT ![w] = "idle"]
      /\ \A v \in Writers \ {w} : wslot'[v] = wslot[v] /\ wseq'[v] = wseq[v]
      /\ \A s \in Slots : s # wslot[w] => state'[s] = state[s]
      /\ UNCHANGED <<seq, wpid, wtok, alive, token>>
  BY DEF Commit, Abort, WriterDone, TypeOK, procVars
<1>2. \A v \in Writers : wst'[v] # "idle" => v # w /\ wst[v] # "idle"
  BY <1>1 DEF TypeOK
<1> QED BY <1>1, <1>2 DEF WriterInv

LEMMA WriterStep == TypeOK /\ WriterInv /\ [Next]_vars => WriterInv'
<1> SUFFICES ASSUME TypeOK, WriterInv, [Next]_vars PROVE WriterInv'
  OBVIOUS
<1>1. ASSUME NEW p \in Procs, Sweep(p) PROVE WriterInv'
  BY <1>1, ReapOnlyWriters DEF Sweep, ReapOnly
<1>2. ASSUME NEW w \in Writers, ReserveFull(w) PROVE WriterInv'
  BY <1>2, ReapOnlyWriters, ProcsAssumption DEF ReserveFull, ReapOnly
<1>3. ASSUME NEW c \in Consumers, Register(c) \/ RegisterFull(c) PROVE WriterInv'
  BY <1>3, ReapOnlyWriters, ProcsAssumption DEF Register, RegisterFull, ReapOnly
<1>4. ASSUME NEW w \in Writers, Fill(w) PROVE WriterInv'
  BY <1>4 DEF Fill, WriterInv, TypeOK, procVars
<1>5. ASSUME NEW p \in Procs, Crash(p) PROVE WriterInv'
  BY <1>5 DEF Crash, WriterInv, TypeOK, slotVars
<1>6. ASSUME NEW p \in Procs, Restart(p) PROVE WriterInv'
  BY <1>6 DEF Restart, WriterInv, TypeOK, slotVars, writerVars
<1>7. CASE UNCHANGED <<state, seq, wpid, wtok, procVars, writerVars>>
  BY <1>7 DEF WriterInv, procVars, writerVars
<1>8. ASSUME NEW c \in Consumers, Take(c) \/ Drop(c)
      PROVE  UNCHANGED <<state, seq, wpid, wtok, procVars, writerVars>>
  BY <1>8 DEF Take, Drop, slotVars
<1>9. ASSUME NEW c \in Consumers, NEW l \in leases[c], Release(c, l)
      PROVE  UNCHANGED <<state, seq, wpid, wtok, procVars, writerVars>>
  BY <1>9 DEF Release
<1>10. ASSUME NEW p \in Procs, ClaimProducer(p) \/ DropProducer(p) \/ HandBack(p)
       PROVE  UNCHANGED <<state, seq, wpid, wtok, procVars, writerVars>>
  BY <1>10 DEF ClaimProducer, DropProducer, HandBack, slotVars
<1>11. CASE UNCHANGED vars
  BY <1>7, <1>11 DEF vars, procVars, writerVars
<1> QED
  BY <1>1, <1>2, <1>3, <1>4, <1>5, <1>6, <1>7, <1>8, <1>9, <1>10, <1>11,
     ReserveWriters, DoneWriters DEF Next

LEMMA WritersKept == Spec => []WriterInv
<1>1. Init => WriterInv
  BY DEF Init, WriterInv
<1> QED BY <1>1, TypeCorrect, WriterStep, PTL DEF Spec

\* Two writers, of one process or of two, never share a slot, and no sweep takes
\* a slot from a writer that is alive.
THEOREM WritersUndisturbed == Spec => []WritersExclusive
<1>1. WriterInv => WritersExclusive
  BY DEF WriterInv, WritersExclusive
<1> QED BY <1>1, WritersKept, PTL
-----------------------------------------------------------------------------
(* Leases: the slot of a lease stays as it was delivered.  Three parties   *)
(* could touch it: a producer looking for a slot finds the reader's bit, a  *)
(* writer has another slot, and a sweep spares the entries of the living.   *)

LeaseInv ==
    \A c \in Consumers : \A l \in leases[c] :
        /\ cst[c] = "open"
        /\ state[l.slot] = "COMMITTED"
        /\ seq[l.slot] = l.seq
        /\ payload[l.slot] = l.data
        /\ idx[c] \in mask[l.slot]

IInv == TypeOK /\ EntryInv /\ WriterInv /\ LeaseInv

LEMMA LeaseSlots ==
    ASSUME TypeOK, NEW c \in Consumers, NEW l \in leases[c]
    PROVE  l \in Leases /\ l.slot \in Slots
<1>1. l \in Leases
  BY DEF TypeOK
<1> QED BY <1>1 DEF Leases

LEMMA ReapKeepsLeases ==
    ASSUME IInv, NEW p \in Procs, NEW c \in Consumers, NEW l \in leases[c]
    PROVE  /\ ReapedState(p)[l.slot] = "COMMITTED"
           /\ idx[c] \in ReapedMask(p)[l.slot]
<1>1. l.slot \in Slots
  BY LeaseSlots DEF IInv
<1>2. cst[c] = "open" /\ state[l.slot] = "COMMITTED" /\ idx[c] \in mask[l.slot]
  BY DEF IInv, LeaseInv
<1>3. idx[c] \notin DeadEntries(p)
  BY <1>2, ReapKeepsEntries DEF IInv
<1>4. l.slot \notin AbandonedSlots(p)
  BY <1>2 DEF AbandonedSlots
<1> QED BY <1>1, <1>2, <1>3, <1>4 DEF ReapedState, ReapedMask

LEMMA ReapOnlyLeases ==
    ASSUME IInv, NEW p \in Procs, ReapOnly(p)
    PROVE  LeaseInv'
BY ReapKeepsLeases DEF IInv, ReapOnly, LeaseInv, consumerVars

\* The producer takes a free slot, or one without readers.
LEMMA ReserveLeases ==
    ASSUME IInv, NEW w \in Writers, Reserve(w)
    PROVE  LeaseInv'
<1> DEFINE p == WriterHost[w]
<1>1. p \in Procs
  BY ProcsAssumption
<1>2. PICK s \in Slots :
         /\ Chosen(p, s)
         /\ state' = [ReapedState(p) EXCEPT ![s] = "WRITING"]
         /\ seq' = [seq EXCEPT ![s] = nextSeq]
         /\ mask' = [ReapedMask(p) EXCEPT ![s] = Registered(p)]
  BY DEF Reserve
<1>3. UNCHANGED <<payload, cst, idx, leases>>
  BY DEF Reserve, consumerVars
<1>4. ReapedState(p)[s] = "FREE" \/ ReapedMask(p)[s] = {}
  BY <1>2 DEF Chosen, Reclaimable
<1>5. ReapedState(p) \in [Slots -> {"FREE", "WRITING", "COMMITTED"}]
      /\ ReapedMask(p) \in [Slots -> SUBSET Entries]
  BY <1>1, ReapTyped DEF IInv
<1>6. \A t \in Slots \ {s} : /\ state'[t] = ReapedState(p)[t]
                             /\ seq'[t] = seq[t]
                             /\ mask'[t] = ReapedMask(p)[t]
  BY <1>2, <1>5 DEF IInv, TypeOK
<1>7. ASSUME NEW c \in Consumers, NEW l \in leases[c]
      PROVE  /\ l.slot \in Slots \ {s}
             /\ ReapedState(p)[l.slot] = "COMMITTED"
             /\ idx[c] \in ReapedMask(p)[l.slot]
  BY <1>1, <1>4, ReapKeepsLeases, LeaseSlots DEF IInv
<1> QED BY <1>3, <1>6, <1>7 DEF IInv, LeaseInv

\* A writer works on a slot of its own, which is WRITING.
LEMMA WriterLeases ==
    ASSUME IInv, NEW w \in Writers, Fill(w) \/ Commit(w) \/ Abort(w)
    PROVE  LeaseInv'
<1>1. wst[w] # "idle"
  BY DEF Fill, Commit, Abort
<1>2. state[wslot[w]] = "WRITING"
  BY <1>1 DEF IInv, WriterInv
<1>3. /\ UNCHANGED <<seq, cst, idx, leases>>
      /\ \A s \in Slots : s # wslot[w] =>
            state'[s] = state[s] /\ mask'[s] = mask[s] /\ payload'[s] = payload[s]
  BY DEF Fill, Commit, Abort, IInv, TypeOK, consumerVars
<1>4. ASSUME NEW c \in Consumers, NEW l \in leases[c]
      PROVE  l.slot \in Slots /\ l.slot # wslot[w]
  BY <1>2, LeaseSlots DEF IInv, LeaseInv
<1> QED BY <1>3, <1>4 DEF IInv, LeaseInv

LEMMA RegisterLeases ==
    ASSUME IInv, NEW c \in Consumers, Register(c)
    PROVE  LeaseInv'
<1> DEFINE p == ConsumerHost[c]
<1>1. p \in Procs
  BY ProcsAssumption
<1>2. cst[c] = "none" /\ state' = ReapedState(p) /\ mask' = ReapedMask(p)
      /\ UNCHANGED <<seq, payload, leases>>
  BY DEF Register
<1>3. \A d \in Consumers \ {c} : cst'[d] = cst[d] /\ idx'[d] = idx[d]
  BY DEF Register, IInv, TypeOK
<1>4. ASSUME NEW d \in Consumers, NEW l \in leases[d]
      PROVE  d # c
  BY <1>2 DEF IInv, LeaseInv
<1> QED BY <1>1, <1>2, <1>3, <1>4, ReapKeepsLeases DEF IInv, LeaseInv

LEMMA TakeLeases ==
    ASSUME IInv, NEW c \in Consumers, Take(c)
    PROVE  LeaseInv'
<1>1. PICK s \in Deliverable(c) :
         leases' = [leases EXCEPT ![c] =
                      @ \cup {[slot |-> s, seq |-> seq[s], data |-> payload[s]]}]
  BY DEF Take
<1>2. cst[c] = "open" /\ UNCHANGED <<state, seq, mask, payload, cst, idx>>
  BY DEF Take, slotVars
<1>3. state[s] = "COMMITTED" /\ idx[c] \in mask[s]
  BY DEF Deliverable
<1> QED BY <1>1, <1>2, <1>3 DEF IInv, TypeOK, LeaseInv

\* A release clears one bit of one slot, and no other lease has that bit.
LEMMA ReleaseLeases ==
    ASSUME IInv, NEW c \in Consumers, NEW l \in leases[c], Release(c, l)
    PROVE  LeaseInv'
<1>1. /\ leases' = [leases EXCEPT ![c] = @ \ {l}]
      /\ UNCHANGED <<state, seq, payload, cst, idx>>
  BY DEF Release
<1>2. l.slot \in Slots /\ cst[c] = "open" /\ seq[l.slot] = l.seq /\ payload[l.slot] = l.data
  BY LeaseSlots DEF IInv, LeaseInv
<1>3. mask' = [mask EXCEPT ![l.slot] = @ \ {idx[c]}]
  BY <1>2 DEF Release
<1>4. ASSUME NEW d \in Consumers, NEW m \in leases'[d]
      PROVE  /\ m \in leases[d]
             /\ d # c \/ m.slot # l.slot
  <2>1. m \in leases[d] /\ (d = c => m # l)
    BY <1>1, <1>4 DEF IInv, TypeOK
  <2>2. CASE d = c /\ m.slot = l.slot
    <3>1. m.seq = l.seq /\ m.data = l.data
      BY <1>2, <2>1, <2>2 DEF IInv, LeaseInv
    <3>2. m \in Leases /\ l \in Leases
      BY <2>1, LeaseSlots DEF IInv
    <3>3. m = l
      BY <2>2, <3>1, <3>2 DEF Leases
    <3> QED BY <2>1, <2>2, <3>3
  <2> QED BY <2>1, <2>2
<1>5. ASSUME NEW d \in Consumers, NEW m \in leases'[d]
      PROVE  idx[d] \in mask'[m.slot]
  <2>1. m \in leases[d] /\ m.slot \in Slots /\ idx[d] \in mask[m.slot]
    BY <1>4, <1>5, LeaseSlots DEF IInv, LeaseInv
  <2>2. CASE m.slot # l.slot
    BY <1>3, <2>1, <2>2 DEF IInv, TypeOK
  <2>3. CASE m.slot = l.slot
    <3>1. d # c
      BY <1>4, <1>5, <2>3
    <3>2. idx[d] # idx[c]
      BY <1>2, <2>1, <3>1 DEF IInv, LeaseInv, EntryInv
    <3> QED BY <1>2, <1>3, <2>1, <2>3, <3>2 DEF IInv, TypeOK
  <2> QED BY <2>2, <2>3
<1> QED BY <1>1, <1>4, <1>5 DEF IInv, LeaseInv

LEMMA DropLeases ==
    ASSUME IInv, NEW c \in Consumers, Drop(c)
    PROVE  LeaseInv'
<1>1. cst[c] = "open" /\ leases[c] = {} /\ UNCHANGED <<state, seq, payload, leases>>
      /\ mask' = [s \in Slots |-> mask[s] \ {idx[c]}]
  BY DEF Drop
<1>2. \A d \in Consumers \ {c} : cst'[d] = cst[d] /\ idx'[d] = idx[d]
  BY DEF Drop, IInv, TypeOK
<1>3. ASSUME NEW d \in Consumers, NEW l \in leases[d]
      PROVE  d # c /\ l.slot \in Slots /\ idx[d] # idx[c] /\ idx[d] \in mask'[l.slot]
  <2>1. d # c /\ l.slot \in Slots /\ cst[d] = "open" /\ idx[d] \in mask[l.slot]
    BY <1>1, LeaseSlots DEF IInv, LeaseInv
  <2>2. idx[d] # idx[c]
    BY <1>1, <2>1 DEF IInv, EntryInv
  <2> QED BY <1>1, <2>1, <2>2
<1>4. leases' = leases /\ state' = state /\ seq' = seq /\ payload' = payload
  BY <1>1
<1> QED BY <1>2, <1>3, <1>4 DEF IInv, LeaseInv

LEMMA LeaseStep == IInv /\ [Next]_vars => LeaseInv'
<1> SUFFICES ASSUME IInv, [Next]_vars PROVE LeaseInv'
  OBVIOUS
<1>1. ASSUME NEW p \in Procs, Sweep(p) PROVE LeaseInv'
  BY <1>1, ReapOnlyLeases DEF Sweep
<1>2. ASSUME NEW w \in Writers, ReserveFull(w) PROVE LeaseInv'
  BY <1>2, ReapOnlyLeases, ProcsAssumption DEF ReserveFull
<1>3. ASSUME NEW c \in Consumers, RegisterFull(c) PROVE LeaseInv'
  BY <1>3, ReapOnlyLeases, ProcsAssumption DEF RegisterFull
<1>4. ASSUME NEW p \in Procs, Crash(p) PROVE LeaseInv'
  BY <1>4 DEF Crash, LeaseInv, IInv, slotVars
<1>5. CASE UNCHANGED <<slotVars, consumerVars>>
  BY <1>5 DEF LeaseInv, IInv, slotVars, consumerVars
<1>6. ASSUME NEW p \in Procs,
             ClaimProducer(p) \/ DropProducer(p) \/ HandBack(p) \/ Restart(p)
      PROVE  UNCHANGED <<slotVars, consumerVars>>
  BY <1>6 DEF ClaimProducer, DropProducer, HandBack, Restart
<1>7. CASE UNCHANGED vars
  BY <1>5, <1>7 DEF vars, slotVars, consumerVars
<1> QED
  BY <1>1, <1>2, <1>3, <1>4, <1>5, <1>6, <1>7, ReserveLeases, WriterLeases,
     RegisterLeases, TakeLeases, ReleaseLeases, DropLeases DEF Next

\* The producer never overwrites a slot with active readers: what a lease shows
\* stays as it was delivered for as long as the lease is out, whatever writers,
\* sweeps, other consumers and deaths do.
THEOREM LeasesUndisturbed == Spec => []ActiveReaderNeverOverwritten
<1>1. Init => LeaseInv
  BY DEF Init, LeaseInv
<1>2. TypeOK /\ EntryInv /\ WriterInv /\ LeaseInv /\ [Next]_vars => LeaseInv'
  BY LeaseStep DEF IInv
<1>3. LeaseInv => ActiveReaderNeverOverwritten
  BY DEF LeaseInv, ActiveReaderNeverOverwritten
<1> QED BY <1>1, <1>2, <1>3, TypeCorrect, EntriesKept, WritersKept, PTL DEF Spec
-----------------------------------------------------------------------------
(* Reader bits: each has a registry entry behind it.                       *)

LEMMA OrphanStep == TypeOK /\ EntryInv /\ NoOrphanBits /\ [Next]_vars => NoOrphanBits'
<1> SUFFICES ASSUME TypeOK, EntryInv, NoOrphanBits, [Next]_vars PROVE NoOrphanBits'
  OBVIOUS
<1>1. ASSUME NEW p \in Procs, NEW s \in Slots, NEW i \in ReapedMask(p)[s]
      PROVE  i \in Entries /\ ReapedActive(p)[i]
  <2>1. i \in mask[s] /\ i \in Entries /\ i \notin DeadEntries(p) /\ active[i]
    BY <1>1 DEF ReapedMask, AbandonedSlots, TypeOK, NoOrphanBits, DeadEntries
  <2> QED BY <2>1 DEF ReapedActive
<1>2. ASSUME NEW p \in Procs, ReapOnly(p) PROVE NoOrphanBits'
  BY <1>1, <1>2 DEF ReapOnly, NoOrphanBits
<1>3. ASSUME NEW w \in Writers, Reserve(w) PROVE NoOrphanBits'
  <2> DEFINE p == WriterHost[w]
  <2>1. p \in Procs
    BY ProcsAssumption
  <2>2. PICK s \in Slots : mask' = [ReapedMask(p) EXCEPT ![s] = Registered(p)]
    BY <1>3 DEF Reserve
  <2>3. active' = ReapedActive(p)
    BY <1>3 DEF Reserve
  <2>4. ReapedMask(p) \in [Slots -> SUBSET Entries]
    BY <2>1, ReapTyped
  <2>5. mask'[s] = Registered(p) /\ \A t \in Slots \ {s} : mask'[t] = ReapedMask(p)[t]
    BY <2>2, <2>4
  <2> QED BY <1>1, <2>1, <2>3, <2>5 DEF NoOrphanBits, Registered
<1>4. ASSUME NEW c \in Consumers, Register(c) PROVE NoOrphanBits'
  <2> DEFINE p == ConsumerHost[c]
  <2>1. p \in Procs
    BY ProcsAssumption
  <2>2. PICK j \in Entries : active' = [ReapedActive(p) EXCEPT ![j] = TRUE]
    BY <1>4 DEF Register
  <2>3. mask' = ReapedMask(p)
    BY <1>4 DEF Register
  <2>4. ReapedActive(p) \in [Entries -> BOOLEAN]
    BY <2>1, ReapTyped
  <2>5. \A i \in Entries : ReapedActive(p)[i] => active'[i]
    BY <2>2, <2>4
  <2> QED BY <1>1, <2>1, <2>3, <2>5 DEF NoOrphanBits
<1>5. ASSUME NEW c \in Consumers, Drop(c) PROVE NoOrphanBits'
  BY <1>5 DEF Drop, NoOrphanBits, TypeOK
<1>6. ASSUME active' = active, \A s \in Slots : mask'[s] \subseteq mask[s]
      PROVE  NoOrphanBits'
  BY <1>6 DEF NoOrphanBits
<1>7. ASSUME NEW w \in Writers, Abort(w) PROVE NoOrphanBits'
  BY <1>6, <1>7 DEF Abort, TypeOK, registryVars
<1>8. ASSUME NEW c \in Consumers, NEW l \in leases[c], Release(c, l) PROVE NoOrphanBits'
  BY <1>6, <1>8 DEF Release, TypeOK, registryVars
<1>9. ASSUME NEW w \in Writers, Fill(w) \/ Commit(w) PROVE NoOrphanBits'
  BY <1>9 DEF Fill, Commit, NoOrphanBits, registryVars
<1>10. ASSUME NEW c \in Consumers, Take(c) PROVE NoOrphanBits'
  BY <1>10 DEF Take, NoOrphanBits, slotVars, registryVars
<1>11. ASSUME NEW p \in Procs, \/ ClaimProducer(p) \/ DropProducer(p) \/ HandBack(p)
                               \/ Crash(p) \/ Restart(p)
       PROVE  NoOrphanBits'
  BY <1>11 DEF ClaimProducer, DropProducer, HandBack, Crash, Restart, NoOrphanBits,
               slotVars, registryVars
<1>12. CASE UNCHANGED vars
  BY <1>12 DEF vars, NoOrphanBits
<1>13. ASSUME NEW p \in Procs, Sweep(p) PROVE NoOrphanBits'
  BY <1>2, <1>13 DEF Sweep
<1>14. ASSUME NEW w \in Writers, ReserveFull(w) PROVE NoOrphanBits'
  BY <1>2, <1>14, ProcsAssumption DEF ReserveFull
<1>15. ASSUME NEW c \in Consumers, RegisterFull(c) PROVE NoOrphanBits'
  BY <1>2, <1>15, ProcsAssumption DEF RegisterFull
<1> QED
  BY <1>3, <1>4, <1>5, <1>7, <1>8, <1>9, <1>10, <1>11, <1>12, <1>13, <1>14, <1>15
     DEF Next

\* A reader bit always belongs to a registered consumer, through registrations,
\* departures, deaths and sweeps: no slot is pinned by a reader nobody can reap.
THEOREM BitsHaveOwners == Spec => []NoOrphanBits
<1>1. Init => NoOrphanBits
  BY DEF Init, NoOrphanBits
<1> QED BY <1>1, TypeCorrect, EntriesKept, OrphanStep, PTL DEF Spec

-----------------------------------------------------------------------------
(* G_CONSUMERS counts the active entries.                                  *)

ActiveEntries == {i \in Entries : active[i]}
CountInv == registered = Cardinality(ActiveEntries)

LEMMA ActiveFinite == IsFiniteSet(ActiveEntries)
<1>1. IsFiniteSet(Entries)
  BY SizesAssumption, FS_Interval DEF Entries
<1>2. ActiveEntries \subseteq Entries
  BY DEF ActiveEntries
<1> QED BY <1>1, <1>2, FS_Subset

LEMMA ReapCounted ==
    ASSUME TypeOK, CountInv, NEW p \in Procs
    PROVE  /\ IsFiniteSet({i \in Entries : ReapedActive(p)[i]})
           /\ ReapedRegistered(p) = Cardinality({i \in Entries : ReapedActive(p)[i]})
<1> DEFINE A == ActiveEntries
           D == DeadEntries(p)
<1>1. D \subseteq A /\ A \cap D = D
  BY DEF DeadEntries, ActiveEntries
<1>2. {i \in Entries : ReapedActive(p)[i]} = A \ D
  BY DEF ReapedActive, ActiveEntries
<1>3. IsFiniteSet(A \ D) /\ Cardinality(A \ D) = Cardinality(A) - Cardinality(D)
  BY <1>1, ActiveFinite, FS_Difference
<1>4. Cardinality(A) \in Nat /\ Cardinality(D) \in Nat /\ Cardinality(A \ D) \in Nat
  BY <1>1, <1>3, ActiveFinite, FS_Subset, FS_CardinalityType
<1>5. ReapedRegistered(p) = Cardinality(A) - Cardinality(D)
  <2> HIDE DEF A, D
  <2>1. Cardinality(A) - Cardinality(D) >= 0
    BY <1>3, <1>4
  <2> QED BY <1>4, <2>1 DEF A, D, ReapedRegistered, CountInv, AtLeastZero
<1> QED BY <1>2, <1>3, <1>5

LEMMA CountStep == TypeOK /\ EntryInv /\ CountInv /\ [Next]_vars => CountInv'
<1> SUFFICES ASSUME TypeOK, EntryInv, CountInv, [Next]_vars PROVE CountInv'
  OBVIOUS
<1>1. ASSUME NEW p \in Procs, active' = ReapedActive(p), registered' = ReapedRegistered(p)
      PROVE  CountInv'
  BY <1>1, ReapCounted DEF CountInv, ActiveEntries
<1>2. ASSUME NEW c \in Consumers, Register(c) PROVE CountInv'
  <2> DEFINE p == ConsumerHost[c]
             B == {i \in Entries : ReapedActive(p)[i]}
  <2>1. p \in Procs
    BY ProcsAssumption
  <2>2. PICK j \in Entries : /\ ~ReapedActive(p)[j]
                             /\ active' = [ReapedActive(p) EXCEPT ![j] = TRUE]
    BY <1>2 DEF Register
  <2>3. ReapedActive(p) \in [Entries -> BOOLEAN]
    BY <2>1, ReapTyped
  <2>4. ActiveEntries' = B \cup {j} /\ j \notin B
    BY <2>2, <2>3 DEF ActiveEntries
  <2>5. Cardinality(B \cup {j}) = Cardinality(B) + 1
    BY <2>1, <2>4, ReapCounted, FS_AddElement
  <2>6. registered' = Cardinality(B) + 1
    BY <1>2, <2>1, ReapCounted DEF Register
  <2> QED BY <2>4, <2>5, <2>6 DEF CountInv
<1>3. ASSUME NEW c \in Consumers, Drop(c) PROVE CountInv'
  <2> DEFINE j == idx[c]
  <2>1. cst[c] = "open" /\ active' = [active EXCEPT ![j] = FALSE]
        /\ registered' = AtLeastZero(registered - 1)
    BY <1>3 DEF Drop
  <2>2. j \in Entries /\ active[j]
    BY <2>1 DEF EntryInv
  <2>3. ActiveEntries' = ActiveEntries \ {j} /\ j \in ActiveEntries
    BY <2>1, <2>2 DEF ActiveEntries, TypeOK
  <2>4. /\ Cardinality(ActiveEntries \ {j}) = Cardinality(ActiveEntries) - 1
        /\ Cardinality(ActiveEntries \ {j}) \in Nat
    BY <2>3, ActiveFinite, FS_RemoveElement, FS_CardinalityType
  <2>5. registered' = registered - 1
    BY <2>1, <2>4 DEF CountInv, AtLeastZero, TypeOK
  <2> QED BY <2>3, <2>4, <2>5 DEF CountInv
<1>4. CASE UNCHANGED <<active, registered>>
  BY <1>4 DEF CountInv, ActiveEntries
<1>5. ASSUME NEW p \in Procs, Sweep(p) PROVE CountInv'
  BY <1>1, <1>5 DEF Sweep, ReapOnly
<1>6. ASSUME NEW w \in Writers, Reserve(w) \/ ReserveFull(w) PROVE CountInv'
  BY <1>1, <1>6, ProcsAssumption DEF Reserve, ReserveFull, ReapOnly
<1>7. ASSUME NEW c \in Consumers, RegisterFull(c) PROVE CountInv'
  BY <1>1, <1>7, ProcsAssumption DEF RegisterFull, ReapOnly
<1>8. ASSUME NEW w \in Writers, Fill(w) \/ Commit(w) \/ Abort(w)
      PROVE  UNCHANGED <<active, registered>>
  BY <1>8 DEF Fill, Commit, Abort, registryVars
<1>9. ASSUME NEW c \in Consumers, Take(c) PROVE UNCHANGED <<active, registered>>
  BY <1>9 DEF Take, registryVars
<1>10. ASSUME NEW c \in Consumers, NEW l \in leases[c], Release(c, l)
       PROVE  UNCHANGED <<active, registered>>
  BY <1>10 DEF Release, registryVars
<1>11. ASSUME NEW p \in Procs, \/ ClaimProducer(p) \/ DropProducer(p) \/ HandBack(p)
                               \/ Crash(p) \/ Restart(p)
       PROVE  UNCHANGED <<active, registered>>
  BY <1>11 DEF ClaimProducer, DropProducer, HandBack, Crash, Restart, registryVars
<1>12. CASE UNCHANGED vars
  BY <1>4, <1>12 DEF vars
<1> QED
  BY <1>2, <1>3, <1>4, <1>5, <1>6, <1>7, <1>8, <1>9, <1>10, <1>11, <1>12 DEF Next

\* The registry and its count agree, and every open consumer has an entry of its
\* own, registered to its process: saturating subtraction never hides a drift.
THEOREM RegistryKept == Spec => []RegistryConsistent
<1>1. Init => CountInv
  <2>1. ASSUME Init PROVE ActiveEntries = {} /\ registered = 0
    BY <2>1 DEF Init, ActiveEntries
  <2> QED BY <2>1, FS_EmptySet DEF CountInv
<1>2. EntryInv /\ CountInv => RegistryConsistent
  BY DEF EntryInv, CountInv, ActiveEntries, RegistryConsistent
<1> QED BY <1>1, <1>2, TypeCorrect, EntriesKept, CountStep, PTL DEF Spec
===============================================================================
