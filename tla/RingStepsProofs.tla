---------------------------- MODULE RingStepsProofs ----------------------------
(***************************************************************************)
(* Leases, slots and the count in RingSteps, for every number of processes, *)
(* entries and slots and every modulus: a lease keeps its slot although    *)
(* consumers read and release without the lock while a producer recycles,  *)
(* a slot that a killed producer was writing is swept, but for the one that *)
(* it had marked and not stored its pid in, and the count drifts by those  *)
(* killed next to it and no further.                                       *)
(***************************************************************************)
EXTENDS RingSteps, FiniteSetTheorems, TLAPS

LockedStages == {"reap", "countDead", "choose", "chosen", "stamp", "number", "address", "advance",
                 "enter", "activate", "countUp", "close", "countDown"}
OpenStages == {"open", "loadState", "loadMask", "loadSeq", "compare", "check", "recheck", "wait",
               "asleep", "release"}
Working == {"stamp", "number", "address", "advance", "copy", "commit"}
Stages == LockedStages \cup OpenStages \cup
          {"off", "idle", "copy", "commit", "signal", "wake", "none", "closed", "dead"}
Lease == [slot : Slots, seq : Seqs]
HandleRecord == [idx : 0 .. MaxConsumers, last : Seqs, leases : SUBSET Lease]
ScanRecord == [found : Lease \cup {None}, oldest : Lease \cup {None}, again : 0 .. SlotCount]
SlotRecord == [state : {"FREE", "WRITING", "COMMITTED"}, seq : Seqs, mask : SUBSET Entries,
               payload : Seqs \cup {Zeroed}, pid : Producers \cup {NoProc}]

Types ==
    /\ slot \in [Slots -> SlotRecord]
    /\ entry \in [Entries -> [active : BOOLEAN, pid : Consumers \cup {NoProc}]]
    /\ registered \in Nat /\ nextSeq \in Seqs
    /\ role \in Producers \cup {NoProc} /\ lock \in Procs \cup {NoProc} /\ alive \subseteq Procs
    /\ pc \in [Procs -> Stages] /\ at \in [Procs -> Nat]
    /\ pick \in [Producers -> 0 .. SlotCount]
    /\ handle \in [Consumers -> HandleRecord]
    /\ scan \in [Consumers -> ScanRecord]
    /\ heard \in [Consumers -> BOOLEAN]
    /\ returning \in [Consumers -> Lease \cup {None}]

\* Loops stay within the slots, and what is to be validated was found.
Loops ==
    /\ \A p \in Procs :
          pc[p] \in {"choose", "loadState", "loadMask", "loadSeq", "compare"} => at[p] \in Slots
    /\ \A c \in Consumers :
          scan[c].again > 0 \/ pc[c] \in {"check", "recheck"} => scan[c].oldest \in Lease

\* The registry lock: only its holder is in a locked section.
LockInv == \A p \in alive : pc[p] \in LockedStages => lock = p

\* The entry of a consumer, from being filled in until it is freed, is its own; an
\* entry that is chosen is inactive until Activate.
EntryInv ==
    /\ \A c \in Consumers \cap alive :
          /\ pc[c] \in OpenStages \cup {"activate", "countUp", "close"} =>
                handle[c].idx \in Entries /\ entry[handle[c].idx].pid = c
          /\ pc[c] \in OpenStages \cup {"countUp", "close"} => entry[handle[c].idx].active
          /\ pc[c] = "activate" => ~entry[handle[c].idx].active
    /\ \A c \in Consumers :
          /\ handle[c].leases # {} => c \in alive /\ pc[c] \in OpenStages
          /\ pc[c] = "release" => returning[c] \in handle[c].leases

\* One producer lives and has claimed the role.
RoleInv == \A p \in Producers \cap alive : pc[p] # "off" => role = p

\* What a living producer has picked, by how far it is.
PickInv ==
    \A p \in Producers \cap alive :
        /\ pc[p] \in {"off", "idle", "reap", "countDead"} => pick[p] = 0
        /\ pc[p] \in {"choose", "chosen"} /\ pick[p] # 0 =>
              slot[pick[p]].state = "FREE" \/ slot[pick[p]].mask = {}
        /\ pc[p] \in Working => pick[p] # 0 /\ slot[pick[p]].state = "WRITING"
        /\ pc[p] \in Working \ {"stamp"} => slot[pick[p]].pid = p
        /\ pc[p] = "commit" => slot[pick[p]].payload = slot[pick[p]].seq
        /\ pc[p] \notin Working /\ pick[p] # 0 => slot[pick[p]].state # "WRITING"

\* A producer was killed between marking the slot and storing its pid there.
HalfMarked(s) == \E p \in Producers \ alive : pc[p] = "stamp" /\ pick[p] = s

\* A committed slot holds its own publication; one in WRITING that nobody living
\* works on carries the pid of somebody dead, or none, unless it is half marked.
SlotInv ==
    \A s \in Slots :
        /\ slot[s].state = "COMMITTED" => slot[s].payload = slot[s].seq
        /\ slot[s].state = "WRITING" =>
              \/ slot[s].pid \notin alive
              \/ \E p \in Producers \cap alive : pick[p] = s
              \/ HalfMarked(s)

\* The slots of leases.
LeaseInv ==
    \A c \in Consumers : \A l \in handle[c].leases :
        StillThere(l) /\ handle[c].idx \in slot[l.slot].mask

IInv == Types /\ Loops /\ LockInv /\ EntryInv /\ RoleInv /\ PickInv /\ SlotInv /\ LeaseInv

-----------------------------------------------------------------------------
LEMMA SeqModPositive == SeqMod \in Nat /\ SeqMod > 0
    BY StepsAssumption

LEMMA ModInSeqs == \A n \in Int : n % SeqMod \in Seqs
    BY SeqModPositive DEF Seqs

LEMMA Outside == NoProc \notin Procs /\ Producers \cap Consumers = {}
                 /\ Producers \subseteq Procs /\ Consumers \subseteq Procs
    BY StepsAssumption DEF Procs

LEMMA NoneOutside == None \notin Lease
    BY DEF None, Lease, Slots

LEMMA StageNames ==
    /\ LockedStages \subseteq Stages /\ OpenStages \subseteq Stages /\ Working \subseteq Stages
    /\ LockedStages \cap OpenStages = {} /\ Working \cap OpenStages = {}
    BY DEF Stages, LockedStages, OpenStages, Working

LEMMA Start == Init => IInv
<1> SUFFICES ASSUME Init PROVE IInv
    OBVIOUS
<1> USE StepsAssumption, Outside
<1>1. 0 \in Seqs /\ FirstSeq \in Seqs
    BY DEF Seqs
<1>2. Types
    BY <1>1 DEF Init, Types, SlotRecord, HandleRecord, ScanRecord, Stages, Slots, Entries, Closed, NoScan, Lease, Zeroed
<1>3. \A p \in Procs : pc[p] \in {"off", "none"} /\ at[p] = 1
    BY DEF Init
<1>4. Loops /\ LockInv
    BY <1>3 DEF Init, Loops, LockInv, LockedStages, NoScan
<1>5. EntryInv
    BY <1>3 DEF Init, EntryInv, OpenStages, Closed
<1>6. RoleInv /\ PickInv /\ SlotInv /\ LeaseInv
    BY <1>3 DEF Init, RoleInv, PickInv, SlotInv, LeaseInv, Working, Closed
<1> QED
    BY <1>2, <1>4, <1>5, <1>6 DEF IInv

-----------------------------------------------------------------------------
(* What a step keeps that hardly touches the variables of a conjunct.      *)

\* Only reader bits have gone.
Thinner ==
    \A s \in Slots :
        /\ slot'[s].state = slot[s].state /\ slot'[s].seq = slot[s].seq
        /\ slot'[s].payload = slot[s].payload /\ slot'[s].pid = slot[s].pid
        /\ slot'[s].mask \subseteq slot[s].mask

LEMMA Unchanged == ASSUME UNCHANGED slot PROVE Thinner
    BY DEF Thinner

LEMMA Dropping ==
    ASSUME Types, NEW s \in Slots, NEW i \in Entries, DropBit(s, i)
    PROVE  /\ Thinner
           /\ \A t \in Slots, j \in Entries : t # s \/ j # i =>
                 (j \in slot[t].mask => j \in slot'[t].mask)
           /\ slot' \in [Slots -> SlotRecord]
<1>1. \A t \in Slots \ {s} : slot'[t] = slot[t]
    BY DEF Types, DropBit
<1>2. slot'[s] = [slot[s] EXCEPT !.mask = @ \ {i}]
    BY DEF Types, DropBit
<1>3. slot'[s].mask = slot[s].mask \ {i}
    BY <1>2 DEF Types, SlotRecord
<1>4. Thinner
  <2>1. /\ slot'[s].state = slot[s].state /\ slot'[s].seq = slot[s].seq
        /\ slot'[s].payload = slot[s].payload /\ slot'[s].pid = slot[s].pid
    BY <1>2 DEF Types, SlotRecord
  <2> QED
    BY <1>1, <1>3, <2>1 DEF Thinner
<1>5. \A t \in Slots, j \in Entries : t # s \/ j # i =>
         (j \in slot[t].mask => j \in slot'[t].mask)
    BY <1>1, <1>3
<1>6. slot' \in [Slots -> SlotRecord]
  <2>1. slot[s] \in SlotRecord
    BY DEF Types
  <2>2. [slot[s] EXCEPT !.mask = @ \ {i}] \in SlotRecord
    BY <2>1 DEF SlotRecord
  <2> QED
    BY <2>2 DEF Types, DropBit
<1> QED
    BY <1>4, <1>5, <1>6

\* The dead stay where they were.
LEMMA HalfMarkedKept ==
    ASSUME UNCHANGED alive, NEW s,
           \A q \in Producers \ alive : pc'[q] = pc[q] /\ pick'[q] = pick[q], HalfMarked(s)
    PROVE  HalfMarked(s)'
    BY DEF HalfMarked

\* The lock is kept, taken from nobody living, or let go by its holder.
LEMMA LockKept ==
    ASSUME Types, LockInv, NEW p \in alive, NEW to \in Stages,
           pc' = [pc EXCEPT ![p] = to], UNCHANGED alive,
           \/ lock' = lock /\ (to \in LockedStages => pc[p] \in LockedStages)
           \/ lock \notin alive /\ lock' = p
           \/ lock \notin alive /\ to \notin LockedStages
           \/ pc[p] \in LockedStages /\ to \notin LockedStages
    PROVE  LockInv'
<1>1. p \in Procs /\ pc'[p] = to /\ \A q \in alive \ {p} : pc'[q] = pc[q]
    BY DEF Types
<1>2. \A q \in alive : pc[q] \in LockedStages => lock = q
    BY DEF LockInv
<1>3. lock' = lock \/ (\A q \in alive \ {p} : pc[q] \notin LockedStages)
    BY <1>2
<1> QED
    BY <1>1, <1>2, <1>3 DEF LockInv

\* A step of a producer, to consumers.
LEMMA ProducerStep ==
    ASSUME Types, EntryInv, NEW p \in Producers, NEW to \in Stages,
           pc' = [pc EXCEPT ![p] = to], UNCHANGED <<alive, entry, handle, returning>>
    PROVE  EntryInv'
<1>1. \A c \in Consumers : pc'[c] = pc[c]
    BY Outside DEF Types
<1> QED
    BY <1>1 DEF EntryInv

\* A step that neither chooses a slot nor works on one, to producers and slots.
LEMMA IdleStep ==
    ASSUME Types, RoleInv, PickInv, SlotInv, NEW p \in alive, NEW to \in Stages,
           pc' = [pc EXCEPT ![p] = to], UNCHANGED <<alive, pick, role>>, Thinner,
           p \in Producers =>
               /\ pc[p] # "off"
               /\ pick[p] = 0 /\ to \notin Working
    PROVE  RoleInv' /\ PickInv' /\ SlotInv'
<1>1. p \in Procs /\ pc'[p] = to /\ \A q \in Procs \ {p} : pc'[q] = pc[q]
    BY DEF Types
<1>2. RoleInv'
    BY <1>1, Outside DEF RoleInv
<1>3. SlotInv'
  <2>1. \A s \in Slots : HalfMarked(s) => HalfMarked(s)'
    BY <1>1, Outside, HalfMarkedKept
  <2> QED
    BY <2>1 DEF SlotInv, Thinner
<1>4. ASSUME NEW q \in Producers, q \in alive
      PROVE  /\ pc'[q] \in {"off", "idle", "reap", "countDead"} => pick[q] = 0
             /\ pc'[q] \in {"choose", "chosen"} /\ pick[q] # 0 =>
                   slot'[pick[q]].state = "FREE" \/ slot'[pick[q]].mask = {}
             /\ pc'[q] \in Working => pick[q] # 0 /\ slot'[pick[q]].state = "WRITING"
             /\ pc'[q] \in Working \ {"stamp"} => slot'[pick[q]].pid = q
             /\ pc'[q] = "commit" => slot'[pick[q]].payload = slot'[pick[q]].seq
             /\ pc'[q] \notin Working /\ pick[q] # 0 => slot'[pick[q]].state # "WRITING"
  <2>1. CASE q = p
    BY <1>1, <1>4, <2>1 DEF Working
  <2>2. CASE q # p
    <3>1. pc'[q] = pc[q]
        BY <1>1, <1>4, <2>2, Outside
    <3>2. pick[q] = 0 \/ pick[q] \in Slots
        BY <1>4 DEF Types, Slots
    <3>3. CASE pick[q] = 0
        BY <1>4, <3>1, <3>3 DEF PickInv, Working
    <3>4. CASE pick[q] \in Slots
        BY <1>4, <3>1, <3>4 DEF PickInv, Thinner, Working
    <3> QED
        BY <3>2, <3>3, <3>4
  <2> QED
    BY <2>1, <2>2
<1>5. PickInv'
    BY <1>4 DEF PickInv
<1> QED
    BY <1>2, <1>3, <1>5

\* A slot's lease is kept if its bits are.
LEMMA LeaseKept ==
    ASSUME Types, LeaseInv, UNCHANGED handle,
           \A c \in Consumers : \A l \in handle[c].leases :
               /\ slot'[l.slot].state = slot[l.slot].state /\ slot'[l.slot].seq = slot[l.slot].seq
               /\ handle[c].idx \in slot[l.slot].mask => handle[c].idx \in slot'[l.slot].mask
    PROVE  LeaseInv'
    BY DEF LeaseInv, StillThere

LEMMA LeaseSlots ==
    ASSUME Types, NEW c \in Consumers, NEW l \in handle[c].leases
    PROVE  l.slot \in Slots /\ l.seq \in Seqs
    BY DEF Types, HandleRecord, Lease

\* The index of a lease belongs to its consumer, which lives and is not in a locked section.
LEMMA LeaseOwner ==
    ASSUME EntryInv, NEW c \in Consumers, NEW l \in handle[c].leases
    PROVE  /\ c \in alive /\ pc[c] \in OpenStages
           /\ handle[c].idx \in Entries /\ entry[handle[c].idx].pid = c
           /\ entry[handle[c].idx].active
<1>1. c \in alive /\ pc[c] \in OpenStages
    BY DEF EntryInv
<1> QED
    BY <1>1 DEF EntryInv

-----------------------------------------------------------------------------
(* Receiving: a consumer reads, outside the lock, and its leases grow.     *)

LEMMA ReaderStep ==
    ASSUME IInv, NEW c \in Consumers, NEW to \in OpenStages,
           Goto(c, pc[c], to), pc[c] \in OpenStages, UNCHANGED <<shared, lock, alive, pick>>
    PROVE  /\ LockInv' /\ RoleInv' /\ PickInv' /\ SlotInv'
           /\ UNCHANGED <<handle, returning>> /\ to # "release" => EntryInv' /\ LeaseInv'
           /\ pc' \in [Procs -> Stages] /\ pc'[c] = to
           /\ \A q \in Procs \ {c} : pc'[q] = pc[q]
<1> USE DEF IInv
<1>1. /\ c \in alive /\ pc' = [pc EXCEPT ![c] = to] /\ to \in Stages /\ Thinner
      /\ to \notin LockedStages /\ c \notin Producers
    BY Unchanged, StageNames, Outside DEF Goto, shared
<1>2. LockInv'
    BY <1>1, LockKept
<1>3. RoleInv' /\ PickInv' /\ SlotInv'
    BY <1>1, IdleStep DEF shared
<1>4. pc' \in [Procs -> Stages] /\ pc'[c] = to /\ \A q \in Procs \ {c} : pc'[q] = pc[q]
    BY <1>1, Outside DEF Types
<1>5. ASSUME UNCHANGED <<handle, returning>>, to # "release"
      PROVE  EntryInv' /\ LeaseInv'
  <2>1. EntryInv'
    BY <1>1, <1>4, <1>5, Outside DEF EntryInv, shared, OpenStages
  <2>2. LeaseInv'
    BY <1>5 DEF LeaseInv, StillThere, shared
  <2> QED
    BY <2>1, <2>2
<1> QED
    BY <1>2, <1>3, <1>4, <1>5

LEMMA ObserveKeeps == ASSUME IInv, NEW c \in Consumers, Observe(c) PROVE IInv'
<1> USE DEF IInv
<1>1. /\ Goto(c, pc[c], "loadState") /\ pc[c] \in OpenStages /\ UNCHANGED <<shared, lock, alive, pick>>
      /\ UNCHANGED <<handle, returning, scan, heard>> /\ at' = [at EXCEPT ![c] = 1]
    BY DEF Observe, Goto, OpenStages, Reading
<1>2. /\ LockInv' /\ RoleInv' /\ PickInv' /\ SlotInv' /\ EntryInv' /\ LeaseInv'
      /\ pc' \in [Procs -> Stages] /\ pc'[c] = "loadState"
      /\ \A q \in Procs \ {c} : pc'[q] = pc[q]
    BY <1>1, ReaderStep DEF OpenStages
<1>3. Types'
    BY <1>1, <1>2 DEF Types, shared
<1>4. \A q \in Procs : q # c => at'[q] = at[q]
    BY <1>1 DEF Types
<1>5. at'[c] \in Slots
    BY <1>1, Outside, StepsAssumption DEF Types, Slots
<1>6. Loops'
    BY <1>1, <1>2, <1>4, <1>5, Outside DEF Loops
<1> QED
    BY <1>2, <1>3, <1>6

\* The end of one slot of a scan.
LEMMA OnwardKeeps ==
    ASSUME IInv, NEW c \in Consumers, NEW from \in {"loadState", "loadMask", "loadSeq"},
           Onward(c, from), Reading, UNCHANGED <<handle, heard>>
    PROVE  /\ LockInv' /\ RoleInv' /\ PickInv' /\ SlotInv' /\ EntryInv' /\ LeaseInv'
           /\ pc' \in [Procs -> Stages] /\ pc'[c] \in {"loadState", "compare"}
           /\ \A q \in Procs \ {c} : pc'[q] = pc[q] /\ at'[q] = at[q]
           /\ at' \in [Procs -> Nat] /\ at'[c] \in Slots
<1> USE DEF IInv
<1> DEFINE to == IF at[c] < SlotCount THEN "loadState" ELSE "compare"
<1>1. /\ Goto(c, pc[c], to) /\ pc[c] = from /\ UNCHANGED <<shared, lock, alive, pick, returning>>
      /\ at' = [at EXCEPT ![c] = IF @ < SlotCount THEN @ + 1 ELSE 1]
    BY DEF Onward, Goto, Reading
<1>2. pc[c] \in OpenStages /\ to \in OpenStages /\ to # "release" /\ to \in {"loadState", "compare"}
    BY <1>1 DEF OpenStages
<1> HIDE DEF to
<1>3. /\ LockInv' /\ RoleInv' /\ PickInv' /\ SlotInv' /\ EntryInv' /\ LeaseInv'
      /\ pc' \in [Procs -> Stages] /\ pc'[c] = to
      /\ \A q \in Procs \ {c} : pc'[q] = pc[q]
    BY <1>1, <1>2, ReaderStep
<1>4. at[c] \in Slots
    BY <1>1, Outside DEF Loops
<1>5. at' \in [Procs -> Nat] /\ at'[c] \in Slots /\ \A q \in Procs \ {c} : at'[q] = at[q]
    BY <1>1, <1>4, Outside, StepsAssumption DEF Types, Slots
<1> QED
    BY <1>2, <1>3, <1>5

LEMMA LoadStateKeeps == ASSUME IInv, NEW c \in Consumers, LoadState(c) PROVE IInv'
<1> USE DEF IInv
<1>1. Reading /\ UNCHANGED <<handle, scan, heard>>
    BY DEF LoadState
<1>2. CASE Goto(c, "loadState", "loadMask") /\ UNCHANGED at
  <2>1. Goto(c, pc[c], "loadMask") /\ pc[c] \in OpenStages /\ pc[c] = "loadState"
    BY <1>2 DEF Goto, OpenStages
  <2>2. /\ LockInv' /\ RoleInv' /\ PickInv' /\ SlotInv' /\ EntryInv' /\ LeaseInv'
        /\ pc' \in [Procs -> Stages] /\ pc'[c] = "loadMask"
        /\ \A q \in Procs \ {c} : pc'[q] = pc[q]
    BY <1>1, <2>1, ReaderStep DEF OpenStages, Reading
  <2>3. Types'
    BY <1>1, <1>2, <2>2 DEF Types, shared, Reading
  <2>4. Loops'
    BY <1>1, <1>2, <2>1, <2>2, Outside DEF Loops
  <2> QED
    BY <2>2, <2>3, <2>4
<1>3. CASE Onward(c, "loadState")
  <2>1. /\ LockInv' /\ RoleInv' /\ PickInv' /\ SlotInv' /\ EntryInv' /\ LeaseInv'
        /\ pc' \in [Procs -> Stages] /\ pc'[c] \in {"loadState", "compare"}
        /\ \A q \in Procs \ {c} : pc'[q] = pc[q] /\ at'[q] = at[q]
        /\ at' \in [Procs -> Nat] /\ at'[c] \in Slots
    BY <1>1, <1>3, OnwardKeeps
  <2>2. Types'
    BY <1>1, <2>1 DEF Types, shared, Reading
  <2>3. Loops'
    BY <1>1, <2>1, Outside DEF Loops
  <2> QED
    BY <2>1, <2>2, <2>3
<1> QED
    BY <1>2, <1>3 DEF LoadState

LEMMA LoadMaskKeeps == ASSUME IInv, NEW c \in Consumers, LoadMask(c) PROVE IInv'
<1> USE DEF IInv
<1>1. Reading /\ UNCHANGED <<handle, scan, heard>>
    BY DEF LoadMask
<1>2. CASE Goto(c, "loadMask", "loadSeq") /\ UNCHANGED at
  <2>1. Goto(c, pc[c], "loadSeq") /\ pc[c] \in OpenStages /\ pc[c] = "loadMask"
    BY <1>2 DEF Goto, OpenStages
  <2>2. /\ LockInv' /\ RoleInv' /\ PickInv' /\ SlotInv' /\ EntryInv' /\ LeaseInv'
        /\ pc' \in [Procs -> Stages] /\ pc'[c] = "loadSeq"
        /\ \A q \in Procs \ {c} : pc'[q] = pc[q]
    BY <1>1, <2>1, ReaderStep DEF OpenStages, Reading
  <2>3. Types'
    BY <1>1, <1>2, <2>2 DEF Types, shared, Reading
  <2>4. Loops'
    BY <1>1, <1>2, <2>1, <2>2, Outside DEF Loops
  <2> QED
    BY <2>2, <2>3, <2>4
<1>3. CASE Onward(c, "loadMask")
  <2>1. /\ LockInv' /\ RoleInv' /\ PickInv' /\ SlotInv' /\ EntryInv' /\ LeaseInv'
        /\ pc' \in [Procs -> Stages] /\ pc'[c] \in {"loadState", "compare"}
        /\ \A q \in Procs \ {c} : pc'[q] = pc[q] /\ at'[q] = at[q]
        /\ at' \in [Procs -> Nat] /\ at'[c] \in Slots
    BY <1>1, <1>3, OnwardKeeps
  <2>2. Types'
    BY <1>1, <2>1 DEF Types, shared, Reading
  <2>3. Loops'
    BY <1>1, <2>1, Outside DEF Loops
  <2> QED
    BY <2>1, <2>2, <2>3
<1> QED
    BY <1>2, <1>3 DEF LoadMask

LEMMA LoadSeqKeeps == ASSUME IInv, NEW c \in Consumers, LoadSeq(c) PROVE IInv'
<1> USE DEF IInv
<1> DEFINE here == [slot |-> at[c], seq |-> slot[at[c]].seq]
<1>1. /\ Reading /\ UNCHANGED <<handle, heard>> /\ Onward(c, "loadSeq") /\ pc[c] = "loadSeq"
      /\ scan' = scan \/ scan' = [scan EXCEPT ![c].found = here]
    BY DEF LoadSeq, Onward, Goto
<1>2. /\ LockInv' /\ RoleInv' /\ PickInv' /\ SlotInv' /\ EntryInv' /\ LeaseInv'
      /\ pc' \in [Procs -> Stages] /\ pc'[c] \in {"loadState", "compare"}
      /\ \A q \in Procs \ {c} : pc'[q] = pc[q] /\ at'[q] = at[q]
      /\ at' \in [Procs -> Nat] /\ at'[c] \in Slots
    BY <1>1, OnwardKeeps
<1>3. here \in Lease
  <2>1. at[c] \in Slots
    BY <1>1, Outside DEF Loops
  <2>2. slot[at[c]].seq \in Seqs
    BY <2>1 DEF Types, SlotRecord
  <2> QED
    BY <2>1, <2>2 DEF Lease
<1> HIDE DEF here
<1>4. scan' \in [Consumers -> ScanRecord]
      /\ \A d \in Consumers : scan'[d].again = scan[d].again /\ scan'[d].oldest = scan[d].oldest
  <2>1. CASE scan' = [scan EXCEPT ![c].found = here]
    <3>1. scan[c] \in ScanRecord
      BY DEF Types
    <3>2. /\ [scan[c] EXCEPT !.found = here] \in ScanRecord
          /\ [scan[c] EXCEPT !.found = here].again = scan[c].again
          /\ [scan[c] EXCEPT !.found = here].oldest = scan[c].oldest
      BY <3>1, <1>3 DEF ScanRecord
    <3> QED
      BY <2>1, <3>2 DEF Types
  <2> QED
    BY <1>1, <2>1 DEF Types
<1>5. Types'
    BY <1>1, <1>2, <1>4 DEF Types, shared, Reading
<1>6. Loops'
    BY <1>1, <1>2, <1>4, Outside DEF Loops
<1> QED
    BY <1>2, <1>5, <1>6

LEMMA CompareKeeps == ASSUME IInv, NEW c \in Consumers, Compare(c) PROVE IInv'
<1> USE DEF IInv
<1> DEFINE to == IF ScanAgain(c) THEN "loadState"
                 ELSE IF FoundOlder(c) \/ scan[c].again > 0 THEN "check" ELSE "wait"
           best == IF FoundOlder(c) THEN scan[c].found ELSE scan[c].oldest
           count == IF ScanAgain(c) THEN scan[c].again + 1 ELSE 0
           new == [scan[c] EXCEPT !.found = None, !.oldest = best, !.again = count]
<1>1. /\ Goto(c, pc[c], to) /\ pc[c] = "compare" /\ Reading /\ UNCHANGED <<at, handle, heard>>
      /\ scan' = [scan EXCEPT ![c] = new]
    BY DEF Compare, Goto
<1>2. pc[c] \in OpenStages /\ to \in OpenStages /\ to # "release"
    BY <1>1 DEF OpenStages
<1>3. scan[c] \in ScanRecord
    BY DEF Types
<1>4. /\ scan[c].found \in Lease \cup {None} /\ scan[c].oldest \in Lease \cup {None}
      /\ scan[c].again \in 0 .. SlotCount
    BY <1>3 DEF ScanRecord
<1>5. FoundOlder(c) => scan[c].found \in Lease
    BY <1>4 DEF FoundOlder
<1>6. best \in Lease \cup {None} /\ count \in 0 .. SlotCount
    BY <1>4, StepsAssumption DEF ScanAgain
<1>7. new \in ScanRecord /\ new.oldest = best /\ new.again = count
  <2> HIDE DEF best, count
  <2> QED
    BY <1>3, <1>6 DEF ScanRecord
<1>8. /\ new.again > 0 => new.oldest \in Lease
      /\ to = "check" => new.oldest \in Lease
  <2>1. scan[c].again > 0 => scan[c].oldest \in Lease
    BY DEF Loops
  <2>2. count > 0 => FoundOlder(c)
    BY DEF ScanAgain
  <2>3. to = "check" => FoundOlder(c) \/ scan[c].again > 0
    OBVIOUS
  <2>4. FoundOlder(c) => best \in Lease
    BY <1>5
  <2>5. ~FoundOlder(c) => best = scan[c].oldest
    OBVIOUS
  <2> HIDE DEF new, to, best, count
  <2> QED
    BY <1>7, <2>1, <2>2, <2>3, <2>4, <2>5
<1>9. to \in {"loadState", "check", "wait"}
    OBVIOUS
<1> HIDE DEF to, new
<1>10. /\ LockInv' /\ RoleInv' /\ PickInv' /\ SlotInv' /\ EntryInv' /\ LeaseInv'
       /\ pc' \in [Procs -> Stages] /\ pc'[c] = to
       /\ \A q \in Procs \ {c} : pc'[q] = pc[q]
    BY <1>1, <1>2, ReaderStep DEF Reading
<1>11. /\ scan' \in [Consumers -> ScanRecord] /\ scan'[c] = new
       /\ \A d \in Consumers \ {c} : scan'[d] = scan[d]
    BY <1>1, <1>7 DEF Types
<1>12. Types'
    BY <1>1, <1>10, <1>11 DEF Types, shared, Reading
<1>13. Loops'
    BY <1>1, <1>8, <1>9, <1>10, <1>11, Outside DEF Loops
<1> QED
    BY <1>10, <1>12, <1>13

LEMMA NoScanType == NoScan \in ScanRecord /\ NoScan.again = 0
    BY StepsAssumption DEF NoScan, ScanRecord

LEMMA CheckKeeps == ASSUME IInv, NEW c \in Consumers, Check(c) PROVE IInv'
<1> USE DEF IInv
<1> DEFINE to == IF StillThere(scan[c].oldest) THEN "recheck" ELSE "wait"
<1>1. /\ Goto(c, pc[c], to) /\ pc[c] = "check" /\ Reading /\ UNCHANGED <<at, handle, heard>>
      /\ \/ to = "recheck" /\ scan' = scan
         \/ to = "wait" /\ scan' = [scan EXCEPT ![c] = NoScan]
    BY DEF Check, Goto
<1>2. pc[c] \in OpenStages /\ to \in OpenStages /\ to # "release"
    BY <1>1 DEF OpenStages
<1> HIDE DEF to
<1>3. /\ LockInv' /\ RoleInv' /\ PickInv' /\ SlotInv' /\ EntryInv' /\ LeaseInv'
      /\ pc' \in [Procs -> Stages] /\ pc'[c] = to
      /\ \A q \in Procs \ {c} : pc'[q] = pc[q]
    BY <1>1, <1>2, ReaderStep DEF Reading
<1>4. /\ scan' \in [Consumers -> ScanRecord]
      /\ \A d \in Consumers \ {c} : scan'[d] = scan[d]
      /\ to = "recheck" => scan'[c] = scan[c]
      /\ to = "wait" => scan'[c] = NoScan
    BY <1>1, NoScanType DEF Types
<1>5. Types'
    BY <1>1, <1>3, <1>4 DEF Types, shared, Reading
<1>6. Loops'
    BY <1>1, <1>3, <1>4, NoScanType, Outside DEF Loops
<1> QED
    BY <1>3, <1>5, <1>6

LEMMA TakeKeeps == ASSUME IInv, NEW c \in Consumers, Take(c) PROVE IInv'
<1> USE DEF IInv
<1> DEFINE l == scan[c].oldest
           valid == StillThere(l) /\ handle[c].idx \in slot[l.slot].mask
           to == IF valid THEN "open" ELSE "wait"
           new == [handle[c] EXCEPT !.last = l.seq, !.leases = @ \cup {l}]
<1>1. /\ Goto(c, pc[c], to) /\ pc[c] = "recheck" /\ Reading /\ UNCHANGED at
      /\ scan' = [scan EXCEPT ![c] = NoScan] /\ heard' = [heard EXCEPT ![c] = @ /\ ~valid]
      /\ \/ valid /\ handle' = [handle EXCEPT ![c] = new]
         \/ UNCHANGED handle
    BY DEF Take, Goto
<1>2. pc[c] \in OpenStages /\ to \in OpenStages /\ to # "release" /\ to \in {"open", "wait"}
    BY <1>1 DEF OpenStages
<1>3. l \in Lease /\ l.seq \in Seqs
    BY <1>1 DEF Loops, Lease
<1>4. /\ new \in HandleRecord
      /\ new.idx = handle[c].idx /\ new.leases = handle[c].leases \cup {l}
    BY <1>3 DEF Types, HandleRecord
<1>5. valid => StillThere(l) /\ handle[c].idx \in slot[l.slot].mask
    OBVIOUS
<1> HIDE DEF to, new, l, valid
<1>6. /\ LockInv' /\ RoleInv' /\ PickInv' /\ SlotInv'
      /\ pc' \in [Procs -> Stages] /\ pc'[c] = to
      /\ \A q \in Procs \ {c} : pc'[q] = pc[q]
    BY <1>1, <1>2, ReaderStep DEF Reading
<1>7. /\ handle' \in [Consumers -> HandleRecord]
      /\ \A d \in Consumers : handle'[d].idx = handle[d].idx
      /\ \A d \in Consumers \ {c} : handle'[d] = handle[d]
      /\ \/ valid /\ handle'[c].leases = handle[c].leases \cup {l}
         \/ handle'[c].leases = handle[c].leases
  <2>1. CASE valid /\ handle' = [handle EXCEPT ![c] = new]
    BY <1>4, <2>1 DEF Types
  <2>2. CASE UNCHANGED handle
    BY <2>2 DEF Types
  <2> QED
    BY <1>1, <2>1, <2>2
<1>8. /\ scan' \in [Consumers -> ScanRecord] /\ scan'[c] = NoScan
      /\ \A d \in Consumers \ {c} : scan'[d] = scan[d]
    BY <1>1, NoScanType DEF Types
<1>9. heard' \in [Consumers -> BOOLEAN]
    BY <1>1 DEF Types
<1>10. Types'
    BY <1>1, <1>6, <1>7, <1>8, <1>9 DEF Types, shared, Reading
<1>11. Loops'
    BY <1>1, <1>2, <1>6, <1>8, NoScanType, Outside DEF Loops
<1>12. EntryInv'
  <2>1. c \in alive
    BY <1>1 DEF Goto
  <2> QED
    BY <1>1, <1>2, <1>6, <1>7, <2>1, Outside DEF EntryInv, shared, Reading, OpenStages
<1>13. LeaseInv'
  <2>1. \A d \in Consumers : \A k \in handle[d].leases :
           StillThere(k) /\ handle[d].idx \in slot[k.slot].mask
    BY DEF LeaseInv
  <2>2. \A k : StillThere(k)' <=> StillThere(k)
    BY <1>1 DEF StillThere, Reading, shared
  <2>3. UNCHANGED slot
    BY <1>1 DEF Reading, shared
  <2> QED
    BY <1>5, <1>7, <2>1, <2>2, <2>3 DEF LeaseInv
<1> QED
    BY <1>6, <1>10, <1>11, <1>12, <1>13

LEMMA SleepKeeps == ASSUME IInv, NEW c \in Consumers, Sleep(c) PROVE IInv'
<1> USE DEF IInv
<1>1. /\ Goto(c, pc[c], "asleep") /\ pc[c] \in OpenStages
      /\ Reading /\ UNCHANGED <<at, handle, scan, heard>>
    BY DEF Sleep, Goto, OpenStages
<1>2. /\ LockInv' /\ RoleInv' /\ PickInv' /\ SlotInv' /\ EntryInv' /\ LeaseInv'
      /\ pc' \in [Procs -> Stages] /\ pc'[c] = "asleep"
      /\ \A q \in Procs \ {c} : pc'[q] = pc[q]
    BY <1>1, ReaderStep DEF OpenStages, Reading
<1>3. Types'
    BY <1>1, <1>2 DEF Types, shared, Reading
<1>4. Loops'
    BY <1>1, <1>2, Outside DEF Loops
<1> QED
    BY <1>2, <1>3, <1>4

LEMMA EndWaitKeeps == ASSUME IInv, NEW c \in Consumers, EndWait(c) PROVE IInv'
<1> USE DEF IInv
<1>1. /\ Goto(c, pc[c], "open") /\ pc[c] \in OpenStages
      /\ Reading /\ UNCHANGED <<at, handle, scan>> /\ heard' = [heard EXCEPT ![c] = FALSE]
    BY DEF EndWait, Goto, OpenStages
<1>2. /\ LockInv' /\ RoleInv' /\ PickInv' /\ SlotInv' /\ EntryInv' /\ LeaseInv'
      /\ pc' \in [Procs -> Stages] /\ pc'[c] = "open"
      /\ \A q \in Procs \ {c} : pc'[q] = pc[q]
    BY <1>1, ReaderStep DEF OpenStages, Reading
<1>3. heard' \in [Consumers -> BOOLEAN]
    BY <1>1 DEF Types
<1>4. Types'
    BY <1>1, <1>2, <1>3 DEF Types, shared, Reading
<1>5. Loops'
    BY <1>1, <1>2, Outside DEF Loops
<1> QED
    BY <1>2, <1>4, <1>5

LEMMA StartReleaseKeeps == ASSUME IInv, NEW c \in Consumers, StartRelease(c) PROVE IInv'
<1> USE DEF IInv
<1>1. /\ Goto(c, pc[c], "release") /\ pc[c] \in OpenStages
      /\ UNCHANGED <<alive, pick, shared, lock, at, handle, scan, heard>>
      /\ \E l \in handle[c].leases : returning' = [returning EXCEPT ![c] = l]
    BY DEF StartRelease, Goto, OpenStages, ConsumerOnly
<1>2. /\ LockInv' /\ RoleInv' /\ PickInv' /\ SlotInv'
      /\ pc' \in [Procs -> Stages] /\ pc'[c] = "release"
      /\ \A q \in Procs \ {c} : pc'[q] = pc[q]
    BY <1>1, ReaderStep DEF OpenStages
<1>3. /\ returning' \in [Consumers -> Lease \cup {None}] /\ returning'[c] \in handle[c].leases
      /\ \A d \in Consumers \ {c} : returning'[d] = returning[d]
  <2>1. handle[c].leases \subseteq Lease
    BY DEF Types, HandleRecord
  <2> QED
    BY <1>1, <2>1 DEF Types
<1>4. Types'
    BY <1>1, <1>2, <1>3 DEF Types, shared
<1>5. Loops'
    BY <1>1, <1>2, Outside DEF Loops
<1>6. LeaseInv'
    BY <1>1 DEF LeaseInv, StillThere, shared
<1>7. EntryInv'
    BY <1>1, <1>2, <1>3, Outside DEF EntryInv, shared, OpenStages
<1> QED
    BY <1>2, <1>4, <1>5, <1>6, <1>7

\* The bits of an index that nobody living has leases under may go.
LEMMA BitsGone ==
    ASSUME IInv, NEW s \in Slots, NEW i \in Entries, DropBit(s, i), UNCHANGED handle,
           \A d \in Consumers : handle[d].leases # {} => handle[d].idx # i
    PROVE  LeaseInv'
<1> USE DEF IInv
<1>1. /\ Thinner
      /\ \A t \in Slots, j \in Entries : t # s \/ j # i =>
            (j \in slot[t].mask => j \in slot'[t].mask)
    BY Dropping
<1>2. ASSUME NEW d \in Consumers, NEW l \in handle[d].leases
      PROVE  /\ slot'[l.slot].state = slot[l.slot].state /\ slot'[l.slot].seq = slot[l.slot].seq
             /\ handle[d].idx \in slot[l.slot].mask => handle[d].idx \in slot'[l.slot].mask
    BY <1>1, LeaseSlots, LeaseOwner DEF Thinner
<1> QED
    BY <1>2, LeaseKept

LEMMA ReleaseKeeps == ASSUME IInv, NEW c \in Consumers, Release(c) PROVE IInv'
<1> USE DEF IInv
<1> DEFINE l == returning[c]
           new == [handle[c] EXCEPT !.leases = @ \ {l}]
<1>1. /\ c \in alive /\ pc[c] = "release" /\ pc' = [pc EXCEPT ![c] = "open"]
      /\ DropBit(l.slot, handle[c].idx) /\ handle' = [handle EXCEPT ![c] = new]
      /\ returning' = [returning EXCEPT ![c] = None]
      /\ UNCHANGED <<alive, pick, entry, registered, nextSeq, role, lock, at, scan, heard>>
    BY DEF Release, Goto, ConsumerOnly
<1>2. l \in handle[c].leases
    BY <1>1 DEF EntryInv
<1>3. l.slot \in Slots /\ l.seq \in Seqs /\ handle[c].idx \in Entries
    BY <1>2, LeaseSlots, LeaseOwner
<1>4. /\ Thinner /\ slot' \in [Slots -> SlotRecord]
      /\ \A t \in Slots, j \in Entries : t # l.slot \/ j # handle[c].idx =>
            (j \in slot[t].mask => j \in slot'[t].mask)
    BY <1>1, <1>3, Dropping
<1>5. new \in HandleRecord /\ new.idx = handle[c].idx /\ new.leases = handle[c].leases \ {l}
    BY DEF Types, HandleRecord
<1>6. "open" \in Stages /\ "open" \in OpenStages /\ "open" \notin LockedStages
    BY DEF Stages, OpenStages, LockedStages
<1> HIDE DEF new, l
<1>7. /\ handle' \in [Consumers -> HandleRecord]
      /\ \A d \in Consumers : handle'[d].idx = handle[d].idx
      /\ \A d \in Consumers \ {c} : handle'[d] = handle[d]
      /\ handle'[c].leases = handle[c].leases \ {l}
    BY <1>1, <1>5 DEF Types
<1>8. /\ pc' \in [Procs -> Stages] /\ pc'[c] = "open"
      /\ \A q \in Procs \ {c} : pc'[q] = pc[q]
    BY <1>1, <1>6, Outside DEF Types
<1>9. returning' \in [Consumers -> Lease \cup {None}] /\ \A d \in Consumers \ {c} : returning'[d] = returning[d]
    BY <1>1 DEF Types
<1>10. Types'
    BY <1>1, <1>4, <1>7, <1>8, <1>9 DEF Types
<1>11. Loops'
    BY <1>1, <1>8, Outside DEF Loops
<1>12. LockInv'
    BY <1>1, <1>6, LockKept
<1>13. RoleInv' /\ PickInv' /\ SlotInv'
    BY <1>1, <1>4, <1>6, IdleStep, Outside
<1>14. EntryInv'
    BY <1>1, <1>6, <1>7, <1>8, <1>9, Outside DEF EntryInv, OpenStages
<1>15. LeaseInv'
  <2>1. ASSUME NEW d \in Consumers, NEW k \in handle'[d].leases
        PROVE  StillThere(k)' /\ handle'[d].idx \in slot'[k.slot].mask
    <3>1. k \in handle[d].leases /\ handle'[d].idx = handle[d].idx
      BY <1>7, <2>1
    <3>2. k.slot \in Slots /\ k.seq \in Seqs /\ StillThere(k) /\ handle[d].idx \in slot[k.slot].mask
      BY <3>1, LeaseSlots DEF LeaseInv
    <3>3. StillThere(k)'
      BY <1>4, <3>2 DEF StillThere, Thinner
    <3>4. k.slot # l.slot \/ handle[d].idx # handle[c].idx
      <4>1. CASE d = c
        <5>1. k # l
          BY <1>7, <2>1, <4>1
        <5>2. StillThere(l)
          BY <1>2 DEF LeaseInv
        <5>3. k.slot = l.slot => k.seq = l.seq
          BY <3>2, <5>2 DEF StillThere
        <5>4. k \in Lease /\ l \in Lease
          BY <1>2, <3>1 DEF Types, HandleRecord
        <5> QED
          BY <5>1, <5>3, <5>4 DEF Lease
      <4>2. CASE d # c
        BY <1>2, <3>1, <4>2, LeaseOwner
      <4> QED
        BY <4>1, <4>2
    <3>5. handle[d].idx \in Entries
      BY <3>1, LeaseOwner
    <3> QED
      BY <1>4, <3>1, <3>2, <3>3, <3>4, <3>5
  <2> QED
    BY <2>1 DEF LeaseInv
<1> QED
    BY <1>10, <1>11, <1>12, <1>13, <1>14, <1>15

-----------------------------------------------------------------------------
(* reap_dead, by a producer or by a consumer that registers.               *)

\* A step of a process that has no lease and claims no entry, to the entries of others.
LEMMA EntriesKept ==
    ASSUME Types, EntryInv, NEW p \in alive, NEW to \in Stages, pc' = [pc EXCEPT ![p] = to],
           pc[p] \notin OpenStages, to \notin OpenStages \cup {"activate", "countUp", "close"},
           UNCHANGED <<alive, handle, returning>>,
           \A i \in Entries : /\ entry'[i].pid = entry[i].pid
                              /\ entry'[i].active => entry[i].active
                              /\ entry[i].active /\ entry[i].pid \in alive \ {p} =>
                                    entry'[i].active
    PROVE  EntryInv'
<1>1. p \in Procs /\ pc'[p] = to /\ \A q \in Procs \ {p} : pc'[q] = pc[q]
    BY DEF Types
<1>2. ASSUME NEW c \in Consumers, c \in alive
      PROVE  /\ pc'[c] \in OpenStages \cup {"activate", "countUp", "close"} =>
                   handle[c].idx \in Entries /\ entry'[handle[c].idx].pid = c
             /\ pc'[c] \in OpenStages \cup {"countUp", "close"} => entry'[handle[c].idx].active
             /\ pc'[c] = "activate" => ~entry'[handle[c].idx].active
  <2>1. CASE c = p
    BY <1>1, <2>1
  <2>2. CASE c # p
    <3>1. pc'[c] = pc[c]
      BY <1>1, <2>2, Outside
    <3>2. /\ pc[c] \in OpenStages \cup {"activate", "countUp", "close"} =>
                 handle[c].idx \in Entries /\ entry[handle[c].idx].pid = c
          /\ pc[c] \in OpenStages \cup {"countUp", "close"} => entry[handle[c].idx].active
          /\ pc[c] = "activate" => ~entry[handle[c].idx].active
      BY <1>2 DEF EntryInv
    <3> QED
      BY <1>2, <2>2, <3>1, <3>2
  <2> QED
    BY <2>1, <2>2
<1>3. ASSUME NEW c \in Consumers
      PROVE  /\ handle[c].leases # {} => c \in alive /\ pc'[c] \in OpenStages
             /\ pc'[c] = "release" => returning[c] \in handle[c].leases
  <2>1. CASE c = p
    BY <1>1, <2>1 DEF EntryInv, OpenStages
  <2>2. CASE c # p
    BY <1>1, <2>2, Outside DEF EntryInv
  <2> QED
    BY <2>1, <2>2
<1> QED
    BY <1>2, <1>3 DEF EntryInv

LEMMA StartLockedKeeps ==
    ASSUME IInv, NEW p \in Procs, NEW from \in {"idle", "none"}, StartLocked(p, from),
           p \in Producers => from = "idle"
    PROVE  IInv'
<1> USE DEF IInv
<1>1. /\ p \in alive /\ pc[p] = from /\ pc' = [pc EXCEPT ![p] = "reap"]
      /\ lock \notin alive /\ lock' = p /\ at' = [at EXCEPT ![p] = 1]
      /\ UNCHANGED <<slot, entry, registered, nextSeq, role, alive, pick, handle, scan, heard, returning>>
    BY DEF StartLocked, Goto, Lock, shared
<1>2. /\ "reap" \in Stages /\ "reap" \notin OpenStages /\ from \notin OpenStages
      /\ "reap" \notin Working
    BY DEF Stages, OpenStages, LockedStages, Working
<1>3. /\ pc' \in [Procs -> Stages] /\ pc'[p] = "reap"
      /\ \A q \in Procs \ {p} : pc'[q] = pc[q] /\ at'[q] = at[q]
      /\ at' \in [Procs -> Nat]
    BY <1>1, <1>2 DEF Types
<1>4. Types'
    BY <1>1, <1>3 DEF Types
<1>5. Loops'
    BY <1>1, <1>3, Outside DEF Loops
<1>6. LockInv'
    BY <1>1, <1>2, LockKept
<1>7. RoleInv' /\ PickInv' /\ SlotInv'
  <2>1. p \in Producers => pc[p] # "off" /\ pick[p] = 0
    BY <1>1 DEF PickInv
  <2> QED
    BY <1>1, <1>2, <2>1, Unchanged, IdleStep
<1>8. EntryInv'
    BY <1>1, <1>2, EntriesKept
<1>9. LeaseInv'
    BY <1>1 DEF LeaseInv, StillThere
<1> QED
    BY <1>4, <1>5, <1>6, <1>7, <1>8, <1>9

\* A producer that reaps has not chosen yet, and the reaper has the lock.
LEMMA Reaping ==
    ASSUME IInv, NEW p \in alive, pc[p] \in {"reap", "countDead"}
    PROVE  /\ lock = p /\ pc[p] \in LockedStages /\ pc[p] \notin OpenStages
           /\ p \in Producers => pc[p] # "off" /\ pick[p] = 0
           /\ {"reap", "countDead", "enter", "choose"} \subseteq Stages \cap LockedStages
           /\ {"reap", "countDead", "enter", "choose"} \cap
                 (OpenStages \cup Working \cup {"activate", "countUp", "close"}) = {}
    BY DEF IInv, LockInv, PickInv, LockedStages, OpenStages, Working, Stages

LEMMA ReapEntryKeeps == ASSUME IInv, NEW p \in Procs, ReapEntry(p) PROVE IInv'
<1> USE DEF IInv
<1> DEFINE i == at[p]
<1>1. /\ p \in alive /\ pc[p] = "reap" /\ i \in Entries
      /\ UNCHANGED <<registered, nextSeq, role, lock, alive, pick, handle, scan, heard, returning>>
    BY DEF ReapEntry, Goto
<1>2. /\ lock = p /\ pc[p] \in LockedStages /\ pc[p] \notin OpenStages
      /\ p \in Producers => pc[p] # "off" /\ pick[p] = 0
      /\ {"reap", "countDead"} \subseteq Stages \cap LockedStages
      /\ {"reap", "countDead"} \cap
            (OpenStages \cup Working \cup {"activate", "countUp", "close"}) = {}
    BY <1>1, Reaping
<1> HIDE DEF i
<1>3. CASE /\ pc' = [pc EXCEPT ![p] = "reap"] /\ DeadEntry(p, i) /\ DropNextBit(i) /\ UNCHANGED <<entry, at>>
  <2>1. PICK s \in Slots : DropBit(s, i)
    BY <1>3 DEF DropNextBit, WithBit
  <2>2. Thinner /\ slot' \in [Slots -> SlotRecord]
    BY <1>1, <1>3, <2>1, Dropping
  <2>3. /\ pc' \in [Procs -> Stages] /\ pc'[p] = "reap"
        /\ \A q \in Procs \ {p} : pc'[q] = pc[q]
    BY <1>2, <1>3 DEF Types
  <2>4. Types'
    BY <1>1, <1>3, <2>2, <2>3 DEF Types
  <2>5. Loops'
    BY <1>1, <1>3, <2>3, Outside DEF Loops
  <2>6. LockInv'
    BY <1>1, <1>2, <1>3, LockKept
  <2>7. RoleInv' /\ PickInv' /\ SlotInv'
    BY <1>1, <1>2, <1>3, <2>2, IdleStep
  <2>8. EntryInv'
    BY <1>1, <1>2, <1>3, EntriesKept
  <2>9. \A d \in Consumers : handle[d].leases # {} => handle[d].idx # i
    <3>1. entry[i].pid \notin alive
      BY <1>3 DEF DeadEntry
    <3>2. \A d \in Consumers : handle[d].leases # {} => d \in alive /\ entry[handle[d].idx].pid = d
      BY LeaseOwner
    <3> QED
      BY <3>1, <3>2
  <2>10. LeaseInv'
    BY <1>1, <1>3, <2>1, <2>9, BitsGone
  <2> QED
    BY <2>4, <2>5, <2>6, <2>7, <2>8, <2>10
<1>4. CASE /\ pc' = [pc EXCEPT ![p] = "countDead"] /\ DeadEntry(p, i) /\ WithBit(i) = {}
           /\ entry' = [entry EXCEPT ![i].active = FALSE] /\ UNCHANGED <<slot, at>>
  <2>1. entry[i].pid \notin alive
    BY <1>4 DEF DeadEntry
  <2>2. /\ entry' \in [Entries -> [active : BOOLEAN, pid : Consumers \cup {NoProc}]]
        /\ \A j \in Entries : /\ entry'[j].pid = entry[j].pid
                              /\ entry'[j].active => entry[j].active
                              /\ j # i => entry'[j].active = entry[j].active
    BY <1>1, <1>4 DEF Types
  <2>3. /\ pc' \in [Procs -> Stages] /\ pc'[p] = "countDead"
        /\ \A q \in Procs \ {p} : pc'[q] = pc[q]
    BY <1>2, <1>4 DEF Types
  <2>4. Types'
    BY <1>1, <1>4, <2>2, <2>3 DEF Types
  <2>5. Loops'
    BY <1>1, <1>4, <2>3, Outside DEF Loops
  <2>6. LockInv'
    BY <1>1, <1>2, <1>4, LockKept
  <2>7. RoleInv' /\ PickInv' /\ SlotInv'
    BY <1>1, <1>2, <1>4, Unchanged, IdleStep
  <2>8. EntryInv'
    BY <1>1, <1>2, <1>4, <2>1, <2>2, EntriesKept
  <2>9. LeaseInv'
    BY <1>1, <1>4 DEF LeaseInv, StillThere
  <2> QED
    BY <2>4, <2>5, <2>6, <2>7, <2>8, <2>9
<1>5. CASE /\ pc' = [pc EXCEPT ![p] = "reap"] /\ at' = [at EXCEPT ![p] = i + 1]
           /\ UNCHANGED <<slot, entry>>
  <2>1. /\ pc' \in [Procs -> Stages] /\ pc'[p] = "reap" /\ at' \in [Procs -> Nat]
        /\ \A q \in Procs \ {p} : pc'[q] = pc[q] /\ at'[q] = at[q]
    BY <1>1, <1>2, <1>5, StepsAssumption DEF Types, Entries
  <2>2. Types'
    BY <1>1, <1>5, <2>1 DEF Types
  <2>3. Loops'
    BY <1>1, <1>5, <2>1, Outside DEF Loops
  <2>4. LockInv'
    BY <1>1, <1>2, <1>5, LockKept
  <2>5. RoleInv' /\ PickInv' /\ SlotInv'
    BY <1>1, <1>2, <1>5, Unchanged, IdleStep
  <2>6. EntryInv'
    BY <1>1, <1>2, <1>5, EntriesKept
  <2>7. LeaseInv'
    BY <1>1, <1>5 DEF LeaseInv, StillThere
  <2> QED
    BY <2>2, <2>3, <2>4, <2>5, <2>6, <2>7
<1> QED
    BY <1>1, <1>3, <1>4, <1>5 DEF ReapEntry, Goto, i

LEMMA ReapCountKeeps == ASSUME IInv, NEW p \in Procs, ReapCount(p) PROVE IInv'
<1> USE DEF IInv
<1>1. /\ p \in alive /\ pc[p] = "countDead" /\ pc' = [pc EXCEPT ![p] = "reap"]
      /\ registered' = OneLess(registered) /\ at' = [at EXCEPT ![p] = @ + 1]
      /\ UNCHANGED <<slot, entry, nextSeq, role, lock, alive, pick, handle, scan, heard, returning>>
    BY DEF ReapCount, Goto
<1>2. /\ lock = p /\ pc[p] \in LockedStages /\ pc[p] \notin OpenStages
      /\ p \in Producers => pc[p] # "off" /\ pick[p] = 0
      /\ "reap" \in Stages \cap LockedStages
      /\ "reap" \notin OpenStages \cup Working \cup {"activate", "countUp", "close"}
    BY <1>1, Reaping
<1>3. /\ pc' \in [Procs -> Stages] /\ pc'[p] = "reap" /\ at' \in [Procs -> Nat]
      /\ \A q \in Procs \ {p} : pc'[q] = pc[q] /\ at'[q] = at[q]
    BY <1>1, <1>2 DEF Types
<1>4. registered' \in Nat
    BY <1>1 DEF Types, OneLess, AtLeastZero
<1>5. Types'
    BY <1>1, <1>3, <1>4 DEF Types
<1>6. Loops'
    BY <1>1, <1>3, Outside DEF Loops
<1>7. LockInv'
    BY <1>1, <1>2, LockKept
<1>8. RoleInv' /\ PickInv' /\ SlotInv'
    BY <1>1, <1>2, Unchanged, IdleStep
<1>9. EntryInv'
    BY <1>1, <1>2, EntriesKept
<1>10. LeaseInv'
    BY <1>1 DEF LeaseInv, StillThere
<1> QED
    BY <1>5, <1>6, <1>7, <1>8, <1>9, <1>10

\* Only one producer has claimed the role, and only one process has the lock.
LEMMA OneProducer ==
    ASSUME RoleInv, NEW p \in Producers, NEW q \in Producers, p \in alive, q \in alive,
           pc[p] # "off", pc[q] # "off"
    PROVE  p = q
    BY DEF RoleInv

LEMMA ReapSlotKeeps == ASSUME IInv, NEW p \in Procs, ReapSlot(p) PROVE IInv'
<1> USE DEF IInv
<1> DEFINE s == at[p] - MaxConsumers
           to == IF s < SlotCount THEN "reap" ELSE IF p \in Producers THEN "choose" ELSE "enter"
           freed == [slot[s] EXCEPT !.mask = {}, !.state = "FREE"]
<1>1. /\ p \in alive /\ pc[p] = "reap" /\ pc' = [pc EXCEPT ![p] = to] /\ s \in Slots
      /\ at' = [at EXCEPT ![p] = IF s < SlotCount THEN @ + 1 ELSE 1]
      /\ \/ Abandoned(p, s) /\ slot' = [slot EXCEPT ![s] = freed]
         \/ UNCHANGED slot
      /\ UNCHANGED <<entry, registered, nextSeq, role, lock, alive, pick, handle, scan, heard, returning>>
    BY DEF ReapSlot, Goto
<1>2. /\ lock = p /\ pc[p] \in LockedStages /\ pc[p] \notin OpenStages
      /\ p \in Producers => pc[p] # "off" /\ pick[p] = 0
      /\ to \in Stages \cap LockedStages
      /\ to \notin OpenStages \cup Working \cup {"activate", "countUp", "close"}
      /\ to \in {"reap", "choose", "enter"}
    BY <1>1, Reaping
<1>3. slot[s] \in SlotRecord
    BY <1>1 DEF Types
<1>4. /\ freed \in SlotRecord /\ freed.state = "FREE" /\ freed.mask = {}
      /\ freed.pid = slot[s].pid
    BY <1>3 DEF SlotRecord
<1>5. at[p] \in Nat
    BY DEF Types
<1>6. /\ \A q \in Procs \ {p} : at'[q] = at[q]
      /\ at' \in [Procs -> Nat]
      /\ to = "choose" => at'[p] = 1
    BY <1>1, <1>5 DEF Types
<1> HIDE DEF s, to, freed
<1>7. /\ pc' \in [Procs -> Stages] /\ pc'[p] = to
      /\ \A q \in Procs \ {p} : pc'[q] = pc[q]
    BY <1>1, <1>2 DEF Types
<1>8. /\ slot' \in [Slots -> SlotRecord]
      /\ \A t \in Slots : slot'[t] = slot[t] \/ (t = s /\ slot'[t] = freed)
    BY <1>1, <1>4 DEF Types
<1>9. Types'
    BY <1>1, <1>6, <1>7, <1>8 DEF Types
<1>10. Loops'
  <2>1. 1 \in Slots
    BY StepsAssumption DEF Slots
  <2> QED
    BY <1>1, <1>2, <1>6, <1>7, <2>1, Outside DEF Loops
<1>11. LockInv'
    BY <1>1, <1>2, LockKept
<1>12. EntryInv'
    BY <1>1, <1>2, EntriesKept
<1>13. CASE UNCHANGED slot
  <2>1. RoleInv' /\ PickInv' /\ SlotInv'
    BY <1>1, <1>2, <1>13, Unchanged, IdleStep
  <2>2. LeaseInv'
    BY <1>1, <1>13 DEF LeaseInv, StillThere
  <2> QED
    BY <1>9, <1>10, <1>11, <1>12, <2>1, <2>2
<1>14. CASE Abandoned(p, s) /\ slot' = [slot EXCEPT ![s] = freed]
  <2>1. slot[s].state = "WRITING" /\ slot[s].pid \notin alive
    BY <1>1, <1>14 DEF Abandoned
  <2>2. RoleInv'
    BY <1>1, <1>7, <1>2, Outside DEF RoleInv
  <2>3. SlotInv'
    <3>1. \A t \in Slots : HalfMarked(t) => HalfMarked(t)'
      BY <1>1, <1>7, Outside, HalfMarkedKept
    <3> QED
      BY <1>1, <1>4, <1>8, <3>1 DEF SlotInv
  <2>4. LeaseInv'
    <3>1. \A c \in Consumers : \A l \in handle[c].leases : l.slot \in Slots /\ l.slot # s
      BY <2>1, LeaseSlots DEF LeaseInv, StillThere
    <3> QED
      BY <1>1, <1>8, <3>1, LeaseKept
  <2>5. ASSUME NEW q \in Producers, q \in alive
        PROVE  /\ pc'[q] \in {"off", "idle", "reap", "countDead"} => pick[q] = 0
               /\ pc'[q] \in {"choose", "chosen"} /\ pick[q] # 0 =>
                     slot'[pick[q]].state = "FREE" \/ slot'[pick[q]].mask = {}
               /\ pc'[q] \in Working => pick[q] # 0 /\ slot'[pick[q]].state = "WRITING"
               /\ pc'[q] \in Working \ {"stamp"} => slot'[pick[q]].pid = q
               /\ pc'[q] = "commit" => slot'[pick[q]].payload = slot'[pick[q]].seq
               /\ pc'[q] \notin Working /\ pick[q] # 0 => slot'[pick[q]].state # "WRITING"
    <3>1. CASE q = p
      BY <1>2, <1>7, <2>5, <3>1 DEF Working
    <3>2. CASE q # p
      <4>1. pc'[q] = pc[q]
        BY <1>7, <3>2, Outside
      <4>2. pick[q] = 0 \/ pick[q] \in Slots
        BY <2>5 DEF Types, Slots
      <4>3. pc[q] \in Working => pick[q] # s
        <5>1. pc[q] # "stamp"
          BY <1>2, <2>5, <3>2 DEF LockInv, LockedStages
        <5> QED
          BY <2>1, <2>5, <5>1 DEF PickInv
      <4>4. CASE pick[q] = s
        <5>1. slot'[s] = freed
          BY <1>1, <1>14 DEF Types
        <5>2. pc'[q] \notin Working /\ pc'[q] # "commit"
          BY <4>1, <4>3, <4>4 DEF Working
        <5> QED
          BY <1>4, <2>5, <4>1, <4>4, <5>1, <5>2 DEF PickInv
      <4>5. CASE pick[q] # s
        <5>1. pick[q] # 0 => slot'[pick[q]] = slot[pick[q]]
          BY <1>8, <4>2, <4>5
        <5> QED
          BY <2>5, <4>1, <5>1 DEF PickInv, Working
      <4> QED
        BY <4>4, <4>5
    <3> QED
      BY <3>1, <3>2
  <2>6. PickInv'
    BY <1>1, <2>5 DEF PickInv
  <2> QED
    BY <1>9, <1>10, <1>11, <1>12, <2>2, <2>3, <2>4, <2>6
<1> QED
    BY <1>1, <1>13, <1>14

-----------------------------------------------------------------------------
(* Publishing.                                                             *)

\* The slot a producer has chosen or works on is nobody's lease.
LEMMA PickedUnleased ==
    ASSUME IInv, NEW p \in Producers, p \in alive, pc[p] \in Working \cup {"choose", "chosen"},
           pick[p] # 0, NEW c \in Consumers, NEW l \in handle[c].leases
    PROVE  l.slot \in Slots /\ l.slot # pick[p]
<1>1. /\ slot[l.slot].state = "COMMITTED" /\ slot[l.slot].mask # {}
    BY DEF IInv, LeaseInv, StillThere
<1>2. slot[pick[p]].state # "COMMITTED" \/ slot[pick[p]].mask = {}
    BY DEF IInv, PickInv
<1> QED
    BY <1>1, <1>2, LeaseSlots DEF IInv

LEMMA StoreKeeps ==
    ASSUME IInv, NEW p \in Producers, NEW from \in Working \cup {"chosen"},
           NEW to \in Working \cup {"signal"}, NEW new \in SlotRecord, Store(p, from, to, new),
           to \in LockedStages => from \in LockedStages,
           from = "address" => to = "advance",
           new.pid \in {slot[pick[p]].pid, p},
           to \in Working <=> new.state = "WRITING",
           to \in Working \ {"stamp"} => new.pid = p,
           new.state = "COMMITTED" \/ to = "commit" => new.payload = new.seq
    PROVE  IInv'
<1> USE DEF IInv
<1> DEFINE s == pick[p]
<1>1. /\ p \in alive /\ pc[p] = from /\ pc' = [pc EXCEPT ![p] = to] /\ s # 0
      /\ slot' = [slot EXCEPT ![s] = new]
      /\ UNCHANGED <<entry, registered, nextSeq, role, lock, alive, at, pick, handle, scan, heard,
                     returning>>
    BY DEF Store, Goto, ProducerOnly
<1>2. /\ to \in Stages /\ to \notin OpenStages /\ from # "off" /\ p \in Procs
      /\ to \notin {"choose", "loadState", "loadMask", "loadSeq", "compare", "check", "recheck"}
      /\ to \notin {"off", "idle", "reap", "countDead", "choose", "chosen"}
    BY Outside DEF Working, Stages, LockedStages, OpenStages
<1>3. s \in Slots
    BY <1>1 DEF Types, Slots
<1>4. role = p
    BY <1>1, <1>2 DEF RoleInv
<1> HIDE DEF s
<1>5. /\ pc' \in [Procs -> Stages] /\ pc'[p] = to
      /\ \A q \in Procs \ {p} : pc'[q] = pc[q]
    BY <1>1, <1>2 DEF Types
<1>6. /\ slot' \in [Slots -> SlotRecord] /\ slot'[s] = new
      /\ \A t \in Slots \ {s} : slot'[t] = slot[t]
    BY <1>1, <1>3 DEF Types
<1>7. Types'
    BY <1>1, <1>5, <1>6 DEF Types
<1>8. Loops'
    BY <1>1, <1>2, <1>5, Outside DEF Loops
<1>9. LockInv'
    BY <1>1, <1>2, LockKept
<1>10. EntryInv'
    BY <1>1, <1>2, ProducerStep
<1>11. RoleInv'
    BY <1>1, <1>2, <1>4, <1>5, Outside DEF RoleInv
<1>12. SlotInv'
  <2>3. \A t \in Slots : HalfMarked(t) => HalfMarked(t)'
    BY <1>1, <1>5, Outside, HalfMarkedKept
  <2>1. pick[p] = s
    BY DEF s
  <2>2. new.state = "COMMITTED" => new.payload = new.seq
    OBVIOUS
  <2> QED
    BY <1>1, <1>6, <2>1, <2>2, <2>3 DEF SlotInv
<1>13. LeaseInv'
  <2>1. \A c \in Consumers : \A l \in handle[c].leases : l.slot \in Slots /\ l.slot # s
    BY <1>1, PickedUnleased DEF s
  <2> QED
    BY <1>1, <1>6, <2>1, LeaseKept
<1>14. PickInv'
  <2>1. ASSUME NEW q \in Producers, q \in alive
        PROVE  /\ pc'[q] \in {"off", "idle", "reap", "countDead"} => pick[q] = 0
               /\ pc'[q] \in {"choose", "chosen"} /\ pick[q] # 0 =>
                     slot'[pick[q]].state = "FREE" \/ slot'[pick[q]].mask = {}
               /\ pc'[q] \in Working => pick[q] # 0 /\ slot'[pick[q]].state = "WRITING"
               /\ pc'[q] \in Working \ {"stamp"} => slot'[pick[q]].pid = q
               /\ pc'[q] = "commit" => slot'[pick[q]].payload = slot'[pick[q]].seq
               /\ pc'[q] \notin Working /\ pick[q] # 0 => slot'[pick[q]].state # "WRITING"
    <3>1. CASE q = p
      BY <1>1, <1>2, <1>5, <1>6, <3>1 DEF s
    <3>2. CASE q # p
      <4>1. pc[q] = "off" /\ pc'[q] = "off" /\ pick[q] = 0
        BY <1>1, <1>2, <1>4, <1>5, <2>1, <3>2, Outside DEF RoleInv, PickInv
      <4> QED
        BY <4>1 DEF Working
    <3> QED
      BY <3>1, <3>2
  <2> QED
    BY <1>1, <2>1 DEF PickInv
<1> QED
    BY <1>7, <1>8, <1>9, <1>10, <1>11, <1>12, <1>13, <1>14

\* What a store finds in the slot it goes to.
LEMMA Picked ==
    ASSUME IInv, NEW p \in Producers, p \in alive, pick[p] # 0
    PROVE  /\ slot[pick[p]] \in SlotRecord
           /\ pc[p] \in Working => slot[pick[p]].state = "WRITING"
           /\ pc[p] \in Working \ {"stamp"} => slot[pick[p]].pid = p
           /\ pc[p] = "commit" => slot[pick[p]].payload = slot[pick[p]].seq
<1>1. pick[p] \in Slots
    BY DEF IInv, Types, Slots
<1> QED
    BY <1>1 DEF IInv, Types, PickInv

LEMMA MarkKeeps == ASSUME IInv, NEW p \in Producers, Mark(p) PROVE IInv'
<1> DEFINE new == [slot[pick[p]] EXCEPT !.state = "WRITING"]
<1>1. Store(p, "chosen", "stamp", new) /\ p \in alive /\ pick[p] # 0
    BY DEF Mark, Store, Goto
<1>2. new \in SlotRecord /\ new.state = "WRITING" /\ new.pid = slot[pick[p]].pid
    BY <1>1, Picked DEF SlotRecord
<1> HIDE DEF new
<1> QED
    BY <1>1, <1>2, StoreKeeps DEF Working, LockedStages

LEMMA StampKeeps == ASSUME IInv, NEW p \in Producers, Stamp(p) PROVE IInv'
<1> DEFINE new == [slot[pick[p]] EXCEPT !.pid = p]
<1>1. Store(p, "stamp", "number", new) /\ p \in alive /\ pick[p] # 0 /\ pc[p] = "stamp"
    BY DEF Stamp, Store, Goto
<1>2. slot[pick[p]] \in SlotRecord /\ slot[pick[p]].state = "WRITING"
    BY <1>1, Picked DEF Working
<1>3. new \in SlotRecord /\ new.state = "WRITING" /\ new.pid = p
    BY <1>2 DEF SlotRecord
<1> HIDE DEF new
<1> QED
    BY <1>1, <1>3, StoreKeeps DEF Working, LockedStages

LEMMA NumberKeeps == ASSUME IInv, NEW p \in Producers, Number(p) PROVE IInv'
<1> DEFINE new == [slot[pick[p]] EXCEPT !.seq = nextSeq]
<1>1. Store(p, "number", "address", new) /\ p \in alive /\ pick[p] # 0 /\ pc[p] = "number"
    BY DEF Number, Store, Goto
<1>2. slot[pick[p]] \in SlotRecord /\ slot[pick[p]].state = "WRITING" /\ slot[pick[p]].pid = p
    BY <1>1, Picked DEF Working
<1>3. nextSeq \in Seqs
    BY DEF IInv, Types
<1>4. new \in SlotRecord /\ new.state = "WRITING" /\ new.pid = p
    BY <1>2, <1>3 DEF SlotRecord
<1> HIDE DEF new
<1> QED
    BY <1>1, <1>4, StoreKeeps DEF Working, LockedStages

LEMMA AddressKeeps == ASSUME IInv, NEW p \in Producers, Address(p) PROVE IInv'
<1> DEFINE readers == {i \in Entries : entry[i].active}
           new == [slot[pick[p]] EXCEPT !.mask = readers]
<1>1. Store(p, "address", "advance", new) /\ p \in alive /\ pick[p] # 0 /\ pc[p] = "address"
    BY DEF Address, Store, Goto
<1>2. slot[pick[p]] \in SlotRecord /\ slot[pick[p]].state = "WRITING" /\ slot[pick[p]].pid = p
    BY <1>1, Picked DEF Working
<1>3. readers \in SUBSET Entries
    OBVIOUS
<1> HIDE DEF readers
<1>4. new \in SlotRecord /\ new.state = "WRITING" /\ new.pid = p
    BY <1>2, <1>3 DEF SlotRecord
<1> HIDE DEF new
<1> QED
    BY <1>1, <1>4, StoreKeeps DEF Working, LockedStages

LEMMA CopyKeeps == ASSUME IInv, NEW p \in Producers, Copy(p) PROVE IInv'
<1> DEFINE new == [slot[pick[p]] EXCEPT !.payload = slot[pick[p]].seq]
<1>1. Store(p, "copy", "commit", new) /\ p \in alive /\ pick[p] # 0 /\ pc[p] = "copy"
    BY DEF Copy, Store, Goto
<1>2. slot[pick[p]] \in SlotRecord /\ slot[pick[p]].state = "WRITING" /\ slot[pick[p]].pid = p
    BY <1>1, Picked DEF Working
<1>3. new \in SlotRecord /\ new.state = "WRITING" /\ new.pid = p /\ new.payload = new.seq
    BY <1>2 DEF SlotRecord
<1> HIDE DEF new
<1> QED
    BY <1>1, <1>3, StoreKeeps DEF Working, LockedStages

LEMMA CommitKeeps == ASSUME IInv, NEW p \in Producers, Commit(p) PROVE IInv'
<1> DEFINE new == [slot[pick[p]] EXCEPT !.state = "COMMITTED"]
<1>1. Store(p, "commit", "signal", new) /\ p \in alive /\ pick[p] # 0 /\ pc[p] = "commit"
    BY DEF Commit, Store, Goto
<1>2. /\ slot[pick[p]] \in SlotRecord /\ slot[pick[p]].pid = p
      /\ slot[pick[p]].payload = slot[pick[p]].seq
    BY <1>1, Picked DEF Working
<1>3. new \in SlotRecord /\ new.state = "COMMITTED" /\ new.pid = p /\ new.payload = new.seq
    BY <1>2 DEF SlotRecord
<1> HIDE DEF new
<1> QED
    BY <1>1, <1>3, StoreKeeps DEF Working, LockedStages

\* A producer goes on without a store to a slot.
LEMMA ProducerMoves ==
    ASSUME IInv, NEW p \in Producers, p \in alive, pc[p] # "off", NEW to,
           UNCHANGED <<slot, alive, role, handle>>,
           pc'[p] = to, \A q \in Producers \ {p} : pc'[q] = pc[q] /\ pick'[q] = pick[q],
           to \in {"idle", "reap", "countDead"} => pick'[p] = 0,
           to \in {"choose", "chosen"} /\ pick'[p] # 0 =>
               slot[pick'[p]].state = "FREE" \/ slot[pick'[p]].mask = {},
           to \notin Working /\ pick'[p] # 0 => slot[pick'[p]].state # "WRITING",
           to \in Working => to = "copy" /\ pc[p] \in Working \ {"stamp"},
           to # "off", pick'[p] = pick[p] \/ (pc[p] \notin Working /\ to \notin Working)
    PROVE  RoleInv' /\ PickInv' /\ SlotInv' /\ LeaseInv'
<1> USE DEF IInv
<1>1. RoleInv'
    BY DEF RoleInv
<1>2. LeaseInv'
    BY DEF LeaseInv, StillThere
<1>3. SlotInv'
  <2>1. ASSUME NEW s \in Slots, slot[s].state = "WRITING", NEW q \in Producers \cap alive, pick[q] = s
        PROVE  pick'[q] = s
    <3>1. CASE q # p
      BY <2>1, <3>1
    <3>2. CASE q = p
      <4>1. s # 0
        BY DEF Slots
      <4>2. pc[p] \in Working
        BY <2>1, <3>2, <4>1 DEF PickInv
      <4> QED
        BY <2>1, <3>2, <4>2
    <3> QED
      BY <3>1, <3>2
  <2>2. \A s \in Slots : HalfMarked(s) => HalfMarked(s)'
    BY HalfMarkedKept
  <2> QED
    BY <2>1, <2>2 DEF SlotInv
<1>4. ASSUME NEW q \in Producers, q \in alive
      PROVE  /\ pc'[q] \in {"off", "idle", "reap", "countDead"} => pick'[q] = 0
             /\ pc'[q] \in {"choose", "chosen"} /\ pick'[q] # 0 =>
                   slot[pick'[q]].state = "FREE" \/ slot[pick'[q]].mask = {}
             /\ pc'[q] \in Working => pick'[q] # 0 /\ slot[pick'[q]].state = "WRITING"
             /\ pc'[q] \in Working \ {"stamp"} => slot[pick'[q]].pid = q
             /\ pc'[q] = "commit" => slot[pick'[q]].payload = slot[pick'[q]].seq
             /\ pc'[q] \notin Working /\ pick'[q] # 0 => slot[pick'[q]].state # "WRITING"
  <2>1. CASE q # p
    BY <1>4, <2>1 DEF PickInv
  <2>2. CASE q = p /\ to \notin Working
    BY <1>4, <2>2 DEF Working
  <2>3. CASE q = p /\ to \in Working
    <3>1. /\ to = "copy" /\ pick'[p] = pick[p]
      BY <2>3
    <3>2. pick[p] # 0 /\ slot[pick[p]].state = "WRITING" /\ slot[pick[p]].pid = p
      BY <1>4, <2>3 DEF PickInv
    <3> QED
      BY <1>4, <2>3, <3>1, <3>2
  <2> QED
    BY <2>1, <2>2, <2>3
<1>5. PickInv'
    BY <1>4 DEF PickInv
<1> QED
    BY <1>1, <1>2, <1>3, <1>5

LEMMA ClaimKeeps == ASSUME IInv, NEW p \in Producers, Claim(p) PROVE IInv'
<1> USE DEF IInv
<1>1. /\ p \in alive /\ pc[p] = "off" /\ pc' = [pc EXCEPT ![p] = "idle"] /\ lock \notin alive
      /\ lock' = NoProc /\ role \notin alive /\ role' = p
      /\ UNCHANGED <<slot, entry, registered, nextSeq, alive, at, pick, handle, scan, heard, returning>>
    BY DEF Claim, Goto, Unlock, ProducerOnly
<1>2. "idle" \in Stages /\ "idle" \notin LockedStages /\ "idle" \notin Working
    BY DEF Stages, LockedStages, Working
<1>3. /\ pc' \in [Procs -> Stages] /\ pc'[p] = "idle"
      /\ \A q \in Procs \ {p} : pc'[q] = pc[q]
    BY <1>1, <1>2, Outside DEF Types
<1>4. Types'
    BY <1>1, <1>3 DEF Types
<1>5. Loops'
    BY <1>1, <1>3, Outside DEF Loops
<1>6. LockInv'
    BY <1>1, <1>2, LockKept
<1>7. EntryInv'
    BY <1>1, <1>2, ProducerStep
<1>8. \A q \in Producers \cap alive : pc[q] = "off" /\ pick[q] = 0
    BY <1>1 DEF RoleInv, PickInv
<1>9. RoleInv'
    BY <1>1, <1>3, <1>8, Outside DEF RoleInv
<1>10. PickInv'
    BY <1>1, <1>2, <1>3, <1>8, Outside DEF PickInv, Working
<1>11. SlotInv' /\ LeaseInv'
  <2>1. \A s \in Slots : HalfMarked(s) => HalfMarked(s)'
    BY <1>1, <1>3, Outside, HalfMarkedKept
  <2> QED
    BY <1>1, <2>1 DEF SlotInv, LeaseInv, StillThere
<1> QED
    BY <1>4, <1>5, <1>6, <1>7, <1>9, <1>10, <1>11

LEMMA HandBackKeeps == ASSUME IInv, NEW p \in Producers, HandBack(p) PROVE IInv'
<1> USE DEF IInv
<1>1. /\ p \in alive /\ pc[p] = "idle" /\ pc' = [pc EXCEPT ![p] = "off"] /\ role = p
      /\ role' = NoProc
      /\ UNCHANGED <<slot, entry, registered, nextSeq, lock, alive, at, pick, handle, scan, heard, returning>>
    BY DEF HandBack, Goto, ProducerOnly, RoleInv
<1>2. "off" \in Stages /\ "off" \notin LockedStages /\ "off" \notin Working
    BY DEF Stages, LockedStages, Working
<1>3. /\ pc' \in [Procs -> Stages] /\ pc'[p] = "off"
      /\ \A q \in Procs \ {p} : pc'[q] = pc[q]
    BY <1>1, <1>2, Outside DEF Types
<1>4. Types'
    BY <1>1, <1>3 DEF Types
<1>5. Loops'
    BY <1>1, <1>3, Outside DEF Loops
<1>6. LockInv'
    BY <1>1, <1>2, LockKept
<1>7. EntryInv'
    BY <1>1, <1>2, ProducerStep
<1>8. \A q \in Producers \cap alive : q # p => pc[q] = "off"
    BY <1>1 DEF RoleInv
<1>9. RoleInv'
    BY <1>1, <1>3, <1>8, Outside DEF RoleInv
<1>10. PickInv'
    BY <1>1, <1>2, <1>3, <1>8, Outside DEF PickInv, Working
<1>11. SlotInv' /\ LeaseInv'
  <2>1. \A s \in Slots : HalfMarked(s) => HalfMarked(s)'
    BY <1>1, <1>3, Outside, HalfMarkedKept
  <2> QED
    BY <1>1, <2>1 DEF SlotInv, LeaseInv, StillThere
<1> QED
    BY <1>4, <1>5, <1>6, <1>7, <1>9, <1>10, <1>11

LEMMA ChooseKeeps == ASSUME IInv, NEW p \in Producers, Choose(p) PROVE IInv'
<1> USE DEF IInv
<1> DEFINE to == IF at[p] < SlotCount THEN "choose" ELSE "chosen"
<1>1. /\ p \in alive /\ pc[p] = "choose" /\ pc' = [pc EXCEPT ![p] = to]
      /\ at' = [at EXCEPT ![p] = IF @ < SlotCount THEN @ + 1 ELSE 1]
      /\ \/ Better(p, at[p]) /\ pick' = [pick EXCEPT ![p] = at[p]]
         \/ UNCHANGED pick
      /\ UNCHANGED <<slot, entry, registered, nextSeq, role, lock, alive, handle, scan, heard, returning>>
    BY DEF Choose, Goto, ProducerOnly, shared
<1>2. /\ to \in Stages \cap LockedStages /\ pc[p] \in LockedStages /\ pc[p] \notin Working
      /\ to \notin Working /\ to \in {"choose", "chosen"} /\ p \in Procs
    BY <1>1, Outside DEF Stages, LockedStages, Working
<1>3. at[p] \in Slots
    BY <1>1, <1>2 DEF Loops
<1>4. /\ pick' \in [Producers -> 0 .. SlotCount]
      /\ \A q \in Producers \ {p} : pick'[q] = pick[q]
      /\ \/ pick'[p] = pick[p]
         \/ Better(p, at[p]) /\ pick'[p] = at[p]
  <2>1. at[p] \in 0 .. SlotCount /\ pick \in [Producers -> 0 .. SlotCount]
    BY <1>3, StepsAssumption DEF Types, Slots
  <2>2. CASE Better(p, at[p]) /\ pick' = [pick EXCEPT ![p] = at[p]]
    BY <2>1, <2>2
  <2>3. CASE UNCHANGED pick
    BY <2>1, <2>3
  <2> QED
    BY <1>1, <2>2, <2>3
<1>5. at' \in [Procs -> Nat] /\ at'[p] \in Slots /\ \A q \in Procs \ {p} : at'[q] = at[q]
    BY <1>1, <1>2, <1>3, StepsAssumption DEF Types, Slots
<1> HIDE DEF to
<1>6. /\ pc' \in [Procs -> Stages] /\ pc'[p] = to
      /\ \A q \in Procs \ {p} : pc'[q] = pc[q]
    BY <1>1, <1>2 DEF Types
<1>7. Types'
    BY <1>1, <1>4, <1>5, <1>6 DEF Types
<1>8. Loops'
    BY <1>1, <1>2, <1>5, <1>6, Outside DEF Loops
<1>9. LockInv'
    BY <1>1, <1>2, LockKept
<1>10. EntryInv'
    BY <1>1, <1>2, ProducerStep
<1>11. Better(p, at[p]) => slot[at[p]].state = "FREE" \/ (slot[at[p]].state = "COMMITTED" /\ slot[at[p]].mask = {})
    BY DEF Better
<1>12. /\ pick[p] # 0 => slot[pick[p]].state = "FREE" \/ slot[pick[p]].mask = {}
       /\ pick[p] # 0 => slot[pick[p]].state # "WRITING"
    BY <1>1, <1>2 DEF PickInv
<1>13. /\ pick'[p] # 0 => slot[pick'[p]].state = "FREE" \/ slot[pick'[p]].mask = {}
       /\ pick'[p] # 0 => slot[pick'[p]].state # "WRITING"
    BY <1>4, <1>11, <1>12
<1>14. RoleInv' /\ PickInv' /\ SlotInv' /\ LeaseInv'
    BY <1>1, <1>2, <1>4, <1>6, <1>13, ProducerMoves, Outside
<1> QED
    BY <1>7, <1>8, <1>9, <1>10, <1>14

LEMMA FullKeeps == ASSUME IInv, NEW p \in Producers, Full(p) PROVE IInv'
<1> USE DEF IInv
<1>1. /\ p \in alive /\ pc[p] = "chosen" /\ pc' = [pc EXCEPT ![p] = "idle"] /\ pick[p] = 0
      /\ lock' = NoProc
      /\ UNCHANGED <<slot, entry, registered, nextSeq, role, alive, at, pick, handle, scan, heard, returning>>
    BY DEF Full, Goto, Unlock, ProducerOnly, shared
<1>2. /\ "idle" \in Stages /\ "idle" \notin LockedStages /\ "idle" \notin Working
      /\ pc[p] \in LockedStages /\ p \in Procs
    BY <1>1, Outside DEF Stages, LockedStages, Working
<1>3. /\ pc' \in [Procs -> Stages] /\ pc'[p] = "idle"
      /\ \A q \in Procs \ {p} : pc'[q] = pc[q]
    BY <1>1, <1>2 DEF Types
<1>4. Types'
    BY <1>1, <1>3 DEF Types
<1>5. Loops'
    BY <1>1, <1>3, Outside DEF Loops
<1>6. LockInv'
    BY <1>1, <1>2, LockKept
<1>7. EntryInv'
    BY <1>1, <1>2, ProducerStep
<1>8. RoleInv' /\ PickInv' /\ SlotInv' /\ LeaseInv'
    BY <1>1, <1>2, <1>3, ProducerMoves, Outside
<1> QED
    BY <1>4, <1>5, <1>6, <1>7, <1>8

LEMMA AdvanceKeeps == ASSUME IInv, NEW p \in Producers, Advance(p) PROVE IInv'
<1> USE DEF IInv
<1>1. /\ p \in alive /\ pc[p] = "advance" /\ pc' = [pc EXCEPT ![p] = "copy"]
      /\ nextSeq' = Succ(nextSeq) /\ lock' = NoProc
      /\ UNCHANGED <<slot, entry, registered, role, alive, at, pick, handle, scan, heard, returning>>
    BY DEF Advance, Goto, Unlock, ProducerOnly
<1>2. /\ "copy" \in Stages /\ "copy" \notin LockedStages
      /\ pc[p] \in LockedStages /\ p \in Procs /\ pc[p] \in Working \ {"stamp"}
    BY <1>1, Outside DEF Stages, LockedStages, Working
<1>3. /\ pc' \in [Procs -> Stages] /\ pc'[p] = "copy"
      /\ \A q \in Procs \ {p} : pc'[q] = pc[q]
    BY <1>1, <1>2 DEF Types
<1>4. nextSeq' \in Seqs
  <2>1. nextSeq \in Int
    BY SeqModPositive DEF Types, Seqs
  <2> QED
    BY <1>1, <2>1, ModInSeqs DEF Succ
<1>5. Types'
    BY <1>1, <1>3, <1>4 DEF Types
<1>6. Loops'
    BY <1>1, <1>3, Outside DEF Loops
<1>7. LockInv'
    BY <1>1, <1>2, LockKept
<1>8. EntryInv'
    BY <1>1, <1>2, ProducerStep
<1>9. "copy" \in Working
    BY DEF Working
<1>10. RoleInv' /\ PickInv' /\ SlotInv' /\ LeaseInv'
    BY <1>1, <1>2, <1>3, <1>9, ProducerMoves, Outside
<1> QED
    BY <1>5, <1>6, <1>7, <1>8, <1>10

LEMMA SignalKeeps == ASSUME IInv, NEW p \in Producers, Signal(p) PROVE IInv'
<1> USE DEF IInv
<1>1. /\ p \in alive /\ pc[p] = "signal" /\ pc' = [pc EXCEPT ![p] = "wake"]
      /\ heard' \in [Consumers -> BOOLEAN]
      /\ UNCHANGED <<slot, entry, registered, nextSeq, role, lock, alive, at, pick, handle, scan, returning>>
    BY DEF Signal, Goto, shared
<1>2. /\ "wake" \in Stages /\ "wake" \notin LockedStages /\ "wake" \notin Working
      /\ p \in Procs /\ pc[p] \notin Working
    BY <1>1, Outside DEF Stages, LockedStages, Working
<1>3. /\ pc' \in [Procs -> Stages] /\ pc'[p] = "wake"
      /\ \A q \in Procs \ {p} : pc'[q] = pc[q]
    BY <1>1, <1>2 DEF Types
<1>4. Types'
    BY <1>1, <1>3 DEF Types
<1>5. Loops'
    BY <1>1, <1>3, Outside DEF Loops
<1>6. LockInv'
    BY <1>1, <1>2, LockKept
<1>7. EntryInv'
    BY <1>1, <1>2, ProducerStep
<1>8. pick[p] # 0 => slot[pick[p]].state # "WRITING"
    BY <1>1, <1>2 DEF PickInv
<1>9. RoleInv' /\ PickInv' /\ SlotInv' /\ LeaseInv'
    BY <1>1, <1>2, <1>3, <1>8, ProducerMoves, Outside
<1> QED
    BY <1>4, <1>5, <1>6, <1>7, <1>9

LEMMA WakeAllKeeps == ASSUME IInv, NEW p \in Producers, WakeAll(p) PROVE IInv'
<1> USE DEF IInv
<1>1. /\ p \in alive /\ pc[p] = "wake" /\ pick' = [pick EXCEPT ![p] = 0]
      /\ pc' = [q \in Procs |-> IF q = p THEN "idle"
                                ELSE IF pc[q] = "asleep" THEN "open" ELSE pc[q]]
      /\ UNCHANGED <<slot, entry, registered, nextSeq, role, lock, alive, at, handle, scan, heard,
                     returning>>
    BY DEF WakeAll, shared, ProducerOnly
<1>2. /\ p \in Procs /\ p \notin Consumers
      /\ {"idle", "open"} \subseteq Stages \ LockedStages /\ "idle" \notin Working
      /\ pc[p] \notin Working /\ {"asleep", "open"} \subseteq OpenStages
    BY <1>1, Outside DEF Stages, LockedStages, Working, OpenStages
<1>3. /\ pc' \in [Procs -> Stages] /\ pc'[p] = "idle"
      /\ \A q \in Procs \ {p} : pc'[q] = pc[q] \/ (pc[q] = "asleep" /\ pc'[q] = "open")
    BY <1>1, <1>2 DEF Types
<1>4. pick' \in [Producers -> 0 .. SlotCount] /\ pick'[p] = 0 /\ \A q \in Producers \ {p} : pick'[q] = pick[q]
    BY <1>1, StepsAssumption DEF Types
<1>5. Types'
    BY <1>1, <1>3, <1>4 DEF Types
<1>6. Loops'
  <2>1. \A q \in Procs : pc'[q] \in {"choose", "loadState", "loadMask", "loadSeq", "compare"} => pc'[q] = pc[q]
    BY <1>3
  <2>2. \A c \in Consumers : pc'[c] \in {"check", "recheck"} => pc'[c] = pc[c]
    BY <1>2, <1>3, Outside
  <2> QED
    BY <1>1, <2>1, <2>2 DEF Loops
<1>7. LockInv'
    BY <1>1, <1>2, <1>3 DEF LockInv, Types
<1>8. EntryInv'
  <2>1. \A c \in Consumers : pc'[c] = pc[c] \/ (pc[c] \in OpenStages /\ pc'[c] = "open")
    BY <1>2, <1>3, Outside
  <2> QED
    BY <1>1, <1>2, <2>1 DEF EntryInv, OpenStages
<1>9. \A q \in Producers \ {p} : q \in alive => pc[q] = "off" /\ pc'[q] = "off" /\ pick[q] = 0
    BY <1>1, <1>3, Outside, OneProducer DEF PickInv
<1>10. RoleInv'
    BY <1>1, <1>3, <1>9 DEF RoleInv
<1>11. PickInv'
    BY <1>1, <1>2, <1>3, <1>4, <1>9 DEF PickInv, Working
<1>12. SlotInv'
  <2>1. \A s \in Slots : slot[s].state = "WRITING" => pick[p] # s
    BY <1>1, <1>2 DEF PickInv, Slots
  <2>2. \A q \in Producers \ alive : pc[q] # "asleep" /\ q # p => pc'[q] = pc[q]
    BY <1>3, Outside
  <2>3. \A s \in Slots : HalfMarked(s) => HalfMarked(s)'
    BY <1>1, <1>4, <2>2 DEF HalfMarked
  <2> QED
    BY <1>1, <1>4, <2>1, <2>3 DEF SlotInv
<1>13. LeaseInv'
    BY <1>1 DEF LeaseInv, StillThere
<1> QED
    BY <1>5, <1>6, <1>7, <1>8, <1>10, <1>11, <1>12, <1>13

-----------------------------------------------------------------------------
(* Registering and closing.                                                *)

\* A consumer in a locked section has no leases, and no other process is in one.
LEMMA Registering ==
    ASSUME IInv, NEW c \in Consumers, c \in alive, pc[c] \in LockedStages
    PROVE  /\ lock = c /\ handle[c].leases = {} /\ c \in Procs /\ c \notin Producers
           /\ \A q \in alive \ {c} : pc[q] \notin LockedStages
    BY Outside, StageNames DEF IInv, LockInv, EntryInv

LEMMA EnterKeeps == ASSUME IInv, NEW c \in Consumers, Enter(c) PROVE IInv'
<1> USE DEF IInv
<1>1. PICK i \in Entries :
        /\ c \in alive /\ pc[c] = "enter" /\ pc' = [pc EXCEPT ![c] = "activate"]
        /\ ~entry[i].active
        /\ handle' = [handle EXCEPT ![c].idx = i, ![c].last = (nextSeq - 1) % SeqMod]
        /\ entry' = [entry EXCEPT ![i].pid = c]
        /\ UNCHANGED <<slot, registered, nextSeq, role, lock, alive, at, pick, scan, heard, returning>>
    BY DEF Enter, Goto, ConsumerOnly
<1>2. /\ "activate" \in Stages \cap LockedStages /\ "activate" \notin OpenStages \cup Working
      /\ pc[c] \in LockedStages /\ pc[c] \notin OpenStages
    BY <1>1 DEF Stages, LockedStages, OpenStages, Working
<1>3. /\ lock = c /\ handle[c].leases = {} /\ c \in Procs /\ c \notin Producers
      /\ \A q \in alive \ {c} : pc[q] \notin LockedStages
    BY <1>1, <1>2, Registering
<1>4. /\ pc' \in [Procs -> Stages] /\ pc'[c] = "activate"
      /\ \A q \in Procs \ {c} : pc'[q] = pc[q]
    BY <1>1, <1>2, <1>3 DEF Types
<1>5. /\ handle' \in [Consumers -> HandleRecord] /\ handle'[c].idx = i /\ handle'[c].leases = {}
      /\ \A d \in Consumers \ {c} : handle'[d] = handle[d]
  <2>1. (nextSeq - 1) % SeqMod \in Seqs
    <3>1. nextSeq \in Int
      BY SeqModPositive DEF Types, Seqs
    <3> QED
      BY <3>1, ModInSeqs
  <2>2. i \in 0 .. MaxConsumers
    BY StepsAssumption DEF Entries
  <2> DEFINE new == [handle[c] EXCEPT !.idx = i, !.last = (nextSeq - 1) % SeqMod]
  <2>3. new \in HandleRecord /\ new.idx = i /\ new.leases = {}
    <3>1. handle[c] \in HandleRecord
      BY DEF Types
    <3> QED
      BY <1>3, <2>1, <2>2, <3>1 DEF HandleRecord
  <2>4. handle' = [handle EXCEPT ![c] = new]
    BY <1>1
  <2> HIDE DEF new
  <2> QED
    BY <2>3, <2>4 DEF Types
<1>6. /\ entry' \in [Entries -> [active : BOOLEAN, pid : Consumers \cup {NoProc}]]
      /\ entry'[i].pid = c /\ ~entry'[i].active
      /\ \A j \in Entries \ {i} : entry'[j] = entry[j]
    BY <1>1 DEF Types
<1>7. Types'
    BY <1>1, <1>4, <1>5, <1>6 DEF Types
<1>8. Loops'
    BY <1>1, <1>4, Outside DEF Loops
<1>9. LockInv'
    BY <1>1, <1>2, LockKept
<1>10. RoleInv' /\ PickInv' /\ SlotInv'
    BY <1>1, <1>2, <1>3, Unchanged, IdleStep
<1>11. EntryInv'
  <2>1. ASSUME NEW d \in Consumers, d \in alive, d # c
        PROVE  /\ pc[d] \in OpenStages \cup {"activate", "countUp", "close"} =>
                    handle[d].idx \in Entries /\ entry'[handle[d].idx].pid = d
               /\ pc[d] \in OpenStages \cup {"countUp", "close"} => entry'[handle[d].idx].active
               /\ pc[d] = "activate" => ~entry'[handle[d].idx].active
    <3>1. pc[d] \notin {"activate", "countUp", "close"}
      BY <1>3, <2>1 DEF LockedStages
    <3>2. pc[d] \in OpenStages => /\ handle[d].idx \in Entries /\ entry[handle[d].idx].pid = d
                                  /\ entry[handle[d].idx].active
      BY <2>1 DEF EntryInv
    <3> QED
      BY <1>1, <1>6, <3>1, <3>2
  <2>2. \A d \in Consumers \ {c} : pc'[d] = pc[d] /\ handle'[d] = handle[d]
    BY <1>4, <1>5, Outside
  <2> QED
    BY <1>1, <1>2, <1>4, <1>5, <1>6, <2>1, <2>2 DEF EntryInv
<1>12. LeaseInv'
  <2>1. \A d \in Consumers : \A l \in handle'[d].leases : handle'[d] = handle[d]
    BY <1>5
  <2> QED
    BY <1>1, <2>1 DEF LeaseInv, StillThere
<1> QED
    BY <1>7, <1>8, <1>9, <1>10, <1>11, <1>12

LEMMA RegistryFullKeeps == ASSUME IInv, NEW c \in Consumers, RegistryFull(c) PROVE IInv'
<1> USE DEF IInv
<1>1. /\ c \in alive /\ pc[c] = "enter" /\ pc' = [pc EXCEPT ![c] = "none"] /\ lock' = NoProc
      /\ UNCHANGED <<slot, entry, registered, nextSeq, role, alive, at, pick, handle, scan, heard, returning>>
    BY DEF RegistryFull, Goto, ConsumerOnly, Unlock, shared
<1>2. /\ "none" \in Stages /\ "none" \notin LockedStages \cup OpenStages \cup Working
      /\ pc[c] \in LockedStages /\ pc[c] \notin OpenStages
    BY <1>1 DEF Stages, LockedStages, OpenStages, Working
<1>3. c \in Procs /\ c \notin Producers
    BY Outside
<1>4. /\ pc' \in [Procs -> Stages] /\ pc'[c] = "none"
      /\ \A q \in Procs \ {c} : pc'[q] = pc[q]
    BY <1>1, <1>2, <1>3 DEF Types
<1>5. Types'
    BY <1>1, <1>4 DEF Types
<1>6. Loops'
    BY <1>1, <1>4, Outside DEF Loops
<1>7. LockInv'
    BY <1>1, <1>2, LockKept
<1>8. RoleInv' /\ PickInv' /\ SlotInv'
    BY <1>1, <1>2, <1>3, Unchanged, IdleStep
<1>9. EntryInv'
    BY <1>1, <1>2, EntriesKept
<1>10. LeaseInv'
    BY <1>1 DEF LeaseInv, StillThere
<1> QED
    BY <1>5, <1>6, <1>7, <1>8, <1>9, <1>10

\* The steps of a member that change its entry or nothing but its stage.
LEMMA MemberStep ==
    ASSUME IInv, NEW c \in Consumers, NEW to \in Stages, Goto(c, pc[c], to),
           UNCHANGED <<slot, nextSeq, role, alive, at, pick, handle, scan, heard, returning>>,
           to \notin {"loadState", "loadMask", "loadSeq", "compare", "check", "recheck", "choose"}
    PROVE  /\ pc' \in [Procs -> Stages] /\ pc'[c] = to
           /\ \A q \in Procs \ {c} : pc'[q] = pc[q]
           /\ Loops' /\ RoleInv' /\ PickInv' /\ SlotInv' /\ LeaseInv'
<1> USE DEF IInv
<1>1. c \in alive /\ pc' = [pc EXCEPT ![c] = to] /\ c \in Procs /\ c \notin Producers
    BY Outside DEF Goto
<1>2. /\ pc' \in [Procs -> Stages] /\ pc'[c] = to
      /\ \A q \in Procs \ {c} : pc'[q] = pc[q]
    BY <1>1 DEF Types
<1>3. Loops'
    BY <1>2, Outside DEF Loops
<1>4. RoleInv' /\ PickInv' /\ SlotInv'
    BY <1>1, Unchanged, IdleStep
<1>5. LeaseInv'
    BY DEF LeaseInv, StillThere
<1> QED
    BY <1>2, <1>3, <1>4, <1>5

LEMMA ActivateKeeps == ASSUME IInv, NEW c \in Consumers, Activate(c) PROVE IInv'
<1> USE DEF IInv
<1> DEFINE i == handle[c].idx
<1>1. /\ Goto(c, pc[c], "countUp") /\ c \in alive /\ pc[c] = "activate"
      /\ pc' = [pc EXCEPT ![c] = "countUp"]
      /\ entry' = [entry EXCEPT ![i].active = TRUE]
      /\ UNCHANGED <<slot, registered, nextSeq, role, lock, alive, at, pick, handle, scan, heard, returning>>
    BY DEF Activate, Goto, MembershipOnly
<1>2. "countUp" \in Stages \cap LockedStages /\ pc[c] \in LockedStages /\ "countUp" \notin OpenStages
    BY <1>1 DEF Stages, LockedStages, OpenStages
<1>3. /\ pc' \in [Procs -> Stages] /\ pc'[c] = "countUp"
      /\ \A q \in Procs \ {c} : pc'[q] = pc[q]
      /\ Loops' /\ RoleInv' /\ PickInv' /\ SlotInv' /\ LeaseInv'
    BY <1>1, <1>2, MemberStep
<1>4. /\ handle[c].leases = {} /\ \A q \in alive \ {c} : pc[q] \notin LockedStages
    BY <1>1, <1>2, Registering
<1>5. i \in Entries /\ entry[i].pid = c
    BY <1>1 DEF EntryInv
<1> HIDE DEF i
<1>6. /\ entry' \in [Entries -> [active : BOOLEAN, pid : Consumers \cup {NoProc}]]
      /\ entry'[i].active /\ \A j \in Entries : entry'[j].pid = entry[j].pid
      /\ \A j \in Entries : entry[j].active => entry'[j].active
    BY <1>1, <1>5 DEF Types
<1>7. Types'
    BY <1>1, <1>3, <1>6 DEF Types
<1>8. LockInv'
    BY <1>1, <1>2, LockKept
<1>9. EntryInv'
  <2>1. \A d \in Consumers \ {c} : pc'[d] = pc[d] /\ (d \in alive => pc[d] # "activate")
    BY <1>3, <1>4, Outside DEF LockedStages
  <2> QED
    BY <1>1, <1>2, <1>3, <1>4, <1>5, <1>6, <2>1 DEF EntryInv, i
<1> QED
    BY <1>3, <1>7, <1>8, <1>9

LEMMA CountUpKeeps == ASSUME IInv, NEW c \in Consumers, CountUp(c) PROVE IInv'
<1> USE DEF IInv
<1>1. /\ Goto(c, pc[c], "open") /\ c \in alive /\ pc[c] = "countUp" /\ lock' = NoProc
      /\ registered' = registered + 1 /\ pc' = [pc EXCEPT ![c] = "open"]
      /\ UNCHANGED <<slot, entry, nextSeq, role, alive, at, pick, handle, scan, heard, returning>>
    BY DEF CountUp, Goto, MembershipOnly, Unlock
<1>2. "open" \in Stages /\ "open" \notin LockedStages /\ pc[c] \in LockedStages /\ "open" \in OpenStages
    BY <1>1 DEF Stages, LockedStages, OpenStages
<1>3. /\ pc' \in [Procs -> Stages] /\ pc'[c] = "open"
      /\ \A q \in Procs \ {c} : pc'[q] = pc[q]
      /\ Loops' /\ RoleInv' /\ PickInv' /\ SlotInv' /\ LeaseInv'
    BY <1>1, <1>2, MemberStep
<1>4. Types'
    BY <1>1, <1>3 DEF Types
<1>5. LockInv'
    BY <1>1, <1>2, LockKept
<1>6. EntryInv'
    BY <1>1, <1>2, <1>3, Outside DEF EntryInv
<1> QED
    BY <1>3, <1>4, <1>5, <1>6

LEMMA StartCloseKeeps == ASSUME IInv, NEW c \in Consumers, StartClose(c) PROVE IInv'
<1> USE DEF IInv
<1>1. /\ Goto(c, pc[c], "close") /\ c \in alive /\ pc[c] = "open" /\ lock \notin alive /\ lock' = c
      /\ handle[c].leases = {} /\ pc' = [pc EXCEPT ![c] = "close"]
      /\ UNCHANGED <<slot, entry, registered, nextSeq, role, alive, at, pick, handle, scan, heard, returning>>
    BY DEF StartClose, Goto, MembershipOnly, Lock
<1>2. "close" \in Stages /\ "close" \notin OpenStages /\ pc[c] \in OpenStages
    BY <1>1 DEF Stages, LockedStages, OpenStages
<1>3. /\ pc' \in [Procs -> Stages] /\ pc'[c] = "close"
      /\ \A q \in Procs \ {c} : pc'[q] = pc[q]
      /\ Loops' /\ RoleInv' /\ PickInv' /\ SlotInv' /\ LeaseInv'
    BY <1>1, <1>2, MemberStep
<1>4. Types'
    BY <1>1, <1>3, Outside DEF Types
<1>5. LockInv'
    BY <1>1, <1>2, LockKept
<1>6. EntryInv'
    BY <1>1, <1>2, <1>3, Outside DEF EntryInv
<1> QED
    BY <1>3, <1>4, <1>5, <1>6

LEMMA CloseBitKeeps == ASSUME IInv, NEW c \in Consumers, CloseBit(c) PROVE IInv'
<1> USE DEF IInv
<1> DEFINE i == handle[c].idx
<1>1. /\ c \in alive /\ pc[c] = "close" /\ pc' = [pc EXCEPT ![c] = "close"] /\ DropNextBit(i)
      /\ UNCHANGED <<entry, registered, nextSeq, role, lock, alive, at, pick, handle, scan, heard, returning>>
    BY DEF CloseBit, Goto, ConsumerOnly
<1>2. pc' = pc /\ "close" \in Stages \cap LockedStages /\ pc[c] \in LockedStages
    BY <1>1, Outside DEF Types, Stages, LockedStages
<1>3. i \in Entries /\ entry[i].pid = c
    BY <1>1 DEF EntryInv
<1>4. handle[c].leases = {} /\ c \notin Producers
    BY <1>1, <1>2, Registering
<1>5. PICK s \in Slots : DropBit(s, i)
    BY <1>1 DEF DropNextBit, WithBit
<1>6. Thinner /\ slot' \in [Slots -> SlotRecord]
    BY <1>3, <1>5, Dropping
<1>7. Types' /\ Loops' /\ LockInv' /\ EntryInv'
    BY <1>1, <1>2, <1>6 DEF Types, Loops, LockInv, EntryInv
<1>8. RoleInv' /\ PickInv' /\ SlotInv'
    BY <1>1, <1>2, <1>4, <1>6, IdleStep
<1>9. \A d \in Consumers : handle[d].leases # {} => handle[d].idx # i
    BY <1>3, <1>4, LeaseOwner
<1>10. LeaseInv'
    BY <1>1, <1>3, <1>5, <1>9, BitsGone
<1> QED
    BY <1>7, <1>8, <1>10

LEMMA CloseEntryKeeps == ASSUME IInv, NEW c \in Consumers, CloseEntry(c) PROVE IInv'
<1> USE DEF IInv
<1> DEFINE i == handle[c].idx
<1>1. /\ Goto(c, pc[c], "countDown") /\ c \in alive /\ pc[c] = "close"
      /\ pc' = [pc EXCEPT ![c] = "countDown"] /\ entry' = [entry EXCEPT ![i].active = FALSE]
      /\ UNCHANGED <<slot, registered, nextSeq, role, lock, alive, at, pick, handle, scan, heard, returning>>
    BY DEF CloseEntry, Goto, MembershipOnly
<1>2. /\ "countDown" \in Stages \cap LockedStages /\ pc[c] \in LockedStages
      /\ "countDown" \notin OpenStages /\ pc[c] \notin OpenStages
    BY <1>1 DEF Stages, LockedStages, OpenStages
<1>3. /\ pc' \in [Procs -> Stages] /\ pc'[c] = "countDown"
      /\ \A q \in Procs \ {c} : pc'[q] = pc[q]
      /\ Loops' /\ RoleInv' /\ PickInv' /\ SlotInv' /\ LeaseInv'
    BY <1>1, <1>2, MemberStep
<1>4. i \in Entries /\ entry[i].pid = c
    BY <1>1 DEF EntryInv
<1> HIDE DEF i
<1>5. /\ entry' \in [Entries -> [active : BOOLEAN, pid : Consumers \cup {NoProc}]]
      /\ \A j \in Entries : /\ entry'[j].pid = entry[j].pid
                            /\ entry'[j].active => entry[j].active
                            /\ j # i => entry'[j] = entry[j]
    BY <1>1, <1>4 DEF Types
<1>6. Types'
    BY <1>1, <1>3, <1>5 DEF Types
<1>7. LockInv'
    BY <1>1, <1>2, LockKept
<1>8. EntryInv'
    BY <1>1, <1>2, <1>4, <1>5, EntriesKept
<1> QED
    BY <1>3, <1>6, <1>7, <1>8

LEMMA ClosedType == Closed \in HandleRecord /\ Closed.leases = {}
<1>1. 0 \in Seqs /\ 0 \in 0 .. MaxConsumers
    BY StepsAssumption, SeqModPositive DEF Seqs
<1> QED
    BY <1>1 DEF Closed, HandleRecord

LEMMA CountDownKeeps == ASSUME IInv, NEW c \in Consumers, CountDown(c) PROVE IInv'
<1> USE DEF IInv
<1>1. /\ c \in alive /\ pc[c] = "countDown" /\ pc' = [pc EXCEPT ![c] = "closed"]
      /\ registered' = AtLeastZero(registered - 1) /\ handle' = [handle EXCEPT ![c] = Closed]
      /\ lock' = NoProc
      /\ UNCHANGED <<slot, entry, nextSeq, role, alive, at, pick, scan, heard, returning>>
    BY DEF CountDown, Goto, ConsumerOnly, Unlock
<1>2. /\ "closed" \in Stages /\ "closed" \notin LockedStages \cup OpenStages
      /\ pc[c] \in LockedStages /\ c \in Procs /\ c \notin Producers
    BY <1>1, Outside DEF Stages, LockedStages, OpenStages
<1>3. /\ pc' \in [Procs -> Stages] /\ pc'[c] = "closed"
      /\ \A q \in Procs \ {c} : pc'[q] = pc[q]
    BY <1>1, <1>2 DEF Types
<1>4. registered' \in Nat
    BY <1>1 DEF Types, AtLeastZero
<1>5. /\ handle' \in [Consumers -> HandleRecord] /\ handle'[c].leases = {}
      /\ \A d \in Consumers \ {c} : handle'[d] = handle[d]
    BY <1>1, ClosedType DEF Types
<1>6. Types'
    BY <1>1, <1>3, <1>4, <1>5 DEF Types
<1>7. Loops'
    BY <1>1, <1>3, Outside DEF Loops
<1>8. LockInv'
    BY <1>1, <1>2, LockKept
<1>9. RoleInv' /\ PickInv' /\ SlotInv'
    BY <1>1, <1>2, Unchanged, IdleStep
<1>10. EntryInv'
  <2>1. \A d \in Consumers \ {c} : pc'[d] = pc[d] /\ handle'[d] = handle[d]
    BY <1>3, <1>5, Outside
  <2>2. pc'[c] \notin OpenStages \cup {"activate", "countUp", "close"}
    BY <1>2, <1>3
  <2> QED
    BY <1>1, <1>5, <2>1, <2>2 DEF EntryInv, OpenStages
<1>11. LeaseInv'
  <2>1. \A d \in Consumers : \A l \in handle'[d].leases : handle'[d] = handle[d]
    BY <1>5
  <2> QED
    BY <1>1, <2>1 DEF LeaseInv, StillThere
<1> QED
    BY <1>6, <1>7, <1>8, <1>9, <1>10, <1>11

-----------------------------------------------------------------------------
(* Deaths, and the theorems.                                               *)

LEMMA KillKeeps == ASSUME IInv, NEW p \in Procs, Kill(p) PROVE IInv'
<1> USE DEF IInv
<1>1. /\ p \in alive /\ alive' = alive \ {p}
      /\ pc' = [pc EXCEPT ![p] = IF @ \in Counting \cup {"stamp"} THEN @ ELSE "dead"]
      /\ at' = [at EXCEPT ![p] = 1]
      /\ pick' = [q \in Producers |-> IF q = p /\ pc[p] # "stamp" THEN 0 ELSE pick[q]]
      /\ handle' = [c \in Consumers |-> IF c = p THEN Closed ELSE handle[c]]
      /\ scan' = [c \in Consumers |-> IF c = p THEN NoScan ELSE scan[c]]
      /\ returning' = [c \in Consumers |-> IF c = p THEN None ELSE returning[c]]
      /\ heard' = [c \in Consumers |-> c # p /\ heard[c]]
      /\ UNCHANGED <<slot, entry, registered, nextSeq, role, lock>>
    BY DEF Kill, shared
<1>2. /\ pc' \in [Procs -> Stages] /\ \A q \in Procs \ {p} : pc'[q] = pc[q]
      /\ pc'[p] \in Counting \cup {"stamp", "dead"} /\ (pc[p] = "stamp" => pc'[p] = "stamp")
    BY <1>1 DEF Types, Stages, LockedStages, Counting
<1>3. at' \in [Procs -> Nat] /\ \A q \in Procs \ {p} : at'[q] = at[q]
    BY <1>1 DEF Types
<1>4. pick' \in [Producers -> 0 .. SlotCount]
    BY <1>1, StepsAssumption DEF Types
<1>5. handle' \in [Consumers -> HandleRecord]
    BY <1>1, ClosedType DEF Types
<1>6. /\ scan' \in [Consumers -> ScanRecord]
      /\ \A c \in Consumers \ {p} : scan'[c] = scan[c]
      /\ p \in Consumers => scan'[p] = NoScan
    BY <1>1, NoScanType DEF Types
<1>7. returning' \in [Consumers -> Lease \cup {None}] /\ heard' \in [Consumers -> BOOLEAN]
    BY <1>1 DEF Types
<1>8. Types'
    BY <1>1, <1>2, <1>3, <1>4, <1>5, <1>6, <1>7 DEF Types
<1>9. Loops'
    BY <1>2, <1>3, <1>6, NoScanType, Outside DEF Loops, Counting
<1>10. LockInv'
    BY <1>1, <1>2 DEF LockInv, Types
<1>11. EntryInv'
  <2>1. \A c \in Consumers \ {p} : /\ pc'[c] = pc[c] /\ handle'[c] = handle[c]
                                   /\ returning'[c] = returning[c]
    BY <1>1, <1>2, Outside
  <2>2. p \in Consumers => handle'[p].leases = {} /\ pc'[p] # "release"
    BY <1>1, <1>2, ClosedType DEF Counting
  <2> QED
    BY <1>1, <2>1, <2>2 DEF EntryInv
<1>12. RoleInv'
    BY <1>1, <1>2, Outside DEF RoleInv
<1>13. PickInv'
  <2>1. \A q \in Producers \cap alive' : q # p /\ q \in alive /\ pc'[q] = pc[q] /\ pick'[q] = pick[q]
    BY <1>1, <1>2, Outside
  <2> QED
    BY <1>1, <2>1 DEF PickInv
<1>14. SlotInv'
  <2>1. ASSUME NEW s \in Slots, slot[s].state = "WRITING", slot[s].pid \in alive',
               NEW q \in Producers \cap alive, pick[q] = s
        PROVE  (\E r \in Producers \cap alive' : pick'[r] = s) \/ HalfMarked(s)'
    <3>1. CASE q # p
      BY <1>1, <2>1, <3>1
    <3>2. CASE q = p
      <4>1. pc[p] \in Working
        BY <2>1, <3>2 DEF PickInv, Slots
      <4>2. pc[p] = "stamp"
        BY <1>1, <2>1, <3>2, <4>1 DEF PickInv
      <4>3. pc'[p] = "stamp" /\ pick'[p] = s
        BY <1>1, <1>2, <2>1, <3>2, <4>2
      <4> QED
        BY <1>1, <2>1, <3>2, <4>3 DEF HalfMarked
    <3> QED
      BY <3>1, <3>2
  <2>2. \A s \in Slots : HalfMarked(s) => HalfMarked(s)'
    BY <1>1, <1>2, Outside DEF HalfMarked
  <2> QED
    BY <1>1, <2>1, <2>2 DEF SlotInv
<1>15. LeaseInv'
  <2>1. \A d \in Consumers : \A l \in handle'[d].leases : handle'[d] = handle[d]
    BY <1>1, ClosedType
  <2> QED
    BY <1>1, <2>1 DEF LeaseInv, StillThere
<1> QED
    BY <1>8, <1>9, <1>10, <1>11, <1>12, <1>13, <1>14, <1>15

LEMMA Step == ASSUME IInv, [Next]_vars PROVE IInv'
<1>1. ASSUME NEW p \in Producers, Publish(p) PROVE IInv'
  <2>1. CASE Claim(p)
    BY <2>1, ClaimKeeps
  <2>2. CASE StartReserve(p)
    BY <2>2, StartLockedKeeps, Outside DEF StartReserve
  <2>3. CASE Choose(p)
    BY <2>3, ChooseKeeps
  <2>4. CASE Full(p)
    BY <2>4, FullKeeps
  <2>5. CASE Mark(p)
    BY <2>5, MarkKeeps
  <2>6. CASE Stamp(p)
    BY <2>6, StampKeeps
  <2>7. CASE Number(p)
    BY <2>7, NumberKeeps
  <2>8. CASE Address(p)
    BY <2>8, AddressKeeps
  <2>9. CASE Advance(p)
    BY <2>9, AdvanceKeeps
  <2>10. CASE Copy(p)
    BY <2>10, CopyKeeps
  <2>11. CASE Commit(p)
    BY <2>11, CommitKeeps
  <2>12. CASE Signal(p)
    BY <2>12, SignalKeeps
  <2>13. CASE WakeAll(p)
    BY <2>13, WakeAllKeeps
  <2>14. CASE HandBack(p)
    BY <2>14, HandBackKeeps
  <2> QED
    BY <1>1, <2>1, <2>2, <2>3, <2>4, <2>5, <2>6, <2>7, <2>8, <2>9, <2>10, <2>11, <2>12, <2>13,
       <2>14 DEF Publish
<1>2. ASSUME NEW c \in Consumers, Membership(c) PROVE IInv'
  <2>1. CASE StartRegister(c)
    BY <2>1, StartLockedKeeps, Outside DEF StartRegister
  <2>2. CASE Enter(c)
    BY <2>2, EnterKeeps
  <2>3. CASE RegistryFull(c)
    BY <2>3, RegistryFullKeeps
  <2>4. CASE Activate(c)
    BY <2>4, ActivateKeeps
  <2>5. CASE CountUp(c)
    BY <2>5, CountUpKeeps
  <2>6. CASE StartClose(c)
    BY <2>6, StartCloseKeeps
  <2>7. CASE CloseBit(c)
    BY <2>7, CloseBitKeeps
  <2>8. CASE CloseEntry(c)
    BY <2>8, CloseEntryKeeps
  <2>9. CASE CountDown(c)
    BY <2>9, CountDownKeeps
  <2> QED
    BY <1>2, <2>1, <2>2, <2>3, <2>4, <2>5, <2>6, <2>7, <2>8, <2>9 DEF Membership
<1>3. ASSUME NEW c \in Consumers, Receive(c) PROVE IInv'
  <2>1. CASE Observe(c)
    BY <2>1, ObserveKeeps
  <2>2. CASE LoadState(c)
    BY <2>2, LoadStateKeeps
  <2>3. CASE LoadMask(c)
    BY <2>3, LoadMaskKeeps
  <2>4. CASE LoadSeq(c)
    BY <2>4, LoadSeqKeeps
  <2>5. CASE Compare(c)
    BY <2>5, CompareKeeps
  <2>6. CASE Check(c)
    BY <2>6, CheckKeeps
  <2>7. CASE Take(c)
    BY <2>7, TakeKeeps
  <2>8. CASE Sleep(c)
    BY <2>8, SleepKeeps
  <2>9. CASE EndWait(c)
    BY <2>9, EndWaitKeeps
  <2>10. CASE StartRelease(c)
    BY <2>10, StartReleaseKeeps
  <2>11. CASE Release(c)
    BY <2>11, ReleaseKeeps
  <2> QED
    BY <1>3, <2>1, <2>2, <2>3, <2>4, <2>5, <2>6, <2>7, <2>8, <2>9, <2>10, <2>11 DEF Receive
<1>4. CASE UNCHANGED vars
    BY <1>4 DEF vars, IInv, Types, Loops, LockInv, EntryInv, RoleInv, PickInv, SlotInv, LeaseInv,
                StillThere, HalfMarked
<1> QED
    BY <1>1, <1>2, <1>3, <1>4, ReapEntryKeeps, ReapCountKeeps, ReapSlotKeeps, KillKeeps DEF Next

LEMMA Invariance == Spec => []IInv
<1> QED
    BY Start, Step, PTL DEF Spec

\* TypeOK: every variable has its type at every access, and whoever is in a section
\* that the registry lock guards holds it, whoever was killed in it before.
THEOREM TypeCorrect == Spec => []TypeOK
<1>1. IInv => TypeOK
  <2> SUFFICES ASSUME IInv PROVE TypeOK
    OBVIOUS
  <2> USE DEF IInv
  <2>1. \A s \in Slots :
           /\ slot[s].state \in {"FREE", "WRITING", "COMMITTED"}
           /\ slot[s].seq \in Seqs /\ slot[s].mask \subseteq Entries
           /\ slot[s].payload \in Seqs \cup {Zeroed} /\ slot[s].pid \in Producers \cup {NoProc}
    <3>1. \A s \in Slots : slot[s] \in SlotRecord
      BY DEF Types
    <3> QED
      BY <3>1 DEF SlotRecord
  <2>2. \A i \in Entries : entry[i].active \in BOOLEAN /\ entry[i].pid \in Consumers \cup {NoProc}
    BY DEF Types
  <2>3. \A c \in Consumers : /\ handle[c].idx \in 0 .. MaxConsumers /\ handle[c].last \in Seqs
                             /\ handle[c].leases \subseteq [slot : Slots, seq : Seqs]
                             /\ scan[c].again \in 0 .. SlotCount
    <3>1. \A c \in Consumers : handle[c] \in HandleRecord /\ scan[c] \in ScanRecord
      BY DEF Types
    <3> QED
      BY <3>1 DEF HandleRecord, ScanRecord, Lease
  <2>4. \A p \in alive : pc[p] \in Counting \cup {"reap", "choose", "stamp", "close"} => lock = p
    BY DEF LockInv, LockedStages, Counting
  <2> QED
    BY <2>1, <2>2, <2>3, <2>4 DEF TypeOK, Types
<1> QED
    BY Invariance, <1>1, PTL

\* LeasesIntact: a consumer that found a slot by separate loads, and validated it by
\* others, reads a slot that no producer touches until its lease is let go.
THEOREM LeasesKept == Spec => []LeasesIntact
<1>1. IInv => LeasesIntact
  <2> SUFFICES ASSUME IInv, NEW c \in Consumers, NEW l \in handle[c].leases
               PROVE  /\ StillThere(l) /\ slot[l.slot].payload = l.seq
                      /\ handle[c].idx \in slot[l.slot].mask
    BY DEF LeasesIntact
  <2>1. StillThere(l) /\ handle[c].idx \in slot[l.slot].mask
    BY DEF IInv, LeaseInv
  <2>2. slot[l.slot].payload = slot[l.slot].seq
    BY <2>1, LeaseSlots DEF IInv, SlotInv, StillThere
  <2> QED
    BY <2>1, <2>2 DEF StillThere
<1> QED
    BY Invariance, <1>1, PTL

\* NoSlotLost: a slot that a producer was killed over is one that every later sweep
\* takes, but for one that was marked and got no pid, while the process whose pid it
\* still has lives on; any other in WRITING has a living producer at work on it.
THEOREM SlotsRecovered == Spec => []NoSlotLost
<1>1. IInv => NoSlotLost
    BY DEF IInv, SlotInv, HalfMarked, NoSlotLost, Abandoned
<1> QED
    BY Invariance, <1>1, PTL

-----------------------------------------------------------------------------
(* The count of the registry.                                              *)

Listed == {i \in Entries : entry[i].active}
ToCountUp == {p \in Procs : pc[p] = "countUp"}
ToCountDown == {p \in Procs : pc[p] \in {"countDead", "countDown"}}
LivingUp == {p \in alive : pc[p] = "countUp"}

\* The count is what is listed, but for those on the way and for those killed on it.
CountInv ==
    /\ registered >= Cardinality(Listed) - Cardinality(ToCountUp) + Cardinality(ToCountDown)
    /\ registered <= Cardinality(Listed) + Cardinality(ToCountDown) - Cardinality(LivingUp)

LEMMA Countable ==
    ASSUME Types
    PROVE  /\ IsFiniteSet(Listed) /\ Cardinality(Listed) \in Nat
           /\ IsFiniteSet(ToCountUp) /\ Cardinality(ToCountUp) \in Nat
           /\ IsFiniteSet(ToCountDown) /\ Cardinality(ToCountDown) \in Nat
           /\ IsFiniteSet(LivingUp) /\ Cardinality(LivingUp) \in Nat
<1>1. IsFiniteSet(Entries) /\ IsFiniteSet(Procs)
    BY StepsAssumption, FiniteAssumption, FS_Interval DEF Entries, Procs
<1>2. /\ Listed \in SUBSET Entries /\ ToCountUp \in SUBSET Procs /\ ToCountDown \in SUBSET Procs
      /\ LivingUp \in SUBSET Procs
    BY DEF Listed, ToCountUp, ToCountDown, LivingUp, Types
<1>3. /\ IsFiniteSet(Listed) /\ IsFiniteSet(ToCountUp) /\ IsFiniteSet(ToCountDown)
      /\ IsFiniteSet(LivingUp)
    BY <1>1, <1>2, FS_Subset
<1> QED
    BY <1>3, FS_CardinalityType

\* A process goes between two places where it has nothing to count.
LEMMA Elsewhere ==
    ASSUME Types, CountInv, NEW p \in alive, NEW to \in Stages \ Counting,
           pc[p] \notin Counting, pc' = [pc EXCEPT ![p] = to],
           UNCHANGED <<registered, alive>>, \A i \in Entries : entry'[i].active <=> entry[i].active
    PROVE  CountInv'
<1>1. \A q \in Procs : \A x \in Counting : pc'[q] = x <=> pc[q] = x
    BY DEF Types
<1>2. Listed' = Listed /\ ToCountUp' = ToCountUp /\ ToCountDown' = ToCountDown /\ LivingUp' = LivingUp
    BY <1>1 DEF Listed, ToCountUp, ToCountDown, LivingUp, Counting, Types
<1> QED
    BY <1>2 DEF CountInv

\* A process that has to take one off does; nobody counts up meanwhile.
LEMMA OneTakenOff ==
    ASSUME Types, LockInv, CountInv, NEW p \in alive, NEW to \in Stages \ Counting,
           pc[p] \in {"countDead", "countDown"}, pc' = [pc EXCEPT ![p] = to],
           registered' = AtLeastZero(registered - 1), UNCHANGED <<entry, alive>>
    PROVE  CountInv'
<1>1. \A q \in alive : pc[q] # "countUp"
    BY DEF LockInv, LockedStages
<1>2. LivingUp = {} /\ LivingUp' = {}
    BY <1>1 DEF LivingUp, Types, Counting
<1>3. Listed' = Listed /\ ToCountUp' = ToCountUp
    BY DEF Listed, ToCountUp, Types, Counting
<1>4. ToCountDown' = ToCountDown \ {p} /\ p \in ToCountDown
    BY DEF ToCountDown, Types, Counting
<1>5. Cardinality(ToCountDown') = Cardinality(ToCountDown) - 1
    BY <1>4, Countable, FS_RemoveElement
<1>6. Cardinality(LivingUp) = 0 /\ Cardinality(LivingUp') = 0
    BY <1>2, FS_EmptySet
<1>7. Cardinality(ToCountDown') \in Nat
    BY <1>4, <1>5, Countable, FS_RemoveElement, FS_CardinalityType
<1> QED
    BY <1>3, <1>5, <1>6, <1>7, Countable DEF CountInv, AtLeastZero, Types

\* An entry is freed, and is then to be taken off.
LEMMA OneFreed ==
    ASSUME Types, CountInv, NEW p \in alive, NEW to \in {"countDead", "countDown"},
           NEW i \in Entries, entry[i].active, pc[p] \notin Counting, pc' = [pc EXCEPT ![p] = to],
           entry' = [entry EXCEPT ![i].active = FALSE], UNCHANGED <<registered, alive>>
    PROVE  CountInv'
<1>1. p \in Procs /\ pc'[p] = to /\ \A q \in Procs \ {p} : pc'[q] = pc[q]
    BY DEF Types
<1>2. ToCountUp' = ToCountUp /\ LivingUp' = LivingUp
    BY <1>1 DEF ToCountUp, LivingUp, Types, Counting
<1>3. Listed' = Listed \ {i} /\ i \in Listed
    BY DEF Listed, Types
<1>4. ToCountDown' = ToCountDown \cup {p} /\ p \notin ToCountDown
    BY <1>1 DEF ToCountDown, Counting
<1>5. /\ Cardinality(Listed') = Cardinality(Listed) - 1
      /\ Cardinality(ToCountDown') = Cardinality(ToCountDown) + 1
    BY <1>3, <1>4, Countable, FS_RemoveElement, FS_AddElement
<1> QED
    BY <1>2, <1>5, Countable DEF CountInv, Types

LEMMA CountStart == Init => CountInv
<1> SUFFICES ASSUME Init PROVE CountInv
    OBVIOUS
<1>1. \A p \in Procs : pc[p] \in {"off", "none"}
    BY DEF Init
<1>2. Listed = {} /\ ToCountUp = {} /\ ToCountDown = {} /\ LivingUp = {} /\ registered = 0
    BY <1>1 DEF Init, Listed, ToCountUp, ToCountDown, LivingUp
<1> QED
    BY <1>2, FS_EmptySet DEF CountInv

LEMMA CountStep == ASSUME IInv, CountInv, [Next]_vars PROVE CountInv'
<1> USE DEF IInv
<1>1. ASSUME NEW p \in Procs, NEW from, NEW to \in Stages \ Counting, Goto(p, from, to),
             from \notin Counting, UNCHANGED <<registered, alive>>,
             \A i \in Entries : entry'[i].active <=> entry[i].active
      PROVE  CountInv'
    BY <1>1, Elsewhere DEF Goto
<1>2. /\ Stages \ Counting = Stages \ {"countUp", "countDead", "countDown"}
      /\ {"reap", "choose", "chosen", "stamp", "number", "address", "advance", "enter", "activate",
          "close", "open", "loadState", "loadMask", "loadSeq", "compare", "check", "recheck", "wait",
          "asleep", "release", "off", "idle", "copy", "commit", "signal", "wake", "none", "closed",
          "dead"} \subseteq Stages \ Counting
    BY DEF Stages, LockedStages, OpenStages, Counting
<1>3. ASSUME NEW p \in Producers, Publish(p) PROVE CountInv'
  <2>1. p \in Procs
    BY Outside
  <2>2. CASE Claim(p) \/ HandBack(p) \/ StartReserve(p) \/ Choose(p) \/ Full(p)
    BY <1>1, <1>2, <2>1, <2>2
       DEF Claim, HandBack, StartReserve, StartLocked, Choose, Full, shared, ProducerOnly, Counting
  <2>3. CASE Mark(p) \/ Stamp(p) \/ Number(p) \/ Address(p) \/ Copy(p) \/ Commit(p)
    BY <1>1, <1>2, <2>1, <2>3
       DEF Mark, Stamp, Number, Address, Copy, Commit, Store, ProducerOnly, Counting
  <2>4. CASE Advance(p) \/ Signal(p)
    BY <1>1, <1>2, <2>1, <2>4 DEF Advance, Signal, shared, ProducerOnly, Counting
  <2>5. CASE WakeAll(p)
    <3>1. /\ pc[p] = "wake" /\ UNCHANGED <<entry, registered, alive>>
          /\ pc' = [q \in Procs |-> IF q = p THEN "idle"
                                    ELSE IF pc[q] = "asleep" THEN "open" ELSE pc[q]]
      BY <2>5 DEF WakeAll, shared, ProducerOnly
    <3>2. \A q \in Procs : \A x \in Counting : pc'[q] = x <=> pc[q] = x
      BY <3>1 DEF Counting
    <3>3. Listed' = Listed /\ ToCountUp' = ToCountUp /\ ToCountDown' = ToCountDown /\ LivingUp' = LivingUp
      BY <3>1, <3>2 DEF Listed, ToCountUp, ToCountDown, LivingUp, Counting, Types
    <3> QED
      BY <3>1, <3>3 DEF CountInv
  <2> QED
    BY <1>3, <2>2, <2>3, <2>4, <2>5 DEF Publish
<1>4. ASSUME NEW c \in Consumers, Receive(c) PROVE CountInv'
  <2>1. c \in Procs
    BY Outside
  <2>2. CASE Observe(c) \/ LoadState(c) \/ LoadMask(c) \/ LoadSeq(c)
    BY <1>1, <1>2, <2>1, <2>2 DEF Observe, LoadState, LoadMask, LoadSeq, Onward, Reading, shared, Counting
  <2>3. CASE Compare(c) \/ Check(c) \/ Take(c)
    BY <1>1, <1>2, <2>1, <2>3 DEF Compare, Check, Take, Reading, shared, Counting
  <2>4. CASE Sleep(c) \/ EndWait(c) \/ StartRelease(c) \/ Release(c)
    BY <1>1, <1>2, <2>1, <2>4
       DEF Sleep, EndWait, StartRelease, Release, Reading, ConsumerOnly, shared, Counting
  <2> QED
    BY <1>4, <2>2, <2>3, <2>4 DEF Receive
<1>5. ASSUME NEW c \in Consumers, Membership(c) PROVE CountInv'
  <2>1. c \in Procs
    BY Outside
  <2>2. CASE StartRegister(c) \/ RegistryFull(c) \/ StartClose(c) \/ CloseBit(c)
    BY <1>1, <1>2, <2>1, <2>2
       DEF StartRegister, StartLocked, RegistryFull, StartClose, CloseBit, MembershipOnly,
           ConsumerOnly, shared, Counting
  <2>3. CASE Enter(c)
    <3>1. \A i \in Entries : entry'[i].active <=> entry[i].active
      BY <2>3 DEF Enter, Types
    <3> QED
      BY <1>1, <1>2, <2>1, <2>3, <3>1 DEF Enter, ConsumerOnly, Counting
  <2>4. CASE Activate(c)
    <3> DEFINE i == handle[c].idx
    <3>1. /\ c \in alive /\ pc[c] = "activate" /\ pc' = [pc EXCEPT ![c] = "countUp"]
          /\ entry' = [entry EXCEPT ![i].active = TRUE] /\ UNCHANGED <<registered, alive>>
      BY <2>4 DEF Activate, Goto, MembershipOnly
    <3>2. i \in Entries /\ ~entry[i].active
      BY <3>1 DEF EntryInv
    <3> HIDE DEF i
    <3>3. pc'[c] = "countUp" /\ \A q \in Procs \ {c} : pc'[q] = pc[q]
      BY <2>1, <3>1 DEF Types
    <3>4. Listed' = Listed \cup {i} /\ i \notin Listed
      BY <3>1, <3>2 DEF Listed, Types
    <3>5. /\ ToCountUp' = ToCountUp \cup {c} /\ c \notin ToCountUp
          /\ LivingUp' = LivingUp \cup {c} /\ c \notin LivingUp
          /\ ToCountDown' = ToCountDown
      BY <2>1, <3>1, <3>3 DEF ToCountUp, LivingUp, ToCountDown, Types
    <3>6. /\ Cardinality(Listed') = Cardinality(Listed) + 1
          /\ Cardinality(ToCountUp') = Cardinality(ToCountUp) + 1
          /\ Cardinality(LivingUp') = Cardinality(LivingUp) + 1
      BY <3>4, <3>5, Countable, FS_AddElement
    <3> QED
      BY <3>1, <3>5, <3>6, Countable DEF CountInv, Types
  <2>5. CASE CountUp(c)
    <3>1. /\ c \in alive /\ pc[c] = "countUp" /\ pc' = [pc EXCEPT ![c] = "open"]
          /\ registered' = registered + 1 /\ UNCHANGED <<entry, alive>>
      BY <2>5 DEF CountUp, Goto, MembershipOnly
    <3>2. pc'[c] = "open" /\ \A q \in Procs \ {c} : pc'[q] = pc[q]
      BY <2>1, <3>1 DEF Types
    <3>3. /\ ToCountUp' = ToCountUp \ {c} /\ c \in ToCountUp
          /\ LivingUp' = LivingUp \ {c} /\ c \in LivingUp
          /\ ToCountDown' = ToCountDown /\ Listed' = Listed
      BY <2>1, <3>1, <3>2 DEF ToCountUp, LivingUp, ToCountDown, Listed, Types
    <3>4. /\ Cardinality(ToCountUp') = Cardinality(ToCountUp) - 1
          /\ Cardinality(LivingUp') = Cardinality(LivingUp) - 1
      BY <3>3, Countable, FS_RemoveElement
    <3> QED
      BY <3>1, <3>3, <3>4, Countable DEF CountInv, Types
  <2>6. CASE CloseEntry(c)
    <3>1. /\ c \in alive /\ pc[c] = "close" /\ pc' = [pc EXCEPT ![c] = "countDown"]
          /\ entry' = [entry EXCEPT ![handle[c].idx].active = FALSE] /\ UNCHANGED <<registered, alive>>
      BY <2>6 DEF CloseEntry, Goto, MembershipOnly
    <3>2. handle[c].idx \in Entries /\ entry[handle[c].idx].active
      BY <3>1 DEF EntryInv
    <3> QED
      BY <3>1, <3>2, OneFreed DEF Counting
  <2>7. CASE CountDown(c)
    <3>1. /\ c \in alive /\ pc[c] = "countDown" /\ pc' = [pc EXCEPT ![c] = "closed"]
          /\ registered' = AtLeastZero(registered - 1) /\ UNCHANGED <<entry, alive>>
      BY <2>7 DEF CountDown, Goto, ConsumerOnly
    <3> QED
      BY <1>2, <3>1, OneTakenOff
  <2> QED
    BY <1>5, <2>2, <2>3, <2>4, <2>5, <2>6, <2>7 DEF Membership
<1>6. ASSUME NEW p \in Procs, ReapEntry(p) PROVE CountInv'
  <2> DEFINE i == at[p]
  <2>1. /\ p \in alive /\ pc[p] = "reap" /\ i \in Entries /\ UNCHANGED <<registered, alive>>
        /\ \/ pc' = [pc EXCEPT ![p] = "reap"] /\ UNCHANGED entry
           \/ /\ pc' = [pc EXCEPT ![p] = "countDead"] /\ entry[i].active
              /\ entry' = [entry EXCEPT ![i].active = FALSE]
    BY <1>6 DEF ReapEntry, Goto, DeadEntry
  <2> HIDE DEF i
  <2>2. CASE pc' = [pc EXCEPT ![p] = "reap"] /\ UNCHANGED entry
    BY <1>2, <2>1, <2>2, Elsewhere DEF Counting
  <2>3. CASE /\ pc' = [pc EXCEPT ![p] = "countDead"] /\ entry[i].active
             /\ entry' = [entry EXCEPT ![i].active = FALSE]
    BY <2>1, <2>3, OneFreed DEF Counting
  <2> QED
    BY <2>1, <2>2, <2>3
<1>7. ASSUME NEW p \in Procs, ReapCount(p) PROVE CountInv'
  <2>1. /\ p \in alive /\ pc[p] = "countDead" /\ pc' = [pc EXCEPT ![p] = "reap"]
        /\ registered' = AtLeastZero(registered - 1) /\ UNCHANGED <<entry, alive>>
    BY <1>7 DEF ReapCount, Goto, OneLess
  <2> QED
    BY <1>2, <2>1, OneTakenOff
<1>8. ASSUME NEW p \in Procs, ReapSlot(p) PROVE CountInv'
    BY <1>1, <1>2, <1>8 DEF ReapSlot, Counting
<1>9. ASSUME NEW p \in Procs, Kill(p) PROVE CountInv'
  <2>1. /\ p \in alive /\ alive' = alive \ {p} /\ UNCHANGED <<entry, registered>>
        /\ pc' = [pc EXCEPT ![p] = IF @ \in Counting \cup {"stamp"} THEN @ ELSE "dead"]
    BY <1>9 DEF Kill, shared
  <2>2. \A q \in Procs : \A x \in Counting : pc'[q] = x <=> pc[q] = x
    BY <2>1 DEF Types, Counting
  <2>3. Listed' = Listed /\ ToCountUp' = ToCountUp /\ ToCountDown' = ToCountDown
    BY <2>1, <2>2 DEF Listed, ToCountUp, ToCountDown, Counting
  <2>4. LivingUp' \in SUBSET LivingUp
    BY <2>1, <2>2 DEF LivingUp, Types, Counting
  <2>5. Cardinality(LivingUp') <= Cardinality(LivingUp) /\ Cardinality(LivingUp') \in Nat
    BY <2>4, Countable, FS_Subset, FS_CardinalityType
  <2> QED
    BY <2>1, <2>3, <2>5, Countable DEF CountInv, Types
<1>10. CASE UNCHANGED vars
    BY <1>10 DEF vars, CountInv, Listed, ToCountUp, ToCountDown, LivingUp
<1> QED
    BY <1>3, <1>4, <1>5, <1>6, <1>7, <1>8, <1>9, <1>10 DEF Next

\* CountKept: G_CONSUMERS is off by those who are, or were killed, between an entry
\* and the count, and by nobody else; the saturating subtraction adds nothing to it.
THEOREM CountsKept == Spec => []CountKept
<1>1. Types /\ CountInv => CountKept
  <2> SUFFICES ASSUME Types, CountInv PROVE CountKept
    OBVIOUS
  <2>1. /\ registered >= Cardinality(Listed) - Cardinality(ToCountUp)
        /\ registered <= Cardinality(Listed) + Cardinality(ToCountDown)
    BY Countable DEF CountInv, Types
  <2>2. /\ {p \in Procs : pc[p] \in {"countUp"}} = ToCountUp
        /\ {p \in Procs : pc[p] \in {"countDead", "countDown"}} = ToCountDown
        /\ {i \in Entries : entry[i].active} = Listed
    BY DEF ToCountUp, ToCountDown, Listed
  <2>3. registered \in (Cardinality(Listed) - Cardinality(ToCountUp)) ..
                       (Cardinality(Listed) + Cardinality(ToCountDown))
    BY <2>1, Countable DEF Types
  <2> QED
    BY <2>2, <2>3 DEF CountKept
<1>2. Spec => []CountInv
    BY Invariance, CountStart, CountStep, PTL DEF Spec
<1>3. IInv => Types
    BY DEF IInv
<1> QED
    BY Invariance, <1>1, <1>2, <1>3, PTL
===============================================================================
