---------------------------- MODULE LifecycleProofs ----------------------------
(***************************************************************************)
(* The invariants of RingLifecycle, for every number of calls, objects and *)
(* geometries.  Each object is followed through its creator, the one       *)
(* handle that owns it: how far the creator's call has come says what is   *)
(* in the object, and whether the name may still refer to it.              *)
(***************************************************************************)
EXTENDS RingLifecycle, Integers, TLAPS

-----------------------------------------------------------------------------
(* The layout arithmetic, for every number of slots and every capacity.    *)
(* The code asserts the size of the registry when it is compiled, and      *)
(* tests the rest for a few sizes.                                         *)

\* align_up rounds up, and by less than a whole unit.
LEMMA AlignUpBounds ==
    ASSUME NEW v \in Nat
    PROVE  /\ AlignUp(v, 64) \in Nat
           /\ v <= AlignUp(v, 64) /\ AlignUp(v, 64) < v + 64
           /\ AlignUp(v, 64) % 64 = 0
<1>1. PICK q \in Nat : (v + 64 - 1) \div 64 = q /\ 64 * q <= v + 63 /\ v + 63 < 64 * q + 64
    BY SMT
<1>2. AlignUp(v, 64) = 64 * q
    BY <1>1 DEF AlignUp
<1> QED
    BY <1>1, <1>2

\* A slot is a header, its payload, and less than a cache line of padding.
LEMMA StrideBounds ==
    ASSUME NEW capacity \in Nat
    PROVE  /\ SlotStride(capacity) \in Nat
           /\ SlotHeaderSize + capacity <= SlotStride(capacity)
           /\ SlotStride(capacity) % 64 = 0
    BY AlignUpBounds DEF SlotStride, SlotHeaderSize

LEMMA Multiple ==
    ASSUME NEW i \in Nat, NEW j \in Nat, NEW s \in Nat, i < j
    PROVE  i * s \in Nat /\ j * s \in Nat /\ i * s + s <= j * s
<1>1. PICK k \in Nat : j = i + 1 + k
    <2>1. j - i - 1 \in Nat /\ j = i + 1 + (j - i - 1)
        OBVIOUS
    <2> QED
        BY <2>1
<1>2. j * s = i * s + s + k * s /\ k * s \in Nat /\ i * s \in Nat
    BY <1>1
<1> QED
    BY <1>2

\* slot_base and payload_base: a payload ends before the header of any later slot
\* begins, and within the length that create gives the object, so that no two slots
\* and no slot and the end of the mapping overlap.
THEOREM SlotsDisjoint ==
    ASSUME NEW count \in Nat, NEW capacity \in Nat,
           NEW i \in 0 .. count - 1, NEW j \in 0 .. count - 1, i < j
    PROVE  /\ PayloadBase(i, capacity) + capacity <= SlotBase(j, capacity)
           /\ PayloadBase(j, capacity) + capacity <= TotalBytes(count, capacity)
<1> DEFINE s == SlotStride(capacity)
<1>1. s \in Nat /\ SlotHeaderSize + capacity <= s
    BY StrideBounds
<1> HIDE DEF s
<1>2. i * s + s <= j * s /\ i * s \in Nat /\ j * s \in Nat
    BY <1>1, Multiple
<1>3. j * s + s <= count * s /\ count * s \in Nat
    BY <1>1, Multiple
<1>4. /\ SlotBase(i, capacity) = GlobalHeaderSize + i * s
      /\ SlotBase(j, capacity) = GlobalHeaderSize + j * s
      /\ TotalBytes(count, capacity) = GlobalHeaderSize + count * s
    BY DEF SlotBase, TotalBytes, s
<1>5. SlotHeaderSize = 128 /\ GlobalHeaderSize = 4096
    BY DEF SlotHeaderSize, GlobalHeaderSize
<1> QED
    BY <1>1, <1>2, <1>3, <1>4, <1>5 DEF PayloadBase

\* Registry entries do not overlap, and the last one ends before the first slot.
THEOREM RegistryApart ==
    ASSUME NEW i \in 0 .. MaxConsumerEntries - 1, NEW j \in 0 .. MaxConsumerEntries - 1, i < j,
           NEW capacity \in Nat
    PROVE  /\ RegistryEntryOffset(i) + RegistryEntrySize <= RegistryEntryOffset(j)
           /\ RegistryEntryOffset(j) + RegistryEntrySize <= SlotBase(0, capacity)
<1>1. SlotStride(capacity) \in Nat
    BY StrideBounds
<1>2. SlotBase(0, capacity) = GlobalHeaderSize
    BY <1>1 DEF SlotBase, GlobalHeaderSize
<1> QED
    BY <1>2 DEF RegistryEntryOffset, RegistryEntrySize, RegistryOffset, MaxConsumerEntries,
                GlobalHeaderSize

\* Every header and every payload starts at a cache line.
THEOREM SlotsAligned ==
    ASSUME NEW i \in Nat, NEW capacity \in Nat
    PROVE  SlotBase(i, capacity) % 64 = 0 /\ PayloadBase(i, capacity) % 64 = 0
<1>1. PICK q \in Nat : SlotStride(capacity) = 64 * q
    BY StrideBounds, SMT
<1>2. i * SlotStride(capacity) = 64 * (i * q) /\ i * q \in Nat
    BY <1>1
<1> QED
    BY <1>2 DEF SlotBase, PayloadBase, SlotHeaderSize, GlobalHeaderSize

-----------------------------------------------------------------------------
(* The lifecycle.                                                          *)

Stages == {"none", "excl", "truncate", "map", "format", "attach", "fstat", "validate", "open",
           "failed", "unmapped", "closed", "kept", "dead"}
Geometry == [count : Nat, capacity : Nat]

\* The variables as functions.
Types ==
    /\ made \in 0 .. MaxObjects /\ name \in 0 .. made
    /\ size \in [Objects -> Nat] /\ stored \in [Objects -> 0 .. 7]
    /\ pc \in [Handles -> Stages] /\ of \in [Handles -> 0 .. made]
    /\ geometry \in [Handles -> Geometry]
    /\ orAttach \in [Handles -> BOOLEAN] /\ owner \in [Handles -> BOOLEAN]
    /\ unlinkOnDrop \in [Handles -> BOOLEAN]

\* Every object has one creator, and who is creating is the creator.
Owners ==
    /\ \A h \in Handles : owner[h] =>
          of[h] # 0 /\ pc[h] \notin {"none", "excl", "attach", "fstat", "validate"}
    /\ \A h \in Handles : pc[h] \in {"truncate", "map", "format"} => owner[h]
    /\ \A h \in Handles : pc[h] \in {"fstat", "validate", "open"} => of[h] # 0
    /\ \A h, k \in Handles : owner[h] /\ owner[k] /\ of[h] = of[k] => h = k
    /\ \A o \in 1 .. made : \E h \in Handles : owner[h] /\ of[h] = o

\* What is in an object, by the stage of its creator.
Contents ==
    /\ \A o \in Objects : o > made => stored[o] = 0
    /\ \A h \in Handles : pc[h] = "excl" => geometry[h] \in Geometries
    /\ \A h \in Handles : owner[h] =>
          /\ geometry[h] \in Geometries
          /\ pc[h] \in {"truncate", "map"} => stored[of[h]] = 0
          /\ pc[h] = "format" => stored[of[h]] < 7
          /\ pc[h] \in {"map", "format"} \/ stored[of[h]] > 0
                => size[of[h]] = TotalBytes(geometry[h].count, geometry[h].capacity)
          /\ pc[h] \in {"open", "kept"} => stored[of[h]] = 7

\* Who has an object open has learned its creator's geometry.
Learned ==
    \A h \in Handles : pc[h] = "open" =>
        /\ stored[of[h]] >= 4
        /\ \A k \in Handles : owner[k] /\ of[k] = of[h] => geometry[h] = geometry[k]

\* The creator of the object that has the name.
Named ==
    \A k \in Handles : owner[k] /\ of[k] = name =>
        pc[k] \in {"truncate", "map", "format", "unmapped", "open", "kept", "dead"}

IInv == Types /\ Owners /\ Contents /\ Learned /\ Named

-----------------------------------------------------------------------------
LEMMA SevenFields == Len(Fields) = 7
    BY DEF Fields

LEMMA SizeInNat == ASSUME NEW g \in Geometry PROVE TotalBytes(g.count, g.capacity) \in Nat
<1>1. g.count \in Nat /\ g.capacity \in Nat
    BY DEF Geometry
<1>2. SlotStride(g.capacity) \in Nat
    BY <1>1, StrideBounds
<1>3. g.count * SlotStride(g.capacity) \in Nat
    BY <1>1, <1>2
<1> QED
    BY <1>3 DEF TotalBytes, GlobalHeaderSize

LEMMA CreatorFound ==
    ASSUME Owners, NEW o \in 1 .. made
    PROVE  Creator(o) \in Handles /\ owner[Creator(o)] /\ of[Creator(o)] = o
    BY DEF Owners, Creator

\* A header that is accepted is its creator's, as far as the geometry goes.
LEMMA AcceptedHeader ==
    ASSUME IInv, NEW o \in 1 .. made, HeaderAccepted(o)
    PROVE  stored[o] >= 4 /\ HeaderGeometry(o) = geometry[Creator(o)]
<1> DEFINE k == Creator(o)
<1>1. k \in Handles /\ owner[k] /\ of[k] = o
    BY CreatorFound DEF IInv
<1>2. geometry[k] \in [count : Nat, capacity : Nat]
    BY <1>1 DEF IInv, Types, Geometry
<1> HIDE DEF k
<1>3. HeaderGeometry(o) = [count |-> IF Stored(o, 3) THEN geometry[k].count ELSE 0,
                           capacity |-> IF Stored(o, 4) THEN geometry[k].capacity ELSE 0]
    BY DEF HeaderGeometry, k
<1>4. HeaderGeometry(o).count >= 2 /\ HeaderGeometry(o).capacity >= 64
    BY DEF HeaderAccepted, Sensible
<1>5. Stored(o, 3) /\ Stored(o, 4)
    BY <1>3, <1>4
<1>6. HeaderGeometry(o) = [count |-> geometry[k].count, capacity |-> geometry[k].capacity]
    BY <1>3, <1>5
<1> QED
    BY <1>2, <1>5, <1>6 DEF Stored, k

LEMMA Start == Init => IInv
<1> SUFFICES ASSUME Init PROVE IInv
    OBVIOUS
<1> USE LifecycleAssumption
<1>1. Types
    BY DEF Init, Types, Stages, Geometry, NoGeometry, Objects
<1>2. Owners /\ Contents /\ Learned /\ Named
    BY <1>1 DEF Init, Owners, Contents, Learned, Named
<1> QED
    BY <1>1, <1>2 DEF IInv

-----------------------------------------------------------------------------
(* Steps before an object is there.                                         *)

LEMMA CreateKeeps == ASSUME IInv, NEW h \in Handles, Create(h) PROVE IInv'
<1>1. PICK g \in Geometries : geometry' = [geometry EXCEPT ![h] = g]
    BY DEF Create
<1>2. g \in Geometry
    BY LifecycleAssumption DEF Geometry
<1>3. PICK b \in BOOLEAN : orAttach' = [orAttach EXCEPT ![h] = b]
    BY DEF Create
<1>4. Types'
    BY <1>1, <1>2, <1>3 DEF IInv, Types, Create, Goto, Stages, objectVars
<1>5. Owners' /\ Contents' /\ Learned' /\ Named'
    BY <1>1 DEF IInv, Types, Owners, Contents, Learned, Named, Create, Goto, objectVars
<1> QED
    BY <1>4, <1>5 DEF IInv

LEMMA OpenExclusiveKeeps == ASSUME IInv, NEW h \in Handles, OpenExclusive(h) PROVE IInv'
<1> USE LifecycleAssumption
<1>1. /\ pc[h] = "excl" /\ ~owner[h] /\ name = 0 /\ made < MaxObjects
      /\ made' = made + 1 /\ name' = made + 1
      /\ pc' = [pc EXCEPT ![h] = "truncate"]
      /\ of' = [of EXCEPT ![h] = made + 1] /\ owner' = [owner EXCEPT ![h] = TRUE]
      /\ UNCHANGED <<size, stored, geometry, orAttach, unlinkOnDrop>>
    BY DEF IInv, Owners, OpenExclusive, Goto
<1>2. Types'
    BY <1>1 DEF IInv, Types, Stages
<1>3. Owners'
    BY <1>1 DEF IInv, Types, Owners
<1>4. Contents'
    BY <1>1 DEF IInv, Types, Contents, Objects
<1>5. Learned'
    BY <1>1 DEF IInv, Types, Owners, Learned
<1>6. Named'
    BY <1>1 DEF IInv, Types, Owners, Named
<1> QED
    BY <1>2, <1>3, <1>4, <1>5, <1>6 DEF IInv

LEMMA AlreadyExistsKeeps == ASSUME IInv, NEW h \in Handles, AlreadyExists(h) PROVE IInv'
<1>1. PICK to \in {"attach", "failed"} : pc[h] = "excl" /\ pc' = [pc EXCEPT ![h] = to]
    BY DEF AlreadyExists, Goto
<1>2. UNCHANGED <<name, made, size, stored, of, geometry, orAttach, owner, unlinkOnDrop>>
    BY DEF AlreadyExists, objectVars, handleVars
<1>3. Types' /\ Owners' /\ Contents' /\ Learned' /\ Named'
    BY <1>1, <1>2 DEF IInv, Types, Stages, Owners, Contents, Learned, Named
<1> QED
    BY <1>3 DEF IInv

-----------------------------------------------------------------------------
(* Steps of a creator on its own object.                                    *)

LEMMA TruncateKeeps == ASSUME IInv, NEW h \in Handles, Truncate(h) PROVE IInv'
<1> DEFINE length == TotalBytes(geometry[h].count, geometry[h].capacity)
<1>1. length \in Nat
    BY SizeInNat DEF IInv, Types
<1>2. /\ pc[h] = "truncate" /\ owner[h] /\ of[h] \in Objects
      /\ pc' = [pc EXCEPT ![h] = "map"] /\ size' = [size EXCEPT ![of[h]] = length]
      /\ UNCHANGED <<name, made, stored, of, geometry, orAttach, owner, unlinkOnDrop>>
    BY LifecycleAssumption DEF IInv, Types, Owners, Objects, Truncate, Goto, handleVars
<1> HIDE DEF length
<1>3. Types' /\ Owners' /\ Learned' /\ Named'
    BY <1>1, <1>2 DEF IInv, Types, Stages, Owners, Learned, Named
<1>4. Contents'
    BY <1>2 DEF IInv, Types, Owners, Contents, length
<1> QED
    BY <1>3, <1>4 DEF IInv

LEMMA TruncateFailsKeeps == ASSUME IInv, NEW h \in Handles, TruncateFails(h) PROVE IInv'
<1>1. /\ pc[h] = "truncate" /\ pc' = [pc EXCEPT ![h] = "failed"] /\ name' = 0
      /\ UNCHANGED <<made, size, stored, of, geometry, orAttach, owner, unlinkOnDrop>>
    BY DEF TruncateFails, NameAfterFailedTruncate, Goto, objectVars, handleVars
<1>2. Types' /\ Owners' /\ Contents' /\ Learned'
    BY <1>1 DEF IInv, Types, Stages, Owners, Contents, Learned
<1>3. Named'
    BY <1>1, <1>2 DEF Owners, Named
<1> QED
    BY <1>2, <1>3 DEF IInv

LEMMA MapNewKeeps == ASSUME IInv, NEW h \in Handles, MapNew(h) \/ MapNewFails(h) PROVE IInv'
<1>1. \/ pc[h] = "map" /\ pc' = [pc EXCEPT ![h] = "format"]
      \/ pc[h] = "map" /\ pc' = [pc EXCEPT ![h] = "unmapped"]
    BY DEF MapNew, MapNewFails, Goto
<1>2. UNCHANGED <<name, made, size, stored, of, geometry, orAttach, owner>>
    BY DEF MapNew, MapNewFails, objectVars, handleVars
<1>3. unlinkOnDrop' \in [Handles -> BOOLEAN]
    BY DEF IInv, Types, MapNew, MapNewFails, handleVars
<1>4. Types' /\ Owners' /\ Contents' /\ Learned' /\ Named'
    BY <1>1, <1>2, <1>3 DEF IInv, Types, Stages, Owners, Contents, Learned, Named
<1> QED
    BY <1>4 DEF IInv

LEMMA FormatKeeps == ASSUME IInv, NEW h \in Handles, Format(h) PROVE IInv'
<1>1. /\ pc[h] = "format" /\ owner[h] /\ of[h] \in Objects /\ stored[of[h]] < 7
      /\ pc' = [pc EXCEPT ![h] = IF stored[of[h]] + 1 = 7 THEN "open" ELSE "format"]
      /\ stored' = [stored EXCEPT ![of[h]] = stored[of[h]] + 1]
      /\ UNCHANGED <<name, made, size, of, geometry, orAttach, owner, unlinkOnDrop>>
    BY LifecycleAssumption, SevenFields
    DEF IInv, Types, Owners, Contents, Objects, Format, LastField, Goto, handleVars
<1>2. Types'
    BY <1>1 DEF IInv, Types, Stages
<1>3. Owners' /\ Named'
    BY <1>1 DEF IInv, Types, Owners, Named
<1>4. Contents'
    <2>1. \A o \in Objects : o > made => o # of[h]
        BY <1>1 DEF IInv, Types, Objects
    <2>2. \A k \in Handles : owner[k] /\ k # h => stored'[of[k]] = stored[of[k]] /\ pc'[k] = pc[k]
        BY <1>1 DEF IInv, Types, Owners, Objects
    <2>3. stored'[of[h]] = stored[of[h]] + 1
        BY <1>1 DEF IInv, Types
    <2> QED
        BY <1>1, <2>1, <2>2, <2>3 DEF IInv, Types, Contents
<1>5. Learned'
    BY <1>1 DEF IInv, Types, Owners, Learned
<1> QED
    BY <1>2, <1>3, <1>4, <1>5 DEF IInv

-----------------------------------------------------------------------------
(* Attaching.                                                               *)

LEMMA AttachKeeps ==
    ASSUME IInv, NEW h \in Handles, Attach(h) \/ MapByName(h) PROVE IInv'
<1>1. \/ pc[h] = "none" /\ pc' = [pc EXCEPT ![h] = "attach"]
      \/ pc[h] = "fstat" /\ pc' = [pc EXCEPT ![h] = "validate"]
      \/ pc[h] = "fstat" /\ pc' = [pc EXCEPT ![h] = "failed"]
    BY DEF Attach, MapByName, Goto
<1>2. UNCHANGED <<name, made, size, stored, of, geometry, orAttach, owner, unlinkOnDrop>>
    BY DEF Attach, MapByName, objectVars, handleVars
<1>3. Types' /\ Owners' /\ Contents' /\ Learned' /\ Named'
    BY <1>1, <1>2 DEF IInv, Types, Stages, Owners, Contents, Learned, Named
<1> QED
    BY <1>3 DEF IInv

LEMMA OpenByNameKeeps == ASSUME IInv, NEW h \in Handles, OpenByName(h) PROVE IInv'
<1>1. /\ pc[h] = "attach" /\ ~owner[h]
      /\ pc' = [pc EXCEPT ![h] = IF name = 0 THEN "failed" ELSE "fstat"]
      /\ of' = [of EXCEPT ![h] = name]
      /\ UNCHANGED <<name, made, size, stored, geometry, orAttach, owner, unlinkOnDrop>>
    BY DEF IInv, Owners, OpenByName, Goto, objectVars
<1>2. Types' /\ Owners'
    BY <1>1 DEF IInv, Types, Stages, Owners
<1>3. Contents' /\ Learned' /\ Named'
    BY <1>1 DEF IInv, Types, Contents, Learned, Named
<1> QED
    BY <1>2, <1>3 DEF IInv

LEMMA ValidateKeeps == ASSUME IInv, NEW h \in Handles, Validate(h) PROVE IInv'
<1> DEFINE o == of[h]
<1>1. /\ pc[h] = "validate" /\ ~owner[h] /\ o \in 1 .. made
      /\ pc' = [pc EXCEPT ![h] = IF HeaderAccepted(o) THEN "open" ELSE "failed"]
      /\ geometry' = [geometry EXCEPT ![h] = HeaderGeometry(o)]
      /\ UNCHANGED <<name, made, size, stored, of, orAttach, owner, unlinkOnDrop>>
    BY DEF IInv, Types, Owners, Validate, Goto, objectVars
<1>2. HeaderGeometry(o) \in Geometry
    <2>1. geometry[Creator(o)] \in Geometry
        BY <1>1, CreatorFound DEF IInv, Types
    <2> QED
        BY <2>1 DEF HeaderGeometry, Geometry
<1>3. HeaderAccepted(o) => stored[o] >= 4 /\ HeaderGeometry(o) = geometry[Creator(o)]
    BY <1>1, AcceptedHeader
<1>4. \A k \in Handles : owner[k] /\ of[k] = o => k = Creator(o)
    BY <1>1, CreatorFound DEF IInv, Owners
<1> HIDE DEF o
<1>5. Types'
    BY <1>1, <1>2 DEF IInv, Types, Stages
<1>6. Owners' /\ Contents' /\ Named'
    BY <1>1 DEF IInv, Types, Owners, Contents, Named
<1>7. Learned'
    BY <1>1, <1>3, <1>4 DEF IInv, Types, Learned, o
<1> QED
    BY <1>5, <1>6, <1>7 DEF IInv

-----------------------------------------------------------------------------
(* The end.                                                                 *)

LEMMA ChooseEndKeeps == ASSUME IInv, NEW h \in Handles, ChooseEnd(h) PROVE IInv'
    BY DEF IInv, Types, Owners, Contents, Learned, Named, ChooseEnd, objectVars

LEMMA DropRingKeeps == ASSUME IInv, NEW h \in Handles, DropRing(h) PROVE IInv'
<1>1. PICK to \in {"kept", "closed"} :
         /\ pc[h] = "open" /\ pc' = [pc EXCEPT ![h] = to]
         /\ to = "closed" => ~owner[h] \/ unlinkOnDrop[h]
         /\ name' = IF unlinkOnDrop[h] THEN 0 ELSE name
    BY DEF IInv, Types, DropRing, Goto
<1>2. UNCHANGED <<made, size, stored, of, geometry, orAttach, owner, unlinkOnDrop>>
    BY DEF DropRing, objectVars, handleVars
<1>3. Types' /\ Owners' /\ Contents' /\ Learned'
    BY <1>1, <1>2 DEF IInv, Types, Stages, Owners, Contents, Learned
<1>4. Named'
    BY <1>1, <1>2, <1>3 DEF IInv, Types, Owners, Named
<1> QED
    BY <1>3, <1>4 DEF IInv

LEMMA UnlinkKeeps == ASSUME IInv, Unlink PROVE IInv'
<1>1. name' = 0 /\ UNCHANGED <<made, size, stored, pc, of, geometry, orAttach, owner, unlinkOnDrop>>
    BY DEF Unlink, objectVars, handleVars
<1>2. Types' /\ Owners' /\ Contents' /\ Learned'
    BY <1>1 DEF IInv, Types, Owners, Contents, Learned
<1>3. Named'
    BY <1>1, <1>2 DEF Owners, Named
<1> QED
    BY <1>2, <1>3 DEF IInv

LEMMA CrashKeeps == ASSUME IInv, NEW h \in Handles, Crash(h) PROVE IInv'
<1>1. pc[h] # "none" /\ pc' = [pc EXCEPT ![h] = "dead"]
    BY DEF Crash
<1>2. UNCHANGED <<name, made, size, stored, of, geometry, orAttach, owner, unlinkOnDrop>>
    BY DEF Crash, objectVars, handleVars
<1>3. \A k \in Handles : owner[k] /\ pc[k] = "excl" => FALSE
    BY DEF IInv, Owners
<1>4. Types' /\ Owners' /\ Contents' /\ Learned' /\ Named'
    BY <1>1, <1>2, <1>3 DEF IInv, Types, Stages, Owners, Contents, Learned, Named
<1> QED
    BY <1>4 DEF IInv

LEMMA Step == IInv /\ [Next]_vars => IInv'
<1> SUFFICES ASSUME IInv, [Next]_vars PROVE IInv'
    OBVIOUS
<1>1. CASE UNCHANGED vars
    BY <1>1 DEF IInv, Types, Owners, Contents, Learned, Named, vars
<1>2. CASE Unlink
    BY <1>2, UnlinkKeeps
<1>3. ASSUME NEW h \in Handles,
             \/ Create(h) \/ OpenExclusive(h) \/ AlreadyExists(h) \/ Truncate(h)
             \/ TruncateFails(h) \/ MapNew(h) \/ MapNewFails(h) \/ Format(h)
             \/ Attach(h) \/ OpenByName(h) \/ MapByName(h) \/ Validate(h)
             \/ ChooseEnd(h) \/ DropRing(h) \/ Crash(h)
      PROVE  IInv'
    BY <1>3, CreateKeeps, OpenExclusiveKeeps, AlreadyExistsKeeps, TruncateKeeps,
       TruncateFailsKeeps, MapNewKeeps, FormatKeeps, AttachKeeps, OpenByNameKeeps,
       ValidateKeeps, ChooseEndKeeps, DropRingKeeps, CrashKeeps
<1> QED
    BY <1>1, <1>2, <1>3 DEF Next

LEMMA Invariance == Spec => []IInv
    BY Start, Step, PTL DEF Spec

-----------------------------------------------------------------------------
\* The handles, the header and the name keep their types, and no object, however
\* often the name changes hands, has two creators (shm_open with O_EXCL).
THEOREM TypeCorrect == Spec => []TypeOK
<1>1. IInv => TypeOK
    <2> SUFFICES ASSUME IInv PROVE TypeOK
        OBVIOUS
    <2>1. \A h, k \in Handles : owner[h] /\ owner[k] /\ of[h] = of[k] => h = k
        BY DEF IInv, Owners
    <2> QED
        BY <2>1, SevenFields DEF IInv, Types, TypeOK, Geometry
<1> QED
    BY <1>1, Invariance, PTL

\* Ring::attach may look at a header that Ring::create is still writing: what it
\* accepts is its creator's geometry all the same, and the last payload computed
\* from it ends inside the mapping.
THEOREM GeometryLearned == Spec => []GeometryShared
<1>1. IInv => GeometryShared
    <2> SUFFICES ASSUME IInv, NEW h \in Handles, pc[h] = "open"
                 PROVE  /\ geometry[h] = geometry[Creator(of[h])]
                        /\ PayloadBase(geometry[h].count - 1, geometry[h].capacity)
                              + geometry[h].capacity <= size[of[h]]
        BY DEF GeometryShared
    <2> DEFINE k == Creator(of[h])
               g == geometry[h]
    <2>1. of[h] \in 1 .. made
        BY DEF IInv, Types, Owners
    <2>2. k \in Handles /\ owner[k] /\ of[k] = of[h]
        BY <2>1, CreatorFound DEF IInv
    <2>3. g = geometry[k] /\ stored[of[h]] >= 4
        BY <2>2 DEF IInv, Learned
    <2>4. /\ geometry[k] \in Geometries
          /\ size[of[k]] = TotalBytes(geometry[k].count, geometry[k].capacity)
        <3>1. stored[of[k]] > 0
            <4>1. of[h] \in Objects
                BY <2>1, LifecycleAssumption DEF IInv, Types, Objects
            <4>2. stored[of[h]] \in 0 .. 7
                BY <4>1 DEF IInv, Types
            <4> QED
                BY <2>2, <2>3, <4>2
        <3> QED
            BY <2>2, <3>1 DEF IInv, Contents
    <2>5. g.count \in Nat /\ g.capacity \in Nat /\ g.count >= 2
        BY <2>3, <2>4, LifecycleAssumption DEF Sensible
    <2>6. PayloadBase(g.count - 1, g.capacity) + g.capacity <= TotalBytes(g.count, g.capacity)
        <3>1. 0 \in 0 .. g.count - 1 /\ g.count - 1 \in 0 .. g.count - 1 /\ 0 < g.count - 1
            BY <2>5
        <3> QED
            BY <2>5, <3>1, SlotsDisjoint
    <2> QED
        BY <2>2, <2>3, <2>4, <2>6
<1> QED
    BY <1>1, Invariance, PTL

\* Whoever finds the name finds a formatted ring, or one whose creator is at work
\* or was stopped in the middle (Ring::create, Inner::drop).
THEOREM NameUsable == Spec => []NamedRingUsable
<1>1. IInv => NamedRingUsable
    <2> SUFFICES ASSUME IInv, name # 0
                 PROVE  \/ Stored(name, Len(Fields))
                        \/ pc[Creator(name)] \in {"truncate", "map", "format", "unmapped", "dead"}
        BY DEF NamedRingUsable
    <2> DEFINE k == Creator(name)
    <2>1. name \in 1 .. made
        BY DEF IInv, Types
    <2>2. k \in Handles /\ owner[k] /\ of[k] = name
        BY <2>1, CreatorFound DEF IInv
    <2>3. pc[k] \in {"open", "kept"} => stored[name] = 7
        BY <2>2 DEF IInv, Contents
    <2> QED
        BY <2>2, <2>3, SevenFields DEF IInv, Named, Stored
<1> QED
    BY <1>1, Invariance, PTL

\* shm::create takes its object back when ftruncate fails, and Inner::drop unlinks:
\* unless a creator dies, cannot map, or keeps its ring, nothing is left.
THEOREM NothingLeft == Spec => []NothingLeftBehind
<1>1. IInv => NothingLeftBehind
    <2> SUFFICES ASSUME IInv, name # 0,
                        \A h \in Handles : pc[h] \in {"none", "failed", "closed"}
                 PROVE  FALSE
        BY DEF NothingLeftBehind
    <2>1. name \in 1 .. made
        BY DEF IInv, Types
    <2>2. PICK k \in Handles : owner[k] /\ of[k] = name
        BY <2>1 DEF IInv, Owners
    <2> QED
        BY <2>2 DEF IInv, Named
<1> QED
    BY <1>1, Invariance, PTL
===============================================================================
