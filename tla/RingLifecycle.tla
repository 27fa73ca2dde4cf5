----------------------------- MODULE RingLifecycle -----------------------------
(***************************************************************************)
(* How a ring comes to be and goes: Ring::create, attach, open_or_create   *)
(* and the end of a Ring (rust/tenzorbus/src/ring.rs), over the shared     *)
(* memory calls of shm.rs, one system call and one header store at a time. *)
(* There is one name; each object it has ever referred to lives on for     *)
(* those who have it open.  System calls may fail, and processes may die,  *)
(* at any of them.                                                         *)
(*                                                                         *)
(* A header field has its value once it is stored, and the object is new   *)
(* and zero before.  Loads that follow each other are one step, the last:  *)
(* fields are stored once, so an earlier load is at best not stored yet.   *)
(* Left out: what is done with an open ring, and names that differ.        *)
(***************************************************************************)
EXTENDS Layout, Sequences

CONSTANTS
    Handles,        \* calls that open a ring, each in a process of its own
    Geometries,     \* the slot counts and capacities asked for
    MaxObjects,     \* bound: objects ever created
    Mortal          \* bound: the handles whose process may be killed

ASSUME LifecycleAssumption ==
    /\ MaxObjects \in Nat
    /\ \A g \in Geometries : g \in [count : Nat, capacity : Nat] /\ Sensible(g)
    /\ Mortal \subseteq Handles

VARIABLES
    name,           \* the object the name refers to, or 0
    made,           \* objects created so far
    size, stored,   \* of each object: its length, how many header fields are stored
    pc,             \* of each handle: where its call is, or how it ended
    of,             \* of each handle: the object it has open
    geometry,       \* of each handle: the geometry asked for or learned
    orAttach,       \* of each handle: the call is open_or_create
    owner, unlinkOnDrop     \* of each handle: Inner's fields

vars == <<name, made, size, stored, pc, of, geometry, orAttach, owner, unlinkOnDrop>>
objectVars == <<made, size, stored>>
handleVars == <<of, geometry, orAttach, owner, unlinkOnDrop>>

Objects == 1 .. MaxObjects
NoGeometry == [count |-> 0, capacity |-> 0]

\* format's stores, in this order.
Fields == <<"magic", "version", "count", "capacity", "next", "consumers", "slots">>
Stored(o, n) == stored[o] >= n

\* The creator's wish, which its stores spell out.
Creator(o) == CHOOSE h \in Handles : owner[h] /\ of[h] = o
HeaderGeometry(o) ==
    [count |-> IF Stored(o, 3) THEN geometry[Creator(o)].count ELSE 0,
     capacity |-> IF Stored(o, 4) THEN geometry[Creator(o)].capacity ELSE 0]

Goto(h, from, to) == pc[h] = from /\ pc' = [pc EXCEPT ![h] = to]

-----------------------------------------------------------------------------
(* Creating.                                                               *)

\* Ring::create and open_or_create; with force, the name is unlinked first.
Create(h) ==
    /\ Goto(h, "none", "excl")
    /\ \E g \in Geometries : geometry' = [geometry EXCEPT ![h] = g]
    /\ \E b \in BOOLEAN : orAttach' = [orAttach EXCEPT ![h] = b]
    /\ name' \in {name, 0}
    /\ UNCHANGED <<objectVars, of, owner, unlinkOnDrop>>

\* shm_open with O_EXCL
OpenExclusive(h) ==
    /\ name = 0 /\ made < MaxObjects
    /\ Goto(h, "excl", "truncate")
    /\ made' = made + 1 /\ name' = made + 1
    /\ of' = [of EXCEPT ![h] = made + 1]
    /\ owner' = [owner EXCEPT ![h] = TRUE]
    /\ UNCHANGED <<size, stored, geometry, orAttach, unlinkOnDrop>>

AlreadyExists(h) ==
    /\ name # 0
    /\ Goto(h, "excl", IF orAttach[h] THEN "attach" ELSE "failed")
    /\ UNCHANGED <<name, objectVars, handleVars>>

Truncate(h) ==
    /\ Goto(h, "truncate", "map")
    /\ size' = [size EXCEPT ![of[h]] = TotalBytes(geometry[h].count, geometry[h].capacity)]
    /\ UNCHANGED <<name, made, stored, handleVars>>

\* Mutant: the object is left as it is.
NameAfterFailedTruncateKept == name
NameAfterFailedTruncate == 0
TruncateFails(h) ==
    /\ Goto(h, "truncate", "failed")
    /\ name' = NameAfterFailedTruncate
    /\ UNCHANGED <<objectVars, handleVars>>

\* The creator's handle unlinks on drop unless it is told to keep the ring.
MapNew(h) ==
    /\ Goto(h, "map", "format")
    /\ unlinkOnDrop' = [unlinkOnDrop EXCEPT ![h] = TRUE]
    /\ UNCHANGED <<name, objectVars, of, geometry, orAttach, owner>>
\* The object stays behind.
MapNewFails(h) == Goto(h, "map", "unmapped") /\ UNCHANGED <<name, objectVars, handleVars>>

\* Mutant: the stores do not end.
LastFieldNever(h) == FALSE
\* Mutant: the ring is handed out before its counters and slots are set.
LastFieldEarly(h) == stored[of[h]] + 1 >= 4
LastField(h) == stored[of[h]] + 1 = Len(Fields)
Format(h) ==
    /\ Goto(h, "format", IF LastField(h) THEN "open" ELSE "format")
    /\ stored' = [stored EXCEPT ![of[h]] = @ + 1]
    /\ UNCHANGED <<name, made, size, handleVars>>

-----------------------------------------------------------------------------
(* Attaching.                                                              *)

Attach(h) ==
    /\ Goto(h, "none", "attach")
    /\ UNCHANGED <<name, objectVars, handleVars>>

OpenByName(h) ==
    /\ Goto(h, "attach", IF name = 0 THEN "failed" ELSE "fstat")
    /\ of' = [of EXCEPT ![h] = name]
    /\ UNCHANGED <<name, objectVars, geometry, orAttach, owner, unlinkOnDrop>>

\* An object of length zero is refused; mmap may fail.
MapByName(h) ==
    /\ \/ Goto(h, "fstat", "validate") /\ size[of[h]] > 0
       \/ Goto(h, "fstat", "failed")
    /\ UNCHANGED <<name, objectVars, handleVars>>

\* Mutant: the magic vouches for the rest of the header.
HeaderAcceptedByMagic(o) == Stored(o, 1)
\* Magic, version, a geometry that makes sense and that the mapping holds.
HeaderAccepted(o) ==
    /\ Stored(o, 1) /\ Stored(o, 2)
    /\ Sensible(HeaderGeometry(o))
    /\ TotalBytes(HeaderGeometry(o).count, HeaderGeometry(o).capacity) <= size[o]

Validate(h) ==
    /\ Goto(h, "validate", IF HeaderAccepted(of[h]) THEN "open" ELSE "failed")
    /\ geometry' = [geometry EXCEPT ![h] = HeaderGeometry(of[h])]
    /\ UNCHANGED <<name, objectVars, of, orAttach, owner, unlinkOnDrop>>

-----------------------------------------------------------------------------
(* The end.                                                                *)

\* keep_on_drop and unlink_on_drop, where they change anything
ChooseEnd(h) ==
    /\ pc[h] = "open"
    /\ unlinkOnDrop' = [unlinkOnDrop EXCEPT ![h] = ~@]
    /\ UNCHANGED <<name, objectVars, pc, of, geometry, orAttach, owner>>

\* The last clone of a Ring goes: the name is removed, whatever it refers to.
DropRing(h) ==
    /\ Goto(h, "open", IF owner[h] /\ ~unlinkOnDrop[h] THEN "kept" ELSE "closed")
    /\ name' = IF unlinkOnDrop[h] THEN 0 ELSE name
    /\ UNCHANGED <<objectVars, handleVars>>

\* shm::unlink, on its own
Unlink == name # 0 /\ name' = 0 /\ UNCHANGED <<objectVars, pc, handleVars>>

Crash(h) ==
    /\ h \in Mortal /\ pc[h] \notin {"none", "failed", "unmapped", "closed", "kept", "dead"}
    /\ pc' = [pc EXCEPT ![h] = "dead"]
    /\ UNCHANGED <<name, objectVars, handleVars>>

-----------------------------------------------------------------------------
Init ==
    /\ name = 0 /\ made = 0
    /\ size = [o \in Objects |-> 0] /\ stored = [o \in Objects |-> 0]
    /\ pc = [h \in Handles |-> "none"]
    /\ of = [h \in Handles |-> 0]
    /\ geometry = [h \in Handles |-> NoGeometry]
    /\ orAttach = [h \in Handles |-> FALSE]
    /\ owner = [h \in Handles |-> FALSE]
    /\ unlinkOnDrop = [h \in Handles |-> FALSE]

Next ==
    \/ \E h \in Handles :
          \/ Create(h) \/ OpenExclusive(h) \/ AlreadyExists(h) \/ Truncate(h) \/ TruncateFails(h)
          \/ MapNew(h) \/ MapNewFails(h) \/ Format(h)
          \/ Attach(h) \/ OpenByName(h) \/ MapByName(h) \/ Validate(h)
          \/ ChooseEnd(h) \/ DropRing(h) \/ Crash(h)
    \/ Unlink

Spec == Init /\ [][Next]_vars

-----------------------------------------------------------------------------
(* Properties.                                                             *)

\* Every variable has its type, and an object has one creator.
TypeOK ==
    /\ name \in 0 .. made /\ made \in 0 .. MaxObjects
    /\ \A o \in Objects : size[o] \in Nat /\ stored[o] \in 0 .. Len(Fields)
    /\ \A h \in Handles :
          /\ of[h] \in 0 .. made /\ geometry[h] \in [count : Nat, capacity : Nat]
          /\ orAttach[h] \in BOOLEAN /\ owner[h] \in BOOLEAN /\ unlinkOnDrop[h] \in BOOLEAN
          /\ \A k \in Handles \ {h} : owner[h] /\ owner[k] => of[h] # of[k]

\* "Validate then learn the geometry from the header itself": whoever has a ring open
\* computes with its creator's geometry, and every byte it computes lies inside the
\* mapping, although it may have looked at the header before it was complete.
GeometryShared ==
    \A h \in Handles : pc[h] = "open" =>
        /\ geometry[h] = geometry[Creator(of[h])]
        /\ PayloadBase(geometry[h].count - 1, geometry[h].capacity) + geometry[h].capacity
              <= size[of[h]]

\* Nobody is told to attach to a ruin: the object the name refers to is formatted, or
\* its creator is about to, or was stopped by death or a failed mmap.
NamedRingUsable ==
    name # 0 =>
        Stored(name, Len(Fields)) \/ pc[Creator(name)] \in {"truncate", "map", "format", "unmapped", "dead"}

\* Removal of the shared object is the default: when every call has failed or ended in
\* good order and no creator chose to keep its ring, no object is left behind.
NothingLeftBehind ==
    (\A h \in Handles : pc[h] \in {"none", "failed", "closed"}) => name = 0
===============================================================================
