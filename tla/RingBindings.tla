----------------------------- MODULE RingBindings -----------------------------
(***************************************************************************)
(* The Python bindings of the ring, rust/tenzorbus-py/src/lib.rs.  Where    *)
(* the Rust API has borrows, Python has arrays: a NumPy or PyTorch array   *)
(* over a slot keeps the Lease or the SlotWriter it came from alive and    *)
(* counts as an export, and while there is one, release, commit and abort  *)
(* refuse.  Nothing keeps a Consumer from being closed before its leases   *)
(* are; those live on without a registry entry, and are stale.             *)
(*                                                                         *)
(* A lease is released by a look at the slot's sequence and an atomic      *)
(* clearing of the reader's bit, without the lock.  The bit of an open     *)
(* Consumer keeps the slot as it is between the two, so that its release   *)
(* is one step; a stale lease has no bit, and its release is two.          *)
(*                                                                         *)
(* Exports are counted in the code; here a lease or a writer has some or   *)
(* has none.  Calls that raise and change nothing are not steps.  Callers  *)
(* do not write to a leased array, and do not call next on a closed        *)
(* Consumer: the comments forbid the first, nothing the second.            *)
(***************************************************************************)
EXTENDS TensorRing

CONSTANT PyWriters      \* the writers that are Python's

ASSUME PyWritersAssumption == PyWriters \subseteq DirectWriters

VARIABLES
    views,      \* of each Consumer: the leases that arrays refer to
    stale,      \* of each Consumer: the leases it had when it was closed, each
                \* with the index it then had
    late,       \* those of them whose release found the publication in place
                \* and has yet to clear the bit
    array       \* of each Python writer: the slot that arrays refer to, or 0

pyVars == <<views, stale, late, array>>
ringVars == vars

StaleLeases == [lease : Leases, idx : Entries]

PyInit ==
    /\ views = [c \in Consumers |-> {}]
    /\ stale = [c \in Consumers |-> {}]
    /\ late = [c \in Consumers |-> {}]
    /\ array = [w \in PyWriters |-> 0]

-----------------------------------------------------------------------------
(* Consumer and Lease.                                                     *)

\* What __getbuffer__ counts an export of: unreleased leases, also stale ones.
Unreleased(c) == leases[c] \cup {d.lease : d \in stale[c]}

\* Lease.numpy and Lease.torch
View(c) ==
    /\ \E l \in Unreleased(c) \ views[c] : views' = [views EXCEPT ![c] = @ \cup {l}]
    /\ UNCHANGED <<ringVars, stale, late, array>>

\* __releasebuffer__ of the last array.
DropViews(c) ==
    /\ \E l \in views[c] : views' = [views EXCEPT ![c] = @ \ {l}]
    /\ UNCHANGED <<ringVars, stale, late, array>>

\* Mutant: release does not ask for exports.
MayReleaseAnyway(c, l) == TRUE
MayRelease(c, l) == l \notin views[c]

\* Lease.release, __exit__, or the Lease object going away.
PyRelease(c) ==
    /\ \E l \in leases[c] : MayRelease(c, l) /\ Release(c, l)
    /\ UNCHANGED pyVars

\* Consumer.close and __exit__: Rust's close, with no look at the leases.
PyClose(c) ==
    /\ cst[c] = "open"
    /\ stale' = [stale EXCEPT ![c] = @ \cup {[lease |-> l, idx |-> idx[c]] : l \in leases[c]}]
    /\ leases' = [leases EXCEPT ![c] = {}]
    /\ mask' = [s \in Slots |-> mask[s] \ {idx[c]}]
    /\ active' = [active EXCEPT ![idx[c]] = FALSE]
    /\ registered' = AtLeastZero(registered - 1)
    /\ cst' = [cst EXCEPT ![c] = "none"]
    /\ idx' = [idx EXCEPT ![c] = 0]
    /\ last' = [last EXCEPT ![c] = 0]
    /\ UNCHANGED <<state, seq, payload, wpid, wtok, rpid, nextSeq, role, procVars,
                   handleVars, writerVars, views, late, array>>

\* Mutant: the sequence is not compared.
SameOccupantUnchecked(d) == TRUE
SameOccupant(d) == seq[d.lease.slot] = d.lease.seq

\* The release of a stale lease raises in every case; first it looks whether its
\* publication is still in the slot.
StartReleaseStale(c) ==
    /\ \E d \in stale[c] :
          /\ MayRelease(c, d.lease)
          /\ stale' = [stale EXCEPT ![c] = @ \ {d}]
          /\ late' = IF SameOccupant(d) THEN [late EXCEPT ![c] = @ \cup {d}] ELSE late
    /\ UNCHANGED <<ringVars, views, array>>

\* Then it clears the bit of the index the lease was taken with, in whatever
\* occupies the slot by now.
FinishReleaseStale(c) ==
    /\ \E d \in late[c] :
          /\ late' = [late EXCEPT ![c] = @ \ {d}]
          /\ mask' = [mask EXCEPT ![d.lease.slot] = @ \ {d.idx}]
    /\ UNCHANGED <<state, seq, payload, wpid, wtok, registryVars, nextSeq, role, procVars,
                   handleVars, consumerVars, writerVars, views, stale, array>>

-----------------------------------------------------------------------------
(* Producer and SlotWriter.                                                *)

\* Producer.publish and Producer.reserve, until they have a slot.
PyReserve(w) == (Reserve(w) \/ ReserveFull(w)) /\ UNCHANGED pyVars

\* The copy that publish makes.
CopyIn(w) == array[w] = 0 /\ Fill(w) /\ UNCHANGED pyVars

\* SlotWriter.numpy: a writable array over the slot.
Expose(w) ==
    /\ wst[w] # "idle" /\ array[w] = 0
    /\ array' = [array EXCEPT ![w] = wslot[w]]
    /\ UNCHANGED <<ringVars, views, stale, late>>

\* The caller writes to an array, whatever has become of the writer.
WriteArray(w) ==
    /\ array[w] # 0
    /\ payload' = [payload EXCEPT ![array[w]] = wseq[w]]
    /\ wst' = [wst EXCEPT ![w] = IF @ = "idle" THEN @ ELSE "filled"]
    /\ UNCHANGED <<state, seq, mask, wpid, wtok, registryVars, nextSeq, role, procVars,
                   handleVars, consumerVars, wslot, wseq, pyVars>>

DropArray(w) ==
    /\ array[w] # 0 /\ array' = [array EXCEPT ![w] = 0]
    /\ UNCHANGED <<ringVars, views, stale, late>>

\* Mutant: commit does not ask for exports.
MayFinishAnyway(w) == TRUE
MayFinish(w) == array[w] = 0

\* commit and abort, and __exit__, which chooses between them; the SlotWriter
\* going away aborts, and no array can be left then.
Finish(w) == MayFinish(w) /\ (Commit(w) \/ Abort(w)) /\ UNCHANGED pyVars

-----------------------------------------------------------------------------
\* A Python process is killed, with its arrays.
PyCrash(p) ==
    /\ Crash(p)
    /\ views' = [c \in Consumers |-> IF ConsumerHost[c] = p THEN {} ELSE views[c]]
    /\ stale' = [c \in Consumers |-> IF ConsumerHost[c] = p THEN {} ELSE stale[c]]
    /\ late' = [c \in Consumers |-> IF ConsumerHost[c] = p THEN {} ELSE late[c]]
    /\ array' = [w \in PyWriters |-> IF WriterHost[w] = p THEN 0 ELSE array[w]]

\* One of p's threads is between the two accesses of a stale lease's release.
InRelease(p) == \E c \in Consumers : ConsumerHost[c] = p /\ late[c] # {}

\* What needs the GIL.  Ring.producer, consumer and sweep, and the end of a Producer
\* add nothing to the calls they wrap.
CallStep(p) ==
    \/ (Sweep(p) \/ ClaimProducer(p) \/ DropProducer(p) \/ HandBack(p)) /\ UNCHANGED pyVars
    \/ \E c \in Consumers :
          /\ ConsumerHost[c] = p
          /\ \/ (Register(c) \/ RegisterFull(c)) /\ UNCHANGED pyVars
             \/ View(c) \/ DropViews(c) \/ PyRelease(c) \/ PyClose(c) \/ StartReleaseStale(c)
    \/ \E w \in PyWriters :
          /\ WriterHost[w] = p
          /\ PyReserve(w) \/ CopyIn(w) \/ Expose(w) \/ DropArray(w) \/ Finish(w)

\* What an interpreter in process p does.  A thread keeps the GIL through a release;
\* others are at most inside Consumer.next, which lets go of it, or in a kernel that
\* writes to an array.
PyStep(p) ==
    \/ ~InRelease(p) /\ CallStep(p)
    \/ \E c \in Consumers :
          /\ ConsumerHost[c] = p
          /\ FinishReleaseStale(c) \/ (Take(c) /\ UNCHANGED pyVars)
    \/ \E w \in PyWriters : WriterHost[w] = p /\ WriteArray(w)

-----------------------------------------------------------------------------
(* Properties.                                                             *)

\* "The v0.1 lifetime bug - a NumPy view outliving its lease and then aliasing a
\* recycled slot": as long as the Consumer is open, the bytes under every array
\* taken from one of its leases are those that were delivered.
ViewsUndisturbed ==
    \A c \in Consumers : \A l \in views[c] \ {d.lease : d \in stale[c]} :
        state[l.slot] = "COMMITTED" /\ seq[l.slot] = l.seq /\ payload[l.slot] = l.data

\* "... or the producer could mutate a published slot": once committed, the bytes of
\* a publication do not change, whoever still has a writable array from before.
PublishedFrozen ==
    [][\A s \in Slots : state[s] = "COMMITTED" /\ state'[s] = "COMMITTED" =>
          payload'[s] = payload[s]]_<<state, payload>>

\* A publication is kept for an open consumer until this consumer itself lets go:
\* no closing or dying of others and no sweep clears its bit, although indices are
\* given away again; nor does the release of a stale lease, unless its slot is given
\* a new publication between its look at the sequence and its clearing of the bit.
OnlyReadersLetGo ==
    [][\A c \in Consumers : \A s \in Slots :
          (/\ cst[c] = "open" /\ cst'[c] = "open"
           /\ state[s] = "COMMITTED" /\ idx[c] \in mask[s] /\ idx[c] \notin mask'[s])
              => \E l \in leases[c] \ leases'[c] : l.slot = s]_<<cst, state, mask, leases>>
===============================================================================
