------------------------------ MODULE TensorRing ------------------------------
(***************************************************************************)
(* The shared-memory ring of rust/tenzorbus/src/ring.rs: one producer      *)
(* process, any number of consumer handles, and a fixed number of slots    *)
(* that every consumer reads in place.                                     *)
(*                                                                         *)
(* Granularity.  What the code does between lock_registry and              *)
(* unlock_registry is one step, and so are a commit's store, a delivery    *)
(* and a release; filling the payload, committing, taking and releasing    *)
(* interleave freely, and a process may die between any two steps.         *)
(*                                                                         *)
(* Sequence numbers wrap at SeqMod (2^64 in the code) and are compared     *)
(* with the code's wrapping comparison.  A pid may be inherited by a later *)
(* process, told apart by its start-time token.                            *)
(*                                                                         *)
(* Left out, because no step of the ring reads them back: timestamps and   *)
(* tensor metadata, heartbeats, the registry's generation and epoch, the   *)
(* mirror of last_sequence in the registry and the counters of stats().    *)
(***************************************************************************)
EXTENDS Integers, FiniteSets

CONSTANTS
    Procs,          \* pids
    NoProc,         \* pid 0
    Consumers,      \* Consumer handles, each opened by one process
    Writers,        \* publications in the making, each by one process
    DirectWriters,  \* those made through reserve and SlotWriter, not publish
    ConsumerHost,   \* the process of a consumer handle
    WriterHost,     \* the process of a writer
    SlotCount,      \* RingOptions.slot_count
    MaxConsumers,   \* entries of the consumer registry
    SeqMod,         \* sequences are counted modulo SeqMod
    FirstSeq,       \* the sequence counter of a new ring
    Mortal,         \* bound: the processes that may die
    MaxTokens,      \* bound: how many processes may get the same pid in turn
    MaxHandles,     \* bound: Producer handles of each process
    AbortAfterRegister,
                    \* may a SlotWriter be aborted after a consumer registered
                    \* during it?  The code allows it; FALSE: callers do not
    ClaimDuringDrop \* may a thread claim the producer role while another one of
                    \* its process is inside Producer::drop?  Likewise

ASSUME ProcsAssumption ==
    /\ NoProc \notin Procs
    /\ ConsumerHost \in [Consumers -> Procs]
    /\ WriterHost \in [Writers -> Procs]
    /\ DirectWriters \subseteq Writers
    /\ Mortal \subseteq Procs

ASSUME SizesAssumption ==
    /\ SlotCount \in Nat /\ SlotCount >= 2
    /\ MaxConsumers \in Nat \ {0}
    /\ SeqMod \in Nat /\ SeqMod >= 4 /\ SeqMod % 2 = 0
    /\ FirstSeq \in 0 .. SeqMod - 1
    /\ MaxTokens \in Nat \ {0}
    /\ MaxHandles \in [Procs -> Nat]

ASSUME UsageAssumption ==
    AbortAfterRegister \in BOOLEAN /\ ClaimDuringDrop \in BOOLEAN

VARIABLES
    state, seq, mask,      \* of each slot: state, sequence, readers mask
    payload,               \* the publication whose bytes the slot holds
    wpid, wtok,            \* the process that reserved the slot last
    active, rpid,          \* of each registry entry: R_STATE, R_PID
    registered,            \* G_CONSUMERS
    nextSeq,               \* G_NEXT_SEQ
    role,                  \* G_PRODUCER_PID
    alive, token,          \* of each pid: a process has it, its start time
    producers,             \* Producer handles of each process
    handing,               \* the processes in which a thread has counted off the
                           \* last handle and has yet to hand the role back
    cst, idx, last,        \* of each Consumer: status, index, last_sequence
    leases,                \* of each Consumer: the leases not yet released
    wst, wslot, wseq       \* of each writer: status, slot, sequence

slotVars == <<state, seq, mask, payload, wpid, wtok>>
registryVars == <<active, rpid, registered>>
procVars == <<alive, token>>
handleVars == <<producers, handing>>
consumerVars == <<cst, idx, last, leases>>
writerVars == <<wst, wslot, wseq>>
vars == <<state, seq, mask, payload, wpid, wtok, active, rpid, registered,
          nextSeq, role, alive, token, producers, handing, cst, idx, last,
          leases, wst, wslot, wseq>>

Slots == 1 .. SlotCount
Entries == 1 .. MaxConsumers
Seqs == 0 .. SeqMod - 1
Zeroed == -1        \* the bytes of a slot nothing was published in
Payloads == Seqs \cup {Zeroed}
Leases == [slot : Slots, seq : Seqs, data : Payloads]

-----------------------------------------------------------------------------
(* Sequence numbers and process identity.                                  *)

\* Mutant: the comparison forgets that the counter wraps.
SeqNewerNoWrap(a, b) == a > b
SeqNewer(a, b) == (a - b) % SeqMod \in 1 .. SeqMod \div 2 - 1

\* Mutant: the counter does not wrap.
SuccNoWrap(n) == n + 1
\* wrapping_add(1)
Succ(n) == (n + 1) % SeqMod

Comparable(a, b) == (a - b) % SeqMod # SeqMod \div 2

PidAlive(p) == p \in Procs /\ alive[p]
PidAliveWithToken(p, t) == PidAlive(p) /\ token[p] = t

-----------------------------------------------------------------------------
(* reap_dead, run by process p under the registry lock.                    *)

\* The registry entries and the half-written slots that p takes for abandoned.
\* Mutant: no consumer is ever taken for dead.
DeadEntriesNone(p) == {i \in Entries : FALSE}
DeadEntries(p) == {i \in Entries : active[i] /\ rpid[i] # p /\ ~PidAlive(rpid[i])}
\* Mutant: the writer's process is not looked at.
AbandonedSlotsOfOthers(p) == {s \in Slots : state[s] = "WRITING" /\ wpid[s] # p}
AbandonedSlots(p) ==
    {s \in Slots : /\ state[s] = "WRITING"
                   /\ wpid[s] # p
                   /\ ~PidAliveWithToken(wpid[s], wtok[s])}

ReapedState(p) == [s \in Slots |-> IF s \in AbandonedSlots(p) THEN "FREE" ELSE state[s]]
\* Mutant: the entry of a dead consumer is freed, its reader bits stay.
ReapedMaskKeepsBits(p) == [s \in Slots |-> IF s \in AbandonedSlots(p) THEN {} ELSE mask[s]]
ReapedMask(p) ==
    [s \in Slots |-> IF s \in AbandonedSlots(p) THEN {} ELSE mask[s] \ DeadEntries(p)]
ReapedActive(p) == [i \in Entries |-> active[i] /\ i \notin DeadEntries(p)]
\* saturating_sub
AtLeastZero(n) == IF n < 0 THEN 0 ELSE n
\* Mutant: the count is not kept up.
ReapedRegisteredUncounted(p) == registered
ReapedRegistered(p) == AtLeastZero(registered - Cardinality(DeadEntries(p)))

\* What every locked operation that finds nothing to do has still done.
ReapOnly(p) ==
    /\ state' = ReapedState(p)
    /\ mask' = ReapedMask(p)
    /\ active' = ReapedActive(p)
    /\ registered' = ReapedRegistered(p)
    /\ UNCHANGED <<seq, payload, wpid, wtok, rpid, nextSeq, role, procVars,
                   handleVars, consumerVars, writerVars>>

\* Ring::sweep
Sweep(p) == alive[p] /\ ReapOnly(p)

-----------------------------------------------------------------------------
(* The producer role.                                                      *)

\* Mutant: no check for a live holder.
ClaimProducerUnchecked(p) ==
    /\ alive[p] /\ producers[p] < MaxHandles[p]
    /\ ClaimDuringDrop \/ p \notin handing
    /\ role' = p
    /\ producers' = [producers EXCEPT ![p] = @ + 1]
    /\ UNCHANGED <<slotVars, registryVars, nextSeq, procVars, handing, consumerVars,
                   writerVars>>

\* Ring::producer
ClaimProducer(p) ==
    /\ alive[p] /\ producers[p] < MaxHandles[p]
    /\ ClaimDuringDrop \/ p \notin handing
    /\ role = p \/ ~PidAlive(role)
    /\ role' = p
    /\ producers' = [producers EXCEPT ![p] = @ + 1]
    /\ UNCHANGED <<slotVars, registryVars, nextSeq, procVars, handing, consumerVars,
                   writerVars>>

\* Producer::drop, its fetch_sub, with no lock held.  A SlotWriter borrows its
\* Producer, which outlives it.  Bound: one thread at a time is between the two accesses.
DropProducer(p) ==
    /\ alive[p] /\ producers[p] > 0
    /\ producers[p] > 1 \/ \A w \in Writers : WriterHost[w] = p => wst[w] = "idle"
    /\ producers[p] > 1 \/ p \notin handing
    /\ producers' = [producers EXCEPT ![p] = @ - 1]
    /\ handing' = IF producers[p] = 1 THEN handing \cup {p} ELSE handing
    /\ UNCHANGED <<slotVars, registryVars, nextSeq, role, procVars, consumerVars, writerVars>>

\* Producer::drop, its compare_exchange, after the last handle was counted off.
HandBack(p) ==
    /\ p \in handing
    /\ handing' = handing \ {p}
    /\ role' = IF role = p THEN NoProc ELSE role
    /\ UNCHANGED <<slotVars, registryVars, nextSeq, procVars, producers, consumerVars,
                   writerVars>>

-----------------------------------------------------------------------------
(* Publishing: reserve_header under the lock, then the copy or the         *)
(* caller's in-place writes, then one release store.                       *)

Reclaimable(p) == {s \in Slots : state[s] = "COMMITTED" /\ ReapedMask(p)[s] = {}}

\* Mutant: any committed slot will do, whether or not it is being read.
ChosenIgnoringReaders(p, s) ==
    \/ ReapedState(p)[s] = "FREE"
    \/ state[s] = "COMMITTED"
\* The first free slot, else the oldest committed one without readers.
Chosen(p, s) ==
    \/ /\ ReapedState(p)[s] = "FREE"
       /\ \A t \in Slots : t < s => ReapedState(p)[t] # "FREE"
    \/ /\ \A t \in Slots : ReapedState(p)[t] # "FREE"
       /\ s \in Reclaimable(p)
       /\ \A t \in Reclaimable(p) : ~SeqNewer(seq[s], seq[t])

\* Bound: the next sequence is not assigned, to slot s, once it is half the
\* counter's range ahead of a sequence it will be compared with (at 2^64 it never is).
InWindow(p, s) ==
    /\ \A t \in Slots \ {s} : ReapedState(p)[t] # "FREE" => Comparable(nextSeq, seq[t])
    /\ \A c \in Consumers : cst[c] = "open" => Comparable(nextSeq, last[c])

Registered(p) == {i \in Entries : ReapedActive(p)[i]}

Reserve(w) ==
    LET p == WriterHost[w] IN
    /\ alive[p] /\ producers[p] > 0 /\ wst[w] = "idle"
    /\ \E s \in Slots :
          /\ Chosen(p, s)
          /\ InWindow(p, s)
          /\ state' = [ReapedState(p) EXCEPT ![s] = "WRITING"]
          /\ seq' = [seq EXCEPT ![s] = nextSeq]
          /\ mask' = [ReapedMask(p) EXCEPT ![s] = Registered(p)]
          /\ wpid' = [wpid EXCEPT ![s] = p]
          /\ wtok' = [wtok EXCEPT ![s] = token[p]]
          /\ wslot' = [wslot EXCEPT ![w] = s]
    /\ nextSeq' = Succ(nextSeq)
    /\ active' = ReapedActive(p)
    /\ registered' = ReapedRegistered(p)
    /\ wst' = [wst EXCEPT ![w] = "writing"]
    /\ wseq' = [wseq EXCEPT ![w] = nextSeq]
    /\ UNCHANGED <<payload, rpid, role, procVars, handleVars, consumerVars>>

\* Backpressure: reserve_header found no slot.  DropNewest gives up here;
\* Block tries again.
ReserveFull(w) ==
    LET p == WriterHost[w] IN
    /\ alive[p] /\ producers[p] > 0 /\ wst[w] = "idle"
    /\ \A s \in Slots : ~Chosen(p, s)
    /\ ReapOnly(p)

\* The copy of publish, or the caller writing through SlotWriter::payload.
\* reserve's 0xA5 poisoning exists in debug builds only and is not modelled.
Fill(w) ==
    /\ wst[w] # "idle"
    /\ payload' = [payload EXCEPT ![wslot[w]] = wseq[w]]
    /\ wst' = [wst EXCEPT ![w] = "filled"]
    /\ UNCHANGED <<state, seq, mask, wpid, wtok, registryVars, nextSeq, role,
                   procVars, handleVars, consumerVars, wslot, wseq>>

WriterDone(w) ==
    /\ wst' = [wst EXCEPT ![w] = "idle"]
    /\ wslot' = [wslot EXCEPT ![w] = 0]
    /\ wseq' = [wseq EXCEPT ![w] = 0]

\* publish commits what it copied.  A SlotWriter may commit before its payload
\* is complete, and then shows what the slot's previous occupant left.
Commit(w) ==
    /\ wst[w] = "filled" \/ (w \in DirectWriters /\ wst[w] = "writing")
    /\ state' = [state EXCEPT ![wslot[w]] = "COMMITTED"]
    /\ WriterDone(w)
    /\ UNCHANGED <<seq, mask, payload, wpid, wtok, registryVars, nextSeq, role,
                   procVars, handleVars, consumerVars>>

\* Mutant: the sequence is used up.
SeqAfterAbortUsedUp(w) == nextSeq
\* The compare-and-swap that hands the sequence back.
SeqAfterAbort(w) == IF nextSeq = Succ(wseq[w]) THEN wseq[w] ELSE nextSeq

\* SlotWriter::release_slot, of abort and of dropping an uncommitted writer.
Abort(w) ==
    /\ w \in DirectWriters /\ wst[w] # "idle"
    /\ AbortAfterRegister \/ \A c \in Consumers : cst[c] = "open" => last[c] # wseq[w]
    /\ state' = [state EXCEPT ![wslot[w]] = "FREE"]
    /\ mask' = [mask EXCEPT ![wslot[w]] = {}]
    /\ nextSeq' = SeqAfterAbort(w)
    /\ WriterDone(w)
    /\ UNCHANGED <<seq, payload, wpid, wtok, registryVars, role, procVars,
                   handleVars, consumerVars>>

-----------------------------------------------------------------------------
(* Consumers.                                                              *)

\* Mutant: an off-by-one.
SubscribePointAtNext == nextSeq
\* A consumer subscribes to future publications only.
SubscribePoint == (nextSeq - 1) % SeqMod

\* Ring::consumer
Register(c) ==
    LET p == ConsumerHost[c] IN
    /\ alive[p] /\ cst[c] = "none"
    /\ \E i \in Entries :
          /\ ~ReapedActive(p)[i]
          /\ \A j \in Entries : j < i => ReapedActive(p)[j]
          /\ active' = [ReapedActive(p) EXCEPT ![i] = TRUE]
          /\ rpid' = [rpid EXCEPT ![i] = p]
          /\ idx' = [idx EXCEPT ![c] = i]
    /\ last' = [last EXCEPT ![c] = SubscribePoint]
    /\ cst' = [cst EXCEPT ![c] = "open"]
    /\ registered' = ReapedRegistered(p) + 1
    /\ state' = ReapedState(p)
    /\ mask' = ReapedMask(p)
    /\ UNCHANGED <<seq, payload, wpid, wtok, nextSeq, role, procVars, handleVars,
                   leases, writerVars>>

RegisterFull(c) ==
    LET p == ConsumerHost[c] IN
    /\ alive[p] /\ cst[c] = "none"
    /\ \A i \in Entries : ReapedActive(p)[i]
    /\ ReapOnly(p)

\* Mutant: the reader bit alone decides.
DeliverableByBit(c) == {s \in Slots : state[s] = "COMMITTED" /\ idx[c] \in mask[s]}
Deliverable(c) ==
    {s \in Slots : state[s] = "COMMITTED" /\ idx[c] \in mask[s] /\ SeqNewer(seq[s], last[c])}

\* Consumer::next: the oldest publication addressed to it and not yet delivered.
Take(c) ==
    /\ cst[c] = "open"
    /\ \E s \in Deliverable(c) :
          /\ \A t \in Deliverable(c) : ~SeqNewer(seq[s], seq[t])
          /\ leases' = [leases EXCEPT ![c] =
                          @ \cup {[slot |-> s, seq |-> seq[s], data |-> payload[s]]}]
          /\ last' = [last EXCEPT ![c] = seq[s]]
    /\ UNCHANGED <<slotVars, registryVars, nextSeq, role, procVars, handleVars,
                   cst, idx, writerVars>>

\* Consumer::release: a slot with another sequence is left alone (an error).
Release(c, l) ==
    /\ l \in leases[c]
    /\ leases' = [leases EXCEPT ![c] = @ \ {l}]
    /\ mask' = IF seq[l.slot] = l.seq THEN [mask EXCEPT ![l.slot] = @ \ {idx[c]}] ELSE mask
    /\ UNCHANGED <<state, seq, payload, wpid, wtok, registryVars, nextSeq, role,
                   procVars, handleVars, cst, idx, last, writerVars>>

\* Consumer::drop, which closes: the entry and every reader bit go at once.  A
\* Lease borrows its Consumer, so the last lease is gone by then.
Drop(c) ==
    /\ cst[c] = "open" /\ leases[c] = {}
    /\ mask' = [s \in Slots |-> mask[s] \ {idx[c]}]
    /\ active' = [active EXCEPT ![idx[c]] = FALSE]
    /\ registered' = AtLeastZero(registered - 1)
    /\ cst' = [cst EXCEPT ![c] = "none"]
    /\ idx' = [idx EXCEPT ![c] = 0]
    /\ last' = [last EXCEPT ![c] = 0]
    /\ UNCHANGED <<state, seq, payload, wpid, wtok, rpid, nextSeq, role, procVars,
                   handleVars, leases, writerVars>>

-----------------------------------------------------------------------------
(* Processes.                                                              *)

\* Process p is killed: its handles are gone, the shared memory stays.
Crash(p) ==
    /\ p \in Mortal /\ alive[p]
    /\ alive' = [alive EXCEPT ![p] = FALSE]
    /\ producers' = [producers EXCEPT ![p] = 0]
    /\ handing' = handing \ {p}
    /\ cst' = [c \in Consumers |-> IF ConsumerHost[c] = p THEN "none" ELSE cst[c]]
    /\ idx' = [c \in Consumers |-> IF ConsumerHost[c] = p THEN 0 ELSE idx[c]]
    /\ last' = [c \in Consumers |-> IF ConsumerHost[c] = p THEN 0 ELSE last[c]]
    /\ leases' = [c \in Consumers |-> IF ConsumerHost[c] = p THEN {} ELSE leases[c]]
    /\ wst' = [w \in Writers |-> IF WriterHost[w] = p THEN "idle" ELSE wst[w]]
    /\ wslot' = [w \in Writers |-> IF WriterHost[w] = p THEN 0 ELSE wslot[w]]
    /\ wseq' = [w \in Writers |-> IF WriterHost[w] = p THEN 0 ELSE wseq[w]]
    /\ UNCHANGED <<slotVars, registryVars, nextSeq, role, token>>

\* A later process gets the pid of a dead one.
Restart(p) ==
    /\ ~alive[p] /\ token[p] < MaxTokens
    /\ alive' = [alive EXCEPT ![p] = TRUE]
    /\ token' = [token EXCEPT ![p] = @ + 1]
    /\ UNCHANGED <<slotVars, registryVars, nextSeq, role, handleVars, consumerVars, writerVars>>

-----------------------------------------------------------------------------
Init ==
    /\ state = [s \in Slots |-> "FREE"]
    /\ seq = [s \in Slots |-> 0]
    /\ mask = [s \in Slots |-> {}]
    /\ payload = [s \in Slots |-> Zeroed]
    /\ wpid = [s \in Slots |-> NoProc]
    /\ wtok = [s \in Slots |-> 0]
    /\ active = [i \in Entries |-> FALSE]
    /\ rpid = [i \in Entries |-> NoProc]
    /\ registered = 0
    /\ nextSeq = FirstSeq
    /\ role = NoProc
    /\ alive = [p \in Procs |-> TRUE]
    /\ token = [p \in Procs |-> 1]
    /\ producers = [p \in Procs |-> 0]
    /\ handing = {}
    /\ cst = [c \in Consumers |-> "none"]
    /\ idx = [c \in Consumers |-> 0]
    /\ last = [c \in Consumers |-> 0]
    /\ leases = [c \in Consumers |-> {}]
    /\ wst = [w \in Writers |-> "idle"]
    /\ wslot = [w \in Writers |-> 0]
    /\ wseq = [w \in Writers |-> 0]

Next ==
    \/ \E p \in Procs : Sweep(p)
    \/ \E p \in Procs : ClaimProducer(p)
    \/ \E p \in Procs : DropProducer(p)
    \/ \E p \in Procs : HandBack(p)
    \/ \E p \in Procs : Crash(p)
    \/ \E p \in Procs : Restart(p)
    \/ \E w \in Writers : Reserve(w)
    \/ \E w \in Writers : ReserveFull(w)
    \/ \E w \in Writers : Fill(w)
    \/ \E w \in Writers : Commit(w)
    \/ \E w \in Writers : Abort(w)
    \/ \E c \in Consumers : Register(c)
    \/ \E c \in Consumers : RegisterFull(c)
    \/ \E c \in Consumers : Take(c)
    \/ \E c \in Consumers : \E l \in leases[c] : Release(c, l)
    \/ \E c \in Consumers : Drop(c)

Spec == Init /\ [][Next]_vars

-----------------------------------------------------------------------------
(* Fairness.  A producer that holds the role keeps publishing (Block polls   *)
(* at least every 5 ms), a writer that has a slot finishes, a consumer keeps *)
(* calling next and drops every lease. Nothing is assumed of registration,   *)
(* closing, sweeps by third parties or deaths.                               *)

Fairness ==
    /\ \A w \in Writers : WF_vars(Reserve(w)) /\ WF_vars(Fill(w) \/ Commit(w) \/ Abort(w))
    /\ \A c \in Consumers :
          /\ WF_vars(Take(c))
          /\ \A s \in Slots : WF_vars(\E l \in leases[c] : l.slot = s /\ Release(c, l))

FairSpec == Spec /\ Fairness

-----------------------------------------------------------------------------
(* Properties.                                                             *)

\* Every variable has its type (the fields of the shared header and of the
\* handles).
TypeOK ==
    /\ state \in [Slots -> {"FREE", "WRITING", "COMMITTED"}]
    /\ seq \in [Slots -> Seqs]
    /\ mask \in [Slots -> SUBSET Entries]
    /\ payload \in [Slots -> Payloads]
    /\ wpid \in [Slots -> Procs \cup {NoProc}]
    /\ wtok \in [Slots -> 0 .. MaxTokens]
    /\ active \in [Entries -> BOOLEAN]
    /\ rpid \in [Entries -> Procs \cup {NoProc}]
    /\ registered \in Nat
    /\ nextSeq \in Seqs
    /\ role \in Procs \cup {NoProc}
    /\ alive \in [Procs -> BOOLEAN]
    /\ token \in [Procs -> 1 .. MaxTokens]
    /\ producers \in [Procs -> Nat]
    /\ handing \in SUBSET {p \in Procs : alive[p]}
    /\ \A p \in Procs : producers[p] \in 0 .. MaxHandles[p]
    /\ cst \in [Consumers -> {"none", "open"}]
    /\ idx \in [Consumers -> 0 .. MaxConsumers]
    /\ last \in [Consumers -> Seqs]
    /\ leases \in [Consumers -> SUBSET Leases]
    /\ wst \in [Writers -> {"idle", "writing", "filled"}]
    /\ wslot \in [Writers -> 0 .. SlotCount]
    /\ wseq \in [Writers -> Seqs]

\* Ownership contract 6, "The producer never overwrites a slot with active
\* readers": while a lease is out, its slot stays committed, keeps its sequence
\* and its bytes, and still counts the consumer among its readers, whatever
\* producers, sweeps, other consumers and deaths do.
ActiveReaderNeverOverwritten ==
    \A c \in Consumers : \A l \in leases[c] :
        /\ state[l.slot] = "COMMITTED"
        /\ seq[l.slot] = l.seq
        /\ payload[l.slot] = l.data
        /\ idx[c] \in mask[l.slot]

\* Contract 7, at most once: the reader bit stays set while the lease is out, so
\* only last_sequence keeps next from delivering the same publication again.
DeliveredOnce ==
    \A c \in Consumers : \A s \in Deliverable(c) : \A l \in leases[c] : l.slot # s

\* A writer has its slot for itself, in WRITING under the sequence it was given,
\* until it commits or aborts: no sweep takes it, no other writer gets it.
WritersExclusive ==
    \A w \in Writers : wst[w] # "idle" =>
        /\ state[wslot[w]] = "WRITING"
        /\ seq[wslot[w]] = wseq[w]
        /\ \A v \in Writers \ {w} : wst[v] # "idle" => wslot[v] # wslot[w]

\* Ring::producer, "Fails if a live producer already holds it": no two processes
\* have Producer handles at once, across handovers, deaths and reused pids.  True
\* unless ClaimDuringDrop: a thread that claims between the two accesses of
\* another one's drop then loses the role it was granted, and keeps its handle.
SingleProducer ==
    \A p, q \in Procs : producers[p] > 0 /\ producers[q] > 0 => p = q

\* No reader bit is left without a registry entry behind it, which alone can
\* clear it: an orphan bit would pin its slot for ever, and would hand the slot
\* to the next consumer that gets the index.
NoOrphanBits ==
    \A s \in Slots : \A i \in mask[s] : active[i]

\* G_CONSUMERS counts the active entries, and every open consumer has an entry
\* of its own that is registered to its process.
RegistryConsistent ==
    /\ registered = Cardinality({i \in Entries : active[i]})
    /\ \A c \in Consumers : cst[c] = "open" =>
          /\ active[idx[c]] /\ rpid[idx[c]] = ConsumerHost[c]
          /\ \A d \in Consumers \ {c} : cst[d] = "open" => idx[d] # idx[c]

\* Contract 4, every registered consumer obtains a view: a committed slot that
\* counts an open consumer among its readers is leased to it, or will be
\* delivered.  Otherwise nobody clears the bit and the slot is lost.
NoneStranded ==
    \A c \in Consumers : cst[c] = "open" =>
        \A s \in Slots : (state[s] = "COMMITTED" /\ idx[c] \in mask[s]) =>
            SeqNewer(seq[s], last[c]) \/ \E l \in leases[c] : l.slot = s

\* "Delivered sequences are contiguous under both policies", and an abort
\* returns the sequence: a consumer receives the successor of what it received
\* before (or of the last sequence before it registered).
DeliveryContiguous ==
    [][\A c \in Consumers :
          (cst[c] = "open" /\ cst'[c] = "open" /\ last'[c] # last[c]) =>
              last'[c] = (last[c] + 1) % SeqMod]_vars

\* Block backpressure makes progress: a producer that wants a slot gets one,
\* although consumers lag, leave, or die holding leases and registrations.
ProducerUnblocked ==
    \A w \in Writers :
        (producers[WriterHost[w]] > 0 /\ wst[w] = "idle")
            ~> (producers[WriterHost[w]] = 0 \/ wst[w] # "idle")

\* Every publication addressed to a consumer is delivered and released, unless
\* the consumer leaves first.
AddressedDelivered ==
    \A c \in Consumers : \A s \in Slots :
        (cst[c] = "open" /\ state[s] = "COMMITTED" /\ idx[c] \in mask[s])
            ~> (cst[c] # "open" \/ idx[c] \notin mask[s])
===============================================================================
