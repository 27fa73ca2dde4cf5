------------------------------ MODULE RingSteps ------------------------------
(***************************************************************************)
(* The ring of rust/tenzorbus/src/ring.rs access by access: what TensorRing *)
(* does in one step is done here one shared store at a time, and a process *)
(* may be killed between any two, inside the registry lock too.  Consumers *)
(* scan the slots with separate loads, while a producer reaps, recycles,   *)
(* stamps, copies, commits and signals.                                    *)
(*                                                                         *)
(* Accesses that follow each other are one step where nothing that others  *)
(* do can come between them to any effect: the pid and the token of a slot, *)
(* the load and the store of a counter that only lock holders write, the   *)
(* last store of a locked section and its unlock.  Accesses are            *)
(* sequentially consistent.                                                *)
(*                                                                         *)
(* Left to TensorRing: SlotWriter and abort, the reuse of pids, several    *)
(* Producer handles in a process.  Left out: S_READERS, and the reclaim    *)
(* word, on which nothing depends: a full ring is tried again after 5 ms   *)
(* at most.                                                                *)
(***************************************************************************)
EXTENDS Integers, FiniteSets

CONSTANTS
    Producers,      \* processes that publish, one at a time
    Consumers,      \* processes with one Consumer each
    NoProc,         \* pid 0
    SlotCount, MaxConsumers, SeqMod, FirstSeq,  \* as in TensorRing
    Mortal,         \* bound: the processes that may be killed
    MaxPublications \* bound: sequences assigned

ASSUME StepsAssumption ==
    /\ Producers \cap Consumers = {} /\ NoProc \notin Producers \cup Consumers
    /\ Mortal \subseteq Producers \cup Consumers
    /\ SlotCount \in Nat /\ SlotCount >= 2 /\ MaxConsumers \in Nat \ {0}
    /\ SeqMod \in Nat /\ SeqMod % 2 = 0
    /\ MaxPublications \in Nat /\ MaxPublications < SeqMod \div 2
    /\ FirstSeq \in 0 .. SeqMod - 1

\* For counting those in one place.
ASSUME FiniteAssumption == IsFiniteSet(Producers \cup Consumers)

VARIABLES
    slot,       \* of each slot: state, seq, mask, pid, and whose payload it holds
    entry,      \* of each registry entry: active, pid
    registered, nextSeq, role,  \* G_CONSUMERS, G_NEXT_SEQ, G_PRODUCER_PID
    lock,       \* the process that holds the registry lock
    alive,      \* the living processes
    pc, at,     \* of each process: its next step, the index of its loop
    pick,       \* of each producer: the slot it has chosen, or 0
    handle,     \* of each Consumer: index, last_sequence, leases
    scan,       \* of each call of next_raw: the best of this pass, the best of
                \* the earlier ones, how often it has scanned again
    heard,      \* of each Consumer: in next, with the publish word changed since
    returning   \* of each Consumer: the lease being released

shared == <<slot, entry, registered, nextSeq, role>>
vars == <<slot, entry, registered, nextSeq, role, lock, alive, pc, at, pick, handle,
          scan, heard, returning>>

Procs == Producers \cup Consumers
Slots == 1 .. SlotCount
Entries == 1 .. MaxConsumers
Seqs == 0 .. SeqMod - 1
Zeroed == -1
None == [slot |-> 0, seq |-> 0]
Closed == [idx |-> 0, last |-> 0, leases |-> {}]
NoScan == [found |-> None, oldest |-> None, again |-> 0]

SeqNewer(a, b) == (a - b) % SeqMod \in 1 .. SeqMod \div 2 - 1
\* Mutant: the counter does not wrap.
SuccNoWrap(n) == n + 1
Succ(n) == (n + 1) % SeqMod

Goto(p, from, to) == p \in alive /\ pc[p] = from /\ pc' = [pc EXCEPT ![p] = to]
\* A holder that was killed is found dead by the next locker.
Lock(p) == lock \notin alive /\ lock' = p
Unlock(p) == lock' = NoProc

\* What each kind of step leaves alone, apart from the variables it names.
ProducerOnly == UNCHANGED <<alive, handle, scan, heard, returning>>
ConsumerOnly == UNCHANGED <<alive, pick>>
Reading == UNCHANGED <<shared, lock, alive, pick, returning>>

-----------------------------------------------------------------------------
(* reap_dead, under the lock: the entries, then the slots.                  *)

StartLocked(p, from) ==
    /\ Goto(p, from, "reap")
    /\ Lock(p)
    /\ at' = [at EXCEPT ![p] = 1]
    /\ UNCHANGED <<shared, alive, pick, handle, scan, heard, returning>>

StartReserve(p) ==
    /\ role = p /\ (nextSeq - FirstSeq) % SeqMod < MaxPublications
    /\ StartLocked(p, "idle")
StartRegister(c) == StartLocked(c, "none")

DeadEntry(p, i) == entry[i].active /\ entry[i].pid # p /\ entry[i].pid \notin alive
WithBit(i) == {s \in Slots : i \in slot[s].mask}
DropBit(s, i) == slot' = [slot EXCEPT ![s].mask = @ \ {i}]
\* The next store of drop_consumer_bit, which goes through the slots in order.
DropNextBit(i) == \E s \in WithBit(i) : (\A t \in WithBit(i) : s <= t) /\ DropBit(s, i)

\* One registry entry: drop_consumer_bit slot by slot, then free the entry.
ReapEntry(p) ==
    LET i == at[p] IN
    /\ i \in Entries
    /\ \/ /\ Goto(p, "reap", "reap") /\ DeadEntry(p, i) /\ DropNextBit(i)
          /\ UNCHANGED <<entry, at>>
       \/ /\ Goto(p, "reap", "countDead") /\ DeadEntry(p, i) /\ WithBit(i) = {}
          /\ entry' = [entry EXCEPT ![i].active = FALSE]
          /\ UNCHANGED <<slot, at>>
       \/ /\ Goto(p, "reap", "reap") /\ ~DeadEntry(p, i)
          /\ at' = [at EXCEPT ![p] = i + 1]
          /\ UNCHANGED <<slot, entry>>
    /\ UNCHANGED <<registered, nextSeq, role, lock, alive, pick, handle, scan, heard, returning>>

AtLeastZero(n) == IF n < 0 THEN 0 ELSE n
\* Mutant: the entries reaped are not counted.
OneLessNever(n) == n
OneLess(n) == AtLeastZero(n - 1)

ReapCount(p) ==
    /\ Goto(p, "countDead", "reap")
    /\ registered' = OneLess(registered)
    /\ at' = [at EXCEPT ![p] = @ + 1]
    /\ UNCHANGED <<slot, entry, nextSeq, role, lock, alive, pick, handle, scan, heard, returning>>

\* Mutant: as in the lock, pid 0 is not taken for a dead process.
AbandonedUnlessUnset(p, s) ==
    slot[s].state = "WRITING" /\ slot[s].pid \notin alive \cup {p, NoProc}
Abandoned(p, s) == slot[s].state = "WRITING" /\ slot[s].pid \notin alive \cup {p}

\* One slot; after the last one, on to what the lock was taken for.
ReapSlot(p) ==
    LET s == at[p] - MaxConsumers IN
    /\ s \in Slots
    /\ Goto(p, "reap", IF s < SlotCount THEN "reap"
                       ELSE IF p \in Producers THEN "choose" ELSE "enter")
    /\ at' = [at EXCEPT ![p] = IF s < SlotCount THEN @ + 1 ELSE 1]
    /\ slot' = IF Abandoned(p, s)
                 THEN [slot EXCEPT ![s].mask = {}, ![s].state = "FREE"] ELSE slot
    /\ UNCHANGED <<entry, registered, nextSeq, role, lock, alive, pick, handle, scan, heard,
                   returning>>

-----------------------------------------------------------------------------
(* Publishing.                                                              *)

\* Ring::producer
Claim(p) ==
    /\ Goto(p, "off", "idle")
    /\ lock \notin alive /\ Unlock(p)
    /\ role \notin alive /\ role' = p
    /\ ProducerOnly /\ UNCHANGED <<slot, entry, registered, nextSeq, at, pick>>

\* Producer::drop, of a process's only handle: a compare_exchange without the lock.
\* The slots p has written keep its pid.
HandBack(p) ==
    /\ Goto(p, "idle", "off")
    /\ role' = IF role = p THEN NoProc ELSE role
    /\ ProducerOnly /\ UNCHANGED <<slot, entry, registered, nextSeq, lock, at, pick>>

\* A free slot is kept; a committed one without readers gives way to an older one.
Better(p, s) ==
    LET chosen == pick[p] IN
    \/ slot[s].state = "FREE" /\ (chosen = 0 \/ slot[chosen].state # "FREE")
    \/ /\ slot[s].state = "COMMITTED" /\ slot[s].mask = {}
       /\ \/ chosen = 0
          \/ slot[chosen].state # "FREE" /\ SeqNewer(slot[chosen].seq, slot[s].seq)

Choose(p) ==
    /\ Goto(p, "choose", IF at[p] < SlotCount THEN "choose" ELSE "chosen")
    /\ pick' = IF Better(p, at[p]) THEN [pick EXCEPT ![p] = at[p]] ELSE pick
    /\ at' = [at EXCEPT ![p] = IF @ < SlotCount THEN @ + 1 ELSE 1]
    /\ ProducerOnly /\ UNCHANGED <<shared, lock>>

\* No slot: DropNewest and a passed deadline give up, Block waits and tries again.
Full(p) ==
    /\ Goto(p, "chosen", "idle") /\ pick[p] = 0
    /\ Unlock(p)
    /\ ProducerOnly /\ UNCHANGED <<shared, at, pick>>

\* The stores of reserve_header into the chosen slot, in their order.
Store(p, from, to, new) ==
    /\ Goto(p, from, to) /\ pick[p] # 0
    /\ slot' = [slot EXCEPT ![pick[p]] = new]
    /\ ProducerOnly /\ UNCHANGED <<entry, registered, nextSeq, role, lock, at, pick>>

Mark(p) == Store(p, "chosen", "stamp", [slot[pick[p]] EXCEPT !.state = "WRITING"])
Stamp(p) == Store(p, "stamp", "number", [slot[pick[p]] EXCEPT !.pid = p])
Number(p) == Store(p, "number", "address", [slot[pick[p]] EXCEPT !.seq = nextSeq])
Address(p) == Store(p, "address", "advance",
                    [slot[pick[p]] EXCEPT !.mask = {i \in Entries : entry[i].active}])
Advance(p) ==
    /\ Goto(p, "advance", "copy")
    /\ nextSeq' = Succ(nextSeq)
    /\ Unlock(p)
    /\ ProducerOnly /\ UNCHANGED <<slot, entry, registered, role, at, pick>>

\* publish, outside the lock: the copy and the release store.
Copy(p) == Store(p, "copy", "commit", [slot[pick[p]] EXCEPT !.payload = slot[pick[p]].seq])
Commit(p) == Store(p, "commit", "signal", [slot[pick[p]] EXCEPT !.state = "COMMITTED"])

\* The two halves of futex::signal; the new value of the word matters to those
\* who have loaded the old one.
Waiting == {"loadState", "loadMask", "loadSeq", "compare", "check", "recheck", "wait"}
Signal(p) ==
    /\ Goto(p, "signal", "wake")
    /\ heard' = [c \in Consumers |-> pc[c] \in Waiting]
    /\ UNCHANGED <<shared, lock, alive, at, pick, handle, scan, returning>>
WakeAll(p) ==
    /\ p \in alive /\ pc[p] = "wake"
    /\ pc' = [q \in Procs |-> IF q = p THEN "idle"
                              ELSE IF pc[q] = "asleep" THEN "open" ELSE pc[q]]
    /\ pick' = [pick EXCEPT ![p] = 0]
    /\ ProducerOnly /\ UNCHANGED <<shared, lock, at>>

-----------------------------------------------------------------------------
(* Registering and closing.                                                 *)

\* The entry is chosen and filled in; it counts for nobody until it is active.
Enter(c) ==
    \E i \in Entries :
        /\ Goto(c, "enter", "activate")
        /\ ~entry[i].active /\ \A j \in Entries : j < i => entry[j].active
        /\ handle' = [handle EXCEPT ![c].idx = i, ![c].last = (nextSeq - 1) % SeqMod]
        /\ entry' = [entry EXCEPT ![i].pid = c]
        /\ ConsumerOnly
        /\ UNCHANGED <<slot, registered, nextSeq, role, lock, at, scan, heard, returning>>
RegistryFull(c) ==
    /\ Goto(c, "enter", "none") /\ \A i \in Entries : entry[i].active
    /\ Unlock(c)
    /\ ConsumerOnly /\ UNCHANGED <<shared, at, handle, scan, heard, returning>>

MembershipOnly == UNCHANGED <<slot, nextSeq, role, alive, at, pick, handle, scan, heard, returning>>
Activate(c) ==
    /\ Goto(c, "activate", "countUp")
    /\ entry' = [entry EXCEPT ![handle[c].idx].active = TRUE]
    /\ MembershipOnly /\ UNCHANGED <<registered, lock>>
CountUp(c) ==
    /\ Goto(c, "countUp", "open")
    /\ registered' = registered + 1
    /\ Unlock(c)
    /\ MembershipOnly /\ UNCHANGED entry

\* Consumer::drop; its leases are gone by then.
StartClose(c) ==
    /\ Goto(c, "open", "close") /\ handle[c].leases = {}
    /\ Lock(c)
    /\ MembershipOnly /\ UNCHANGED <<entry, registered>>
CloseBit(c) ==
    /\ Goto(c, "close", "close") /\ DropNextBit(handle[c].idx)
    /\ ConsumerOnly
    /\ UNCHANGED <<entry, registered, nextSeq, role, lock, at, handle, scan, heard, returning>>
CloseEntry(c) ==
    /\ Goto(c, "close", "countDown") /\ WithBit(handle[c].idx) = {}
    /\ entry' = [entry EXCEPT ![handle[c].idx].active = FALSE]
    /\ MembershipOnly /\ UNCHANGED <<registered, lock>>
CountDown(c) ==
    /\ Goto(c, "countDown", "closed")
    /\ registered' = AtLeastZero(registered - 1)
    /\ handle' = [handle EXCEPT ![c] = Closed]
    /\ Unlock(c)
    /\ ConsumerOnly /\ UNCHANGED <<slot, entry, nextSeq, role, at, scan, heard, returning>>

-----------------------------------------------------------------------------
(* next_raw: load the publish word, scan until two passes agree, validate.  *)

Observe(c) ==
    /\ Goto(c, "open", "loadState")
    /\ at' = [at EXCEPT ![c] = 1]
    /\ Reading /\ UNCHANGED <<handle, scan, heard>>

\* On to the next slot, or to the end of the pass.
Onward(c, from) ==
    /\ Goto(c, from, IF at[c] < SlotCount THEN "loadState" ELSE "compare")
    /\ at' = [at EXCEPT ![c] = IF @ < SlotCount THEN @ + 1 ELSE 1]

LoadState(c) ==
    /\ \/ /\ Goto(c, "loadState", "loadMask")
          /\ slot[at[c]].state = "COMMITTED" /\ UNCHANGED at
       \/ Onward(c, "loadState") /\ slot[at[c]].state # "COMMITTED"
    /\ Reading /\ UNCHANGED <<handle, scan, heard>>
LoadMask(c) ==
    /\ \/ /\ Goto(c, "loadMask", "loadSeq")
          /\ handle[c].idx \in slot[at[c]].mask /\ UNCHANGED at
       \/ Onward(c, "loadMask") /\ handle[c].idx \notin slot[at[c]].mask
    /\ Reading /\ UNCHANGED <<handle, scan, heard>>
LoadSeq(c) ==
    LET seq == slot[at[c]].seq  found == scan[c].found IN
    /\ Onward(c, "loadSeq")
    /\ scan' = IF SeqNewer(seq, handle[c].last) /\ (found = None \/ SeqNewer(found.seq, seq))
                 THEN [scan EXCEPT ![c].found = [slot |-> at[c], seq |-> seq]] ELSE scan
    /\ Reading /\ UNCHANGED <<handle, heard>>

\* This pass found something, and nothing as old was found before.
FoundOlder(c) ==
    /\ scan[c].found # None
    /\ scan[c].again = 0 \/ SeqNewer(scan[c].oldest.seq, scan[c].found.seq)
\* Mutant: one pass is believed.
ScanAgainNever(c) == FALSE
ScanAgain(c) == FoundOlder(c) /\ scan[c].again < SlotCount

\* The end of a pass of try_take.
Compare(c) ==
    /\ Goto(c, "compare", IF ScanAgain(c) THEN "loadState"
                          ELSE IF FoundOlder(c) \/ scan[c].again > 0 THEN "check" ELSE "wait")
    /\ scan' = [scan EXCEPT ![c].found = None,
                            ![c].oldest = IF FoundOlder(c) THEN scan[c].found ELSE @,
                            ![c].again = IF ScanAgain(c) THEN @ + 1 ELSE 0]
    /\ Reading /\ UNCHANGED <<at, handle, heard>>

\* Mutant: the loads of the scan are taken for a snapshot.
StillThereUnchecked(l) == TRUE
StillThere(l) == slot[l.slot].state = "COMMITTED" /\ slot[l.slot].seq = l.seq

\* read_validated: state and sequence, the header and the mask, and all of it again.
Check(c) ==
    LET l == scan[c].oldest IN
    /\ Goto(c, "check", IF StillThere(l) THEN "recheck" ELSE "wait")
    /\ scan' = IF StillThere(l) THEN scan ELSE [scan EXCEPT ![c] = NoScan]
    /\ Reading /\ UNCHANGED <<at, handle, heard>>
Take(c) ==
    LET l == scan[c].oldest
        valid == StillThere(l) /\ handle[c].idx \in slot[l.slot].mask IN
    /\ Goto(c, "recheck", IF valid THEN "open" ELSE "wait")
    /\ handle' = IF valid THEN [handle EXCEPT ![c].last = l.seq, ![c].leases = @ \cup {l}]
                          ELSE handle
    /\ scan' = [scan EXCEPT ![c] = NoScan]
    /\ heard' = [heard EXCEPT ![c] = @ /\ ~valid]
    /\ Reading /\ UNCHANGED at

\* Mutant: the word is loaded only when the wait begins.
MaySleepLate(c) == TRUE
\* FUTEX_WAIT sleeps only if the word is still what was loaded before the scan.
MaySleep(c) == ~heard[c]
Sleep(c) ==
    /\ Goto(c, "wait", "asleep") /\ MaySleep(c)
    /\ Reading /\ UNCHANGED <<at, handle, scan, heard>>
\* The deadline has passed, the word has moved, or 5 ms are over.
EndWait(c) ==
    /\ Goto(c, "wait", "open") \/ Goto(c, "asleep", "open")
    /\ heard' = [heard EXCEPT ![c] = FALSE]
    /\ Reading /\ UNCHANGED <<at, handle, scan>>

\* Consumer::release: the check of the sequence, then the fetch_and.
StartRelease(c) ==
    /\ Goto(c, "open", "release")
    /\ \E l \in handle[c].leases :
          slot[l.slot].seq = l.seq /\ returning' = [returning EXCEPT ![c] = l]
    /\ ConsumerOnly /\ UNCHANGED <<shared, lock, at, handle, scan, heard>>
Release(c) ==
    /\ Goto(c, "release", "open")
    /\ DropBit(returning[c].slot, handle[c].idx)
    /\ handle' = [handle EXCEPT ![c].leases = @ \ {returning[c]}]
    /\ returning' = [returning EXCEPT ![c] = None]
    /\ ConsumerOnly /\ UNCHANGED <<entry, registered, nextSeq, role, lock, at, scan, heard>>

-----------------------------------------------------------------------------
\* A process is killed, wherever it is; what it stored stays.  (Where it was is
\* remembered if that was between an entry and the count, for CountKept, or between
\* marking a slot and storing its pid there, for NoSlotLost.)
Counting == {"countUp", "countDead", "countDown"}
Kill(p) ==
    /\ p \in Mortal \cap alive
    /\ alive' = alive \ {p}
    /\ pc' = [pc EXCEPT ![p] = IF @ \in Counting \cup {"stamp"} THEN @ ELSE "dead"]
    /\ at' = [at EXCEPT ![p] = 1]
    /\ pick' = [q \in Producers |-> IF q = p /\ pc[p] # "stamp" THEN 0 ELSE pick[q]]
    /\ handle' = [c \in Consumers |-> IF c = p THEN Closed ELSE handle[c]]
    /\ scan' = [c \in Consumers |-> IF c = p THEN NoScan ELSE scan[c]]
    /\ returning' = [c \in Consumers |-> IF c = p THEN None ELSE returning[c]]
    /\ heard' = [c \in Consumers |-> c # p /\ heard[c]]
    /\ UNCHANGED <<shared, lock>>

Init ==
    /\ slot = [s \in Slots |-> [state |-> "FREE", seq |-> 0, mask |-> {},
                                payload |-> Zeroed, pid |-> NoProc]]
    /\ entry = [i \in Entries |-> [active |-> FALSE, pid |-> NoProc]]
    /\ registered = 0
    /\ nextSeq = FirstSeq
    /\ role = NoProc
    /\ lock = NoProc
    /\ alive = Procs
    /\ pc = [p \in Procs |-> IF p \in Producers THEN "off" ELSE "none"]
    /\ at = [p \in Procs |-> 1]
    /\ pick = [p \in Producers |-> 0]
    /\ handle = [c \in Consumers |-> Closed]
    /\ scan = [c \in Consumers |-> NoScan]
    /\ heard = [c \in Consumers |-> FALSE]
    /\ returning = [c \in Consumers |-> None]

Publish(p) ==
    \/ Claim(p) \/ HandBack(p) \/ StartReserve(p) \/ Choose(p) \/ Full(p)
    \/ Mark(p) \/ Stamp(p) \/ Number(p) \/ Address(p) \/ Advance(p)
    \/ Copy(p) \/ Commit(p) \/ Signal(p) \/ WakeAll(p)

Membership(c) ==
    \/ StartRegister(c) \/ Enter(c) \/ RegistryFull(c) \/ Activate(c) \/ CountUp(c)
    \/ StartClose(c) \/ CloseBit(c) \/ CloseEntry(c) \/ CountDown(c)

Receive(c) ==
    \/ Observe(c) \/ LoadState(c) \/ LoadMask(c) \/ LoadSeq(c) \/ Compare(c)
    \/ Check(c) \/ Take(c) \/ Sleep(c) \/ EndWait(c)
    \/ StartRelease(c) \/ Release(c)

Next ==
    \/ \E p \in Producers : Publish(p)
    \/ \E c \in Consumers : Membership(c)
    \/ \E c \in Consumers : Receive(c)
    \/ \E p \in Procs : ReapEntry(p) \/ ReapCount(p) \/ ReapSlot(p)
    \/ \E p \in Procs : Kill(p)

Spec == Init /\ [][Next]_vars

-----------------------------------------------------------------------------
(* Properties.                                                             *)

Deliverable(c) ==
    {s \in Slots : /\ slot[s].state = "COMMITTED" /\ handle[c].idx \in slot[s].mask
                   /\ SeqNewer(slot[s].seq, handle[c].last)}

\* Every variable has its type, and only the lock's holder is in a locked section.
TypeOK ==
    /\ \A s \in Slots :
          /\ slot[s].state \in {"FREE", "WRITING", "COMMITTED"}
          /\ slot[s].seq \in Seqs /\ slot[s].mask \subseteq Entries
          /\ slot[s].payload \in Seqs \cup {Zeroed} /\ slot[s].pid \in Producers \cup {NoProc}
    /\ \A i \in Entries : entry[i].active \in BOOLEAN /\ entry[i].pid \in Consumers \cup {NoProc}
    /\ registered \in Nat /\ nextSeq \in Seqs
    /\ role \in Producers \cup {NoProc} /\ lock \in Procs \cup {NoProc} /\ alive \subseteq Procs
    /\ pick \in [Producers -> 0 .. SlotCount] /\ heard \in [Consumers -> BOOLEAN]
    /\ \A c \in Consumers : /\ handle[c].idx \in 0 .. MaxConsumers /\ handle[c].last \in Seqs
                            /\ handle[c].leases \subseteq [slot : Slots, seq : Seqs]
                            /\ scan[c].again \in 0 .. SlotCount
    /\ \A p \in alive : pc[p] \in Counting \cup {"reap", "choose", "stamp", "close"} => lock = p

\* PROTOCOL.md, "Concurrency rules": a consumer never reads a slot while the
\* producer copies into it.  While a lease is out, its slot is committed, holds the
\* bytes of the publication that was delivered, and counts the consumer.
LeasesIntact ==
    \A c \in Consumers : \A l \in handle[c].leases :
        /\ StillThere(l)
        /\ slot[l.slot].payload = l.seq
        /\ handle[c].idx \in slot[l.slot].mask

\* "A producer killed mid-write cannot wedge the ring": a slot in WRITING has a
\* living producer at work on it, or is one that every later sweep will take, also if
\* it was marked and no pid stored yet.  The one exception: it was marked by a producer
\* killed before it stored its pid, and the process that wrote the slot before handed
\* the role back and lives on, as the writer recorded.
NoSlotLost ==
    \A s \in Slots : slot[s].state = "WRITING" =>
        \/ \E p \in Producers \cap alive : pick[p] = s
        \/ \A p \in alive \cap ({role} \cup Consumers) : Abandoned(p, s)
        \/ /\ slot[s].pid \in alive
           /\ \E p \in Producers \ alive : pc[p] = "stamp" /\ pick[p] = s

\* G_CONSUMERS is the number of active entries, but for one each time a process
\* is, or was killed, between the store that activates or frees an entry and
\* the store of the count; nothing corrects such a drift, and nothing adds to it.
CountKept ==
    LET listed == Cardinality({i \in Entries : entry[i].active})
        At(where) == Cardinality({p \in Procs : pc[p] \in where}) IN
    registered \in (listed - At({"countUp"})) .. (listed + At({"countDead", "countDown"}))

\* No wake-up is lost: a consumer sleeps beside a publication addressed to it only
\* while the producer has yet to signal or wake, or was killed before it did.
SleepersWoken ==
    Producers \subseteq alive =>
        \A c \in Consumers : pc[c] = "asleep" /\ Deliverable(c) # {} =>
            \E p \in Producers : pc[p] \in {"signal", "wake"}
===============================================================================
