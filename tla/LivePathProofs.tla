----------------------------- MODULE LivePathProofs -----------------------------
(***************************************************************************)
(* The live path for every number of processes, consumers, writers, slots  *)
(* and epochs: what Python's arrays see, what a stale lease can do, and    *)
(* what the bridge shows.  The invariants of the ring carry over, since a  *)
(* step of the live path does to the ring what a step of TensorRing does,  *)
(* except that it may close a Consumer with leases out, and clear a bit in *)
(* the late release of a stale lease.                                      *)
(*                                                                         *)
(* Types, arrays over a writer's slot, the sequences in use and the stream *)
(* of the bridge do not depend on whose bits are where, and are proved     *)
(* whether or not such a release is overtaken; what is said of leases is   *)
(* proved for as long as none is.                                          *)
(***************************************************************************)
EXTENDS LivePath, TensorRingProofs

\* How many sequences come before q since the ring was made.
Place(q) == (q - FirstSeq) % SeqMod

\* What holds of the ring's own variables whoever clears which bits.
RingInv == TypeOK /\ EntryInv /\ WriterInv

PyTypes ==
    /\ views \in [Consumers -> SUBSET Leases]
    /\ stale \in [Consumers -> SUBSET StaleLeases]
    /\ late \in [Consumers -> SUBSET StaleLeases]
    /\ array \in [PyWriters -> 0 .. SlotCount]

\* An array over a writer's slot is there only as long as the writer is at work.
Arrays ==
    \A w \in PyWriters : array[w] # 0 =>
        WriterHost[w] # Bridge /\ wst[w] # "idle" /\ array[w] = wslot[w]

\* An array over a lease is to one that has not been released.
Views ==
    \A c \in Consumers :
        /\ views[c] \subseteq Unreleased(c)
        /\ ConsumerHost[c] = Bridge => views[c] = {} /\ stale[c] = {}

\* The slots in use have different sequences, all of them below the next.
Numbers ==
    /\ Place(nextSeq) <= MaxSequences
    /\ \A s \in Slots : state[s] # "FREE" => Place(seq[s]) < Place(nextSeq)
    /\ \A s, t \in Slots :
          state[s] # "FREE" /\ state[t] # "FREE" /\ seq[s] = seq[t] => s = t

\* What the bridge has committed was filled for its sequence.
Frames ==
    /\ \A w \in Writers : wst[w] = "filled" => payload[wslot[w]] = wseq[w]
    /\ \A s \in Slots : state[s] = "COMMITTED" /\ wpid[s] = Bridge => payload[s] = seq[s]

CoreInv == RingInv /\ PyTypes /\ Arrays /\ Views /\ Numbers /\ Frames

\* No release of a stale lease is overtaken by a new publication in its slot.
NoStaleReleaseRaces == ~StaleReleaseRaces

\* The publication of a stale lease is over: no writer will use its sequence again,
\* and if its slot still has it, the bit of the lease is gone.
Past(d) ==
    /\ Place(d.lease.seq) < Place(nextSeq)
    /\ \A w \in Writers : wst[w] # "idle" => wseq[w] # d.lease.seq
    /\ seq[d.lease.slot] = d.lease.seq => d.idx \notin mask[d.lease.slot]
StaleInv == \A c \in Consumers : \A d \in stale[c] \cup late[c] : Past(d)

\* A release that found its publication in place still would.
LateInv == \A c \in Consumers : \A d \in late[c] : seq[d.lease.slot] = d.lease.seq

LiveIInv == CoreInv /\ LeaseInv /\ StaleInv /\ LateInv

-----------------------------------------------------------------------------
(* Sequences of one round of the counter.                                  *)

LEMMA ModValue ==
    ASSUME NEW n \in Nat, n > 0, NEW a \in Int
    PROVE  /\ 0 <= a /\ a < n => a % n = a
           /\ -n <= a /\ a < 0 => a % n = a + n
<1>1. ASSUME 0 <= a, a < n PROVE a % n = a
  BY <1>1
<1>2. ASSUME -n <= a, a < 0 PROVE a % n = a + n
  BY <1>2
<1> QED BY <1>1, <1>2

LEMMA PlaceValue ==
    ASSUME NEW q \in Seqs
    PROVE  /\ Place(q) = IF q >= FirstSeq THEN q - FirstSeq ELSE q - FirstSeq + SeqMod
           /\ Place(q) \in Seqs
<1>1. /\ SeqMod \in Nat /\ SeqMod > 0 /\ FirstSeq \in Int /\ q \in Int /\ q - FirstSeq \in Int
      /\ 0 <= q /\ q < SeqMod /\ 0 <= FirstSeq /\ FirstSeq < SeqMod
  BY SizesAssumption DEF Seqs
<1>2. CASE q >= FirstSeq
  <2>1. (q - FirstSeq) % SeqMod = q - FirstSeq
    BY <1>1, <1>2, ModValue
  <2> QED BY <1>1, <1>2, <2>1 DEF Place, Seqs
<1>3. CASE ~(q >= FirstSeq)
  <2>1. -SeqMod <= q - FirstSeq /\ q - FirstSeq < 0
    BY <1>1, <1>3
  <2>2. (q - FirstSeq) % SeqMod = q - FirstSeq + SeqMod
    BY <1>1, <2>1, ModValue
  <2> QED BY <1>1, <1>3, <2>2 DEF Place, Seqs
<1> QED BY <1>2, <1>3

LEMMA PlaceUnique ==
    ASSUME NEW q \in Seqs, NEW r \in Seqs, Place(q) = Place(r)
    PROVE  q = r
BY PlaceValue, SizesAssumption DEF Seqs

LEMMA PlaceSucc ==
    ASSUME NEW q \in Seqs, Place(q) <= MaxSequences
    PROVE  Succ(q) \in Seqs /\ Place(Succ(q)) = Place(q) + 1
<1>1. /\ SeqMod \in Nat /\ SeqMod >= 4 /\ q \in Int /\ 0 <= q /\ q < SeqMod
      /\ FirstSeq \in Int /\ 0 <= FirstSeq /\ FirstSeq < SeqMod
  BY SizesAssumption DEF Seqs
<1>2. MaxSequences \in Int /\ MaxSequences + 1 < SeqMod
  BY <1>1, LiveAssumption
<1>3. Succ(q) = IF q + 1 = SeqMod THEN 0 ELSE q + 1
  <2>1. CASE q + 1 = SeqMod
    BY <1>1, <2>1 DEF Succ
  <2>2. CASE q + 1 # SeqMod
    <3>1. 0 <= q + 1 /\ q + 1 < SeqMod /\ q + 1 \in Int /\ SeqMod > 0
      BY <1>1, <2>2
    <3>2. (q + 1) % SeqMod = q + 1
      BY <1>1, <3>1, ModValue
    <3> QED BY <2>2, <3>2 DEF Succ
  <2> QED BY <2>1, <2>2
<1>4. Succ(q) \in Seqs
  BY <1>1, <1>3 DEF Seqs
<1>5. Place(q) = IF q >= FirstSeq THEN q - FirstSeq ELSE q - FirstSeq + SeqMod
  BY PlaceValue
<1>6. Place(Succ(q)) = IF Succ(q) >= FirstSeq THEN Succ(q) - FirstSeq
                       ELSE Succ(q) - FirstSeq + SeqMod
  BY <1>4, PlaceValue
<1>7. Place(q) + 1 < SeqMod
  BY <1>1, <1>2, <1>5
<1> QED BY <1>1, <1>3, <1>4, <1>5, <1>6, <1>7

-----------------------------------------------------------------------------
(* What a step does to the ring.                                           *)

RingAct ==
    \/ UNCHANGED vars
    \/ \E p \in Procs : \/ Sweep(p) \/ ClaimProducer(p) \/ DropProducer(p) \/ HandBack(p)
                        \/ Crash(p) \/ Restart(p)
    \/ \E w \in Writers : \/ Reserve(w) \/ ReserveFull(w) \/ Fill(w) \/ Abort(w)
                          \/ Commit(w) /\ (wst[w] = "filled" \/ WriterHost[w] # Bridge)
    \/ \E c \in Consumers : \/ Register(c) \/ RegisterFull(c) \/ Take(c) \/ PyClose(c)
                            \/ FinishReleaseStale(c)
                            \/ \E l \in leases[c] : Release(c, l)

LEMMA Parties ==
    /\ Bridge \in Procs /\ PendingWriter \in Writers /\ CopyWriter \in Writers
    /\ WriterHost[PendingWriter] = Bridge /\ WriterHost[CopyWriter] = Bridge
    /\ PyWriters \subseteq Writers
BY ProcsAssumption, BridgeAssumption, PyWritersAssumption

\* The late release of a stale lease touches one bit, and nothing else of the ring.
LEMMA StaleClears ==
    ASSUME TypeOK, NEW c \in Consumers, FinishReleaseStale(c)
    PROVE  /\ mask' \in [Slots -> SUBSET Entries]
           /\ \A s \in Slots : mask'[s] \subseteq mask[s]
           /\ UNCHANGED <<state, seq, payload, wpid, wtok, active, rpid, registered, nextSeq,
                          role, alive, token, producers, handing, cst, idx, last, leases,
                          wst, wslot, wseq>>
<1>1. PICK d \in late[c] : mask' = [mask EXCEPT ![d.lease.slot] = @ \ {d.idx}]
  BY DEF FinishReleaseStale
<1>2. mask \in [Slots -> SUBSET Entries]
  BY DEF TypeOK
<1>3. mask' \in [Slots -> SUBSET Entries] /\ \A s \in Slots : mask'[s] \subseteq mask[s]
  BY <1>1, <1>2
<1> QED
  BY <1>3 DEF FinishReleaseStale, registryVars, procVars, handleVars, consumerVars, writerVars

\* Writing to an array is filling the slot.
LEMMA WriteArrayFills ==
    ASSUME CoreInv, NEW w \in PyWriters, WriteArray(w)
    PROVE  Fill(w)
<1>1. wst[w] # "idle" /\ array[w] = wslot[w]
  BY DEF WriteArray, CoreInv, Arrays
<1> QED
  BY <1>1 DEF WriteArray, Fill

LEMMA RingActs ==
    ASSUME CoreInv, LiveNext
    PROVE  RingAct
<1>1. ASSUME SinkStep PROVE RingAct
  <2>1. CASE Start \/ ExitMain \/ RoleReturned
    BY <2>1, Parties DEF Start, ExitMain, RoleReturned, RingAct
  <2>2. CASE AwaitConsumers \/ DecodeAside \/ EndOfClip
    BY <2>2 DEF AwaitConsumers, DecodeAside, EndOfClip, RingAct
  <2>3. CASE VideoDestination \/ PublishCopy
    BY <2>3, Parties DEF VideoDestination, PublishCopy, ReserveOrFail, RingAct
  <2>4. CASE Decode
    BY <2>4, Parties DEF Decode, RingAct
  <2>5. CASE EpochReady
    BY <2>5, Parties DEF EpochReady, RingAct
  <2>6. CASE EngineFails
    BY <2>6, Parties DEF EngineFails, AbortEpoch, RingAct
  <2> QED BY <1>1, <2>1, <2>2, <2>3, <2>4, <2>5, <2>6 DEF SinkStep
<1>2. ASSUME NEW p \in Procs, p # Bridge, PyStep(p) PROVE RingAct
  <2>1. CASE Sweep(p) \/ ClaimProducer(p) \/ DropProducer(p) \/ HandBack(p)
    BY <2>1 DEF RingAct
  <2>2. ASSUME NEW c \in Consumers,
               \/ Register(c) \/ RegisterFull(c) \/ Take(c) \/ PyClose(c)
               \/ FinishReleaseStale(c)
        PROVE  RingAct
    BY <2>2 DEF RingAct
  <2>3. ASSUME NEW c \in Consumers, PyRelease(c) PROVE RingAct
    BY <2>3 DEF PyRelease, RingAct
  <2>4. ASSUME NEW c \in Consumers, View(c) \/ DropViews(c) \/ StartReleaseStale(c)
        PROVE  RingAct
    BY <2>4 DEF View, DropViews, StartReleaseStale, ringVars, RingAct
  <2>5. ASSUME NEW w \in PyWriters, PyReserve(w) PROVE RingAct
    BY <2>5, Parties DEF PyReserve, RingAct
  <2>6. ASSUME NEW w \in PyWriters, CopyIn(w) \/ WriteArray(w) PROVE RingAct
    BY <2>6, Parties, WriteArrayFills DEF CopyIn, RingAct
  <2>7. ASSUME NEW w \in PyWriters, Expose(w) \/ DropArray(w) PROVE RingAct
    BY <2>7 DEF Expose, DropArray, ringVars, RingAct
  <2>8. ASSUME NEW w \in PyWriters, WriterHost[w] = p, Finish(w) PROVE RingAct
    BY <1>2, <2>8, Parties DEF Finish, RingAct
  <2> QED BY <1>2, <2>1, <2>2, <2>3, <2>4, <2>5, <2>6, <2>7, <2>8 DEF PyStep, CallStep
<1>3. ASSUME NEW p \in Procs, Crash(p) \/ Restart(p) PROVE RingAct
  BY <1>3 DEF RingAct
<1> QED
  BY <1>1, <1>2, <1>3, Parties DEF LiveNext, BridgeCrash, PyCrash

\* Closing with leases out keeps the ring's invariants: the leases are stale.
LEMMA CloseKeeps ==
    ASSUME RingInv, NEW c \in Consumers, PyClose(c)
    PROVE  RingInv' /\ (LeaseInv => LeaseInv')
<1> USE DEF RingInv
<1>1. /\ cst[c] = "open"
      /\ leases' = [leases EXCEPT ![c] = {}]
      /\ mask' = [s \in Slots |-> mask[s] \ {idx[c]}]
      /\ active' = [active EXCEPT ![idx[c]] = FALSE]
      /\ registered' = AtLeastZero(registered - 1)
      /\ cst' = [cst EXCEPT ![c] = "none"]
      /\ idx' = [idx EXCEPT ![c] = 0]
      /\ last' = [last EXCEPT ![c] = 0]
      /\ UNCHANGED <<state, seq, payload, wpid, wtok, rpid, nextSeq, role, alive, token,
                     producers, handing, wst, wslot, wseq>>
  BY DEF PyClose, procVars, handleVars, writerVars
<1>2. TypeOK'
  <2>1. /\ mask' \in [Slots -> SUBSET Entries]
        /\ active' \in [Entries -> BOOLEAN]
        /\ leases' \in [Consumers -> SUBSET Leases]
    BY <1>1 DEF TypeOK
  <2>2. registered' \in Nat
    BY <1>1 DEF AtLeastZero, TypeOK
  <2>3. /\ cst' \in [Consumers -> {"none", "open"}]
        /\ idx' \in [Consumers -> 0 .. MaxConsumers]
        /\ last' \in [Consumers -> Seqs]
    BY <1>1, SizesAssumption DEF TypeOK, Seqs
  <2> QED BY <1>1, <2>1, <2>2, <2>3 DEF TypeOK
<1>3. EntryInv'
  BY <1>1 DEF EntryInv, TypeOK
<1>4. WriterInv'
  BY <1>1 DEF WriterInv
<1>5. ASSUME LeaseInv PROVE LeaseInv'
  <2>1. ASSUME NEW d \in Consumers, NEW l \in leases'[d]
        PROVE  /\ d # c /\ l \in leases[d] /\ l.slot \in Slots
               /\ cst'[d] = cst[d] /\ idx'[d] = idx[d]
    BY <1>1, <2>1, LeaseSlots DEF TypeOK
  <2>2. ASSUME NEW d \in Consumers, d # c, cst[d] = "open" PROVE idx[d] # idx[c]
    BY <1>1, <2>2 DEF EntryInv
  <2> QED BY <1>1, <1>5, <2>1, <2>2 DEF LeaseInv
<1> QED BY <1>2, <1>3, <1>4, <1>5

LEMMA RingKept ==
    ASSUME RingInv, RingAct
    PROVE  RingInv'
<1>1. CASE \E c \in Consumers : PyClose(c)
  BY <1>1, CloseKeeps
<1>2. ASSUME NEW c \in Consumers, FinishReleaseStale(c) PROVE RingInv'
  BY <1>2, StaleClears DEF RingInv, TypeOK, EntryInv, WriterInv
<1>3. CASE ~ \E c \in Consumers : PyClose(c) \/ FinishReleaseStale(c)
  <2>1. [Next]_vars
    BY <1>3 DEF RingAct, Next
  <2> QED BY <2>1, TypeStep, EntryStep, WriterStep DEF RingInv
<1> QED BY <1>1, <1>2, <1>3

-----------------------------------------------------------------------------
(* Sequences: reservations take a new one, only aborts hand one back.      *)

Calm ==
    /\ nextSeq' = nextSeq /\ seq' = seq
    /\ \A s \in Slots : (state'[s] # "FREE" => state[s] # "FREE") /\ mask'[s] \subseteq mask[s]
    /\ \A w \in Writers : wst'[w] # "idle" => wst[w] # "idle" /\ wseq'[w] = wseq[w]

LEMMA ReapCalm ==
    ASSUME RingInv, NEW p \in Procs
    PROVE  \A s \in Slots : /\ ReapedState(p)[s] # "FREE" => state[s] # "FREE"
                            /\ ReapedMask(p)[s] \subseteq mask[s]
                            /\ ReapedState(p)[s] = "COMMITTED" => state[s] = "COMMITTED"
BY DEF RingInv, TypeOK, ReapedState, ReapedMask

LEMMA Moves ==
    ASSUME RingInv, RingAct
    PROVE  Calm \/ (\E w \in Writers : Reserve(w)) \/ (\E w \in Writers : Abort(w))
<1>1. ASSUME NEW p \in Procs, ReapOnly(p) PROVE Calm
  BY <1>1, ReapCalm DEF ReapOnly, Calm, writerVars
<1>2. ASSUME NEW p \in Procs,
             Sweep(p) \/ ClaimProducer(p) \/ DropProducer(p) \/ HandBack(p) \/ Crash(p) \/ Restart(p)
      PROVE  Calm
  <2>1. CASE Sweep(p)
    BY <1>1, <2>1 DEF Sweep
  <2>2. CASE ClaimProducer(p) \/ DropProducer(p) \/ HandBack(p) \/ Restart(p)
    BY <2>2 DEF ClaimProducer, DropProducer, HandBack, Restart, Calm, slotVars, writerVars
  <2>3. CASE Crash(p)
    BY <2>3 DEF Crash, Calm, slotVars
  <2> QED BY <1>2, <2>1, <2>2, <2>3
<1>3. ASSUME NEW w \in Writers, ReserveFull(w) PROVE Calm
  BY <1>1, <1>3, ProcsAssumption DEF ReserveFull
<1>4. ASSUME NEW w \in Writers, Fill(w) PROVE Calm
  BY <1>4 DEF Fill, Calm, RingInv, TypeOK
<1>5. ASSUME NEW w \in Writers, Commit(w) PROVE Calm
  <2>1. wst[w] # "idle"
    BY <1>5 DEF Commit
  <2>2. state[wslot[w]] = "WRITING"
    BY <2>1 DEF RingInv, WriterInv
  <2> QED BY <1>5, <2>2 DEF Commit, WriterDone, Calm, RingInv, TypeOK
<1>6. ASSUME NEW c \in Consumers, Register(c) PROVE Calm
  <2>1. ConsumerHost[c] \in Procs
    BY ProcsAssumption
  <2> QED BY <1>6, <2>1, ReapCalm DEF Register, Calm, writerVars
<1>7. ASSUME NEW c \in Consumers, RegisterFull(c) PROVE Calm
  BY <1>1, <1>7, ProcsAssumption DEF RegisterFull
<1>8. ASSUME NEW c \in Consumers, Take(c) PROVE Calm
  BY <1>8 DEF Take, Calm, slotVars, writerVars
<1>9. ASSUME NEW c \in Consumers, PyClose(c) PROVE Calm
  BY <1>9 DEF PyClose, Calm, writerVars
<1>10. ASSUME NEW c \in Consumers, NEW l \in leases[c], Release(c, l) PROVE Calm
  <2>1. l.slot \in Slots
    BY LeaseSlots DEF RingInv
  <2>2. \A s \in Slots : mask'[s] \subseteq mask[s]
    BY <1>10, <2>1 DEF Release, RingInv, TypeOK
  <2> QED BY <1>10, <2>2 DEF Release, Calm, writerVars
<1>11. ASSUME NEW c \in Consumers, FinishReleaseStale(c) PROVE Calm
  BY <1>11, StaleClears DEF Calm, RingInv
<1>12. CASE UNCHANGED vars
  BY <1>12 DEF vars, Calm
<1> QED
  BY <1>2, <1>3, <1>4, <1>5, <1>6, <1>7, <1>8, <1>9, <1>10, <1>11, <1>12 DEF RingAct

\* A reservation, by what it does to the numbers.
LEMMA ReserveMoves ==
    ASSUME RingInv, Numbers, NEW w \in Writers, Reserve(w)
    PROVE  /\ Place(nextSeq') = Place(nextSeq) + 1
           /\ \E s \in Slots :
                 /\ seq'[s] = nextSeq
                 /\ \A t \in Slots \ {s} : /\ seq'[t] = seq[t] /\ mask'[t] \subseteq mask[t]
                                           /\ state'[t] # "FREE" => state[t] # "FREE"
           /\ wseq'[w] = nextSeq
           /\ \A v \in Writers \ {w} : wst'[v] = wst[v] /\ wseq'[v] = wseq[v]
<1> DEFINE p == WriterHost[w]
<1>1. p \in Procs
  BY ProcsAssumption
<1>2. PICK s \in Slots :
         /\ state' = [ReapedState(p) EXCEPT ![s] = "WRITING"]
         /\ seq' = [seq EXCEPT ![s] = nextSeq]
         /\ mask' = [ReapedMask(p) EXCEPT ![s] = Registered(p)]
  BY DEF Reserve
<1>3. /\ nextSeq' = Succ(nextSeq)
      /\ wst' = [wst EXCEPT ![w] = "writing"] /\ wseq' = [wseq EXCEPT ![w] = nextSeq]
  BY DEF Reserve
<1>4. Place(nextSeq') = Place(nextSeq) + 1
  BY <1>3, PlaceSucc DEF RingInv, TypeOK, Numbers
<1> HIDE DEF p
<1>5. \A t \in Slots \ {s} : state'[t] = ReapedState(p)[t] /\ mask'[t] = ReapedMask(p)[t]
  BY <1>2 DEF ReapedState, ReapedMask
<1>6. seq'[s] = nextSeq /\ \A t \in Slots \ {s} : seq'[t] = seq[t]
  BY <1>2 DEF RingInv, TypeOK
<1>7. \A t \in Slots \ {s} : /\ seq'[t] = seq[t] /\ mask'[t] \subseteq mask[t]
                             /\ state'[t] # "FREE" => state[t] # "FREE"
  BY <1>1, <1>5, <1>6, ReapCalm
<1>8. wseq'[w] = nextSeq /\ \A v \in Writers \ {w} : wst'[v] = wst[v] /\ wseq'[v] = wseq[v]
  BY <1>3 DEF RingInv, TypeOK
<1> QED BY <1>4, <1>6, <1>7, <1>8

\* An abort hands back the last sequence, its own, or none.
LEMMA AbortMoves ==
    ASSUME RingInv, Numbers, NEW w \in Writers, Abort(w)
    PROVE  /\ \A q \in Seqs : Place(q) < Place(nextSeq) /\ q # wseq[w] => Place(q) < Place(nextSeq')
           /\ Place(nextSeq') <= Place(nextSeq)
           /\ wst[w] # "idle" /\ wslot[w] \in Slots
           /\ state[wslot[w]] # "FREE" /\ seq[wslot[w]] = wseq[w] /\ seq' = seq
           /\ state'[wslot[w]] = "FREE"
           /\ \A s \in Slots : mask'[s] \subseteq mask[s]
           /\ \A t \in Slots \ {wslot[w]} : state'[t] = state[t]
           /\ \A v \in Writers : wst'[v] # "idle" => wst[v] # "idle" /\ wseq'[v] = wseq[v]
<1>1. wst[w] # "idle"
  BY DEF Abort
<1>2. wslot[w] \in Slots /\ state[wslot[w]] = "WRITING" /\ seq[wslot[w]] = wseq[w]
  BY <1>1 DEF RingInv, WriterInv
<1>3. wseq[w] \in Seqs /\ nextSeq \in Seqs /\ nextSeq' = SeqAfterAbort(w)
  BY DEF RingInv, TypeOK, Abort
<1>4. Place(wseq[w]) < Place(nextSeq) /\ Place(nextSeq) <= MaxSequences
  BY <1>2 DEF Numbers
<1>5. \A q \in Seqs : Place(q) \in Int
  BY PlaceValue, SizesAssumption DEF Seqs
<1>6. MaxSequences \in Int
  BY LiveAssumption, SizesAssumption
<1>7. CASE nextSeq = Succ(wseq[w])
  <2>1. nextSeq' = wseq[w]
    BY <1>3, <1>7 DEF SeqAfterAbort
  <2>2. Place(nextSeq) = Place(wseq[w]) + 1
    BY <1>3, <1>4, <1>5, <1>6, <1>7, PlaceSucc
  <2>3. \A q \in Seqs : Place(q) < Place(nextSeq) /\ q # wseq[w] => Place(q) < Place(wseq[w])
    BY <1>3, <1>5, <2>2, PlaceUnique
  <2>4. Place(nextSeq') <= Place(nextSeq)
    BY <1>3, <1>5, <2>1, <2>2
  <2> QED BY <1>1, <1>2, <2>1, <2>3, <2>4 DEF Abort, WriterDone, RingInv, TypeOK
<1>8. CASE nextSeq # Succ(wseq[w])
  <2>1. nextSeq' = nextSeq
    BY <1>3, <1>8 DEF SeqAfterAbort
  <2>2. Place(nextSeq') <= Place(nextSeq)
    BY <1>3, <1>5, <2>1
  <2> QED BY <1>1, <1>2, <2>1, <2>2 DEF Abort, WriterDone, RingInv, TypeOK
<1> QED BY <1>7, <1>8

LEMMA NumbersKept ==
    ASSUME RingInv, Numbers, RingAct, Place(nextSeq') <= MaxSequences
    PROVE  Numbers'
<1>0. /\ \A q \in Seqs : Place(q) \in Int
      /\ nextSeq \in Seqs /\ seq \in [Slots -> Seqs]
  BY PlaceValue, SizesAssumption DEF Seqs, RingInv, TypeOK
<1>1. CASE Calm
  BY <1>1 DEF Calm, Numbers, Place
<1>2. ASSUME NEW w \in Writers, Reserve(w) PROVE Numbers'
  <2>1. PICK s \in Slots :
           /\ seq'[s] = nextSeq
           /\ \A t \in Slots \ {s} : /\ seq'[t] = seq[t]
                                     /\ state'[t] # "FREE" => state[t] # "FREE"
    BY <1>2, ReserveMoves
  <2>2. Place(nextSeq') = Place(nextSeq) + 1
    BY <1>2, ReserveMoves
  <2>3. \A t \in Slots \ {s} : state'[t] # "FREE" =>
            Place(seq'[t]) < Place(nextSeq) /\ Place(seq'[t]) \in Int /\ seq'[t] # nextSeq
    BY <1>0, <2>1 DEF Numbers
  <2>4. \A t \in Slots : state'[t] # "FREE" => Place(seq'[t]) < Place(nextSeq')
    BY <1>0, <2>1, <2>2, <2>3
  <2>5. \A t, u \in Slots : state'[t] # "FREE" /\ state'[u] # "FREE" /\ seq'[t] = seq'[u] => t = u
    BY <2>1, <2>3 DEF Numbers
  <2> QED BY <2>4, <2>5 DEF Numbers, Place
<1>3. ASSUME NEW w \in Writers, Abort(w) PROVE Numbers'
  <2>1. \A t \in Slots : state'[t] # "FREE" => state[t] # "FREE" /\ t # wslot[w] /\ seq'[t] = seq[t]
    BY <1>3, AbortMoves
  <2>2. \A t \in Slots : state'[t] # "FREE" => seq[t] # wseq[w]
    BY <1>3, <2>1, AbortMoves DEF Numbers
  <2>3. \A t \in Slots : state'[t] # "FREE" => Place(seq'[t]) < Place(nextSeq')
    BY <1>0, <1>3, <2>1, <2>2, AbortMoves DEF Numbers
  <2> QED BY <2>1, <2>3 DEF Numbers, Place
<1> QED BY <1>1, <1>2, <1>3, Moves

\* What is past stays past.
LEMMA PastKept ==
    ASSUME RingInv, Numbers, RingAct, NEW d \in StaleLeases, Past(d)
    PROVE  Past(d)'
<1> DEFINE q == d.lease.seq
           r == d.lease.slot
<1>0. /\ q \in Seqs /\ r \in Slots /\ Place(q) \in Int /\ nextSeq \in Seqs /\ Place(nextSeq) \in Int
  BY PlaceValue, SizesAssumption DEF StaleLeases, Leases, Seqs, RingInv, TypeOK
<1>1. /\ Place(q) < Place(nextSeq)
      /\ \A w \in Writers : wst[w] # "idle" => wseq[w] # q
      /\ seq[r] = q => d.idx \notin mask[r]
  BY DEF Past
<1> SUFFICES /\ Place(q) < Place(nextSeq')
             /\ \A w \in Writers : wst'[w] # "idle" => wseq'[w] # q
             /\ seq'[r] = q => d.idx \notin mask'[r]
  BY DEF Past, Place
<1> HIDE DEF q, r
<1>2. CASE Calm
  BY <1>0, <1>1, <1>2 DEF Calm
<1>3. ASSUME NEW w \in Writers, Reserve(w)
      PROVE  /\ Place(q) < Place(nextSeq')
             /\ \A v \in Writers : wst'[v] # "idle" => wseq'[v] # q
             /\ seq'[r] = q => d.idx \notin mask'[r]
  <2>1. q # nextSeq /\ Place(nextSeq') = Place(nextSeq) + 1
    BY <1>0, <1>1, <1>3, ReserveMoves
  <2>2. Place(q) < Place(nextSeq')
    BY <1>0, <1>1, <2>1
  <2>3. \A v \in Writers : wst'[v] # "idle" => wseq'[v] # q
    BY <1>1, <1>3, <2>1, ReserveMoves
  <2>4. seq'[r] = q => d.idx \notin mask'[r]
    BY <1>0, <1>1, <1>3, <2>1, ReserveMoves
  <2> QED BY <2>2, <2>3, <2>4
<1>4. ASSUME NEW w \in Writers, Abort(w)
      PROVE  /\ Place(q) < Place(nextSeq')
             /\ \A v \in Writers : wst'[v] # "idle" => wseq'[v] # q
             /\ seq'[r] = q => d.idx \notin mask'[r]
  <2>1. wseq[w] # q
    BY <1>1, <1>4, AbortMoves
  <2> QED BY <1>0, <1>1, <1>4, <2>1, AbortMoves
<1> QED BY <1>2, <1>3, <1>4, Moves

-----------------------------------------------------------------------------
(* Frames: the bridge commits what was filled, and nothing else.           *)

Still ==
    /\ UNCHANGED <<seq, payload, wpid>>
    /\ \A s \in Slots : state'[s] = "COMMITTED" => state[s] = "COMMITTED"
    /\ \A w \in Writers : wst'[w] = "filled" =>
          wst[w] = "filled" /\ wslot'[w] = wslot[w] /\ wseq'[w] = wseq[w]

\* Only three steps could show or spoil a frame.
LEMMA StillOrFrame ==
    ASSUME RingInv, RingAct
    PROVE  \/ Still
           \/ \E w \in Writers : \/ Reserve(w) \/ Fill(w)
                                 \/ Commit(w) /\ (wst[w] = "filled" \/ WriterHost[w] # Bridge)
<1>1. ASSUME NEW p \in Procs, ReapOnly(p) PROVE Still
  BY <1>1, ReapCalm DEF ReapOnly, Still, writerVars
<1>2. ASSUME NEW p \in Procs,
             Sweep(p) \/ ClaimProducer(p) \/ DropProducer(p) \/ HandBack(p) \/ Crash(p) \/ Restart(p)
      PROVE  Still
  <2>1. CASE Sweep(p)
    BY <1>1, <2>1 DEF Sweep
  <2>2. CASE ClaimProducer(p) \/ DropProducer(p) \/ HandBack(p) \/ Restart(p)
    BY <2>2 DEF ClaimProducer, DropProducer, HandBack, Restart, Still, slotVars, writerVars
  <2>3. CASE Crash(p)
    BY <2>3 DEF Crash, Still, slotVars
  <2> QED BY <1>2, <2>1, <2>2, <2>3
<1>3. ASSUME NEW w \in Writers, ReserveFull(w) PROVE Still
  BY <1>1, <1>3, ProcsAssumption DEF ReserveFull
<1>4. ASSUME NEW w \in Writers, Abort(w) PROVE Still
  BY <1>4 DEF Abort, WriterDone, Still, RingInv, TypeOK
<1>5. ASSUME NEW c \in Consumers, Register(c) PROVE Still
  <2>1. ConsumerHost[c] \in Procs
    BY ProcsAssumption
  <2> QED BY <1>5, <2>1, ReapCalm DEF Register, Still, writerVars
<1>6. ASSUME NEW c \in Consumers, RegisterFull(c) PROVE Still
  BY <1>1, <1>6, ProcsAssumption DEF RegisterFull
<1>7. ASSUME NEW c \in Consumers, Take(c) PROVE Still
  BY <1>7 DEF Take, Still, slotVars, writerVars
<1>8. ASSUME NEW c \in Consumers, PyClose(c) PROVE Still
  BY <1>8 DEF PyClose, Still, writerVars
<1>9. ASSUME NEW c \in Consumers, NEW l \in leases[c], Release(c, l) PROVE Still
  BY <1>9 DEF Release, Still, writerVars
<1>10. ASSUME NEW c \in Consumers, FinishReleaseStale(c) PROVE Still
  BY <1>10, StaleClears DEF Still, RingInv
<1>11. CASE UNCHANGED vars
  BY <1>11 DEF vars, Still
<1> QED
  BY <1>2, <1>3, <1>4, <1>5, <1>6, <1>7, <1>8, <1>9, <1>10, <1>11 DEF RingAct

LEMMA FramesKept ==
    ASSUME RingInv, Frames, RingAct
    PROVE  Frames'
<1>1. CASE Still
  BY <1>1 DEF Still, Frames
<1>2. ASSUME NEW w \in Writers, Reserve(w) PROVE Frames'
  <2> DEFINE p == WriterHost[w]
  <2>1. PICK s \in Slots :
           /\ Chosen(p, s)
           /\ state' = [ReapedState(p) EXCEPT ![s] = "WRITING"]
           /\ seq' = [seq EXCEPT ![s] = nextSeq]
           /\ wpid' = [wpid EXCEPT ![s] = p]
           /\ wslot' = [wslot EXCEPT ![w] = s]
    BY <1>2 DEF Reserve
  <2>2. /\ wst' = [wst EXCEPT ![w] = "writing"] /\ wseq' = [wseq EXCEPT ![w] = nextSeq]
        /\ payload' = payload
    BY <1>2 DEF Reserve
  <2>3. p \in Procs
    BY ProcsAssumption
  <2> HIDE DEF p
  <2>4. \A t \in Slots : state'[t] = "COMMITTED" =>
            t # s /\ state[t] = "COMMITTED" /\ seq'[t] = seq[t] /\ wpid'[t] = wpid[t]
    BY <2>1, <2>3, ReapCalm DEF RingInv, TypeOK, ReapedState
  <2>5. \A v \in Writers : wst'[v] = "filled" =>
            wst[v] = "filled" /\ wslot'[v] = wslot[v] /\ wseq'[v] = wseq[v]
    BY <2>1, <2>2 DEF RingInv, TypeOK
  <2> QED BY <2>2, <2>4, <2>5 DEF Frames
<1>3. ASSUME NEW w \in Writers, Fill(w) PROVE Frames'
  <2>1. /\ wst[w] # "idle" /\ wslot[w] \in Slots /\ state[wslot[w]] = "WRITING"
        /\ \A v \in Writers \ {w} : wst[v] # "idle" => wslot[v] \in Slots /\ wslot[v] # wslot[w]
    BY <1>3 DEF Fill, RingInv, WriterInv
  <2>2. /\ payload' = [payload EXCEPT ![wslot[w]] = wseq[w]]
        /\ wst' = [wst EXCEPT ![w] = "filled"]
        /\ UNCHANGED <<state, seq, wpid, wslot, wseq>>
    BY <1>3 DEF Fill
  <2>3. \A v \in Writers : wst'[v] = "filled" => payload'[wslot[v]] = wseq[v]
    BY <2>1, <2>2 DEF Frames, RingInv, TypeOK
  <2>4. \A s \in Slots : state[s] = "COMMITTED" => payload'[s] = payload[s]
    BY <2>1, <2>2 DEF RingInv, TypeOK
  <2> QED BY <2>2, <2>3, <2>4 DEF Frames
<1>4. ASSUME NEW w \in Writers, Commit(w), wst[w] = "filled" \/ WriterHost[w] # Bridge
      PROVE  Frames'
  <2>1. wst[w] # "idle"
    BY <1>4 DEF Commit
  <2>2. wslot[w] \in Slots /\ seq[wslot[w]] = wseq[w] /\ wpid[wslot[w]] = WriterHost[w]
    BY <2>1 DEF RingInv, WriterInv
  <2>3. wpid[wslot[w]] = Bridge => payload[wslot[w]] = seq[wslot[w]]
    BY <1>4, <2>2 DEF Frames
  <2>4. /\ UNCHANGED <<seq, payload, wpid>>
        /\ \A s \in Slots : s # wslot[w] => state'[s] = state[s]
        /\ \A v \in Writers : wst'[v] = "filled" =>
              wst[v] = "filled" /\ wslot'[v] = wslot[v] /\ wseq'[v] = wseq[v]
    BY <1>4 DEF Commit, WriterDone, RingInv, TypeOK
  <2> QED BY <2>2, <2>3, <2>4 DEF Frames
<1> QED BY <1>1, <1>2, <1>3, <1>4, StillOrFrame

-----------------------------------------------------------------------------
(* Arrays.  What a step does to the writers and leases that have some.     *)

\* Nothing happens to a writer or a lease that an array refers to.
Spared ==
    /\ \A w \in PyWriters : array[w] # 0 => wst'[w] # "idle" /\ wslot'[w] = wslot[w]
    /\ \A c \in Consumers : leases[c] \cap views[c] \subseteq leases'[c]

LEMMA SparedBy ==
    ASSUME UNCHANGED <<wst, wslot, leases>>, Arrays
    PROVE  Spared
BY DEF Spared, Arrays

\* A writer that has no array finishes, or gets its slot, or fills it.
LEMMA SparedByWriter ==
    ASSUME RingInv, Arrays, NEW w \in Writers,
           Reserve(w) \/ ReserveFull(w) \/ Fill(w) \/ Commit(w) \/ Abort(w),
           w \in PyWriters /\ array[w] # 0 => Fill(w)
    PROVE  Spared
<1>1. leases' = leases
  BY DEF Reserve, ReserveFull, ReapOnly, Fill, Commit, Abort, consumerVars
<1>2. \A v \in Writers \ {w} : wst'[v] = wst[v] /\ wslot'[v] = wslot[v]
  BY DEF Reserve, ReserveFull, ReapOnly, Fill, Commit, Abort, WriterDone, writerVars, RingInv, TypeOK
<1>3. Fill(w) => wst'[w] # "idle" /\ wslot'[w] = wslot[w]
  BY DEF Fill, RingInv, TypeOK
<1> QED BY <1>1, <1>2, <1>3, PyWritersAssumption, ProcsAssumption DEF Spared, Arrays

LEMMA SparedBySink ==
    ASSUME CoreInv, SinkStep
    PROVE  Spared
<1> USE DEF CoreInv
<1>0. \A w \in PyWriters : array[w] # 0 => w # PendingWriter /\ w # CopyWriter
  BY Parties DEF Arrays
<1>1. CASE Start \/ ExitMain \/ RoleReturned
  BY <1>1, SparedBy DEF Start, ExitMain, RoleReturned, ClaimProducer, DropProducer, HandBack, consumerVars, writerVars
<1>2. CASE AwaitConsumers \/ DecodeAside \/ EndOfClip
  BY <1>2, SparedBy DEF AwaitConsumers, DecodeAside, EndOfClip, vars
<1>3. CASE VideoDestination \/ PublishCopy
  BY <1>0, <1>3, Parties, SparedByWriter DEF VideoDestination, PublishCopy, ReserveOrFail
<1>4. CASE Decode
  BY <1>4, Parties, SparedByWriter DEF Decode
<1>5. CASE EpochReady
  BY <1>0, <1>5, Parties, SparedByWriter DEF EpochReady
<1>6. CASE EngineFails
  <2>1. CASE UNCHANGED vars
    BY <2>1, SparedBy DEF vars
  <2>2. CASE Abort(PendingWriter)
    BY <1>0, <2>2, Parties, SparedByWriter
  <2> QED BY <1>6, <2>1, <2>2 DEF EngineFails, AbortEpoch
<1> QED BY <1>1, <1>2, <1>3, <1>4, <1>5, <1>6 DEF SinkStep

\* Steps that leave the Python variables alone.
LEMMA SparedKeeps ==
    ASSUME CoreInv, Spared, UNCHANGED pyVars
    PROVE  Arrays' /\ Views' /\ PyTypes'
<1> USE DEF CoreInv, pyVars
<1>1. Arrays' /\ PyTypes'
  BY DEF Spared, Arrays, PyTypes
<1>2. Views'
  BY DEF Spared, Views, Unreleased
<1> QED BY <1>1, <1>2

\* The process of a bridge has no arrays and no Consumers to lose.
LEMMA BridgeCrashKeeps ==
    ASSUME CoreInv, Crash(Bridge), UNCHANGED pyVars
    PROVE  Arrays' /\ Views' /\ PyTypes'
<1> USE DEF CoreInv
<1>1. \A w \in PyWriters : array[w] # 0 => wst'[w] # "idle" /\ wslot'[w] = wslot[w]
  BY Parties DEF Crash, Arrays
<1>2. \A c \in Consumers : leases[c] \cap views[c] \subseteq leases'[c]
  BY DEF Crash, Views
<1> QED BY <1>1, <1>2, SparedKeeps DEF Spared

LEMMA PyCrashKeeps ==
    ASSUME CoreInv, NEW p \in Procs, p # Bridge, PyCrash(p)
    PROVE  Arrays' /\ Views' /\ PyTypes'
<1> USE DEF CoreInv
<1>1. /\ views' = [c \in Consumers |-> IF ConsumerHost[c] = p THEN {} ELSE views[c]]
      /\ stale' = [c \in Consumers |-> IF ConsumerHost[c] = p THEN {} ELSE stale[c]]
      /\ late' = [c \in Consumers |-> IF ConsumerHost[c] = p THEN {} ELSE late[c]]
      /\ array' = [w \in PyWriters |-> IF WriterHost[w] = p THEN 0 ELSE array[w]]
      /\ leases' = [c \in Consumers |-> IF ConsumerHost[c] = p THEN {} ELSE leases[c]]
      /\ wst' = [w \in Writers |-> IF WriterHost[w] = p THEN "idle" ELSE wst[w]]
      /\ wslot' = [w \in Writers |-> IF WriterHost[w] = p THEN 0 ELSE wslot[w]]
  BY DEF PyCrash, Crash
<1>2. PyTypes'
  BY <1>1, SizesAssumption DEF PyTypes
<1>3. Arrays'
  BY <1>1, Parties DEF Arrays
<1>4. Views'
  BY <1>1 DEF Views, Unreleased
<1> QED BY <1>2, <1>3, <1>4

LEMMA PyConsumerKeeps ==
    ASSUME CoreInv, NEW c \in Consumers, ConsumerHost[c] # Bridge,
           \/ (Register(c) \/ RegisterFull(c) \/ Take(c)) /\ UNCHANGED pyVars
           \/ View(c) \/ DropViews(c) \/ PyRelease(c) \/ PyClose(c)
           \/ StartReleaseStale(c) \/ FinishReleaseStale(c)
    PROVE  Arrays' /\ Views' /\ PyTypes'
<1> USE DEF CoreInv
<1>1. CASE (Register(c) \/ RegisterFull(c) \/ Take(c)) /\ UNCHANGED pyVars
  <2>1. UNCHANGED <<wst, wslot>>
    BY <1>1 DEF Register, RegisterFull, ReapOnly, Take, writerVars
  <2>2. \A d \in Consumers : leases[d] \subseteq leases'[d]
    BY <1>1 DEF Register, RegisterFull, ReapOnly, Take, consumerVars, RingInv, TypeOK
  <2> QED BY <1>1, <2>1, <2>2, SparedKeeps DEF Spared, Arrays
<1>2. CASE View(c) \/ DropViews(c)
  <2>1. UNCHANGED <<wst, wslot, leases, stale, late, array>>
    BY <1>2 DEF View, DropViews, ringVars, vars
  <2>2. PICK V \in SUBSET Leases : views' = [views EXCEPT ![c] = V] /\ V \subseteq Unreleased(c)
    <3>1. Unreleased(c) \in SUBSET Leases
      BY DEF Unreleased, PyTypes, StaleLeases, RingInv, TypeOK
    <3> QED BY <1>2, <3>1 DEF View, DropViews, Views, PyTypes
  <2>3. Arrays'
    BY <2>1 DEF Arrays
  <2>4. Views'
    BY <2>1, <2>2 DEF Views, Unreleased, PyTypes
  <2>5. PyTypes'
    BY <2>1, <2>2 DEF PyTypes
  <2> QED BY <2>3, <2>4, <2>5
<1>3. CASE PyRelease(c)
  <2>1. PICK l \in leases[c] : l \notin views[c] /\ Release(c, l)
    BY <1>3 DEF PyRelease, MayRelease
  <2>2. UNCHANGED <<wst, wslot>> /\ leases' = [leases EXCEPT ![c] = @ \ {l}]
    BY <2>1 DEF Release, writerVars
  <2>3. \A d \in Consumers : leases[d] \cap views[d] \subseteq leases'[d]
    BY <2>1, <2>2 DEF RingInv, TypeOK
  <2> QED BY <1>3, <2>2, <2>3, SparedKeeps DEF PyRelease, Spared, Arrays
<1>4. CASE PyClose(c)
  <2>1. /\ stale' = [stale EXCEPT ![c] = @ \cup {[lease |-> l, idx |-> idx[c]] : l \in leases[c]}]
        /\ leases' = [leases EXCEPT ![c] = {}]
        /\ UNCHANGED <<wst, wslot, views, late, array>>
    BY <1>4 DEF PyClose, writerVars
  <2>2. idx[c] \in Entries /\ leases[c] \in SUBSET Leases
    BY <1>4 DEF PyClose, RingInv, EntryInv, TypeOK
  <2>3. {[lease |-> l, idx |-> idx[c]] : l \in leases[c]} \in SUBSET StaleLeases
    BY <2>2 DEF StaleLeases
  <2>4. PyTypes'
    BY <2>1, <2>3 DEF PyTypes
  <2>5. Arrays'
    BY <2>1 DEF Arrays
  <2>6. Views'
    <3>1. \A d \in Consumers \ {c} : stale'[d] = stale[d] /\ leases'[d] = leases[d]
      BY <2>1 DEF PyTypes, RingInv, TypeOK
    <3>2. stale'[c] = stale[c] \cup {[lease |-> l, idx |-> idx[c]] : l \in leases[c]}
      BY <2>1 DEF PyTypes
    <3>3. ASSUME NEW l \in leases[c] PROVE l \in {e.lease : e \in stale'[c]}
      <4>1. [lease |-> l, idx |-> idx[c]] \in stale'[c]
        BY <3>2
      <4>2. [lease |-> l, idx |-> idx[c]].lease = l
        OBVIOUS
      <4> QED BY <4>1, <4>2
    <3>4. {e.lease : e \in stale[c]} \subseteq {e.lease : e \in stale'[c]}
      BY <3>2
    <3>5. views[c] \subseteq leases'[c] \cup {e.lease : e \in stale'[c]}
      BY <3>3, <3>4 DEF Views, Unreleased
    <3>6. ConsumerHost[c] # Bridge
      OBVIOUS
    <3> QED BY <2>1, <3>1, <3>5, <3>6 DEF Views, Unreleased
  <2> QED BY <2>4, <2>5, <2>6
<1>5. CASE StartReleaseStale(c)
  <2>1. PICK d \in stale[c] :
           /\ d.lease \notin views[c] /\ stale' = [stale EXCEPT ![c] = @ \ {d}]
           /\ late' = IF SameOccupant(d) THEN [late EXCEPT ![c] = @ \cup {d}] ELSE late
    BY <1>5 DEF StartReleaseStale, MayRelease
  <2>2. UNCHANGED <<wst, wslot, leases, views, array>>
    BY <1>5 DEF StartReleaseStale, ringVars, vars
  <2>3. d \in StaleLeases
    BY DEF PyTypes
  <2>4. PyTypes' /\ Arrays'
    BY <2>1, <2>2, <2>3 DEF PyTypes, Arrays
  <2>5. Views'
    <3>1. \A e \in Consumers \ {c} : stale'[e] = stale[e]
      BY <2>1 DEF PyTypes
    <3>2. stale'[c] = stale[c] \ {d}
      BY <2>1 DEF PyTypes
    <3>3. views[c] \subseteq leases[c] \cup {e.lease : e \in stale'[c]}
      BY <2>1, <3>2 DEF Views, Unreleased
    <3> QED BY <2>2, <3>1, <3>3 DEF Views, Unreleased
  <2> QED BY <2>4, <2>5
<1>6. CASE FinishReleaseStale(c)
  <2>1. UNCHANGED <<wst, wslot, leases, views, stale, array>>
    BY <1>6 DEF FinishReleaseStale, consumerVars, writerVars
  <2>2. PICK d \in late[c] : late' = [late EXCEPT ![c] = @ \ {d}]
    BY <1>6 DEF FinishReleaseStale
  <2> QED BY <2>1, <2>2 DEF PyTypes, Arrays, Views, Unreleased
<1> QED BY <1>1, <1>2, <1>3, <1>4, <1>5, <1>6

LEMMA PyWriterKeeps ==
    ASSUME CoreInv, NEW w \in PyWriters, WriterHost[w] # Bridge,
           \/ PyReserve(w) \/ CopyIn(w) \/ Expose(w) \/ WriteArray(w) \/ DropArray(w)
           \/ Finish(w)
    PROVE  Arrays' /\ Views' /\ PyTypes'
<1> USE DEF CoreInv
<1>0. w \in Writers
  BY Parties
<1>1. CASE PyReserve(w)
  <2>1. array[w] = 0
    BY <1>1 DEF PyReserve, Reserve, ReserveFull, Arrays
  <2> QED BY <1>0, <1>1, <2>1, SparedByWriter, SparedKeeps DEF PyReserve
<1>2. CASE CopyIn(w) \/ WriteArray(w)
  <2>1. Fill(w) /\ UNCHANGED pyVars
    BY <1>2, WriteArrayFills DEF CopyIn, WriteArray, pyVars
  <2> QED BY <1>0, <2>1, SparedByWriter, SparedKeeps
<1>3. CASE Finish(w)
  BY <1>0, <1>3, SparedByWriter, SparedKeeps DEF Finish, MayFinish
<1>4. CASE Expose(w) \/ DropArray(w)
  <2>1. UNCHANGED <<wst, wslot, leases, views, stale, late>>
    BY <1>4 DEF Expose, DropArray, ringVars, vars
  <2>2. /\ array' = [array EXCEPT ![w] = wslot[w]] /\ wst[w] # "idle"
        \/ array' = [array EXCEPT ![w] = 0]
    BY <1>4 DEF Expose, DropArray
  <2>3. wslot[w] \in 0 .. SlotCount
    BY <1>0 DEF RingInv, TypeOK
  <2>4. PyTypes'
    BY <2>1, <2>2, <2>3, SizesAssumption DEF PyTypes
  <2>5. Arrays'
    BY <2>1, <2>2 DEF Arrays, PyTypes
  <2>6. Views'
    BY <2>1 DEF Views, Unreleased
  <2> QED BY <2>4, <2>5, <2>6
<1> QED BY <1>1, <1>2, <1>3, <1>4

LEMMA ArraysKept ==
    ASSUME CoreInv, LiveNext
    PROVE  Arrays' /\ Views' /\ PyTypes'
<1>0. Arrays
  BY DEF CoreInv
<1>1. CASE SinkStep /\ UNCHANGED pyVars
  BY <1>1, SparedBySink, SparedKeeps
<1>2. CASE BridgeCrash /\ UNCHANGED pyVars
  BY <1>2, BridgeCrashKeeps DEF BridgeCrash
<1>3. ASSUME NEW p \in Procs \ {Bridge}, PyStep(p) PROVE Arrays' /\ Views' /\ PyTypes'
  <2>1. CASE (Sweep(p) \/ ClaimProducer(p) \/ DropProducer(p) \/ HandBack(p)) /\ UNCHANGED pyVars
    <3>1. UNCHANGED <<wst, wslot, leases>>
      BY <2>1 DEF Sweep, ReapOnly, ClaimProducer, DropProducer, HandBack, writerVars, consumerVars
    <3> QED BY <1>0, <2>1, <3>1, SparedBy, SparedKeeps
  <2>2. ASSUME NEW c \in Consumers, ConsumerHost[c] = p,
               \/ (Register(c) \/ RegisterFull(c) \/ Take(c)) /\ UNCHANGED pyVars
               \/ View(c) \/ DropViews(c) \/ PyRelease(c) \/ PyClose(c)
               \/ StartReleaseStale(c) \/ FinishReleaseStale(c)
        PROVE  Arrays' /\ Views' /\ PyTypes'
    <3>1. ConsumerHost[c] # Bridge
      BY <2>2
    <3> QED BY <2>2, <3>1, PyConsumerKeeps
  <2>3. ASSUME NEW w \in PyWriters, WriterHost[w] = p,
               \/ PyReserve(w) \/ CopyIn(w) \/ Expose(w) \/ WriteArray(w) \/ DropArray(w)
               \/ Finish(w)
        PROVE  Arrays' /\ Views' /\ PyTypes'
    <3>1. WriterHost[w] # Bridge
      BY <2>3
    <3> QED BY <2>3, <3>1, PyWriterKeeps
  <2> QED BY <1>3, <2>1, <2>2, <2>3 DEF PyStep, CallStep
<1>4. ASSUME NEW p \in Procs \ {Bridge}, PyCrash(p) PROVE Arrays' /\ Views' /\ PyTypes'
  BY <1>4, PyCrashKeeps
<1>5. ASSUME NEW p \in Procs, Restart(p), UNCHANGED pyVars PROVE Arrays' /\ Views' /\ PyTypes'
  <2>1. UNCHANGED <<wst, wslot, leases>>
    BY <1>5 DEF Restart, writerVars, consumerVars
  <2> QED BY <1>0, <1>5, <2>1, SparedBy, SparedKeeps
<1> QED BY <1>1, <1>2, <1>3, <1>4, <1>5 DEF LiveNext

-----------------------------------------------------------------------------
(* What holds whether or not a stale release is overtaken.                 *)

LEMMA CoreInitial ==
    ASSUME LiveInit
    PROVE  CoreInv
<1>1. RingInv
  BY TypeInit DEF LiveInit, Init, RingInv, EntryInv, WriterInv
<1>2. FirstSeq \in Seqs /\ FirstSeq \in Int
  BY SizesAssumption DEF Seqs
<1>3. Place(FirstSeq) = 0
  BY <1>2, PlaceValue
<1>4. 0 <= MaxSequences
  BY SizesAssumption, LiveAssumption
<1>5. Numbers
  BY <1>3, <1>4 DEF LiveInit, Init, Numbers
<1>6. PyTypes /\ Arrays /\ Views
  BY SizesAssumption DEF LiveInit, PyInit, PyTypes, Arrays, Views
<1>7. Frames
  BY DEF LiveInit, Init, Frames
<1> QED BY <1>1, <1>5, <1>6, <1>7 DEF CoreInv

LEMMA CoreStep ==
    ASSUME CoreInv, [LiveNext]_liveVars
    PROVE  CoreInv'
<1> USE DEF CoreInv
<1>1. RingAct
  BY RingActs DEF liveVars, RingAct
<1>2. RingInv' /\ Frames'
  BY <1>1, RingKept, FramesKept
<1>3. CASE LiveNext
  <2>1. Place(nextSeq') <= MaxSequences
    BY <1>3 DEF LiveNext, Place
  <2>2. Numbers'
    BY <1>1, <2>1, NumbersKept
  <2> QED BY <1>2, <1>3, <2>2, ArraysKept
<1>4. CASE UNCHANGED liveVars
  <2>1. UNCHANGED vars /\ UNCHANGED pyVars
    BY <1>4 DEF liveVars
  <2>2. Numbers'
    BY <2>1 DEF vars, Numbers, Place
  <2>3. PyTypes' /\ Arrays' /\ Views'
    BY <2>1 DEF vars, pyVars, PyTypes, Arrays, Views, Unreleased
  <2> QED BY <1>2, <2>2, <2>3
<1> QED BY <1>3, <1>4

LEMMA CoreInvariant == LiveSpec => []CoreInv
<1>1. LiveInit => CoreInv
  BY CoreInitial
<1>2. CoreInv /\ [LiveNext]_liveVars => CoreInv'
  BY CoreStep
<1> QED BY <1>1, <1>2, PTL DEF LiveSpec

\* No array a caller kept writes into a published slot: the export count of SlotWriter
\* refuses a commit while there is one.
THEOREM PublishedKept == LiveSpec => PublishedFrozen
<1>1. ASSUME CoreInv, [LiveNext]_liveVars
      PROVE  \A s \in Slots : state[s] = "COMMITTED" /\ state'[s] = "COMMITTED" =>
                payload'[s] = payload[s]
  <2>1. RingAct
    BY <1>1, RingActs DEF liveVars, RingAct
  <2>2. ASSUME NEW w \in Writers, Fill(w), NEW s \in Slots, state[s] = "COMMITTED"
        PROVE  payload'[s] = payload[s]
    <3>1. wslot[w] # s
      BY <1>1, <2>2 DEF Fill, CoreInv, RingInv, WriterInv
    <3> QED BY <1>1, <2>2, <3>1 DEF Fill, CoreInv, RingInv, TypeOK
  <2>3. CASE \A w \in Writers : ~Fill(w)
    BY <2>1, <2>3 DEF RingAct, vars, Sweep, ReapOnly, ClaimProducer, DropProducer, HandBack, Crash, Restart,
       Reserve, ReserveFull, Abort, Commit, Register, RegisterFull, Take, PyClose, Release,
       FinishReleaseStale, slotVars
  <2> QED BY <2>2, <2>3
<1> QED BY <1>1, CoreInvariant, PTL DEF LiveSpec, PublishedFrozen

-----------------------------------------------------------------------------
(* Leases, as long as no stale release is overtaken.  A lease is stale     *)
(* from when its Consumer is closed.                                       *)

\* A stale release finds nothing to clear.
LEMMA StaleReleaseIdle ==
    ASSUME LiveIInv, NEW c \in Consumers, FinishReleaseStale(c)
    PROVE  UNCHANGED vars
<1>1. PICK d \in late[c] : mask' = [mask EXCEPT ![d.lease.slot] = @ \ {d.idx}]
  BY DEF FinishReleaseStale
<1>2. d \in StaleLeases /\ Past(d) /\ seq[d.lease.slot] = d.lease.seq
  BY DEF LiveIInv, CoreInv, PyTypes, StaleInv, LateInv
<1>3. d.lease.slot \in Slots /\ d.idx \notin mask[d.lease.slot]
  BY <1>2 DEF StaleLeases, Leases, Past
<1>4. mask' = mask
  BY <1>1, <1>3 DEF LiveIInv, CoreInv, RingInv, TypeOK
<1> QED
  BY <1>4 DEF FinishReleaseStale, vars, registryVars, procVars, handleVars, consumerVars, writerVars

LEMMA LeasesKept ==
    ASSUME LiveIInv, RingAct
    PROVE  LeaseInv'
<1> USE DEF LiveIInv, CoreInv, RingInv
<1>1. ASSUME NEW c \in Consumers, PyClose(c) PROVE LeaseInv'
  BY <1>1, CloseKeeps
<1>2. CASE ~ \E c \in Consumers : PyClose(c)
  <2>1. [Next]_vars
    BY <1>2, StaleReleaseIdle DEF RingAct, Next
  <2> QED BY <2>1, LeaseStep DEF IInv
<1> QED BY <1>1, <1>2

LEMMA StaleGrowsByClose ==
    ASSUME CoreInv, LiveNext, NEW c \in Consumers,
           NEW d \in stale'[c] \cup late'[c], d \notin stale[c] \cup late[c]
    PROVE  PyClose(c) /\ \E l \in leases[c] : d = [lease |-> l, idx |-> idx[c]]
<1>0. stale \in [Consumers -> SUBSET StaleLeases] /\ late \in [Consumers -> SUBSET StaleLeases]
  BY DEF CoreInv, PyTypes
<1>1. ~ UNCHANGED <<stale, late>>
  OBVIOUS
<1>2. ~ UNCHANGED pyVars
  BY <1>1 DEF pyVars
<1>3. PICK p \in Procs \ {Bridge} : PyStep(p) \/ PyCrash(p)
  BY <1>2 DEF LiveNext
<1>4. ~ PyCrash(p)
  BY DEF PyCrash
<1>5. ASSUME NEW e \in Consumers, PyClose(e)
      PROVE  PyClose(c) /\ \E l \in leases[c] : d = [lease |-> l, idx |-> idx[c]]
  <2>1. /\ stale' = [stale EXCEPT ![e] = @ \cup {[lease |-> l, idx |-> idx[e]] : l \in leases[e]}]
        /\ late' = late
    BY <1>5 DEF PyClose
  <2>2. e = c
    BY <1>0, <2>1
  <2>3. stale'[c] = stale[c] \cup {[lease |-> l, idx |-> idx[c]] : l \in leases[c]}
    BY <1>0, <2>1, <2>2
  <2> QED BY <1>5, <2>1, <2>2, <2>3
<1>6. ASSUME NEW e \in Consumers, StartReleaseStale(e) PROVE FALSE
  <2>1. PICK f \in stale[e] :
           /\ stale' = [stale EXCEPT ![e] = @ \ {f}]
           /\ late' = IF SameOccupant(f) THEN [late EXCEPT ![e] = @ \cup {f}] ELSE late
    BY <1>6 DEF StartReleaseStale
  <2>2. stale'[c] \subseteq stale[c] /\ late'[c] \subseteq late[c] \cup stale[c]
    BY <1>0, <2>1
  <2> QED BY <2>2
<1>7. ASSUME NEW e \in Consumers, FinishReleaseStale(e) PROVE FALSE
  <2>1. stale' = stale /\ \E f \in late[e] : late' = [late EXCEPT ![e] = @ \ {f}]
    BY <1>7 DEF FinishReleaseStale
  <2> QED BY <1>0, <2>1
<1>8. CASE \E e \in Consumers : View(e) \/ DropViews(e) \/ PyRelease(e)
  BY <1>1, <1>2, <1>8 DEF View, DropViews, PyRelease
<1>9. ASSUME NEW w \in PyWriters,
             \/ PyReserve(w) \/ CopyIn(w) \/ Expose(w) \/ WriteArray(w) \/ DropArray(w)
             \/ Finish(w)
      PROVE  FALSE
  BY <1>1, <1>2, <1>9 DEF PyReserve, CopyIn, Expose, WriteArray, DropArray, Finish, pyVars
<1> QED BY <1>2, <1>3, <1>4, <1>5, <1>6, <1>7, <1>8, <1>9 DEF PyStep, CallStep

LEMMA StaleKept ==
    ASSUME LiveIInv, LiveNext
    PROVE  StaleInv'
<1> USE DEF LiveIInv, CoreInv
<1> SUFFICES ASSUME NEW c \in Consumers, NEW d \in stale'[c] \cup late'[c] PROVE Past(d)'
  BY DEF StaleInv
<1>1. CASE d \in stale[c] \cup late[c]
  <2>1. d \in StaleLeases /\ Past(d)
    BY <1>1 DEF PyTypes, StaleInv
  <2> QED BY <2>1, RingActs, PastKept
<1>2. CASE d \notin stale[c] \cup late[c]
  <2>1. PyClose(c)
    BY <1>2, StaleGrowsByClose
  <2>2. PICK l \in leases[c] : d = [lease |-> l, idx |-> idx[c]]
    BY <1>2, StaleGrowsByClose
  <2>3. d.lease = l /\ d.idx = idx[c]
    BY <2>2
  <2>4. l.slot \in Slots /\ state[l.slot] = "COMMITTED" /\ seq[l.slot] = l.seq
    BY LeaseSlots DEF RingInv, LeaseInv
  <2>5. Place(l.seq) < Place(nextSeq)
    BY <2>4 DEF Numbers
  <2>6. ASSUME NEW w \in Writers, wst[w] # "idle" PROVE wseq[w] # l.seq
    <3>1. wslot[w] \in Slots /\ state[wslot[w]] = "WRITING" /\ seq[wslot[w]] = wseq[w]
      BY <2>6 DEF RingInv, WriterInv
    <3> QED BY <2>4, <3>1 DEF Numbers
  <2>7. /\ UNCHANGED <<nextSeq, seq, wst, wseq>>
        /\ mask' = [s \in Slots |-> mask[s] \ {idx[c]}]
    BY <2>1 DEF PyClose, writerVars
  <2>8. idx[c] \notin mask'[l.slot]
    BY <2>4, <2>7
  <2> QED BY <2>3, <2>5, <2>6, <2>7, <2>8 DEF Past, Place
<1> QED BY <1>1, <1>2

\* A lease has its publication in place when its release begins, and as long as the
\* slot is not given a new one.
LEMMA LateKept ==
    ASSUME LiveIInv, LiveNext, NotOvertaken
    PROVE  LateInv'
<1> USE DEF LiveIInv, CoreInv
<1> SUFFICES ASSUME NEW c \in Consumers, NEW d \in late'[c]
             PROVE  seq'[d.lease.slot] = d.lease.seq
  BY DEF LateInv
<1>1. CASE d \in late[c]
  BY <1>1 DEF LateInv, NotOvertaken
<1>2. CASE d \notin late[c]
  <2>0. late \in [Consumers -> SUBSET StaleLeases]
    BY DEF PyTypes
  <2>1. late' # late
    BY <1>2
  <2>2. PICK p \in Procs \ {Bridge} : PyStep(p) \/ PyCrash(p)
    BY <2>1 DEF LiveNext, pyVars
  <2>3. ~ PyCrash(p)
    BY <1>2 DEF PyCrash
  <2>4. ASSUME NEW e \in Consumers, StartReleaseStale(e)
        PROVE  seq'[d.lease.slot] = d.lease.seq
    <3>1. seq' = seq /\ \E f \in stale[e] :
             late' = IF SameOccupant(f) THEN [late EXCEPT ![e] = @ \cup {f}] ELSE late
      BY <2>4 DEF StartReleaseStale, ringVars, vars
    <3>2. SameOccupant(d)
      BY <1>2, <2>0, <3>1
    <3> QED BY <3>1, <3>2 DEF SameOccupant
  <2>5. ASSUME NEW e \in Consumers, FinishReleaseStale(e) PROVE FALSE
    <3>1. \E f \in late[e] : late' = [late EXCEPT ![e] = @ \ {f}]
      BY <2>5 DEF FinishReleaseStale
    <3> QED BY <1>2, <2>0, <3>1
  <2>6. ASSUME NEW e \in Consumers, View(e) \/ DropViews(e) \/ PyRelease(e) \/ PyClose(e)
        PROVE  FALSE
    BY <2>1, <2>6 DEF View, DropViews, PyRelease, PyClose, pyVars
  <2>7. ASSUME NEW w \in PyWriters,
               \/ PyReserve(w) \/ CopyIn(w) \/ Expose(w) \/ WriteArray(w) \/ DropArray(w)
               \/ Finish(w)
        PROVE  FALSE
    BY <2>1, <2>7 DEF PyReserve, CopyIn, Expose, WriteArray, DropArray, Finish, pyVars
  <2>8. ~ UNCHANGED pyVars
    BY <2>1 DEF pyVars
  <2> QED BY <2>2, <2>3, <2>4, <2>5, <2>6, <2>7, <2>8 DEF PyStep, CallStep
<1> QED BY <1>1, <1>2

LEMMA LiveInitial ==
    ASSUME LiveInit
    PROVE  LiveIInv
<1>1. LeaseInv /\ StaleInv /\ LateInv
  BY DEF LiveInit, Init, PyInit, LeaseInv, StaleInv, LateInv
<1> QED BY <1>1, CoreInitial DEF LiveIInv

LEMMA LiveStep ==
    ASSUME NoStaleReleaseRaces, LiveIInv, [LiveNext]_liveVars
    PROVE  LiveIInv'
<1>1. CoreInv'
  BY CoreStep DEF LiveIInv
<1>2. RingAct
  BY RingActs DEF LiveIInv, liveVars, RingAct
<1>3. LeaseInv'
  BY <1>2, LeasesKept
<1>4. CASE LiveNext
  <2>1. NotOvertaken
    BY <1>4 DEF LiveNext, NoStaleReleaseRaces
  <2> QED BY <1>1, <1>3, <1>4, <2>1, StaleKept, LateKept DEF LiveIInv
<1>5. CASE UNCHANGED liveVars
  <2>1. UNCHANGED vars /\ UNCHANGED pyVars
    BY <1>5 DEF liveVars
  <2>2. StaleInv' /\ LateInv'
    BY <2>1 DEF vars, pyVars, LiveIInv, StaleInv, LateInv, Past, Place
  <2> QED BY <1>1, <1>3, <2>2 DEF LiveIInv
<1> QED BY <1>4, <1>5

LEMMA LiveInvariant ==
    ASSUME NoStaleReleaseRaces
    PROVE  LiveSpec => []LiveIInv
<1>1. LiveInit => LiveIInv
  BY LiveInitial
<1>2. LiveIInv /\ [LiveNext]_liveVars => LiveIInv'
  BY LiveStep
<1> QED BY <1>1, <1>2, PTL DEF LiveSpec

-----------------------------------------------------------------------------
(* The properties.                                                         *)

\* A NumPy or PyTorch array over a leased slot shows the delivered bytes for as long
\* as its Consumer is open: the export count of Lease refuses the release that would
\* let the producer have the slot.
\* This holds as long as no release of a stale lease is overtaken: the bit of the lease
\* may be cleared by one that is.
THEOREM ViewsKept ==
    ASSUME NoStaleReleaseRaces
    PROVE  LiveSpec => []ViewsUndisturbed
<1>1. LiveIInv => ViewsUndisturbed
  <2> SUFFICES ASSUME LiveIInv, NEW c \in Consumers,
                      NEW l \in views[c] \ {d.lease : d \in stale[c]}
               PROVE  state[l.slot] = "COMMITTED" /\ seq[l.slot] = l.seq /\ payload[l.slot] = l.data
    BY DEF ViewsUndisturbed
  <2>1. l \in leases[c]
    BY DEF LiveIInv, CoreInv, Views, Unreleased
  <2> QED BY <2>1 DEF LiveIInv, LeaseInv
<1> QED BY <1>1, LiveInvariant, PTL

\* A slot that nobody may take away: committed, or its writer stays at work on it.
Kept(s) ==
    \/ state[s] = "COMMITTED"
    \/ \E w \in Writers : wst[w] # "idle" /\ wst'[w] # "idle" /\ wslot[w] = s

\* An open consumer's bit in such a slot goes only with a lease of its own.
LEMMA OwnRelease ==
    ASSUME LiveIInv, [LiveNext]_liveVars, NEW c \in Consumers, NEW s \in Slots,
           cst[c] = "open", cst'[c] = "open", idx[c] \in mask[s], Kept(s)
    PROVE  idx[c] \in mask'[s] \/ \E l \in leases[c] \ leases'[c] : l.slot = s
<1> DEFINE Gone == \E l \in leases[c] \ leases'[c] : l.slot = s
<1> SUFFICES idx[c] \in mask'[s] \/ Gone
  OBVIOUS
<1> USE DEF LiveIInv, CoreInv
<1>0. RingAct
  BY RingActs DEF liveVars, RingAct
<1>1. ASSUME NEW p \in Procs
      PROVE  s \notin AbandonedSlots(p) /\ idx[c] \in ReapedMask(p)[s]
  <2>1. s \notin AbandonedSlots(p)
    <3>1. CASE state[s] = "COMMITTED"
      BY <3>1 DEF AbandonedSlots
    <3>2. CASE \E w \in Writers : wst[w] # "idle" /\ wslot[w] = s
      <4>1. ReapedState(p)[s] = "WRITING"
        BY <3>2, ReapKeepsWriters DEF RingInv
      <4> QED BY <4>1 DEF ReapedState
    <3> QED BY <3>1, <3>2 DEF Kept
  <2> QED BY <2>1, ReapKeepsEntries DEF RingInv, ReapedMask
<1>2. ASSUME NEW p \in Procs, ReapOnly(p) PROVE idx[c] \in mask'[s]
  BY <1>1, <1>2 DEF ReapOnly
<1>3. ASSUME NEW w \in Writers, Reserve(w) PROVE idx[c] \in mask'[s]
  <2> DEFINE p == WriterHost[w]
  <2>1. p \in Procs
    BY ProcsAssumption
  <2>2. PICK t \in Slots : /\ Chosen(p, t)
                           /\ mask' = [ReapedMask(p) EXCEPT ![t] = Registered(p)]
    BY <1>3 DEF Reserve
  <2> HIDE DEF p
  <2>3. t # s
    <3>1. ReapedState(p)[s] # "FREE"
      BY <1>1, <2>1 DEF ReapedState, Kept, RingInv, WriterInv
    <3> QED BY <1>1, <2>1, <2>2, <3>1 DEF Chosen, Reclaimable
  <2> QED BY <1>1, <2>1, <2>2, <2>3 DEF ReapedMask
<1>4. ASSUME NEW w \in Writers, Abort(w) PROVE idx[c] \in mask'[s]
  <2>1. wst[w] # "idle" /\ wst'[w] = "idle"
    BY <1>4 DEF Abort, WriterDone, RingInv, TypeOK
  <2>2. wslot[w] # s
    BY <2>1 DEF Kept, RingInv, WriterInv
  <2> QED BY <1>4, <2>2 DEF Abort, RingInv, TypeOK
<1>5. ASSUME NEW d \in Consumers, Register(d) PROVE idx[c] \in mask'[s]
  <2>1. ConsumerHost[d] \in Procs
    BY ProcsAssumption
  <2> QED BY <1>1, <1>5, <2>1 DEF Register
<1>6. ASSUME NEW d \in Consumers, NEW l \in leases[d], Release(d, l)
      PROVE  idx[c] \in mask'[s] \/ Gone
  <2>1. l.slot \in Slots /\ cst[d] = "open"
    BY LeaseSlots DEF RingInv, LeaseInv
  <2>2. CASE d # c
    <3>1. idx[d] # idx[c]
      BY <2>1, <2>2 DEF RingInv, EntryInv
    <3> QED BY <1>6, <2>1, <3>1 DEF Release, RingInv, TypeOK
  <2>3. CASE d = c /\ l.slot = s
    BY <1>6, <2>3 DEF Release, RingInv, TypeOK
  <2>4. CASE l.slot # s
    BY <1>6, <2>1, <2>4 DEF Release, RingInv, TypeOK
  <2> QED BY <2>2, <2>3, <2>4
<1>7. ASSUME NEW d \in Consumers, PyClose(d) PROVE idx[c] \in mask'[s]
  <2>1. d # c /\ cst[d] = "open"
    BY <1>7 DEF PyClose, RingInv, TypeOK
  <2>2. idx[d] # idx[c]
    BY <2>1 DEF RingInv, EntryInv
  <2> QED BY <1>7, <2>2 DEF PyClose
<1>8. CASE UNCHANGED mask
  BY <1>8
<1>9. ASSUME NEW p \in Procs, ClaimProducer(p) \/ DropProducer(p) \/ HandBack(p) \/ Crash(p) \/ Restart(p)
      PROVE  UNCHANGED mask
  BY <1>9 DEF ClaimProducer, DropProducer, HandBack, Crash, Restart, slotVars
<1>10. ASSUME NEW w \in Writers, Fill(w) \/ Commit(w) PROVE UNCHANGED mask
  BY <1>10 DEF Fill, Commit
<1>11. ASSUME NEW d \in Consumers, Take(d) PROVE UNCHANGED mask
  BY <1>11 DEF Take, slotVars
<1>12. ASSUME NEW w \in Writers, ReserveFull(w) PROVE idx[c] \in mask'[s]
  BY <1>2, <1>12, ProcsAssumption DEF ReserveFull
<1>13. ASSUME NEW d \in Consumers, RegisterFull(d) PROVE idx[c] \in mask'[s]
  BY <1>2, <1>13, ProcsAssumption DEF RegisterFull
<1>14. UNCHANGED vars => UNCHANGED mask
  BY DEF vars
<1>15. ASSUME NEW d \in Consumers, FinishReleaseStale(d) PROVE UNCHANGED mask
  BY <1>14, <1>15, StaleReleaseIdle
<1> HIDE DEF Gone
<1> QED
  BY <1>0, <1>2, <1>3, <1>4, <1>5, <1>6, <1>7, <1>8, <1>9, <1>10, <1>11, <1>12, <1>13, <1>14,
     <1>15
  DEF RingAct, Sweep

\* A publication stays addressed to an open consumer until the consumer lets go of it:
\* neither close nor reap_dead takes its bit, though consumer indices are reused, nor
\* the release of a stale Lease, whose fetch_and clears the index that was the closed
\* Consumer's, unless the slot is given a new publication after the look at its sequence.
THEOREM OwnReleaseOnly ==
    ASSUME NoStaleReleaseRaces
    PROVE  LiveSpec => OnlyReadersLetGo
<1>1. LiveIInv /\ [LiveNext]_liveVars =>
        \A c \in Consumers : \A s \in Slots :
          (/\ cst[c] = "open" /\ cst'[c] = "open"
           /\ state[s] = "COMMITTED" /\ idx[c] \in mask[s] /\ idx[c] \notin mask'[s])
              => \E l \in leases[c] \ leases'[c] : l.slot = s
  BY OwnRelease DEF Kept
<1> QED BY <1>1, LiveInvariant, PTL DEF LiveSpec, OnlyReadersLetGo

\* No frame of the bridge is seen half decoded, also after abort_epoch, a crash of the
\* bridge, or the reuse of a slot and of a sequence handed back, as long as no release
\* of a stale lease is overtaken and frees a slot under its readers.
THEOREM FramesWhole ==
    ASSUME NoStaleReleaseRaces
    PROVE  LiveSpec => []WholeFrames
<1>1. LiveIInv => WholeFrames
  BY LeaseSlots DEF LiveIInv, CoreInv, RingInv, LeaseInv, Frames, WholeFrames
<1> QED BY <1>1, LiveInvariant, PTL

-----------------------------------------------------------------------------
(***************************************************************************)
(* The record of the bridge: its stream has no gaps, for every number of   *)
(* processes, writers and epochs.  While the bridge streams it has the     *)
(* producer role, so the sequences that follow its last epoch are taken,   *)
(* and handed back, by its own two writers only.                           *)
(***************************************************************************)

SinkWriters == {PendingWriter, CopyWriter}

SinkTypes ==
    /\ stage \in {"off", "awaiting", "streaming", "failed", "done", "exiting", "exited"}
    /\ direct \in BOOLEAN /\ ownTensor \in BOOLEAN
    /\ published \in 0 .. MaxEpochs /\ first \in Seqs /\ latest \in Seqs
    /\ audience \subseteq {c \in Consumers : cst[c] = "open"}

\* Who is at work on a slot has a Producer; the bridge has one from Start to ExitMain.
WritersHaveRole == \A w \in Writers : wst[w] # "idle" => producers[WriterHost[w]] > 0
RoleHeld ==
    /\ RoleInv
    /\ WritersHaveRole
    /\ producers[Bridge] = IF stage \in {"off", "exiting", "exited"} THEN 0 ELSE 1

\* One epoch at a time, in the slot the engine decodes into or in its own tensor.
OneEpoch ==
    /\ wst[CopyWriter] # "idle" => ownTensor
    /\ ownTensor => wst[PendingWriter] = "idle"
    /\ stage \in {"off", "awaiting"} =>
          wst[PendingWriter] = "idle" /\ ~ownTensor /\ published = 0
    /\ stage = "streaming" /\ (ownTensor \/ wst[PendingWriter] # "idle") =>
          published < MaxEpochs

\* What is recorded, and the sequence after it: the next, or that of the epoch at hand.
Trace ==
    /\ published > 0 => Place(latest) = Place(first) + published - 1
    /\ stage = "streaming" =>
          /\ published > 0 /\ (\A w \in SinkWriters : wst[w] = "idle") =>
                Place(nextSeq) = Place(latest) + 1
          /\ \A w \in SinkWriters : wst[w] # "idle" =>
                /\ Place(nextSeq) = Place(wseq[w]) + 1
                /\ published > 0 => Place(wseq[w]) = Place(latest) + 1

SinkInv == SinkTypes /\ RoleHeld /\ OneEpoch /\ Trace
BridgeIInv == CoreInv /\ SinkInv

-----------------------------------------------------------------------------
(* The producer role.                                                      *)

LEMMA RoleKept ==
    ASSUME NoClaimDuringDrop, RingInv, RoleInv, RingAct
    PROVE  RoleInv'
<1>1. CASE \E c \in Consumers : PyClose(c) \/ FinishReleaseStale(c)
  BY <1>1 DEF PyClose, FinishReleaseStale, procVars, handleVars, RoleInv
<1>2. CASE ~ \E c \in Consumers : PyClose(c) \/ FinishReleaseStale(c)
  <2>1. [Next]_vars
    BY <1>2 DEF RingAct, Next
  <2> QED BY <2>1, RoleStep DEF RingInv
<1> QED BY <1>1, <1>2

LEMMA WritersRoleKept ==
    ASSUME RingInv, WritersHaveRole, RingAct
    PROVE  WritersHaveRole'
<1> USE DEF WritersHaveRole
<1>1. ASSUME UNCHANGED producers, \A w \in Writers : wst'[w] # "idle" => wst[w] # "idle"
      PROVE  WritersHaveRole'
  BY <1>1
<1>2. ASSUME NEW p \in Procs, ClaimProducer(p) PROVE WritersHaveRole'
  BY <1>2, ProcsAssumption DEF ClaimProducer, writerVars, RingInv, TypeOK
<1>3. ASSUME NEW p \in Procs, DropProducer(p) PROVE WritersHaveRole'
  BY <1>3, ProcsAssumption DEF DropProducer, writerVars, RingInv, TypeOK
<1>4. ASSUME NEW p \in Procs, Crash(p) PROVE WritersHaveRole'
  BY <1>4, ProcsAssumption DEF Crash, RingInv, TypeOK
<1>5. ASSUME NEW p \in Procs, Sweep(p) \/ HandBack(p) \/ Restart(p) PROVE WritersHaveRole'
  BY <1>1, <1>5 DEF Sweep, ReapOnly, HandBack, Restart, handleVars, writerVars
<1>6. ASSUME NEW w \in Writers, Reserve(w) PROVE WritersHaveRole'
  BY <1>6 DEF Reserve, handleVars, RingInv, TypeOK
<1>7. ASSUME NEW w \in Writers, ReserveFull(w) \/ Fill(w) \/ Abort(w) \/ Commit(w)
      PROVE  WritersHaveRole'
  BY <1>1, <1>7 DEF ReserveFull, ReapOnly, Fill, Abort, Commit, WriterDone, handleVars, writerVars,
     RingInv, TypeOK
<1>8. ASSUME NEW c \in Consumers,
             \/ Register(c) \/ RegisterFull(c) \/ Take(c) \/ PyClose(c)
             \/ FinishReleaseStale(c)
      PROVE  WritersHaveRole'
  BY <1>1, <1>8 DEF Register, RegisterFull, ReapOnly, Take, PyClose, FinishReleaseStale,
     handleVars, writerVars
<1>9. ASSUME NEW c \in Consumers, NEW l \in leases[c], Release(c, l) PROVE WritersHaveRole'
  BY <1>1, <1>9 DEF Release, handleVars, writerVars
<1>10. CASE UNCHANGED vars
  BY <1>1, <1>10 DEF vars
<1> QED
  BY <1>2, <1>3, <1>4, <1>5, <1>6, <1>7, <1>8, <1>9, <1>10 DEF RingAct

-----------------------------------------------------------------------------
(* What the other processes leave alone.                                   *)

OthersAct ==
    \/ \E p \in Procs \ {Bridge} : (PyStep(p) \/ PyCrash(p)) /\ OthersStep
    \/ \E p \in Procs : Restart(p) /\ UNCHANGED <<pyVars, sinkVars>>

Left ==
    /\ producers'[Bridge] = producers[Bridge]
    /\ \A w \in SinkWriters : wst'[w] = wst[w] /\ wslot'[w] = wslot[w] /\ wseq'[w] = wseq[w]
    /\ producers[Bridge] > 0 => nextSeq' = nextSeq

LEMMA LeftByWriter ==
    ASSUME CoreInv, RoleHeld, NEW w \in Writers, WriterHost[w] # Bridge,
           Reserve(w) \/ ReserveFull(w) \/ Fill(w) \/ Commit(w) \/ Abort(w)
    PROVE  Left
<1>1. producers' = producers
  BY DEF Reserve, ReserveFull, ReapOnly, Fill, Commit, Abort, handleVars
<1>2. \A v \in Writers \ {w} : wst'[v] = wst[v] /\ wslot'[v] = wslot[v] /\ wseq'[v] = wseq[v]
  BY DEF Reserve, ReserveFull, ReapOnly, Fill, Commit, Abort, WriterDone, writerVars,
     CoreInv, RingInv, TypeOK
<1>3. SinkWriters \subseteq Writers \ {w}
  BY Parties DEF SinkWriters
<1>4. ASSUME producers[Bridge] > 0 PROVE nextSeq' = nextSeq
  <2>1. ~(producers[WriterHost[w]] > 0)
    BY <1>4, Parties, ProcsAssumption DEF RoleHeld, RoleInv
  <2>2. ~Reserve(w) /\ ~Abort(w)
    BY <2>1 DEF RoleHeld, WritersHaveRole, Reserve, Abort
  <2> QED BY <2>2 DEF ReserveFull, ReapOnly, Fill, Commit
<1> QED BY <1>1, <1>2, <1>3, <1>4 DEF Left

LEMMA OthersLeave ==
    ASSUME CoreInv, RoleHeld, OthersAct
    PROVE  Left
<1>0. SinkWriters \subseteq Writers
  BY Parties DEF SinkWriters
<1>1. ASSUME UNCHANGED <<producers, writerVars, nextSeq>> PROVE Left
  BY <1>1 DEF Left, writerVars
<1>2. ASSUME NEW p \in Procs \ {Bridge}, PyStep(p) PROVE Left
  <2>1. CASE Sweep(p) \/ ClaimProducer(p) \/ DropProducer(p) \/ HandBack(p)
    BY <2>1, Parties DEF Sweep, ReapOnly, ClaimProducer, DropProducer, HandBack, handleVars,
       writerVars, Left,
       CoreInv, RingInv, TypeOK
  <2>2. ASSUME NEW c \in Consumers,
               \/ Register(c) \/ RegisterFull(c) \/ Take(c) \/ PyClose(c)
               \/ FinishReleaseStale(c)
        PROVE  Left
    BY <1>1, <2>2 DEF Register, RegisterFull, ReapOnly, Take, PyClose, FinishReleaseStale,
       handleVars, writerVars
  <2>3. ASSUME NEW c \in Consumers, PyRelease(c) PROVE Left
    BY <1>1, <2>3 DEF PyRelease, Release, handleVars, writerVars
  <2>4. ASSUME NEW c \in Consumers, View(c) \/ DropViews(c) \/ StartReleaseStale(c) PROVE Left
    BY <1>1, <2>4 DEF View, DropViews, StartReleaseStale, ringVars, vars, writerVars
  <2>5. ASSUME NEW w \in PyWriters, WriterHost[w] = p,
               PyReserve(w) \/ CopyIn(w) \/ WriteArray(w) \/ Finish(w)
        PROVE  Left
    <3>1. w \in Writers /\ WriterHost[w] # Bridge
      BY <2>5, Parties
    <3>2. Reserve(w) \/ ReserveFull(w) \/ Fill(w) \/ Commit(w) \/ Abort(w)
      BY <2>5, WriteArrayFills DEF PyReserve, CopyIn, Finish
    <3> QED BY <3>1, <3>2, LeftByWriter
  <2>6. ASSUME NEW w \in PyWriters, Expose(w) \/ DropArray(w) PROVE Left
    BY <1>1, <2>6 DEF Expose, DropArray, ringVars, vars, writerVars
  <2> QED BY <1>2, <2>1, <2>2, <2>3, <2>4, <2>5, <2>6 DEF PyStep, CallStep
<1>3. ASSUME NEW p \in Procs \ {Bridge}, PyCrash(p) PROVE Left
  BY <1>0, <1>3, Parties DEF PyCrash, Crash, Left, SinkWriters, CoreInv, RingInv, TypeOK
<1>4. ASSUME NEW p \in Procs, Restart(p) PROVE Left
  BY <1>1, <1>4 DEF Restart, handleVars, writerVars
<1> QED BY <1>2, <1>3, <1>4 DEF OthersAct

LEMMA OthersKeep ==
    ASSUME CoreInv, SinkInv, OthersAct
    PROVE  SinkTypes' /\ OneEpoch' /\ Trace' /\
           producers'[Bridge] = IF stage' \in {"off", "exiting", "exited"} THEN 0 ELSE 1
<1> USE DEF SinkInv
<1>1. Left
  BY OthersLeave
<1>2. UNCHANGED <<stage, direct, ownTensor, published, first, latest>>
  BY DEF OthersAct, OthersStep, sinkRecord, sinkVars
<1>3. audience' \subseteq {c \in Consumers : cst'[c] = "open"}
  BY DEF OthersAct, OthersStep, StillOpen, Restart, sinkVars, consumerVars, SinkTypes
<1>4. SinkTypes'
  BY <1>2, <1>3 DEF SinkTypes
<1>5. OneEpoch'
  BY <1>1, <1>2 DEF OneEpoch, Left, SinkWriters
<1>6. producers'[Bridge] = IF stage' \in {"off", "exiting", "exited"} THEN 0 ELSE 1
  BY <1>1, <1>2 DEF Left, RoleHeld
<1>7. Trace'
  BY <1>1, <1>2 DEF Trace, Left, RoleHeld, SinkWriters, Place
<1> QED BY <1>4, <1>5, <1>6, <1>7

-----------------------------------------------------------------------------
(* The bridge.                                                             *)

SinkGoal ==
    /\ SinkTypes' /\ OneEpoch' /\ Trace'
    /\ producers'[Bridge] = IF stage' \in {"off", "exiting", "exited"} THEN 0 ELSE 1

LEMMA ReserveKeeps ==
    ASSUME CoreInv, SinkInv, NEW w \in SinkWriters, Reserve(w),
           UNCHANGED <<stage, direct, ownTensor, sinkRecord, audience>>,
           stage = "streaming", \A v \in SinkWriters : wst[v] = "idle",
           IF w = CopyWriter THEN ownTensor ELSE ~ownTensor, published < MaxEpochs
    PROVE  SinkGoal
<1> USE DEF SinkInv
<1>0. w \in Writers /\ SinkWriters \subseteq Writers /\ PendingWriter # CopyWriter
  BY Parties, BridgeAssumption DEF SinkWriters
<1>1. /\ Place(nextSeq') = Place(nextSeq) + 1
      /\ wseq'[w] = nextSeq
      /\ \A v \in Writers \ {w} : wst'[v] = wst[v] /\ wseq'[v] = wseq[v]
  BY <1>0, ReserveMoves DEF CoreInv
<1>2. UNCHANGED <<producers, cst>>
  BY DEF Reserve, handleVars, consumerVars
<1>3. UNCHANGED <<stage, direct, ownTensor, published, first, latest, audience>>
  BY DEF sinkRecord
<1>4. SinkTypes'
  BY <1>2, <1>3 DEF SinkTypes
<1>5. OneEpoch'
  BY <1>0, <1>1, <1>3 DEF OneEpoch, SinkWriters
<1>6. wst'[w] # "idle"
  BY <1>0 DEF Reserve, CoreInv, RingInv, TypeOK
<1>7. \A v \in SinkWriters : wst'[v] # "idle" => v = w
  BY <1>0, <1>1
<1>8. Trace'
  BY <1>1, <1>3, <1>6, <1>7 DEF Trace, Place
<1> QED BY <1>2, <1>3, <1>4, <1>5, <1>8 DEF RoleHeld, SinkGoal

LEMMA CommitKeeps ==
    ASSUME CoreInv, SinkInv, EpochReady
    PROVE  SinkGoal
<1> USE DEF SinkInv
<1>0. SinkWriters \subseteq Writers /\ PendingWriter # CopyWriter
  BY Parties, BridgeAssumption DEF SinkWriters
<1>1. PICK w \in SinkWriters : wst[w] = "filled" /\ Commit(w) /\ Record(wseq[w])
  BY DEF EpochReady, SinkWriters
<1>2. /\ stage = "streaming" /\ ownTensor' = FALSE
      /\ UNCHANGED <<stage, direct, audience>>
  BY DEF EpochReady
<1>3. /\ wst' = [wst EXCEPT ![w] = "idle"]
      /\ UNCHANGED <<nextSeq, producers, cst>>
  BY <1>1 DEF Commit, WriterDone, handleVars, consumerVars
<1>4. \A v \in SinkWriters : wst'[v] = "idle"
  BY <1>0, <1>1, <1>3 DEF OneEpoch, SinkWriters, CoreInv, RingInv, TypeOK
<1>5. published < MaxEpochs
  BY <1>1, <1>2 DEF OneEpoch, SinkWriters
<1>6. /\ wseq[w] \in Seqs /\ published \in Nat /\ published + 1 \in 0 .. MaxEpochs
      /\ \A q \in Seqs : Place(q) \in Int
      /\ first \in Seqs /\ latest \in Seqs /\ nextSeq \in Seqs
  BY <1>0, <1>1, <1>5, PlaceValue, SizesAssumption, BridgeAssumption
  DEF SinkTypes, CoreInv, RingInv, TypeOK, Seqs
<1>7. /\ published' = published + 1 /\ latest' = wseq[w]
      /\ first' = IF published = 0 THEN wseq[w] ELSE first
  BY <1>1 DEF Record
<1>8. SinkTypes'
  BY <1>2, <1>3, <1>6, <1>7 DEF SinkTypes
<1>9. OneEpoch'
  BY <1>2, <1>4 DEF OneEpoch, SinkWriters
<1>10. /\ Place(nextSeq) = Place(wseq[w]) + 1
       /\ published > 0 => Place(wseq[w]) = Place(latest) + 1
       /\ published > 0 => Place(latest) = Place(first) + published - 1
  BY <1>1, <1>2 DEF Trace
<1>11. Place(latest') = Place(first') + published' - 1 /\ Place(nextSeq') = Place(latest') + 1
  BY <1>3, <1>6, <1>7, <1>10
<1>12. Trace'
  BY <1>4, <1>11 DEF Trace, Place
<1> QED BY <1>2, <1>3, <1>8, <1>9, <1>12 DEF RoleHeld, SinkGoal

LEMMA SinkKeeps ==
    ASSUME CoreInv, SinkInv, SinkStep
    PROVE  SinkGoal
<1> USE DEF SinkInv
<1>0. SinkWriters \subseteq Writers /\ PendingWriter # CopyWriter
  BY Parties, BridgeAssumption DEF SinkWriters
<1>1. CASE Start
  <2>1. /\ stage = "off" /\ stage' = "awaiting" /\ direct' \in BOOLEAN
        /\ producers' = [producers EXCEPT ![Bridge] = @ + 1]
        /\ UNCHANGED <<ownTensor, published, first, latest, audience, cst, wst>>
    BY <1>1 DEF Start, ClaimProducer, sinkRecord, consumerVars, writerVars
  <2>2. SinkTypes' /\ OneEpoch'
    BY <2>1 DEF SinkTypes, OneEpoch
  <2>3. Trace'
    BY <2>1 DEF Trace, OneEpoch
  <2>4. producers'[Bridge] = 1
    BY <2>1, Parties DEF RoleHeld, CoreInv, RingInv, TypeOK
  <2> QED BY <2>1, <2>2, <2>3, <2>4 DEF SinkGoal
<1>2. CASE AwaitConsumers
  <2>1. /\ stage = "awaiting" /\ stage' \in {"streaming", "failed"}
        /\ UNCHANGED <<direct, ownTensor, published, first, latest, cst, wst, wseq, nextSeq, producers>>
        /\ audience' = audience \/ audience' = {c \in Consumers : cst[c] = "open"}
    BY <1>2 DEF AwaitConsumers, vars, sinkRecord
  <2>2. SinkTypes' /\ OneEpoch'
    BY <2>1 DEF SinkTypes, OneEpoch
  <2>3. \A w \in SinkWriters : wst[w] = "idle"
    BY <2>1 DEF OneEpoch, SinkWriters
  <2>4. Trace'
    BY <2>1, <2>3 DEF Trace, OneEpoch
  <2> QED BY <2>1, <2>2, <2>4 DEF SinkGoal, RoleHeld
<1>3. ASSUME NEW w \in SinkWriters, ReserveFull(w), stage = "streaming",
             stage' \in {stage, "failed"},
             UNCHANGED <<direct, ownTensor, sinkRecord, audience>>
      PROVE  SinkGoal
  <2>1. UNCHANGED <<direct, ownTensor, published, first, latest, audience,
                    cst, wst, wseq, nextSeq, producers>>
    BY <1>3 DEF ReserveFull, ReapOnly, sinkRecord, handleVars, consumerVars, writerVars
  <2>2. SinkTypes' /\ OneEpoch' /\ Trace'
    BY <1>3, <2>1 DEF SinkTypes, OneEpoch, Trace, Place
  <2> QED BY <1>3, <2>1, <2>2 DEF SinkGoal, RoleHeld
<1>4. CASE VideoDestination
  <2>1. CASE Reserve(PendingWriter) /\ UNCHANGED stage
    BY <1>0, <1>4, <2>1, ReserveKeeps DEF VideoDestination, BetweenEpochs, SinkWriters
  <2>2. CASE ReserveFull(PendingWriter) /\ stage' \in {stage, "failed"}
    BY <1>3, <1>4, <2>2 DEF VideoDestination, BetweenEpochs, SinkWriters
  <2> QED BY <1>4, <2>1, <2>2 DEF VideoDestination, ReserveOrFail
<1>5. CASE PublishCopy
  <2>1. CASE Reserve(CopyWriter) /\ UNCHANGED stage
    BY <1>0, <1>5, <2>1, ReserveKeeps DEF PublishCopy, OneEpoch, SinkWriters
  <2>2. CASE ReserveFull(CopyWriter) /\ stage' \in {stage, "failed"}
    BY <1>3, <1>5, <2>2 DEF PublishCopy, SinkWriters
  <2> QED BY <1>5, <2>1, <2>2 DEF PublishCopy, ReserveOrFail
<1>6. CASE DecodeAside \/ EndOfClip
  <2>1. /\ BetweenEpochs /\ stage' \in {"streaming", "done"} /\ ownTensor' \in BOOLEAN
        /\ ownTensor' => published < MaxEpochs
        /\ UNCHANGED <<direct, published, first, latest, audience,
                       cst, wst, wseq, nextSeq, producers>>
    <3>1. CASE DecodeAside
      BY <3>1 DEF DecodeAside, BetweenEpochs, vars, sinkRecord
    <3>2. CASE EndOfClip
      <4>1. ownTensor' = ownTensor /\ ~ownTensor
        BY <3>2 DEF EndOfClip, BetweenEpochs
      <4>2. ownTensor' \in BOOLEAN
        BY <4>1 DEF SinkTypes
      <4> QED BY <3>2, <4>1, <4>2 DEF EndOfClip, vars, sinkRecord
    <3> QED BY <1>6, <3>1, <3>2
  <2>2. SinkTypes' /\ OneEpoch' /\ Trace'
    BY <2>1 DEF SinkTypes, OneEpoch, Trace, Place, BetweenEpochs
  <2> QED BY <2>1, <2>2 DEF SinkGoal, RoleHeld, BetweenEpochs
<1>7. CASE Decode
  <2>1. PICK w \in SinkWriters : wst[w] = "writing" /\ Fill(w)
    BY <1>7 DEF Decode, SinkWriters
  <2>2. /\ \A v \in Writers : wst'[v] = "idle" <=> wst[v] = "idle"
        /\ UNCHANGED <<stage, direct, ownTensor, published, first, latest, audience,
                       cst, wseq, nextSeq, producers>>
    BY <1>0, <1>7, <2>1 DEF Decode, Fill, sinkVars, handleVars, consumerVars, CoreInv, RingInv, TypeOK
  <2>3. SinkTypes' /\ OneEpoch'
    BY <1>0, <2>2 DEF SinkTypes, OneEpoch, SinkWriters
  <2>4. Trace'
    BY <1>0, <2>2 DEF Trace, Place
  <2> QED BY <2>2, <2>3, <2>4 DEF SinkGoal, RoleHeld
<1>8. CASE EpochReady
  BY <1>8, CommitKeeps
<1>9. CASE EngineFails
  <2>1. /\ stage = "streaming" /\ stage' = "failed" /\ wst[CopyWriter] = "idle"
        /\ UNCHANGED <<direct, ownTensor, published, first, latest, audience>>
    BY <1>9 DEF EngineFails, sinkRecord
  <2>2. /\ UNCHANGED <<cst, producers>>
        /\ \A w \in SinkWriters : wst'[w] # "idle" => wst[w] # "idle"
    <3>1. CASE UNCHANGED vars
      BY <3>1 DEF vars
    <3>2. CASE Abort(PendingWriter)
      BY <1>0, <3>2 DEF Abort, WriterDone, handleVars, consumerVars, CoreInv, RingInv, TypeOK
    <3> QED BY <1>9, <3>1, <3>2 DEF EngineFails, AbortEpoch
  <2>3. SinkTypes' /\ OneEpoch' /\ Trace'
    BY <2>1, <2>2 DEF SinkTypes, OneEpoch, Trace, Place, SinkWriters
  <2> QED BY <2>1, <2>2, <2>3 DEF SinkGoal, RoleHeld
<1>10. CASE ExitMain
  <2>1. /\ stage' = "exiting" /\ ownTensor' = FALSE /\ stage \in {"failed", "done"}
        /\ producers' = [producers EXCEPT ![Bridge] = @ - 1]
        /\ producers[Bridge] > 1 \/ \A w \in Writers : WriterHost[w] = Bridge => wst[w] = "idle"
        /\ UNCHANGED <<direct, published, first, latest, audience, cst, wst>>
    BY <1>10 DEF ExitMain, DropProducer, sinkRecord, consumerVars, writerVars
  <2>2. producers[Bridge] = 1
    BY <2>1 DEF RoleHeld
  <2>3. \A w \in SinkWriters : wst[w] = "idle"
    BY <2>1, <2>2, Parties DEF SinkWriters
  <2>4. SinkTypes' /\ OneEpoch' /\ Trace'
    BY <2>1, <2>3 DEF SinkTypes, OneEpoch, Trace, Place, SinkWriters
  <2>5. producers'[Bridge] = 0
    BY <2>1, <2>2, Parties DEF CoreInv, RingInv, TypeOK
  <2> QED BY <2>1, <2>4, <2>5 DEF SinkGoal
<1>11. CASE RoleReturned
  <2>1. /\ stage = "exiting" /\ stage' = "exited"
        /\ UNCHANGED <<direct, ownTensor, published, first, latest, audience,
                       cst, wst, wseq, nextSeq, producers>>
    BY <1>11 DEF RoleReturned, HandBack, sinkRecord, consumerVars, writerVars
  <2>2. SinkTypes' /\ OneEpoch' /\ Trace'
    BY <2>1 DEF SinkTypes, OneEpoch, Trace, Place
  <2> QED BY <2>1, <2>2 DEF SinkGoal, RoleHeld
<1> QED BY <1>1, <1>2, <1>4, <1>5, <1>6, <1>7, <1>8, <1>9, <1>10, <1>11 DEF SinkStep

LEMMA CrashKeeps ==
    ASSUME CoreInv, SinkInv, BridgeCrash
    PROVE  SinkGoal
<1>1. /\ stage' = "off" /\ direct' = FALSE /\ ownTensor' = FALSE
      /\ published' = 0 /\ first' = 0 /\ latest' = 0 /\ audience' = {}
  BY DEF BridgeCrash
<1>2. producers'[Bridge] = 0 /\ \A w \in SinkWriters : wst'[w] = "idle"
  BY Parties DEF BridgeCrash, Crash, SinkWriters, CoreInv, RingInv, TypeOK
<1>3. 0 \in Seqs /\ 0 \in 0 .. MaxEpochs
  BY SizesAssumption, BridgeAssumption DEF Seqs
<1>4. SinkTypes'
  BY <1>1, <1>3 DEF SinkTypes
<1> QED BY <1>1, <1>2, <1>4 DEF SinkGoal, OneEpoch, Trace, SinkWriters

-----------------------------------------------------------------------------
(* The invariant.                                                          *)

LEMMA BridgeInitial ==
    ASSUME LiveInit
    PROVE  BridgeIInv
<1>1. CoreInv
  BY CoreInitial
<1>2. SinkTypes
  <2>1. 0 \in Seqs /\ 0 \in 0 .. MaxEpochs
    BY SizesAssumption, BridgeAssumption DEF Seqs
  <2> QED BY <2>1 DEF LiveInit, SinkInit, SinkTypes
<1>3. RoleHeld
  BY Parties DEF LiveInit, Init, SinkInit, RoleHeld, RoleInv, WritersHaveRole
<1>4. OneEpoch /\ Trace
  BY Parties DEF LiveInit, Init, SinkInit, OneEpoch, Trace
<1> QED BY <1>1, <1>2, <1>3, <1>4 DEF BridgeIInv, SinkInv

LEMMA BridgeStep ==
    ASSUME NoClaimDuringDrop, BridgeIInv, [LiveNext]_liveVars
    PROVE  BridgeIInv'
<1> USE DEF BridgeIInv
<1>1. CoreInv'
  BY CoreStep
<1>2. RoleInv' /\ WritersHaveRole'
  BY RingActs, RoleKept, WritersRoleKept DEF CoreInv, SinkInv, RoleHeld, RingAct, liveVars
<1>3. SinkGoal
  <2>1. CASE SinkStep
    BY <2>1, SinkKeeps
  <2>2. CASE BridgeCrash
    BY <2>2, CrashKeeps
  <2>3. CASE OthersAct
    BY <2>3, OthersKeep DEF SinkGoal
  <2>4. CASE UNCHANGED liveVars
    BY <2>4 DEF liveVars, vars, sinkVars, SinkInv, SinkGoal, SinkTypes, RoleHeld, OneEpoch, Trace, Place
  <2> QED BY <2>1, <2>2, <2>3, <2>4 DEF LiveNext, OthersAct
<1> QED BY <1>1, <1>2, <1>3 DEF SinkGoal, SinkInv, RoleHeld

LEMMA BridgeInvariant ==
    ASSUME NoClaimDuringDrop
    PROVE  LiveSpec => []BridgeIInv
<1>1. LiveInit => BridgeIInv
  BY BridgeInitial
<1>2. BridgeIInv /\ [LiveNext]_liveVars => BridgeIInv'
  BY BridgeStep
<1> QED BY <1>1, <1>2, PTL DEF LiveSpec

\* The ring's, the bindings' and the bridge's variables keep their types; the audience
\* of the stream is among the Consumers still open.  The bridge's BusSink records no
\* more than the epochs of its clip because its two writers are never both at work.
THEOREM LiveTypes ==
    ASSUME NoClaimDuringDrop
    PROVE  LiveSpec => []LiveTypeOK
<1>1. BridgeIInv => LiveTypeOK
  BY DEF BridgeIInv, CoreInv, RingInv, SinkInv, SinkTypes, PyTypes, LiveTypeOK
<1> QED BY <1>1, BridgeInvariant, PTL

\* BusSink::record sees consecutive sequences, whatever epochs were given up before and
\* whoever published before the bridge took the role, as long as no thread of a process
\* claims it while another is inside Producer::drop.
THEOREM StreamContiguous ==
    ASSUME NoClaimDuringDrop
    PROVE  LiveSpec => []TraceContiguous
<1>1. ASSUME BridgeIInv, published > 0 PROVE latest = (first + published - 1) % SeqMod
  <2> DEFINE k == published - 1
  <2>1. /\ first \in Seqs /\ latest \in Seqs /\ k \in Nat
        /\ Place(latest) = Place(first) + k
    BY <1>1 DEF BridgeIInv, SinkInv, SinkTypes, Trace
  <2>2. /\ SeqMod \in Nat /\ SeqMod > 0 /\ FirstSeq \in Int /\ 0 <= FirstSeq /\ FirstSeq < SeqMod
        /\ first \in Int /\ 0 <= first /\ first < SeqMod
        /\ latest \in Int /\ 0 <= latest /\ latest < SeqMod
    BY <2>1, SizesAssumption DEF Seqs
  <2>3. /\ Place(first) = IF first >= FirstSeq THEN first - FirstSeq ELSE first - FirstSeq + SeqMod
        /\ Place(latest) = IF latest >= FirstSeq THEN latest - FirstSeq ELSE latest - FirstSeq + SeqMod
    BY <2>1, PlaceValue
  <2> HIDE DEF k
  <2>4. latest = first + k \/ latest = first + k - SeqMod
    BY <2>1, <2>2, <2>3
  <2>5. (first + k) % SeqMod = latest
    <3>1. CASE latest = first + k
      BY <2>1, <2>2, <3>1, ModValue
    <3>2. CASE latest = first + k - SeqMod
      <4>1. (latest + SeqMod) % SeqMod = latest
        BY <2>2
      <4> QED BY <2>1, <2>2, <3>2, <4>1
    <3> QED BY <2>4, <3>1, <3>2
  <2>6. first + published - 1 = first + k
    BY <1>1, <2>2 DEF k, BridgeIInv, SinkInv, SinkTypes
  <2> QED BY <2>5, <2>6
<1>2. BridgeIInv => TraceContiguous
  BY <1>1 DEF TraceContiguous
<1> QED BY <1>2, BridgeInvariant, PTL

-----------------------------------------------------------------------------
(* Who was there when the stream began receives all of it.                 *)

\* Where q stands when the sequence before the first one is counted too: a Consumer
\* may subscribe at that one.
Order(q) == (q - FirstSeq + 1) % SeqMod

LEMMA OrderValue ==
    ASSUME NEW q \in Seqs
    PROVE  /\ Order(q) \in Nat
           /\ Order(q) = IF q + 1 < FirstSeq THEN q + 1 - FirstSeq + SeqMod
                         ELSE IF q + 1 - FirstSeq = SeqMod THEN 0 ELSE q + 1 - FirstSeq
<1>1. /\ SeqMod \in Nat /\ SeqMod > 0 /\ FirstSeq \in Int /\ q \in Int
      /\ 0 <= q /\ q < SeqMod /\ 0 <= FirstSeq /\ FirstSeq < SeqMod
  BY SizesAssumption DEF Seqs
<1>2. q - FirstSeq + 1 = q + 1 - FirstSeq /\ q + 1 - FirstSeq \in Int
  BY <1>1
<1>3. CASE q + 1 < FirstSeq
  <2>1. (q + 1 - FirstSeq) % SeqMod = q + 1 - FirstSeq + SeqMod
    BY <1>1, <1>2, <1>3, ModValue
  <2> QED BY <1>1, <1>2, <1>3, <2>1 DEF Order
<1>4. CASE ~(q + 1 < FirstSeq) /\ q + 1 - FirstSeq = SeqMod
  <2>1. SeqMod % SeqMod = 0
    BY <1>1
  <2> QED BY <1>1, <1>2, <1>4, <2>1 DEF Order
<1>5. CASE ~(q + 1 < FirstSeq) /\ q + 1 - FirstSeq # SeqMod
  <2>1. (q + 1 - FirstSeq) % SeqMod = q + 1 - FirstSeq
    BY <1>1, <1>2, <1>5, ModValue
  <2> QED BY <1>1, <1>2, <1>5, <2>1 DEF Order
<1> QED BY <1>3, <1>4, <1>5

LEMMA HalfRange ==
    /\ SeqMod \div 2 \in Nat /\ 2 * (SeqMod \div 2) = SeqMod
    /\ MaxSequences \in Nat /\ MaxSequences < SeqMod \div 2
<1>1. SeqMod \in Nat /\ SeqMod % 2 = 0
  BY SizesAssumption
<1>2. SeqMod \div 2 \in Nat /\ 2 * (SeqMod \div 2) = SeqMod
  BY <1>1
<1> QED BY <1>2, LiveAssumption

\* The comparison of the code is that of the places, as long as none comes round again.
LEMMA NewerByOrder ==
    ASSUME NEW a \in Seqs, NEW b \in Seqs, Place(a) < MaxSequences, Order(b) <= MaxSequences
    PROVE  SeqNewer(a, b) <=> Order(b) <= Place(a)
<1> DEFINE half == SeqMod \div 2
           d == a - b
<1>1. /\ SeqMod \in Nat /\ SeqMod >= 4 /\ half \in Nat /\ 2 * half = SeqMod
      /\ MaxSequences \in Nat /\ MaxSequences < half /\ FirstSeq \in Int
      /\ a \in Int /\ b \in Int /\ 0 <= a /\ a < SeqMod /\ 0 <= b /\ b < SeqMod
      /\ 0 <= FirstSeq /\ FirstSeq < SeqMod
  BY SizesAssumption, HalfRange DEF Seqs
<1>2. d % SeqMod = IF d >= 0 THEN d ELSE d + SeqMod
  <2>1. d \in Int /\ -SeqMod <= d /\ d < SeqMod /\ SeqMod > 0
    BY <1>1
  <2> HIDE DEF d
  <2> QED BY <1>1, <2>1, ModValue
<1>3. SeqNewer(a, b) <=> 1 <= d % SeqMod /\ d % SeqMod <= half - 1
  <2>1. d % SeqMod \in Int
    BY <1>1, <1>2
  <2> QED BY <1>1, <2>1 DEF SeqNewer
<1>4. Place(a) = IF a >= FirstSeq THEN a - FirstSeq ELSE a - FirstSeq + SeqMod
  BY PlaceValue
<1>5. Order(b) = IF b + 1 < FirstSeq THEN b + 1 - FirstSeq + SeqMod
                 ELSE IF b + 1 - FirstSeq = SeqMod THEN 0 ELSE b + 1 - FirstSeq
  BY OrderValue
<1> HIDE DEF half
<1> QED BY <1>1, <1>2, <1>3, <1>4, <1>5

LEMMA OrderOfPlace ==
    ASSUME NEW q \in Seqs, Place(q) <= MaxSequences
    PROVE  Order(q) = Place(q) + 1
<1>1. /\ SeqMod \in Nat /\ FirstSeq \in Int /\ q \in Int /\ MaxSequences \in Nat
      /\ 2 * MaxSequences < SeqMod /\ SeqMod >= 4
      /\ 0 <= q /\ q < SeqMod /\ 0 <= FirstSeq /\ FirstSeq < SeqMod
  BY SizesAssumption, HalfRange DEF Seqs
<1> QED BY <1>1, PlaceValue, OrderValue

LEMMA OrderOfSubscribePoint ==
    ASSUME nextSeq \in Seqs
    PROVE  SubscribePoint \in Seqs /\ Order(SubscribePoint) = Place(nextSeq)
<1>1. /\ SeqMod \in Nat /\ SeqMod >= 4 /\ FirstSeq \in Int /\ nextSeq \in Int
      /\ 0 <= nextSeq /\ nextSeq < SeqMod /\ 0 <= FirstSeq /\ FirstSeq < SeqMod
  BY SizesAssumption DEF Seqs
<1>2. SubscribePoint = IF nextSeq = 0 THEN SeqMod - 1 ELSE nextSeq - 1
  <2>1. nextSeq - 1 \in Int /\ -SeqMod <= nextSeq - 1 /\ nextSeq - 1 < SeqMod /\ SeqMod > 0
    BY <1>1
  <2>2. (nextSeq - 1) % SeqMod = IF nextSeq - 1 >= 0 THEN nextSeq - 1 ELSE nextSeq - 1 + SeqMod
    BY <1>1, <2>1, ModValue
  <2> QED BY <1>1, <2>2 DEF SubscribePoint
<1>3. SubscribePoint \in Seqs
  BY <1>1, <1>2 DEF Seqs
<1> QED BY <1>1, <1>2, <1>3, PlaceValue, OrderValue

-----------------------------------------------------------------------------
(* How far the Consumers have come.                                        *)

\* Nobody is ahead of the sequences assigned, and nobody has leases of what is to come.
LastInv ==
    /\ \A c \in Consumers : cst[c] = "open" => Order(last[c]) <= MaxSequences
    /\ \A c \in Consumers : \A l \in leases[c] : Place(l.seq) < Order(last[c])

Advanced(c) == cst'[c] = "open" /\ idx'[c] = idx[c] /\ Order(last[c]) <= Order(last'[c])

LEMMA TakeAdvances ==
    ASSUME RingInv, Numbers, LastInv, Numbers', NEW c \in Consumers, Take(c)
    PROVE  LastInv' /\ Advanced(c)
<1>1. PICK s \in Deliverable(c) :
         /\ leases' = [leases EXCEPT ![c] = @ \cup {[slot |-> s, seq |-> seq[s], data |-> payload[s]]}]
         /\ last' = [last EXCEPT ![c] = seq[s]]
  BY DEF Take
<1>2. cst[c] = "open" /\ UNCHANGED <<cst, idx>>
  BY DEF Take
<1>3. /\ s \in Slots /\ state[s] = "COMMITTED" /\ SeqNewer(seq[s], last[c])
      /\ seq[s] \in Seqs /\ last[c] \in Seqs
  BY <1>1 DEF Deliverable, RingInv, TypeOK
<1>4. Place(seq[s]) \in Int /\ Place(nextSeq) \in Int /\ MaxSequences \in Nat
  BY <1>3, PlaceValue, HalfRange DEF RingInv, TypeOK, Seqs
<1>5. Place(seq[s]) < MaxSequences
  BY <1>3, <1>4 DEF Numbers
<1>6. Order(last[c]) <= Place(seq[s])
  BY <1>2, <1>3, <1>5, NewerByOrder DEF LastInv
<1>7. Order(seq[s]) = Place(seq[s]) + 1 /\ Order(last[c]) \in Nat
  BY <1>3, <1>4, <1>5, OrderOfPlace, OrderValue
<1>8. last'[c] = seq[s] /\ \A d \in Consumers \ {c} : last'[d] = last[d] /\ leases'[d] = leases[d]
  BY <1>1 DEF RingInv, TypeOK
<1>9. ASSUME NEW l \in leases'[c] PROVE Place(l.seq) < Order(last'[c])
  <2>1. CASE l \in leases[c]
    <3>1. l.seq \in Seqs
      BY <2>1, LeaseSlots DEF RingInv, Leases
    <3>2. Place(l.seq) \in Int
      BY <3>1, PlaceValue DEF Seqs
    <3> QED BY <1>4, <1>6, <1>7, <1>8, <2>1, <3>2 DEF LastInv
  <2>2. CASE l \notin leases[c]
    <3>1. l = [slot |-> s, seq |-> seq[s], data |-> payload[s]]
      BY <1>1, <1>9, <2>2 DEF RingInv, TypeOK
    <3> QED BY <1>4, <1>7, <1>8, <3>1
  <2> QED BY <2>1, <2>2
<1>10. LastInv'
  <2>1. \A d \in Consumers : cst'[d] = "open" => Order(last'[d]) <= MaxSequences
    BY <1>2, <1>4, <1>5, <1>7, <1>8 DEF LastInv
  <2>2. \A d \in Consumers : \A l \in leases'[d] : Place(l.seq) < Order(last'[d])
    BY <1>8, <1>9 DEF LastInv
  <2> QED BY <2>1, <2>2 DEF LastInv, Place, Order
<1> QED BY <1>2, <1>4, <1>6, <1>7, <1>8, <1>10 DEF Advanced

LastGoal ==
    /\ LastInv'
    /\ \A c \in Consumers : cst[c] = "open" /\ cst'[c] = "open" => Advanced(c)

LEMMA LastKept ==
    ASSUME RingInv, LeaseInv, Numbers, LastInv, RingAct, Numbers'
    PROVE  LastGoal
<1>0. \A c \in Consumers : Order(last[c]) \in Nat
  BY OrderValue DEF RingInv, TypeOK
<1>1. ASSUME UNCHANGED <<cst, idx, last>>, \A c \in Consumers : leases'[c] \subseteq leases[c]
      PROVE  LastGoal
  BY <1>0, <1>1 DEF LastInv, Advanced, Place, Order, LastGoal
<1>2. ASSUME NEW c \in Consumers, Take(c) PROVE LastGoal
  <2>1. \A d \in Consumers \ {c} : last'[d] = last[d] /\ idx'[d] = idx[d]
    BY <1>2 DEF Take, RingInv, TypeOK
  <2> QED BY <1>0, <1>2, <2>1, TakeAdvances DEF Advanced, LastGoal
<1>3. ASSUME NEW c \in Consumers, Register(c) PROVE LastGoal
  <2>1. /\ last' = [last EXCEPT ![c] = SubscribePoint]
        /\ cst' = [cst EXCEPT ![c] = "open"] /\ cst[c] = "none"
        /\ leases' = leases
        /\ \E i \in Entries : idx' = [idx EXCEPT ![c] = i]
    BY <1>3 DEF Register
  <2>2. leases[c] = {}
    BY <2>1 DEF LeaseInv
  <2>3. Order(SubscribePoint) <= MaxSequences
    BY OrderOfSubscribePoint DEF Numbers, RingInv, TypeOK
  <2>4. \A d \in Consumers \ {c} :
            last'[d] = last[d] /\ cst'[d] = cst[d] /\ idx'[d] = idx[d] /\ leases'[d] = leases[d]
    BY <2>1 DEF RingInv, TypeOK
  <2>5. last'[c] = SubscribePoint /\ leases'[c] = {}
    BY <2>1, <2>2 DEF RingInv, TypeOK
  <2>6. LastInv'
    BY <2>3, <2>4, <2>5 DEF LastInv, Place, Order
  <2> QED BY <1>0, <2>1, <2>4, <2>6 DEF Advanced, LastGoal
<1>4. ASSUME NEW c \in Consumers, PyClose(c) PROVE LastGoal
  <2>1. /\ \A d \in Consumers \ {c} :
              last'[d] = last[d] /\ cst'[d] = cst[d] /\ idx'[d] = idx[d] /\ leases'[d] = leases[d]
        /\ cst'[c] = "none" /\ leases'[c] = {}
    BY <1>4 DEF PyClose, RingInv, TypeOK
  <2>2. LastInv'
    BY <2>1 DEF LastInv, Place, Order
  <2> QED BY <1>0, <2>1, <2>2 DEF Advanced, LastGoal
<1>5. ASSUME NEW p \in Procs, Crash(p) PROVE LastGoal
  <2>1. \A c \in Consumers :
          IF ConsumerHost[c] = p THEN cst'[c] = "none" /\ leases'[c] = {}
          ELSE last'[c] = last[c] /\ cst'[c] = cst[c] /\ idx'[c] = idx[c] /\ leases'[c] = leases[c]
    BY <1>5 DEF Crash
  <2>2. LastInv'
    BY <2>1 DEF LastInv, Place, Order
  <2> QED BY <1>0, <2>1, <2>2 DEF Advanced, LastGoal
<1>6. ASSUME NEW c \in Consumers, NEW l \in leases[c], Release(c, l) PROVE LastGoal
  BY <1>1, <1>6 DEF Release, RingInv, TypeOK
<1>7. ASSUME NEW p \in Procs, Sweep(p) \/ ClaimProducer(p) \/ DropProducer(p) \/ HandBack(p) \/ Restart(p)
      PROVE  LastGoal
  BY <1>1, <1>7 DEF Sweep, ReapOnly, ClaimProducer, DropProducer, HandBack, Restart, consumerVars
<1>8. ASSUME NEW w \in Writers,
             Reserve(w) \/ ReserveFull(w) \/ Fill(w) \/ Abort(w) \/ Commit(w)
      PROVE  LastGoal
  BY <1>1, <1>8 DEF Reserve, ReserveFull, ReapOnly, Fill, Abort, Commit, consumerVars
<1>9. ASSUME NEW c \in Consumers, RegisterFull(c) PROVE LastGoal
  BY <1>1, <1>9 DEF RegisterFull, ReapOnly, consumerVars
<1>10. ASSUME NEW c \in Consumers, FinishReleaseStale(c) PROVE LastGoal
  BY <1>1, <1>10 DEF FinishReleaseStale, consumerVars
<1>11. CASE UNCHANGED vars
  BY <1>1, <1>11 DEF vars
<1> QED
  BY <1>2, <1>3, <1>4, <1>5, <1>6, <1>7, <1>8, <1>9, <1>10, <1>11 DEF RingAct

-----------------------------------------------------------------------------
(* The audience.                                                           *)

\* The slot at hand counts all who were there; and so does every epoch that somebody
\* among them has not received.
Addressed ==
    \A c \in audience : \A w \in SinkWriters :
        wst[w] # "idle" => idx[c] \in mask[wslot[w]]
Waiting(c, k) ==
    \E s \in Slots :
        state[s] = "COMMITTED" /\ idx[c] \in mask[s] /\ Place(seq[s]) = Place(first) + k
Reached ==
    /\ published > 0 => Place(latest) < MaxSequences
    /\ \A c \in audience : \A k \in 0 .. published - 1 :
          Order(last[c]) <= Place(first) + k => Waiting(c, k)

ReachInv == LastInv /\ Addressed /\ Reached
ReachIInv == LiveIInv /\ BridgeIInv /\ ReachInv

LEMMA SlotStays ==
    ASSUME RingInv, RingAct, NEW c \in Consumers, cst[c] = "open",
           NEW s \in Slots, state[s] = "COMMITTED", idx[c] \in mask[s]
    PROVE  state'[s] = "COMMITTED" /\ seq'[s] = seq[s]
<1>1. ASSUME NEW p \in Procs
      PROVE  ReapedState(p)[s] = "COMMITTED" /\ idx[c] \in ReapedMask(p)[s]
  BY ReapKeepsEntries DEF RingInv, ReapedState, ReapedMask, AbandonedSlots
<1>2. ASSUME NEW p \in Procs, ReapOnly(p) PROVE state'[s] = "COMMITTED" /\ seq'[s] = seq[s]
  BY <1>1, <1>2 DEF ReapOnly
<1>3. ASSUME NEW w \in Writers, Reserve(w) PROVE state'[s] = "COMMITTED" /\ seq'[s] = seq[s]
  <2> DEFINE p == WriterHost[w]
  <2>1. p \in Procs
    BY ProcsAssumption
  <2>2. PICK t \in Slots : /\ Chosen(p, t)
                           /\ state' = [ReapedState(p) EXCEPT ![t] = "WRITING"]
                           /\ seq' = [seq EXCEPT ![t] = nextSeq]
    BY <1>3 DEF Reserve
  <2> HIDE DEF p
  <2>3. t # s
    BY <1>1, <2>1, <2>2 DEF Chosen, Reclaimable
  <2> QED BY <1>1, <2>1, <2>2, <2>3 DEF ReapedState, RingInv, TypeOK
<1>4. ASSUME NEW w \in Writers, Abort(w) \/ Commit(w)
      PROVE  state'[s] = "COMMITTED" /\ seq'[s] = seq[s]
  <2>1. wslot[w] # s
    BY <1>4 DEF Abort, Commit, RingInv, WriterInv
  <2> QED BY <1>4, <2>1 DEF Abort, Commit, RingInv, TypeOK
<1>5. ASSUME NEW d \in Consumers, Register(d) PROVE state'[s] = "COMMITTED" /\ seq'[s] = seq[s]
  <2>1. ConsumerHost[d] \in Procs
    BY ProcsAssumption
  <2> QED BY <1>1, <1>5, <2>1 DEF Register
<1>6. ASSUME UNCHANGED <<state, seq>> PROVE state'[s] = "COMMITTED" /\ seq'[s] = seq[s]
  BY <1>6
<1>7. ASSUME NEW d \in Consumers, NEW l \in leases[d], Release(d, l) PROVE UNCHANGED <<state, seq>>
  BY <1>7 DEF Release
<1>8. ASSUME NEW d \in Consumers, Take(d) \/ PyClose(d) \/ FinishReleaseStale(d)
      PROVE  UNCHANGED <<state, seq>>
  BY <1>8 DEF Take, PyClose, FinishReleaseStale, slotVars
<1>9. ASSUME NEW p \in Procs, ClaimProducer(p) \/ DropProducer(p) \/ HandBack(p) \/ Crash(p) \/ Restart(p)
      PROVE  UNCHANGED <<state, seq>>
  BY <1>9 DEF ClaimProducer, DropProducer, HandBack, Crash, Restart, slotVars
<1>10. ASSUME NEW w \in Writers, Fill(w) PROVE UNCHANGED <<state, seq>>
  BY <1>10 DEF Fill
<1>11. ASSUME NEW w \in Writers, ReserveFull(w) PROVE state'[s] = "COMMITTED" /\ seq'[s] = seq[s]
  BY <1>2, <1>11, ProcsAssumption DEF ReserveFull
<1>12. ASSUME NEW d \in Consumers, RegisterFull(d) PROVE state'[s] = "COMMITTED" /\ seq'[s] = seq[s]
  BY <1>2, <1>12, ProcsAssumption DEF RegisterFull
<1>13. UNCHANGED vars => UNCHANGED <<state, seq>>
  BY DEF vars
<1> QED
  BY <1>2, <1>3, <1>4, <1>5, <1>6, <1>7, <1>8, <1>9, <1>10, <1>11, <1>12, <1>13
  DEF RingAct, Sweep

LEMMA AudienceGathers ==
    ASSUME [LiveNext]_liveVars, NEW c \in audience', c \notin audience
    PROVE  AwaitConsumers
<1>1. ~ UNCHANGED audience
  OBVIOUS
<1>2. CASE SinkStep
  BY <1>1, <1>2 DEF SinkStep, Start, VideoDestination, DecodeAside, Decode, PublishCopy,
     EpochReady, EngineFails, EndOfClip, ExitMain, RoleReturned, sinkVars
<1>3. CASE BridgeCrash
  BY <1>3 DEF BridgeCrash
<1>4. CASE OthersAct
  BY <1>4 DEF OthersAct, OthersStep, StillOpen, sinkVars
<1>5. ~ UNCHANGED liveVars
  BY <1>1 DEF liveVars, sinkVars
<1> QED BY <1>2, <1>3, <1>4, <1>5 DEF LiveNext, OthersAct

LEMMA SinkWriterSteps ==
    ASSUME BridgeIInv, [LiveNext]_liveVars, NEW w \in SinkWriters, wst'[w] # "idle"
    PROVE  (wst[w] # "idle" /\ wslot'[w] = wslot[w]) \/ Reserve(w)
<1> USE DEF BridgeIInv, SinkInv
<1>0. SinkWriters \subseteq Writers /\ w \in Writers
  BY Parties DEF SinkWriters
<1>1. ASSUME UNCHANGED writerVars PROVE wst[w] # "idle" /\ wslot'[w] = wslot[w]
  BY <1>1 DEF writerVars
<1>2. ASSUME NEW v \in SinkWriters,
             Reserve(v) \/ ReserveFull(v) \/ Fill(v) \/ Commit(v) \/ Abort(v)
      PROVE  (wst[w] # "idle" /\ wslot'[w] = wslot[w]) \/ Reserve(w)
  BY <1>0, <1>1, <1>2 DEF Reserve, ReserveFull, ReapOnly, Fill, Commit, Abort, WriterDone,
     CoreInv, RingInv, TypeOK
<1>3. CASE SinkStep
  <2>1. CASE Start \/ ExitMain \/ RoleReturned
    BY <1>1, <2>1 DEF Start, ExitMain, RoleReturned, ClaimProducer, DropProducer, HandBack
  <2>2. CASE AwaitConsumers \/ DecodeAside \/ EndOfClip
    BY <1>1, <2>2 DEF AwaitConsumers, DecodeAside, EndOfClip, vars, writerVars
  <2>3. CASE VideoDestination \/ PublishCopy
    BY <1>2, <2>3 DEF VideoDestination, PublishCopy, ReserveOrFail, SinkWriters
  <2>4. CASE Decode \/ EpochReady
    BY <1>2, <2>4 DEF Decode, EpochReady, SinkWriters
  <2>5. CASE EngineFails
    <3>1. CASE UNCHANGED vars
      BY <1>1, <3>1 DEF vars, writerVars
    <3>2. CASE Abort(PendingWriter)
      BY <1>2, <3>2 DEF SinkWriters
    <3> QED BY <2>5, <3>1, <3>2 DEF EngineFails, AbortEpoch
  <2> QED BY <1>3, <2>1, <2>2, <2>3, <2>4, <2>5 DEF SinkStep
<1>4. CASE BridgeCrash
  BY <1>0, <1>4, Parties DEF BridgeCrash, Crash, SinkWriters
<1>5. CASE OthersAct
  BY <1>5, OthersLeave DEF Left
<1>6. CASE UNCHANGED liveVars
  BY <1>1, <1>6 DEF liveVars, vars, writerVars
<1> QED BY <1>3, <1>4, <1>5, <1>6 DEF LiveNext, OthersAct

LEMMA RecordSteps ==
    ASSUME [LiveNext]_liveVars
    PROVE  \/ UNCHANGED sinkRecord
           \/ published' = 0
           \/ \E w \in SinkWriters : wst[w] = "filled" /\ Commit(w) /\ Record(wseq[w])
<1>1. CASE SinkStep
  BY <1>1 DEF SinkStep, Start, AwaitConsumers, VideoDestination, DecodeAside, Decode, PublishCopy,
     EpochReady, EngineFails, EndOfClip, ExitMain, RoleReturned, sinkVars, sinkRecord, SinkWriters
<1>2. CASE BridgeCrash
  BY <1>2 DEF BridgeCrash
<1>3. CASE OthersAct
  BY <1>3 DEF OthersAct, OthersStep, sinkVars, sinkRecord
<1>4. CASE UNCHANGED liveVars
  BY <1>4 DEF liveVars, sinkVars, sinkRecord
<1> QED BY <1>1, <1>2, <1>3, <1>4 DEF LiveNext, OthersAct

LEMMA AddressedKept ==
    ASSUME ReachIInv, [LiveNext]_liveVars, BridgeIInv', LastGoal
    PROVE  Addressed'
<1> USE DEF ReachIInv, ReachInv, BridgeIInv, SinkInv
<1> SUFFICES ASSUME NEW c \in audience', NEW w \in SinkWriters, wst'[w] # "idle"
             PROVE  idx'[c] \in mask'[wslot'[w]]
  BY DEF Addressed
<1>0. w \in Writers /\ SinkWriters \subseteq Writers
  BY Parties DEF SinkWriters
<1>1. c \in audience
  <2>1. SUFFICES ASSUME AwaitConsumers PROVE FALSE
    BY AudienceGathers
  <2>2. stage = "awaiting" /\ wst' = wst
    BY <2>1 DEF AwaitConsumers, vars
  <2> QED BY <2>2 DEF OneEpoch, SinkWriters
<1>2. c \in Consumers /\ cst[c] = "open" /\ cst'[c] = "open"
  BY <1>1 DEF SinkTypes
<1>3. idx'[c] = idx[c]
  BY <1>2 DEF LastGoal, Advanced
<1>4. CASE wst[w] # "idle" /\ wslot'[w] = wslot[w]
  <2>1. wslot[w] \in Slots /\ state[wslot[w]] = "WRITING" /\ Kept(wslot[w])
    BY <1>0, <1>4 DEF CoreInv, RingInv, WriterInv, Kept
  <2>2. idx[c] \in mask[wslot[w]]
    BY <1>1, <1>4 DEF Addressed
  <2>3. \A l \in leases[c] : l.slot # wslot[w]
    BY <1>2, <2>1 DEF LiveIInv, LeaseInv
  <2> QED BY <1>2, <1>3, <1>4, <2>1, <2>2, <2>3, OwnRelease
<1>5. CASE Reserve(w)
  <2> DEFINE p == WriterHost[w]
  <2>1. PICK s \in Slots : /\ mask' = [ReapedMask(p) EXCEPT ![s] = Registered(p)]
                           /\ wslot' = [wslot EXCEPT ![w] = s]
    BY <1>5 DEF Reserve
  <2>2. p \in Procs
    BY <1>0, ProcsAssumption
  <2> HIDE DEF p
  <2>3. wslot'[w] = s /\ mask'[s] = Registered(p)
    BY <1>0, <2>1 DEF CoreInv, RingInv, TypeOK, ReapedMask
  <2>4. idx[c] \in Entries /\ ReapedActive(p)[idx[c]]
    BY <1>2, <2>2, ReapKeepsEntries DEF CoreInv, RingInv, EntryInv
  <2> QED BY <1>3, <2>3, <2>4 DEF Registered
<1> QED BY <1>4, <1>5, SinkWriterSteps

LEMMA ReachedKept ==
    ASSUME ReachIInv, [LiveNext]_liveVars, BridgeIInv', LastGoal
    PROVE  Reached'
<1> USE DEF ReachIInv, ReachInv, BridgeIInv, SinkInv
<1>0. SinkWriters \subseteq Writers /\ RingAct
  BY Parties, RingActs DEF SinkWriters, liveVars, RingAct
<1>1. \A q \in Seqs : Place(q) \in Int /\ Order(q) \in Int
  BY PlaceValue, OrderValue DEF Seqs
<1>2. /\ published \in Nat /\ published' \in Nat /\ first \in Seqs /\ first' \in Seqs
      /\ seq \in [Slots -> Seqs] /\ last \in [Consumers -> Seqs] /\ last' \in [Consumers -> Seqs]
      /\ wseq \in [Writers -> Seqs] /\ nextSeq \in Seqs /\ MaxSequences \in Int
  BY HalfRange DEF SinkTypes, CoreInv, RingInv, TypeOK
<1>3. published' > 0 => Place(latest') < MaxSequences
  <2>1. ASSUME NEW w \in SinkWriters, wst[w] = "filled", Commit(w), Record(wseq[w])
        PROVE  Place(latest') < MaxSequences
    <3>1. wslot[w] \in Slots /\ state[wslot[w]] # "FREE" /\ seq[wslot[w]] = wseq[w]
      BY <1>0, <2>1 DEF CoreInv, RingInv, WriterInv
    <3>2. Place(wseq[w]) < Place(nextSeq) /\ Place(nextSeq) <= MaxSequences
      BY <3>1 DEF CoreInv, Numbers
    <3> QED BY <1>0, <1>1, <1>2, <2>1, <3>2 DEF Record
  <2> QED BY <1>2, <2>1, RecordSteps DEF Reached, sinkRecord
<1>4. ASSUME NEW c \in audience', NEW k \in 0 .. published' - 1,
             Order(last'[c]) <= Place(first') + k
      PROVE  \E s \in Slots : /\ state'[s] = "COMMITTED" /\ idx'[c] \in mask'[s]
                              /\ Place(seq'[s]) = Place(first') + k
  <2>0. published' > 0 /\ k \in Nat
    <3>1. published' \in Nat
      BY <1>2
    <3>2. \A n \in Nat : \A j \in 0 .. n - 1 : n > 0 /\ j \in Nat
      OBVIOUS
    <3> QED BY <3>1, <3>2
  <2>1. c \in audience
    <3>1. SUFFICES ASSUME AwaitConsumers PROVE FALSE
      BY AudienceGathers
    <3>2. published = 0 /\ published' = published
      BY <3>1 DEF AwaitConsumers, sinkRecord, OneEpoch
    <3> QED BY <2>0, <3>2
  <2>2. c \in Consumers /\ cst[c] = "open" /\ cst'[c] = "open"
    BY <2>1 DEF SinkTypes
  <2>3. idx'[c] = idx[c] /\ Order(last[c]) <= Order(last'[c])
    BY <2>2 DEF LastGoal, Advanced
  <2>4. CASE k < published /\ first' = first
    <3>1. k \in 0 .. published - 1 /\ Order(last[c]) <= Place(first) + k
      BY <1>1, <1>2, <1>4, <2>0, <2>2, <2>3, <2>4
    <3>2. PICK s \in Slots : /\ state[s] = "COMMITTED" /\ idx[c] \in mask[s]
                             /\ Place(seq[s]) = Place(first) + k
      BY <2>1, <3>1 DEF Reached, Waiting
    <3>3. state'[s] = "COMMITTED" /\ seq'[s] = seq[s]
      BY <1>0, <2>2, <3>2, SlotStays DEF CoreInv
    <3>4. ASSUME NEW l \in leases[c], l.slot = s PROVE FALSE
      <4>1. l.seq = seq[s] /\ Place(l.seq) < Order(last[c])
        BY <2>2, <3>4 DEF LiveIInv, LeaseInv, LastInv
      <4> QED BY <1>1, <1>2, <2>2, <3>1, <3>2, <4>1
    <3>5. idx'[c] \in mask'[s]
      BY <2>2, <2>3, <3>2, <3>4, OwnRelease DEF Kept
    <3> QED BY <2>4, <3>2, <3>3, <3>5
  <2>5. CASE UNCHANGED sinkRecord
    BY <1>4, <1>2, <2>4, <2>5 DEF sinkRecord
  <2>6. ASSUME NEW w \in SinkWriters, wst[w] = "filled", Commit(w), Record(wseq[w]),
               ~(k < published /\ first' = first)
        PROVE  \E s \in Slots : /\ state'[s] = "COMMITTED" /\ idx'[c] \in mask'[s]
                                /\ Place(seq'[s]) = Place(first') + k
    <3>1. published' = published + 1 /\ latest' = wseq[w] /\ (published > 0 => first' = first)
      BY <2>6 DEF Record
    <3>2. k = published
      BY <1>2, <1>4, <2>6, <3>1
    <3>3. Place(wseq[w]) = Place(first') + k
      <4>1. Place(latest') = Place(first') + published' - 1
        BY <2>0 DEF Trace, Place
      <4> QED BY <1>1, <1>2, <3>1, <3>2, <4>1
    <3>4. wslot[w] \in Slots /\ seq[wslot[w]] = wseq[w]
      BY <1>0, <2>6 DEF CoreInv, RingInv, WriterInv
    <3>5. state'[wslot[w]] = "COMMITTED" /\ seq' = seq /\ mask' = mask
      BY <2>6, <3>4 DEF Commit, CoreInv, RingInv, TypeOK
    <3>6. idx[c] \in mask[wslot[w]]
      BY <2>1, <2>6 DEF Addressed
    <3> QED BY <2>3, <3>3, <3>4, <3>5, <3>6
  <2> QED BY <2>0, <2>4, <2>5, <2>6, RecordSteps
<1> QED BY <1>3, <1>4 DEF Reached, Waiting, Place, Order

LEMMA ReachStep ==
    ASSUME NoStaleReleaseRaces, NoClaimDuringDrop, ReachIInv, [LiveNext]_liveVars
    PROVE  ReachIInv'
<1>1. BridgeIInv' /\ LiveIInv'
  BY BridgeStep, LiveStep DEF ReachIInv
<1>2. LastGoal
  BY <1>1, RingActs, LastKept
  DEF ReachIInv, ReachInv, BridgeIInv, LiveIInv, CoreInv, liveVars, RingAct
<1> QED BY <1>1, <1>2, AddressedKept, ReachedKept DEF ReachIInv, ReachInv, LastGoal

LEMMA ReachInvariant ==
    ASSUME NoStaleReleaseRaces, NoClaimDuringDrop
    PROVE  LiveSpec => []ReachIInv
<1>1. LiveInit => ReachIInv
  <2> SUFFICES ASSUME LiveInit PROVE ReachIInv
    OBVIOUS
  <2>1. BridgeIInv
    BY BridgeInitial
  <2>2. LastInv /\ Addressed /\ Reached
    BY DEF LiveInit, Init, SinkInit, LastInv, Addressed, Reached
  <2> QED BY <2>1, <2>2, LiveInitial DEF ReachIInv, ReachInv
<1>2. ReachIInv /\ [LiveNext]_liveVars => ReachIInv'
  BY ReachStep
<1> QED BY <1>1, <1>2, PTL DEF LiveSpec

LEMMA EpochPlace ==
    ASSUME NEW q \in Seqs, NEW k \in Nat, Place(q) + k <= MaxSequences
    PROVE  (q + k) % SeqMod \in Seqs /\ Place((q + k) % SeqMod) = Place(q) + k
<1>1. /\ SeqMod \in Nat /\ SeqMod > 0 /\ FirstSeq \in Int /\ 0 <= FirstSeq /\ FirstSeq < SeqMod
      /\ q \in Int /\ 0 <= q /\ q < SeqMod /\ MaxSequences \in Int /\ MaxSequences < SeqMod
  BY SizesAssumption, HalfRange DEF Seqs
<1>2. Place(q) = IF q >= FirstSeq THEN q - FirstSeq ELSE q - FirstSeq + SeqMod
  BY PlaceValue
<1>3. CASE q + k < SeqMod
  <2> DEFINE r == q + k
  <2>1. r \in Int /\ 0 <= r /\ r < SeqMod /\ r = q + k
    BY <1>1, <1>3
  <2> HIDE DEF r
  <2>2. r % SeqMod = r /\ r \in Seqs
    BY <1>1, <2>1, ModValue DEF Seqs
  <2>3. Place(r) = IF r >= FirstSeq THEN r - FirstSeq ELSE r - FirstSeq + SeqMod
    BY <2>2, PlaceValue
  <2>4. Place(r) = Place(q) + k
    BY <1>1, <1>2, <2>1, <2>3
  <2> QED BY <2>1, <2>2, <2>4
<1>4. CASE ~(q + k < SeqMod)
  <2> DEFINE r == q + k - SeqMod
  <2>1. r \in Int /\ 0 <= r /\ r < SeqMod /\ q + k = r + SeqMod
    BY <1>1, <1>2, <1>4
  <2> HIDE DEF r
  <2>2. (r + SeqMod) % SeqMod = r
    BY <1>1, <2>1
  <2>3. r \in Seqs
    BY <1>1, <2>1 DEF Seqs
  <2>4. Place(r) = IF r >= FirstSeq THEN r - FirstSeq ELSE r - FirstSeq + SeqMod
    BY <2>3, PlaceValue
  <2>5. Place(r) = Place(q) + k
    BY <1>1, <1>2, <2>1, <2>4
  <2> QED BY <2>1, <2>2, <2>3, <2>5
<1> QED BY <1>3, <1>4

\* --await-consumers: whoever was registered when the stream began, and still is, has
\* received every epoch that BusSink recorded, or will: as long as no thread of a process
\* claims the role while another is inside Producer::drop, and no release of a stale
\* lease is overtaken, which may clear the bit of a member of the audience.
THEOREM AudienceReached ==
    ASSUME NoStaleReleaseRaces, NoClaimDuringDrop
    PROVE  LiveSpec => []EpochsReachAudience
<1>1. ASSUME ReachIInv, NEW c \in audience, NEW k \in 0 .. published - 1,
             SeqNewer((first + k) % SeqMod, last[c])
      PROVE  \E s \in Deliverable(c) : seq[s] = (first + k) % SeqMod
  <2> USE <1>1 DEF ReachIInv, ReachInv, BridgeIInv, SinkInv
  <2> DEFINE epoch == (first + k) % SeqMod
  <2>1. /\ c \in Consumers /\ cst[c] = "open" /\ k \in Nat /\ first \in Seqs /\ latest \in Seqs
        /\ published \in Nat /\ published > 0 /\ k <= published - 1 /\ last[c] \in Seqs
    BY DEF SinkTypes, CoreInv, RingInv, TypeOK
  <2>2. /\ Place(first) \in Int /\ Place(latest) \in Int /\ MaxSequences \in Int
        /\ Place(latest) = Place(first) + published - 1 /\ Place(latest) < MaxSequences
    BY <2>1, PlaceValue, HalfRange DEF Seqs, Trace, Reached
  <2>3. epoch \in Seqs /\ Place(epoch) = Place(first) + k
    BY <2>1, <2>2, EpochPlace
  <2> HIDE DEF epoch
  <2>4. Order(last[c]) <= MaxSequences
    BY <2>1 DEF LastInv
  <2>5. SeqNewer(epoch, last[c])
    BY DEF epoch
  <2>6. Order(last[c]) <= Place(epoch)
    BY <2>1, <2>2, <2>3, <2>4, <2>5, NewerByOrder
  <2>7. PICK s \in Slots : /\ state[s] = "COMMITTED" /\ idx[c] \in mask[s]
                           /\ Place(seq[s]) = Place(epoch)
    BY <2>3, <2>6 DEF Reached, Waiting
  <2>8. seq[s] = epoch
    BY <2>3, <2>7, PlaceUnique DEF CoreInv, RingInv, TypeOK
  <2>9. s \in Deliverable(c)
    BY <2>5, <2>7, <2>8 DEF Deliverable
  <2> QED BY <2>8, <2>9 DEF epoch
<1>2. ReachIInv => EpochsReachAudience
  BY <1>1 DEF EpochsReachAudience
<1> QED BY <1>2, ReachInvariant, PTL

===============================================================================
