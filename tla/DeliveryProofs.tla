----------------------------- MODULE DeliveryProofs -----------------------------
(***************************************************************************)
(* What a consumer of TensorRing is given, and in which order, for every   *)
(* number of processes, consumers, writers and slots and every modulus of  *)
(* the counter.  Sequences come round again, so that nothing is said of    *)
(* their values: they are told apart by how far they are behind the next   *)
(* one, and the code's wrapping comparison is right as long as that is at  *)
(* most half the counter's range.                                          *)
(***************************************************************************)
EXTENDS TensorRingProofs, RingMulticast

Half == SeqMod \div 2

\* How far q is behind n; the age of a sequence is how far it is behind the next one.
Behind(n, q) == (n - q) % SeqMod
Age(q) == Behind(nextSeq, q)
Recent(q) == Age(q) \in 1 .. Half

-----------------------------------------------------------------------------
(* The arithmetic.                                                         *)

LEMMA Modulus ==
    /\ SeqMod \in Nat /\ SeqMod >= 4
    /\ Half \in Nat /\ Half >= 2 /\ SeqMod = Half + Half
BY SizesAssumption DEF Half

LEMMA ModOf ==
    ASSUME NEW n \in Nat, n > 0, NEW a \in Int
    PROVE  /\ 0 <= a /\ a < n => a % n = a
           /\ -n <= a /\ a < 0 => a % n = a + n
<1>1. ASSUME 0 <= a, a < n PROVE a % n = a
  BY <1>1
<1>2. ASSUME -n <= a, a < 0 PROVE a % n = a + n
  BY <1>2
<1> QED BY <1>1, <1>2

LEMMA Difference ==
    ASSUME NEW n \in Seqs, NEW q \in Seqs
    PROVE  /\ (n - q) % SeqMod = IF q <= n THEN n - q ELSE n - q + SeqMod
           /\ (n - q) % SeqMod \in Seqs
<1>1. /\ SeqMod \in Nat /\ SeqMod > 0 /\ n \in Int /\ q \in Int /\ n - q \in Int
      /\ 0 <= q /\ q < SeqMod /\ 0 <= n /\ n < SeqMod
  BY Modulus DEF Seqs
<1>2. CASE q <= n
  <2>1. (n - q) % SeqMod = n - q
    BY <1>1, <1>2, ModOf
  <2> QED BY <1>1, <1>2, <2>1 DEF Seqs
<1>3. CASE ~(q <= n)
  <2>1. -SeqMod <= n - q /\ n - q < 0
    BY <1>1, <1>3
  <2>2. (n - q) % SeqMod = n - q + SeqMod
    BY <1>1, <2>1, ModOf
  <2> QED BY <1>1, <1>3, <2>2 DEF Seqs
<1> QED BY <1>2, <1>3

LEMMA BehindValue ==
    ASSUME NEW n \in Seqs, NEW q \in Seqs
    PROVE  /\ Behind(n, q) = IF q <= n THEN n - q ELSE n - q + SeqMod
           /\ Behind(n, q) \in Seqs
BY Difference DEF Behind

LEMMA SuccValue ==
    ASSUME NEW n \in Seqs
    PROVE  Succ(n) \in Seqs /\ Succ(n) = IF n + 1 = SeqMod THEN 0 ELSE n + 1
<1>1. SeqMod \in Nat /\ SeqMod > 0 /\ n \in Int /\ 0 <= n /\ n < SeqMod
  BY Modulus DEF Seqs
<1>2. CASE n + 1 = SeqMod
  BY <1>1, <1>2 DEF Succ, Seqs
<1>3. CASE n + 1 # SeqMod
  <2>1. 0 <= n + 1 /\ n + 1 < SeqMod /\ n + 1 \in Int
    BY <1>1, <1>3
  <2>2. (n + 1) % SeqMod = n + 1
    BY <1>1, <2>1, ModOf
  <2> QED BY <1>1, <1>3, <2>1, <2>2 DEF Succ, Seqs
<1> QED BY <1>2, <1>3

LEMMA BehindUnique ==
    ASSUME NEW n \in Seqs, NEW q \in Seqs, NEW r \in Seqs, Behind(n, q) = Behind(n, r)
    PROVE  q = r
<1>1. /\ Behind(n, q) = IF q <= n THEN n - q ELSE n - q + SeqMod
      /\ Behind(n, r) = IF r <= n THEN n - r ELSE n - r + SeqMod
  BY BehindValue
<1>2. /\ SeqMod \in Int /\ n \in Int /\ q \in Int /\ r \in Int
      /\ 0 <= n /\ n < SeqMod /\ 0 <= q /\ q < SeqMod /\ 0 <= r /\ r < SeqMod
  BY Modulus DEF Seqs
<1>3. CASE q <= n /\ r <= n
  <2>1. n - q = n - r
    BY <1>1, <1>3
  <2> QED BY <1>2, <2>1
<1>4. CASE ~(q <= n) /\ ~(r <= n)
  <2>1. n - q + SeqMod = n - r + SeqMod
    BY <1>1, <1>4
  <2> QED BY <1>2, <2>1
<1>5. CASE q <= n /\ ~(r <= n)
  <2>1. n - q = n - r + SeqMod
    BY <1>1, <1>5
  <2> QED BY <1>2, <1>5, <2>1
<1>6. CASE ~(q <= n) /\ r <= n
  <2>1. n - q + SeqMod = n - r
    BY <1>1, <1>6
  <2> QED BY <1>2, <1>6, <2>1
<1> QED BY <1>3, <1>4, <1>5, <1>6

\* One sequence on, everything is one further behind.
LEMMA BehindSucc ==
    ASSUME NEW n \in Seqs, NEW q \in Seqs
    PROVE  /\ Behind(n, q) < SeqMod - 1 => Behind(Succ(n), q) = Behind(n, q) + 1
           /\ q # n => Behind(n, q) >= 1
           /\ Behind(Succ(n), q) >= 1 => Behind(Succ(n), q) = Behind(n, q) + 1
           /\ Behind(Succ(n), n) = 1
<1>1. Succ(n) \in Seqs /\ Succ(n) = IF n + 1 = SeqMod THEN 0 ELSE n + 1
  BY SuccValue
<1>2. /\ Behind(n, q) = IF q <= n THEN n - q ELSE n - q + SeqMod
      /\ Behind(Succ(n), q) = IF q <= Succ(n) THEN Succ(n) - q ELSE Succ(n) - q + SeqMod
      /\ Behind(Succ(n), n) = IF n <= Succ(n) THEN Succ(n) - n ELSE Succ(n) - n + SeqMod
  BY <1>1, BehindValue
<1>3. /\ SeqMod \in Int /\ SeqMod >= 4 /\ n \in Int /\ q \in Int
      /\ 0 <= n /\ n < SeqMod /\ 0 <= q /\ q < SeqMod
  BY Modulus DEF Seqs
<1> QED BY <1>1, <1>2, <1>3

LEMMA SuccBehind ==
    ASSUME NEW n \in Seqs, NEW q \in Seqs, Behind(n, q) >= 1
    PROVE  Behind(n, Succ(q)) = Behind(n, q) - 1
<1>1. Succ(q) \in Seqs /\ Succ(q) = IF q + 1 = SeqMod THEN 0 ELSE q + 1
  BY SuccValue
<1>2. /\ Behind(n, q) = IF q <= n THEN n - q ELSE n - q + SeqMod
      /\ Behind(n, Succ(q)) = IF Succ(q) <= n THEN n - Succ(q) ELSE n - Succ(q) + SeqMod
  BY <1>1, BehindValue
<1>3. /\ SeqMod \in Int /\ SeqMod >= 4 /\ n \in Int /\ q \in Int
      /\ 0 <= n /\ n < SeqMod /\ 0 <= q /\ q < SeqMod
  BY Modulus DEF Seqs
<1> QED BY <1>1, <1>2, <1>3

\* Within half the range, the code's comparison says which is less far behind.
LEMMA NewerByBehind ==
    ASSUME NEW n \in Seqs, NEW a \in Seqs, NEW b \in Seqs,
           Behind(n, a) \in 1 .. Half, Behind(n, b) \in 1 .. Half
    PROVE  SeqNewer(a, b) <=> Behind(n, a) < Behind(n, b)
<1>1. (a - b) % SeqMod = IF b <= a THEN a - b ELSE a - b + SeqMod
  BY Difference
<1>2. /\ Behind(n, a) = IF a <= n THEN n - a ELSE n - a + SeqMod
      /\ Behind(n, b) = IF b <= n THEN n - b ELSE n - b + SeqMod
  BY BehindValue
<1>3. SeqNewer(a, b) <=> (a - b) % SeqMod \in 1 .. Half - 1
  BY DEF SeqNewer, Half
<1>4. /\ SeqMod \in Int /\ Half \in Int /\ SeqMod = Half + Half
      /\ n \in Int /\ a \in Int /\ b \in Int
      /\ 0 <= n /\ n < SeqMod /\ 0 <= a /\ a < SeqMod /\ 0 <= b /\ b < SeqMod
      /\ 1 <= Behind(n, a) /\ Behind(n, a) <= Half
      /\ 1 <= Behind(n, b) /\ Behind(n, b) <= Half
  BY Modulus DEF Seqs
<1> QED BY <1>1, <1>2, <1>3, <1>4

LEMMA ComparableByBehind ==
    ASSUME NEW n \in Seqs, NEW q \in Seqs
    PROVE  Comparable(n, q) <=> Behind(n, q) # Half
BY DEF Comparable, Behind, Half

-----------------------------------------------------------------------------
(* The counter, and the slots in use: they have different sequences, and   *)
(* all of them are recent.                                                 *)

NextAge(q) == Behind(nextSeq', q)

SlotAges ==
    /\ \A s \in Slots : state[s] # "FREE" => Recent(seq[s])
    /\ \A s, t \in Slots :
          state[s] # "FREE" /\ state[t] # "FREE" /\ seq[s] = seq[t] => s = t

LEMMA NextSeqStep ==
    ASSUME TypeOK, [Next]_vars
    PROVE  \/ nextSeq' = nextSeq
           \/ (\E w \in Writers : Reserve(w)) /\ nextSeq' = Succ(nextSeq)
           \/ \E w \in Writers :
                 Abort(w) /\ wst[w] # "idle" /\ nextSeq' = wseq[w] /\ nextSeq = Succ(wseq[w])
<1>1. ASSUME NEW w \in Writers, Reserve(w) PROVE nextSeq' = Succ(nextSeq)
  BY <1>1 DEF Reserve
<1>2. ASSUME NEW w \in Writers, Abort(w)
      PROVE  /\ wst[w] # "idle"
             /\ nextSeq' = nextSeq \/ (nextSeq' = wseq[w] /\ nextSeq = Succ(wseq[w]))
  BY <1>2 DEF Abort, SeqAfterAbort
<1>3. ASSUME NEW w \in Writers, ReserveFull(w) \/ Fill(w) \/ Commit(w)
      PROVE  nextSeq' = nextSeq
  BY <1>3 DEF ReserveFull, ReapOnly, Fill, Commit
<1>4. ASSUME NEW p \in Procs,
             \/ Sweep(p) \/ ClaimProducer(p) \/ DropProducer(p)
             \/ HandBack(p) \/ Crash(p) \/ Restart(p)
      PROVE  nextSeq' = nextSeq
  BY <1>4 DEF Sweep, ReapOnly, ClaimProducer, DropProducer, HandBack, Crash, Restart
<1>5. ASSUME NEW c \in Consumers, Register(c) \/ RegisterFull(c) \/ Take(c) \/ Drop(c)
      PROVE  nextSeq' = nextSeq
  BY <1>5 DEF Register, RegisterFull, ReapOnly, Take, Drop
<1>6. ASSUME NEW c \in Consumers, NEW l \in leases[c], Release(c, l)
      PROVE  nextSeq' = nextSeq
  BY <1>6 DEF Release
<1>7. CASE UNCHANGED vars
  BY <1>7 DEF vars
<1> QED BY <1>1, <1>2, <1>3, <1>4, <1>5, <1>6, <1>7 DEF Next

\* What is recent stays so, unless the counter gets half its range ahead of it, or it
\* is handed back.
LEMMA RecentKept ==
    ASSUME TypeOK, [Next]_vars, NEW q \in Seqs, Recent(q),
           \A w \in Writers : Reserve(w) => Comparable(nextSeq, q),
           \A w \in Writers : Abort(w) /\ wst[w] # "idle" => wseq[w] # q
    PROVE  NextAge(q) \in 1 .. Half
<1>1. nextSeq \in Seqs /\ (\A w \in Writers : wseq[w] \in Seqs) /\ Age(q) \in 1 .. Half
  BY DEF TypeOK, Recent
<1>2. CASE nextSeq' = nextSeq
  BY <1>1, <1>2 DEF Age, NextAge
<1>3. CASE (\E w \in Writers : Reserve(w)) /\ nextSeq' = Succ(nextSeq)
  <2>1. Age(q) # Half
    BY <1>1, <1>3, ComparableByBehind DEF Age
  <2>2. Age(q) < SeqMod - 1 => NextAge(q) = Age(q) + 1
    BY <1>1, <1>3, BehindSucc DEF Age, NextAge
  <2> QED BY <1>1, <2>1, <2>2, Modulus
<1>4. CASE \E w \in Writers :
              Abort(w) /\ wst[w] # "idle" /\ nextSeq' = wseq[w] /\ nextSeq = Succ(wseq[w])
  <2>1. PICK w \in Writers :
           Abort(w) /\ wst[w] # "idle" /\ nextSeq' = wseq[w] /\ nextSeq = Succ(wseq[w])
    BY <1>4
  <2>2. wseq[w] # q /\ wseq[w] \in Seqs
    BY <1>1, <2>1
  <2>3. NextAge(q) >= 1 /\ (Age(q) >= 1 => Age(q) = NextAge(q) + 1) /\ NextAge(q) \in Seqs
    BY <2>1, <2>2, BehindSucc, BehindValue DEF Age, NextAge
  <2> QED BY <1>1, <2>3, Modulus DEF Seqs
<1> QED BY <1>2, <1>3, <1>4, NextSeqStep

\* All that stay recent age alike, so that their order stays.
LEMMA AgeTogether ==
    ASSUME TypeOK, [Next]_vars
    PROVE  \E k \in {-1, 0, 1} : \A q \in Seqs :
              Recent(q) /\ NextAge(q) \in 1 .. Half => NextAge(q) = Age(q) + k
<1>1. nextSeq \in Seqs /\ (\A w \in Writers : wseq[w] \in Seqs)
      /\ \A q \in Seqs : Recent(q) => Age(q) \in 1 .. Half
  BY DEF TypeOK, Recent
<1>2. CASE nextSeq' = nextSeq
  <2>1. \A q \in Seqs : Recent(q) => NextAge(q) = Age(q) + 0
    BY <1>1, <1>2, Modulus DEF Age, NextAge
  <2> QED BY <2>1
<1>3. CASE nextSeq' = Succ(nextSeq)
  <2>1. \A q \in Seqs : NextAge(q) >= 1 => NextAge(q) = Age(q) + 1
    BY <1>1, <1>3, BehindSucc DEF Age, NextAge
  <2>2. \A q \in Seqs : NextAge(q) \in 1 .. Half => NextAge(q) >= 1
    BY Modulus
  <2> QED BY <2>1, <2>2
<1>4. CASE \E w \in Writers : nextSeq' = wseq[w] /\ nextSeq = Succ(wseq[w])
  <2>1. \A q \in Seqs : Age(q) >= 1 => Age(q) = NextAge(q) + 1
    BY <1>1, <1>4, BehindSucc DEF Age, NextAge
  <2>2. \A q \in Seqs : NextAge(q) \in 1 .. Half => NextAge(q) \in Int
    BY Modulus
  <2>3. \A q \in Seqs : Recent(q) /\ NextAge(q) \in 1 .. Half => NextAge(q) = Age(q) + -1
    BY <1>1, <2>1, <2>2, Modulus
  <2> QED BY <2>3
<1> QED BY <1>2, <1>3, <1>4, NextSeqStep

LEMMA OrderKept ==
    ASSUME TypeOK, [Next]_vars, NEW q \in Seqs, NEW r \in Seqs, Recent(q), Recent(r),
           NextAge(q) \in 1 .. Half, NextAge(r) \in 1 .. Half
    PROVE  Age(q) < Age(r) <=> NextAge(q) < NextAge(r)
<1>1. PICK k \in {-1, 0, 1} : NextAge(q) = Age(q) + k /\ NextAge(r) = Age(r) + k
  BY AgeTogether
<1>2. Age(q) \in Int /\ Age(r) \in Int /\ k \in Int
  BY Modulus DEF Recent
<1> QED BY <1>1, <1>2

\* A slot to be read, now or when its writer commits.
InUse(s) == state[s] = "COMMITTED" \/ \E w \in Writers : wst[w] # "idle" /\ wslot[w] = s

\* What a step does to a slot that is not free, but to reserve it.
Stayed(s) ==
    /\ state[s] # "FREE" /\ seq'[s] = seq[s] /\ mask'[s] \subseteq mask[s]
    /\ state'[s] = "COMMITTED" => InUse(s)

LEMMA SlotStep ==
    ASSUME IInv, [Next]_vars
    PROVE  \/ /\ \A s \in Slots : state'[s] # "FREE" => Stayed(s)
              /\ \A w \in Writers : ~Reserve(w)
           \/ \E w \in Writers, s \in Slots :
                 /\ Reserve(w) /\ seq'[s] = nextSeq
                 /\ \A t \in Slots \ {s} : state'[t] # "FREE" =>
                       Stayed(t) /\ Comparable(nextSeq, seq[t])
<1> USE DEF IInv
<1> DEFINE AllStayed == \A s \in Slots : state'[s] # "FREE" => Stayed(s)
<1>1. ASSUME NEW p \in Procs, NEW t \in Slots, state'[t] = ReapedState(p)[t], seq'[t] = seq[t],
             mask'[t] = ReapedMask(p)[t], state'[t] # "FREE"
      PROVE  Stayed(t)
  BY <1>1 DEF ReapedState, ReapedMask, AbandonedSlots, Stayed, InUse
<1>2. CASE \E w \in Writers : Reserve(w)
  <2>1. PICK w \in Writers : Reserve(w)
    BY <1>2
  <2> DEFINE p == WriterHost[w]
  <2>2. p \in Procs
    BY ProcsAssumption
  <2>3. PICK s \in Slots :
           /\ InWindow(p, s)
           /\ state' = [ReapedState(p) EXCEPT ![s] = "WRITING"]
           /\ seq' = [seq EXCEPT ![s] = nextSeq]
           /\ mask' = [ReapedMask(p) EXCEPT ![s] = Registered(p)]
    BY <2>1 DEF Reserve
  <2>4. seq'[s] = nextSeq
    BY <2>3 DEF TypeOK
  <2>5. ASSUME NEW t \in Slots \ {s}, state'[t] # "FREE"
        PROVE  Stayed(t) /\ Comparable(nextSeq, seq[t])
    <3>1. state'[t] = ReapedState(p)[t] /\ mask'[t] = ReapedMask(p)[t] /\ seq'[t] = seq[t]
      BY <2>2, <2>3, ReapTyped DEF TypeOK
    <3> QED BY <1>1, <2>2, <2>3, <2>5, <3>1 DEF InWindow
  <2> QED BY <2>1, <2>4, <2>5
<1>3. CASE ~ \E w \in Writers : Reserve(w)
  <2>1. ASSUME NEW p \in Procs, state' = ReapedState(p), seq' = seq, mask' = ReapedMask(p)
        PROVE  AllStayed
    BY <1>1, <2>1
  <2>2. ASSUME state' = state, seq' = seq, \A s \in Slots : mask'[s] \subseteq mask[s]
        PROVE  AllStayed
    BY <2>2 DEF Stayed, InUse
  <2>3. ASSUME NEW w \in Writers, Commit(w) \/ Abort(w) PROVE AllStayed
    <3>1. wst[w] # "idle" /\ wslot[w] \in Slots /\ state[wslot[w]] = "WRITING" /\ seq' = seq
      BY <2>3 DEF Commit, Abort, WriterInv
    <3>2. \A s \in Slots \ {wslot[w]} : state'[s] = state[s] /\ mask'[s] = mask[s]
      BY <2>3 DEF Commit, Abort, TypeOK
    <3>3. state'[wslot[w]] = "FREE" \/ mask'[wslot[w]] = mask[wslot[w]]
      BY <2>3, <3>1 DEF Commit, Abort, TypeOK
    <3> QED BY <3>1, <3>2, <3>3 DEF Stayed, InUse
  <2>4. ASSUME NEW w \in Writers, ReserveFull(w) \/ Fill(w) PROVE AllStayed
    BY <2>1, <2>2, <2>4, ProcsAssumption DEF ReserveFull, ReapOnly, Fill
  <2>5. ASSUME NEW p \in Procs,
               \/ Sweep(p) \/ ClaimProducer(p) \/ DropProducer(p)
               \/ HandBack(p) \/ Crash(p) \/ Restart(p)
        PROVE  AllStayed
    BY <2>1, <2>2, <2>5
       DEF Sweep, ReapOnly, ClaimProducer, DropProducer, HandBack, Crash, Restart, slotVars
  <2>6. ASSUME NEW c \in Consumers, Register(c) \/ RegisterFull(c) \/ Take(c) \/ Drop(c)
        PROVE  AllStayed
    BY <2>1, <2>2, <2>6, ProcsAssumption
       DEF Register, RegisterFull, ReapOnly, Take, Drop, slotVars
  <2>7. ASSUME NEW c \in Consumers, NEW l \in leases[c], Release(c, l) PROVE AllStayed
    <3>1. \A s \in Slots : mask'[s] \subseteq mask[s]
      BY <2>7, LeaseSlots DEF Release, TypeOK
    <3> QED BY <2>2, <2>7, <3>1 DEF Release
  <2>8. ASSUME UNCHANGED vars PROVE AllStayed
    BY <2>2, <2>8 DEF vars
  <2> QED BY <1>3, <2>3, <2>4, <2>5, <2>6, <2>7, <2>8 DEF Next
<1> QED BY <1>2, <1>3

LEMMA SlotAgesStep ==
    ASSUME IInv, SlotAges, [Next]_vars
    PROVE  SlotAges'
<1>1. ASSUME NEW s \in Slots, state'[s] # "FREE", Stayed(s),
             \A w \in Writers : Reserve(w) => Comparable(nextSeq, seq[s])
      PROVE  NextAge(seq'[s]) \in 1 .. Half
  <2>1. seq[s] \in Seqs /\ Recent(seq[s])
    BY <1>1 DEF Stayed, SlotAges, IInv, TypeOK
  <2>2. ASSUME NEW w \in Writers, Abort(w), wst[w] # "idle" PROVE wseq[w] # seq[s]
    <3>1. wslot[w] \in Slots /\ state[wslot[w]] = "WRITING" /\ seq[wslot[w]] = wseq[w]
      BY <2>2 DEF IInv, WriterInv
    <3>2. state'[wslot[w]] = "FREE"
      BY <2>2, <3>1 DEF Abort, IInv, TypeOK
    <3> QED BY <1>1, <3>1, <3>2 DEF Stayed, SlotAges
  <2>3. NextAge(seq[s]) \in 1 .. Half
    BY <1>1, <2>1, <2>2, RecentKept DEF IInv
  <2> QED BY <1>1, <2>3 DEF Stayed
<1>2. CASE (\A s \in Slots : state'[s] # "FREE" => Stayed(s)) /\ \A w \in Writers : ~Reserve(w)
  <2>1. \A s \in Slots : state'[s] # "FREE" => NextAge(seq'[s]) \in 1 .. Half
    BY <1>1, <1>2
  <2> QED BY <1>2, <2>1 DEF SlotAges, Stayed, Recent, Age, NextAge
<1>3. ASSUME NEW w \in Writers, NEW s \in Slots,
             Reserve(w), seq'[s] = nextSeq,
             \A t \in Slots \ {s} : state'[t] # "FREE" =>
                Stayed(t) /\ Comparable(nextSeq, seq[t])
      PROVE  SlotAges'
  <2>1. nextSeq \in Seqs /\ nextSeq' = Succ(nextSeq)
    BY <1>3 DEF Reserve, IInv, TypeOK
  <2>2. NextAge(seq'[s]) = 1 /\ 1 \in 1 .. Half
    BY <1>3, <2>1, BehindSucc, Modulus DEF NextAge
  <2>3. \A t \in Slots \ {s} : state'[t] # "FREE" => NextAge(seq'[t]) \in 1 .. Half
    BY <1>1, <1>3
  <2>4. ASSUME NEW t \in Slots \ {s}, state'[t] # "FREE" PROVE seq'[t] # nextSeq
    <3>1. Stayed(t) /\ Recent(seq[t]) /\ seq[t] \in Seqs
      BY <1>3, <2>4 DEF Stayed, SlotAges, IInv, TypeOK
    <3>2. Age(nextSeq) = 0
      BY <2>1, BehindValue DEF Age, Seqs
    <3> QED BY <3>1, <3>2, Modulus DEF Recent, Stayed
  <2> QED
    BY <1>3, <2>2, <2>3, <2>4 DEF SlotAges, Stayed, Recent, Age, NextAge
<1> QED BY <1>2, <1>3, SlotStep

-----------------------------------------------------------------------------
(* A lease is never delivered again: last_sequence has got past it.        *)

LeaseAges ==
    \A c \in Consumers : leases[c] # {} =>
        /\ Recent(last[c])
        /\ \A l \in leases[c] : Age(last[c]) <= Age(l.seq)
        /\ \A w \in Writers : wst[w] # "idle" => wseq[w] # last[c]

LEMMA WriterSteps ==
    ASSUME TypeOK, [Next]_vars, NEW w \in Writers, wst'[w] # "idle"
    PROVE  \/ wst[w] # "idle" /\ wslot'[w] = wslot[w] /\ wseq'[w] = wseq[w]
           \/ Reserve(w) /\ wseq'[w] = nextSeq
<1> DEFINE Same == wst[w] # "idle" /\ wslot'[w] = wslot[w] /\ wseq'[w] = wseq[w]
<1>1. ASSUME wst' = wst, wslot' = wslot, wseq' = wseq PROVE Same
  BY <1>1
<1>2. ASSUME NEW p \in Procs,
             Sweep(p) \/ ClaimProducer(p) \/ DropProducer(p) \/ HandBack(p) \/ Restart(p)
      PROVE  Same
  BY <1>1, <1>2 DEF Sweep, ReapOnly, ClaimProducer, DropProducer, HandBack, Restart, writerVars
<1>3. ASSUME NEW p \in Procs, Crash(p) PROVE Same
  BY <1>3 DEF Crash
<1>4. ASSUME NEW v \in Writers, Reserve(v) PROVE Same \/ (Reserve(w) /\ wseq'[w] = nextSeq)
  BY <1>4 DEF Reserve, TypeOK
<1>5. ASSUME NEW v \in Writers, ReserveFull(v) PROVE Same
  BY <1>1, <1>5 DEF ReserveFull, ReapOnly, writerVars
<1>6. ASSUME NEW v \in Writers, Fill(v) \/ Commit(v) \/ Abort(v) PROVE Same
  BY <1>6 DEF Fill, Commit, Abort, WriterDone, TypeOK
<1>7. ASSUME NEW c \in Consumers, Register(c) \/ RegisterFull(c) \/ Take(c) \/ Drop(c)
      PROVE  Same
  BY <1>1, <1>7 DEF Register, RegisterFull, ReapOnly, Take, Drop, writerVars
<1>8. ASSUME NEW c \in Consumers, NEW l \in leases[c], Release(c, l) PROVE Same
  BY <1>1, <1>8 DEF Release, writerVars
<1>9. ASSUME UNCHANGED vars PROVE Same
  BY <1>1, <1>9 DEF vars
<1> QED
  BY <1>2, <1>3, <1>4, <1>5, <1>6, <1>7, <1>8, <1>9 DEF Next

\* Of a consumer: it takes, registers, ends, or at most a lease of it is released.
Rests(c) ==
    /\ cst'[c] = cst[c] /\ idx'[c] = idx[c] /\ last'[c] = last[c]
    /\ leases'[c] \subseteq leases[c]
    /\ \A l \in leases[c] : l \notin leases'[c] => idx[c] \notin mask'[l.slot]

LEMMA ConsumerStep ==
    ASSUME IInv, [Next]_vars, NEW c \in Consumers
    PROVE  Take(c) \/ Register(c) \/ cst'[c] = "none" \/ Rests(c)
<1> USE DEF IInv, TypeOK
<1>1. ASSUME UNCHANGED consumerVars PROVE Rests(c)
  BY <1>1 DEF Rests, consumerVars
<1>2. ASSUME NEW p \in Procs,
             Sweep(p) \/ ClaimProducer(p) \/ DropProducer(p) \/ HandBack(p) \/ Restart(p)
      PROVE  Rests(c)
  BY <1>1, <1>2 DEF Sweep, ReapOnly, ClaimProducer, DropProducer, HandBack, Restart
<1>3. ASSUME NEW p \in Procs, Crash(p) PROVE cst'[c] = "none" \/ Rests(c)
  BY <1>3 DEF Crash, Rests
<1>4. ASSUME NEW w \in Writers,
             Reserve(w) \/ ReserveFull(w) \/ Fill(w) \/ Commit(w) \/ Abort(w)
      PROVE  Rests(c)
  BY <1>1, <1>4 DEF Reserve, ReserveFull, ReapOnly, Fill, Commit, Abort
<1>5. ASSUME NEW d \in Consumers, Register(d) PROVE Register(c) \/ Rests(c)
  BY <1>5 DEF Register, Rests
<1>6. ASSUME NEW d \in Consumers, RegisterFull(d) PROVE Rests(c)
  BY <1>1, <1>6 DEF RegisterFull, ReapOnly
<1>7. ASSUME NEW d \in Consumers, Take(d) PROVE Take(c) \/ Rests(c)
  BY <1>7 DEF Take, Rests
<1>8. ASSUME NEW d \in Consumers, NEW l \in leases[d], Release(d, l) PROVE Rests(c)
  <2>1. l.slot \in Slots /\ seq[l.slot] = l.seq
    BY LeaseSlots DEF LeaseInv
  <2>2. /\ mask' = [mask EXCEPT ![l.slot] = @ \ {idx[d]}]
        /\ leases' = [leases EXCEPT ![d] = @ \ {l}] /\ UNCHANGED <<cst, idx, last>>
    BY <1>8, <2>1 DEF Release
  <2>3. idx[d] \notin mask'[l.slot]
    BY <2>1, <2>2
  <2>4. c # d => leases'[c] = leases[c]
    BY <2>2
  <2>5. c = d => leases'[c] = leases[c] \ {l}
    BY <2>2
  <2> QED BY <2>2, <2>3, <2>4, <2>5 DEF Rests
<1>9. ASSUME NEW d \in Consumers, Drop(d) PROVE cst'[c] = "none" \/ Rests(c)
  BY <1>9 DEF Drop, Rests
<1>10. ASSUME UNCHANGED vars PROVE Rests(c)
  BY <1>1, <1>10 DEF vars, consumerVars
<1> QED
  BY <1>2, <1>3, <1>4, <1>5, <1>6, <1>7, <1>8, <1>9, <1>10 DEF Next

\* What is being read is a publication of its own, apart from what is being written.
LEMMA CommittedApart ==
    ASSUME IInv, SlotAges, NEW s \in Slots, state[s] = "COMMITTED"
    PROVE  /\ seq[s] \in Seqs /\ Recent(seq[s])
           /\ \A w \in Writers : wst[w] # "idle" => wslot[w] # s /\ wseq[w] # seq[s]
<1>1. seq[s] \in Seqs /\ Recent(seq[s])
  BY DEF IInv, TypeOK, SlotAges
<1>2. ASSUME NEW w \in Writers, wst[w] # "idle" PROVE wslot[w] # s /\ wseq[w] # seq[s]
  <2>1. wslot[w] \in Slots /\ state[wslot[w]] = "WRITING" /\ seq[wslot[w]] = wseq[w]
    BY <1>2 DEF IInv, WriterInv
  <2> QED BY <2>1 DEF SlotAges
<1> QED BY <1>1, <1>2

LEMMA LeaseRecent ==
    ASSUME IInv, SlotAges, NEW c \in Consumers, NEW l \in leases[c]
    PROVE  /\ l.slot \in Slots /\ cst[c] = "open" /\ state[l.slot] = "COMMITTED"
           /\ seq[l.slot] = l.seq /\ l.seq \in Seqs /\ Recent(l.seq)
BY LeaseSlots, CommittedApart DEF IInv, LeaseInv

LEMMA OpenInWindow ==
    ASSUME NEW c \in Consumers, cst[c] = "open", NEW w \in Writers, Reserve(w)
    PROVE  Comparable(nextSeq, last[c])
BY DEF Reserve, InWindow

LEMMA LeaseAgesStep ==
    ASSUME IInv, IInv', SlotAges, SlotAges', LeaseAges, [Next]_vars
    PROVE  LeaseAges'
<1> SUFFICES ASSUME NEW c \in Consumers, leases'[c] # {}
             PROVE  /\ NextAge(last'[c]) \in 1 .. Half
                    /\ \A l \in leases'[c] : NextAge(last'[c]) <= NextAge(l.seq)
                    /\ \A w \in Writers : wst'[w] # "idle" => wseq'[w] # last'[c]
  BY DEF LeaseAges, Recent, Age, NextAge
<1>0. /\ nextSeq \in Seqs /\ nextSeq' \in Seqs /\ last[c] \in Seqs
      /\ \A q \in Seqs : Age(q) \in Int /\ NextAge(q) \in Int
  BY BehindValue DEF IInv, TypeOK, Age, NextAge, Seqs
<1>1. ASSUME NEW l \in leases'[c]
      PROVE  l.seq \in Seqs /\ NextAge(l.seq) \in 1 .. Half
  <2>1. /\ l.slot \in Slots /\ state'[l.slot] = "COMMITTED" /\ seq'[l.slot] = l.seq
        /\ l.seq \in Seqs
    BY LeaseSlots DEF IInv, TypeOK, LeaseInv, Leases, Seqs
  <2> QED BY <2>1 DEF SlotAges, Recent, Age, NextAge
<1>2. CASE Rests(c)
  <2>1. leases[c] # {} /\ last'[c] = last[c] /\ leases'[c] \subseteq leases[c]
    BY <1>2 DEF Rests
  <2>2. cst[c] = "open" /\ Recent(last[c])
        /\ \A w \in Writers : wst[w] # "idle" => wseq[w] # last[c]
    BY <2>1, LeaseRecent DEF LeaseAges
  <2>3. NextAge(last[c]) \in 1 .. Half
    BY <1>0, <2>2, RecentKept, OpenInWindow DEF IInv
  <2>4. ASSUME NEW l \in leases'[c] PROVE NextAge(last[c]) <= NextAge(l.seq)
    <3>1. l \in leases[c] /\ l.seq \in Seqs /\ Recent(l.seq) /\ Age(last[c]) <= Age(l.seq)
      BY <2>1, LeaseRecent DEF LeaseAges
    <3>2. Age(l.seq) < Age(last[c]) <=> NextAge(l.seq) < NextAge(last[c])
      BY <1>0, <1>1, <2>2, <2>3, <3>1, OrderKept DEF IInv
    <3> QED BY <1>0, <3>1, <3>2
  <2>5. ASSUME NEW w \in Writers, wst'[w] # "idle" PROVE wseq'[w] # last[c]
    <3>1. Age(nextSeq) = 0 /\ Age(last[c]) # 0
      BY <1>0, <2>2, BehindValue, Modulus DEF Age, Recent, Seqs
    <3> QED BY <2>2, <2>5, <3>1, WriterSteps DEF IInv
  <2> QED BY <2>1, <2>3, <2>4, <2>5
<1>3. CASE Take(c)
  <2>1. PICK s \in Deliverable(c) :
           /\ leases' = [leases EXCEPT ![c] =
                            @ \cup {[slot |-> s, seq |-> seq[s], data |-> payload[s]]}]
           /\ last' = [last EXCEPT ![c] = seq[s]]
    BY <1>3 DEF Take
  <2>2. /\ s \in Slots /\ state[s] = "COMMITTED" /\ SeqNewer(seq[s], last[c])
        /\ UNCHANGED <<nextSeq, wst, wseq>>
    BY <1>3 DEF Take, Deliverable, writerVars
  <2>3. seq[s] \in Seqs /\ Recent(seq[s]) /\ last'[c] = seq[s] /\ NextAge(seq[s]) = Age(seq[s])
        /\ \A l \in leases'[c] : l \in leases[c] \/ l.seq = seq[s]
    BY <2>1, <2>2, CommittedApart DEF IInv, TypeOK, Age, NextAge
  <2>4. ASSUME NEW l \in leases[c] PROVE Age(seq[s]) <= Age(l.seq)
    <3>1. Recent(last[c]) /\ Age(last[c]) <= Age(l.seq) /\ l.seq \in Seqs
      BY LeaseRecent DEF LeaseAges
    <3>2. Age(seq[s]) < Age(last[c])
      BY <1>0, <2>2, <2>3, <3>1, NewerByBehind DEF Recent, Age
    <3> QED BY <1>0, <2>3, <3>1, <3>2
  <2>5. \A l \in leases'[c] : NextAge(seq[s]) <= NextAge(l.seq)
    <3>1. \A q \in Seqs : NextAge(q) = Age(q)
      BY <2>2 DEF Age, NextAge
    <3>2. \A l \in leases'[c] : l.seq \in Seqs
      BY <1>1
    <3> QED BY <1>0, <2>3, <2>4, <3>1, <3>2
  <2>6. \A w \in Writers : wst'[w] # "idle" => wseq'[w] # seq[s]
    BY <2>2, CommittedApart
  <2> QED BY <2>3, <2>5, <2>6 DEF Recent
<1>4. CASE Register(c) \/ cst'[c] = "none"
  <2>1. leases'[c] = {}
    BY <1>4 DEF Register, IInv, LeaseInv
  <2> QED BY <2>1
<1> QED BY <1>2, <1>3, <1>4, ConsumerStep

LEMMA Ordered ==
    ASSUME IInv, SlotAges, LeaseAges
    PROVE  DeliveredOnce
<1> SUFFICES ASSUME NEW c \in Consumers, NEW s \in Deliverable(c), NEW l \in leases[c],
                    l.slot = s
             PROVE  FALSE
  BY DEF DeliveredOnce
<1>1. l.seq \in Seqs /\ Recent(l.seq) /\ seq[s] = l.seq
  BY LeaseRecent
<1>2. last[c] \in Seqs /\ nextSeq \in Seqs /\ Recent(last[c]) /\ Age(last[c]) <= Age(l.seq)
  BY DEF LeaseAges, IInv, TypeOK
<1>3. SeqNewer(l.seq, last[c])
  BY <1>1 DEF Deliverable
<1>4. Age(l.seq) < Age(last[c])
  BY <1>1, <1>2, <1>3, NewerByBehind DEF Recent, Age
<1>5. Age(l.seq) \in Int /\ Age(last[c]) \in Int
  BY <1>1, <1>2 DEF Recent
<1> QED BY <1>2, <1>4, <1>5

LEMMA AgesInit == Init => IInv /\ SlotAges /\ LeaseAges
BY TypeInit DEF Init, IInv, EntryInv, WriterInv, LeaseInv, SlotAges, LeaseAges

LEMMA RingStep == IInv /\ [Next]_vars => IInv'
BY TypeStep, EntryStep, WriterStep, LeaseStep DEF IInv

AgeInv == IInv /\ SlotAges /\ LeaseAges

LEMMA AgesKept == Spec => []AgeInv
<1>1. AgeInv /\ [Next]_vars => AgeInv'
  BY RingStep, SlotAgesStep, LeaseAgesStep DEF AgeInv
<1>2. Init => AgeInv
  BY AgesInit DEF AgeInv
<1> QED BY <1>1, <1>2, PTL DEF Spec

\* Contract 7: next never delivers what the consumer already holds, although the bit
\* in the slot stays set until the release and the counter wraps.
THEOREM NotDeliveredTwice == Spec => []DeliveredOnce
<1>1. AgeInv => DeliveredOnce
  BY Ordered DEF AgeInv
<1> QED BY <1>1, AgesKept, PTL

-----------------------------------------------------------------------------
(* Nobody is stranded.  With two writers open at once, or a reservation     *)
(* handed back that somebody subscribed at, some would be: the runs show   *)
(* the second, and the order of commits the first.                         *)

OneWriterEach == \A v, w \in Writers : WriterHost[v] = WriterHost[w] => v = w
NoLateAborts == ~AbortAfterRegister

\* The process of a writer at work has the role, and nobody has reserved since.
WorkInv ==
    \A w \in Writers : wst[w] # "idle" =>
        producers[WriterHost[w]] > 0 /\ nextSeq = Succ(wseq[w])

LEMMA OneAtWork ==
    ASSUME OneWriterEach, RoleInv, NEW v \in Writers, NEW w \in Writers,
           producers[WriterHost[v]] > 0, producers[WriterHost[w]] > 0
    PROVE  v = w
BY ProcsAssumption DEF OneWriterEach, RoleInv

LEMMA RoleOfWorkers ==
    ASSUME TypeOK, WorkInv, [Next]_vars, NEW w \in Writers, wst[w] # "idle", wst'[w] # "idle"
    PROVE  producers'[WriterHost[w]] > 0
<1> DEFINE p == WriterHost[w]
<1>0. p \in Procs /\ producers[p] > 0 /\ producers[p] \in Nat
  BY ProcsAssumption DEF WorkInv, TypeOK
<1>1. ASSUME producers' = producers PROVE producers'[p] > 0
  BY <1>0, <1>1
<1>2. ASSUME NEW q \in Procs, ClaimProducer(q) \/ DropProducer(q) \/ HandBack(q)
      PROVE  producers'[p] > 0
  BY <1>0, <1>2 DEF ClaimProducer, DropProducer, HandBack, TypeOK
<1>3. ASSUME NEW q \in Procs, Crash(q) PROVE producers'[p] > 0
  BY <1>0, <1>3 DEF Crash, TypeOK
<1>4. ASSUME NEW q \in Procs, Sweep(q) \/ Restart(q) PROVE producers'[p] > 0
  BY <1>1, <1>4 DEF Sweep, ReapOnly, Restart, handleVars
<1>5. ASSUME NEW v \in Writers,
             Reserve(v) \/ ReserveFull(v) \/ Fill(v) \/ Commit(v) \/ Abort(v)
      PROVE  producers'[p] > 0
  BY <1>1, <1>5 DEF Reserve, ReserveFull, ReapOnly, Fill, Commit, Abort, handleVars
<1>6. ASSUME NEW c \in Consumers, Register(c) \/ RegisterFull(c) \/ Take(c) \/ Drop(c)
      PROVE  producers'[p] > 0
  BY <1>1, <1>6 DEF Register, RegisterFull, ReapOnly, Take, Drop, handleVars
<1>7. ASSUME NEW c \in Consumers, NEW l \in leases[c], Release(c, l) PROVE producers'[p] > 0
  BY <1>1, <1>7 DEF Release, handleVars
<1>8. CASE UNCHANGED vars
  BY <1>1, <1>8 DEF vars
<1> QED BY <1>2, <1>3, <1>4, <1>5, <1>6, <1>7, <1>8 DEF Next

LEMMA WorkStep ==
    ASSUME OneWriterEach, TypeOK, RoleInv, WorkInv, [Next]_vars
    PROVE  WorkInv'
<1> SUFFICES ASSUME NEW w \in Writers, wst'[w] # "idle"
             PROVE  producers'[WriterHost[w]] > 0 /\ nextSeq' = Succ(wseq'[w])
  BY DEF WorkInv
<1>1. CASE Reserve(w) /\ wseq'[w] = nextSeq
  BY <1>1 DEF Reserve, handleVars
<1>2. CASE wst[w] # "idle" /\ wseq'[w] = wseq[w]
  <2>1. producers[WriterHost[w]] > 0 /\ nextSeq = Succ(wseq[w])
    BY <1>2 DEF WorkInv
  <2>2. ASSUME NEW v \in Writers PROVE ~Reserve(v)
    <3>1. Reserve(v) => v = w /\ wst[v] = "idle"
      BY <2>1, OneAtWork DEF Reserve
    <3> QED BY <1>2, <3>1
  <2>3. ASSUME NEW v \in Writers, Abort(v), wst[v] # "idle" PROVE wst'[w] = "idle"
    <3>1. v = w
      BY <2>1, <2>3, OneAtWork DEF WorkInv
    <3> QED BY <2>3, <3>1 DEF Abort, WriterDone, TypeOK
  <2>4. nextSeq' = nextSeq
    BY <2>2, <2>3, NextSeqStep
  <2> QED BY <1>2, <2>1, <2>4, RoleOfWorkers
<1> QED BY <1>1, <1>2, WriterSteps

\* An open consumer is not ahead of the counter, and of what is addressed to it
\* everything is newer than what it took last, but the leases it still holds.
AddressInv ==
    \A c \in Consumers : cst[c] = "open" =>
        /\ Recent(last[c])
        /\ \A s \in Slots : InUse(s) /\ idx[c] \in mask[s] =>
              \/ Age(seq[s]) < Age(last[c])
              \/ \E l \in leases[c] : l.slot = s

LEMMA SubscribeAge ==
    ASSUME nextSeq \in Seqs
    PROVE  SubscribePoint \in Seqs /\ Age(SubscribePoint) = 1
<1>1. /\ SeqMod \in Int /\ SeqMod >= 4 /\ nextSeq \in Int /\ 0 <= nextSeq /\ nextSeq < SeqMod
  BY Modulus DEF Seqs
<1>2. SubscribePoint = IF nextSeq = 0 THEN SeqMod - 1 ELSE nextSeq - 1
  <2>1. CASE nextSeq = 0
    <3>1. -SeqMod <= -1 /\ -1 < 0 /\ -1 \in Int /\ SeqMod \in Nat /\ SeqMod > 0
      BY <1>1, Modulus
    <3>2. (-1) % SeqMod = -1 + SeqMod
      BY <3>1, ModOf
    <3> QED BY <1>1, <2>1, <3>2 DEF SubscribePoint
  <2>2. CASE nextSeq # 0
    <3>1. 0 <= nextSeq - 1 /\ nextSeq - 1 < SeqMod /\ nextSeq - 1 \in Int
          /\ SeqMod \in Nat /\ SeqMod > 0
      BY <1>1, <2>2, Modulus
    <3>2. (nextSeq - 1) % SeqMod = nextSeq - 1
      BY <3>1, ModOf
    <3> QED BY <2>2, <3>2 DEF SubscribePoint
  <2> QED BY <2>1, <2>2
<1>3. SubscribePoint \in Seqs
  BY <1>1, <1>2 DEF Seqs
<1>4. Age(SubscribePoint) = IF SubscribePoint <= nextSeq THEN nextSeq - SubscribePoint
                            ELSE nextSeq - SubscribePoint + SeqMod
  BY <1>3, BehindValue DEF Age
<1> QED BY <1>1, <1>2, <1>3, <1>4

LEMMA InUseStep ==
    ASSUME IInv, IInv', SlotAges, [Next]_vars, NEW s \in Slots, InUse(s)'
    PROVE  \/ Stayed(s) /\ InUse(s)
           \/ (\E w \in Writers : Reserve(w)) /\ seq'[s] = nextSeq
<1>1. state'[s] # "FREE"
  BY DEF InUse, IInv, WriterInv
<1>2. CASE Stayed(s)
  <2>1. CASE state'[s] = "COMMITTED"
    BY <1>2, <2>1 DEF Stayed
  <2>2. ASSUME NEW w \in Writers, wst'[w] # "idle", wslot'[w] = s
        PROVE  InUse(s)
    <3>1. seq'[s] = wseq'[w]
      BY <2>2 DEF IInv, WriterInv
    <3>2. CASE wst[w] # "idle" /\ wslot'[w] = wslot[w]
      BY <2>2, <3>2 DEF InUse
    <3>3. CASE wseq'[w] = nextSeq
      <4>1. seq[s] = nextSeq /\ Recent(seq[s]) /\ nextSeq \in Seqs
        BY <1>2, <3>1, <3>3 DEF Stayed, SlotAges, IInv, TypeOK
      <4>2. Age(nextSeq) = 0
        BY <4>1, BehindValue DEF Age, Seqs
      <4> QED BY <4>1, <4>2 DEF Recent
    <3> QED BY <2>2, <3>2, <3>3, WriterSteps DEF IInv
  <2> QED BY <1>2, <2>1, <2>2 DEF InUse
<1>3. CASE ~Stayed(s)
  BY <1>1, <1>3, SlotStep
<1> QED BY <1>2, <1>3

LEMMA LastRecent ==
    ASSUME NoLateAborts, IInv, AddressInv, [Next]_vars,
           NEW c \in Consumers, cst[c] = "open"
    PROVE  NextAge(last[c]) \in 1 .. Half
<1>1. Recent(last[c]) /\ last[c] \in Seqs
  BY DEF AddressInv, IInv, TypeOK
<1>2. \A w \in Writers : Abort(w) => wseq[w] # last[c]
  BY DEF Abort, NoLateAborts
<1> QED BY <1>1, <1>2, RecentKept, OpenInWindow DEF IInv

LEMMA RestsAddressed ==
    ASSUME NoLateAborts, IInv, IInv', SlotAges, SlotAges', AddressInv, [Next]_vars,
           NEW c \in Consumers, cst[c] = "open", Rests(c),
           NEW s \in Slots, InUse(s)', idx[c] \in mask'[s]
    PROVE  NextAge(seq'[s]) < NextAge(last[c]) \/ \E l \in leases'[c] : l.slot = s
<1>1. /\ Recent(last[c]) /\ last[c] \in Seqs /\ NextAge(last[c]) \in 1 .. Half
      /\ nextSeq \in Seqs
  BY LastRecent DEF AddressInv, IInv, TypeOK
<1>2. CASE Stayed(s) /\ InUse(s)
  <2>1. idx[c] \in mask[s] /\ seq'[s] = seq[s] /\ state[s] # "FREE" /\ state'[s] # "FREE"
    BY <1>2 DEF Stayed, InUse, IInv, WriterInv
  <2>2. Recent(seq[s]) /\ seq[s] \in Seqs /\ NextAge(seq[s]) \in 1 .. Half
    BY <2>1 DEF SlotAges, IInv, TypeOK, Recent, Age, NextAge
  <2>3. CASE Age(seq[s]) < Age(last[c])
    BY <1>1, <2>1, <2>2, <2>3, OrderKept DEF IInv
  <2>4. CASE \E l \in leases[c] : l.slot = s
    BY <2>4 DEF Rests
  <2> QED BY <1>2, <2>1, <2>3, <2>4 DEF AddressInv
<1>3. CASE (\E w \in Writers : Reserve(w)) /\ seq'[s] = nextSeq
  <2>1. nextSeq' = Succ(nextSeq)
    BY <1>3 DEF Reserve
  <2>2. NextAge(nextSeq) = 1 /\ (NextAge(last[c]) >= 1 => NextAge(last[c]) = Age(last[c]) + 1)
    BY <1>1, <2>1, BehindSucc DEF NextAge, Age
  <2> QED BY <1>1, <1>3, <2>2, Modulus DEF Recent
<1> QED BY <1>2, <1>3, InUseStep

\* next takes the oldest: whatever else is addressed to c is newer than that.
LEMMA TakeAddressed ==
    ASSUME IInv, SlotAges, WorkInv, AddressInv, NEW c \in Consumers, Take(c),
           NEW s \in Slots, InUse(s), idx[c] \in mask[s]
    PROVE  Recent(last'[c]) /\ (Age(seq[s]) < Age(last'[c]) \/ \E l \in leases'[c] : l.slot = s)
<1>1. PICK t \in Deliverable(c) :
         /\ \A u \in Deliverable(c) : ~SeqNewer(seq[t], seq[u])
         /\ leases' = [leases EXCEPT ![c] =
                          @ \cup {[slot |-> t, seq |-> seq[t], data |-> payload[t]]}]
         /\ last' = [last EXCEPT ![c] = seq[t]]
  BY DEF Take
<1>2. /\ cst[c] = "open" /\ t \in Slots /\ state[t] = "COMMITTED" /\ nextSeq \in Seqs
      /\ last'[c] = seq[t] /\ last[c] \in Seqs /\ Recent(last[c])
      /\ leases[c] \subseteq leases'[c] /\ \E l \in leases'[c] : l.slot = t
  <2> DEFINE l == [slot |-> t, seq |-> seq[t], data |-> payload[t]]
  <2>1. leases'[c] = leases[c] \cup {l} /\ l.slot = t
    BY <1>1 DEF IInv, TypeOK
  <2> HIDE DEF l
  <2>2. last'[c] = seq[t]
    BY <1>1 DEF IInv, TypeOK
  <2>3. \E m \in leases'[c] : m.slot = t
    BY <2>1
  <2> QED BY <2>1, <2>2, <2>3 DEF Take, Deliverable, IInv, TypeOK, AddressInv
<1>3. /\ seq[t] \in Seqs /\ Recent(seq[t])
      /\ \A w \in Writers : wst[w] # "idle" => wseq[w] # seq[t]
  BY <1>2, CommittedApart
<1>4. state[s] # "FREE" /\ seq[s] \in Seqs /\ Recent(seq[s])
  BY DEF InUse, IInv, WriterInv, SlotAges, TypeOK
<1>5. CASE state[s] = "COMMITTED" /\ Age(seq[s]) < Age(last[c]) /\ s # t
  <2>1. SeqNewer(seq[s], last[c])
    BY <1>2, <1>4, <1>5, NewerByBehind DEF Recent, Age
  <2>2. ~SeqNewer(seq[t], seq[s])
    BY <1>1, <1>5, <2>1 DEF Deliverable
  <2>3. ~(Age(seq[t]) < Age(seq[s]))
    BY <1>2, <1>3, <1>4, <2>2, NewerByBehind DEF Recent, Age
  <2>4. seq[s] # seq[t]
    BY <1>2, <1>4, <1>5 DEF SlotAges
  <2>5. Age(seq[s]) # Age(seq[t])
    BY <1>2, <1>3, <1>4, <2>4, BehindUnique DEF Age
  <2> QED BY <1>2, <1>3, <1>4, <2>3, <2>5 DEF Recent
<1>6. ASSUME NEW w \in Writers, wst[w] # "idle", wslot[w] = s
      PROVE  Age(seq[s]) < Age(seq[t])
  <2>1. seq[s] = wseq[w] /\ nextSeq = Succ(wseq[w])
    BY <1>6 DEF IInv, WriterInv, WorkInv
  <2>2. Age(seq[s]) = 1
    BY <1>4, <2>1, BehindSucc DEF Age
  <2>3. seq[t] # seq[s]
    BY <1>3, <1>6, <2>1
  <2>4. Age(seq[t]) # 1
    BY <1>2, <1>3, <1>4, <2>2, <2>3, BehindUnique DEF Age
  <2> QED BY <1>3, <2>2, <2>4 DEF Recent
<1>7. CASE \E l \in leases[c] : l.slot = s
  BY <1>2, <1>3, <1>7
<1>8. CASE state[s] = "COMMITTED"
  BY <1>2, <1>3, <1>5, <1>7, <1>8 DEF AddressInv
<1>9. CASE \E w \in Writers : wst[w] # "idle" /\ wslot[w] = s
  BY <1>2, <1>3, <1>6, <1>9
<1> QED BY <1>8, <1>9 DEF InUse

\* A new consumer has an index without bits.
LEMMA RegisterUnaddressed ==
    ASSUME TypeOK, NoOrphanBits, NEW c \in Consumers, Register(c), NEW s \in Slots
    PROVE  idx'[c] \notin mask'[s]
<1> DEFINE p == ConsumerHost[c]
<1>1. PICK i \in Entries : ~ReapedActive(p)[i] /\ idx' = [idx EXCEPT ![c] = i]
  BY DEF Register
<1>2. mask'[s] = ReapedMask(p)[s] /\ idx'[c] = i
  BY <1>1 DEF Register, TypeOK
<1>3. ASSUME i \in ReapedMask(p)[s] PROVE FALSE
  <2>1. i \in mask[s] /\ i \notin DeadEntries(p)
    BY <1>3 DEF ReapedMask
  <2> QED BY <1>1, <2>1 DEF NoOrphanBits, ReapedActive
<1> QED BY <1>2, <1>3

LEMMA AddressStep ==
    ASSUME NoLateAborts, IInv, IInv', SlotAges, SlotAges', NoOrphanBits, WorkInv,
           AddressInv, [Next]_vars
    PROVE  AddressInv'
<1> SUFFICES ASSUME NEW c \in Consumers, cst'[c] = "open"
             PROVE  /\ NextAge(last'[c]) \in 1 .. Half
                    /\ \A s \in Slots : InUse(s)' /\ idx'[c] \in mask'[s] =>
                          \/ NextAge(seq'[s]) < NextAge(last'[c])
                          \/ \E l \in leases'[c] : l.slot = s
  BY DEF AddressInv, Recent, Age, NextAge
<1>1. CASE Rests(c)
  <2>1. cst[c] = "open" /\ last'[c] = last[c] /\ idx'[c] = idx[c]
    BY <1>1 DEF Rests
  <2> QED BY <1>1, <2>1, LastRecent, RestsAddressed
<1>2. CASE Take(c)
  <2>1. UNCHANGED <<state, seq, mask, nextSeq, idx, wst, wslot>> /\ Deliverable(c) # {}
    BY <1>2 DEF Take, slotVars, writerVars
  <2>2. /\ \A s \in Slots : InUse(s)' <=> InUse(s)
        /\ \A q : NextAge(q) = Age(q)
    BY <2>1 DEF InUse, NextAge, Age
  <2>3. PICK s \in Slots : InUse(s) /\ idx[c] \in mask[s]
    BY <2>1 DEF Deliverable, InUse
  <2>4. Recent(last'[c])
    BY <1>2, <2>3, TakeAddressed
  <2> QED BY <1>2, <2>1, <2>2, <2>4, TakeAddressed DEF Recent
<1>3. CASE Register(c)
  <2>1. nextSeq' = nextSeq /\ last'[c] = SubscribePoint /\ nextSeq \in Seqs
    BY <1>3 DEF Register, IInv, TypeOK
  <2>2. NextAge(last'[c]) = 1
    BY <2>1, SubscribeAge DEF NextAge, Age
  <2> QED BY <1>3, <2>2, RegisterUnaddressed, Modulus DEF IInv
<1> QED BY <1>1, <1>2, <1>3, ConsumerStep

DeliveryInv == AgeInv /\ RoleInv /\ NoOrphanBits /\ WorkInv /\ AddressInv

LEMMA DeliveryStep ==
    ASSUME OneWriterEach, NoLateAborts, NoClaimDuringDrop, DeliveryInv, [Next]_vars
    PROVE  DeliveryInv'
<1> USE DEF DeliveryInv, AgeInv
<1>1. IInv' /\ RoleInv' /\ NoOrphanBits'
  BY RingStep, RoleStep, OrphanStep DEF IInv
<1>2. SlotAges' /\ WorkInv'
  BY SlotAgesStep, WorkStep DEF IInv
<1>3. LeaseAges' /\ AddressInv'
  BY <1>1, <1>2, LeaseAgesStep, AddressStep
<1> QED BY <1>1, <1>2, <1>3

LEMMA DeliveryKept ==
    ASSUME OneWriterEach, NoLateAborts, NoClaimDuringDrop
    PROVE  Spec => []DeliveryInv
<1>1. Init => DeliveryInv
  BY AgesInit DEF Init, DeliveryInv, AgeInv, RoleInv, NoOrphanBits, WorkInv, AddressInv
<1>2. DeliveryInv /\ [Next]_vars => DeliveryInv'
  BY DeliveryStep
<1> QED BY <1>1, <1>2, PTL DEF Spec

\* Contract 4: a committed slot that counts an open consumer among its readers is
\* leased to it or will be delivered, if a process has one publication in the making
\* at a time, hands back nothing a consumer subscribed at and claims no role while
\* it drops one: the last keeps a second process from publishing too.
THEOREM NobodyStranded ==
    ASSUME OneWriterEach, NoLateAborts, NoClaimDuringDrop
    PROVE  Spec => []NoneStranded
<1>1. ASSUME DeliveryInv, NEW c \in Consumers, cst[c] = "open",
             NEW s \in Slots, state[s] = "COMMITTED", idx[c] \in mask[s]
      PROVE  SeqNewer(seq[s], last[c]) \/ \E l \in leases[c] : l.slot = s
  <2> USE <1>1 DEF DeliveryInv, AgeInv
  <2>1. CASE Age(seq[s]) < Age(last[c])
    <3>1. seq[s] \in Seqs /\ Recent(seq[s])
      BY CommittedApart
    <3>2. last[c] \in Seqs /\ Recent(last[c]) /\ nextSeq \in Seqs
      BY DEF AddressInv, IInv, TypeOK
    <3> QED BY <2>1, <3>1, <3>2, NewerByBehind DEF Recent, Age
  <2> QED BY <2>1 DEF AddressInv, InUse
<1>2. DeliveryInv => NoneStranded
  BY <1>1 DEF NoneStranded
<1> QED BY <1>2, DeliveryKept, PTL

-----------------------------------------------------------------------------
(* Delivery has no gaps.  A publication of a process that is killed stays  *)
(* out, so that the writers' processes have to survive.                    *)

WritersSurvive == \A w \in Writers : WriterHost[w] \notin Mortal

\* What a consumer has not come to yet is addressed to it, sequence by sequence.
Pending(c, q) == \E s \in Slots : InUse(s) /\ seq[s] = q /\ idx[c] \in mask[s]
PendingInv ==
    \A c \in Consumers : cst[c] = "open" =>
        \A q \in Seqs : 1 <= Age(q) /\ Age(q) < Age(last[c]) => Pending(c, q)

Held(s, i) == InUse(s)' /\ seq'[s] = seq[s] /\ i \in mask'[s]

LEMMA ReapHolds ==
    ASSUME IInv, NEW p \in Procs, NEW c \in Consumers, cst[c] = "open",
           NEW s \in Slots, InUse(s), idx[c] \in mask[s],
           state'[s] = ReapedState(p)[s], mask'[s] = ReapedMask(p)[s], seq'[s] = seq[s],
           \A w \in Writers : wst[w] # "idle" => wst'[w] # "idle" /\ wslot'[w] = wslot[w]
    PROVE  Held(s, idx[c])
<1>1. idx[c] \notin DeadEntries(p)
  BY ReapKeepsEntries DEF IInv
<1>2. CASE state[s] = "COMMITTED"
  BY <1>1, <1>2 DEF Held, InUse, ReapedState, ReapedMask, AbandonedSlots
<1>3. ASSUME NEW w \in Writers, wst[w] # "idle", wslot[w] = s PROVE Held(s, idx[c])
  <2>1. ReapedState(p)[s] = "WRITING"
    BY <1>3, ReapKeepsWriters DEF IInv
  <2>2. s \notin AbandonedSlots(p)
    BY <2>1 DEF ReapedState
  <2> QED BY <1>1, <1>3, <2>2 DEF Held, InUse, ReapedMask
<1> QED BY <1>2, <1>3 DEF InUse

LEMMA BitKept ==
    ASSUME WritersSurvive, IInv, [Next]_vars, NEW c \in Consumers, cst[c] = "open", Rests(c),
           NEW s \in Slots, InUse(s), idx[c] \in mask[s]
    PROVE  \/ Held(s, idx[c])
           \/ \E l \in leases[c] : l.slot = s
           \/ \E w \in Writers : Abort(w) /\ wst[w] # "idle" /\ wslot[w] = s
<1> USE DEF IInv
<1> DEFINE Goal == \/ Held(s, idx[c])
                   \/ \E l \in leases[c] : l.slot = s
                   \/ \E w \in Writers : Abort(w) /\ wst[w] # "idle" /\ wslot[w] = s
<1>1. ASSUME NEW p \in Procs, ReapOnly(p) PROVE Goal
  BY <1>1, ReapHolds DEF ReapOnly, writerVars, TypeOK
<1>2. ASSUME state' = state, seq' = seq, wslot' = wslot, idx[c] \in mask'[s],
             \A w \in Writers : wst[w] # "idle" => wst'[w] # "idle"
      PROVE  Goal
  BY <1>2 DEF Held, InUse
<1>3. ASSUME NEW p \in Procs, ClaimProducer(p) \/ DropProducer(p) \/ HandBack(p) \/ Restart(p)
      PROVE  Goal
  BY <1>2, <1>3 DEF ClaimProducer, DropProducer, HandBack, Restart, slotVars, writerVars
<1>4. ASSUME NEW p \in Procs, Crash(p) PROVE Goal
  <2>1. \A w \in Writers : WriterHost[w] # p
    BY <1>4 DEF Crash, WritersSurvive
  <2>2. \A w \in Writers : wst'[w] = wst[w] /\ wslot'[w] = wslot[w]
    BY <1>4, <2>1 DEF Crash
  <2> QED BY <1>4, <2>2 DEF Crash, slotVars, Held, InUse
<1>5. ASSUME NEW w \in Writers, Reserve(w) PROVE Goal
  <2> DEFINE p == WriterHost[w]
  <2>1. p \in Procs
    BY ProcsAssumption
  <2>2. PICK r \in Slots :
           /\ Chosen(p, r)
           /\ state' = [ReapedState(p) EXCEPT ![r] = "WRITING"]
           /\ seq' = [seq EXCEPT ![r] = nextSeq]
           /\ mask' = [ReapedMask(p) EXCEPT ![r] = Registered(p)]
           /\ wslot' = [wslot EXCEPT ![w] = r]
    BY <1>5 DEF Reserve
  <2>3. ReapedState(p)[r] = "FREE" \/ ReapedMask(p)[r] = {}
    BY <2>2 DEF Chosen, Reclaimable
  <2>4. ReapedState(p)[s] # "FREE" /\ idx[c] \in ReapedMask(p)[s]
    <3>1. idx[c] \notin DeadEntries(p)
      BY <2>1, ReapKeepsEntries
    <3>2. s \notin AbandonedSlots(p) /\ state[s] # "FREE"
      <4>1. CASE state[s] = "COMMITTED"
        BY <4>1 DEF AbandonedSlots
      <4>2. ASSUME NEW v \in Writers, wst[v] # "idle", wslot[v] = s
            PROVE  s \notin AbandonedSlots(p) /\ state[s] # "FREE"
        BY <2>1, <4>2, ReapKeepsWriters DEF ReapedState, WriterInv
      <4> QED BY <4>1, <4>2 DEF InUse
    <3> QED BY <3>1, <3>2 DEF ReapedState, ReapedMask
  <2>5. s # r
    BY <2>3, <2>4
  <2>6. state'[s] = ReapedState(p)[s] /\ mask'[s] = ReapedMask(p)[s] /\ seq'[s] = seq[s]
    BY <2>1, <2>2, <2>5, ReapTyped DEF TypeOK
  <2>7. \A v \in Writers : wst[v] # "idle" => wst'[v] # "idle" /\ wslot'[v] = wslot[v]
    BY <1>5, <2>2 DEF Reserve, TypeOK
  <2> QED BY <2>1, <2>6, <2>7, ReapHolds
<1>6. ASSUME NEW w \in Writers, ReserveFull(w) PROVE Goal
  BY <1>1, <1>6, ProcsAssumption DEF ReserveFull
<1>7. ASSUME NEW w \in Writers, Fill(w) PROVE Goal
  BY <1>2, <1>7 DEF Fill, TypeOK
<1>8. ASSUME NEW w \in Writers, Commit(w) \/ Abort(w) PROVE Goal
  <2>1. wst[w] # "idle" /\ seq' = seq
    BY <1>8 DEF Commit, Abort
  <2>2. CASE wslot[w] = s /\ Commit(w)
    BY <2>2 DEF Commit, Held, InUse, TypeOK
  <2>3. CASE wslot[w] # s
    <3>1. state'[s] = state[s] /\ mask'[s] = mask[s]
      BY <1>8, <2>3 DEF Commit, Abort, TypeOK
    <3>2. \A v \in Writers \ {w} : wst'[v] = wst[v] /\ wslot'[v] = wslot[v]
      BY <1>8 DEF Commit, Abort, WriterDone, TypeOK
    <3> QED BY <2>1, <2>3, <3>1, <3>2 DEF Held, InUse
  <2> QED BY <1>8, <2>1, <2>2, <2>3
<1>9. ASSUME NEW d \in Consumers, Register(d) PROVE Goal
  <2>1. ConsumerHost[d] \in Procs
    BY ProcsAssumption
  <2> QED BY <1>9, <2>1, ReapHolds DEF Register, writerVars
<1>10. ASSUME NEW d \in Consumers, RegisterFull(d) PROVE Goal
  BY <1>1, <1>10, ProcsAssumption DEF RegisterFull
<1>11. ASSUME NEW d \in Consumers, Take(d) PROVE Goal
  BY <1>2, <1>11 DEF Take, slotVars, writerVars
<1>12. ASSUME NEW d \in Consumers, NEW l \in leases[d], Release(d, l) PROVE Goal
  <2>1. l.slot \in Slots /\ cst[d] = "open"
    BY LeaseSlots DEF LeaseInv
  <2>2. CASE d = c /\ l.slot = s
    BY <2>2
  <2>3. CASE ~(d = c /\ l.slot = s)
    <3>1. d # c => idx[d] # idx[c]
      BY <2>1 DEF EntryInv
    <3>2. idx[c] \in mask'[s]
      BY <1>12, <2>1, <2>3, <3>1 DEF Release, TypeOK
    <3> QED BY <1>2, <1>12, <3>2 DEF Release, writerVars
  <2> QED BY <2>2, <2>3
<1>13. ASSUME NEW d \in Consumers, Drop(d) PROVE Goal
  <2>1. d # c /\ cst[d] = "open"
    BY <1>13 DEF Drop, Rests, TypeOK
  <2>2. idx[d] # idx[c]
    BY <2>1 DEF EntryInv
  <2> QED BY <1>2, <1>13, <2>2 DEF Drop, writerVars
<1>14. ASSUME NEW p \in Procs, Sweep(p) PROVE Goal
  BY <1>1, <1>14 DEF Sweep
<1>15. CASE UNCHANGED vars
  BY <1>2, <1>15 DEF vars
<1> QED
  BY <1>3, <1>4, <1>5, <1>6, <1>7, <1>8, <1>9, <1>10, <1>11, <1>12, <1>13, <1>14, <1>15
     DEF Next

\* The new reservation is addressed to every open consumer.
LEMMA ReserveAddresses ==
    ASSUME IInv, NEW w \in Writers, Reserve(w), NEW c \in Consumers, cst[c] = "open"
    PROVE  \E s \in Slots : InUse(s)' /\ seq'[s] = nextSeq /\ idx[c] \in mask'[s]
<1> DEFINE p == WriterHost[w]
<1>1. p \in Procs
  BY ProcsAssumption
<1>2. PICK s \in Slots :
         /\ seq' = [seq EXCEPT ![s] = nextSeq]
         /\ mask' = [ReapedMask(p) EXCEPT ![s] = Registered(p)]
         /\ wslot' = [wslot EXCEPT ![w] = s]
         /\ wst' = [wst EXCEPT ![w] = "writing"]
  BY DEF Reserve
<1>3. idx[c] \in Registered(p)
  BY <1>1, ReapKeepsEntries DEF IInv, EntryInv, Registered
<1>4. seq'[s] = nextSeq /\ mask'[s] = Registered(p) /\ wslot'[w] = s /\ wst'[w] = "writing"
  BY <1>1, <1>2, ReapTyped DEF IInv, TypeOK
<1> QED BY <1>3, <1>4 DEF InUse

LEMMA RestsPending ==
    ASSUME NoLateAborts, WritersSurvive, DeliveryInv, PendingInv, [Next]_vars,
           NEW c \in Consumers, cst[c] = "open", Rests(c),
           NEW q \in Seqs, 1 <= NextAge(q), NextAge(q) < NextAge(last[c])
    PROVE  Pending(c, q)'
<1> USE DEF DeliveryInv, AgeInv
<1>0. /\ nextSeq \in Seqs /\ nextSeq' \in Seqs /\ last[c] \in Seqs
      /\ NextAge(last[c]) \in 1 .. Half
      /\ Age(q) \in Int /\ NextAge(q) \in Int /\ Age(last[c]) \in Int /\ 0 <= Age(q)
  <2>1. nextSeq' \in Seqs
    BY RingStep DEF IInv, TypeOK
  <2>2. /\ nextSeq \in Seqs /\ last[c] \in Seqs /\ NextAge(last[c]) \in 1 .. Half
    BY LastRecent DEF IInv, TypeOK
  <2> QED BY <2>1, <2>2, BehindValue DEF Age, NextAge, Seqs
<1>1. ASSUME NEW w \in Writers, Abort(w), wst[w] # "idle" PROVE wseq[w] # q
  <2>1. wseq[w] \in Seqs /\ nextSeq' = wseq[w]
    BY <1>1 DEF Abort, SeqAfterAbort, WorkInv, IInv, TypeOK
  <2>2. NextAge(wseq[w]) = 0
    BY <2>1, BehindValue DEF NextAge, Seqs
  <2> QED BY <2>2
<1>2. ASSUME 1 <= Age(q), Age(q) < Age(last[c]) PROVE Pending(c, q)'
  <2>1. PICK s \in Slots : InUse(s) /\ seq[s] = q /\ idx[c] \in mask[s]
    BY <1>2 DEF PendingInv, Pending
  <2>2. ASSUME NEW l \in leases[c], l.slot = s PROVE FALSE
    <3>1. l.seq = q
      BY <2>1, <2>2, LeaseRecent
    <3>2. Age(last[c]) <= Age(q)
      BY <2>2, <3>1 DEF LeaseAges
    <3> QED BY <1>0, <1>2, <3>2
  <2>3. ASSUME NEW w \in Writers, Abort(w), wst[w] # "idle", wslot[w] = s PROVE FALSE
    BY <1>1, <2>1, <2>3 DEF IInv, WriterInv
  <2>4. Held(s, idx[c])
    BY <2>1, <2>2, <2>3, BitKept
  <2> QED BY <2>1, <2>4 DEF Held, Pending, Rests
<1>3. CASE nextSeq' = nextSeq
  BY <1>0, <1>2, <1>3 DEF Age, NextAge
<1>4. CASE (\E w \in Writers : Reserve(w)) /\ nextSeq' = Succ(nextSeq)
  <2>1. NextAge(q) = Age(q) + 1 /\ NextAge(last[c]) = Age(last[c]) + 1
    BY <1>0, <1>4, BehindSucc DEF Age, NextAge
  <2>2. CASE q = nextSeq
    BY <1>4, <2>2, ReserveAddresses DEF Pending, Rests
  <2>3. CASE q # nextSeq
    <3>1. Age(q) >= 1
      BY <1>0, <2>3, BehindSucc DEF Age
    <3> QED BY <1>0, <1>2, <2>1, <3>1
  <2> QED BY <2>2, <2>3
<1>5. CASE nextSeq = Succ(nextSeq')
  <2>1. NextAge(q) < SeqMod - 1 /\ NextAge(last[c]) < SeqMod - 1
    BY <1>0, Modulus
  <2>2. Age(q) = NextAge(q) + 1 /\ Age(last[c]) = NextAge(last[c]) + 1
    BY <1>0, <1>5, <2>1, BehindSucc DEF Age, NextAge
  <2> QED BY <1>0, <1>2, <2>2
<1> QED BY <1>3, <1>4, <1>5, NextSeqStep DEF IInv

LEMMA PendingStep ==
    ASSUME OneWriterEach, NoLateAborts, WritersSurvive, DeliveryInv, PendingInv, [Next]_vars
    PROVE  PendingInv'
<1> USE DEF DeliveryInv, AgeInv
<1> SUFFICES ASSUME NEW c \in Consumers, cst'[c] = "open", NEW q \in Seqs,
                    1 <= NextAge(q), NextAge(q) < NextAge(last'[c])
             PROVE  Pending(c, q)'
  BY DEF PendingInv, Age, NextAge
<1>1. CASE Rests(c)
  <2>1. cst[c] = "open" /\ last'[c] = last[c]
    BY <1>1 DEF Rests
  <2> QED BY <1>1, <2>1, RestsPending
<1>2. CASE Take(c)
  <2>1. PICK s \in Deliverable(c) : last' = [last EXCEPT ![c] = seq[s]]
    BY <1>2 DEF Take
  <2>2. /\ UNCHANGED <<state, seq, mask, nextSeq, idx, wst, wslot>> /\ cst[c] = "open"
        /\ last'[c] = seq[s] /\ s \in Slots /\ state[s] = "COMMITTED"
        /\ SeqNewer(seq[s], last[c]) /\ last[c] \in Seqs /\ nextSeq \in Seqs
    BY <1>2, <2>1 DEF Take, Deliverable, slotVars, writerVars, IInv, TypeOK
  <2>3. seq[s] \in Seqs /\ Recent(seq[s]) /\ Recent(last[c])
    BY <2>2, CommittedApart DEF AddressInv
  <2>4. Age(seq[s]) < Age(last[c])
    BY <2>2, <2>3, NewerByBehind DEF Recent, Age
  <2>5. NextAge(q) = Age(q) /\ NextAge(last'[c]) = Age(seq[s]) /\ Age(q) \in Int
    BY <2>2, BehindValue DEF NextAge, Age, Seqs
  <2>6. 1 <= Age(q) /\ Age(q) < Age(last[c])
    BY <2>3, <2>4, <2>5 DEF Recent
  <2>7. Pending(c, q)
    BY <2>2, <2>6 DEF PendingInv
  <2> QED BY <2>2, <2>7 DEF Pending, InUse
<1>3. CASE Register(c)
  <2>1. nextSeq' = nextSeq /\ last'[c] = SubscribePoint /\ nextSeq \in Seqs
    BY <1>3 DEF Register, IInv, TypeOK
  <2>2. NextAge(last'[c]) = 1 /\ NextAge(q) \in Int
    BY <2>1, SubscribeAge, BehindValue DEF NextAge, Age, Seqs
  <2> QED BY <2>2
<1> QED BY <1>1, <1>2, <1>3, ConsumerStep

LEMMA PendingKept ==
    ASSUME OneWriterEach, NoLateAborts, NoClaimDuringDrop, WritersSurvive
    PROVE  Spec => [](DeliveryInv /\ PendingInv)
<1>1. Init => PendingInv
  BY DEF Init, PendingInv
<1>2. DeliveryInv /\ PendingInv /\ [Next]_vars => PendingInv'
  BY PendingStep
<1> QED BY <1>1, <1>2, DeliveryKept, PTL DEF Spec

LEMMA TakeSucc ==
    ASSUME DeliveryInv, PendingInv, NEW c \in Consumers, Take(c)
    PROVE  last'[c] = Succ(last[c])
<1> USE DEF DeliveryInv, AgeInv
<1>1. PICK s \in Deliverable(c) :
         /\ \A t \in Deliverable(c) : ~SeqNewer(seq[s], seq[t])
         /\ last' = [last EXCEPT ![c] = seq[s]]
  BY DEF Take
<1>2. /\ cst[c] = "open" /\ s \in Slots /\ state[s] = "COMMITTED" /\ SeqNewer(seq[s], last[c])
      /\ last[c] \in Seqs /\ nextSeq \in Seqs /\ last'[c] = seq[s]
  BY <1>1 DEF Take, Deliverable, IInv, TypeOK
<1>3. seq[s] \in Seqs /\ Recent(seq[s]) /\ Recent(last[c])
  BY <1>2, CommittedApart DEF AddressInv
<1>4. Age(seq[s]) < Age(last[c])
  BY <1>2, <1>3, NewerByBehind DEF Recent, Age
<1> DEFINE q == Succ(last[c])
<1>5. q \in Seqs /\ Age(q) = Age(last[c]) - 1
  BY <1>2, <1>3, SuccValue, SuccBehind DEF Recent, Age
<1> HIDE DEF q
<1>6. Age(seq[s]) \in 1 .. Half /\ Age(last[c]) \in 1 .. Half
  BY <1>3 DEF Recent
<1>7. Recent(q) /\ 1 <= Age(q) /\ Age(q) < Age(last[c]) /\ Age(seq[s]) <= Age(q)
  BY <1>4, <1>5, <1>6, Modulus DEF Recent
<1>8. PICK t \in Slots : InUse(t) /\ seq[t] = q /\ idx[c] \in mask[t]
  BY <1>2, <1>5, <1>7 DEF PendingInv, Pending
<1>9. CASE state[t] = "COMMITTED"
  <2>1. SeqNewer(q, last[c])
    BY <1>2, <1>3, <1>5, <1>7, NewerByBehind DEF Recent, Age
  <2>2. ~SeqNewer(seq[s], q)
    BY <1>1, <1>8, <1>9, <2>1 DEF Deliverable
  <2>3. ~(Age(seq[s]) < Age(q))
    BY <1>2, <1>3, <1>5, <1>7, <2>2, NewerByBehind DEF Recent, Age
  <2>4. Age(seq[s]) = Age(q)
    BY <1>5, <1>6, <1>7, <2>3
  <2> QED BY <1>2, <1>3, <1>5, <2>4, BehindUnique DEF Age, q
<1>10. ASSUME NEW w \in Writers, wst[w] # "idle", wslot[w] = t
       PROVE  seq[s] = q
  <2>1. q = wseq[w] /\ nextSeq = Succ(q)
    BY <1>8, <1>10 DEF IInv, WriterInv, WorkInv
  <2>2. Age(q) = 1
    BY <1>5, <2>1, BehindSucc DEF Age
  <2>3. Age(seq[s]) = Age(q)
    BY <1>6, <1>7, <2>2
  <2> QED BY <1>2, <1>3, <1>5, <2>3, BehindUnique DEF Age
<1> QED BY <1>2, <1>8, <1>9, <1>10 DEF InUse, q

\* "Delivered sequences are contiguous under both policies": next delivers the successor
\* of what it delivered before, or of the last sequence before the registration, across
\* aborts, other consumers' deaths and the wrap of the counter, on the same terms and
\* if the processes that publish are not killed.
THEOREM Contiguous ==
    ASSUME OneWriterEach, NoLateAborts, NoClaimDuringDrop, WritersSurvive
    PROVE  Spec => DeliveryContiguous
<1>1. ASSUME DeliveryInv, PendingInv, [Next]_vars, NEW c \in Consumers,
             cst[c] = "open", cst'[c] = "open", last'[c] # last[c]
      PROVE  last'[c] = (last[c] + 1) % SeqMod
  <2>1. Take(c)
    BY <1>1, ConsumerStep DEF Rests, Register, DeliveryInv, AgeInv
  <2> QED BY <1>1, <2>1, TakeSucc DEF Succ
<1> DEFINE Contiguously ==
      \A c \in Consumers :
          (cst[c] = "open" /\ cst'[c] = "open" /\ last'[c] # last[c]) =>
              last'[c] = (last[c] + 1) % SeqMod
<1>2. DeliveryInv /\ PendingInv /\ [Next]_vars => [Contiguously]_vars
  BY <1>1
<1>3. DeliveryContiguous <=> [][Contiguously]_vars
  BY DEF DeliveryContiguous
<1> HIDE DEF Contiguously
<1> QED BY <1>2, <1>3, PendingKept, PTL DEF Spec


-----------------------------------------------------------------------------
(* The ring is a multicast: what a step does to those who are open, to the  *)
(* publication being made, and to what is due and held, is a step of        *)
(* Multicast, or none of it changes.                                        *)

Counts(c, s) == state[s] = "COMMITTED" /\ idx[c] \in mask[s]

LEMMA MulticastStart == Init => Contract!Init
<1> SUFFICES ASSUME Init PROVE Contract!Init
  OBVIOUS
<1>1. OpenConsumers = {} /\ Addressees = {}
  BY DEF Init, OpenConsumers, Addressees
<1>2. \A c \in Consumers : Due(c) = {} /\ Earlier(c) = {} /\ HeldBy(c) = {}
  BY DEF Init, Due, Earlier, HeldBy
<1> QED BY <1>1, <1>2 DEF Contract!Init

\* What is due to a consumer is as before if the slots that count it are.
LEMMA DueStays ==
    ASSUME NEW c \in Consumers, cst'[c] = cst[c],
           cst[c] = "open" =>
               /\ idx'[c] = idx[c] /\ last'[c] = last[c]
               /\ \A s \in Slots : /\ Counts(c, s)' <=> Counts(c, s)
                                   /\ Counts(c, s) => seq'[s] = seq[s]
    PROVE  Due(c)' = Due(c) /\ Earlier(c)' = Earlier(c)
<1>1. Due(c)' = Due(c)
  BY DEF Due, Deliverable, Counts
<1>2. \A s \in Due(c) : seq'[s] = seq[s]
  BY DEF Due, Deliverable, Counts
<1>3. Earlier(c)' = Earlier(c)
  BY <1>1, <1>2 DEF Earlier, SeqNewer
<1> QED BY <1>1, <1>3

\* A sweep takes no committed slot, and no bit of the living.
LEMMA ReapSpares ==
    ASSUME IInv, NEW p \in Procs, NEW c \in Consumers, cst[c] = "open", NEW s \in Slots
    PROVE  /\ ReapedState(p)[s] = "COMMITTED" <=> state[s] = "COMMITTED"
           /\ s \notin AbandonedSlots(p) => (idx[c] \in ReapedMask(p)[s] <=> idx[c] \in mask[s])
<1>1. idx[c] \notin DeadEntries(p)
  BY ReapKeepsEntries DEF IInv
<1> QED BY <1>1 DEF ReapedState, ReapedMask, AbandonedSlots

LEMMA WorkersSpared ==
    ASSUME IInv, NEW p \in Procs, NEW w \in Writers, wst[w] # "idle"
    PROVE  wslot[w] \in Slots /\ wslot[w] \notin AbandonedSlots(p)
<1>1. ReapedState(p)[wslot[w]] = "WRITING" /\ wslot[w] \in Slots
  BY ReapKeepsWriters DEF IInv, WriterInv
<1> QED BY <1>1 DEF ReapedState

LEMMA ReapUnseen ==
    ASSUME IInv, NEW p \in Procs, state' = ReapedState(p), mask' = ReapedMask(p),
           UNCHANGED <<seq, consumerVars, writerVars>>
    PROVE  UNCHANGED Contract!mvars
<1>1. UNCHANGED <<cst, idx, last, leases, wst, wslot>>
  BY DEF consumerVars, writerVars
<1>2. ASSUME NEW c \in Consumers
      PROVE  Due(c)' = Due(c) /\ Earlier(c)' = Earlier(c) /\ HeldBy(c)' = HeldBy(c)
  <2>1. ASSUME NEW s \in Slots, cst[c] = "open" PROVE Counts(c, s)' <=> Counts(c, s)
    <3>1. CASE s \in AbandonedSlots(p)
      BY <2>1, <3>1, ReapSpares DEF Counts, AbandonedSlots
    <3>2. CASE s \notin AbandonedSlots(p)
      BY <1>1, <2>1, <3>2, ReapSpares DEF Counts
    <3> QED BY <3>1, <3>2
  <2>2. HeldBy(c)' = HeldBy(c)
    BY <1>1 DEF HeldBy
  <2> QED BY <1>1, <2>1, <2>2, DueStays
<1>3. ASSUME NEW c \in Consumers, cst[c] = "open", NEW w \in Writers, wst[w] # "idle"
      PROVE  idx[c] \in mask'[wslot[w]] <=> idx[c] \in mask[wslot[w]]
  BY <1>3, WorkersSpared, ReapSpares
<1>4. OpenConsumers' = OpenConsumers
  BY <1>1 DEF OpenConsumers
<1>5. Addressees' = Addressees
  BY <1>1, <1>3, <1>4 DEF Addressees, OpenConsumers
<1> QED BY <1>2, <1>4, <1>5 DEF Contract!mvars

\* The addressees of a reservation are those who are open.
LEMMA ReserveBegins ==
    ASSUME OneWriterEach, DeliveryInv, DeliveryInv', NEW w \in Writers, Reserve(w)
    PROVE  Contract!Begin
<1> USE DEF DeliveryInv, AgeInv, IInv
<1> DEFINE p == WriterHost[w]
<1>1. p \in Procs
  BY ProcsAssumption
<1>2. PICK s \in Slots :
         /\ Chosen(p, s)
         /\ state' = [ReapedState(p) EXCEPT ![s] = "WRITING"]
         /\ seq' = [seq EXCEPT ![s] = nextSeq]
         /\ mask' = [ReapedMask(p) EXCEPT ![s] = Registered(p)]
         /\ wslot' = [wslot EXCEPT ![w] = s]
  BY DEF Reserve
<1>3. /\ UNCHANGED <<cst, idx, last, leases>> /\ producers[p] > 0 /\ wst[w] = "idle"
      /\ wst'[w] # "idle" /\ wslot'[w] = s
  BY <1>2 DEF Reserve, consumerVars, TypeOK
<1>4. /\ state'[s] = "WRITING" /\ mask'[s] = Registered(p)
      /\ \A t \in Slots \ {s} : /\ state'[t] = ReapedState(p)[t] /\ mask'[t] = ReapedMask(p)[t]
                                /\ seq'[t] = seq[t]
  BY <1>1, <1>2, ReapTyped DEF TypeOK
<1>5. Addressees = {}
  <2>1. \A v \in Writers : wst[v] # "idle" => v = w
    BY <1>3, OneAtWork DEF WorkInv
  <2> QED BY <1>3, <2>1 DEF Addressees
<1>6. OpenConsumers' = OpenConsumers
  BY <1>3 DEF OpenConsumers
<1>7. Addressees' = OpenConsumers
  <2>1. ASSUME NEW c \in Consumers, cst[c] = "open" PROVE idx'[c] \in mask'[wslot'[w]]
    <3>1. idx[c] \in Entries /\ ReapedActive(p)[idx[c]]
      BY <1>1, <2>1, ReapKeepsEntries DEF EntryInv
    <3> QED BY <1>3, <1>4, <3>1 DEF Registered
  <2> QED BY <1>3, <1>6, <2>1 DEF Addressees, OpenConsumers
<1>8. ASSUME NEW c \in Consumers
      PROVE  Due(c)' = Due(c) /\ Earlier(c)' = Earlier(c) /\ HeldBy(c)' = HeldBy(c)
  <2>1. ASSUME NEW t \in Slots, cst[c] = "open"
        PROVE  /\ Counts(c, t)' <=> Counts(c, t)
               /\ Counts(c, t) => seq'[t] = seq[t]
    <3>1. CASE t = s
      <4>1. ReapedState(p)[s] = "FREE" \/ ReapedMask(p)[s] = {}
        BY <1>2 DEF Chosen, Reclaimable
      <4>2. CASE state[s] = "COMMITTED"
        BY <1>1, <1>4, <2>1, <3>1, <4>1, <4>2, ReapSpares DEF Counts, AbandonedSlots
      <4> QED BY <1>4, <3>1, <4>2 DEF Counts
    <3>2. CASE t # s /\ t \in AbandonedSlots(p)
      BY <1>1, <1>4, <2>1, <3>2, ReapSpares DEF Counts, AbandonedSlots
    <3>3. CASE t # s /\ t \notin AbandonedSlots(p)
      BY <1>1, <1>3, <1>4, <2>1, <3>3, ReapSpares DEF Counts
    <3> QED BY <3>1, <3>2, <3>3
  <2>2. HeldBy(c)' = HeldBy(c)
    BY <1>3 DEF HeldBy
  <2> QED BY <1>3, <2>1, <2>2, DueStays
<1> QED BY <1>5, <1>6, <1>7, <1>8 DEF Contract!Begin

LEMMA FillUnseen ==
    ASSUME NEW w \in Writers, TypeOK, Fill(w)
    PROVE  UNCHANGED Contract!mvars
<1>1. /\ UNCHANGED <<state, seq, mask, cst, idx, last, leases, wslot>>
      /\ \A v \in Writers : wst'[v] # "idle" <=> wst[v] # "idle"
  BY DEF Fill, consumerVars, TypeOK
<1>2. OpenConsumers' = OpenConsumers
  BY <1>1 DEF OpenConsumers
<1>3. Addressees' = Addressees
  BY <1>1, <1>2 DEF Addressees
<1>4. \A c \in Consumers : HeldBy(c)' = HeldBy(c)
  BY <1>1 DEF HeldBy
<1>5. \A c \in Consumers : Due(c)' = Due(c) /\ Earlier(c)' = Earlier(c)
  BY <1>1, DueStays DEF Counts
<1> QED BY <1>2, <1>3, <1>4, <1>5 DEF Contract!mvars

\* A publication in the making has the newest sequence of all.
LEMMA NewestOfAll ==
    ASSUME DeliveryInv, NEW w \in Writers, wst[w] # "idle", NEW q \in Seqs, Recent(q), q # wseq[w]
    PROVE  SeqNewer(wseq[w], q) /\ ~SeqNewer(q, wseq[w])
<1> USE DEF DeliveryInv, AgeInv, IInv
<1>1. nextSeq = Succ(wseq[w]) /\ wseq[w] \in Seqs /\ nextSeq \in Seqs
  BY DEF WorkInv, TypeOK
<1>2. Age(wseq[w]) = 1
  BY <1>1, BehindSucc DEF Age
<1>3. Age(q) # 1
  BY <1>1, <1>2, BehindUnique DEF Age
<1>4. Age(q) \in 1 .. Half /\ 1 \in 1 .. Half
  BY Modulus DEF Recent
<1>5. Behind(nextSeq, wseq[w]) \in 1 .. Half /\ Behind(nextSeq, q) \in 1 .. Half
      /\ Behind(nextSeq, wseq[w]) = 1
  BY <1>2, <1>4 DEF Age
<1>6. SeqNewer(wseq[w], q) <=> 1 < Behind(nextSeq, q)
  BY <1>1, <1>5, NewerByBehind
<1>7. SeqNewer(q, wseq[w]) <=> Behind(nextSeq, q) < 1
  BY <1>1, <1>5, NewerByBehind
<1> QED BY <1>3, <1>4, <1>6, <1>7 DEF Age

LEMMA CommitPublishes ==
    ASSUME OneWriterEach, DeliveryInv, NEW w \in Writers, Commit(w)
    PROVE  Contract!Publish(wslot[w])
<1> USE DEF DeliveryInv, AgeInv, IInv
<1> DEFINE s == wslot[w]
<1>1. /\ wst[w] # "idle" /\ s \in Slots /\ state[s] = "WRITING" /\ seq[s] = wseq[w]
      /\ UNCHANGED <<seq, mask, cst, idx, last, leases>> /\ wst' = [wst EXCEPT ![w] = "idle"]
      /\ state' = [state EXCEPT ![s] = "COMMITTED"]
  BY DEF Commit, WriterInv, WriterDone, consumerVars
<1>2. \A v \in Writers : wst[v] # "idle" => v = w
  BY <1>1, OneAtWork DEF WorkInv
<1>3. \A c \in Consumers : s \notin Due(c) \cup HeldBy(c)
  BY <1>1 DEF Due, Deliverable, HeldBy, LeaseInv
<1>4. OpenConsumers' = OpenConsumers
  BY <1>1 DEF OpenConsumers
<1>5. Addressees' = {} /\ Addressees = {c \in OpenConsumers : idx[c] \in mask[s]}
  <2>1. \A v \in Writers : wst'[v] = "idle"
    BY <1>1, <1>2 DEF TypeOK
  <2> QED BY <1>1, <1>2, <2>1 DEF Addressees
<1>6. \A c \in Consumers : HeldBy(c)' = HeldBy(c)
  BY <1>1 DEF HeldBy
<1>7. ASSUME NEW c \in Consumers, c \notin Addressees
      PROVE  Due(c)' = Due(c) /\ Earlier(c)' = Earlier(c)
  <2>1. cst[c] = "open" => idx[c] \notin mask[s]
    BY <1>5, <1>7 DEF OpenConsumers
  <2>2. \A t \in Slots \ {s} : state'[t] = state[t]
    BY <1>1 DEF TypeOK
  <2> QED BY <1>1, <2>1, <2>2, DueStays DEF Counts
<1>8. ASSUME NEW c \in Consumers, c \in Addressees
      PROVE  /\ Due(c)' = Due(c) \cup {s}
             /\ Earlier(c)' = Earlier(c) \cup (Due(c) \X {s})
  <2>1. cst[c] = "open" /\ idx[c] \in mask[s]
    BY <1>5, <1>8 DEF OpenConsumers
  <2>2. SeqNewer(seq[s], last[c])
    <3>1. \A l \in leases[c] : l.slot # s
      BY <1>1 DEF LeaseInv
    <3>2. Recent(last[c]) /\ Age(seq[s]) < Age(last[c])
      BY <1>1, <2>1, <3>1 DEF AddressInv, InUse
    <3>3. last[c] # wseq[w] /\ last[c] \in Seqs
      BY <1>1, <3>2, Modulus DEF TypeOK, Recent
    <3> QED BY <1>1, <3>2, <3>3, NewestOfAll
  <2>3. \A t \in Slots \ {s} : state'[t] = state[t]
    BY <1>1 DEF TypeOK
  <2>4. state'[s] = "COMMITTED"
    BY <1>1 DEF TypeOK
  <2>5. Due(c)' = Due(c) \cup {s}
    BY <1>1, <2>1, <2>2, <2>3, <2>4 DEF Due, Deliverable
  <2>6. ASSUME NEW t \in Due(c)
        PROVE  SeqNewer(seq[s], seq[t]) /\ ~SeqNewer(seq[t], seq[s])
    <3>1. t \in Slots /\ state[t] = "COMMITTED"
      BY <2>1 DEF Due, Deliverable
    <3>2. seq[t] \in Seqs /\ Recent(seq[t]) /\ wseq[w] # seq[t]
      BY <1>1, <3>1, CommittedApart
    <3> QED BY <1>1, <3>2, NewestOfAll
  <2>7. ~SeqNewer(seq[s], seq[s])
    <3>1. seq[s] \in Seqs
      BY <1>1 DEF TypeOK
    <3>2. (seq[s] - seq[s]) % SeqMod = 0
      BY <3>1, Difference DEF Seqs
    <3> QED BY <3>2, Modulus DEF SeqNewer, Half
  <2>8. Earlier(c)' = {e \in (Due(c) \cup {s}) \X (Due(c) \cup {s}) : SeqNewer(seq[e[2]], seq[e[1]])}
    BY <1>1, <2>5 DEF Earlier
  <2>9. ASSUME NEW t \in Due(c) \cup {s}, NEW u \in Due(c) \cup {s}
        PROVE  SeqNewer(seq[u], seq[t]) <=> (t # s /\ (u = s \/ SeqNewer(seq[u], seq[t])))
    BY <2>6, <2>7
  <2> HIDE DEF s
  <2>10. ASSUME NEW e
         PROVE  e \in Earlier(c)' <=> e \in Earlier(c) \cup (Due(c) \X {s})
    <3>1. CASE e \in (Due(c) \cup {s}) \X (Due(c) \cup {s})
      <4>1. PICK t \in Due(c) \cup {s}, u \in Due(c) \cup {s} : e = <<t, u>>
        BY <3>1
      <4>2. e \in Earlier(c)' <=> SeqNewer(seq[u], seq[t])
        BY <2>8, <4>1
      <4>3. e \in Earlier(c) <=> t \in Due(c) /\ u \in Due(c) /\ SeqNewer(seq[u], seq[t])
        BY <4>1 DEF Earlier
      <4>4. e \in Due(c) \X {s} <=> t \in Due(c) /\ u = s
        BY <4>1
      <4>5. s \notin Due(c)
        BY <1>3
      <4> QED BY <2>9, <4>2, <4>3, <4>4, <4>5
    <3>2. CASE e \notin (Due(c) \cup {s}) \X (Due(c) \cup {s})
      BY <2>8, <3>2 DEF Earlier
    <3> QED BY <3>1, <3>2
  <2> QED BY <2>5, <2>10
<1> QED BY <1>3, <1>4, <1>5, <1>6, <1>7, <1>8 DEF Contract!Publish, Contract!Free

LEMMA AbortGivesUp ==
    ASSUME OneWriterEach, DeliveryInv, NEW w \in Writers, Abort(w)
    PROVE  Contract!GiveUp
<1> USE DEF DeliveryInv, AgeInv, IInv
<1>1. /\ wst[w] # "idle" /\ wslot[w] \in Slots /\ state[wslot[w]] = "WRITING"
      /\ UNCHANGED <<seq, cst, idx, last, leases>> /\ wst' = [wst EXCEPT ![w] = "idle"]
      /\ state'[wslot[w]] = "FREE"
      /\ \A s \in Slots \ {wslot[w]} : state'[s] = state[s] /\ mask'[s] = mask[s]
  BY DEF Abort, WriterInv, WriterDone, consumerVars, TypeOK
<1>2. Addressees' = {}
  <2>1. \A v \in Writers : wst[v] # "idle" => v = w
    BY <1>1, OneAtWork DEF WorkInv
  <2> QED BY <1>1, <2>1 DEF Addressees, TypeOK
<1>3. OpenConsumers' = OpenConsumers /\ \A c \in Consumers : HeldBy(c)' = HeldBy(c)
  BY <1>1 DEF OpenConsumers, HeldBy
<1>4. \A c \in Consumers : Due(c)' = Due(c) /\ Earlier(c)' = Earlier(c)
  BY <1>1, DueStays DEF Counts
<1> QED BY <1>2, <1>3, <1>4 DEF Contract!GiveUp

LEMMA RegisterJoins ==
    ASSUME DeliveryInv, NEW c \in Consumers, Register(c)
    PROVE  Contract!Join(c)
<1> USE DEF DeliveryInv, AgeInv, IInv
<1> DEFINE p == ConsumerHost[c]
<1>1. /\ p \in Procs /\ cst[c] = "none" /\ state' = ReapedState(p) /\ mask' = ReapedMask(p)
      /\ UNCHANGED <<seq, leases, wst, wslot>>
      /\ cst'[c] = "open"
      /\ \A d \in Consumers \ {c} : cst'[d] = cst[d] /\ idx'[d] = idx[d] /\ last'[d] = last[d]
  <2>1. PICK i \in Entries : idx' = [idx EXCEPT ![c] = i]
    BY DEF Register
  <2>2. \A d \in Consumers \ {c} : idx'[d] = idx[d]
    BY <2>1
  <2> QED BY <2>2, ProcsAssumption DEF Register, writerVars, TypeOK
<1>2. c \notin OpenConsumers /\ OpenConsumers' = OpenConsumers \cup {c}
  BY <1>1 DEF OpenConsumers
<1>3. \A s \in Slots : idx'[c] \notin mask'[s]
  BY RegisterUnaddressed
<1>4. ASSUME NEW d \in Consumers
      PROVE  Due(d)' = Due(d) /\ Earlier(d)' = Earlier(d) /\ HeldBy(d)' = HeldBy(d)
  <2>1. CASE d = c
    <3>1. Due(c)' = {} /\ Due(c) = {}
      BY <1>1, <1>3 DEF Due, Deliverable
    <3> QED BY <1>1, <2>1, <3>1 DEF Earlier, HeldBy
  <2>2. CASE d # c
    <3>1. ASSUME NEW s \in Slots, cst[d] = "open" PROVE Counts(d, s)' <=> Counts(d, s)
      <4>1. CASE s \in AbandonedSlots(p)
        BY <1>1, <2>2, <3>1, <4>1, ReapSpares DEF Counts, AbandonedSlots
      <4>2. CASE s \notin AbandonedSlots(p)
        BY <1>1, <2>2, <3>1, <4>2, ReapSpares DEF Counts
      <4> QED BY <4>1, <4>2
    <3>2. HeldBy(d)' = HeldBy(d)
      BY <1>1 DEF HeldBy
    <3> QED BY <1>1, <2>2, <3>1, <3>2, DueStays
  <2> QED BY <2>1, <2>2
<1>5. Addressees' = Addressees
  <2>1. ASSUME NEW w \in Writers, wst[w] # "idle" PROVE idx'[c] \notin mask'[wslot[w]]
    BY <1>3, <2>1 DEF WriterInv
  <2>2. ASSUME NEW w \in Writers, wst[w] # "idle", NEW d \in OpenConsumers
        PROVE  idx'[d] \in mask'[wslot[w]] <=> idx[d] \in mask[wslot[w]]
    BY <1>1, <1>2, <2>2, WorkersSpared, ReapSpares DEF OpenConsumers
  <2>3. \A d \in OpenConsumers' : d = c \/ d \in OpenConsumers
    BY <1>2
  <2> QED BY <1>1, <1>2, <2>1, <2>2, <2>3 DEF Addressees
<1> QED BY <1>2, <1>4, <1>5 DEF Contract!Join

\* next takes what was published first of what is due.
LEMMA TakeDelivers ==
    ASSUME DeliveryInv, DeliveryInv', NEW c \in Consumers, Take(c)
    PROVE  Contract!Deliver(c)
<1> USE DEF DeliveryInv, AgeInv, IInv
<1>1. PICK s \in Deliverable(c) :
         /\ \A t \in Deliverable(c) : ~SeqNewer(seq[s], seq[t])
         /\ leases' = [leases EXCEPT ![c] =
                          @ \cup {[slot |-> s, seq |-> seq[s], data |-> payload[s]]}]
         /\ last' = [last EXCEPT ![c] = seq[s]]
  BY DEF Take
<1>2. /\ cst[c] = "open" /\ UNCHANGED <<state, seq, mask, cst, idx, wst, wslot, nextSeq>>
      /\ Due(c) = Deliverable(c) /\ s \in Slots /\ state[s] = "COMMITTED"
  BY DEF Take, Due, Deliverable, slotVars, writerVars
<1>3. OpenConsumers' = OpenConsumers /\ Addressees' = Addressees
  BY <1>2 DEF OpenConsumers, Addressees
<1>4. ASSUME NEW d \in Consumers, d # c
      PROVE  Due(d)' = Due(d) /\ Earlier(d)' = Earlier(d) /\ HeldBy(d)' = HeldBy(d)
  <2>1. last'[d] = last[d] /\ leases'[d] = leases[d]
    BY <1>1, <1>4
  <2> QED BY <1>2, <2>1, DueStays DEF Counts, HeldBy
<1>5. HeldBy(c)' = HeldBy(c) \cup {s}
  <2> DEFINE l == [slot |-> s, seq |-> seq[s], data |-> payload[s]]
  <2>1. leases'[c] = leases[c] \cup {l} /\ l.slot = s
    BY <1>1 DEF TypeOK
  <2> HIDE DEF l
  <2> QED BY <2>1 DEF HeldBy
<1>6. last'[c] = seq[s] /\ seq[s] \in Seqs /\ Recent(seq[s]) /\ last[c] \in Seqs
      /\ Recent(last[c]) /\ nextSeq \in Seqs /\ SeqNewer(seq[s], last[c])
  BY <1>1, <1>2, CommittedApart DEF Deliverable, AddressInv, TypeOK
<1>7. ASSUME NEW t \in Slots, state[t] = "COMMITTED", idx[c] \in mask[t]
      PROVE  SeqNewer(seq[t], seq[s]) <=> (SeqNewer(seq[t], last[c]) /\ t # s)
  <2>1. seq[t] \in Seqs /\ Recent(seq[t])
    BY <1>7, CommittedApart
  <2>2. t # s => Age(seq[t]) # Age(seq[s])
    <3>1. t # s => seq[t] # seq[s]
      BY <1>2, <1>7 DEF SlotAges
    <3> QED BY <1>6, <2>1, <3>1, BehindUnique DEF Age
  <2>3. /\ SeqNewer(seq[t], seq[s]) <=> Age(seq[t]) < Age(seq[s])
        /\ SeqNewer(seq[t], last[c]) <=> Age(seq[t]) < Age(last[c])
        /\ SeqNewer(seq[s], seq[t]) <=> Age(seq[s]) < Age(seq[t])
        /\ Age(seq[s]) < Age(last[c])
    BY <1>6, <2>1, NewerByBehind DEF Recent, Age
  <2>4. SeqNewer(seq[t], last[c]) => ~SeqNewer(seq[s], seq[t])
    BY <1>1, <1>7 DEF Deliverable
  <2>5. Age(seq[t]) \in Int /\ Age(seq[s]) \in Int /\ Age(last[c]) \in Int
    BY <1>6, <2>1 DEF Recent
  <2> HIDE DEF DeliveryInv, AgeInv, IInv
  <2> QED BY <2>2, <2>3, <2>4, <2>5
<1>8. Due(c)' = Due(c) \ {s}
  BY <1>2, <1>6, <1>7 DEF Due, Deliverable
<1>9. Earlier(c)' = {e \in Earlier(c) : e[1] # s /\ e[2] # s}
  BY <1>2, <1>8 DEF Earlier
<1>10. \A t \in Due(c) : <<t, s>> \notin Earlier(c)
  BY <1>1, <1>2 DEF Earlier
<1>11. /\ [d \in Consumers |-> HeldBy(d)]' =
              [[d \in Consumers |-> HeldBy(d)] EXCEPT ![c] = @ \cup {s}]
       /\ [d \in Consumers |-> Due(d)]' = [[d \in Consumers |-> Due(d)] EXCEPT ![c] = @ \ {s}]
       /\ [d \in Consumers |-> Earlier(d)]' = [[d \in Consumers |-> Earlier(d)] EXCEPT
                                              ![c] = {e \in @ : e[1] # s /\ e[2] # s}]
  BY <1>4, <1>5, <1>8, <1>9
<1>12. /\ [d \in Consumers |-> Due(d)][c] = Due(c)
       /\ [d \in Consumers |-> Earlier(d)][c] = Earlier(c)
  OBVIOUS
<1>13. s \in Due(c)
  BY <1>1, <1>2
<1> HIDE DEF DeliveryInv, AgeInv, IInv
<1> QED BY <1>3, <1>10, <1>11, <1>12, <1>13 DEF Contract!Deliver

\* What is released was delivered before, so it is due to nobody it was held by.
LEMMA ReleaseLetsGo ==
    ASSUME DeliveryInv, NEW c \in Consumers, NEW l \in leases[c], Release(c, l)
    PROVE  Contract!LetGo(c)
<1> USE DEF DeliveryInv, AgeInv, IInv
<1>1. /\ l \in Leases /\ l.slot \in Slots /\ cst[c] = "open" /\ seq[l.slot] = l.seq
      /\ state[l.slot] = "COMMITTED"
  BY LeaseSlots DEF LeaseInv
<1>2. /\ UNCHANGED <<state, seq, cst, idx, last, wst, wslot>>
      /\ mask' = [mask EXCEPT ![l.slot] = @ \ {idx[c]}]
      /\ leases' = [leases EXCEPT ![c] = @ \ {l}]
  BY <1>1 DEF Release, writerVars
<1>3. OpenConsumers' = OpenConsumers
  BY <1>2 DEF OpenConsumers
<1>4. ASSUME NEW d \in Consumers, cst[d] = "open", NEW s \in Slots, d # c \/ s # l.slot
      PROVE  idx[d] \in mask'[s] <=> idx[d] \in mask[s]
  <2>1. d # c => idx[d] # idx[c]
    BY <1>1, <1>4 DEF EntryInv
  <2> QED BY <1>2, <1>4, <2>1 DEF TypeOK
<1>5. Addressees' = Addressees
  <2>1. \A w \in Writers : wst[w] # "idle" => wslot[w] \in Slots /\ wslot[w] # l.slot
    BY <1>1 DEF WriterInv
  <2> QED BY <1>2, <1>3, <1>4, <2>1 DEF Addressees, OpenConsumers
<1>6. l.slot \notin Due(c)
  BY Ordered DEF DeliveredOnce, Due
<1>7. ASSUME NEW d \in Consumers PROVE Due(d)' = Due(d) /\ Earlier(d)' = Earlier(d)
  <2>1. CASE d = c
    <3>1. Due(c)' = Due(c)
      <4>1. \A s \in Slots \ {l.slot} : idx[c] \in mask'[s] <=> idx[c] \in mask[s]
        BY <1>1, <1>4
      <4>2. idx[c] \notin mask'[l.slot]
        BY <1>1, <1>2 DEF TypeOK
      <4> QED BY <1>1, <1>2, <1>6, <4>1, <4>2 DEF Due, Deliverable
    <3> QED BY <1>2, <2>1, <3>1 DEF Earlier
  <2>2. CASE d # c
    BY <1>2, <1>4, <2>2, DueStays DEF Counts
  <2> QED BY <2>1, <2>2
<1>8. HeldBy(c)' = HeldBy(c) \ {l.slot} /\ l.slot \in HeldBy(c)
  <2>1. \A m \in leases[c] : m.slot = l.slot => m = l
    BY <1>1, LeaseSlots DEF LeaseInv, Leases
  <2>2. leases'[c] = leases[c] \ {l}
    BY <1>2 DEF TypeOK
  <2> QED BY <2>1, <2>2 DEF HeldBy
<1>9. \A d \in Consumers \ {c} : HeldBy(d)' = HeldBy(d)
  BY <1>2 DEF HeldBy
<1>10. [d \in Consumers |-> HeldBy(d)]' =
          [[d \in Consumers |-> HeldBy(d)] EXCEPT ![c] = @ \ {l.slot}]
  BY <1>8, <1>9
<1> QED BY <1>3, <1>5, <1>7, <1>8, <1>10 DEF Contract!LetGo

LEMMA DropLeaves ==
    ASSUME DeliveryInv, NEW c \in Consumers, Drop(c)
    PROVE  Contract!Leave({c}, {c})
<1> USE DEF DeliveryInv, AgeInv, IInv
<1>1. /\ cst[c] = "open" /\ cst'[c] = "none" /\ leases[c] = {}
      /\ \A d \in Consumers \ {c} : cst'[d] = cst[d] /\ idx'[d] = idx[d] /\ last'[d] = last[d]
      /\ mask' = [s \in Slots |-> mask[s] \ {idx[c]}]
      /\ UNCHANGED <<state, seq, leases, wst, wslot>>
  BY DEF Drop, writerVars, TypeOK
<1>2. OpenConsumers' = OpenConsumers \ {c}
  BY <1>1 DEF OpenConsumers
<1>3. ASSUME NEW d \in Consumers, d # c, cst[d] = "open", NEW s \in Slots
      PROVE  idx'[d] \in mask'[s] <=> idx[d] \in mask[s]
  BY <1>1, <1>3 DEF EntryInv
<1>4. Addressees' = Addressees \ {c}
  <2>1. \A w \in Writers : wst[w] # "idle" => wslot[w] \in Slots
    BY DEF WriterInv
  <2>2. \A d \in OpenConsumers' : d \in Consumers /\ d # c /\ cst[d] = "open"
    BY <1>2 DEF OpenConsumers
  <2> QED BY <1>1, <1>2, <1>3, <2>1, <2>2 DEF Addressees
<1>5. Due(c)' = {} /\ Earlier(c)' = {} /\ HeldBy(c)' = {}
  BY <1>1 DEF Due, Earlier, HeldBy
<1>6. \A d \in Consumers \ {c} : HeldBy(d)' = HeldBy(d)
  BY <1>1 DEF HeldBy
<1>7. ASSUME NEW d \in Consumers, d # c PROVE Due(d)' = Due(d) /\ Earlier(d)' = Earlier(d)
  BY <1>1, <1>3, <1>7, DueStays DEF Counts
<1> QED BY <1>2, <1>4, <1>5, <1>6, <1>7 DEF Contract!Leave

\* Those of a process leave together, and its publication with them.
LEMMA CrashLeaves ==
    ASSUME OneWriterEach, DeliveryInv, NEW p \in Procs, Crash(p)
    PROVE  LET C == {c \in Consumers : ConsumerHost[c] = p} IN Contract!Leave(C, C)
<1> USE DEF DeliveryInv, AgeInv, IInv
<1> DEFINE C == {c \in Consumers : ConsumerHost[c] = p}
<1>1. /\ UNCHANGED <<state, seq, mask>>
      /\ \A c \in C : cst'[c] = "none" /\ leases'[c] = {}
      /\ \A c \in Consumers \ C : /\ cst'[c] = cst[c] /\ idx'[c] = idx[c]
                                  /\ last'[c] = last[c] /\ leases'[c] = leases[c]
      /\ \A w \in Writers : IF WriterHost[w] = p THEN wst'[w] = "idle"
                            ELSE wst'[w] = wst[w] /\ wslot'[w] = wslot[w]
  BY DEF Crash, slotVars
<1> HIDE DEF C
<1>2. C \subseteq Consumers
  BY DEF C
<1>3. OpenConsumers' = OpenConsumers \ C
  BY <1>1, <1>2 DEF OpenConsumers
<1>4. Addressees' \in {Addressees \ C, {}}
  <2>1. CASE \E w \in Writers : wst[w] # "idle" /\ WriterHost[w] = p
    <3>1. PICK w \in Writers : wst[w] # "idle" /\ WriterHost[w] = p
      BY <2>1
    <3>2. \A v \in Writers : wst[v] # "idle" => v = w
      BY <3>1, OneAtWork DEF WorkInv
    <3>3. \A v \in Writers : wst'[v] = "idle"
      BY <1>1, <3>1, <3>2
    <3> QED BY <3>3 DEF Addressees
  <2>2. CASE \A w \in Writers : wst[w] # "idle" => WriterHost[w] # p
    <3>1. \A w \in Writers : /\ wst'[w] # "idle" <=> wst[w] # "idle"
                             /\ wst[w] # "idle" => wslot'[w] = wslot[w]
      BY <1>1, <2>2
    <3>2. \A c \in OpenConsumers \ C : idx'[c] = idx[c]
      BY <1>1 DEF OpenConsumers
    <3> QED BY <1>1, <1>3, <3>1, <3>2 DEF Addressees
  <2> QED BY <2>1, <2>2
<1>5. ASSUME NEW c \in Consumers
      PROVE  /\ c \in C => Due(c)' = {} /\ Earlier(c)' = {} /\ HeldBy(c)' = {}
             /\ c \notin C => Due(c)' = Due(c) /\ Earlier(c)' = Earlier(c) /\ HeldBy(c)' = HeldBy(c)
  <2>1. CASE c \in C
    <3>1. Due(c)' = {}
      BY <1>1, <2>1 DEF Due
    <3> QED BY <1>1, <2>1, <3>1 DEF Earlier, HeldBy
  <2>2. CASE c \notin C
    <3>1. HeldBy(c)' = HeldBy(c)
      BY <1>1, <2>2 DEF HeldBy
    <3> QED BY <1>1, <2>2, <3>1, DueStays DEF Counts
  <2> QED BY <2>1, <2>2
<1>6. Contract!Leave(C, C)
  BY <1>3, <1>4, <1>5 DEF Contract!Leave
<1> QED BY <1>6 DEF C

LEMMA MulticastStep ==
    ASSUME OneWriterEach, DeliveryInv, DeliveryInv', [Next]_vars
    PROVE  [Contract!Next]_(Contract!mvars)
<1> DEFINE Unseen == UNCHANGED Contract!mvars
<1>1. ASSUME UNCHANGED <<slotVars, consumerVars, writerVars>> PROVE Unseen
  <2>1. UNCHANGED <<state, seq, mask, cst, idx, last, leases, wst, wslot>>
    BY <1>1 DEF slotVars, consumerVars, writerVars
  <2>2. OpenConsumers' = OpenConsumers /\ Addressees' = Addressees
    BY <2>1 DEF OpenConsumers, Addressees
  <2>3. \A c \in Consumers : Due(c)' = Due(c) /\ Earlier(c)' = Earlier(c) /\ HeldBy(c)' = HeldBy(c)
    BY <2>1, DueStays DEF Counts, HeldBy
  <2> QED BY <2>2, <2>3 DEF Contract!mvars
<1>2. ASSUME NEW p \in Procs, ReapOnly(p) PROVE Unseen
  BY <1>2, ReapUnseen DEF ReapOnly, DeliveryInv, AgeInv
<1>3. ASSUME NEW p \in Procs, ClaimProducer(p) \/ DropProducer(p) \/ HandBack(p) \/ Restart(p)
      PROVE  Unseen
  BY <1>1, <1>3 DEF ClaimProducer, DropProducer, HandBack, Restart
<1>4. ASSUME NEW p \in Procs, Sweep(p) PROVE Unseen
  BY <1>2, <1>4 DEF Sweep
<1>5. ASSUME NEW p \in Procs, Crash(p) PROVE Contract!Next
  <2> DEFINE C == {c \in Consumers : ConsumerHost[c] = p}
  <2>1. Contract!Leave(C, C)
    BY <1>5, CrashLeaves
  <2>2. C \in SUBSET Consumers
    OBVIOUS
  <2> HIDE DEF C
  <2> QED BY <2>1, <2>2 DEF Contract!Next
<1>6. ASSUME NEW w \in Writers, Reserve(w) PROVE Contract!Next
  BY <1>6, ReserveBegins DEF Contract!Next
<1>7. ASSUME NEW w \in Writers, ReserveFull(w) PROVE Unseen
  BY <1>2, <1>7, ProcsAssumption DEF ReserveFull
<1>8. ASSUME NEW w \in Writers, Fill(w) PROVE Unseen
  BY <1>8, FillUnseen DEF DeliveryInv, AgeInv, IInv
<1>9. ASSUME NEW w \in Writers, Commit(w) PROVE Contract!Next
  <2>1. wslot[w] \in Slots
    BY <1>9 DEF Commit, DeliveryInv, AgeInv, IInv, WriterInv
  <2> QED BY <1>9, <2>1, CommitPublishes DEF Contract!Next
<1>10. ASSUME NEW w \in Writers, Abort(w) PROVE Contract!Next
  BY <1>10, AbortGivesUp DEF Contract!Next
<1>11. ASSUME NEW c \in Consumers, Register(c) PROVE Contract!Next
  BY <1>11, RegisterJoins DEF Contract!Next
<1>12. ASSUME NEW c \in Consumers, RegisterFull(c) PROVE Unseen
  BY <1>2, <1>12, ProcsAssumption DEF RegisterFull
<1>13. ASSUME NEW c \in Consumers, Take(c) PROVE Contract!Next
  BY <1>13, TakeDelivers DEF Contract!Next
<1>14. ASSUME NEW c \in Consumers, NEW l \in leases[c], Release(c, l) PROVE Contract!Next
  BY <1>14, ReleaseLetsGo DEF Contract!Next
<1>15. ASSUME NEW c \in Consumers, Drop(c) PROVE Contract!Next
  <2>1. {c} \in SUBSET Consumers
    OBVIOUS
  <2>2. Contract!Leave({c}, {c})
    BY <1>15, DropLeaves
  <2> QED BY <2>1, <2>2 DEF Contract!Next
<1>16. ASSUME UNCHANGED vars PROVE Unseen
  BY <1>1, <1>16 DEF vars, slotVars, consumerVars, writerVars
<1> QED
  BY <1>3, <1>4, <1>5, <1>6, <1>7, <1>8, <1>9, <1>10, <1>11, <1>12, <1>13, <1>14, <1>15, <1>16
     DEF Next

\* The ring keeps what Multicast promises: each consumer is given what was begun while
\* it was open, once and in order of publication, and no slot is used again under it, if
\* a process has one publication in the making at a time, hands back nothing a
\* consumer subscribed at and claims no role while it drops one.
THEOREM IsMulticast ==
    ASSUME OneWriterEach, NoLateAborts, NoClaimDuringDrop
    PROVE  Spec => ImplementsMulticast
<1>1. Init => Contract!Init
  BY MulticastStart
<1>2. DeliveryInv /\ DeliveryInv' /\ [Next]_vars => [Contract!Next]_(Contract!mvars)
  BY MulticastStep
<1> QED BY <1>1, <1>2, DeliveryKept, PTL DEF Spec, ImplementsMulticast, Contract!Spec
===============================================================================
