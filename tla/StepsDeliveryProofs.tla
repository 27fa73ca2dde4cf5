-------------------------- MODULE StepsDeliveryProofs --------------------------
(***************************************************************************)
(* What a consumer of RingSteps is given, for every number of processes,   *)
(* entries and slots: although next_raw reads the slots one load at a time, *)
(* and they are recycled and committed meanwhile, it takes the first that  *)
(* is due; and it does not sleep beside one that nobody will tell it of.   *)
(*                                                                         *)
(* Sequences are compared through their place: how many were assigned      *)
(* before them, plus one.  As none comes round (MaxPublications), the      *)
(* code's wrapping comparison is the order of the places.                  *)
(***************************************************************************)
EXTENDS RingStepsProofs, StepsMulticast

Place(q) == (q - FirstSeq + 1) % SeqMod

-----------------------------------------------------------------------------
(* The arithmetic.                                                         *)

Half == SeqMod \div 2

LEMMA Modulus ==
    /\ SeqMod \in Nat /\ Half \in Nat /\ SeqMod = Half + Half
    /\ MaxPublications \in Nat /\ MaxPublications < Half
    /\ FirstSeq \in Int /\ 0 <= FirstSeq /\ FirstSeq < SeqMod
BY StepsAssumption DEF Half

LEMMA ModOf ==
    ASSUME NEW n \in Nat, n > 0, NEW a \in Int
    PROVE  /\ 0 <= a /\ a < n => a % n = a
           /\ -n <= a /\ a < 0 => a % n = a + n
           /\ a = n => a % n = 0
<1>1. ASSUME 0 <= a, a < n PROVE a % n = a
  BY <1>1
<1>2. ASSUME -n <= a, a < 0 PROVE a % n = a + n
  BY <1>2
<1>3. ASSUME a = n PROVE a % n = 0
  BY <1>3
<1> QED BY <1>1, <1>2, <1>3

LEMMA PlaceValue ==
    ASSUME NEW q \in Seqs
    PROVE  /\ Place(q) = IF q + 1 = FirstSeq + SeqMod THEN 0
                         ELSE IF q + 1 < FirstSeq THEN q + 1 - FirstSeq + SeqMod
                         ELSE q + 1 - FirstSeq
           /\ Place(q) \in Int /\ 0 <= Place(q) /\ Place(q) < SeqMod
<1>1. /\ SeqMod \in Nat /\ SeqMod > 0 /\ q \in Int /\ FirstSeq \in Int
      /\ 0 <= q /\ q < SeqMod /\ 0 <= FirstSeq /\ FirstSeq < SeqMod
  BY Modulus DEF Seqs
<1> DEFINE a == q - FirstSeq + 1
<1>2. a \in Int /\ Place(q) = a % SeqMod
  BY <1>1 DEF Place
<1>3. CASE q + 1 = FirstSeq + SeqMod
  <2>1. a = SeqMod
    BY <1>1, <1>3
  <2>2. a % SeqMod = 0
    BY <1>1, <1>2, <2>1, ModOf
  <2> QED BY <1>1, <1>2, <1>3, <2>2
<1>4. CASE q + 1 < FirstSeq
  <2>1. -SeqMod <= a /\ a < 0 /\ q + 1 # FirstSeq + SeqMod
    BY <1>1, <1>4
  <2>2. a % SeqMod = a + SeqMod
    BY <1>1, <1>2, <2>1, ModOf
  <2> QED BY <1>1, <1>2, <1>4, <2>1, <2>2
<1>5. CASE q + 1 # FirstSeq + SeqMod /\ ~(q + 1 < FirstSeq)
  <2>1. 0 <= a /\ a < SeqMod
    BY <1>1, <1>5
  <2>2. a % SeqMod = a
    BY <1>1, <1>2, <2>1, ModOf
  <2> QED BY <1>1, <1>2, <1>5, <2>1, <2>2
<1> QED BY <1>3, <1>4, <1>5

LEMMA PlaceUnique ==
    ASSUME NEW q \in Seqs, NEW r \in Seqs, Place(q) = Place(r)
    PROVE  q = r
<1>1. /\ SeqMod \in Nat /\ SeqMod > 0 /\ FirstSeq \in Int /\ q \in Int /\ r \in Int
      /\ 0 <= q /\ q < SeqMod /\ 0 <= r /\ r < SeqMod /\ 0 <= FirstSeq /\ FirstSeq < SeqMod
  BY Modulus DEF Seqs
<1> QED BY <1>1, PlaceValue

LEMMA FirstPlace == FirstSeq \in Seqs /\ Place(FirstSeq) = 1
<1>1. FirstSeq \in Seqs
  BY StepsAssumption DEF Seqs
<1> QED BY <1>1, PlaceValue, Modulus

\* Assigning a sequence, and subscribing after the last one assigned.
LEMMA PlaceSteps ==
    ASSUME NEW q \in Seqs
    PROVE  /\ Succ(q) \in Seqs /\ (q - 1) % SeqMod \in Seqs
           /\ Place(q) <= MaxPublications => Place(Succ(q)) = Place(q) + 1
           /\ Place(q) >= 1 => Place((q - 1) % SeqMod) = Place(q) - 1
<1>1. /\ SeqMod \in Nat /\ SeqMod > 0 /\ q \in Int /\ FirstSeq \in Int
      /\ 0 <= q /\ q < SeqMod /\ 0 <= FirstSeq /\ FirstSeq < SeqMod
      /\ MaxPublications \in Nat /\ Half \in Nat /\ MaxPublications < Half /\ SeqMod = Half + Half
  BY Modulus DEF Seqs
<1>2. Succ(q) = IF q + 1 = SeqMod THEN 0 ELSE q + 1
  BY <1>1, ModOf DEF Succ
<1>3. (q - 1) % SeqMod = IF q = 0 THEN SeqMod - 1 ELSE q - 1
  BY <1>1, ModOf
<1>4. Succ(q) \in Seqs /\ (q - 1) % SeqMod \in Seqs
  BY <1>1, <1>2, <1>3 DEF Seqs
<1>5. Place(q) <= MaxPublications => Place(Succ(q)) = Place(q) + 1
  BY <1>1, <1>2, <1>4, PlaceValue
<1>6. Place(q) >= 1 => Place((q - 1) % SeqMod) = Place(q) - 1
  BY <1>1, <1>3, <1>4, PlaceValue
<1> QED BY <1>4, <1>5, <1>6

\* The bound of StartReserve.
LEMMA PlaceBound ==
    ASSUME NEW q \in Seqs, (q - FirstSeq) % SeqMod < MaxPublications
    PROVE  Place(q) <= MaxPublications
<1>1. /\ SeqMod \in Nat /\ SeqMod > 0 /\ q \in Int /\ FirstSeq \in Int
      /\ 0 <= q /\ q < SeqMod /\ 0 <= FirstSeq /\ FirstSeq < SeqMod
      /\ MaxPublications \in Nat /\ Half \in Nat /\ MaxPublications < Half /\ SeqMod = Half + Half
  BY Modulus DEF Seqs
<1>2. (q - FirstSeq) % SeqMod = IF q < FirstSeq THEN q - FirstSeq + SeqMod ELSE q - FirstSeq
  BY <1>1, ModOf
<1> QED BY <1>1, <1>2, PlaceValue

LEMMA NewerByPlace ==
    ASSUME NEW a \in Seqs, NEW b \in Seqs,
           Place(a) <= MaxPublications, Place(b) <= MaxPublications
    PROVE  SeqNewer(a, b) <=> Place(a) > Place(b)
<1>1. /\ SeqMod \in Nat /\ SeqMod > 0 /\ a \in Int /\ b \in Int /\ FirstSeq \in Int
      /\ 0 <= a /\ a < SeqMod /\ 0 <= b /\ b < SeqMod /\ 0 <= FirstSeq /\ FirstSeq < SeqMod
      /\ MaxPublications \in Nat /\ Half \in Nat /\ MaxPublications < Half /\ SeqMod = Half + Half
  BY Modulus DEF Seqs
<1>2. (a - b) % SeqMod = IF a < b THEN a - b + SeqMod ELSE a - b
  BY <1>1, ModOf
<1>3. SeqNewer(a, b) <=> (a - b) % SeqMod \in 1 .. Half - 1
  BY DEF SeqNewer, Half
<1> QED BY <1>1, <1>2, <1>3, PlaceValue

-----------------------------------------------------------------------------
(* What there is to know about the slots, their sequences and their bits.  *)

\* From the store of the reader bits to that of COMMITTED.
Making == {"advance", "copy", "commit"}
Copying == \E p \in Producers \cap alive : pc[p] \in {"copy", "commit"}

\* The place of the publication that is made next: everything older has been made.
Coming == IF Copying THEN Place(nextSeq) - 1 ELSE Place(nextSeq)

\* Committed slots have different sequences, all older than what is coming; a producer
\* at work on a numbered slot has given it the newest.
PlaceInv ==
    /\ Place(nextSeq) \in 1 .. MaxPublications + 1
    /\ \A p \in Producers \cap alive :
          /\ pc[p] \in LockedStages => Place(nextSeq) <= MaxPublications
          /\ pc[p] \in {"address", "advance"} => slot[pick[p]].seq = nextSeq
          /\ pc[p] \in {"copy", "commit"} =>
                Place(nextSeq) >= 2 /\ Place(slot[pick[p]].seq) = Place(nextSeq) - 1
    /\ \A s \in Slots : slot[s].state = "COMMITTED" => Place(slot[s].seq) \in 1 .. Coming - 1
    /\ \A s, t \in Slots : slot[s].state = "COMMITTED" /\ slot[t].state = "COMMITTED" /\ s # t =>
          slot[s].seq # slot[t].seq

\* Nobody's bit is left over: not of an inactive entry, and not in a slot that is
\* free or that is being prepared.
BitInv ==
    /\ \A i \in Entries : ~entry[i].active => WithBit(i) = {}
    /\ \A s \in Slots : slot[s].state = "FREE" => slot[s].mask = {}
    /\ \A p \in Producers \cap alive :
          pc[p] \in {"stamp", "number", "address"} => slot[pick[p]].mask = {}

-----------------------------------------------------------------------------
(* The kinds of steps, as far as slots and producers are concerned.        *)

\* Nobody alive is at work on a slot that was not before.
Calm ==
    /\ UNCHANGED <<nextSeq, alive>>
    /\ \A q \in Producers \cap alive :
          \/ pc'[q] = pc[q] /\ pick'[q] = pick[q]
          \/ /\ pc[q] \notin Working /\ pc'[q] \notin Working
             /\ pc'[q] \in LockedStages => Place(nextSeq) <= MaxPublications

\* A member has the entry that its index names.
Member(c) == c \in alive /\ pc[c] \in OpenStages \cup {"activate", "countUp"}

\* One bit is dropped, which is its owner's or nobody's.
Dropped ==
    \E s \in Slots, i \in Entries :
        /\ DropBit(s, i)
        /\ \A c \in Consumers : Member(c) /\ handle[c].idx = i => Release(c)

\* A slot is taken back that nobody living is at work on.
Swept ==
    \E s \in Slots :
        /\ slot[s].state = "WRITING"
        /\ \A q \in Producers \cap alive : pick[q] # s
        /\ slot' = [slot EXCEPT ![s].mask = {}, ![s].state = "FREE"]

LEMMA CalmMove ==
    ASSUME IInv, NEW p \in alive, NEW to \in Stages, pc' = [pc EXCEPT ![p] = to],
           UNCHANGED <<nextSeq, alive>>,
           \A q \in Producers : q # p => pick'[q] = pick[q],
           p \in Producers =>
              /\ pc[p] \notin Working /\ to \notin Working
              /\ to \in LockedStages => Place(nextSeq) <= MaxPublications
    PROVE  Calm
<1>1. p \in Procs /\ pc'[p] = to /\ \A q \in Procs \ {p} : pc'[q] = pc[q]
  BY DEF IInv, Types
<1> QED BY <1>1, Outside DEF Calm

LEMMA CalmConsumer ==
    ASSUME IInv, NEW c \in Consumers, NEW from, NEW to \in Stages, Goto(c, from, to),
           UNCHANGED <<nextSeq, alive, pick>>
    PROVE  Calm
<1>1. c \in alive /\ pc' = [pc EXCEPT ![c] = to] /\ c \notin Producers
  BY Outside DEF Goto
<1> QED BY <1>1, CalmMove

\* What a consumer does outside the lock stores nothing but the bit it gives back.
LEMMA ReceiveKind ==
    ASSUME IInv, NEW c \in Consumers, Receive(c)
    PROVE  Calm /\ (UNCHANGED slot \/ Dropped)
<1>1. ASSUME NEW from, NEW to \in Stages, Goto(c, from, to), Reading
      PROVE  Calm /\ UNCHANGED slot
  BY <1>1, CalmConsumer DEF Reading, shared
<1>2. OpenStages \subseteq Stages
  BY StageNames
<1>3. CASE Observe(c)
  BY <1>1, <1>2, <1>3 DEF Observe, OpenStages
<1>4. ASSUME NEW from, Onward(c, from), Reading PROVE Calm /\ UNCHANGED slot
  BY <1>1, <1>2, <1>4 DEF Onward, OpenStages
<1>5. CASE LoadState(c)
  BY <1>1, <1>2, <1>4, <1>5 DEF LoadState, OpenStages
<1>6. CASE LoadMask(c)
  BY <1>1, <1>2, <1>4, <1>6 DEF LoadMask, OpenStages
<1>7. CASE LoadSeq(c)
  BY <1>4, <1>7 DEF LoadSeq
<1>8. CASE Compare(c)
  <2>1. (IF ScanAgain(c) THEN "loadState" ELSE IF FoundOlder(c) \/ scan[c].again > 0
           THEN "check" ELSE "wait") \in Stages
    BY <1>2 DEF OpenStages
  <2> QED BY <1>1, <1>8, <2>1 DEF Compare
<1>9. CASE Check(c)
  BY <1>1, <1>2, <1>9 DEF Check, OpenStages
<1>10. CASE Take(c)
  <2> DEFINE valid == StillThere(scan[c].oldest) /\ handle[c].idx \in slot[scan[c].oldest.slot].mask
  <2>1. Goto(c, "recheck", IF valid THEN "open" ELSE "wait") /\ Reading
    BY <1>10 DEF Take
  <2>2. (IF valid THEN "open" ELSE "wait") \in Stages
    BY <1>2 DEF OpenStages
  <2> QED BY <1>1, <2>1, <2>2
<1>11. CASE Sleep(c)
  BY <1>1, <1>2, <1>11 DEF Sleep, OpenStages
<1>12. CASE EndWait(c)
  BY <1>1, <1>2, <1>12 DEF EndWait, OpenStages
<1>13. CASE StartRelease(c)
  <2>1. Goto(c, "open", "release") /\ UNCHANGED <<nextSeq, alive, pick, slot>>
    BY <1>13 DEF StartRelease, ConsumerOnly, shared
  <2> QED BY <1>2, <2>1, CalmConsumer DEF OpenStages
<1>14. CASE Release(c)
  <2> DEFINE l == returning[c]
  <2>1. /\ Goto(c, "release", "open") /\ DropBit(l.slot, handle[c].idx)
        /\ UNCHANGED <<nextSeq, alive, pick>> /\ pc[c] = "release" /\ c \in alive
    BY <1>14 DEF Release, ConsumerOnly, Goto
  <2>2. l \in handle[c].leases /\ handle[c].idx \in Entries /\ entry[handle[c].idx].pid = c
    BY <2>1 DEF IInv, EntryInv, OpenStages
  <2>3. l.slot \in Slots
    BY <2>2, LeaseSlots DEF IInv
  <2>4. ASSUME NEW d \in Consumers, Member(d), handle[d].idx = handle[c].idx PROVE Release(d)
    <3>1. entry[handle[d].idx].pid = d
      BY <2>4 DEF IInv, EntryInv, Member
    <3> QED BY <1>14, <2>2, <2>4, <3>1
  <2>5. Dropped
    BY <2>1, <2>2, <2>3, <2>4 DEF Dropped
  <2> QED BY <1>2, <2>1, <2>5, CalmConsumer DEF OpenStages
<1> QED
  BY <1>3, <1>5, <1>6, <1>7, <1>8, <1>9, <1>10, <1>11, <1>12, <1>13, <1>14 DEF Receive

LEMMA MembershipKind ==
    ASSUME IInv, NEW c \in Consumers, Membership(c)
    PROVE  Calm /\ (UNCHANGED slot \/ Dropped)
<1>1. {"reap", "enter", "activate", "none", "countUp", "open", "close", "countDown", "closed"}
         \subseteq Stages
  BY DEF Stages, LockedStages, OpenStages
<1>2. CASE StartRegister(c)
  BY <1>1, <1>2, CalmConsumer DEF StartRegister, StartLocked, shared
<1>3. CASE Enter(c)
  BY <1>1, <1>3, CalmConsumer DEF Enter, ConsumerOnly
<1>4. CASE RegistryFull(c)
  BY <1>1, <1>4, CalmConsumer DEF RegistryFull, ConsumerOnly, shared
<1>5. CASE Activate(c)
  BY <1>1, <1>5, CalmConsumer DEF Activate, MembershipOnly
<1>6. CASE CountUp(c)
  BY <1>1, <1>6, CalmConsumer DEF CountUp, MembershipOnly
<1>7. CASE StartClose(c)
  BY <1>1, <1>7, CalmConsumer DEF StartClose, MembershipOnly
<1>8. CASE CloseBit(c)
  <2> DEFINE i == handle[c].idx
  <2>1. /\ Goto(c, "close", "close") /\ DropNextBit(i) /\ UNCHANGED <<nextSeq, alive, pick>>
        /\ c \in alive /\ pc[c] = "close"
    BY <1>8 DEF CloseBit, ConsumerOnly, Goto
  <2>2. i \in Entries /\ entry[i].pid = c
    BY <2>1 DEF IInv, EntryInv
  <2>3. PICK s \in Slots : DropBit(s, i)
    BY <2>1 DEF DropNextBit, WithBit
  <2>4. \A d \in Consumers : Member(d) => handle[d].idx # i
    <3>1. \A d \in Consumers : Member(d) => entry[handle[d].idx].pid = d
      BY DEF IInv, EntryInv, Member
    <3>2. ~Member(c)
      BY <2>1 DEF Member, OpenStages
    <3> QED BY <2>2, <3>1, <3>2
  <2>5. Dropped
    BY <2>2, <2>3, <2>4 DEF Dropped
  <2> QED BY <1>1, <2>1, <2>5, CalmConsumer
<1>9. CASE CloseEntry(c)
  BY <1>1, <1>9, CalmConsumer DEF CloseEntry, MembershipOnly
<1>10. CASE CountDown(c)
  BY <1>1, <1>10, CalmConsumer DEF CountDown, ConsumerOnly
<1> QED
  BY <1>2, <1>3, <1>4, <1>5, <1>6, <1>7, <1>8, <1>9, <1>10 DEF Membership

LEMMA ReapKind ==
    ASSUME IInv, PlaceInv, NEW p \in Procs, ReapEntry(p) \/ ReapCount(p) \/ ReapSlot(p)
    PROVE  Calm /\ (UNCHANGED slot \/ Dropped \/ Swept)
<1>1. ASSUME NEW from \in {"reap", "countDead"}, NEW to \in Stages \ Working, Goto(p, from, to),
             UNCHANGED <<nextSeq, alive, pick>>
      PROVE  Calm
  <2>1. p \in alive /\ pc' = [pc EXCEPT ![p] = to] /\ pc[p] = from
    BY <1>1 DEF Goto
  <2>2. p \in Producers => Place(nextSeq) <= MaxPublications
    BY <1>1, <2>1 DEF PlaceInv, LockedStages
  <2> QED BY <1>1, <2>1, <2>2, CalmMove DEF Working
<1>2. {"reap", "countDead", "choose", "enter"} \subseteq Stages \ Working
  BY DEF Stages, LockedStages, Working
<1>3. CASE ReapEntry(p)
  <2> DEFINE i == at[p]
  <2>1. i \in Entries /\ UNCHANGED <<nextSeq, alive, pick>>
    BY <1>3 DEF ReapEntry
  <2>2. Calm
    BY <1>1, <1>2, <1>3, <2>1 DEF ReapEntry
  <2>3. CASE DeadEntry(p, i) /\ DropNextBit(i)
    <3>1. PICK s \in Slots : DropBit(s, i)
      BY <2>3 DEF DropNextBit, WithBit
    <3>2. \A d \in Consumers : Member(d) => handle[d].idx # i
      BY <2>3 DEF IInv, EntryInv, Member, DeadEntry
    <3> QED BY <2>1, <2>2, <3>1, <3>2 DEF Dropped
  <2>4. CASE UNCHANGED slot
    BY <2>2, <2>4
  <2> QED BY <1>3, <2>3, <2>4 DEF ReapEntry
<1>4. CASE ReapCount(p)
  BY <1>1, <1>2, <1>4 DEF ReapCount
<1>5. CASE ReapSlot(p)
  <2> DEFINE s == at[p] - MaxConsumers
             to == IF s < SlotCount THEN "reap" ELSE IF p \in Producers THEN "choose" ELSE "enter"
  <2>1. /\ s \in Slots /\ Goto(p, "reap", to) /\ UNCHANGED <<nextSeq, alive, pick>>
        /\ slot' = IF Abandoned(p, s)
                     THEN [slot EXCEPT ![s].mask = {}, ![s].state = "FREE"] ELSE slot
    BY <1>5 DEF ReapSlot
  <2>2. to \in Stages \ Working
    BY <1>2
  <2>3. Calm
    BY <1>1, <2>1, <2>2
  <2> HIDE DEF s, to
  <2>4. CASE Abandoned(p, s)
    <3>1. \A q \in Producers \cap alive : pick[q] # s
      <4> SUFFICES ASSUME NEW q \in Producers, q \in alive, pick[q] = s PROVE FALSE
        OBVIOUS
      <4>1. pick[q] # 0 /\ slot[pick[q]].state = "WRITING" /\ slot[pick[q]].pid # q
        BY <2>1, <2>4 DEF Abandoned, Slots
      <4>2. pc[q] = "stamp"
        BY <4>1 DEF IInv, PickInv
      <4>3. pc[p] = "reap" /\ p \in alive
        BY <2>1 DEF Goto
      <4>4. lock = p /\ lock = q
        BY <4>2, <4>3 DEF IInv, LockInv, LockedStages
      <4> QED BY <4>2, <4>3, <4>4
    <3>2. slot[s].state = "WRITING"
      BY <2>4 DEF Abandoned
    <3> QED BY <2>1, <2>3, <2>4, <3>1, <3>2 DEF Swept
  <2>5. CASE ~Abandoned(p, s)
    BY <2>1, <2>3, <2>5
  <2> QED BY <2>4, <2>5
<1> QED BY <1>3, <1>4, <1>5

Storing(p) == Mark(p) \/ Stamp(p) \/ Number(p) \/ Address(p) \/ Copy(p) \/ Commit(p)

LEMMA PublishKind ==
    ASSUME IInv, PlaceInv, NEW p \in Producers, Publish(p)
    PROVE  (Calm /\ UNCHANGED slot) \/ Storing(p) \/ Advance(p)
<1>1. ASSUME NEW from \in Stages \ Working, NEW to \in Stages \ Working, Goto(p, from, to),
             UNCHANGED <<nextSeq, alive>>,
             \A q \in Producers : q # p => pick'[q] = pick[q],
             to \in LockedStages => from \in LockedStages \/ Place(nextSeq) <= MaxPublications
      PROVE  Calm
  <2>1. p \in alive /\ pc' = [pc EXCEPT ![p] = to] /\ pc[p] = from
    BY <1>1 DEF Goto
  <2>2. to \in LockedStages => Place(nextSeq) <= MaxPublications
    BY <1>1, <2>1 DEF PlaceInv
  <2> QED BY <1>1, <2>1, <2>2, CalmMove
<1>2. {"off", "idle", "choose", "chosen", "signal", "wake", "reap"} \subseteq Stages \ Working
  BY DEF Stages, LockedStages, Working
<1>3. CASE Claim(p)
  BY <1>1, <1>2, <1>3 DEF Claim, ProducerOnly, LockedStages
<1>9. CASE HandBack(p)
  BY <1>1, <1>2, <1>9 DEF HandBack, ProducerOnly, LockedStages
<1>4. CASE StartReserve(p)
  <2>1. Place(nextSeq) <= MaxPublications
    BY <1>4, PlaceBound DEF StartReserve, IInv, Types
  <2> QED BY <1>1, <1>2, <1>4, <2>1 DEF StartReserve, StartLocked, shared
<1>5. CASE Choose(p)
  <2>1. \A q \in Producers : q # p => pick'[q] = pick[q]
    BY <1>5 DEF Choose, IInv, Types
  <2> QED BY <1>1, <1>2, <1>5, <2>1 DEF Choose, ProducerOnly, shared, LockedStages
<1>6. CASE Full(p)
  BY <1>1, <1>2, <1>6 DEF Full, ProducerOnly, shared, LockedStages
<1>7. CASE Signal(p)
  BY <1>1, <1>2, <1>7 DEF Signal, shared, LockedStages
<1>8. CASE WakeAll(p)
  <2>1. /\ p \in alive /\ pc[p] = "wake" /\ UNCHANGED <<nextSeq, alive, slot>>
        /\ pc' = [q \in Procs |-> IF q = p THEN "idle" ELSE IF pc[q] = "asleep" THEN "open" ELSE pc[q]]
        /\ pick' = [pick EXCEPT ![p] = 0]
    BY <1>8 DEF WakeAll, ProducerOnly, shared
  <2>2. \A q \in Producers : q # p => pick'[q] = pick[q]
    BY <2>1 DEF IInv, Types
  <2> QED BY <2>1, <2>2, Outside DEF Calm, Working, LockedStages
<1> QED BY <1>3, <1>4, <1>5, <1>6, <1>7, <1>8, <1>9 DEF Publish, Storing

LEMMA Kinds ==
    ASSUME IInv, PlaceInv, [Next]_vars
    PROVE  \/ Calm /\ (UNCHANGED slot \/ Dropped \/ Swept)
           \/ \E p \in Producers : Storing(p) \/ Advance(p)
           \/ \E p \in Procs : Kill(p)
<1>1. CASE UNCHANGED vars
  BY <1>1 DEF vars, Calm
<1> QED BY <1>1, ReceiveKind, MembershipKind, ReapKind, PublishKind DEF Next

\* A store of a producer to the slot it works on: nobody else's section matters then.
LEMMA Stored ==
    ASSUME IInv, NEW p \in Producers, NEW from \in Stages \ {"off"}, NEW to, NEW new,
           Store(p, from, to, new)
    PROVE  /\ p \in alive /\ pc[p] = from /\ pc'[p] = to /\ pick[p] \in Slots
           /\ slot'[pick[p]] = new /\ \A t \in Slots \ {pick[p]} : slot'[t] = slot[t]
           /\ slot[pick[p]] \in SlotRecord
           /\ \A q \in Procs \ {p} : pc'[q] = pc[q]
           /\ \A q \in Producers \cap alive : q # p => pc[q] = "off"
           /\ UNCHANGED <<entry, registered, nextSeq, role, lock, alive, at, pick, handle, scan,
                          heard, returning>>
<1>1. /\ p \in alive /\ pc[p] = from /\ pc' = [pc EXCEPT ![p] = to] /\ pick[p] # 0
      /\ slot' = [slot EXCEPT ![pick[p]] = new]
      /\ UNCHANGED <<entry, registered, nextSeq, role, lock, alive, at, pick, handle, scan,
                     heard, returning>>
  BY DEF Store, Goto, ProducerOnly
<1>2. pick[p] \in Slots
  BY <1>1 DEF IInv, Types, Slots
<1>3. \A q \in Producers \cap alive : q # p => pc[q] = "off"
  BY <1>1, OneProducer DEF IInv
<1> QED BY <1>1, <1>2, <1>3, Outside DEF IInv, Types

-----------------------------------------------------------------------------
(* The sequences.                                                          *)

LEMMA NextPlace ==
    ASSUME Types, PlaceInv
    PROVE  /\ nextSeq \in Seqs /\ Place(nextSeq) \in Int /\ Coming \in Int
           /\ 1 <= Coming /\ Coming <= Place(nextSeq) /\ Place(nextSeq) <= Coming + 1
           /\ Place(nextSeq) <= MaxPublications + 1 /\ MaxPublications \in Nat
<1>1. nextSeq \in Seqs /\ MaxPublications \in Nat
  BY Modulus DEF Types
<1>2. Place(nextSeq) \in Int /\ Place(nextSeq) >= 1 /\ Place(nextSeq) <= MaxPublications + 1
  BY <1>1, PlaceValue DEF PlaceInv
<1>3. Copying => Place(nextSeq) >= 2
  BY DEF PlaceInv, Copying
<1> QED BY <1>1, <1>2, <1>3 DEF Coming

LEMMA SlotTypes ==
    ASSUME Types, NEW s \in Slots
    PROVE  /\ slot[s] \in SlotRecord /\ slot[s].seq \in Seqs /\ Place(slot[s].seq) \in Int
           /\ slot[s].mask \subseteq Entries /\ slot[s].state \in {"FREE", "WRITING", "COMMITTED"}
<1>1. slot[s] \in SlotRecord
  BY DEF Types
<1>2. slot[s].seq \in Seqs /\ slot[s].mask \subseteq Entries
      /\ slot[s].state \in {"FREE", "WRITING", "COMMITTED"}
  BY <1>1 DEF SlotRecord
<1> QED BY <1>1, <1>2, PlaceValue

\* Nothing is committed, and no sequence assigned.
LEMMA PlaceQuiet ==
    ASSUME Types, PlaceInv, UNCHANGED nextSeq, alive' \subseteq alive,
           \A s \in Slots : slot'[s].state = "COMMITTED" =>
              slot[s].state = "COMMITTED" /\ slot'[s].seq = slot[s].seq,
           \A q \in Producers \cap alive' :
              /\ pc'[q] \in LockedStages => Place(nextSeq) <= MaxPublications
              /\ pc'[q] \in {"address", "advance"} => slot'[pick'[q]].seq = nextSeq
              /\ pc'[q] \in {"copy", "commit"} =>
                    pc[q] \in {"copy", "commit"} /\ slot'[pick'[q]].seq = slot[pick[q]].seq
    PROVE  PlaceInv' /\ Coming' >= Coming /\ Coming' <= Place(nextSeq)
<1>1. Copying' => Copying
  BY DEF Copying
<1>2. Coming' \in Int /\ Coming' >= Coming /\ Coming' <= Place(nextSeq)
  BY <1>1, NextPlace DEF Coming, Place
<1>3. Place(nextSeq') = Place(nextSeq)
  OBVIOUS
<1>4. ASSUME NEW s \in Slots, slot'[s].state = "COMMITTED"
      PROVE  Place(slot'[s].seq) \in 1 .. Coming' - 1
  <2>1. Place(slot'[s].seq) = Place(slot[s].seq) /\ Place(slot[s].seq) \in 1 .. Coming - 1
    BY <1>4 DEF PlaceInv
  <2> QED BY <1>2, <2>1, NextPlace
<1>5. \A q \in Producers \cap alive' : pc'[q] \in {"copy", "commit"} =>
          Place(nextSeq) >= 2 /\ Place(slot'[pick'[q]].seq) = Place(nextSeq) - 1
  BY DEF PlaceInv
<1>6. \A s, t \in Slots : slot'[s].state = "COMMITTED" /\ slot'[t].state = "COMMITTED" /\ s # t =>
          slot'[s].seq # slot'[t].seq
  BY DEF PlaceInv
<1>7. Place(nextSeq') \in 1 .. MaxPublications + 1
  BY DEF PlaceInv
<1>8. PlaceInv'
  <2> HIDE DEF PlaceInv
  <2>1. \A q \in Producers \cap alive' :
          /\ pc'[q] \in LockedStages => Place(nextSeq') <= MaxPublications
          /\ pc'[q] \in {"address", "advance"} => slot'[pick'[q]].seq = nextSeq'
          /\ pc'[q] \in {"copy", "commit"} =>
                Place(nextSeq') >= 2 /\ Place(slot'[pick'[q]].seq) = Place(nextSeq') - 1
    BY <1>5
  <2> QED BY <1>4, <1>6, <1>7, <2>1 DEF PlaceInv, Place
<1> QED BY <1>2, <1>8

\* What Dropped and Swept do to one slot.
LEMMA DropValue ==
    ASSUME Types, NEW s \in Slots, NEW i, DropBit(s, i)
    PROVE  /\ slot'[s].mask = slot[s].mask \ {i}
           /\ \A t \in Slots \ {s} : slot'[t] = slot[t]
           /\ \A t \in Slots : slot'[t].state = slot[t].state /\ slot'[t].seq = slot[t].seq
<1>1. slot' = [slot EXCEPT ![s] = [slot[s] EXCEPT !.mask = @ \ {i}]]
  BY DEF DropBit
<1>2. slot'[s] = [slot[s] EXCEPT !.mask = @ \ {i}] /\ \A t \in Slots \ {s} : slot'[t] = slot[t]
  BY <1>1 DEF Types
<1>3. slot[s] \in SlotRecord
  BY SlotTypes
<1>4. slot'[s].mask = slot[s].mask \ {i} /\ slot'[s].state = slot[s].state /\ slot'[s].seq = slot[s].seq
  BY <1>2, <1>3 DEF SlotRecord
<1> QED BY <1>2, <1>4

LEMMA SweepValue ==
    ASSUME Types, NEW s \in Slots, slot' = [slot EXCEPT ![s].mask = {}, ![s].state = "FREE"]
    PROVE  /\ slot'[s].mask = {} /\ slot'[s].state = "FREE" /\ slot'[s].seq = slot[s].seq
           /\ \A t \in Slots \ {s} : slot'[t] = slot[t]
<1>1. slot[s] \in SlotRecord
  BY SlotTypes
<1> QED BY <1>1 DEF Types, SlotRecord

\* While nobody works on a slot, states and sequences stay, but for slots swept.
LEMMA CalmSlots ==
    ASSUME Types, UNCHANGED slot \/ Dropped \/ Swept, NEW s \in Slots
    PROVE  /\ slot'[s].seq = slot[s].seq /\ slot'[s].mask \subseteq slot[s].mask
           /\ \/ slot'[s].state = slot[s].state
              \/ /\ slot[s].state = "WRITING" /\ slot'[s].state = "FREE" /\ slot'[s].mask = {}
                 /\ \A q \in Producers \cap alive : pick[q] # s
<1>1. CASE UNCHANGED slot
  BY <1>1
<1>2. CASE Dropped
  BY <1>2, DropValue DEF Dropped
<1>3. CASE Swept
  BY <1>3, SweepValue DEF Swept
<1> QED BY <1>1, <1>2, <1>3

LEMMA CalmPlaces ==
    ASSUME IInv, PlaceInv, Calm, UNCHANGED slot \/ Dropped \/ Swept
    PROVE  PlaceInv' /\ Coming' >= Coming
<1> USE DEF IInv
<1>1. \A q \in Producers \cap alive : pc[q] \in Working => pick[q] \in Slots
  BY DEF PickInv, Types, Slots
<1>2. ASSUME NEW q \in Producers, q \in alive'
      PROVE  /\ pc'[q] \in LockedStages => Place(nextSeq) <= MaxPublications
             /\ pc'[q] \in {"address", "advance"} => slot'[pick'[q]].seq = nextSeq
             /\ pc'[q] \in {"copy", "commit"} =>
                   pc[q] \in {"copy", "commit"} /\ slot'[pick'[q]].seq = slot[pick[q]].seq
  <2>1. q \in alive
    BY <1>2 DEF Calm
  <2>2. CASE pc'[q] = pc[q] /\ pick'[q] = pick[q]
    BY <1>1, <2>1, <2>2, CalmSlots DEF PlaceInv, Working
  <2>3. CASE /\ pc[q] \notin Working /\ pc'[q] \notin Working
             /\ pc'[q] \in LockedStages => Place(nextSeq) <= MaxPublications
    BY <2>3 DEF Working
  <2> QED BY <1>2, <2>1, <2>2, <2>3 DEF Calm
<1>3. \A s \in Slots : slot'[s].state = "COMMITTED" =>
          slot[s].state = "COMMITTED" /\ slot'[s].seq = slot[s].seq
  BY CalmSlots
<1> QED BY <1>2, <1>3, PlaceQuiet DEF Calm

\* What each store does to the slot.
Becomes(s, state, seq, mask) ==
    slot'[s].state = state /\ slot'[s].seq = seq /\ slot'[s].mask = mask

LEMMA StoringFrame ==
    ASSUME IInv, NEW p \in Producers, Storing(p)
    PROVE  /\ p \in alive /\ pick[p] \in Slots /\ pc[p] \in Working \cup {"chosen"}
           /\ \A t \in Slots \ {pick[p]} : slot'[t] = slot[t]
           /\ \A q \in Procs \ {p} : pc'[q] = pc[q]
           /\ \A q \in Producers \cap alive : q # p => pc[q] = "off"
           /\ UNCHANGED <<entry, registered, nextSeq, role, lock, alive, at, pick, handle, scan,
                          heard, returning>>
<1>1. PICK from, to, new : from \in Working \cup {"chosen"} /\ Store(p, from, to, new)
  BY DEF Storing, Mark, Stamp, Number, Address, Copy, Commit, Working
<1>2. from \in Stages \ {"off"}
  BY <1>1 DEF Working, Stages, LockedStages
<1> QED BY <1>1, <1>2, Stored

LEMMA StoreValues ==
    ASSUME IInv, NEW p \in Producers
    PROVE  /\ Mark(p) => /\ pc[p] = "chosen" /\ pc'[p] = "stamp" /\ slot[pick[p]].state # "WRITING"
                         /\ slot[pick[p]].state = "FREE" \/ slot[pick[p]].mask = {}
                         /\ Becomes(pick[p], "WRITING", slot[pick[p]].seq, slot[pick[p]].mask)
           /\ Stamp(p) => /\ pc[p] = "stamp" /\ pc'[p] = "number" /\ slot[pick[p]].state = "WRITING"
                          /\ Becomes(pick[p], "WRITING", slot[pick[p]].seq, slot[pick[p]].mask)
           /\ Number(p) => /\ pc[p] = "number" /\ pc'[p] = "address" /\ slot[pick[p]].state = "WRITING"
                           /\ Becomes(pick[p], "WRITING", nextSeq, slot[pick[p]].mask)
           /\ Address(p) => /\ pc[p] = "address" /\ pc'[p] = "advance" /\ slot[pick[p]].state = "WRITING"
                            /\ Becomes(pick[p], "WRITING", slot[pick[p]].seq,
                                       {i \in Entries : entry[i].active})
           /\ Copy(p) => /\ pc[p] = "copy" /\ pc'[p] = "commit" /\ slot[pick[p]].state = "WRITING"
                         /\ Becomes(pick[p], "WRITING", slot[pick[p]].seq, slot[pick[p]].mask)
           /\ Commit(p) => /\ pc[p] = "commit" /\ pc'[p] = "signal" /\ slot[pick[p]].state = "WRITING"
                           /\ Becomes(pick[p], "COMMITTED", slot[pick[p]].seq, slot[pick[p]].mask)
<1>1. {"chosen", "stamp", "number", "address", "copy", "commit"} \subseteq Stages \ {"off"}
  BY DEF Stages, LockedStages
<1>2. ASSUME p \in alive, pc[p] \in Working \cup {"chosen"}, pick[p] \in Slots
      PROVE  /\ pc[p] \in Working => slot[pick[p]].state = "WRITING"
             /\ pc[p] = "chosen" => /\ slot[pick[p]].state # "WRITING"
                                    /\ slot[pick[p]].state = "FREE" \/ slot[pick[p]].mask = {}
  BY <1>2 DEF IInv, PickInv, Slots, Working
<1> DEFINE s == pick[p]
<1>3. ASSUME Mark(p)
      PROVE  pc[p] = "chosen" /\ pc'[p] = "stamp" /\ p \in alive /\ s \in Slots
             /\ Becomes(s, "WRITING", slot[s].seq, slot[s].mask)
  <2> DEFINE new == [slot[s] EXCEPT !.state = "WRITING"]
  <2>1. Store(p, "chosen", "stamp", new)
    BY <1>3 DEF Mark
  <2>2. slot[s] \in SlotRecord /\ slot'[s] = new => Becomes(s, "WRITING", slot[s].seq, slot[s].mask)
    BY DEF Becomes, SlotRecord
  <2> HIDE DEF new
  <2>3. /\ pc[p] = "chosen" /\ pc'[p] = "stamp" /\ p \in alive /\ s \in Slots
        /\ slot[s] \in SlotRecord /\ slot'[s] = new
    BY <1>1, <2>1, Stored
  <2> QED BY <2>2, <2>3
<1>4. ASSUME Stamp(p)
      PROVE  pc[p] = "stamp" /\ pc'[p] = "number" /\ p \in alive /\ s \in Slots
             /\ Becomes(s, slot[s].state, slot[s].seq, slot[s].mask)
  <2> DEFINE new == [slot[s] EXCEPT !.pid = p]
  <2>1. Store(p, "stamp", "number", new)
    BY <1>4 DEF Stamp
  <2>2. slot[s] \in SlotRecord /\ slot'[s] = new => Becomes(s, slot[s].state, slot[s].seq, slot[s].mask)
    BY DEF Becomes, SlotRecord
  <2> HIDE DEF new
  <2>3. /\ pc[p] = "stamp" /\ pc'[p] = "number" /\ p \in alive /\ s \in Slots
        /\ slot[s] \in SlotRecord /\ slot'[s] = new
    BY <1>1, <2>1, Stored
  <2> QED BY <2>2, <2>3
<1>5. ASSUME Number(p)
      PROVE  pc[p] = "number" /\ pc'[p] = "address" /\ p \in alive /\ s \in Slots
             /\ Becomes(s, slot[s].state, nextSeq, slot[s].mask)
  <2> DEFINE new == [slot[s] EXCEPT !.seq = nextSeq]
  <2>1. Store(p, "number", "address", new)
    BY <1>5 DEF Number
  <2>2. slot[s] \in SlotRecord /\ slot'[s] = new => Becomes(s, slot[s].state, nextSeq, slot[s].mask)
    BY DEF Becomes, SlotRecord
  <2> HIDE DEF new
  <2>3. /\ pc[p] = "number" /\ pc'[p] = "address" /\ p \in alive /\ s \in Slots
        /\ slot[s] \in SlotRecord /\ slot'[s] = new
    BY <1>1, <2>1, Stored
  <2> QED BY <2>2, <2>3
<1>6. ASSUME Address(p)
      PROVE  pc[p] = "address" /\ pc'[p] = "advance" /\ p \in alive /\ s \in Slots
             /\ Becomes(s, slot[s].state, slot[s].seq, {i \in Entries : entry[i].active})
  <2> DEFINE new == [slot[s] EXCEPT !.mask = {i \in Entries : entry[i].active}]
  <2>1. Store(p, "address", "advance", new)
    BY <1>6 DEF Address
  <2>2. slot[s] \in SlotRecord /\ slot'[s] = new => Becomes(s, slot[s].state, slot[s].seq, {i \in Entries : entry[i].active})
    BY DEF Becomes, SlotRecord
  <2> HIDE DEF new
  <2>3. /\ pc[p] = "address" /\ pc'[p] = "advance" /\ p \in alive /\ s \in Slots
        /\ slot[s] \in SlotRecord /\ slot'[s] = new
    BY <1>1, <2>1, Stored
  <2> QED BY <2>2, <2>3
<1>7. ASSUME Copy(p)
      PROVE  pc[p] = "copy" /\ pc'[p] = "commit" /\ p \in alive /\ s \in Slots
             /\ Becomes(s, slot[s].state, slot[s].seq, slot[s].mask)
  <2> DEFINE new == [slot[s] EXCEPT !.payload = slot[s].seq]
  <2>1. Store(p, "copy", "commit", new)
    BY <1>7 DEF Copy
  <2>2. slot[s] \in SlotRecord /\ slot'[s] = new => Becomes(s, slot[s].state, slot[s].seq, slot[s].mask)
    BY DEF Becomes, SlotRecord
  <2> HIDE DEF new
  <2>3. /\ pc[p] = "copy" /\ pc'[p] = "commit" /\ p \in alive /\ s \in Slots
        /\ slot[s] \in SlotRecord /\ slot'[s] = new
    BY <1>1, <2>1, Stored
  <2> QED BY <2>2, <2>3
<1>8. ASSUME Commit(p)
      PROVE  pc[p] = "commit" /\ pc'[p] = "signal" /\ p \in alive /\ s \in Slots
             /\ Becomes(s, "COMMITTED", slot[s].seq, slot[s].mask)
  <2> DEFINE new == [slot[s] EXCEPT !.state = "COMMITTED"]
  <2>1. Store(p, "commit", "signal", new)
    BY <1>8 DEF Commit
  <2>2. slot[s] \in SlotRecord /\ slot'[s] = new => Becomes(s, "COMMITTED", slot[s].seq, slot[s].mask)
    BY DEF Becomes, SlotRecord
  <2> HIDE DEF new
  <2>3. /\ pc[p] = "commit" /\ pc'[p] = "signal" /\ p \in alive /\ s \in Slots
        /\ slot[s] \in SlotRecord /\ slot'[s] = new
    BY <1>1, <2>1, Stored
  <2> QED BY <2>2, <2>3
<1> QED BY <1>2, <1>3, <1>4, <1>5, <1>6, <1>7, <1>8 DEF Working

LEMMA StoringPlaces ==
    ASSUME IInv, PlaceInv, NEW p \in Producers, Storing(p)
    PROVE  PlaceInv' /\ Coming' >= Coming
<1> USE StoringFrame DEF IInv
<1>1. p \in Procs
  BY Outside
<1>2. ASSUME pc'[p] \in LockedStages => pc[p] \in LockedStages,
             pc'[p] \in {"address", "advance"} => slot'[pick[p]].seq = nextSeq,
             pc'[p] \in {"copy", "commit"} =>
                pc[p] \in {"copy", "commit"} /\ slot'[pick[p]].seq = slot[pick[p]].seq,
             slot'[pick[p]].state # "COMMITTED"
      PROVE  PlaceInv' /\ Coming' >= Coming
  <2>1. ASSUME NEW q \in Producers, q \in alive'
        PROVE  /\ pc'[q] \in LockedStages => Place(nextSeq) <= MaxPublications
               /\ pc'[q] \in {"address", "advance"} => slot'[pick'[q]].seq = nextSeq
               /\ pc'[q] \in {"copy", "commit"} =>
                     pc[q] \in {"copy", "commit"} /\ slot'[pick'[q]].seq = slot[pick[q]].seq
    <3>1. CASE q = p
      BY <1>2, <3>1 DEF PlaceInv
    <3>2. CASE q # p
      <4>1. pc'[q] = "off"
        BY <2>1, <3>2, Outside
      <4> QED BY <4>1 DEF LockedStages
    <3> QED BY <3>1, <3>2
  <2>2. \A s \in Slots : slot'[s].state = "COMMITTED" =>
           slot[s].state = "COMMITTED" /\ slot'[s].seq = slot[s].seq
    BY <1>2
  <2> QED BY <2>1, <2>2, PlaceQuiet
<1>3. CASE Mark(p)
  BY <1>2, <1>3, StoreValues DEF Becomes, LockedStages
<1>4. CASE Stamp(p)
  BY <1>2, <1>4, StoreValues DEF Becomes, LockedStages
<1>5. CASE Number(p)
  BY <1>2, <1>5, StoreValues DEF Becomes, LockedStages
<1>6. CASE Address(p)
  <2>1. slot[pick[p]].seq = nextSeq
    BY <1>6, StoreValues DEF PlaceInv
  <2> QED BY <1>2, <1>6, <2>1, StoreValues DEF Becomes, LockedStages
<1>7. CASE Copy(p)
  BY <1>2, <1>7, StoreValues DEF Becomes, LockedStages
<1>8. CASE Commit(p)
  <2> DEFINE s == pick[p]
  <2>1. /\ pc[p] = "commit" /\ pc'[p] = "signal" /\ slot[s].state = "WRITING"
        /\ slot'[s].state = "COMMITTED" /\ slot'[s].seq = slot[s].seq
    BY <1>8, StoreValues DEF Becomes
  <2>2. Copying /\ ~Copying'
    BY <2>1, Outside DEF Copying
  <2>3. /\ Coming = Place(nextSeq) - 1 /\ Coming' = Place(nextSeq) /\ Coming \in Int /\ Coming >= 1
        /\ Place(slot[s].seq) = Coming
    BY <2>1, <2>2, NextPlace DEF Coming, Place, PlaceInv
  <2>4. ASSUME NEW t \in Slots, slot'[t].state = "COMMITTED"
        PROVE  /\ slot'[t].seq = slot[t].seq /\ Place(slot[t].seq) \in 1 .. Coming
               /\ t # s => slot[t].state = "COMMITTED" /\ Place(slot[t].seq) # Coming
    <3>1. CASE t = s
      BY <2>1, <2>3, <3>1
    <3>2. CASE t # s
      <4>1. slot'[t] = slot[t] /\ Place(slot[t].seq) \in 1 .. Coming - 1
        BY <2>4, <3>2 DEF PlaceInv
      <4> QED BY <2>3, <2>4, <3>2, <4>1
    <3> QED BY <3>1, <3>2
  <2>5. ASSUME NEW t \in Slots, NEW u \in Slots, t # u,
               slot'[t].state = "COMMITTED", slot'[u].state = "COMMITTED"
        PROVE  slot'[t].seq # slot'[u].seq
    BY <2>3, <2>4, <2>5 DEF PlaceInv
  <2>6. ASSUME NEW q \in Producers, q \in alive'
        PROVE  pc'[q] \notin {"address", "advance", "copy", "commit"} \cup LockedStages
    BY <2>1, <2>6, Outside DEF LockedStages
  <2>7. ASSUME NEW t \in Slots, slot'[t].state = "COMMITTED"
        PROVE  Place(slot'[t].seq) \in 1 .. Coming' - 1
    <3>1. slot'[t].seq = slot[t].seq /\ Place(slot[t].seq) \in 1 .. Coming
      BY <2>4, <2>7
    <3> QED BY <2>3, <3>1, NextPlace
  <2>8. Place(nextSeq') \in 1 .. MaxPublications + 1
    BY DEF PlaceInv
  <2>9. PlaceInv'
    <3> HIDE DEF PlaceInv
    <3> QED BY <2>5, <2>6, <2>7, <2>8 DEF PlaceInv, Place
  <2> QED BY <2>3, <2>9, NextPlace
<1> QED BY <1>3, <1>4, <1>5, <1>6, <1>7, <1>8 DEF Storing

LEMMA AdvancePlaces ==
    ASSUME IInv, PlaceInv, NEW p \in Producers, Advance(p)
    PROVE  PlaceInv' /\ Coming' = Coming /\ Coming \in Int
<1> USE DEF IInv
<1>1. /\ p \in alive /\ pc[p] = "advance" /\ pc' = [pc EXCEPT ![p] = "copy"]
      /\ nextSeq' = Succ(nextSeq) /\ UNCHANGED <<slot, alive, pick>>
  BY DEF Advance, Goto, ProducerOnly
<1>2. pc'[p] = "copy" /\ \A q \in Producers \cap alive : q # p => pc'[q] = "off"
  BY <1>1, OneProducer, Outside DEF Types
<1>3. ~Copying /\ Copying'
  BY <1>1, <1>2, OneProducer DEF Copying
<1>4. Place(nextSeq) <= MaxPublications /\ slot[pick[p]].seq = nextSeq
  BY <1>1 DEF PlaceInv, LockedStages
<1>5. nextSeq' \in Seqs /\ Place(nextSeq') = Place(nextSeq) + 1
  BY <1>1, <1>4, NextPlace, PlaceSteps
<1>6. Coming = Place(nextSeq) /\ Coming' = Coming /\ Coming >= 1 /\ Coming \in Int
  BY <1>3, <1>5, NextPlace DEF Coming, Place
<1>7. Place(nextSeq') \in 1 .. MaxPublications + 1 /\ Place(nextSeq') >= 2
  BY <1>4, <1>5, <1>6, Modulus
<1>8. \A q \in Producers \cap alive' :
          /\ pc'[q] \in LockedStages => Place(nextSeq') <= MaxPublications
          /\ pc'[q] \in {"address", "advance"} => slot'[pick'[q]].seq = nextSeq'
          /\ pc'[q] \in {"copy", "commit"} =>
                Place(nextSeq') >= 2 /\ Place(slot'[pick'[q]].seq) = Place(nextSeq') - 1
  BY <1>1, <1>2, <1>4, <1>5, <1>6, <1>7 DEF LockedStages
<1>9. \A s \in Slots : slot'[s].state = "COMMITTED" => Place(slot'[s].seq) \in 1 .. Coming' - 1
  BY <1>1, <1>6 DEF PlaceInv
<1>10. \A s, t \in Slots : slot'[s].state = "COMMITTED" /\ slot'[t].state = "COMMITTED" /\ s # t =>
          slot'[s].seq # slot'[t].seq
  BY <1>1 DEF PlaceInv
<1>11. PlaceInv'
  <2> HIDE DEF PlaceInv
  <2> QED BY <1>7, <1>8, <1>9, <1>10 DEF PlaceInv, Place
<1> QED BY <1>6, <1>11

LEMMA KillFrame ==
    ASSUME IInv, NEW p \in Procs, Kill(p)
    PROVE  /\ p \in alive /\ alive' = alive \ {p} /\ p \notin alive'
           /\ UNCHANGED <<slot, entry, registered, nextSeq, role, lock>>
           /\ \A q \in Procs \ {p} : pc'[q] = pc[q] /\ at'[q] = at[q]
           /\ pc'[p] \in Counting \cup {"stamp", "dead"}
           /\ \A q \in Producers : q # p => pick'[q] = pick[q]
           /\ \A c \in Consumers : c # p => /\ handle'[c] = handle[c] /\ scan'[c] = scan[c]
                                            /\ heard'[c] = heard[c] /\ returning'[c] = returning[c]
           /\ p \in Consumers => handle'[p] = Closed
<1>1. /\ p \in alive /\ alive' = alive \ {p}
      /\ pc' = [pc EXCEPT ![p] = IF @ \in Counting \cup {"stamp"} THEN @ ELSE "dead"]
      /\ at' = [at EXCEPT ![p] = 1]
      /\ pick' = [q \in Producers |-> IF q = p /\ pc[p] # "stamp" THEN 0 ELSE pick[q]]
      /\ handle' = [c \in Consumers |-> IF c = p THEN Closed ELSE handle[c]]
      /\ scan' = [c \in Consumers |-> IF c = p THEN NoScan ELSE scan[c]]
      /\ returning' = [c \in Consumers |-> IF c = p THEN None ELSE returning[c]]
      /\ heard' = [c \in Consumers |-> c # p /\ heard[c]]
      /\ UNCHANGED <<slot, entry, registered, nextSeq, role, lock>>
  BY DEF Kill, shared
<1>2. pc'[p] \in Counting \cup {"stamp", "dead"} /\ \A q \in Procs \ {p} : pc'[q] = pc[q] /\ at'[q] = at[q]
  BY <1>1 DEF IInv, Types, Counting
<1>3. \A c \in Consumers : c # p => heard'[c] = heard[c]
  BY <1>1 DEF IInv, Types
<1> QED BY <1>1, <1>2, <1>3

LEMMA PlaceStep ==
    ASSUME IInv, PlaceInv, [Next]_vars
    PROVE  PlaceInv' /\ Coming' >= Coming
<1>1. ASSUME NEW p \in Procs, Kill(p) PROVE PlaceInv' /\ Coming' >= Coming
  <2>1. \A q \in Producers \cap alive' : q \in alive /\ pc'[q] = pc[q] /\ pick'[q] = pick[q]
    BY <1>1, KillFrame, Outside
  <2>2. UNCHANGED <<slot, nextSeq>> /\ alive' \subseteq alive
    BY <1>1, KillFrame
  <2>3. \A q \in Producers \cap alive' :
              /\ pc'[q] \in LockedStages => Place(nextSeq) <= MaxPublications
              /\ pc'[q] \in {"address", "advance"} => slot'[pick'[q]].seq = nextSeq
              /\ pc'[q] \in {"copy", "commit"} =>
                    pc[q] \in {"copy", "commit"} /\ slot'[pick'[q]].seq = slot[pick[q]].seq
    BY <2>1, <2>2 DEF PlaceInv
  <2> QED BY <2>2, <2>3, PlaceQuiet DEF IInv
<1> QED BY <1>1, Kinds, CalmPlaces, StoringPlaces, AdvancePlaces

-----------------------------------------------------------------------------
(* The bits.                                                               *)

\* An entry is freed when its bits are gone.
LEMMA EntryStep ==
    ASSUME IInv, [Next]_vars, NEW i \in Entries, ~entry'[i].active
    PROVE  ~entry[i].active \/ (WithBit(i) = {} /\ UNCHANGED slot)
<1>1. CASE UNCHANGED entry
  BY <1>1
<1>2. ASSUME NEW j \in Entries, entry' = [entry EXCEPT ![j].active = FALSE],
             WithBit(j) = {}, UNCHANGED slot
      PROVE  ~entry[i].active \/ (WithBit(i) = {} /\ UNCHANGED slot)
  <2>1. i # j => entry'[i] = entry[i]
    BY <1>2 DEF IInv, Types
  <2> QED BY <1>2, <2>1
<1>3. ASSUME NEW p \in Producers, Publish(p) PROVE UNCHANGED entry
  BY <1>3 DEF Publish, Claim, HandBack, StartReserve, StartLocked, Choose, Full, Mark, Stamp, Number, Address,
              Advance, Copy, Commit, Signal, WakeAll, Store, shared
<1>4. ASSUME NEW c \in Consumers, Receive(c) PROVE UNCHANGED entry
  BY <1>4 DEF Receive, Observe, LoadState, LoadMask, LoadSeq, Compare, Check, Take, Sleep, EndWait,
              StartRelease, Release, Reading, shared
<1>5. ASSUME NEW c \in Consumers, Membership(c)
      PROVE  ~entry[i].active \/ (WithBit(i) = {} /\ UNCHANGED slot)
  <2>1. CASE Enter(c)
    <3>1. PICK j \in Entries : ~entry[j].active /\ entry' = [entry EXCEPT ![j].pid = c]
      BY <2>1 DEF Enter
    <3>2. entry'[i].active = entry[i].active
      BY <3>1 DEF IInv, Types
    <3> QED BY <3>2
  <2>2. CASE Activate(c)
    <3> DEFINE j == handle[c].idx
    <3>1. entry' = [entry EXCEPT ![j].active = TRUE]
      BY <2>2 DEF Activate
    <3>2. i # j => entry'[i] = entry[i]
      BY <3>1 DEF IInv, Types
    <3>3. i = j => entry'[i].active = TRUE
      BY <3>1 DEF IInv, Types
    <3> QED BY <3>2, <3>3
  <2>3. CASE CloseEntry(c)
    <3>1. pc[c] = "close" /\ c \in alive
      BY <2>3 DEF CloseEntry, Goto
    <3>2. handle[c].idx \in Entries
      BY <3>1 DEF IInv, EntryInv
    <3> QED BY <1>2, <2>3, <3>2 DEF CloseEntry, MembershipOnly
  <2>4. CASE ~(Enter(c) \/ Activate(c) \/ CloseEntry(c))
    <3>1. UNCHANGED entry
      BY <1>5, <2>4 DEF Membership, StartRegister, StartLocked, RegistryFull, CountUp, StartClose,
                        CloseBit, CountDown, shared
    <3> QED BY <1>1, <3>1
  <2> QED BY <2>1, <2>2, <2>3, <2>4
<1>6. ASSUME NEW p \in Procs, ReapEntry(p)
      PROVE  ~entry[i].active \/ (WithBit(i) = {} /\ UNCHANGED slot)
  BY <1>1, <1>2, <1>6 DEF ReapEntry
<1>7. ASSUME NEW p \in Procs, ReapCount(p) \/ ReapSlot(p) \/ Kill(p) PROVE UNCHANGED entry
  BY <1>7 DEF ReapCount, ReapSlot, Kill, shared
<1>8. CASE UNCHANGED vars
  BY <1>1, <1>8 DEF vars
<1> QED BY <1>1, <1>3, <1>4, <1>5, <1>6, <1>7, <1>8 DEF Next

LEMMA BitStep ==
    ASSUME IInv, PlaceInv, BitInv, [Next]_vars
    PROVE  BitInv'
<1> USE DEF IInv
<1>1. ASSUME \A s \in Slots : /\ slot'[s].mask \subseteq slot[s].mask
                              /\ slot'[s].state = "FREE" => slot'[s].mask \subseteq {}
      PROVE  /\ \A i \in Entries : ~entry'[i].active => WithBit(i)' = {}
             /\ \A s \in Slots : slot'[s].state = "FREE" => slot'[s].mask = {}
  <2>1. ASSUME NEW i \in Entries, ~entry'[i].active PROVE WithBit(i)' = {}
    <3>1. WithBit(i) = {}
      BY <2>1, EntryStep DEF BitInv
    <3> QED BY <1>1, <3>1 DEF WithBit
  <2> QED BY <1>1, <2>1
<1>2. CASE Calm /\ (UNCHANGED slot \/ Dropped \/ Swept)
  <2>1. \A s \in Slots : /\ slot'[s].mask \subseteq slot[s].mask
                         /\ slot'[s].state = "FREE" => slot'[s].mask \subseteq {}
    BY <1>2, CalmSlots DEF BitInv
  <2>2. ASSUME NEW q \in Producers, q \in alive', pc'[q] \in {"stamp", "number", "address"}
        PROVE  slot'[pick'[q]].mask = {}
    <3>1. q \in alive /\ pc'[q] = pc[q] /\ pick'[q] = pick[q]
      BY <1>2, <2>2 DEF Calm, Working
    <3>2. pick[q] \in Slots /\ slot[pick[q]].mask = {}
      BY <2>2, <3>1 DEF BitInv, PickInv, Working, Types, Slots
    <3> QED BY <2>1, <3>1, <3>2
  <2> QED BY <1>1, <2>1, <2>2 DEF BitInv, WithBit
<1>3. ASSUME NEW p \in Producers, Storing(p) PROVE BitInv'
  <2> DEFINE s == pick[p]
  <2>1. /\ p \in alive /\ s \in Slots /\ \A t \in Slots \ {s} : slot'[t] = slot[t]
        /\ UNCHANGED <<entry, alive, pick>>
        /\ \A q \in Producers \cap alive : q # p => pc'[q] = "off"
    BY <1>3, StoringFrame, Outside
  <2>2. ASSUME ~Address(p) PROVE slot'[s].mask = slot[s].mask /\ slot'[s].state # "FREE"
    BY <1>3, <2>2, StoreValues DEF Storing, Becomes
  <2>3. ASSUME Address(p)
        PROVE  slot'[s].mask = {i \in Entries : entry[i].active} /\ slot'[s].state # "FREE"
    BY <2>3, StoreValues DEF Becomes
  <2>4. ASSUME NEW i \in Entries, ~entry'[i].active PROVE WithBit(i)' = {}
    <3>1. ~entry[i].active /\ WithBit(i) = {}
      BY <2>1, <2>4 DEF BitInv
    <3> QED BY <2>1, <2>2, <2>3, <3>1 DEF WithBit
  <2>5. \A t \in Slots : slot'[t].state = "FREE" => slot'[t].mask = {}
    BY <2>1, <2>2, <2>3 DEF BitInv
  <2>6. pc'[p] \in {"stamp", "number", "address"} => slot'[s].mask = {}
    <3>1. CASE Mark(p)
      <4>1. slot[s].mask = {}
        BY <2>1, <3>1, StoreValues DEF BitInv
      <4> QED BY <3>1, <4>1, StoreValues DEF Becomes
    <3>2. CASE Stamp(p) \/ Number(p)
      <4>1. pc[p] \in {"stamp", "number", "address"}
        BY <3>2, StoreValues
      <4>2. slot[s].mask = {}
        BY <2>1, <4>1 DEF BitInv
      <4> QED BY <3>2, <4>2, StoreValues DEF Becomes
    <3>3. CASE Address(p) \/ Copy(p) \/ Commit(p)
      BY <3>3, StoreValues
    <3> QED BY <1>3, <3>1, <3>2, <3>3 DEF Storing
  <2> QED BY <2>1, <2>4, <2>5, <2>6 DEF BitInv, WithBit
<1>4. ASSUME NEW p \in Producers, Advance(p) PROVE BitInv'
  <2>1. /\ UNCHANGED <<slot, entry, alive, pick>> /\ pc[p] = "advance" /\ pc' = [pc EXCEPT ![p] = "copy"]
    BY <1>4 DEF Advance, Goto, ProducerOnly
  <2>2. pc'[p] = "copy" /\ \A q \in Procs \ {p} : pc'[q] = pc[q]
    BY <2>1, Outside DEF Types
  <2> QED BY <2>1, <2>2, Outside DEF BitInv, WithBit
<1>5. ASSUME NEW p \in Procs, Kill(p) PROVE BitInv'
  BY <1>5, KillFrame, Outside DEF BitInv, WithBit
<1> QED BY <1>2, <1>3, <1>4, <1>5, Kinds

-----------------------------------------------------------------------------
(* What a member sees of the slots.                                        *)

Seen(c, s) == slot[s].state = "COMMITTED" /\ handle[c].idx \in slot[s].mask

\* It keeps seeing what it saw until it gives its bit back itself, and what it sees
\* anew is the publication that was coming.
LEMMA SeenStep ==
    ASSUME IInv, PlaceInv, [Next]_vars, NEW c \in Consumers, Member(c), ~Release(c), NEW s \in Slots
    PROVE  /\ Seen(c, s) => /\ slot'[s].state = "COMMITTED" /\ handle[c].idx \in slot'[s].mask
                            /\ slot'[s].seq = slot[s].seq
           /\ slot'[s].state = "COMMITTED" /\ handle[c].idx \in slot'[s].mask =>
                 \/ Seen(c, s)
                 \/ \E p \in Producers :
                       /\ Commit(p) /\ p \in alive /\ pick[p] = s /\ handle[c].idx \in slot[s].mask
                       /\ slot'[s].seq = slot[s].seq /\ Place(slot[s].seq) = Coming
<1> USE DEF IInv
<1> DEFINE idx == handle[c].idx
<1>1. CASE Calm /\ (UNCHANGED slot \/ Dropped \/ Swept)
  <2>1. CASE UNCHANGED slot
    BY <2>1 DEF Seen
  <2>2. CASE Dropped
    <3>1. PICK t \in Slots, i \in Entries : DropBit(t, i) /\ idx # i
      BY <2>2 DEF Dropped
    <3>2. /\ slot'[t].mask = slot[t].mask \ {i}
          /\ \A u \in Slots \ {t} : slot'[u] = slot[u]
          /\ \A u \in Slots : slot'[u].state = slot[u].state /\ slot'[u].seq = slot[u].seq
      BY <3>1, DropValue
    <3> QED BY <3>1, <3>2 DEF Seen
  <2>3. CASE Swept
    <3>1. PICK t \in Slots : slot[t].state = "WRITING"
                             /\ slot' = [slot EXCEPT ![t].mask = {}, ![t].state = "FREE"]
      BY <2>3 DEF Swept
    <3>2. slot'[t].state = "FREE" /\ \A u \in Slots \ {t} : slot'[u] = slot[u]
      BY <3>1, SweepValue
    <3> QED BY <3>1, <3>2 DEF Seen
  <2> QED BY <1>1, <2>1, <2>2, <2>3
<1>2. ASSUME NEW p \in Producers, Storing(p)
      PROVE  /\ Seen(c, s) => /\ slot'[s].state = "COMMITTED" /\ idx \in slot'[s].mask
                              /\ slot'[s].seq = slot[s].seq
             /\ slot'[s].state = "COMMITTED" /\ idx \in slot'[s].mask =>
                   \/ Seen(c, s)
                   \/ /\ Commit(p) /\ p \in alive /\ pick[p] = s /\ idx \in slot[s].mask
                      /\ slot'[s].seq = slot[s].seq /\ Place(slot[s].seq) = Coming
  <2>1. p \in alive /\ \A t \in Slots \ {pick[p]} : slot'[t] = slot[t]
    BY <1>2, StoringFrame
  <2>2. CASE s # pick[p]
    BY <2>1, <2>2 DEF Seen
  <2>3. CASE s = pick[p] /\ ~Commit(p)
    <3>1. slot'[s].state = "WRITING" /\ ~Seen(c, s)
      BY <1>2, <2>3, StoreValues DEF Storing, Becomes, Seen
    <3> QED BY <3>1
  <2>4. CASE s = pick[p] /\ Commit(p)
    <3>1. /\ pc[p] = "commit" /\ slot[s].state = "WRITING" /\ slot'[s].seq = slot[s].seq
          /\ slot'[s].mask = slot[s].mask
      BY <2>4, StoreValues DEF Becomes
    <3>2. Place(slot[s].seq) = Coming
      BY <2>1, <2>4, <3>1 DEF PlaceInv, Coming, Copying
    <3> QED BY <2>1, <2>4, <3>1, <3>2 DEF Seen
  <2> QED BY <2>2, <2>3, <2>4
<1>3. ASSUME NEW p \in Producers, Advance(p) PROVE UNCHANGED slot
  BY <1>3 DEF Advance
<1>4. ASSUME NEW p \in Procs, Kill(p) PROVE UNCHANGED slot
  BY <1>4, KillFrame
<1>5. UNCHANGED slot \/ (Calm /\ (UNCHANGED slot \/ Dropped \/ Swept)) \/ \E p \in Producers : Storing(p)
  BY <1>3, <1>4, Kinds
<1>6. CASE UNCHANGED slot
  BY <1>6 DEF Seen
<1> QED BY <1>1, <1>2, <1>5, <1>6

\* A sequence that has been assigned, or is being.
Numbered(q) == Place(q) \in 1 .. Coming /\ Place(q) <= MaxPublications

LEMMA NumberedStays ==
    ASSUME IInv, PlaceInv, [Next]_vars, NEW q \in Seqs, Numbered(q)
    PROVE  Place(q) \in 1 .. Coming' /\ Place(q) <= MaxPublications
<1>1. PlaceInv' /\ Coming' >= Coming /\ IInv'
  BY PlaceStep, Step
<1>2. Coming \in Int /\ Coming' \in Int
  <2>1. Types'
    BY <1>1 DEF IInv
  <2>2. Coming' \in Int
    <3>1. nextSeq' \in Seqs
      BY <2>1 DEF Types
    <3> QED BY <3>1, PlaceValue DEF Coming, Place
  <2> QED BY <2>2, NextPlace DEF IInv
<1> QED BY <1>1, <1>2, PlaceValue DEF Numbered

LEMMA SlotNumbered ==
    ASSUME IInv, PlaceInv, [Next]_vars, NEW s \in Slots, Numbered(slot[s].seq)
    PROVE  Numbered(slot[s].seq)'
<1> USE DEF IInv
<1>1. CASE slot'[s].seq = slot[s].seq
  BY <1>1, NumberedStays, SlotTypes DEF Numbered, Place
<1>2. ASSUME NEW p \in Producers, Storing(p)
      PROVE  slot'[s].seq = slot[s].seq \/ (Number(p) /\ s = pick[p])
  BY <1>2, StoringFrame, StoreValues DEF Storing, Becomes
<1>3. ASSUME NEW p \in Producers, Number(p), s = pick[p] PROVE Numbered(slot[s].seq)'
  <2>1. pc[p] = "number" /\ pc'[p] = "address" /\ slot'[s].seq = nextSeq
    BY <1>3, StoreValues DEF Becomes
  <2>2. /\ p \in alive /\ UNCHANGED <<nextSeq, alive>>
        /\ \A q \in Producers \cap alive : q # p => pc'[q] = "off"
    BY <1>3, StoringFrame, Outside DEF Storing
  <2>3. ~Copying'
    BY <2>1, <2>2 DEF Copying
  <2>4. Place(nextSeq) <= MaxPublications /\ Place(nextSeq) \in Int /\ Place(nextSeq) >= 1
    BY <2>1, <2>2, NextPlace DEF PlaceInv, LockedStages
  <2>5. Coming' = Place(nextSeq)
    BY <2>2, <2>3 DEF Coming, Place
  <2>6. Place(slot'[s].seq) \in 1 .. Coming' /\ Place(slot'[s].seq) <= MaxPublications
    BY <2>1, <2>4, <2>5
  <2> QED BY <2>6 DEF Numbered, Place
<1>4. CASE Calm /\ (UNCHANGED slot \/ Dropped \/ Swept)
  BY <1>1, <1>4, CalmSlots
<1>5. (\E p \in Producers : Advance(p)) \/ (\E p \in Procs : Kill(p)) => UNCHANGED slot
  BY KillFrame DEF Advance
<1> QED BY <1>1, <1>2, <1>3, <1>4, <1>5, Kinds

-----------------------------------------------------------------------------
(* Whose step it is, to a consumer.                                        *)

Mine(c) == Membership(c) \/ Receive(c) \/ ReapEntry(c) \/ ReapCount(c) \/ ReapSlot(c)

\* A step of others: nothing of the consumer's own changes, unless it is told or woken.
Aside(c) ==
    /\ handle'[c] = handle[c] /\ scan'[c] = scan[c] /\ at'[c] = at[c] /\ returning'[c] = returning[c]
    /\ pc'[c] = pc[c] \/ (pc[c] = "asleep" /\ pc'[c] = "open")
    /\ heard'[c] = heard[c] \/ \E p \in Producers : Signal(p)

LEMMA AsideMove ==
    ASSUME Types, NEW c \in Consumers, NEW p \in Procs \ {c}, NEW from, NEW to,
           Goto(p, from, to),
           at' = at \/ (\E n : at' = [at EXCEPT ![p] = n]),
           handle' = handle \/ (\E h : handle' = [handle EXCEPT ![p] = h]),
           scan' = scan \/ (\E h : scan' = [scan EXCEPT ![p] = h]),
           returning' = returning \/ (\E h : returning' = [returning EXCEPT ![p] = h]),
           heard' = heard \/ (\E h : heard' = [heard EXCEPT ![p] = h])
    PROVE  Aside(c)
<1>1. c \in Procs /\ p # c /\ pc' = [pc EXCEPT ![p] = to]
  BY Outside DEF Goto
<1>2. pc'[c] = pc[c] /\ at'[c] = at[c]
  BY <1>1 DEF Types
<1>3. handle'[c] = handle[c] /\ scan'[c] = scan[c]
  BY <1>1 DEF Types
<1>4. returning'[c] = returning[c] /\ heard'[c] = heard[c]
  BY <1>1 DEF Types
<1> QED BY <1>2, <1>3, <1>4 DEF Aside

LEMMA AsideOfProducer ==
    ASSUME IInv, NEW p \in Producers, Publish(p), NEW c \in Consumers
    PROVE  Aside(c)
<1> USE DEF IInv
<1>1. p \in Procs \ {c}
  BY Outside
<1>2. ASSUME NEW from, NEW to, Goto(p, from, to), UNCHANGED <<handle, scan, heard, returning>>,
             at' = at \/ (\E n : at' = [at EXCEPT ![p] = n])
      PROVE  Aside(c)
  BY <1>1, <1>2, AsideMove
<1>3. CASE Claim(p) \/ HandBack(p)
  BY <1>2, <1>3 DEF Claim, HandBack, ProducerOnly
<1>4. CASE StartReserve(p)
  BY <1>2, <1>4 DEF StartReserve, StartLocked
<1>5. CASE Choose(p)
  BY <1>2, <1>5 DEF Choose, ProducerOnly
<1>6. CASE Full(p)
  BY <1>2, <1>6 DEF Full, ProducerOnly
<1>7. ASSUME NEW from, NEW to, NEW new, Store(p, from, to, new) PROVE Aside(c)
  BY <1>2, <1>7 DEF Store, ProducerOnly
<1>8. CASE Storing(p)
  BY <1>7, <1>8 DEF Storing, Mark, Stamp, Number, Address, Copy, Commit
<1>9. CASE Advance(p)
  BY <1>2, <1>9 DEF Advance, ProducerOnly
<1>10. CASE Signal(p)
  <2>1. /\ pc' = [pc EXCEPT ![p] = "wake"] /\ UNCHANGED <<handle, scan, returning, at>>
    BY <1>10 DEF Signal, Goto
  <2>2. pc'[c] = pc[c]
    BY <1>1, <2>1, Outside DEF Types
  <2> QED BY <1>10, <2>1, <2>2 DEF Aside
<1>11. CASE WakeAll(p)
  <2>1. /\ pc' = [q \in Procs |-> IF q = p THEN "idle" ELSE IF pc[q] = "asleep" THEN "open" ELSE pc[q]]
        /\ UNCHANGED <<handle, scan, returning, heard, at>>
    BY <1>11 DEF WakeAll, ProducerOnly
  <2>2. c \in Procs
    BY Outside
  <2> QED BY <1>1, <2>1, <2>2 DEF Aside
<1> QED
  BY <1>3, <1>4, <1>5, <1>6, <1>8, <1>9, <1>10, <1>11 DEF Publish, Storing

LEMMA AsideOfConsumer ==
    ASSUME IInv, NEW d \in Consumers, Receive(d) \/ Membership(d), NEW c \in Consumers, c # d
    PROVE  Aside(c)
<1> USE DEF IInv
<1>1. d \in Procs \ {c}
  BY Outside
<1>2. ASSUME NEW from, NEW to, Goto(d, from, to),
             UNCHANGED returning \/ (\E h : returning' = [returning EXCEPT ![d] = h]),
             UNCHANGED at \/ (\E n : at' = [at EXCEPT ![d] = n]),
             UNCHANGED handle \/ (\E h : handle' = [handle EXCEPT ![d] = h]),
             UNCHANGED scan \/ (\E h : scan' = [scan EXCEPT ![d] = h]),
             UNCHANGED heard \/ (\E h : heard' = [heard EXCEPT ![d] = h])
      PROVE  Aside(c)
  BY <1>1, <1>2, AsideMove
<1>3. CASE Observe(d)
  BY <1>2, <1>3 DEF Observe, Reading
<1>4. CASE LoadState(d)
  BY <1>2, <1>4 DEF LoadState, Onward, Reading
<1>5. CASE LoadMask(d)
  BY <1>2, <1>5 DEF LoadMask, Onward, Reading
<1>6. CASE LoadSeq(d)
  <2>1. UNCHANGED scan \/ (\E h : scan' = [scan EXCEPT ![d] = h])
    BY <1>6 DEF LoadSeq
  <2> QED BY <1>2, <1>6, <2>1 DEF LoadSeq, Onward, Reading
<1>7. CASE Compare(d)
  <2>1. \E h : scan' = [scan EXCEPT ![d] = h]
    BY <1>7 DEF Compare
  <2>2. \E to : Goto(d, "compare", to) /\ UNCHANGED <<returning, at, handle, heard>>
    BY <1>7 DEF Compare, Reading
  <2> QED BY <1>2, <2>1, <2>2
<1>8. CASE Check(d)
  <2>1. UNCHANGED scan \/ (\E h : scan' = [scan EXCEPT ![d] = h])
    BY <1>8 DEF Check
  <2>2. \E to : Goto(d, "check", to) /\ UNCHANGED <<returning, at, handle, heard>>
    BY <1>8 DEF Check, Reading
  <2> QED BY <1>2, <2>1, <2>2
<1>9. CASE Take(d)
  <2>1. (\E h : scan' = [scan EXCEPT ![d] = h]) /\ (\E h : heard' = [heard EXCEPT ![d] = h])
    BY <1>9 DEF Take
  <2>2. UNCHANGED handle \/ (\E h : handle' = [handle EXCEPT ![d] = h])
    BY <1>9 DEF Take
  <2>3. \E to : Goto(d, "recheck", to) /\ UNCHANGED <<returning, at>>
    BY <1>9 DEF Take, Reading
  <2> QED BY <1>2, <2>1, <2>2, <2>3
<1>10. CASE Sleep(d)
  BY <1>2, <1>10 DEF Sleep, Reading
<1>11. CASE EndWait(d)
  BY <1>2, <1>11 DEF EndWait, Reading
<1>12. CASE StartRelease(d)
  BY <1>2, <1>12 DEF StartRelease, ConsumerOnly
<1>13. CASE Release(d)
  <2>1. (\E h : handle' = [handle EXCEPT ![d] = h]) /\ (\E h : returning' = [returning EXCEPT ![d] = h])
    BY <1>13 DEF Release
  <2> QED BY <1>2, <1>13, <2>1 DEF Release, ConsumerOnly
<1>14. CASE Receive(d)
  BY <1>14, <1>3, <1>4, <1>5, <1>6, <1>7, <1>8, <1>9, <1>10, <1>11, <1>12, <1>13 DEF Receive
<1>15. CASE StartRegister(d)
  BY <1>2, <1>15 DEF StartRegister, StartLocked
<1>16. CASE Enter(d)
  <2>1. \E h : handle' = [handle EXCEPT ![d] = h]
    BY <1>16 DEF Enter
  <2> QED BY <1>2, <1>16, <2>1 DEF Enter, ConsumerOnly
<1>17. CASE RegistryFull(d)
  BY <1>2, <1>17 DEF RegistryFull, ConsumerOnly
<1>18. CASE Activate(d) \/ CountUp(d) \/ StartClose(d) \/ CloseEntry(d)
  BY <1>2, <1>18 DEF Activate, CountUp, StartClose, CloseEntry, MembershipOnly
<1>19. CASE CloseBit(d)
  BY <1>2, <1>19 DEF CloseBit, ConsumerOnly
<1>20. CASE CountDown(d)
  BY <1>2, <1>20 DEF CountDown, ConsumerOnly
<1>21. CASE Membership(d)
  BY <1>21, <1>15, <1>16, <1>17, <1>18, <1>19, <1>20 DEF Membership
<1> QED BY <1>14, <1>21

LEMMA Bystander ==
    ASSUME IInv, [Next]_vars, NEW c \in Consumers
    PROVE  Aside(c) \/ Mine(c) \/ Kill(c)
<1> USE DEF IInv
<1>2. CASE UNCHANGED vars
  BY <1>2 DEF vars, Aside
<1>3. ASSUME NEW p \in Procs, Kill(p), p # c PROVE Aside(c)
  <2>1. c # p /\ c \in Procs
    BY <1>3, Outside
  <2> QED BY <1>3, <2>1, KillFrame DEF Aside
<1>4. ASSUME NEW p \in Procs, ReapEntry(p) \/ ReapCount(p) \/ ReapSlot(p), p # c PROVE Aside(c)
  <2>1. /\ \E from, to : Goto(p, from, to)
        /\ UNCHANGED <<handle, scan, heard, returning>>
        /\ UNCHANGED at \/ (\E n : at' = [at EXCEPT ![p] = n])
    <3>1. CASE ReapEntry(p)
      BY <3>1 DEF ReapEntry
    <3>2. CASE ReapCount(p)
      BY <3>2 DEF ReapCount
    <3>3. CASE ReapSlot(p)
      BY <3>3 DEF ReapSlot
    <3> QED BY <1>4, <3>1, <3>2, <3>3
  <2> QED BY <1>4, <2>1, AsideMove
<1> QED
  BY <1>2, <1>3, <1>4, AsideOfProducer, AsideOfConsumer DEF Next, Mine

\* Nobody comes back to life.
LEMMA Dying ==
    ASSUME IInv, PlaceInv, [Next]_vars
    PROVE  alive' \subseteq alive
  BY Kinds, StoringFrame, KillFrame DEF Calm, Advance, ProducerOnly

-----------------------------------------------------------------------------
(* Where a consumer is, and how far.                                       *)

Scanning == {"loadState", "loadMask", "loadSeq", "compare"}
ConsumerStages == OpenStages \cup {"none", "reap", "countDead", "enter", "activate", "countUp",
                                   "close", "countDown", "closed"}

\* Consumers do what consumers do, and the dead nothing.
StageInv ==
    \A c \in Consumers : pc[c] \in IF c \in alive THEN ConsumerStages ELSE Counting \cup {"stamp", "dead"}

\* What a member was given is behind it, and what is coming is not.
LastOf(c) ==
    /\ Place(handle[c].last) < Place(nextSeq)
    /\ \A l \in handle[c].leases : Place(l.seq) <= Place(handle[c].last)
    /\ \A p \in Producers \cap alive :
          pc[p] \in Making /\ handle[c].idx \in slot[pick[p]].mask =>
              Place(handle[c].last) < Place(slot[pick[p]].seq)
LastInv == \A c \in Consumers : Member(c) => LastOf(c)

\* Something read under a sequence that could be delivered, the slots that this pass
\* has been through, those older than a candidate, those that what was found covers.
Candidate(c, l) == Numbered(l.seq) /\ Place(l.seq) > Place(handle[c].last)
Passed(c, d) == pc[c] = "compare" \/ d < at[c]
Older(c, l) == {d \in Deliverable(c) : Place(slot[d].seq) < Place(l.seq)}
Reached(c, d) == scan[c].found # None /\ Place(scan[c].found.seq) <= Place(slot[d].seq)

\* What was found may have been recycled since, and what is committed meanwhile may have
\* been missed, but that is not older than anything found before.  So from the second
\* pass on nothing older is missed, and what is to be validated is the oldest.
ScanOf(c) ==
    /\ pc[c] \notin Scanning => scan[c].found = None /\ scan[c].again = 0
    /\ pc[c] = "compare" => at[c] = 1
    /\ pc[c] \in {"loadMask", "loadSeq"} => Numbered(slot[at[c]].seq)
    /\ scan[c].found # None => Candidate(c, scan[c].found)
    /\ scan[c].again > 0 => /\ Candidate(c, scan[c].oldest)
                            /\ \A d \in Older(c, scan[c].oldest) : Passed(c, d) => Reached(c, d)
    /\ pc[c] \in {"check", "recheck"} =>
          Candidate(c, scan[c].oldest) /\ Older(c, scan[c].oldest) = {}
ScanInv == \A c \in Consumers \cap alive : ScanOf(c)

LEMMA MineStage ==
    ASSUME IInv, NEW c \in Consumers, Mine(c)
    PROVE  /\ c \in alive /\ pc[c] \in ConsumerStages /\ pc'[c] \in ConsumerStages
           /\ UNCHANGED alive
           /\ Member(c)' /\ ~Member(c) => Enter(c)
<1> USE DEF IInv
<1>1. ASSUME NEW from \in ConsumerStages, NEW to \in ConsumerStages, Goto(c, from, to),
             UNCHANGED alive,
             to \in OpenStages \cup {"activate", "countUp"} =>
                from \in OpenStages \cup {"activate", "countUp"} \/ Enter(c)
      PROVE  /\ c \in alive /\ pc[c] \in ConsumerStages /\ pc'[c] \in ConsumerStages
             /\ UNCHANGED alive /\ (Member(c)' /\ ~Member(c) => Enter(c))
  <2>1. c \in alive /\ pc[c] = from /\ pc'[c] = to
    BY <1>1, Outside DEF Goto, Types
  <2> QED BY <1>1, <2>1 DEF Member
<1>2. ASSUME NEW from \in OpenStages, NEW to \in OpenStages, Goto(c, from, to), UNCHANGED alive
      PROVE  /\ c \in alive /\ pc[c] \in ConsumerStages /\ pc'[c] \in ConsumerStages
             /\ UNCHANGED alive /\ (Member(c)' /\ ~Member(c) => Enter(c))
  BY <1>1, <1>2 DEF ConsumerStages
<1>3. ASSUME NEW from \in OpenStages, Onward(c, from), UNCHANGED alive
      PROVE  /\ c \in alive /\ pc[c] \in ConsumerStages /\ pc'[c] \in ConsumerStages
             /\ UNCHANGED alive /\ (Member(c)' /\ ~Member(c) => Enter(c))
  BY <1>2, <1>3 DEF Onward, OpenStages
<1> DEFINE Locked == {"reap", "countDead", "enter", "close", "countDown"}
           Gone == {"none", "closed"}
<1>4. /\ Locked \cup Gone \cup OpenStages \cup {"activate", "countUp"} \subseteq ConsumerStages
      /\ (Locked \cup Gone) \cap (OpenStages \cup {"activate", "countUp"}) = {}
  BY DEF ConsumerStages, OpenStages
<1>5. "open" \in OpenStages
  BY DEF OpenStages
<1>6. ASSUME NEW from \in ConsumerStages, NEW to \in Locked \cup Gone, Goto(c, from, to), UNCHANGED alive
      PROVE  /\ c \in alive /\ pc[c] \in ConsumerStages /\ pc'[c] \in ConsumerStages
             /\ UNCHANGED alive /\ (Member(c)' /\ ~Member(c) => Enter(c))
  <2>1. to \in ConsumerStages /\ to \notin OpenStages \cup {"activate", "countUp"}
    BY <1>4
  <2> QED BY <1>1, <1>6, <2>1
<1>7. CASE Receive(c)
  <2>1. CASE Observe(c)
    BY <1>2, <2>1 DEF Observe, Reading, OpenStages
  <2>2. CASE LoadState(c)
    BY <1>2, <1>3, <2>2 DEF LoadState, Reading, OpenStages
  <2>3. CASE LoadMask(c)
    BY <1>2, <1>3, <2>3 DEF LoadMask, Reading, OpenStages
  <2>4. CASE LoadSeq(c)
    BY <1>3, <2>4 DEF LoadSeq, Reading, OpenStages
  <2>5. CASE Compare(c)
    <3>1. PICK to \in {"loadState", "check", "wait"} : Goto(c, "compare", to)
      BY <2>5 DEF Compare
    <3> QED BY <1>2, <2>5, <3>1 DEF Compare, Reading, OpenStages
  <2>6. CASE Check(c)
    <3>1. PICK to \in {"recheck", "wait"} : Goto(c, "check", to)
      BY <2>6 DEF Check
    <3> QED BY <1>2, <2>6, <3>1 DEF Check, Reading, OpenStages
  <2>7. CASE Take(c)
    <3>1. PICK to \in {"open", "wait"} : Goto(c, "recheck", to)
      BY <2>7 DEF Take
    <3> QED BY <1>2, <2>7, <3>1 DEF Take, Reading, OpenStages
  <2>8. CASE Sleep(c)
    BY <1>2, <2>8 DEF Sleep, Reading, OpenStages
  <2>9. CASE EndWait(c)
    BY <1>2, <2>9 DEF EndWait, Reading, OpenStages
  <2>10. CASE StartRelease(c)
    BY <1>2, <2>10 DEF StartRelease, ConsumerOnly, OpenStages
  <2>11. CASE Release(c)
    BY <1>2, <2>11 DEF Release, ConsumerOnly, OpenStages
  <2> QED
    BY <1>7, <2>1, <2>2, <2>3, <2>4, <2>5, <2>6, <2>7, <2>8, <2>9, <2>10, <2>11 DEF Receive
<1>8. CASE Membership(c)
  <2>1. CASE StartRegister(c)
    BY <1>4, <1>5, <1>6, <2>1 DEF StartRegister, StartLocked
  <2>2. CASE Enter(c)
    BY <1>1, <2>2 DEF Enter, ConsumerOnly, ConsumerStages
  <2>3. CASE RegistryFull(c)
    BY <1>4, <1>5, <1>6, <2>3 DEF RegistryFull, ConsumerOnly
  <2>4. CASE Activate(c)
    BY <1>1, <2>4 DEF Activate, MembershipOnly, ConsumerStages
  <2>5. CASE CountUp(c)
    BY <1>1, <1>4, <1>5, <2>5 DEF CountUp, MembershipOnly
  <2>6. CASE StartClose(c)
    BY <1>4, <1>5, <1>6, <2>6 DEF StartClose, MembershipOnly
  <2>7. CASE CloseBit(c)
    BY <1>4, <1>5, <1>6, <2>7 DEF CloseBit, ConsumerOnly
  <2>8. CASE CloseEntry(c)
    BY <1>4, <1>5, <1>6, <2>8 DEF CloseEntry, MembershipOnly
  <2>9. CASE CountDown(c)
    BY <1>4, <1>5, <1>6, <2>9 DEF CountDown, ConsumerOnly
  <2> QED
    BY <1>8, <2>1, <2>2, <2>3, <2>4, <2>5, <2>6, <2>7, <2>8, <2>9 DEF Membership
<1>9. CASE ReapEntry(c)
  BY <1>4, <1>6, <1>9 DEF ReapEntry
<1>10. CASE ReapCount(c)
  BY <1>4, <1>6, <1>10 DEF ReapCount
<1>11. CASE ReapSlot(c)
  <2>1. PICK to \in {"reap", "enter"} : Goto(c, "reap", to)
    BY <1>11, Outside DEF ReapSlot
  <2> QED BY <1>11, <1>4, <1>6, <2>1 DEF ReapSlot
<1> QED BY <1>7, <1>8, <1>9, <1>10, <1>11 DEF Mine

LEMMA StageStep ==
    ASSUME IInv, PlaceInv, StageInv, [Next]_vars
    PROVE  StageInv'
<1> SUFFICES ASSUME NEW c \in Consumers
             PROVE  pc'[c] \in IF c \in alive' THEN ConsumerStages ELSE Counting \cup {"stamp", "dead"}
  BY DEF StageInv
<1>1. CASE Aside(c)
  <2>1. c \notin alive => pc'[c] = pc[c]
    BY <1>1 DEF Aside, StageInv, Counting
  <2>2. CASE c \in alive /\ c \notin alive'
    <3>1. PICK p \in Procs : Kill(p)
      BY <2>2, Kinds, StoringFrame DEF Calm, Advance, ProducerOnly
    <3>2. c = p
      BY <2>2, <3>1, KillFrame
    <3> QED BY <2>2, <3>1, <3>2, KillFrame
  <2>3. CASE c \in alive'
    BY <1>1, <2>3, Dying DEF Aside, StageInv, ConsumerStages, OpenStages
  <2> QED BY <2>1, <2>2, <2>3, Dying DEF StageInv
<1>2. CASE Mine(c)
  BY <1>2, MineStage
<1>3. CASE Kill(c)
  BY <1>3, KillFrame, Outside
<1> QED BY <1>1, <1>2, <1>3, Bystander

LEMMA HandleTypes ==
    ASSUME Types, NEW c \in Consumers
    PROVE  /\ handle[c] \in HandleRecord /\ handle[c].last \in Seqs /\ handle[c].leases \subseteq Lease
           /\ Place(handle[c].last) \in Int /\ Place(handle[c].last) >= 0
           /\ scan[c] \in ScanRecord /\ scan[c].found \in Lease \cup {None}
           /\ scan[c].oldest \in Lease \cup {None} /\ scan[c].again \in 0 .. SlotCount
           /\ \A l \in Lease : l.slot \in Slots /\ l.seq \in Seqs /\ Place(l.seq) \in Int
<1>1. handle[c] \in HandleRecord /\ scan[c] \in ScanRecord
  BY DEF Types
<1>2. \A l \in Lease : l.slot \in Slots /\ l.seq \in Seqs
  BY DEF Lease
<1> QED BY <1>1, <1>2, PlaceValue DEF HandleRecord, ScanRecord

LEMMA NextGrows ==
    ASSUME IInv, PlaceInv, [Next]_vars
    PROVE  Place(nextSeq') >= Place(nextSeq) /\ Place(nextSeq') \in Int
<1>1. ASSUME NEW p \in Producers, Advance(p) PROVE Place(nextSeq') = Place(nextSeq) + 1
  <2>1. p \in alive /\ pc[p] = "advance" /\ nextSeq' = Succ(nextSeq)
    BY <1>1 DEF Advance, Goto
  <2> QED BY <2>1, NextPlace, PlaceSteps DEF PlaceInv, LockedStages, IInv
<1> QED BY <1>1, Kinds, StoringFrame, KillFrame, NextPlace DEF Calm, IInv

\* What is being made is the newest, and was addressed at one store.
LEMMA MakingNewest ==
    ASSUME IInv, PlaceInv, NEW p \in Producers, p \in alive, pc[p] \in Making
    PROVE  /\ pick[p] \in Slots /\ slot[pick[p]].state = "WRITING"
           /\ slot[pick[p]].seq \in Seqs /\ Place(slot[pick[p]].seq) \in Int
           /\ Place(slot[pick[p]].seq) = Coming
<1> USE DEF IInv
<1>1. pick[p] \in Slots /\ slot[pick[p]].state = "WRITING"
  BY DEF PickInv, Working, Making, Types, Slots
<1>2. CASE pc[p] = "advance"
  <2>1. ~Copying
    BY <1>2, OneProducer DEF Copying
  <2> QED BY <1>1, <1>2, <2>1, SlotTypes DEF PlaceInv, Coming
<1>3. CASE pc[p] \in {"copy", "commit"}
  <2>1. Copying
    BY <1>3 DEF Copying
  <2> QED BY <1>1, <1>3, <2>1, SlotTypes DEF PlaceInv, Coming
<1> QED BY <1>2, <1>3 DEF Making

LEMMA MakingStep ==
    ASSUME IInv, PlaceInv, [Next]_vars, NEW p \in Producers, p \in alive', pc'[p] \in Making
    PROVE  /\ p \in alive
           /\ \/ /\ pc[p] \in Making /\ pick'[p] = pick[p] /\ slot'[pick[p]].seq = slot[pick[p]].seq
                 /\ slot'[pick[p]].mask \subseteq slot[pick[p]].mask
              \/ Address(p) /\ slot'[pick'[p]].seq = nextSeq
<1> USE DEF IInv
<1>1. p \in alive
  BY Dying
<1>2. CASE Calm /\ (UNCHANGED slot \/ Dropped \/ Swept)
  <2>1. pc'[p] = pc[p] /\ pick'[p] = pick[p]
    BY <1>1, <1>2 DEF Calm, Making, Working
  <2>2. pick[p] \in Slots
    BY <1>1, <2>1, MakingNewest
  <2> QED BY <1>1, <1>2, <2>1, <2>2, CalmSlots
<1>3. ASSUME NEW q \in Producers, Storing(q)
      PROVE  \/ /\ pc[p] \in Making /\ pick'[p] = pick[p] /\ slot'[pick[p]].seq = slot[pick[p]].seq
                /\ slot'[pick[p]].mask \subseteq slot[pick[p]].mask
             \/ Address(p) /\ slot'[pick'[p]].seq = nextSeq
  <2>1. p = q
    <3>1. p # q => pc'[p] = "off"
      BY <1>1, <1>3, StoringFrame, Outside
    <3> QED BY <3>1 DEF Making
  <2>2. pick'[p] = pick[p]
    BY <1>3, <2>1, StoringFrame
  <2>3. CASE Address(p)
    <3>1. pc[p] = "address"
      BY <2>3, StoreValues
    <3> QED BY <1>1, <2>2, <2>3, <3>1, StoreValues DEF Becomes, PlaceInv
  <2>4. CASE Copy(p)
    BY <2>2, <2>4, StoreValues DEF Becomes, Making
  <2>5. CASE Mark(p) \/ Stamp(p) \/ Number(p) \/ Commit(p)
    BY <2>5, StoreValues DEF Making
  <2> QED BY <1>3, <2>1, <2>3, <2>4, <2>5 DEF Storing
<1>4. ASSUME NEW q \in Producers, Advance(q)
      PROVE  pc[p] \in Making /\ pick'[p] = pick[p] /\ UNCHANGED slot
  <2>1. /\ UNCHANGED <<slot, pick>> /\ q \in alive /\ pc[q] = "advance" /\ pc' = [pc EXCEPT ![q] = "copy"]
    BY <1>4 DEF Advance, Goto, ProducerOnly
  <2>2. p # q => pc'[p] = pc[p]
    BY <2>1, Outside DEF Types
  <2> QED BY <2>1, <2>2 DEF Making
<1>5. ASSUME NEW q \in Procs, Kill(q)
      PROVE  pc[p] \in Making /\ pick'[p] = pick[p] /\ UNCHANGED slot
  BY <1>5, KillFrame, Outside
<1> QED BY <1>1, <1>2, <1>3, <1>4, <1>5, Kinds

\* Unless it takes something, a member stays where it is.
LEMMA LastStays ==
    ASSUME IInv, PlaceInv, [Next]_vars, NEW c \in Consumers, LastOf(c),
           handle'[c].idx = handle[c].idx, handle'[c].last = handle[c].last,
           handle'[c].leases \subseteq handle[c].leases
    PROVE  LastOf(c)'
<1> USE DEF IInv
<1>1. Place(handle'[c].last) < Place(nextSeq')
  BY NextGrows, NextPlace, HandleTypes DEF LastOf
<1>2. \A l \in handle'[c].leases : Place(l.seq) <= Place(handle'[c].last)
  BY DEF LastOf
<1>3. ASSUME NEW p \in Producers, p \in alive', pc'[p] \in Making,
             handle'[c].idx \in slot'[pick'[p]].mask
      PROVE  Place(handle'[c].last) < Place(slot'[pick'[p]].seq)
  <2>1. CASE Address(p) /\ slot'[pick'[p]].seq = nextSeq
    BY <2>1 DEF LastOf
  <2>2. CASE ~(Address(p) /\ slot'[pick'[p]].seq = nextSeq)
    <3>1. /\ p \in alive /\ pc[p] \in Making /\ pick'[p] = pick[p]
          /\ slot'[pick[p]].seq = slot[pick[p]].seq
          /\ slot'[pick[p]].mask \subseteq slot[pick[p]].mask
      BY <1>3, <2>2, MakingStep
    <3> QED BY <1>3, <3>1 DEF LastOf
  <2> QED BY <2>1, <2>2
<1> QED BY <1>1, <1>2, <1>3 DEF LastOf, Place

LEMMA EnterLast ==
    ASSUME IInv, PlaceInv, BitInv, BitInv', NEW c \in Consumers, Enter(c)
    PROVE  LastOf(c)'
<1> USE DEF IInv
<1>1. PICK i \in Entries :
         /\ Goto(c, "enter", "activate") /\ ~entry[i].active
         /\ handle' = [handle EXCEPT ![c].idx = i, ![c].last = (nextSeq - 1) % SeqMod]
         /\ UNCHANGED <<alive, slot, nextSeq, pick>>
  BY DEF Enter, ConsumerOnly
<1>2. handle[c].leases = {}
  BY <1>1 DEF Goto, EntryInv, OpenStages
<1>3. handle'[c].idx = i /\ handle'[c].last = (nextSeq - 1) % SeqMod /\ handle'[c].leases = {}
  BY <1>1, <1>2, HandleTypes DEF Types, HandleRecord
<1>4. Place(handle'[c].last) < Place(nextSeq')
  <2>1. nextSeq \in Seqs /\ Place(nextSeq) >= 1 /\ Place(nextSeq) \in Int
    BY NextPlace
  <2>2. Place((nextSeq - 1) % SeqMod) = Place(nextSeq) - 1
    BY <2>1, PlaceSteps
  <2> QED BY <1>1, <1>3, <2>1, <2>2
<1>5. WithBit(i) = {}
  BY <1>1 DEF BitInv
<1>6. ASSUME NEW p \in Producers, p \in alive', pc'[p] \in Making
      PROVE  i \notin slot'[pick'[p]].mask
  <2>1. p \in alive /\ pc[p] \in Making
    BY <1>1, <1>6, Outside DEF Goto, Types
  <2>2. pick[p] \in Slots
    BY <2>1, MakingNewest
  <2> QED BY <1>1, <1>5, <2>2 DEF WithBit
<1> QED BY <1>3, <1>4, <1>6 DEF LastOf, Place

-----------------------------------------------------------------------------
(* The scan.                                                               *)

LEMMA DeliverablePlaces ==
    ASSUME IInv, PlaceInv, NEW c \in Consumers, LastOf(c), NEW s \in Slots
    PROVE  s \in Deliverable(c) <=> Seen(c, s) /\ Place(slot[s].seq) > Place(handle[c].last)
<1> USE DEF IInv
<1>1. handle[c].last \in Seqs /\ Place(handle[c].last) \in Int
      /\ Place(handle[c].last) <= MaxPublications
  BY HandleTypes, NextPlace DEF LastOf
<1>2. Seen(c, s) => Place(slot[s].seq) <= MaxPublications
  BY NextPlace, SlotTypes DEF Seen, PlaceInv
<1>3. Seen(c, s) => (SeqNewer(slot[s].seq, handle[c].last) <=> Place(slot[s].seq) > Place(handle[c].last))
  BY <1>1, <1>2, SlotTypes, NewerByPlace
<1> QED BY <1>3 DEF Deliverable, Seen

\* What a member can be delivered it keeps, and what it gets is what was coming.
LEMMA DeliverableStep ==
    ASSUME IInv, PlaceInv, [Next]_vars, NEW c \in Consumers, Member(c), ~Release(c), NEW s \in Slots,
           handle'[c].idx = handle[c].idx, handle'[c].last = handle[c].last
    PROVE  /\ s \in Deliverable(c) => s \in Deliverable(c)' /\ slot'[s].seq = slot[s].seq
           /\ s \in Deliverable(c)' =>
                 \/ s \in Deliverable(c) /\ slot'[s].seq = slot[s].seq
                 \/ /\ Place(slot'[s].seq) = Coming
                    /\ \E p \in Producers : Commit(p) /\ p \in alive /\ pick[p] = s
                                            /\ handle[c].idx \in slot[s].mask
  BY SeenStep DEF Seen, Deliverable

LEMMA AsideScan ==
    ASSUME IInv, PlaceInv, [Next]_vars, NEW c \in Consumers, c \in alive, Aside(c), ScanOf(c),
           Member(c) => LastOf(c)
    PROVE  ScanOf(c)'
<1> USE DEF IInv
<1>1. /\ handle'[c] = handle[c] /\ scan'[c] = scan[c] /\ at'[c] = at[c]
      /\ pc'[c] = pc[c] \/ (pc[c] = "asleep" /\ pc'[c] = "open")
  BY DEF Aside
<1>2. CASE pc[c] \notin Scanning \cup {"check", "recheck"}
  <2>1. scan'[c].found = None /\ scan'[c].again = 0 /\ pc'[c] \notin Scanning \cup {"check", "recheck"}
    BY <1>1, <1>2 DEF ScanOf, Scanning
  <2> QED BY <2>1 DEF ScanOf, Scanning
<1>3. CASE pc[c] \in Scanning \cup {"check", "recheck"}
  <2>1. Member(c) /\ LastOf(c) /\ pc'[c] = pc[c] /\ ~Release(c)
    BY <1>1, <1>3 DEF Member, OpenStages, Scanning, Release, Goto
  <2>4. pc'[c] \in {"loadMask", "loadSeq"} => Numbered(slot[at[c]].seq)'
    <3> SUFFICES ASSUME pc'[c] \in {"loadMask", "loadSeq"} PROVE Numbered(slot[at[c]].seq)'
      OBVIOUS
    <3>1. at[c] \in Slots /\ at'[c] = at[c]
      BY <1>1, <2>1, Outside DEF Loops
    <3>2. Numbered(slot[at[c]].seq)
      BY <2>1 DEF ScanOf
    <3>3. Place(slot'[at[c]].seq) \in 1 .. Coming' /\ Place(slot'[at[c]].seq) <= MaxPublications
      BY <3>1, <3>2, SlotNumbered DEF Numbered, Place
    <3> QED BY <3>1, <3>3 DEF Numbered, Place
  <2>5. scan'[c].found # None => Candidate(c, scan[c].found)'
    <3> SUFFICES ASSUME scan'[c].found # None PROVE Candidate(c, scan[c].found)'
      OBVIOUS
    <3>1. scan[c].found \in Lease /\ Candidate(c, scan[c].found)
      BY <1>1, HandleTypes DEF ScanOf
    <3>2. Place(scan[c].found.seq) \in 1 .. Coming' /\ Place(scan[c].found.seq) <= MaxPublications
          /\ Place(scan[c].found.seq) > Place(handle[c].last)
      BY <3>1, HandleTypes, NumberedStays DEF Candidate
    <3> QED BY <1>1, <3>2 DEF Candidate, Numbered, Place
  <2>6. ASSUME scan[c].oldest \in Lease, Candidate(c, scan[c].oldest)
        PROVE  /\ Candidate(c, scan[c].oldest)'
               /\ \A d \in Older(c, scan[c].oldest)' :
                     d \in Older(c, scan[c].oldest) /\ slot'[d].seq = slot[d].seq
    <3>1. /\ Place(scan[c].oldest.seq) \in 1 .. Coming'
          /\ Place(scan[c].oldest.seq) <= MaxPublications
          /\ Place(scan[c].oldest.seq) > Place(handle[c].last)
      BY <2>6, HandleTypes, NumberedStays DEF Candidate
    <3>2. Candidate(c, scan[c].oldest)'
      BY <1>1, <3>1 DEF Candidate, Numbered, Place
    <3>3. ASSUME NEW d \in Older(c, scan[c].oldest)'
          PROVE  d \in Older(c, scan[c].oldest) /\ slot'[d].seq = slot[d].seq
      <4> DEFINE l == scan[c].oldest
      <4>1. scan'[c].oldest = l
        BY <1>1
      <4>2. d \in Deliverable(c)' /\ Place(slot'[d].seq) < Place(l.seq)
        BY <3>3, <4>1 DEF Older, Place
      <4>3. d \in Slots /\ Place(slot'[d].seq) # Coming
        BY <2>6, <4>1, <4>2, NextPlace, HandleTypes DEF Candidate, Numbered, Deliverable
      <4>4. d \in Deliverable(c) /\ slot'[d].seq = slot[d].seq
        BY <1>1, <2>1, <4>2, <4>3, DeliverableStep
      <4> QED BY <4>1, <4>2, <4>4 DEF Older
    <3> QED BY <3>2, <3>3
  <2>7. scan'[c].again > 0 =>
           /\ Candidate(c, scan[c].oldest)'
           /\ \A d \in Older(c, scan[c].oldest)' : Passed(c, d)' => Reached(c, d)'
    <3> SUFFICES ASSUME scan[c].again > 0
                 PROVE  /\ Candidate(c, scan[c].oldest)'
                        /\ \A d \in Older(c, scan[c].oldest)' : Passed(c, d)' => Reached(c, d)'
      BY <1>1
    <3>1. scan[c].oldest \in Lease /\ Candidate(c, scan[c].oldest)
          /\ \A d \in Older(c, scan[c].oldest) : Passed(c, d) => Reached(c, d)
      BY DEF ScanOf, Loops
    <3> QED BY <1>1, <2>1, <2>6, <3>1 DEF Passed, Reached, Place
  <2>8. pc'[c] \in {"check", "recheck"} =>
           Candidate(c, scan[c].oldest)' /\ Older(c, scan[c].oldest)' = {}
    <3> SUFFICES ASSUME pc[c] \in {"check", "recheck"}
                 PROVE  Candidate(c, scan[c].oldest)' /\ Older(c, scan[c].oldest)' = {}
      BY <2>1
    <3>1. scan[c].oldest \in Lease /\ Candidate(c, scan[c].oldest) /\ Older(c, scan[c].oldest) = {}
      BY DEF ScanOf, Loops
    <3> QED BY <2>6, <3>1
  <2>9. /\ pc'[c] \notin Scanning => scan'[c].found = None /\ scan'[c].again = 0
        /\ pc'[c] = "compare" => at'[c] = 1
    BY <1>1, <2>1 DEF ScanOf
  <2> QED BY <2>4, <2>5, <2>7, <2>8, <2>9 DEF ScanOf
<1> QED BY <1>2, <1>3

\* What a step of a member's own does to its handle.
LEMMA MineHandle ==
    ASSUME IInv, NEW c \in Consumers, Mine(c), Member(c)
    PROVE  handle'[c] = handle[c] \/ Take(c) \/ Release(c)
<1>1. CASE Receive(c)
  BY <1>1 DEF Receive, Observe, LoadState, LoadMask, LoadSeq, Compare, Check, Sleep, EndWait,
              StartRelease
<1>2. CASE Membership(c)
  <2>1. ~Enter(c) /\ ~CountDown(c)
    BY DEF Member, OpenStages, Enter, CountDown, Goto
  <2> QED
    BY <1>2, <2>1 DEF Membership, StartRegister, StartLocked, RegistryFull, Activate, CountUp,
                      StartClose, CloseBit, CloseEntry, MembershipOnly
<1>3. CASE ReapEntry(c) \/ ReapCount(c) \/ ReapSlot(c)
  BY <1>3 DEF ReapEntry, ReapCount, ReapSlot
<1> QED BY <1>1, <1>2, <1>3 DEF Mine

Valid(c) == StillThere(scan[c].oldest) /\ handle[c].idx \in slot[scan[c].oldest.slot].mask

LEMMA TakeValues ==
    ASSUME IInv, NEW c \in Consumers, Take(c)
    PROVE  /\ c \in alive /\ pc[c] = "recheck" /\ scan[c].oldest \in Lease /\ scan'[c] = NoScan
           /\ UNCHANGED <<shared, lock, alive, pick, returning, at>>
           /\ pc' = [pc EXCEPT ![c] = IF Valid(c) THEN "open" ELSE "wait"]
           /\ pc'[c] = (IF Valid(c) THEN "open" ELSE "wait")
           /\ heard'[c] = (heard[c] /\ ~Valid(c))
           /\ \A d \in Consumers \ {c} : handle'[d] = handle[d]
           /\ ~Valid(c) => UNCHANGED handle
           /\ Valid(c) => /\ handle'[c].idx = handle[c].idx /\ handle'[c].last = scan[c].oldest.seq
                          /\ handle'[c].leases = handle[c].leases \cup {scan[c].oldest}
<1>1. /\ Goto(c, "recheck", IF Valid(c) THEN "open" ELSE "wait")
      /\ handle' = IF Valid(c) THEN [handle EXCEPT ![c].last = scan[c].oldest.seq,
                                                   ![c].leases = @ \cup {scan[c].oldest}]
                   ELSE handle
      /\ scan' = [scan EXCEPT ![c] = NoScan]
      /\ heard' = [heard EXCEPT ![c] = @ /\ ~Valid(c)]
      /\ UNCHANGED <<shared, lock, alive, pick, returning, at>>
  BY DEF Take, Valid, Reading
<1>2. /\ c \in alive /\ pc[c] = "recheck" /\ pc' = [pc EXCEPT ![c] = IF Valid(c) THEN "open" ELSE "wait"]
      /\ pc'[c] = (IF Valid(c) THEN "open" ELSE "wait")
  BY <1>1, Outside DEF Goto, IInv, Types
<1>3. scan[c].oldest \in Lease /\ scan'[c] = NoScan
  BY <1>1, <1>2 DEF IInv, Loops, Types
<1>4. heard'[c] = (heard[c] /\ ~Valid(c))
  BY <1>1, Zenon DEF IInv, Types
<1>5. ASSUME Valid(c)
      PROVE  /\ handle'[c].idx = handle[c].idx /\ handle'[c].last = scan[c].oldest.seq
             /\ handle'[c].leases = handle[c].leases \cup {scan[c].oldest}
  <2>1. handle[c] \in HandleRecord
    BY HandleTypes DEF IInv
  <2> QED BY <1>1, <1>5, <2>1 DEF HandleRecord, IInv, Types
<1>6. \A d \in Consumers \ {c} : handle'[d] = handle[d]
  BY <1>1 DEF IInv, Types
<1> QED BY <1>1, <1>2, <1>3, <1>4, <1>5, <1>6

LEMMA TakeLast ==
    ASSUME IInv, PlaceInv, NEW c \in Consumers, LastOf(c), ScanOf(c), Take(c), Valid(c)
    PROVE  LastOf(c)'
<1> USE DEF IInv
<1> DEFINE l == scan[c].oldest
<1>1. /\ l \in Lease /\ handle'[c].idx = handle[c].idx /\ handle'[c].last = l.seq
      /\ handle'[c].leases = handle[c].leases \cup {l}
      /\ UNCHANGED <<slot, nextSeq, alive, pick>> /\ pc[c] = "recheck"
      /\ \A q \in Producers : pc'[q] = pc[q]
  BY TakeValues, Outside DEF shared, Types
<1>2. Candidate(c, l)
  BY <1>1 DEF ScanOf
<1> HIDE DEF l
<1>3. l.slot \in Slots /\ l.seq \in Seqs /\ Place(l.seq) \in Int /\ slot[l.slot].state = "COMMITTED"
      /\ slot[l.slot].seq = l.seq
  BY <1>1, HandleTypes DEF Valid, StillThere, l
<1>4. Place(l.seq) < Coming /\ Place(l.seq) > Place(handle[c].last)
  BY <1>2, <1>3, NextPlace DEF PlaceInv, Candidate
<1>5. Place(handle'[c].last) < Place(nextSeq')
  BY <1>1, <1>3, <1>4, NextPlace
<1>6. \A k \in handle'[c].leases : Place(k.seq) <= Place(handle'[c].last)
  <2> SUFFICES ASSUME NEW k \in handle[c].leases PROVE Place(k.seq) <= Place(l.seq)
    BY <1>1, <1>3
  <2>1. Place(k.seq) <= Place(handle[c].last) /\ Place(k.seq) \in Int
    BY HandleTypes DEF LastOf
  <2> QED BY <1>3, <1>4, <2>1, HandleTypes
<1>7. \A p \in Producers \cap alive : pc[p] \in Making => Place(slot[pick[p]].seq) = Coming
  BY MakingNewest
<1>8. \A p \in Producers \cap alive' : pc'[p] \in Making => Place(handle'[c].last) < Place(slot'[pick'[p]].seq)
  BY <1>1, <1>4, <1>7
<1> QED BY <1>5, <1>6, <1>8 DEF LastOf, Place

LEMMA ReleaseValues ==
    ASSUME IInv, NEW c \in Consumers, Release(c)
    PROVE  /\ c \in alive /\ pc[c] = "release" /\ pc'[c] = "open" /\ returning[c] \in handle[c].leases
           /\ returning[c].slot \in Slots /\ DropBit(returning[c].slot, handle[c].idx)
           /\ handle'[c].idx = handle[c].idx /\ handle'[c].last = handle[c].last
           /\ handle'[c].leases = handle[c].leases \ {returning[c]}
           /\ \A d \in Consumers \ {c} : handle'[d] = handle[d]
           /\ pc' = [pc EXCEPT ![c] = "open"]
           /\ UNCHANGED <<alive, pick, entry, registered, nextSeq, role, lock, at, scan, heard>>
<1>1. /\ Goto(c, "release", "open") /\ DropBit(returning[c].slot, handle[c].idx)
      /\ handle' = [handle EXCEPT ![c].leases = @ \ {returning[c]}]
      /\ UNCHANGED <<alive, pick, entry, registered, nextSeq, role, lock, at, scan, heard>>
  BY DEF Release, ConsumerOnly
<1>2. c \in alive /\ pc[c] = "release" /\ pc'[c] = "open" /\ pc' = [pc EXCEPT ![c] = "open"]
  BY <1>1, Outside DEF Goto, IInv, Types
<1>3. returning[c] \in handle[c].leases
  BY <1>2 DEF IInv, EntryInv
<1>4. returning[c].slot \in Slots
  BY <1>3, LeaseSlots DEF IInv
<1>5. handle[c] \in HandleRecord
  BY HandleTypes DEF IInv
<1>6. /\ handle'[c].idx = handle[c].idx /\ handle'[c].last = handle[c].last
      /\ handle'[c].leases = handle[c].leases \ {returning[c]}
  BY <1>1, <1>5 DEF HandleRecord, IInv, Types
<1>7. \A d \in Consumers \ {c} : handle'[d] = handle[d]
  BY <1>1 DEF IInv, Types
<1> QED BY <1>1, <1>2, <1>3, <1>4, <1>6, <1>7

LEMMA LastStep ==
    ASSUME IInv, PlaceInv, BitInv, LastInv, ScanInv, [Next]_vars
    PROVE  LastInv'
<1> SUFFICES ASSUME NEW c \in Consumers, Member(c)' PROVE LastOf(c)'
  BY DEF LastInv
<1>1. c \in alive
  BY Dying DEF Member
<1>2. CASE Aside(c)
  <2>1. Member(c)
    BY <1>1, <1>2 DEF Aside, Member, OpenStages
  <2> QED BY <1>2, <2>1, LastStays DEF Aside, LastInv
<1>3. CASE Mine(c) /\ Enter(c)
  BY <1>3, BitStep, EnterLast
<1>4. CASE Mine(c) /\ Member(c)
  <2>1. LastOf(c) /\ ScanOf(c)
    BY <1>1, <1>4 DEF LastInv, ScanInv
  <2>2. CASE handle'[c] = handle[c]
    BY <2>1, <2>2, LastStays
  <2>3. CASE Release(c)
    BY <2>1, <2>3, ReleaseValues, LastStays
  <2>4. CASE Take(c) /\ Valid(c)
    BY <2>1, <2>4, TakeLast
  <2>5. CASE Take(c) /\ ~Valid(c)
    BY <2>1, <2>2, <2>5, TakeValues
  <2> QED BY <1>4, <2>2, <2>3, <2>4, <2>5, MineHandle
<1>5. CASE Kill(c)
  BY <1>5, KillFrame, Outside DEF Member
<1> QED BY <1>2, <1>3, <1>4, <1>5, MineStage, Bystander

\* A load changes nothing that others see.
LEMMA Loading ==
    ASSUME IInv, NEW c \in Consumers, NEW from, NEW to, Goto(c, from, to), Reading,
           handle'[c] = handle[c]
    PROVE  /\ c \in alive /\ pc[c] = from /\ pc'[c] = to /\ UNCHANGED <<slot, nextSeq, alive>>
           /\ Coming' = Coming /\ Deliverable(c)' = Deliverable(c)
           /\ \A q \in Procs \ {c} : pc'[q] = pc[q]
<1>1. /\ c \in alive /\ pc[c] = from /\ pc' = [pc EXCEPT ![c] = to]
      /\ UNCHANGED <<slot, nextSeq, alive>>
  BY DEF Goto, Reading, shared
<1>2. pc'[c] = to /\ \A q \in Procs \ {c} : pc'[q] = pc[q]
  BY <1>1, Outside DEF IInv, Types
<1>3. Copying' <=> Copying
  BY <1>1, <1>2, Outside DEF Copying
<1>4. Coming' = Coming
  BY <1>1, <1>3 DEF Coming, Place
<1> QED BY <1>1, <1>2, <1>4 DEF Deliverable

\* On to the next slot, when what can be delivered from this one is covered.
LEMMA OnwardScan ==
    ASSUME IInv, PlaceInv, NEW c \in Consumers, ScanOf(c),
           NEW from \in {"loadState", "loadMask", "loadSeq"}, Onward(c, from), Reading,
           handle'[c] = handle[c],
           scan'[c].oldest = scan[c].oldest, scan'[c].again = scan[c].again,
           scan'[c].found # None => Candidate(c, scan'[c].found),
           \A d \in Deliverable(c) : Reached(c, d) \/ d = at[c] => Reached(c, d)'
    PROVE  ScanOf(c)'
<1> USE DEF IInv
<1> DEFINE to == IF at[c] < SlotCount THEN "loadState" ELSE "compare"
<1>1. /\ c \in alive /\ pc[c] = from /\ pc'[c] = to /\ UNCHANGED <<slot, nextSeq>>
      /\ Coming' = Coming /\ Deliverable(c)' = Deliverable(c)
      /\ at' = [at EXCEPT ![c] = IF @ < SlotCount THEN @ + 1 ELSE 1]
  BY Loading DEF Onward
<1>2. at[c] \in Nat /\ at[c] \in Slots /\ at'[c] = IF at[c] < SlotCount THEN at[c] + 1 ELSE 1
  BY <1>1, Outside DEF Types, Loops
<1>3. SlotCount \in Nat
  BY StepsAssumption
<1>4. \A d \in Slots : Passed(c, d)' => Passed(c, d) \/ d = at[c]
  BY <1>1, <1>2, <1>3 DEF Passed, Slots
<1>5. scan'[c].found # None => Candidate(c, scan[c].found)'
  BY <1>1 DEF Candidate, Numbered, Place
<1>6. ASSUME scan[c].again > 0
      PROVE  /\ Candidate(c, scan[c].oldest)'
             /\ \A d \in Older(c, scan[c].oldest)' : Passed(c, d)' => Reached(c, d)'
  <2>1. Candidate(c, scan[c].oldest)'
    BY <1>1, <1>6 DEF ScanOf, Candidate, Numbered, Place
  <2>2. ASSUME NEW d \in Older(c, scan[c].oldest)', Passed(c, d)' PROVE Reached(c, d)'
    <3>1. d \in Deliverable(c) /\ d \in Slots /\ d \in Older(c, scan[c].oldest)
      BY <1>1, <2>2 DEF Older, Deliverable, Place
    <3>2. Reached(c, d) \/ d = at[c]
      BY <1>4, <1>6, <2>2, <3>1 DEF ScanOf
    <3> QED BY <3>1, <3>2
  <2> QED BY <2>1, <2>2
<1>7. to \in {"loadState", "compare"} /\ (to = "compare" => at'[c] = 1)
  BY <1>2
<1> HIDE DEF to
<1> QED BY <1>1, <1>5, <1>6, <1>7 DEF ScanOf, Scanning

LEMMA LoadScan ==
    ASSUME IInv, PlaceInv, NEW c \in Consumers, ScanOf(c), LoadState(c) \/ LoadMask(c)
    PROVE  ScanOf(c)'
<1> USE DEF IInv
<1>1. Reading /\ UNCHANGED <<handle, scan, heard>>
  BY DEF LoadState, LoadMask
<1>2. CASE \/ Onward(c, "loadState") /\ slot[at[c]].state # "COMMITTED"
           \/ Onward(c, "loadMask") /\ handle[c].idx \notin slot[at[c]].mask
  <2>1. at[c] \notin Deliverable(c)
    BY <1>2 DEF Deliverable
  <2>2. \A d \in Deliverable(c) : Reached(c, d) \/ d = at[c] => Reached(c, d)'
    BY <1>1, <2>1, Loading, <1>2 DEF Reached, Onward, Reading, shared, Place
  <2>3. scan'[c].found # None => Candidate(c, scan'[c].found)
    BY <1>1 DEF ScanOf
  <2> QED BY <1>1, <1>2, <2>2, <2>3, OnwardScan
<1>3. CASE \/ Goto(c, "loadState", "loadMask") /\ slot[at[c]].state = "COMMITTED" /\ UNCHANGED at
           \/ Goto(c, "loadMask", "loadSeq") /\ UNCHANGED at
  <2>1. /\ c \in alive /\ pc[c] \in {"loadState", "loadMask"} /\ pc'[c] \in {"loadMask", "loadSeq"}
        /\ UNCHANGED <<slot, nextSeq, at>> /\ Coming' = Coming /\ Deliverable(c)' = Deliverable(c)
        /\ pc[c] = "loadState" => slot[at[c]].state = "COMMITTED"
    BY <1>1, <1>3, Loading
  <2>2. at[c] \in Slots
    BY <2>1, Outside DEF Loops
  <2>3. Numbered(slot[at[c]].seq)
    <3>1. CASE pc[c] = "loadState"
      BY <2>1, <2>2, <3>1, NextPlace, SlotTypes DEF PlaceInv, Numbered
    <3>2. CASE pc[c] = "loadMask"
      BY <3>2 DEF ScanOf
    <3> QED BY <2>1, <3>1, <3>2
  <2>4. Numbered(slot[at[c]].seq)'
    BY <2>1, <2>3 DEF Numbered, Place
  <2>5. scan'[c].found # None => Candidate(c, scan[c].found)'
    BY <1>1, <2>1 DEF ScanOf, Candidate, Numbered, Place
  <2>6. ASSUME scan[c].again > 0
        PROVE  /\ Candidate(c, scan[c].oldest)'
               /\ \A d \in Older(c, scan[c].oldest)' : Passed(c, d)' => Reached(c, d)'
    BY <1>1, <2>1, <2>6 DEF ScanOf, Candidate, Numbered, Older, Passed, Reached, Place
  <2> QED BY <1>1, <2>1, <2>4, <2>5, <2>6 DEF ScanOf, Scanning
<1> QED BY <1>2, <1>3 DEF LoadState, LoadMask

LEMMA LoadSeqScan ==
    ASSUME IInv, PlaceInv, NEW c \in Consumers, LastOf(c), ScanOf(c), LoadSeq(c)
    PROVE  ScanOf(c)'
<1> USE DEF IInv
<1> DEFINE s == at[c]
           seq == slot[at[c]].seq
           found == scan[c].found
           new == [slot |-> s, seq |-> seq]
           better == SeqNewer(seq, handle[c].last) /\ (found = None \/ SeqNewer(found.seq, seq))
<1>1. /\ Onward(c, "loadSeq") /\ Reading /\ UNCHANGED <<handle, heard>>
      /\ scan' = IF better THEN [scan EXCEPT ![c].found = new] ELSE scan
  BY DEF LoadSeq
<1>2. pc[c] = "loadSeq" /\ s \in Slots /\ UNCHANGED slot /\ c \in alive
  BY <1>1, Loading, Outside DEF Onward, Loops
<1>3. Numbered(seq) /\ seq \in Seqs /\ Place(seq) \in Int
  BY <1>2, SlotTypes DEF ScanOf
<1>4. scan[c] \in ScanRecord
  BY HandleTypes
<1>5. /\ scan'[c].oldest = scan[c].oldest /\ scan'[c].again = scan[c].again
      /\ scan'[c].found = IF better THEN new ELSE found
  BY <1>1, <1>4 DEF Types, ScanRecord
<1>6. new.seq = seq /\ new # None
  BY <1>2 DEF None, Slots
<1>7. found # None => Candidate(c, found) /\ found \in Lease
  BY HandleTypes DEF ScanOf
<1> HIDE DEF new, found, seq, s
<1>8. SeqNewer(seq, handle[c].last) <=> Place(seq) > Place(handle[c].last)
  <2>1. Place(handle[c].last) <= MaxPublications
    BY NextPlace, HandleTypes DEF LastOf
  <2> QED BY <1>3, <2>1, NewerByPlace, HandleTypes DEF Numbered
<1>9. found # None => (SeqNewer(found.seq, seq) <=> Place(found.seq) > Place(seq))
  BY <1>3, <1>7, NewerByPlace, HandleTypes DEF Numbered, Candidate
<1>10. scan'[c].found # None => Candidate(c, scan'[c].found)
  <2>1. better => Candidate(c, new)
    BY <1>3, <1>6, <1>8 DEF Candidate
  <2> QED BY <1>5, <1>7, <2>1
<1>11. ASSUME NEW d \in Deliverable(c), Reached(c, d) \/ d = s PROVE Reached(c, d)'
  <2>1. d \in Slots /\ SeqNewer(slot[d].seq, handle[c].last) /\ Place(slot[d].seq) \in Int
    BY SlotTypes DEF Deliverable
  <2>2. d = s => slot[d].seq = seq
    BY DEF s, seq
  <2>3. Reached(c, d) <=> found # None /\ Place(found.seq) <= Place(slot[d].seq)
    BY DEF Reached, found
  <2>4. found # None => Place(found.seq) \in Int
    BY <1>7, HandleTypes
  <2>5. scan'[c].found # None /\ Place(scan'[c].found.seq) <= Place(slot[d].seq)
    <3>1. CASE better
      BY <1>3, <1>5, <1>6, <1>9, <1>11, <2>1, <2>2, <2>3, <2>4, <3>1
    <3>2. CASE ~better
      BY <1>3, <1>5, <1>9, <1>11, <2>1, <2>2, <2>3, <2>4, <3>2
    <3> QED BY <3>1, <3>2
  <2> QED BY <1>2, <2>5 DEF Reached, Place
<1> QED BY <1>1, <1>5, <1>10, <1>11, OnwardScan DEF s

\* The end of a pass, in the four ways of Compare.
LEMMA CompareValues ==
    ASSUME IInv, NEW c \in Consumers, Compare(c)
    PROVE  /\ Reading /\ UNCHANGED <<at, handle, heard>> /\ pc[c] = "compare" /\ c \in alive
           /\ pc'[c] = (IF ScanAgain(c) THEN "loadState"
                        ELSE IF FoundOlder(c) \/ scan[c].again > 0 THEN "check" ELSE "wait")
           /\ \E to : Goto(c, "compare", to)
           /\ scan'[c].found = None
           /\ scan'[c].oldest = IF FoundOlder(c) THEN scan[c].found ELSE scan[c].oldest
           /\ scan'[c].again = IF ScanAgain(c) THEN scan[c].again + 1 ELSE 0
<1> USE DEF IInv
<1> DEFINE to == IF ScanAgain(c) THEN "loadState"
                 ELSE IF FoundOlder(c) \/ scan[c].again > 0 THEN "check" ELSE "wait"
<1>1. /\ Goto(c, "compare", to) /\ Reading /\ UNCHANGED <<at, handle, heard>>
      /\ scan' = [scan EXCEPT ![c].found = None,
                              ![c].oldest = IF FoundOlder(c) THEN scan[c].found ELSE @,
                              ![c].again = IF ScanAgain(c) THEN @ + 1 ELSE 0]
  BY DEF Compare
<1>2. scan[c] \in ScanRecord
  BY HandleTypes
<1>3. /\ scan'[c].found = None
      /\ scan'[c].oldest = IF FoundOlder(c) THEN scan[c].found ELSE scan[c].oldest
      /\ scan'[c].again = IF ScanAgain(c) THEN scan[c].again + 1 ELSE 0
  BY <1>1, <1>2 DEF Types, ScanRecord
<1> HIDE DEF to
<1>4. pc[c] = "compare" /\ pc'[c] = to /\ c \in alive
  BY <1>1, Loading
<1> QED BY <1>1, <1>3, <1>4 DEF to

LEMMA CompareScan ==
    ASSUME IInv, PlaceInv, NEW c \in Consumers, ScanOf(c), Compare(c)
    PROVE  ScanOf(c)'
<1> USE DEF IInv
<1> DEFINE found == scan[c].found
           oldest == scan[c].oldest
<1>1. /\ Reading /\ UNCHANGED <<at, handle, heard>> /\ pc[c] = "compare" /\ at[c] = 1
      /\ UNCHANGED slot /\ Coming' = Coming /\ Deliverable(c)' = Deliverable(c)
      /\ scan'[c].found = None
      /\ scan'[c].oldest = IF FoundOlder(c) THEN found ELSE oldest
      /\ scan'[c].again = IF ScanAgain(c) THEN scan[c].again + 1 ELSE 0
      /\ pc'[c] = (IF ScanAgain(c) THEN "loadState"
                   ELSE IF FoundOlder(c) \/ scan[c].again > 0 THEN "check" ELSE "wait")
  BY CompareValues, Loading DEF ScanOf
<1>2. scan[c].again \in 0 .. SlotCount /\ SlotCount \in Nat /\ SlotCount > 0
  BY HandleTypes, StepsAssumption
<1>3. found # None => Candidate(c, found) /\ found.seq \in Seqs /\ Place(found.seq) \in Int
  BY HandleTypes DEF ScanOf
<1>4. scan[c].again > 0 => Candidate(c, oldest) /\ oldest.seq \in Seqs /\ Place(oldest.seq) \in Int
  BY HandleTypes DEF ScanOf, Loops
<1>5. found # None /\ scan[c].again > 0 =>
         (SeqNewer(oldest.seq, found.seq) <=> Place(oldest.seq) > Place(found.seq))
  BY <1>3, <1>4, NewerByPlace DEF Candidate, Numbered
<1>6. ASSUME scan[c].again > 0, NEW d \in Deliverable(c), Place(slot[d].seq) < Place(oldest.seq)
      PROVE  found # None /\ Place(found.seq) <= Place(slot[d].seq) /\ Place(slot[d].seq) \in Int
  <2>1. d \in Older(c, oldest) /\ Passed(c, d) /\ d \in Slots
    BY <1>1, <1>6 DEF Older, Passed, Deliverable
  <2>2. Reached(c, d)
    BY <1>6, <2>1 DEF ScanOf
  <2> QED BY <2>1, <2>2, SlotTypes DEF Reached
<1> HIDE DEF found, oldest
<1>7. CASE ScanAgain(c)
  <2>1. /\ FoundOlder(c) /\ found # None /\ scan'[c].oldest = found /\ pc'[c] = "loadState"
        /\ \A d \in Slots : ~Passed(c, d)'
    BY <1>1, <1>7 DEF ScanAgain, FoundOlder, found, Passed, Slots
  <2>2. Candidate(c, scan[c].oldest)'
    BY <1>1, <1>3, <2>1 DEF Candidate, Numbered, Place
  <2>3. \A d \in Older(c, scan[c].oldest)' : d \in Slots
    BY DEF Older, Deliverable
  <2> QED BY <1>1, <2>1, <2>2, <2>3 DEF ScanOf, Scanning
<1>8. CASE ~ScanAgain(c) /\ FoundOlder(c)
  <2>1. /\ found # None /\ scan'[c].oldest = found /\ pc'[c] = "check" /\ scan'[c].again = 0
        /\ scan[c].again > 0 /\ SeqNewer(oldest.seq, found.seq)
    BY <1>1, <1>2, <1>8 DEF ScanAgain, FoundOlder, found, oldest
  <2>2. ASSUME NEW d \in Deliverable(c), Place(slot[d].seq) < Place(found.seq) PROVE FALSE
    <3>1. d \in Slots /\ Place(slot[d].seq) \in Int
      BY SlotTypes DEF Deliverable
    <3> QED BY <1>3, <1>4, <1>5, <1>6, <2>1, <2>2, <3>1
  <2>3. Candidate(c, scan[c].oldest)' /\ Older(c, scan[c].oldest)' = {}
    BY <1>1, <1>3, <2>1, <2>2 DEF Candidate, Numbered, Older, Place
  <2> QED BY <1>1, <2>1, <2>3 DEF ScanOf, Scanning
<1>9. CASE ~FoundOlder(c) /\ scan[c].again > 0
  <2>1. /\ scan'[c].oldest = oldest /\ pc'[c] = "check" /\ scan'[c].again = 0
        /\ found = None \/ ~SeqNewer(oldest.seq, found.seq)
    BY <1>1, <1>9 DEF ScanAgain, FoundOlder, found, oldest
  <2>2. ASSUME NEW d \in Deliverable(c), Place(slot[d].seq) < Place(oldest.seq) PROVE FALSE
    <3>1. found # None /\ Place(found.seq) <= Place(slot[d].seq) /\ Place(slot[d].seq) \in Int
      BY <1>6, <1>9, <2>2
    <3> QED BY <1>3, <1>4, <1>5, <1>9, <2>1, <2>2, <3>1
  <2>3. Candidate(c, scan[c].oldest)' /\ Older(c, scan[c].oldest)' = {}
    BY <1>1, <1>4, <1>9, <2>1, <2>2 DEF Candidate, Numbered, Older, Place
  <2> QED BY <1>1, <2>1, <2>3 DEF ScanOf, Scanning
<1>10. CASE ~FoundOlder(c) /\ ~(scan[c].again > 0)
  <2>1. pc'[c] = "wait" /\ scan'[c].again = 0
    BY <1>1, <1>10 DEF ScanAgain
  <2> QED BY <1>1, <2>1 DEF ScanOf, Scanning
<1> QED BY <1>7, <1>8, <1>9, <1>10

LEMMA CheckScan ==
    ASSUME IInv, NEW c \in Consumers, ScanOf(c), Check(c)
    PROVE  ScanOf(c)'
<1> USE DEF IInv
<1> DEFINE there == StillThere(scan[c].oldest)
<1>1. /\ Goto(c, "check", IF there THEN "recheck" ELSE "wait") /\ Reading /\ UNCHANGED <<at, handle, heard>>
      /\ scan' = IF there THEN scan ELSE [scan EXCEPT ![c] = NoScan]
  BY DEF Check
<1> HIDE DEF there
<1>2. /\ pc[c] = "check" /\ pc'[c] = IF there THEN "recheck" ELSE "wait"
      /\ UNCHANGED slot /\ Coming' = Coming /\ Deliverable(c)' = Deliverable(c)
  BY <1>1, Loading
<1>3. CASE there
  BY <1>1, <1>2, <1>3 DEF ScanOf, Scanning, Candidate, Numbered, Older, Place
<1>4. CASE ~there
  <2>1. scan'[c] = NoScan /\ pc'[c] = "wait"
    BY <1>1, <1>2, <1>4 DEF Types
  <2> QED BY <2>1 DEF ScanOf, Scanning, NoScan
<1> QED BY <1>3, <1>4

\* The steps of a member's own outside the scan.
LEMMA ElsewhereScan ==
    ASSUME IInv, NEW c \in Consumers, Mine(c), ScanOf(c),
           ~Observe(c), ~LoadState(c), ~LoadMask(c), ~LoadSeq(c), ~Compare(c), ~Check(c), ~Take(c)
    PROVE  pc[c] \notin Scanning \cup {"check", "recheck"} /\ ScanOf(c)'
<1> USE DEF IInv
<1>1. ASSUME NEW from, NEW to, Goto(c, from, to), UNCHANGED scan,
             from \notin Scanning \cup {"check", "recheck"}, to \notin Scanning \cup {"check", "recheck"}
      PROVE  pc[c] \notin Scanning \cup {"check", "recheck"} /\ ScanOf(c)'
  <2>1. pc[c] = from /\ pc'[c] = to
    BY <1>1, Outside DEF Goto, Types
  <2> QED BY <1>1, <2>1 DEF ScanOf, Scanning
<1>2. CASE Receive(c)
  BY <1>1, <1>2 DEF Receive, Sleep, EndWait, StartRelease, Release, ConsumerOnly, Scanning
<1>3. CASE Membership(c)
  BY <1>1, <1>3 DEF Membership, StartRegister, StartLocked, Enter, RegistryFull, Activate, CountUp,
                    StartClose, CloseBit, CloseEntry, CountDown, MembershipOnly, ConsumerOnly, Scanning
<1>4. CASE ReapEntry(c)
  BY <1>1, <1>4 DEF ReapEntry, Scanning
<1>5. CASE ReapCount(c)
  BY <1>1, <1>5 DEF ReapCount, Scanning
<1>6. CASE ReapSlot(c)
  <2>1. PICK to \in {"reap", "choose", "enter"} : Goto(c, "reap", to) /\ UNCHANGED scan
    BY <1>6 DEF ReapSlot
  <2> QED BY <1>1, <2>1 DEF Scanning
<1> QED BY <1>2, <1>3, <1>4, <1>5, <1>6 DEF Mine

LEMMA ScanStep ==
    ASSUME IInv, PlaceInv, LastInv, ScanInv, [Next]_vars
    PROVE  ScanInv'
<1> USE DEF IInv
<1> SUFFICES ASSUME NEW c \in Consumers, c \in alive' PROVE ScanOf(c)'
  BY DEF ScanInv
<1>1. c \in alive /\ ScanOf(c) /\ (Member(c) => LastOf(c))
  BY Dying DEF ScanInv, LastInv
<1>2. CASE Observe(c)
  <2>1. /\ pc[c] = "open" /\ pc'[c] = "loadState" /\ UNCHANGED scan
    BY <1>2, Outside DEF Observe, Goto, Types
  <2>2. scan'[c].found = None /\ scan'[c].again = 0
    BY <1>1, <2>1 DEF ScanOf, Scanning
  <2> QED BY <2>1, <2>2 DEF ScanOf, Scanning
<1>3. CASE LoadSeq(c)
  <2>1. Member(c)
    BY <1>1, <1>3 DEF LoadSeq, Onward, Goto, Member, OpenStages
  <2> QED BY <1>1, <1>3, <2>1, LoadSeqScan
<1>4. CASE Take(c)
  <2>1. pc'[c] \in {"open", "wait"} /\ scan'[c] = NoScan
    BY <1>4, TakeValues
  <2> QED BY <2>1 DEF ScanOf, Scanning, NoScan
<1>5. CASE Kill(c)
  BY <1>5, KillFrame, Outside
<1> QED
  BY <1>1, <1>2, <1>3, <1>4, <1>5, Bystander, AsideScan, LoadScan, CompareScan, CheckScan, ElsewhereScan

-----------------------------------------------------------------------------
DeliveryInv == IInv /\ PlaceInv /\ BitInv /\ StageInv /\ LastInv /\ ScanInv

LEMMA DeliveryStart == Init => DeliveryInv
<1> SUFFICES ASSUME Init PROVE DeliveryInv
  OBVIOUS
<1>1. /\ \A p \in Producers : pc[p] = "off"
      /\ \A c \in Consumers : pc[c] = "none" /\ scan[c] = NoScan /\ c \in alive
  BY Outside DEF Init
<1>2. \A s \in Slots : slot[s].state = "FREE" /\ slot[s].mask = {}
  BY DEF Init
<1>3. PlaceInv
  <2>1. Place(nextSeq) \in 1 .. MaxPublications + 1
    BY FirstPlace, Modulus DEF Init
  <2> QED BY <1>1, <1>2, <2>1 DEF PlaceInv, LockedStages
<1>4. BitInv
  BY <1>1, <1>2 DEF BitInv, WithBit
<1>5. StageInv /\ LastInv
  BY <1>1 DEF StageInv, ConsumerStages, LastInv, Member, OpenStages
<1>6. ScanInv
  BY <1>1 DEF ScanInv, ScanOf, Scanning, NoScan
<1> QED BY <1>3, <1>4, <1>5, <1>6, Start DEF DeliveryInv

LEMMA DeliveryStep == ASSUME DeliveryInv, [Next]_vars PROVE DeliveryInv'
  BY Step, PlaceStep, BitStep, StageStep, LastStep, ScanStep DEF DeliveryInv

LEMMA DeliveryInvariance == Spec => []DeliveryInv
  BY DeliveryStart, DeliveryStep, PTL DEF Spec

-----------------------------------------------------------------------------
(* RingSteps is a multicast: what each store is to those who are open.     *)

LEMMA OpenMembers ==
    ASSUME StageInv, NEW c \in Consumers
    PROVE  /\ c \in OpenConsumers <=> c \in alive /\ pc[c] \in OpenStages \cup {"countUp"}
           /\ c \in OpenConsumers => Member(c)
  BY DEF OpenConsumers, StageInv, ConsumerStages, OpenStages, Member

\* As open as before, holding the same slots and subscribed at the same sequence.
Rests(c) ==
    /\ c \in OpenConsumers' <=> c \in OpenConsumers
    /\ HeldBy(c)' = HeldBy(c)
    /\ c \in OpenConsumers =>
          ~Release(c) /\ handle'[c].idx = handle[c].idx /\ handle'[c].last = handle[c].last

LEMMA AsideRests ==
    ASSUME DeliveryInv, NEW c \in Consumers, Aside(c), c \in alive' <=> c \in alive
    PROVE  Rests(c)
<1>1. handle'[c] = handle[c] /\ (pc'[c] = pc[c] \/ (pc[c] = "asleep" /\ pc'[c] = "open"))
  BY DEF Aside
<1>2. c \in OpenConsumers' <=> c \in OpenConsumers
  BY <1>1 DEF OpenConsumers
<1>3. HeldBy(c)' = HeldBy(c)
  BY <1>1 DEF HeldBy
<1>4. ~Release(c)
  <2>1. Release(c) => pc[c] = "release" /\ pc'[c] = "open"
    BY ReleaseValues DEF DeliveryInv
  <2> QED BY <1>1, <2>1
<1> QED BY <1>1, <1>2, <1>3, <1>4 DEF Rests

\* The steps of its own that others do not see.
LEMMA MineRests ==
    ASSUME DeliveryInv, NEW c \in Consumers, Mine(c),
           ~Activate(c), ~(Take(c) /\ Valid(c)), ~Release(c), ~StartClose(c)
    PROVE  Rests(c)
<1> USE DEF DeliveryInv, IInv
<1>1. UNCHANGED alive /\ c \in alive
  BY MineStage
<1>2. ASSUME NEW from, NEW to, Goto(c, from, to), handle'[c] = handle[c],
             from \in OpenStages \cup {"countUp"} <=> to \in OpenStages \cup {"countUp"},
             from \in ConsumerStages, to \in ConsumerStages
      PROVE  Rests(c)
  <2>1. pc[c] = from /\ pc'[c] = to
    BY <1>2, Outside DEF Goto, Types
  <2>2. c \in OpenConsumers' <=> c \in OpenConsumers
    BY <1>1, <1>2, <2>1 DEF OpenConsumers, OpenStages, ConsumerStages
  <2> QED BY <1>2, <2>2 DEF Rests, HeldBy
<1>3. OpenStages \subseteq ConsumerStages /\ "countUp" \notin OpenStages
  BY DEF ConsumerStages, OpenStages
<1>4. ASSUME NEW from \in OpenStages, NEW to \in OpenStages, Goto(c, from, to), handle'[c] = handle[c]
      PROVE  Rests(c)
  BY <1>2, <1>3, <1>4
<1>5. CASE Receive(c)
  <2>1. /\ \E from, to \in OpenStages : Goto(c, from, to)
        /\ handle'[c] = handle[c]
    <3>1. CASE Observe(c)
      BY <3>1 DEF Observe, OpenStages
    <3>2. CASE LoadState(c)
      BY <3>2 DEF LoadState, Onward, OpenStages
    <3>3. CASE LoadMask(c)
      BY <3>3 DEF LoadMask, Onward, OpenStages
    <3>4. CASE LoadSeq(c)
      BY <3>4 DEF LoadSeq, Onward, OpenStages
    <3>5. CASE Compare(c)
      BY <3>5 DEF Compare, OpenStages
    <3>6. CASE Check(c)
      BY <3>6 DEF Check, OpenStages
    <3>7. CASE Take(c)
      <4>1. Goto(c, "recheck", "wait") /\ handle' = handle
        BY <3>7 DEF Take, Valid
      <4> QED BY <4>1 DEF OpenStages
    <3>8. CASE Sleep(c) \/ EndWait(c) \/ StartRelease(c)
      BY <3>8 DEF Sleep, EndWait, StartRelease, OpenStages
    <3> QED BY <1>5, <3>1, <3>2, <3>3, <3>4, <3>5, <3>6, <3>7, <3>8 DEF Receive
  <2> QED BY <1>4, <2>1
<1>6. {"none", "reap", "countDead", "enter", "activate", "close", "countDown", "closed"}
         \subseteq ConsumerStages \ (OpenStages \cup {"countUp"})
  BY DEF ConsumerStages, OpenStages
<1>7. ASSUME NEW from \in {"none", "reap", "countDead", "enter", "activate", "close", "countDown", "closed"},
             NEW to \in {"none", "reap", "countDead", "enter", "activate", "close", "countDown", "closed"},
             Goto(c, from, to), handle'[c].leases = handle[c].leases
      PROVE  Rests(c)
  <2>1. pc[c] = from /\ pc'[c] = to
    BY <1>7, Outside DEF Goto, Types
  <2>2. c \notin OpenConsumers' /\ c \notin OpenConsumers
    BY <1>1, <2>1 DEF OpenConsumers
  <2> QED BY <1>7, <2>2 DEF Rests, HeldBy
<1>8. CASE Membership(c)
  <2>1. CASE StartRegister(c) \/ RegistryFull(c) \/ CloseBit(c) \/ CloseEntry(c)
    BY <1>7, <2>1 DEF StartRegister, StartLocked, RegistryFull, CloseBit, CloseEntry, MembershipOnly
  <2>2. CASE Enter(c)
    <3>1. PICK i : Goto(c, "enter", "activate")
                   /\ handle' = [handle EXCEPT ![c].idx = i, ![c].last = (nextSeq - 1) % SeqMod]
      BY <2>2 DEF Enter
    <3>2. handle'[c].leases = handle[c].leases
      BY <3>1, HandleTypes DEF Types, HandleRecord
    <3> QED BY <1>7, <3>1, <3>2
  <2>3. CASE CountUp(c)
    BY <1>2, <1>3, <2>3 DEF CountUp, MembershipOnly, ConsumerStages, OpenStages
  <2>4. CASE CountDown(c)
    <3>1. Goto(c, "countDown", "closed") /\ handle' = [handle EXCEPT ![c] = Closed]
      BY <2>4 DEF CountDown
    <3>2. handle[c].leases = {} /\ handle'[c].leases = {}
      BY <3>1, ClosedType DEF Goto, EntryInv, OpenStages, Types
    <3> QED BY <1>7, <3>1, <3>2
  <2> QED BY <1>8, <2>1, <2>2, <2>3, <2>4 DEF Membership
<1>9. CASE ReapEntry(c)
  BY <1>7, <1>9 DEF ReapEntry
<1>10. CASE ReapCount(c)
  BY <1>7, <1>10 DEF ReapCount
<1>11. CASE ReapSlot(c)
  <2>1. Goto(c, "reap", "reap") \/ Goto(c, "reap", "enter")
    BY <1>11, Outside DEF ReapSlot
  <2> QED BY <1>7, <1>11, <2>1 DEF ReapSlot
<1> QED BY <1>5, <1>8, <1>9, <1>10, <1>11 DEF Mine

LEMMA RestsDue ==
    ASSUME DeliveryInv, [Next]_vars, NEW c \in Consumers, Rests(c),
           \A p \in Producers : Commit(p) => c \notin OpenConsumers \/ handle[c].idx \notin slot[pick[p]].mask
    PROVE  Due(c)' = Due(c) /\ Earlier(c)' = Earlier(c)
<1> USE DEF DeliveryInv
<1>1. CASE c \notin OpenConsumers
  <2>1. Due(c) = {} /\ Due(c)' = {}
    BY <1>1 DEF Rests, Due
  <2> QED BY <2>1 DEF Earlier
<1>2. CASE c \in OpenConsumers
  <2>1. Member(c) /\ ~Release(c) /\ handle'[c].idx = handle[c].idx /\ handle'[c].last = handle[c].last
    BY <1>2, OpenMembers DEF Rests
  <2>2. \A s \in Slots : s \in Deliverable(c)' <=> s \in Deliverable(c)
    BY <1>2, <2>1, DeliverableStep
  <2>3. \A s \in Deliverable(c) : slot'[s].seq = slot[s].seq
    BY <2>1, DeliverableStep DEF Deliverable
  <2>4. Due(c)' = Due(c) /\ Due(c) = Deliverable(c)
    BY <1>2, <2>2 DEF Rests, Due, Deliverable
  <2> QED BY <2>3, <2>4 DEF Earlier, SeqNewer
<1> QED BY <1>1, <1>2

\* A publication being made stays addressed to a member until it is committed, or its
\* producer is killed.
LEMMA MakingStays ==
    ASSUME DeliveryInv, [Next]_vars, NEW p \in Producers, p \in alive, pc[p] \in Making,
           ~Commit(p), ~Kill(p), NEW c \in Consumers, Member(c), handle[c].idx \in slot[pick[p]].mask
    PROVE  p \in alive' /\ pc'[p] \in Making /\ pick'[p] = pick[p]
           /\ handle[c].idx \in slot'[pick[p]].mask
<1> USE DEF DeliveryInv
<1> DEFINE s == pick[p]
<1>1. s \in Slots /\ slot[s].state = "WRITING"
  BY MakingNewest
<1>2. CASE Calm /\ (UNCHANGED slot \/ Dropped \/ Swept)
  <2>1. p \in alive' /\ pc'[p] = pc[p] /\ pick'[p] = pick[p]
    BY <1>2 DEF Calm, Making, Working
  <2>2. CASE UNCHANGED slot
    BY <2>1, <2>2
  <2>3. CASE Release(c)
    <3>1. /\ returning[c] \in handle[c].leases /\ returning[c].slot \in Slots
          /\ DropBit(returning[c].slot, handle[c].idx)
      BY <2>3, ReleaseValues
    <3>2. slot[returning[c].slot].state = "COMMITTED"
      BY <3>1 DEF IInv, LeaseInv, StillThere
    <3>3. slot'[s] = slot[s]
      BY <1>1, <3>1, <3>2, DropValue DEF IInv
    <3> QED BY <2>1, <3>3
  <2>4. CASE Dropped /\ ~Release(c)
    <3>1. PICK t \in Slots, i \in Entries : DropBit(t, i) /\ handle[c].idx # i
      BY <2>4 DEF Dropped
    <3>2. handle[c].idx \in slot'[s].mask
      BY <1>1, <3>1, DropValue DEF IInv
    <3> QED BY <2>1, <3>2
  <2>5. CASE Swept
    <3>1. PICK t \in Slots : t # s /\ slot' = [slot EXCEPT ![t].mask = {}, ![t].state = "FREE"]
      BY <2>5 DEF Swept
    <3>2. slot'[s] = slot[s]
      BY <1>1, <3>1, SweepValue DEF IInv
    <3> QED BY <2>1, <3>2
  <2> QED BY <1>2, <2>2, <2>3, <2>4, <2>5
<1>3. ASSUME NEW q \in Producers, Storing(q)
      PROVE  p \in alive' /\ pc'[p] \in Making /\ pick'[p] = s /\ handle[c].idx \in slot'[s].mask
  <2>1. p = q /\ UNCHANGED <<alive, pick>>
    BY <1>3, StoringFrame DEF Making
  <2>2. Copy(p)
    BY <1>3, <2>1, StoreValues DEF Storing, Making
  <2> QED BY <2>1, <2>2, StoreValues DEF Becomes, Making
<1>4. ASSUME NEW q \in Producers, Advance(q)
      PROVE  p \in alive' /\ pc'[p] \in Making /\ pick'[p] = s /\ UNCHANGED slot
  <2>1. /\ UNCHANGED <<slot, pick, alive>> /\ pc' = [pc EXCEPT ![q] = "copy"]
    BY <1>4 DEF Advance, Goto, ProducerOnly
  <2> QED BY <2>1, Outside DEF Making, IInv, Types
<1>5. ASSUME NEW q \in Procs, Kill(q)
      PROVE  p \in alive' /\ pc'[p] \in Making /\ pick'[p] = s /\ UNCHANGED slot
  <2>1. p # q
    BY <1>5
  <2> QED BY <1>5, <2>1, KillFrame, Outside
<1> QED BY <1>2, <1>3, <1>4, <1>5, Kinds

LEMMA AddresseeStays ==
    ASSUME DeliveryInv, [Next]_vars, NEW c \in Consumers,
           c \in OpenConsumers, c \in OpenConsumers', handle'[c].idx = handle[c].idx,
           \A p \in Producers : ~Address(p) /\ ~Commit(p) /\ ~Kill(p)
    PROVE  c \in Addressees' <=> c \in Addressees
<1> USE DEF DeliveryInv
<1>1. Member(c)
  BY OpenMembers
<1>2. c \in Addressees => c \in Addressees'
  <2> SUFFICES ASSUME c \in Addressees PROVE c \in Addressees'
    OBVIOUS
  <2>1. PICK p \in Producers : p \in alive /\ pc[p] \in Making /\ handle[c].idx \in slot[pick[p]].mask
    BY DEF Addressees, Making
  <2>2. p \in alive' /\ pc'[p] \in Making /\ pick'[p] = pick[p] /\ handle[c].idx \in slot'[pick[p]].mask
    BY <1>1, <2>1, MakingStays
  <2> QED BY <2>2 DEF Addressees, Making
<1>3. c \in Addressees' => c \in Addressees
  <2> SUFFICES ASSUME c \in Addressees' PROVE c \in Addressees
    OBVIOUS
  <2>1. PICK p \in Producers : p \in alive' /\ pc'[p] \in Making /\ handle'[c].idx \in slot'[pick'[p]].mask
    BY DEF Addressees, Making
  <2>2. /\ p \in alive /\ pc[p] \in Making /\ pick'[p] = pick[p]
        /\ slot'[pick[p]].mask \subseteq slot[pick[p]].mask
    BY <2>1, MakingStep
  <2> QED BY <2>1, <2>2 DEF Addressees, Making
<1> QED BY <1>2, <1>3

\* While only one process moves, and nobody dies, everybody else rests.
LEMMA OthersRest ==
    ASSUME DeliveryInv, [Next]_vars, NEW p \in Procs, UNCHANGED alive,
           \/ p \in Producers /\ Publish(p)
           \/ p \in Consumers /\ (Receive(p) \/ Membership(p)),
           NEW c \in Consumers, c # p
    PROVE  Rests(c)
<1>1. Aside(c)
  BY AsideOfProducer, AsideOfConsumer DEF DeliveryInv
<1> QED BY <1>1, AsideRests

LEMMA ActivateJoins ==
    ASSUME DeliveryInv, [Next]_vars, NEW c \in Consumers, Activate(c)
    PROVE  Contract!Join(c)
<1> USE DEF DeliveryInv, IInv
<1> DEFINE i == handle[c].idx
<1>1. /\ Goto(c, "activate", "countUp") /\ UNCHANGED <<slot, alive, pick, handle>>
      /\ c \in Procs
  BY Outside DEF Activate, MembershipOnly
<1>2. /\ c \in alive /\ pc[c] = "activate" /\ pc'[c] = "countUp"
      /\ \A q \in Procs \ {c} : pc'[q] = pc[q]
  BY <1>1 DEF Goto, Types
<1>3. WithBit(i) = {}
  BY <1>2 DEF EntryInv, BitInv
<1>4. \A d \in Consumers \ {c} : Rests(d)
  BY <1>1, OthersRest DEF Membership
<1>5. c \notin OpenConsumers /\ c \in OpenConsumers'
  BY <1>1, <1>2 DEF OpenConsumers
<1>6. OpenConsumers' = OpenConsumers \cup {c}
  <2>1. \A d : d \in OpenConsumers \/ d \in OpenConsumers' => d \in Consumers
    BY DEF OpenConsumers
  <2> QED BY <1>4, <1>5, <2>1 DEF Rests
<1>7. \A p \in Producers : ~Commit(p) /\ ~Address(p) /\ ~Kill(p) /\ pc'[p] = pc[p]
  BY <1>1, <1>2, Outside, StoreValues, KillFrame
<1>8. ASSUME NEW d \in Consumers
      PROVE  Due(d)' = Due(d) /\ Earlier(d)' = Earlier(d) /\ HeldBy(d)' = HeldBy(d)
  <2>1. CASE d = c
    <3>1. Due(c) = {} /\ Due(c)' = {}
      BY <1>1, <1>3, <1>5 DEF Due, Deliverable, WithBit
    <3> QED BY <1>1, <2>1, <3>1 DEF Earlier, HeldBy
  <2>2. CASE d # c
    BY <1>4, <1>7, <2>2, RestsDue DEF Rests
  <2> QED BY <2>1, <2>2
<1>9. Addressees' = Addressees
  <2>1. c \notin Addressees /\ c \notin Addressees'
    <3>1. \A p \in Producers \cap alive : pc[p] \in Making => i \notin slot[pick[p]].mask
      BY <1>3, MakingNewest DEF WithBit
    <3> QED BY <1>1, <1>5, <1>7, <3>1 DEF Addressees, Making
  <2>2. ASSUME NEW d \in Consumers, d # c PROVE d \in Addressees' <=> d \in Addressees
    BY <1>1, <1>4, <1>7, <2>2, AddresseeStays DEF Rests, Addressees
  <2> QED BY <2>1, <2>2 DEF Addressees, OpenConsumers
<1> QED BY <1>5, <1>6, <1>8, <1>9 DEF Contract!Join

LEMMA AddressBegins ==
    ASSUME DeliveryInv, [Next]_vars, NEW p \in Producers, Address(p)
    PROVE  Contract!Begin
<1> USE DEF DeliveryInv, IInv
<1>1. /\ p \in alive /\ pick[p] \in Slots /\ pc[p] = "address" /\ pc'[p] = "advance"
      /\ slot'[pick[p]].mask = {i \in Entries : entry[i].active}
      /\ UNCHANGED <<alive, handle, entry, pick>>
  BY StoringFrame, StoreValues DEF Storing, Becomes
<1>2. \A q \in Producers \cap alive : q # p => pc[q] = "off"
  BY <1>1, OneProducer
<1>3. \A c \in Consumers : Rests(c)
  BY <1>1, Outside, OthersRest DEF Publish
<1>4. OpenConsumers' = OpenConsumers
  BY <1>3 DEF Rests, OpenConsumers
<1>5. \A q \in Producers : ~Commit(q)
  <2> SUFFICES ASSUME NEW q \in Producers, Commit(q) PROVE FALSE
    OBVIOUS
  <2>1. q \in alive /\ pc[q] = "commit"
    BY StoringFrame, StoreValues DEF Storing
  <2> QED BY <1>1, <1>2, <2>1
<1>6. \A c \in Consumers : Due(c)' = Due(c) /\ Earlier(c)' = Earlier(c) /\ HeldBy(c)' = HeldBy(c)
  BY <1>3, <1>5, RestsDue DEF Rests
<1>7. Addressees = {}
  BY <1>1, <1>2 DEF Addressees
<1>8. Addressees' = OpenConsumers
  <2>1. ASSUME NEW c \in OpenConsumers PROVE handle'[c].idx \in slot'[pick'[p]].mask
    <3>1. c \in Consumers /\ c \in alive /\ pc[c] \in OpenStages \cup {"countUp"}
      BY OpenMembers DEF OpenConsumers
    <3>2. handle[c].idx \in Entries /\ entry[handle[c].idx].active
      BY <3>1 DEF EntryInv
    <3> QED BY <1>1, <3>2
  <2> QED BY <1>1, <1>4, <2>1 DEF Addressees
<1> QED BY <1>4, <1>6, <1>7, <1>8 DEF Contract!Begin

LEMMA CommitPublishes ==
    ASSUME DeliveryInv, [Next]_vars, NEW p \in Producers, Commit(p)
    PROVE  pick[p] \in Slots /\ Contract!Publish(pick[p])
<1> USE DEF DeliveryInv, IInv
<1> DEFINE s == pick[p]
<1>1. /\ p \in alive /\ s \in Slots /\ pc[p] = "commit" /\ pc'[p] = "signal"
      /\ slot[s].state = "WRITING" /\ slot'[s].state = "COMMITTED"
      /\ slot'[s].seq = slot[s].seq /\ slot'[s].mask = slot[s].mask
      /\ \A t \in Slots \ {s} : slot'[t] = slot[t]
      /\ UNCHANGED <<alive, handle, pick, nextSeq>>
  BY StoringFrame, StoreValues DEF Storing, Becomes
<1>2. \A q \in Producers \cap alive : q # p => pc[q] = "off" /\ pc'[q] = "off"
  BY <1>1, OneProducer, StoringFrame, Outside DEF Storing
<1>3. \A c \in Consumers : Rests(c)
  BY <1>1, Outside, OthersRest DEF Publish
<1>4. OpenConsumers' = OpenConsumers /\ \A c \in Consumers : HeldBy(c)' = HeldBy(c)
  BY <1>3 DEF Rests, OpenConsumers
<1>5. Addressees' = {} /\ Addressees = {c \in OpenConsumers : handle[c].idx \in slot[s].mask}
  BY <1>1, <1>2 DEF Addressees
<1>6. \A c \in Consumers : s \notin Due(c) \cup HeldBy(c)
  BY <1>1 DEF Due, Deliverable, HeldBy, LeaseInv, StillThere
<1>7. \A q \in Producers : Commit(q) => q = p
  <2> SUFFICES ASSUME NEW q \in Producers, Commit(q) PROVE q = p
    OBVIOUS
  <2>1. q \in alive /\ pc[q] = "commit"
    BY StoringFrame, StoreValues DEF Storing
  <2> QED BY <1>2, <2>1
<1>8. ASSUME NEW c \in Consumers, c \notin Addressees
      PROVE  Due(c)' = Due(c) /\ Earlier(c)' = Earlier(c)
  BY <1>3, <1>5, <1>7, <1>8, RestsDue
<1>9. slot[s].seq \in Seqs /\ Place(slot[s].seq) = Coming /\ Coming <= MaxPublications
      /\ Coming \in Int /\ MaxPublications \in Nat
  <2>1. Copying
    BY <1>1 DEF Copying
  <2> QED BY <1>1, <2>1, MakingNewest, NextPlace DEF Making, Coming
<1>10. ASSUME NEW c \in Consumers, c \in Addressees
       PROVE  /\ Due(c)' = Due(c) \cup {s}
              /\ Earlier(c)' = Earlier(c) \cup (Due(c) \X {s})
  <2>1. c \in OpenConsumers /\ Member(c) /\ handle[c].idx \in slot[s].mask /\ Due(c) = Deliverable(c)
    BY <1>5, <1>10, OpenMembers DEF Due
  <2>2. LastOf(c) /\ handle[c].last \in Seqs /\ Place(handle[c].last) \in Int
    BY <2>1, HandleTypes DEF LastInv
  <2>3. Place(handle[c].last) < Coming
    BY <1>1, <1>9, <2>1, <2>2 DEF LastOf, Making
  <2>4. SeqNewer(slot[s].seq, handle[c].last)
    BY <1>9, <2>2, <2>3, NewerByPlace
  <2>5. Due(c)' = Due(c) \cup {s}
    BY <1>1, <1>4, <2>1, <2>4 DEF Due, Deliverable
  <2>6. ASSUME NEW t \in Due(c)
        PROVE  SeqNewer(slot[s].seq, slot[t].seq) /\ ~SeqNewer(slot[t].seq, slot[s].seq)
    <3>1. t \in Slots /\ slot[t].state = "COMMITTED"
      BY <2>1 DEF Deliverable
    <3>2. slot[t].seq \in Seqs /\ Place(slot[t].seq) \in Int /\ Place(slot[t].seq) < Coming
      BY <1>9, <3>1, SlotTypes DEF PlaceInv
    <3> QED BY <1>9, <3>2, NewerByPlace
  <2>7. ~SeqNewer(slot[s].seq, slot[s].seq)
    BY <1>9, NewerByPlace
  <2>8. \A t \in Slots : slot'[t].seq = slot[t].seq
    BY <1>1
  <2>9. Due(c) \cup {s} \subseteq Slots
    BY <1>1, <2>1 DEF Deliverable
  <2>10. Earlier(c)' = {e \in (Due(c) \cup {s}) \X (Due(c) \cup {s}) : SeqNewer(slot[e[2]].seq, slot[e[1]].seq)}
    <3>1. Earlier(c)' = {e \in (Due(c) \cup {s}) \X (Due(c) \cup {s}) : SeqNewer(slot'[e[2]].seq, slot'[e[1]].seq)}
      BY <2>5 DEF Earlier, SeqNewer
    <3>2. \A e \in (Due(c) \cup {s}) \X (Due(c) \cup {s}) : e[1] \in Slots /\ e[2] \in Slots
      BY <2>9
    <3> QED BY <2>8, <3>1, <3>2
  <2>11. ASSUME NEW t \in Due(c) \cup {s}, NEW u \in Due(c) \cup {s}
         PROVE  SeqNewer(slot[u].seq, slot[t].seq) <=> (t # s /\ (u = s \/ SeqNewer(slot[u].seq, slot[t].seq)))
    BY <2>6, <2>7
  <2> HIDE DEF s
  <2>12. ASSUME NEW e
         PROVE  e \in Earlier(c)' <=> e \in Earlier(c) \cup (Due(c) \X {s})
    <3>1. CASE e \in (Due(c) \cup {s}) \X (Due(c) \cup {s})
      <4>1. PICK t \in Due(c) \cup {s}, u \in Due(c) \cup {s} : e = <<t, u>>
        BY <3>1
      <4>2. e \in Earlier(c)' <=> SeqNewer(slot[u].seq, slot[t].seq)
        BY <2>10, <4>1
      <4>3. e \in Earlier(c) <=> t \in Due(c) /\ u \in Due(c) /\ SeqNewer(slot[u].seq, slot[t].seq)
        BY <4>1 DEF Earlier
      <4>4. e \in Due(c) \X {s} <=> t \in Due(c) /\ u = s
        BY <4>1
      <4>5. s \notin Due(c)
        BY <1>6
      <4> QED BY <2>11, <4>2, <4>3, <4>4, <4>5
    <3>2. CASE e \notin (Due(c) \cup {s}) \X (Due(c) \cup {s})
      BY <2>10, <3>2 DEF Earlier
    <3> QED BY <3>1, <3>2
  <2> QED BY <2>5, <2>12
<1> QED BY <1>1, <1>4, <1>5, <1>6, <1>8, <1>10 DEF Contract!Publish, Contract!Free

\* What is taken was published first of what is due: nothing older could have been
\* missed by the pass that confirmed it.
LEMMA TakeDelivers ==
    ASSUME DeliveryInv, [Next]_vars, NEW c \in Consumers, Take(c), Valid(c)
    PROVE  Contract!Deliver(c)
<1> USE DEF DeliveryInv, IInv
<1> DEFINE l == scan[c].oldest
           s == l.slot
<1>1. /\ l \in Lease /\ c \in alive /\ pc[c] = "recheck" /\ pc'[c] = "open"
      /\ handle'[c].idx = handle[c].idx /\ handle'[c].last = l.seq
      /\ handle'[c].leases = handle[c].leases \cup {l}
      /\ UNCHANGED <<slot, nextSeq, alive, pick>>
      /\ \A q \in Procs \ {c} : pc'[q] = pc[q]
  BY TakeValues, Outside DEF shared, Types
<1>2. Candidate(c, l) /\ Older(c, l) = {}
  BY <1>1 DEF ScanInv, ScanOf
<1>3. Member(c) /\ LastOf(c) /\ c \in OpenConsumers /\ c \in OpenConsumers'
  BY <1>1 DEF Member, OpenStages, LastInv, OpenConsumers
<1> HIDE DEF l
<1>4. s \in Slots /\ l.seq \in Seqs /\ Place(l.seq) \in Int /\ slot[s].state = "COMMITTED"
      /\ slot[s].seq = l.seq /\ handle[c].idx \in slot[s].mask
  BY <1>1, HandleTypes DEF Valid, StillThere, l
<1>5. s \in Deliverable(c)
  BY <1>2, <1>3, <1>4, DeliverablePlaces DEF Seen, Candidate
<1>6. \A q \in Producers : ~Commit(q) /\ ~Address(q) /\ ~Kill(q)
  <2>1. \A q \in Producers : pc'[q] = pc[q]
    BY <1>1, Outside
  <2> QED BY <1>1, <2>1, StoreValues, KillFrame, Outside
<1>7. ASSUME NEW d \in Consumers, d # c
      PROVE  /\ Due(d)' = Due(d) /\ Earlier(d)' = Earlier(d) /\ HeldBy(d)' = HeldBy(d)
             /\ d \in OpenConsumers' <=> d \in OpenConsumers
             /\ d \in OpenConsumers => (d \in Addressees' <=> d \in Addressees)
  <2>1. Rests(d)
    BY <1>1, <1>7, OthersRest, Outside DEF Receive
  <2> QED BY <1>6, <2>1, RestsDue, AddresseeStays DEF Rests
<1>8. OpenConsumers' = OpenConsumers /\ Addressees' = Addressees
  <2>1. OpenConsumers' = OpenConsumers
    BY <1>3, <1>7 DEF OpenConsumers
  <2>2. c \in Addressees' <=> c \in Addressees
    BY <1>1, <1>3, <1>6, AddresseeStays
  <2> QED BY <1>7, <2>1, <2>2 DEF Addressees, OpenConsumers
<1>9. HeldBy(c)' = HeldBy(c) \cup {s}
  BY <1>1 DEF HeldBy
<1>10. ASSUME NEW t \in Slots, Seen(c, t)
       PROVE  /\ SeqNewer(slot[t].seq, l.seq) <=> t \in Deliverable(c) /\ t # s
              /\ t \in Deliverable(c) => ~SeqNewer(l.seq, slot[t].seq)
  <2>1. slot[t].seq \in Seqs /\ Place(slot[t].seq) \in Int /\ Place(slot[t].seq) <= MaxPublications
    BY <1>10, SlotTypes, NextPlace DEF Seen, PlaceInv
  <2>2. Place(l.seq) <= MaxPublications /\ Place(l.seq) > Place(handle[c].last)
        /\ Place(handle[c].last) \in Int
    BY <1>2, HandleTypes DEF Candidate, Numbered
  <2>3. /\ SeqNewer(slot[t].seq, l.seq) <=> Place(slot[t].seq) > Place(l.seq)
        /\ SeqNewer(l.seq, slot[t].seq) <=> Place(l.seq) > Place(slot[t].seq)
    BY <1>4, <2>1, <2>2, NewerByPlace
  <2>4. t # s => Place(slot[t].seq) # Place(l.seq)
    BY <1>4, <1>10, <2>1, PlaceUnique DEF Seen, PlaceInv
  <2>5. t \in Deliverable(c) <=> Place(slot[t].seq) > Place(handle[c].last)
    BY <1>3, <1>10, DeliverablePlaces
  <2>6. t \in Deliverable(c) => ~(Place(slot[t].seq) < Place(l.seq))
    BY <1>2 DEF Older
  <2> HIDE DEF DeliveryInv, IInv
  <2> QED BY <1>4, <2>1, <2>2, <2>3, <2>4, <2>5, <2>6
<1>11. Due(c) = Deliverable(c) /\ Due(c)' = Due(c) \ {s}
  <2>1. Due(c) = Deliverable(c) /\ Due(c)' = Deliverable(c)'
    BY <1>3 DEF Due
  <2>2. Deliverable(c)' = {t \in Slots : Seen(c, t) /\ SeqNewer(slot[t].seq, l.seq)}
    BY <1>1 DEF Deliverable, Seen
  <2>3. \A t \in Deliverable(c) : t \in Slots /\ Seen(c, t)
    BY DEF Deliverable, Seen
  <2> QED BY <1>10, <2>1, <2>2, <2>3
<1>12. Earlier(c)' = {e \in Earlier(c) : e[1] # s /\ e[2] # s}
  BY <1>1, <1>11 DEF Earlier
<1>13. \A t \in Due(c) : <<t, s>> \notin Earlier(c)
  BY <1>4, <1>10, <1>11 DEF Earlier, Deliverable, Seen
<1>14. /\ [d \in Consumers |-> HeldBy(d)]' =
              [[d \in Consumers |-> HeldBy(d)] EXCEPT ![c] = @ \cup {s}]
       /\ [d \in Consumers |-> Due(d)]' = [[d \in Consumers |-> Due(d)] EXCEPT ![c] = @ \ {s}]
       /\ [d \in Consumers |-> Earlier(d)]' = [[d \in Consumers |-> Earlier(d)] EXCEPT
                                              ![c] = {e \in @ : e[1] # s /\ e[2] # s}]
  BY <1>7, <1>9, <1>11, <1>12
<1>15. /\ [d \in Consumers |-> Due(d)][c] = Due(c)
       /\ [d \in Consumers |-> Earlier(d)][c] = Earlier(c)
  OBVIOUS
<1>16. s \in Due(c)
  BY <1>5, <1>11
<1> HIDE DEF DeliveryInv, IInv
<1> QED BY <1>8, <1>13, <1>14, <1>15, <1>16 DEF Contract!Deliver

\* What is released was delivered before, so its consumer is not to receive it again.
LEMMA ReleaseLetsGo ==
    ASSUME DeliveryInv, [Next]_vars, NEW c \in Consumers, Release(c)
    PROVE  Contract!LetGo(c)
<1> USE DEF DeliveryInv, IInv
<1> DEFINE l == returning[c]
           s == l.slot
<1>1. /\ c \in alive /\ pc[c] = "release" /\ pc'[c] = "open" /\ l \in handle[c].leases
      /\ s \in Slots /\ DropBit(s, handle[c].idx)
      /\ handle'[c].idx = handle[c].idx /\ handle'[c].last = handle[c].last
      /\ handle'[c].leases = handle[c].leases \ {l} /\ UNCHANGED alive
      /\ \A q \in Procs \ {c} : pc'[q] = pc[q]
  BY ReleaseValues, Outside DEF Types
<1>2. Member(c) /\ LastOf(c) /\ c \in OpenConsumers /\ c \in OpenConsumers'
  BY <1>1 DEF Member, OpenStages, LastInv, OpenConsumers
<1> HIDE DEF l
<1>3. /\ slot'[s].mask = slot[s].mask \ {handle[c].idx}
      /\ \A t \in Slots \ {s} : slot'[t] = slot[t]
      /\ \A t \in Slots : slot'[t].state = slot[t].state /\ slot'[t].seq = slot[t].seq
  BY <1>1, DropValue
<1>4. s \notin Deliverable(c)
  <2>1. slot[s].seq = l.seq /\ l.seq \in Seqs
    BY <1>1, LeaseSlots DEF LeaseInv, StillThere
  <2>2. Place(slot[s].seq) <= Place(handle[c].last)
    BY <1>1, <1>2, <2>1 DEF LastOf
  <2> QED BY <1>1, <1>2, <2>2, DeliverablePlaces, SlotTypes, HandleTypes
<1>5. Due(c)' = Due(c) /\ Earlier(c)' = Earlier(c)
  <2>1. Due(c) = Deliverable(c) /\ Due(c)' = Deliverable(c)'
    BY <1>2 DEF Due
  <2>2. Due(c)' = Due(c)
    BY <1>1, <1>3, <1>4, <2>1 DEF Deliverable
  <2>3. \A t \in Due(c) : t \in Slots /\ slot'[t].seq = slot[t].seq
    BY <1>3, <2>1 DEF Deliverable
  <2> QED BY <2>2, <2>3 DEF Earlier, SeqNewer
<1>6. \A q \in Producers : ~Commit(q) /\ ~Address(q) /\ ~Kill(q)
  <2>1. \A q \in Producers : pc'[q] = pc[q]
    BY <1>1, Outside
  <2> QED BY <1>1, <2>1, StoreValues, KillFrame, Outside
<1>7. ASSUME NEW d \in Consumers, d # c
      PROVE  /\ Due(d)' = Due(d) /\ Earlier(d)' = Earlier(d) /\ HeldBy(d)' = HeldBy(d)
             /\ d \in OpenConsumers' <=> d \in OpenConsumers
             /\ d \in OpenConsumers => (d \in Addressees' <=> d \in Addressees)
  <2>1. Rests(d)
    BY <1>1, <1>7, OthersRest, Outside DEF Receive
  <2> QED BY <1>6, <2>1, RestsDue, AddresseeStays DEF Rests
<1>8. OpenConsumers' = OpenConsumers /\ Addressees' = Addressees
  <2>1. OpenConsumers' = OpenConsumers
    BY <1>2, <1>7 DEF OpenConsumers
  <2>2. c \in Addressees' <=> c \in Addressees
    BY <1>1, <1>2, <1>6, AddresseeStays
  <2> QED BY <1>7, <2>1, <2>2 DEF Addressees, OpenConsumers
<1>9. HeldBy(c)' = HeldBy(c) \ {s} /\ s \in HeldBy(c)
  <2>1. ASSUME NEW m \in handle[c].leases, m.slot = s PROVE m = l
    <3>1. m \in Lease /\ l \in Lease
      BY <1>1, HandleTypes
    <3>2. m.seq = l.seq
      BY <1>1, <2>1 DEF LeaseInv, StillThere
    <3> QED BY <2>1, <3>1, <3>2 DEF Lease
  <2> QED BY <1>1, <2>1 DEF HeldBy
<1>10. [d \in Consumers |-> HeldBy(d)]' = [[d \in Consumers |-> HeldBy(d)] EXCEPT ![c] = @ \ {s}]
  BY <1>7, <1>9
<1> QED BY <1>5, <1>7, <1>8, <1>9, <1>10 DEF Contract!LetGo

LEMMA CloseLeaves ==
    ASSUME DeliveryInv, [Next]_vars, NEW c \in Consumers, StartClose(c)
    PROVE  Contract!Leave({c}, {c})
<1> USE DEF DeliveryInv, IInv
<1>1. /\ c \in alive /\ pc'[c] = "close" /\ handle[c].leases = {} /\ UNCHANGED <<alive, handle>>
      /\ \A q \in Procs \ {c} : pc'[q] = pc[q]
  BY Outside DEF StartClose, Goto, MembershipOnly, Types
<1>2. c \notin OpenConsumers'
  BY <1>1 DEF OpenConsumers
<1>3. \A q \in Producers : ~Commit(q) /\ ~Address(q) /\ ~Kill(q)
  <2>1. \A q \in Producers : pc'[q] = pc[q]
    BY <1>1, Outside
  <2> QED BY <1>1, <2>1, StoreValues, KillFrame, Outside
<1>4. ASSUME NEW d \in Consumers, d # c
      PROVE  /\ Due(d)' = Due(d) /\ Earlier(d)' = Earlier(d) /\ HeldBy(d)' = HeldBy(d)
             /\ d \in OpenConsumers' <=> d \in OpenConsumers
             /\ d \in OpenConsumers => (d \in Addressees' <=> d \in Addressees)
  <2>1. Rests(d)
    BY <1>1, <1>4, OthersRest, Outside DEF Membership
  <2> QED BY <1>1, <1>3, <2>1, RestsDue, AddresseeStays DEF Rests
<1>5. OpenConsumers' = OpenConsumers \ {c}
  BY <1>2, <1>4 DEF OpenConsumers
<1>6. Addressees' = Addressees \ {c}
  BY <1>2, <1>4, <1>5 DEF Addressees, OpenConsumers
<1>7. Due(c)' = {} /\ Earlier(c)' = {} /\ HeldBy(c)' = {}
  BY <1>1, <1>2 DEF Due, Earlier, HeldBy
<1> QED BY <1>4, <1>5, <1>6, <1>7 DEF Contract!Leave

LEMMA KillLeaves ==
    ASSUME DeliveryInv, [Next]_vars, NEW c \in Consumers, Kill(c)
    PROVE  Contract!Leave({c}, {c})
<1> USE DEF DeliveryInv, IInv
<1>1. /\ c \in Procs /\ c \notin alive' /\ \A q \in Procs \ {c} : q \in alive' <=> q \in alive
      /\ handle'[c] = Closed /\ UNCHANGED slot
      /\ \A q \in Procs \ {c} : pc'[q] = pc[q]
  BY KillFrame, Outside
<1>2. c \notin OpenConsumers'
  BY <1>1 DEF OpenConsumers
<1>3. ASSUME NEW q \in Producers PROVE ~Commit(q) /\ ~Address(q) /\ ~Kill(q)
  <2>1. pc'[q] = pc[q] /\ (q \in alive' <=> q \in alive)
    BY <1>1, Outside
  <2> QED BY <2>1, StoreValues, KillFrame, Outside
<1>4. ASSUME NEW d \in Consumers, d # c
      PROVE  /\ Due(d)' = Due(d) /\ Earlier(d)' = Earlier(d) /\ HeldBy(d)' = HeldBy(d)
             /\ d \in OpenConsumers' <=> d \in OpenConsumers
             /\ d \in OpenConsumers => (d \in Addressees' <=> d \in Addressees)
  <2>1. Aside(d)
    BY <1>1, <1>4, KillFrame, Outside DEF Aside
  <2>2. Rests(d)
    BY <1>1, <1>4, <2>1, AsideRests, Outside
  <2> QED BY <1>3, <2>2, RestsDue, AddresseeStays DEF Rests
<1>5. OpenConsumers' = OpenConsumers \ {c}
  BY <1>2, <1>4 DEF OpenConsumers
<1>6. Addressees' = Addressees \ {c}
  BY <1>2, <1>4, <1>5 DEF Addressees, OpenConsumers
<1>7. Due(c)' = {} /\ Earlier(c)' = {} /\ HeldBy(c)' = {}
  BY <1>1, <1>2, ClosedType DEF Due, Earlier, HeldBy
<1> QED BY <1>4, <1>5, <1>6, <1>7 DEF Contract!Leave

\* A killed producer's publication is given up; if it had none in the making, nobody
\* sees that it is gone.
LEMMA KillGivesUp ==
    ASSUME DeliveryInv, [Next]_vars, NEW p \in Producers, Kill(p)
    PROVE  Contract!GiveUp \/ UNCHANGED Contract!mvars
<1> USE DEF DeliveryInv, IInv
<1>1. /\ p \in Procs /\ p \in alive /\ alive' = alive \ {p} /\ UNCHANGED slot
      /\ \A q \in Procs \ {p} : pc'[q] = pc[q]
      /\ \A q \in Producers \ {p} : pick'[q] = pick[q]
  BY KillFrame, Outside
<1>2. ASSUME NEW q \in Producers PROVE ~Commit(q)
  <2>1. CASE q = p
    BY <1>1, <2>1, StoringFrame DEF Storing
  <2>2. CASE q # p
    BY <1>1, <2>2, StoreValues, Outside
  <2> QED BY <2>1, <2>2
<1>3. ASSUME NEW d \in Consumers
      PROVE  Rests(d) /\ Aside(d)
  <2>1. Aside(d) /\ d # p
    BY <1>1, KillFrame, Outside DEF Aside
  <2> QED BY <1>1, <2>1, AsideRests
<1>4. \A d \in Consumers : Due(d)' = Due(d) /\ Earlier(d)' = Earlier(d) /\ HeldBy(d)' = HeldBy(d)
  BY <1>2, <1>3, RestsDue DEF Rests
<1>5. OpenConsumers' = OpenConsumers
  BY <1>3 DEF Rests, OpenConsumers
<1>6. CASE pc[p] \in Making
  <2>1. \A q \in Producers \cap alive' : pc'[q] = "off"
    BY <1>1, <1>6, OneProducer, Outside DEF Making
  <2>2. Addressees' = {}
    BY <2>1 DEF Addressees
  <2> QED BY <1>4, <1>5, <2>2 DEF Contract!GiveUp
<1>7. CASE pc[p] \notin Making
  <2>1. \A d \in Consumers : handle'[d] = handle[d]
    BY <1>3 DEF Aside
  <2>2. Addressees' = Addressees
    BY <1>1, <1>5, <1>7, <2>1, Outside DEF Addressees, OpenConsumers, Making
  <2> QED BY <1>4, <1>5, <2>2 DEF Contract!mvars
<1> QED BY <1>6, <1>7

\* Everything else goes unseen.
LEMMA RestUnseen ==
    ASSUME DeliveryInv, [Next]_vars,
           \A p \in Producers : ~Address(p) /\ ~Commit(p),
           \A p \in Procs : ~Kill(p),
           \A c \in Consumers : ~Activate(c) /\ ~(Take(c) /\ Valid(c)) /\ ~Release(c) /\ ~StartClose(c)
    PROVE  UNCHANGED Contract!mvars
<1> USE DEF DeliveryInv
<1>1. UNCHANGED alive
  BY Kinds, StoringFrame DEF Calm, Advance, ProducerOnly
<1>2. \A d \in Consumers : Rests(d)
  BY <1>1, Bystander, AsideRests, MineRests, Outside
<1>3. \A d \in Consumers : Due(d)' = Due(d) /\ Earlier(d)' = Earlier(d) /\ HeldBy(d)' = HeldBy(d)
  BY <1>2, RestsDue DEF Rests
<1>4. OpenConsumers' = OpenConsumers
  BY <1>2 DEF Rests, OpenConsumers
<1>5. Addressees' = Addressees
  <2>1. ASSUME NEW d \in Consumers, d \in OpenConsumers PROVE d \in Addressees' <=> d \in Addressees
    BY <1>2, <2>1, AddresseeStays, Outside DEF Rests
  <2> QED BY <1>4, <2>1 DEF Addressees, OpenConsumers
<1> QED BY <1>3, <1>4, <1>5 DEF Contract!mvars

LEMMA MulticastStart == Init => Contract!Init
<1> SUFFICES ASSUME Init PROVE Contract!Init
  OBVIOUS
<1>1. OpenConsumers = {}
  BY Outside DEF Init, OpenConsumers
<1>2. Addressees = {} /\ \A c \in Consumers : Due(c) = {}
  BY <1>1 DEF Addressees, Due
<1>3. \A c \in Consumers : Earlier(c) = {} /\ HeldBy(c) = {}
  BY <1>2 DEF Init, Earlier, HeldBy, Closed
<1> QED BY <1>1, <1>2, <1>3 DEF Contract!Init

LEMMA MulticastStep ==
    ASSUME DeliveryInv, [Next]_vars
    PROVE  [Contract!Next]_(Contract!mvars)
<1>1. ASSUME NEW c \in Consumers, Contract!Leave({c}, {c}) PROVE Contract!Next
  <2>1. {c} \in SUBSET Consumers
    OBVIOUS
  <2> QED BY <1>1, <2>1 DEF Contract!Next
<1>2. ASSUME NEW c \in Consumers, Activate(c) \/ (Take(c) /\ Valid(c)) \/ Release(c) \/ StartClose(c)
      PROVE  Contract!Next
  BY <1>1, <1>2, ActivateJoins, TakeDelivers, ReleaseLetsGo, CloseLeaves DEF Contract!Next
<1>3. ASSUME NEW p \in Producers, Address(p) \/ Commit(p) PROVE Contract!Next
  BY <1>3, AddressBegins, CommitPublishes DEF Contract!Next
<1>4. ASSUME NEW p \in Procs, Kill(p) PROVE [Contract!Next]_(Contract!mvars)
  <2>1. CASE p \in Consumers
    BY <1>1, <1>4, <2>1, KillLeaves
  <2>2. CASE p \in Producers
    BY <1>4, <2>2, KillGivesUp DEF Contract!Next
  <2> QED BY <2>1, <2>2 DEF Procs
<1> QED BY <1>2, <1>3, <1>4, RestUnseen

\* The ring taken apart still is a multicast: each consumer is given what was begun while
\* it was open, once and in order, although next_raw reads the slots one load at a time
\* while they are recycled and committed, and whoever is killed wherever it is.
THEOREM IsMulticast == Spec => ImplementsMulticast
<1>1. Init => Contract!Init
  BY MulticastStart
<1>2. DeliveryInv /\ [Next]_vars => [Contract!Next]_(Contract!mvars)
  BY MulticastStep
<1> QED BY <1>1, <1>2, DeliveryInvariance, PTL DEF Spec, ImplementsMulticast, Contract!Spec

-----------------------------------------------------------------------------
(* Nobody sleeps beside a publication, as long as the producers live.      *)

Unharmed == Producers \subseteq alive

\* Every slot in WRITING is being worked on.
MakerInv ==
    Unharmed => \A s \in Slots : slot[s].state = "WRITING" =>
        \E p \in Producers : pick[p] = s /\ pc[p] \in Working

\* A consumer that is told will not sleep, or will be woken.
Told(c) == heard[c] \/ \E p \in Producers : pc[p] = "signal"

\* What was found is there, or is not yet made.
Genuine(c, l) == l.slot \in Deliverable(c) /\ slot[l.slot].seq = l.seq
Unmade(c, l) == Genuine(c, l) \/ Place(l.seq) >= Coming

\* As long as a consumer is not told, nothing was committed since it loaded the word:
\* the first pass misses nothing, and what stands in its way is the oldest there is.
Unaware(c) ==
    /\ pc[c] \in Scanning /\ scan[c].found # None => Unmade(c, scan[c].found)
    /\ pc[c] \in Scanning /\ scan[c].again = 0 =>
          \A d \in Deliverable(c) : Passed(c, d) => Reached(c, d)
    /\ (pc[c] \in Scanning /\ scan[c].again > 0) \/ pc[c] \in {"check", "recheck"} =>
          /\ Unmade(c, scan[c].oldest)
          /\ \A d \in Deliverable(c) : Place(scan[c].oldest.seq) <= Place(slot[d].seq)
    /\ pc[c] = "wait" => Deliverable(c) = {}

WakeOf(c) ==
    /\ pc[c] = "loadSeq" => handle[c].idx \in slot[at[c]].mask
    /\ ~Told(c) => Unaware(c)
    /\ pc[c] = "asleep" /\ Deliverable(c) # {} =>
          \E p \in Producers : pc[p] \in {"signal", "wake"}

WakeInv == MakerInv /\ (Unharmed => \A c \in Consumers \cap alive : WakeOf(c))

LEMMA MakerStep ==
    ASSUME IInv, PlaceInv, MakerInv, [Next]_vars
    PROVE  MakerInv'
<1> USE DEF IInv
<1> SUFFICES ASSUME Unharmed', NEW s \in Slots, slot'[s].state = "WRITING"
             PROVE  \E p \in Producers : pick'[p] = s /\ pc'[p] \in Working
  BY DEF MakerInv
<1>1. Unharmed
  BY Dying DEF Unharmed
<1>2. CASE Calm /\ (UNCHANGED slot \/ Dropped \/ Swept)
  <2>1. slot[s].state = "WRITING"
    BY <1>2, CalmSlots
  <2>2. PICK p \in Producers : pick[p] = s /\ pc[p] \in Working
    BY <1>1, <2>1 DEF MakerInv
  <2>3. pick'[p] = s /\ pc'[p] = pc[p]
    BY <1>1, <1>2, <2>2 DEF Calm, Unharmed
  <2> QED BY <2>2, <2>3
<1>3. ASSUME NEW p \in Producers, Storing(p) PROVE pick'[p] = s /\ pc'[p] \in Working
  <2>1. /\ p \in alive /\ pick[p] \in Slots /\ \A t \in Slots \ {pick[p]} : slot'[t] = slot[t]
        /\ \A q \in Producers \cap alive : q # p => pc[q] = "off"
        /\ UNCHANGED pick
    BY <1>3, StoringFrame
  <2>2. s = pick[p]
    <3> SUFFICES ASSUME s # pick[p] PROVE FALSE
      OBVIOUS
    <3>1. PICK q \in Producers : pick[q] = s /\ pc[q] \in Working
      BY <1>1, <2>1 DEF MakerInv
    <3> QED BY <1>1, <2>1, <3>1 DEF Unharmed, Working
  <2>3. ~Commit(p)
    BY <2>2, StoreValues DEF Becomes
  <2>4. pc'[p] \in Working
    BY <1>3, <2>3, StoreValues DEF Storing, Working
  <2> QED BY <2>1, <2>2, <2>4
<1>4. ASSUME NEW p \in Producers, Advance(p)
      PROVE  \E q \in Producers : pick'[q] = s /\ pc'[q] \in Working
  <2>1. UNCHANGED <<slot, pick>> /\ pc' = [pc EXCEPT ![p] = "copy"]
    BY <1>4 DEF Advance, Goto, ProducerOnly
  <2>2. PICK q \in Producers : pick[q] = s /\ pc[q] \in Working
    BY <1>1, <2>1 DEF MakerInv
  <2> QED BY <2>1, <2>2, Outside DEF Types, Working
<1>5. ASSUME NEW p \in Procs, Kill(p)
      PROVE  \E q \in Producers : pick'[q] = s /\ pc'[q] \in Working
  <2>1. p \notin Producers /\ UNCHANGED slot
    BY <1>5, KillFrame DEF Unharmed
  <2>2. PICK q \in Producers : pick[q] = s /\ pc[q] \in Working
    BY <1>1, <2>1 DEF MakerInv
  <2> QED BY <1>5, <2>1, <2>2, KillFrame, Outside
<1> QED BY <1>2, <1>3, <1>4, <1>5, Kinds

\* A bit is in a slot that is committed, or in the publication that is coming.
LEMMA BitMeaning ==
    ASSUME IInv, PlaceInv, BitInv, MakerInv, Unharmed, NEW s \in Slots, NEW i \in slot[s].mask
    PROVE  \/ slot[s].state = "COMMITTED"
           \/ /\ Place(slot[s].seq) = Coming
              /\ \E p \in Producers \cap alive : pick[p] = s /\ pc[p] \in Making
<1>1. slot[s].state # "FREE"
  BY DEF BitInv
<1>2. ASSUME slot[s].state = "WRITING"
      PROVE  \E p \in Producers \cap alive : pick[p] = s /\ pc[p] \in Making
  <2>1. PICK p \in Producers : pick[p] = s /\ pc[p] \in Working
    BY <1>2 DEF MakerInv
  <2>2. p \in alive
    BY DEF Unharmed
  <2>3. pc[p] \notin {"stamp", "number", "address"}
    BY <2>1, <2>2 DEF BitInv
  <2> QED BY <2>1, <2>2, <2>3 DEF Working, Making
<1> QED BY <1>1, <1>2, MakingNewest, SlotTypes DEF IInv

LEMMA BitStays ==
    ASSUME DeliveryInv, MakerInv, Unharmed, Unharmed', [Next]_vars,
           NEW c \in Consumers, Member(c), ~Release(c), NEW s \in Slots, handle[c].idx \in slot[s].mask
    PROVE  handle[c].idx \in slot'[s].mask
<1> USE DEF DeliveryInv
<1>1. CASE slot[s].state = "COMMITTED"
  BY <1>1, SeenStep DEF Seen
<1>2. ASSUME NEW p \in Producers, p \in alive, pick[p] = s, pc[p] \in Making
      PROVE  handle[c].idx \in slot'[s].mask
  <2>1. CASE Commit(p)
    BY <1>2, <2>1, StoreValues DEF Becomes
  <2>2. CASE Kill(p)
    BY <2>2, KillFrame, Outside DEF Unharmed
  <2>3. CASE ~Commit(p) /\ ~Kill(p)
    BY <1>2, <2>3, MakingStays
  <2> QED BY <2>1, <2>2, <2>3
<1> QED BY <1>1, <1>2, BitMeaning

\* Only a commit makes what is coming.
LEMMA ComingStays ==
    ASSUME IInv, PlaceInv, [Next]_vars, Unharmed', \A p \in Producers : ~Commit(p)
    PROVE  Coming' = Coming
<1> USE DEF IInv
<1>1. ASSUME UNCHANGED nextSeq, Copying' <=> Copying PROVE Coming' = Coming
  BY <1>1 DEF Coming, Place
<1>2. CASE Calm
  BY <1>1, <1>2 DEF Calm, Copying, Working
<1>3. ASSUME NEW p \in Producers, Storing(p) PROVE Coming' = Coming
  <2>1. /\ p \in alive /\ UNCHANGED <<nextSeq, alive>>
        /\ \A q \in Producers \cap alive : q # p => pc[q] = "off" /\ pc'[q] = "off"
    BY <1>3, StoringFrame, Outside
  <2>2. pc[p] \in {"copy", "commit"} <=> pc'[p] \in {"copy", "commit"}
    BY <1>3, StoreValues DEF Storing
  <2>3. Copying' <=> Copying
    BY <2>1, <2>2 DEF Copying
  <2> QED BY <1>1, <2>1, <2>3
<1>4. ASSUME NEW p \in Procs, Kill(p) PROVE Coming' = Coming
  <2>1. p \notin Producers
    BY <1>4, KillFrame DEF Unharmed
  <2>2. UNCHANGED nextSeq /\ \A q \in Producers : (q \in alive' <=> q \in alive) /\ pc'[q] = pc[q]
    BY <1>4, <2>1, KillFrame, Outside
  <2> QED BY <1>1, <2>2 DEF Copying
<1> QED BY <1>2, <1>3, <1>4, Kinds, AdvancePlaces

\* Whoever has to signal, or to wake, does so.
LEMMA TellerStays ==
    ASSUME IInv, [Next]_vars, Unharmed', NEW p \in Producers, pc[p] \in {"signal", "wake"}
    PROVE  pc'[p] = pc[p] \/ Signal(p) \/ WakeAll(p)
<1> USE DEF IInv
<1>1. ASSUME NEW q \in Procs, q # p, NEW from, NEW to, Goto(q, from, to) PROVE pc'[p] = pc[p]
  BY <1>1, Outside DEF Goto, Types
<1>2. ASSUME NEW q \in Producers, Publish(q) PROVE pc'[p] = pc[p] \/ Signal(p) \/ WakeAll(p)
  <2>1. CASE q = p
    <3>1. ~\E from, to : from \in Stages \ {"signal", "wake"} /\ Goto(p, from, to)
      BY DEF Goto
    <3>2. {"off", "idle", "choose", "chosen", "stamp", "number", "address", "advance", "copy", "commit"}
             \subseteq Stages \ {"signal", "wake"}
      BY DEF Stages, LockedStages
    <3> QED
      BY <1>2, <2>1, <3>1, <3>2 DEF Publish, Claim, HandBack, StartReserve, StartLocked, Choose, Full, Mark, Stamp,
                Number, Address, Advance, Copy, Commit, Store
  <2>2. CASE q # p /\ ~WakeAll(q)
    <3>1. \E from, to : Goto(q, from, to)
      BY <1>2, <2>2 DEF Publish, Claim, HandBack, StartReserve, StartLocked, Choose, Full, Mark, Stamp,
                Number, Address, Advance, Copy, Commit, Signal, Store
    <3> QED BY <1>1, <2>2, <3>1, Outside
  <2>3. CASE q # p /\ WakeAll(q)
    BY <2>3, Outside DEF WakeAll
  <2> QED BY <2>1, <2>2, <2>3
<1>3. ASSUME NEW c \in Consumers, Membership(c) \/ Receive(c) PROVE pc'[p] = pc[p]
  <2>1. c \in Procs /\ c # p
    BY Outside
  <2>2. \E from, to : Goto(c, from, to)
    <3>1. CASE Membership(c)
      BY <3>1 DEF Membership, StartRegister, StartLocked, Enter, RegistryFull, Activate, CountUp,
                  StartClose, CloseBit, CloseEntry, CountDown
    <3>2. CASE Receive(c)
      BY <3>2 DEF Receive, Observe, LoadState, LoadMask, LoadSeq, Onward, Compare, Check, Take, Sleep,
                  EndWait, StartRelease, Release
    <3> QED BY <1>3, <3>1, <3>2
  <2> QED BY <1>1, <2>1, <2>2
<1>4. ASSUME NEW q \in Procs, ReapEntry(q) \/ ReapCount(q) \/ ReapSlot(q) PROVE pc'[p] = pc[p]
  <2>1. (\E from, to : Goto(q, from, to)) /\ pc[q] \in {"reap", "countDead"}
    <3>1. CASE ReapEntry(q)
      BY <3>1 DEF ReapEntry, Goto
    <3>2. CASE ReapCount(q)
      BY <3>2 DEF ReapCount, Goto
    <3>3. CASE ReapSlot(q)
      BY <3>3 DEF ReapSlot, Goto
    <3> QED BY <1>4, <3>1, <3>2, <3>3
  <2> QED BY <1>1, <2>1
<1>5. ASSUME NEW q \in Procs, Kill(q) PROVE pc'[p] = pc[p]
  BY <1>5, KillFrame, Outside DEF Unharmed
<1>6. CASE UNCHANGED vars
  BY <1>6 DEF vars
<1> QED BY <1>2, <1>3, <1>4, <1>5, <1>6 DEF Next

LEMMA ToldStays ==
    ASSUME IInv, [Next]_vars, Unharmed', NEW c \in Consumers, Aside(c), pc[c] \in Waiting, Told(c)
    PROVE  Told(c)'
<1>1. ASSUME NEW p \in Producers, Signal(p) PROVE heard'[c]
  BY <1>1 DEF Signal
<1>2. CASE heard[c]
  BY <1>1, <1>2 DEF Aside, Told
<1>3. ASSUME NEW p \in Producers, pc[p] = "signal", ~Signal(p) PROVE pc'[p] = "signal"
  <2>1. ~WakeAll(p)
    BY <1>3 DEF WakeAll
  <2> QED BY <1>3, <2>1, TellerStays
<1> QED BY <1>1, <1>2, <1>3 DEF Told

LEMMA AsideWake ==
    ASSUME DeliveryInv, MakerInv, Unharmed, Unharmed', [Next]_vars,
           NEW c \in Consumers, c \in alive, Aside(c), WakeOf(c)
    PROVE  WakeOf(c)'
<1> USE DEF DeliveryInv
<1>1. /\ handle'[c] = handle[c] /\ scan'[c] = scan[c] /\ at'[c] = at[c]
      /\ pc'[c] = pc[c] \/ (pc[c] = "asleep" /\ pc'[c] = "open")
  BY DEF Aside
<1>2. CASE pc[c] \notin Waiting \cup {"asleep"} \/ pc'[c] = "open"
  <2>1. pc'[c] \notin Waiting \cup {"asleep"}
    BY <1>1, <1>2 DEF Waiting
  <2> QED BY <2>1 DEF WakeOf, Unaware, Waiting, Scanning
<1>3. CASE pc[c] \in Waiting \cup {"asleep"} /\ pc'[c] = pc[c]
  <2>1. Member(c) /\ ~Release(c)
    <3>1. Release(c) => pc[c] = "release"
      BY ReleaseValues
    <3> QED BY <1>3, <3>1 DEF Member, OpenStages, Waiting
  <2>2. pc'[c] = "loadSeq" => handle'[c].idx \in slot'[at'[c]].mask
    <3> SUFFICES ASSUME pc[c] = "loadSeq" PROVE handle[c].idx \in slot'[at[c]].mask
      BY <1>1, <1>3
    <3>1. at[c] \in Slots /\ handle[c].idx \in slot[at[c]].mask
      BY Outside DEF IInv, Loops, WakeOf
    <3> QED BY <2>1, <3>1, BitStays
  <2>3. ASSUME pc[c] \in Waiting, ~Told(c)' PROVE Unaware(c)'
    <3>1. Unaware(c)
      BY <2>3, ToldStays DEF WakeOf
    <3>2. \A p \in Producers : ~Commit(p)
      BY <2>3, StoreValues DEF Told
    <3>3. Coming' = Coming
      BY <3>2, ComingStays
    <3>4. \A d \in Slots : d \in Deliverable(c)' <=> d \in Deliverable(c)
      BY <1>1, <2>1, <3>2, DeliverableStep
    <3>5. \A d \in Deliverable(c) : d \in Slots /\ slot'[d].seq = slot[d].seq
      BY <1>1, <2>1, DeliverableStep DEF Deliverable
    <3>6. Deliverable(c)' = Deliverable(c)
      BY <3>4 DEF Deliverable
    <3>7. ASSUME NEW l, Unmade(c, l)
          PROVE  (l.slot \in Deliverable(c)' /\ slot'[l.slot].seq = l.seq) \/ Place(l.seq) >= Coming'
      BY <3>3, <3>5, <3>6, <3>7 DEF Unmade, Genuine
    <3>8. pc'[c] \in Scanning /\ scan'[c].found # None => Unmade(c, scan[c].found)'
      BY <1>1, <1>3, <3>1, <3>7 DEF Unaware, Unmade, Genuine, Place
    <3>9. pc'[c] \in Scanning /\ scan'[c].again = 0 =>
             \A d \in Deliverable(c)' : Passed(c, d)' => Reached(c, d)'
      BY <1>1, <1>3, <3>1, <3>5, <3>6 DEF Unaware, Passed, Reached, Place
    <3>10. (pc'[c] \in Scanning /\ scan'[c].again > 0) \/ pc'[c] \in {"check", "recheck"} =>
             /\ Unmade(c, scan[c].oldest)'
             /\ \A d \in Deliverable(c)' : Place(scan'[c].oldest.seq) <= Place(slot'[d].seq)
      BY <1>1, <1>3, <3>1, <3>5, <3>6, <3>7 DEF Unaware, Unmade, Genuine, Place
    <3>11. pc'[c] = "wait" => Deliverable(c)' = {}
      BY <1>1, <1>3, <3>1, <3>6 DEF Unaware
    <3> QED BY <3>8, <3>9, <3>10, <3>11 DEF Unaware, Place
  <2>4. ASSUME pc[c] = "asleep", Deliverable(c)' # {}
        PROVE  \E p \in Producers : pc'[p] \in {"signal", "wake"}
    <3>1. PICK d \in Slots : d \in Deliverable(c)'
      BY <2>4 DEF Deliverable
    <3>2. CASE \E p \in Producers : Commit(p)
      BY <3>2, StoreValues
    <3>3. CASE \A p \in Producers : ~Commit(p)
      <4>1. d \in Deliverable(c)
        BY <1>1, <2>1, <3>1, <3>3, DeliverableStep
      <4>2. PICK p \in Producers : pc[p] \in {"signal", "wake"}
        BY <2>4, <4>1 DEF WakeOf
      <4>3. ~WakeAll(p)
        BY <1>3, <2>4, Outside DEF WakeAll
      <4>4. Signal(p) => pc'[p] = "wake"
        BY Outside DEF Signal, Goto, IInv, Types
      <4> QED BY <4>2, <4>3, <4>4, TellerStays
    <3> QED BY <3>2, <3>3
  <2>5. pc[c] = "asleep" => Unaware(c)'
    BY <1>3 DEF Unaware, Scanning
  <2> QED BY <1>3, <2>2, <2>3, <2>4, <2>5 DEF WakeOf
<1> QED BY <1>1, <1>2, <1>3

\* The consumer's own loads tell it nothing, and it tells nobody.
LEMMA OwnStep ==
    ASSUME Types, NEW c \in Consumers, NEW from, NEW to, Goto(c, from, to), heard'[c] = heard[c]
    PROVE  Told(c)' <=> Told(c)
<1>1. \A p \in Producers : pc'[p] = pc[p]
  BY Outside DEF Goto, Types
<1> QED BY <1>1 DEF Told

\* As OnwardScan, for one that has not been told.
LEMMA OnwardWake ==
    ASSUME IInv, NEW c \in Consumers, Unaware(c),
           NEW from \in {"loadState", "loadMask", "loadSeq"}, Onward(c, from), Reading,
           handle'[c] = handle[c],
           scan'[c].oldest = scan[c].oldest, scan'[c].again = scan[c].again,
           scan'[c].found # None => Unmade(c, scan'[c].found),
           \A d \in Deliverable(c) : Reached(c, d) \/ d = at[c] => Reached(c, d)'
    PROVE  Unaware(c)'
<1> USE DEF IInv
<1> DEFINE to == IF at[c] < SlotCount THEN "loadState" ELSE "compare"
<1>1. /\ c \in alive /\ pc[c] = from /\ pc'[c] = to /\ UNCHANGED <<slot, nextSeq>>
      /\ Coming' = Coming /\ Deliverable(c)' = Deliverable(c)
      /\ at' = [at EXCEPT ![c] = IF @ < SlotCount THEN @ + 1 ELSE 1]
  BY Loading DEF Onward
<1>2. at[c] \in Nat /\ at[c] \in Slots /\ at'[c] = IF at[c] < SlotCount THEN at[c] + 1 ELSE 1
  BY <1>1, Outside DEF Types, Loops
<1>3. SlotCount \in Nat
  BY StepsAssumption
<1>4. \A d \in Slots : Passed(c, d)' => Passed(c, d) \/ d = at[c]
  BY <1>1, <1>2, <1>3 DEF Passed, Slots
<1>5. scan'[c].found # None => Unmade(c, scan[c].found)'
  BY <1>1 DEF Unmade, Genuine, Place
<1>6. ASSUME scan[c].again = 0, NEW d \in Deliverable(c)', Passed(c, d)' PROVE Reached(c, d)'
  <2>1. d \in Deliverable(c) /\ d \in Slots
    BY <1>1, <1>6 DEF Deliverable
  <2>2. Reached(c, d) \/ d = at[c]
    BY <1>1, <1>4, <1>6, <2>1 DEF Unaware, Scanning
  <2> QED BY <2>1, <2>2
<1>7. ASSUME scan[c].again > 0
      PROVE  /\ Unmade(c, scan[c].oldest)'
             /\ \A d \in Deliverable(c)' : Place(scan'[c].oldest.seq) <= Place(slot'[d].seq)
  BY <1>1, <1>7 DEF Unaware, Scanning, Unmade, Genuine, Place
<1>8. to \in {"loadState", "compare"}
  OBVIOUS
<1> HIDE DEF to
<1> QED BY <1>1, <1>5, <1>6, <1>7, <1>8 DEF Unaware, Place

\* The outcome of a step of the scan.
LEMMA ScanWake ==
    ASSUME Types, NEW c \in Consumers, NEW from, NEW to, Goto(c, from, to), heard'[c] = heard[c],
           WakeOf(c), from \in Waiting, pc'[c] # "asleep",
           pc'[c] = "loadSeq" => handle'[c].idx \in slot'[at'[c]].mask,
           Unaware(c) /\ ~Told(c) => Unaware(c)'
    PROVE  WakeOf(c)'
  BY OwnStep DEF WakeOf

LEMMA LoadWake ==
    ASSUME IInv, NEW c \in Consumers, WakeOf(c), LoadState(c) \/ LoadMask(c)
    PROVE  WakeOf(c)'
<1> USE DEF IInv
<1>1. Reading /\ UNCHANGED <<handle, scan, heard>>
  BY DEF LoadState, LoadMask
<1>2. ASSUME NEW from \in {"loadState", "loadMask"}, Onward(c, from), at[c] \notin Deliverable(c)
      PROVE  WakeOf(c)'
  <2>1. PICK to \in {"loadState", "compare"} : Goto(c, from, to)
    BY <1>2 DEF Onward
  <2>2. UNCHANGED slot /\ pc'[c] = to
    BY <1>1, <2>1, Loading
  <2>3. \A d \in Deliverable(c) : Reached(c, d) \/ d = at[c] => Reached(c, d)'
    BY <1>1, <1>2, <2>2 DEF Reached, Place
  <2>4. Unaware(c) => Unaware(c)'
    <3>1. pc[c] = from
      BY <2>1 DEF Goto
    <3> QED BY <1>1, <1>2, <2>3, <3>1, OnwardWake DEF Unaware, Scanning
  <2> QED BY <1>1, <2>1, <2>2, <2>4, ScanWake DEF Waiting
<1>3. ASSUME NEW from \in {"loadState", "loadMask"}, NEW to \in {"loadMask", "loadSeq"},
             Goto(c, from, to), UNCHANGED at, to = "loadSeq" => handle[c].idx \in slot[at[c]].mask
      PROVE  WakeOf(c)'
  <2>1. /\ pc[c] = from /\ pc'[c] = to
        /\ UNCHANGED <<slot, nextSeq, at>> /\ Coming' = Coming /\ Deliverable(c)' = Deliverable(c)
    BY <1>1, <1>3, Loading
  <2>2. Unaware(c) => Unaware(c)'
    BY <1>1, <2>1 DEF Unaware, Scanning, Passed, Reached, Unmade, Genuine, Place
  <2> QED BY <1>1, <1>3, <2>1, <2>2, ScanWake DEF Waiting
<1> QED BY <1>2, <1>3 DEF LoadState, LoadMask, Deliverable

LEMMA LoadSeqWake ==
    ASSUME DeliveryInv, MakerInv, Unharmed, NEW c \in Consumers, WakeOf(c), LoadSeq(c)
    PROVE  WakeOf(c)'
<1> USE DEF DeliveryInv, IInv
<1> DEFINE s == at[c]
           seq == slot[at[c]].seq
           found == scan[c].found
           new == [slot |-> s, seq |-> seq]
           better == SeqNewer(seq, handle[c].last) /\ (found = None \/ SeqNewer(found.seq, seq))
<1>1. /\ Onward(c, "loadSeq") /\ Reading /\ UNCHANGED <<handle, heard>>
      /\ scan' = IF better THEN [scan EXCEPT ![c].found = new] ELSE scan
  BY DEF LoadSeq
<1>2. pc[c] = "loadSeq" /\ s \in Slots /\ UNCHANGED slot /\ c \in alive
  BY <1>1, Loading, Outside DEF Onward, Loops
<1>3. LastOf(c) /\ ScanOf(c)
  BY <1>2 DEF LastInv, ScanInv, Member, OpenStages
<1>4. Numbered(seq) /\ seq \in Seqs /\ Place(seq) \in Int
  BY <1>2, <1>3, SlotTypes DEF ScanOf
<1>5. scan[c] \in ScanRecord
  BY HandleTypes
<1>6. /\ scan'[c].oldest = scan[c].oldest /\ scan'[c].again = scan[c].again
      /\ scan'[c].found = IF better THEN new ELSE found
  BY <1>1, <1>5 DEF Types, ScanRecord
<1>7. new.slot = s /\ new.seq = seq /\ new # None
  BY <1>2 DEF None, Slots
<1>8. found # None => Candidate(c, found) /\ found \in Lease
  BY <1>3, HandleTypes DEF ScanOf
<1>9. better => Unmade(c, new)
  <2>1. CASE slot[s].state = "COMMITTED" /\ better
    <3>1. s \in Deliverable(c) /\ slot[s].seq = seq
      BY <1>2, <2>1 DEF WakeOf, Deliverable
    <3> QED BY <1>7, <3>1 DEF Unmade, Genuine
  <2>2. CASE Place(seq) = Coming
    BY <1>4, <1>7, <2>2 DEF Unmade
  <2> QED BY <1>2, <2>1, <2>2, BitMeaning DEF WakeOf
<1>10. ASSUME found # None, ~better
       PROVE  Place(seq) <= Place(handle[c].last) \/ Place(found.seq) <= Place(seq)
  <2>1. SeqNewer(seq, handle[c].last) <=> Place(seq) > Place(handle[c].last)
    <3>1. Place(handle[c].last) <= MaxPublications
      BY <1>3, NextPlace, HandleTypes DEF LastOf
    <3> QED BY <1>4, <3>1, NewerByPlace, HandleTypes DEF Numbered
  <2>2. SeqNewer(found.seq, seq) <=> Place(found.seq) > Place(seq)
    BY <1>4, <1>8, <1>10, NewerByPlace, HandleTypes DEF Numbered, Candidate
  <2>3. Place(found.seq) \in Int /\ Place(handle[c].last) \in Int
    BY <1>8, <1>10, HandleTypes
  <2> QED BY <1>4, <1>10, <2>1, <2>2, <2>3
<1>11. better /\ found # None => Place(found.seq) > Place(seq)
  BY <1>4, <1>8, NewerByPlace, HandleTypes DEF Numbered, Candidate
<1> HIDE DEF new
<1>12. ASSUME NEW d \in Deliverable(c), Reached(c, d) \/ d = s PROVE Reached(c, d)'
  <2>1. d \in Slots /\ SeqNewer(slot[d].seq, handle[c].last) /\ Place(slot[d].seq) \in Int
    BY SlotTypes DEF Deliverable
  <2>2. Reached(c, d) <=> found # None /\ Place(found.seq) <= Place(slot[d].seq)
    BY DEF Reached
  <2>3. found # None => Place(found.seq) \in Int
    BY <1>8, HandleTypes
  <2>4. d = s /\ ~better => found # None /\ Place(found.seq) <= Place(seq)
    <3> SUFFICES ASSUME d = s, ~better PROVE found # None /\ Place(found.seq) <= Place(seq)
      OBVIOUS
    <3>1. Place(seq) > Place(handle[c].last)
      BY <1>3, <2>1, DeliverablePlaces
    <3>2. found # None
      BY <2>1
    <3> QED BY <1>4, <1>10, <3>1, <3>2, HandleTypes
  <2>5. scan'[c].found # None /\ Place(scan'[c].found.seq) <= Place(slot[d].seq)
    <3>1. CASE better
      <4>1. scan'[c].found # None /\ scan'[c].found.seq = seq
        BY <1>6, <1>7, <3>1
      <4>2. Place(seq) <= Place(slot[d].seq)
        <5>1. CASE d = s
          BY <1>4, <5>1
        <5>2. CASE Reached(c, d)
          BY <1>4, <1>11, <2>1, <2>2, <2>3, <3>1, <5>2
        <5> QED BY <1>12, <5>1, <5>2
      <4> QED BY <4>1, <4>2
    <3>2. CASE ~better
      BY <1>6, <1>12, <2>2, <2>4, <3>2
    <3> QED BY <3>1, <3>2
  <2> QED BY <1>2, <2>5 DEF Reached, Place
<1>13. Unaware(c) => Unaware(c)'
  <2> SUFFICES ASSUME Unaware(c) PROVE Unaware(c)'
    OBVIOUS
  <2>1. scan'[c].found # None => Unmade(c, scan'[c].found)
    BY <1>2, <1>6, <1>9 DEF Unaware, Scanning
  <2> QED BY <1>1, <1>6, <1>12, <2>1, OnwardWake
<1>14. PICK to \in {"loadState", "compare"} : Goto(c, "loadSeq", to)
  BY <1>1 DEF Onward
<1>15. pc'[c] = to
  BY <1>1, <1>14, Loading
<1> QED BY <1>1, <1>13, <1>14, <1>15, ScanWake DEF Waiting

LEMMA CompareWake ==
    ASSUME DeliveryInv, NEW c \in Consumers, WakeOf(c), Compare(c)
    PROVE  WakeOf(c)'
<1> USE DEF DeliveryInv, IInv
<1> DEFINE found == scan[c].found
           oldest == scan[c].oldest
<1>1. /\ Reading /\ UNCHANGED <<at, handle, heard>> /\ pc[c] = "compare" /\ c \in alive
      /\ UNCHANGED slot /\ Coming' = Coming /\ Deliverable(c)' = Deliverable(c)
      /\ scan'[c].found = None
      /\ scan'[c].oldest = IF FoundOlder(c) THEN found ELSE oldest
      /\ scan'[c].again = IF ScanAgain(c) THEN scan[c].again + 1 ELSE 0
      /\ pc'[c] = (IF ScanAgain(c) THEN "loadState"
                   ELSE IF FoundOlder(c) \/ scan[c].again > 0 THEN "check" ELSE "wait")
  BY CompareValues, Loading
<1>2. PICK to : Goto(c, "compare", to)
  BY CompareValues
<1>3. scan[c].again \in 0 .. SlotCount /\ SlotCount \in Nat /\ SlotCount > 0
  BY HandleTypes, StepsAssumption
<1>4. ScanOf(c)
  BY <1>1 DEF ScanInv
<1>5. found # None => Candidate(c, found) /\ found.seq \in Seqs /\ Place(found.seq) \in Int
  BY <1>4, HandleTypes DEF ScanOf
<1>6. scan[c].again > 0 => Candidate(c, oldest) /\ oldest.seq \in Seqs /\ Place(oldest.seq) \in Int
  BY <1>4, HandleTypes DEF ScanOf, Loops
<1>7. found # None /\ scan[c].again > 0 =>
         (SeqNewer(oldest.seq, found.seq) <=> Place(oldest.seq) > Place(found.seq))
  BY <1>5, <1>6, NewerByPlace DEF Candidate, Numbered
<1>8. ASSUME Unaware(c) PROVE Unaware(c)'
  <2>1. /\ found # None => Unmade(c, found)
        /\ scan[c].again = 0 =>
              \A d \in Deliverable(c) : found # None /\ Place(found.seq) <= Place(slot[d].seq)
        /\ scan[c].again > 0 =>
              Unmade(c, oldest) /\ \A d \in Deliverable(c) : Place(oldest.seq) <= Place(slot[d].seq)
    BY <1>1, <1>8 DEF Unaware, Scanning, Passed, Reached
  <2>2. \A d \in Deliverable(c) : Place(slot[d].seq) \in Int
    BY SlotTypes DEF Deliverable
  <2> HIDE DEF found, oldest
  <2>3. ASSUME NEW l, scan'[c].oldest = l, Unmade(c, l),
               \A d \in Deliverable(c) : Place(l.seq) <= Place(slot[d].seq)
        PROVE  /\ Unmade(c, scan[c].oldest)'
               /\ \A d \in Deliverable(c)' : Place(scan'[c].oldest.seq) <= Place(slot'[d].seq)
    BY <1>1, <2>3 DEF Unmade, Genuine, Place
  <2>4. CASE FoundOlder(c)
    <3>1. /\ found # None /\ scan'[c].oldest = found /\ pc'[c] \in {"loadState", "check"}
          /\ pc'[c] = "loadState" => scan'[c].again > 0
      BY <1>1, <1>3, <2>4 DEF FoundOlder, ScanAgain, found
    <3>2. scan[c].again > 0 => SeqNewer(oldest.seq, found.seq)
      BY <2>4 DEF FoundOlder, found, oldest
    <3>3. \A d \in Deliverable(c) : Place(found.seq) <= Place(slot[d].seq)
      BY <1>3, <1>5, <1>6, <1>7, <2>1, <2>2, <3>1, <3>2
    <3> QED BY <1>1, <2>1, <2>3, <3>1, <3>3 DEF Unaware, Scanning, Place
  <2>5. CASE ~FoundOlder(c) /\ scan[c].again > 0
    <3>1. scan'[c].oldest = oldest /\ pc'[c] = "check"
      BY <1>1, <2>5 DEF ScanAgain
    <3> QED BY <1>1, <2>1, <2>3, <2>5, <3>1 DEF Unaware, Scanning, Place
  <2>6. CASE ~FoundOlder(c) /\ ~(scan[c].again > 0)
    <3>1. pc'[c] = "wait" /\ scan[c].again = 0 /\ found = None
      BY <1>1, <1>3, <2>6 DEF ScanAgain, FoundOlder, found
    <3>2. Deliverable(c)' = {}
      BY <1>1, <2>1, <3>1
    <3> QED BY <3>1, <3>2 DEF Unaware, Scanning
  <2> QED BY <2>4, <2>5, <2>6
<1> QED BY <1>1, <1>2, <1>8, ScanWake DEF Waiting

\* What was found and has gone was not the oldest there is: there is none.
LEMMA NothingThere ==
    ASSUME DeliveryInv, NEW c \in Consumers, Unaware(c), pc[c] \in {"check", "recheck"}, ~Valid(c)
    PROVE  Deliverable(c) = {}
<1> USE DEF DeliveryInv, IInv
<1> DEFINE l == scan[c].oldest
<1>1. Unmade(c, l) /\ l \in Lease /\ \A d \in Deliverable(c) : Place(l.seq) <= Place(slot[d].seq)
  BY DEF Unaware, Loops
<1>2. ~Genuine(c, l)
  BY DEF Genuine, Valid, StillThere, Deliverable
<1>3. Place(l.seq) >= Coming /\ Place(l.seq) \in Int
  BY <1>1, <1>2, HandleTypes DEF Unmade
<1> HIDE DEF l
<1>4. ASSUME NEW d \in Deliverable(c) PROVE FALSE
  <2>1. d \in Slots /\ Place(slot[d].seq) < Coming /\ Place(slot[d].seq) \in Int
    BY NextPlace, SlotTypes DEF Deliverable, PlaceInv
  <2> QED BY <1>1, <1>3, <2>1, NextPlace
<1> QED BY <1>4

LEMMA CheckWake ==
    ASSUME DeliveryInv, NEW c \in Consumers, WakeOf(c), Check(c)
    PROVE  WakeOf(c)'
<1> USE DEF DeliveryInv, IInv
<1> DEFINE there == StillThere(scan[c].oldest)
           to == IF there THEN "recheck" ELSE "wait"
<1>1. /\ Goto(c, "check", to) /\ Reading /\ UNCHANGED <<at, handle, heard>>
      /\ scan' = IF there THEN scan ELSE [scan EXCEPT ![c] = NoScan]
  BY DEF Check
<1>2. ~there => ~Valid(c)
  BY DEF Valid
<1> HIDE DEF there, to
<1>3. /\ pc[c] = "check" /\ pc'[c] = to
      /\ UNCHANGED slot /\ Coming' = Coming /\ Deliverable(c)' = Deliverable(c)
  BY <1>1, Loading
<1>4. to = IF there THEN "recheck" ELSE "wait"
  BY DEF to
<1>5. ASSUME Unaware(c) PROVE Unaware(c)'
  <2>1. CASE there
    BY <1>1, <1>3, <1>4, <1>5, <2>1 DEF Unaware, Scanning, Unmade, Genuine, Place
  <2>2. CASE ~there
    <3>1. Deliverable(c)' = {} /\ pc'[c] = "wait"
      BY <1>2, <1>3, <1>4, <1>5, <2>2, NothingThere
    <3> QED BY <3>1 DEF Unaware, Scanning
  <2> QED BY <2>1, <2>2
<1> QED BY <1>1, <1>3, <1>4, <1>5, ScanWake DEF Waiting

LEMMA TakeWake ==
    ASSUME DeliveryInv, NEW c \in Consumers, WakeOf(c), Take(c)
    PROVE  WakeOf(c)'
<1> USE DEF DeliveryInv, IInv
<1>1. /\ pc[c] = "recheck" /\ UNCHANGED <<shared, lock, alive, pick, returning, at>>
      /\ pc'[c] = (IF Valid(c) THEN "open" ELSE "wait") /\ heard'[c] = (heard[c] /\ ~Valid(c))
      /\ ~Valid(c) => UNCHANGED handle
  BY TakeValues
<1>2. CASE Valid(c)
  BY <1>1, <1>2 DEF WakeOf, Unaware, Scanning
<1>3. CASE ~Valid(c)
  <2>1. Goto(c, "recheck", "wait")
    BY <1>3 DEF Take, Valid
  <2>2. ASSUME Unaware(c) PROVE Unaware(c)'
    <3>1. Deliverable(c) = {}
      BY <1>1, <1>3, <2>2, NothingThere
    <3>2. Deliverable(c)' = {} /\ pc'[c] = "wait"
      BY <1>1, <1>3, <3>1 DEF Deliverable, shared
    <3> QED BY <3>2 DEF Unaware, Scanning
  <2>3. heard'[c] = heard[c]
    BY <1>1, <1>3 DEF Types
  <2> QED BY <1>1, <1>3, <2>1, <2>2, <2>3, ScanWake DEF Waiting
<1> QED BY <1>2, <1>3

LEMMA ObserveWake ==
    ASSUME DeliveryInv, NEW c \in Consumers, Observe(c)
    PROVE  WakeOf(c)'
<1> USE DEF DeliveryInv, IInv
<1>1. /\ Goto(c, "open", "loadState") /\ at' = [at EXCEPT ![c] = 1]
      /\ Reading /\ UNCHANGED <<handle, scan, heard>>
  BY DEF Observe
<1>2. pc[c] = "open" /\ pc'[c] = "loadState" /\ c \in alive /\ at'[c] = 1
  BY <1>1, Loading, Outside DEF Types
<1>3. scan'[c].found = None /\ scan'[c].again = 0
  BY <1>1, <1>2 DEF ScanInv, ScanOf, Scanning
<1>4. \A d \in Deliverable(c)' : ~Passed(c, d)'
  BY <1>2 DEF Passed, Deliverable, Slots
<1>5. Unaware(c)'
  BY <1>2, <1>3, <1>4 DEF Unaware, Scanning
<1> QED BY <1>2, <1>5 DEF WakeOf

LEMMA SleepWake ==
    ASSUME DeliveryInv, NEW c \in Consumers, WakeOf(c), Sleep(c)
    PROVE  WakeOf(c)'
<1> USE DEF DeliveryInv, IInv
<1>1. Goto(c, "wait", "asleep") /\ ~heard[c] /\ Reading /\ UNCHANGED <<at, handle, scan, heard>>
  BY DEF Sleep, MaySleep
<1>2. pc[c] = "wait" /\ pc'[c] = "asleep" /\ Deliverable(c)' = Deliverable(c)
      /\ \A p \in Producers : pc'[p] = pc[p]
  BY <1>1, Loading, Outside
<1>3. Deliverable(c) # {} => \E p \in Producers : pc[p] = "signal"
  BY <1>1, <1>2 DEF WakeOf, Told, Unaware
<1>4. Unaware(c)'
  BY <1>2 DEF Unaware, Scanning
<1> QED BY <1>2, <1>3, <1>4 DEF WakeOf

\* The steps of a member's own outside next_raw.
LEMMA ElsewhereWake ==
    ASSUME IInv, NEW c \in Consumers, Mine(c), ~Observe(c), ~LoadState(c), ~LoadMask(c), ~LoadSeq(c),
           ~Compare(c), ~Check(c), ~Take(c), ~Sleep(c)
    PROVE  WakeOf(c)'
<1> USE DEF IInv
<1>1. ASSUME NEW from, NEW to, Goto(c, from, to), to \notin Waiting \cup {"asleep"}
      PROVE  WakeOf(c)'
  <2>1. pc'[c] = to
    BY <1>1, Outside DEF Goto, Types
  <2> QED BY <1>1, <2>1 DEF WakeOf, Unaware, Waiting, Scanning
<1>2. CASE Receive(c)
  BY <1>1, <1>2 DEF Receive, EndWait, StartRelease, Release, Waiting
<1>3. CASE Membership(c)
  BY <1>1, <1>3 DEF Membership, StartRegister, StartLocked, Enter, RegistryFull, Activate, CountUp,
                    StartClose, CloseBit, CloseEntry, CountDown, Waiting
<1>4. CASE ReapEntry(c)
  BY <1>1, <1>4 DEF ReapEntry, Waiting
<1>5. CASE ReapCount(c)
  BY <1>1, <1>5 DEF ReapCount, Waiting
<1>6. CASE ReapSlot(c)
  <2>1. PICK to \in {"reap", "choose", "enter"} : Goto(c, "reap", to)
    BY <1>6 DEF ReapSlot
  <2> QED BY <1>1, <2>1 DEF Waiting
<1> QED BY <1>2, <1>3, <1>4, <1>5, <1>6 DEF Mine

LEMMA WakeStep ==
    ASSUME DeliveryInv, WakeInv, [Next]_vars
    PROVE  WakeInv'
<1>1. MakerInv'
  BY MakerStep DEF DeliveryInv, WakeInv
<1>2. ASSUME Unharmed', NEW c \in Consumers, c \in alive' PROVE WakeOf(c)'
  <2>1. Unharmed /\ c \in alive
    BY <1>2, Dying DEF Unharmed, DeliveryInv
  <2>2. WakeOf(c) /\ MakerInv
    BY <2>1 DEF WakeInv
  <2>3. CASE Aside(c)
    BY <1>2, <2>1, <2>2, <2>3, AsideWake
  <2>4. CASE Mine(c)
    BY <2>1, <2>2, <2>4, ObserveWake, LoadWake, LoadSeqWake, CompareWake, CheckWake, TakeWake, SleepWake,
       ElsewhereWake DEF DeliveryInv
  <2>5. CASE Kill(c)
    BY <1>2, <2>5, KillFrame, Outside DEF DeliveryInv
  <2> QED BY <2>3, <2>4, <2>5, Bystander DEF DeliveryInv
<1> QED BY <1>1, <1>2 DEF WakeInv

LEMMA WakeInvariance == Spec => []WakeInv
<1>1. Init => WakeInv
  <2> SUFFICES ASSUME Init PROVE WakeInv
    OBVIOUS
  <2>1. \A s \in Slots : slot[s].state = "FREE"
    BY DEF Init
  <2>2. \A c \in Consumers : pc[c] = "none"
    BY Outside DEF Init
  <2> QED BY <2>1, <2>2 DEF WakeInv, MakerInv, WakeOf, Unaware, Scanning
<1>2. DeliveryInv /\ WakeInv /\ [Next]_vars => WakeInv'
  BY WakeStep
<1> QED BY <1>1, <1>2, DeliveryInvariance, PTL DEF Spec

\* Between loading the publish word and sleeping on it, a consumer misses no
\* publication without finding the word changed: while the producers live, nobody
\* sleeps in next beside a publication of its own that no producer is about to
\* signal or to wake it for.
THEOREM NoWakeUpLost == Spec => []SleepersWoken
<1>1. ASSUME DeliveryInv, WakeInv PROVE SleepersWoken
  <2> SUFFICES ASSUME Unharmed, NEW c \in Consumers, pc[c] = "asleep", Deliverable(c) # {}
               PROVE  \E p \in Producers : pc[p] \in {"signal", "wake"}
    BY DEF SleepersWoken, Unharmed
  <2>1. c \in alive
    BY <1>1 DEF DeliveryInv, StageInv, Counting
  <2> QED BY <1>1, <2>1 DEF WakeInv, WakeOf
<1> QED BY <1>1, DeliveryInvariance, WakeInvariance, PTL

=============================================================================
