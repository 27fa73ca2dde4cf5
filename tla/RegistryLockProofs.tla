-------------------------- MODULE RegistryLockProofs --------------------------
(***************************************************************************)
(* The registry lock, for every number of threads and processes, with or   *)
(* without start-time tokens, whoever is killed at whichever step: two      *)
(* threads are in the critical section only after a waiter acted on a       *)
(* verdict that was out of date when it reached it.  The run LockTornRead,  *)
(* and the README, show those windows.                                      *)
(***************************************************************************)
EXTENDS RegistryLock, TLAPS

-----------------------------------------------------------------------------
\* Every shared word and every thread's position keeps its type.
THEOREM TypeCorrect == Spec => []TypeOK
<1>1. Init => TypeOK
  <2>1. Init => misled \in BOOLEAN
    BY Zenon DEF Init
  <2> QED BY <2>1 DEF Init, TypeOK, PCs, UNLOCKED, LOCKED, CONTENDED
<1>2. TypeOK /\ [Next]_vars => TypeOK'
  <2> SUFFICES ASSUME TypeOK, [Next]_vars PROVE TypeOK'
    OBVIOUS
  <2> USE LockAssumption DEF TypeOK, PCs, UNLOCKED, LOCKED, CONTENDED, Step, Local, Unread
  <2>1. ASSUME NEW t \in Threads, TryLock(t) PROVE TypeOK'
    BY <2>1 DEF TryLock
  <2>2. ASSUME NEW t \in Threads, Swap(t) PROVE TypeOK'
    BY <2>2 DEF Swap
  <2>3. ASSUME NEW t \in Threads, RecordOwner(t) \/ RecordToken(t) PROVE TypeOK'
    BY <2>3 DEF RecordOwner, RecordToken
  <2>4. ASSUME NEW t \in Threads, EndWait(t) \/ Recheck(t) PROVE TypeOK'
    BY <2>4 DEF EndWait, Recheck
  <2>5. ASSUME NEW t \in Threads, ReadOwner(t) \/ ReadToken(t) PROVE TypeOK'
    BY <2>5 DEF ReadOwner, ReadToken
  <2>6. ASSUME NEW t \in Threads, Judge(t) PROVE TypeOK'
    BY <2>6 DEF Judge
  <2>7. ASSUME NEW t \in Threads, StealOwner(t) \/ StealToken(t) \/ StealWord(t)
        PROVE  TypeOK'
    BY <2>7 DEF StealOwner, StealToken, StealWord
  <2>8. ASSUME NEW t \in Threads, Leave(t) \/ ClearOwner(t) \/ ClearToken(t) \/ Unlock(t)
        PROVE  TypeOK'
    BY <2>8 DEF Leave, ClearOwner, ClearToken, Unlock
  <2>9. ASSUME NEW p \in Procs, Kill(p) PROVE TypeOK'
    BY <2>9 DEF Kill
  <2>10. CASE UNCHANGED vars
    BY <2>10 DEF vars
  <2> QED
    BY <2>1, <2>2, <2>3, <2>4, <2>5, <2>6, <2>7, <2>8, <2>9, <2>10 DEF Next, Continue
<1> QED BY <1>1, <1>2, PTL DEF Spec

-----------------------------------------------------------------------------
(* From the acquisition to the release, and on the way of stealing.         *)

InsideStages == {"recordOwner", "recordToken", "critical", "clearOwner", "clearToken", "release"}
StealStages == {"stealOwner", "stealToken", "stealWord"}
Taken == InsideStages \cup StealStages
Having(t) == pc[t] \in Taken

\* Killed threads stay where they are.
DeadInv == \A t \in Threads : ~alive[Host[t]] => pc[t] = "dead"

\* One thread has the lock or is taking it over, the word says so, and what the lock
\* records of it is what a waiter needs to see that it lives: its pid, with its token
\* or none, or no pid.
OneHolder == \A t, u \in Threads : Having(t) /\ Having(u) => t = u
WordInv ==
    /\ \A t \in Threads : Having(t) => word # UNLOCKED
    /\ word = UNLOCKED => owner = NoProc /\ ownerToken = 0
RecordInv ==
    \A t \in Threads :
        /\ pc[t] \in {"recordToken", "critical", "clearOwner", "stealToken", "stealWord"} =>
              owner = Host[t]
        /\ pc[t] \in {"critical", "clearOwner", "stealWord"} => ownerToken = StartToken[Host[t]]
        /\ pc[t] \in {"recordOwner", "clearToken", "release"} => owner = NoProc
        /\ pc[t] \in {"recordOwner", "recordToken", "release"} => ownerToken = 0

LockInv == DeadInv /\ (~misled => OneHolder /\ WordInv /\ RecordInv)

\* Whoever is taken for dead by a verdict that is not out of date has nobody inside.
LEMMA VerdictRight ==
    ASSUME TypeOK, LockInv, ~misled, NEW t \in Threads, TakenForDead(t), ~Overtaken(t)
    PROVE  (\A u \in Threads \ {t} : ~Having(u)) /\ word # UNLOCKED
<1>1. OneHolder /\ WordInv /\ RecordInv /\ DeadInv
  BY DEF LockInv
<1>2. owner \notin {NoProc, Host[t]} /\ ~PidAliveWithToken(owner, ownerToken)
  BY DEF TakenForDead, Overtaken
<1>3. ASSUME NEW u \in Threads \ {t}, pc[u] \in InsideStages PROVE FALSE
  <2>1. Host[u] \in Procs /\ alive[Host[u]]
    BY <1>1, <1>3, LockAssumption DEF DeadInv, InsideStages
  <2>2. owner = NoProc \/ (owner = Host[u] /\ ownerToken \in {0, StartToken[Host[u]]})
    BY <1>1, <1>3 DEF RecordInv, InsideStages
  <2> QED BY <1>2, <2>1, <2>2 DEF PidAliveWithToken
<1>4. \A u \in Threads \ {t} : pc[u] \notin StealStages
  BY DEF Overtaken, Stealing, StealStages
<1> QED BY <1>1, <1>2, <1>3, <1>4 DEF Having, Taken, WordInv

\* One thread moves, and has the lock only if it had it or nobody else has.
LEMMA OneStays ==
    ASSUME OneHolder, NEW t \in Threads, \A u \in Threads \ {t} : pc'[u] = pc[u],
           pc'[t] \in Taken => pc[t] \in Taken \/ \A u \in Threads \ {t} : pc[u] \notin Taken
    PROVE  OneHolder'
<1> SUFFICES ASSUME NEW u \in Threads, NEW v \in Threads, pc'[u] \in Taken, pc'[v] \in Taken
             PROVE  u = v
  BY DEF OneHolder, Having
<1>1. CASE u # t /\ v # t
  BY <1>1 DEF OneHolder, Having
<1>2. CASE u = t \/ v = t
  BY <1>2 DEF OneHolder, Having
<1> QED BY <1>1, <1>2

\* The word is free only when nobody has the lock, and then nothing is recorded.
LEMMA WordStays ==
    ASSUME OneHolder, WordInv, NEW t \in Threads, \A u \in Threads \ {t} : pc'[u] = pc[u],
           pc'[t] \in Taken => word' # UNLOCKED,
           word' = UNLOCKED => /\ pc[t] \in Taken \/ word = UNLOCKED
                               /\ owner' = NoProc /\ ownerToken' = 0
    PROVE  WordInv'
<1>1. ASSUME NEW u \in Threads, pc'[u] \in Taken PROVE word' # UNLOCKED
  <2>1. CASE u = t
    BY <1>1, <2>1
  <2>2. CASE u # t
    BY <1>1, <2>2 DEF OneHolder, WordInv, Having
  <2> QED BY <2>1, <2>2
<1> QED BY <1>1 DEF WordInv, Having

\* What is recorded of the others stays so, if a thread without the lock stores nothing.
LEMMA RecordStays ==
    ASSUME RecordInv, NEW t \in Threads, \A u \in Threads \ {t} : pc'[u] = pc[u],
           UNCHANGED <<owner, ownerToken>> \/ \A u \in Threads \ {t} : pc[u] \notin Taken,
           /\ pc'[t] \in {"recordToken", "critical", "clearOwner", "stealToken", "stealWord"} =>
                 owner' = Host[t]
           /\ pc'[t] \in {"critical", "clearOwner", "stealWord"} => ownerToken' = StartToken[Host[t]]
           /\ pc'[t] \in {"recordOwner", "clearToken", "release"} => owner' = NoProc
           /\ pc'[t] \in {"recordOwner", "recordToken", "release"} => ownerToken' = 0
    PROVE  RecordInv'
<1> SUFFICES ASSUME NEW u \in Threads
             PROVE  /\ pc'[u] \in {"recordToken", "critical", "clearOwner", "stealToken",
                                   "stealWord"} => owner' = Host[u]
                    /\ pc'[u] \in {"critical", "clearOwner", "stealWord"} =>
                          ownerToken' = StartToken[Host[u]]
                    /\ pc'[u] \in {"recordOwner", "clearToken", "release"} => owner' = NoProc
                    /\ pc'[u] \in {"recordOwner", "recordToken", "release"} => ownerToken' = 0
  BY DEF RecordInv
<1>1. CASE u = t
  BY <1>1
<1>2. CASE u # t /\ UNCHANGED <<owner, ownerToken>>
  BY <1>2 DEF RecordInv
<1>3. CASE u # t /\ \A v \in Threads \ {t} : pc[v] \notin Taken
  BY <1>3 DEF Taken, InsideStages, StealStages
<1> QED BY <1>1, <1>2, <1>3

LEMMA LockStep ==
    ASSUME TypeOK, LockInv, [Next]_vars
    PROVE  LockInv'
<1> USE LockAssumption
<1>1. ASSUME NEW p \in Procs, Kill(p) PROVE LockInv'
  <2>1. /\ \A t \in Threads : pc'[t] = pc[t] \/ pc'[t] = "dead"
        /\ UNCHANGED <<word, owner, ownerToken, misled>>
    BY <1>1 DEF Kill
  <2>2. DeadInv'
    BY <1>1 DEF Kill, LockInv, DeadInv, TypeOK
  <2>3. \A t \in Threads : Having(t)' => Having(t)
    BY <2>1 DEF Having, Taken, InsideStages, StealStages
  <2>4. ~misled => OneHolder' /\ WordInv'
    BY <2>1, <2>3 DEF LockInv, OneHolder, WordInv, Having
  <2>5. ~misled => RecordInv'
    BY <2>1 DEF LockInv, RecordInv
  <2> QED BY <2>1, <2>2, <2>4, <2>5 DEF LockInv
<1>2. CASE UNCHANGED vars
  BY <1>2 DEF vars, LockInv, DeadInv, OneHolder, WordInv, RecordInv, Having, Taken, InsideStages, StealStages
<1>3. ASSUME NEW t \in Threads, TryLock(t) \/ Continue(t) PROVE LockInv'
  <2>1. /\ alive' = alive /\ pc[t] # "dead" /\ \A u \in Threads \ {t} : pc'[u] = pc[u]
        /\ misled => misled'
    BY <1>3 DEF TryLock, Continue, Swap, RecordOwner, RecordToken, EndWait, Recheck,
         ReadOwner, ReadToken, Judge, StealOwner, StealToken, StealWord, Leave,
         ClearOwner, ClearToken, Unlock, Local, Unread, Step, TypeOK
  <2>2. DeadInv'
    BY <2>1 DEF LockInv, DeadInv
  <2>3. ASSUME ~misled' PROVE OneHolder' /\ WordInv' /\ RecordInv'
    <3>1. ~misled /\ OneHolder /\ WordInv /\ RecordInv
      BY <2>1, <2>3 DEF LockInv
    <3>2. \A u \in Threads : pc[u] \in Taken => word # UNLOCKED
      BY <3>1 DEF WordInv, Having
    <3>3. pc[t] \in Taken => \A u \in Threads \ {t} : pc[u] \notin Taken
      BY <3>1 DEF OneHolder, Having
    <3> USE DEF Taken, InsideStages, StealStages
    <3>4. CASE TryLock(t) \/ Swap(t)
      <4>1. /\ pc'[t] \in {"recordOwner", "swap", "wait"} /\ word' # UNLOCKED
            /\ pc'[t] = "recordOwner" => word = UNLOCKED
            /\ UNCHANGED <<owner, ownerToken>>
        BY <3>4 DEF TryLock, Swap, Step, TypeOK, UNLOCKED, LOCKED, CONTENDED
      <4>2. OneHolder'
        BY <2>1, <3>1, <3>2, <4>1, OneStays
      <4>3. WordInv'
        BY <2>1, <3>1, <4>1, WordStays
      <4>4. pc'[t] = "recordOwner" => owner' = NoProc /\ ownerToken' = 0
        BY <3>1, <4>1 DEF WordInv
      <4>5. RecordInv'
        BY <2>1, <3>1, <4>1, <4>4, RecordStays
      <4> QED BY <4>2, <4>3, <4>5
    <3>5. CASE EndWait(t) \/ Recheck(t) \/ ReadOwner(t) \/ ReadToken(t)
      <4>1. /\ pc'[t] \in {"recheck", "readOwner", "swap", "readToken", "judge"}
            /\ UNCHANGED <<word, owner, ownerToken>>
        BY <3>5 DEF EndWait, Recheck, ReadOwner, ReadToken, Step, Local, TypeOK
      <4>2. OneHolder'
        BY <2>1, <3>1, <4>1, OneStays
      <4>3. word' = UNLOCKED => owner' = NoProc /\ ownerToken' = 0
        BY <3>1, <4>1 DEF WordInv
      <4>4. WordInv'
        BY <2>1, <3>1, <4>1, <4>3, WordStays
      <4>5. RecordInv'
        BY <2>1, <3>1, <4>1, RecordStays
      <4> QED BY <4>2, <4>4, <4>5
    <3>6. CASE Judge(t)
      <4>1. /\ pc'[t] = IF TakenForDead(t) THEN "stealOwner" ELSE "swap"
            /\ UNCHANGED <<word, owner, ownerToken>>
            /\ TakenForDead(t) => ~Overtaken(t)
        BY <2>3, <3>6 DEF Judge, Step, Local, TypeOK
      <4>2. TakenForDead(t) => (\A u \in Threads \ {t} : pc[u] \notin Taken) /\ word # UNLOCKED
        BY <3>1, <4>1, VerdictRight DEF Having
      <4>3. OneHolder'
        BY <2>1, <3>1, <4>1, <4>2, OneStays
      <4>4. word' = UNLOCKED => owner' = NoProc /\ ownerToken' = 0
        BY <3>1, <4>1 DEF WordInv
      <4>5. WordInv'
        BY <2>1, <3>1, <4>1, <4>2, <4>4, WordStays
      <4>6. RecordInv'
        BY <2>1, <3>1, <4>1, RecordStays
      <4> QED BY <4>3, <4>5, <4>6
    <3>7. CASE RecordOwner(t) \/ StealOwner(t)
      <4>1. /\ \/ pc[t] = "recordOwner" /\ pc'[t] = "recordToken"
               \/ pc[t] = "stealOwner" /\ pc'[t] = "stealToken"
            /\ owner' = Host[t] /\ UNCHANGED <<word, ownerToken>>
        BY <3>7 DEF RecordOwner, StealOwner, Step, TypeOK
      <4>2. pc[t] \in Taken /\ word' # UNLOCKED
        BY <3>2, <4>1
      <4>3. OneHolder' /\ WordInv'
        BY <2>1, <3>1, <4>2, OneStays, WordStays
      <4>4. pc'[t] = "recordToken" => ownerToken' = 0
        BY <3>1, <4>1 DEF RecordInv
      <4>5. RecordInv'
        BY <2>1, <3>1, <3>3, <4>1, <4>2, <4>4, RecordStays
      <4> QED BY <4>3, <4>5
    <3>8. CASE RecordToken(t) \/ StealToken(t)
      <4>1. /\ \/ pc[t] = "recordToken" /\ pc'[t] = "critical"
               \/ pc[t] = "stealToken" /\ pc'[t] = "stealWord"
            /\ ownerToken' = StartToken[Host[t]] /\ UNCHANGED <<word, owner>>
        BY <3>8 DEF RecordToken, StealToken, Step, TypeOK
      <4>2. pc[t] \in Taken /\ word' # UNLOCKED
        BY <3>2, <4>1
      <4>3. OneHolder' /\ WordInv'
        BY <2>1, <3>1, <4>2, OneStays, WordStays
      <4>4. owner' = Host[t]
        BY <3>1, <4>1 DEF RecordInv
      <4>5. RecordInv'
        BY <2>1, <3>1, <3>3, <4>1, <4>2, <4>4, RecordStays
      <4> QED BY <4>3, <4>5
    <3>9. CASE StealWord(t) \/ Leave(t)
      <4>1. /\ \/ pc[t] = "stealWord" /\ pc'[t] = "critical"
               \/ pc[t] = "critical" /\ pc'[t] = "clearOwner"
            /\ word' = word \/ word' = CONTENDED
            /\ UNCHANGED <<owner, ownerToken>>
        BY <3>9 DEF StealWord, Leave, Step, Local, TypeOK
      <4>2. pc[t] \in Taken /\ word' # UNLOCKED
        BY <3>2, <4>1 DEF UNLOCKED, CONTENDED
      <4>3. OneHolder' /\ WordInv'
        BY <2>1, <3>1, <4>2, OneStays, WordStays
      <4>4. owner' = Host[t] /\ ownerToken' = StartToken[Host[t]]
        BY <3>1, <4>1 DEF RecordInv
      <4>5. RecordInv'
        BY <2>1, <3>1, <4>1, <4>4, RecordStays
      <4> QED BY <4>3, <4>5
    <3>10. CASE ClearOwner(t) \/ ClearToken(t)
      <4>1. /\ \/ pc[t] = "clearOwner" /\ pc'[t] = "clearToken" /\ owner' = NoProc
               \/ /\ pc[t] = "clearToken" /\ pc'[t] = "release"
                  /\ ownerToken' = 0 /\ owner' = owner
            /\ UNCHANGED word
        BY <3>10 DEF ClearOwner, ClearToken, Step, TypeOK
      <4>2. pc[t] \in Taken /\ word' # UNLOCKED
        BY <3>2, <4>1
      <4>3. OneHolder' /\ WordInv'
        BY <2>1, <3>1, <4>2, OneStays, WordStays
      <4>4. owner' = NoProc
        BY <3>1, <4>1 DEF RecordInv
      <4>5. RecordInv'
        BY <2>1, <3>1, <3>3, <4>1, <4>2, <4>4, RecordStays
      <4> QED BY <4>3, <4>5
    <3>11. CASE Unlock(t)
      <4>1. /\ pc[t] = "release" /\ pc'[t] = "idle" /\ word' = UNLOCKED
            /\ UNCHANGED <<owner, ownerToken>>
        BY <3>11 DEF Unlock, Step, TypeOK
      <4>2. owner = NoProc /\ ownerToken = 0
        BY <3>1, <4>1 DEF RecordInv
      <4>3. OneHolder' /\ WordInv'
        BY <2>1, <3>1, <4>1, <4>2, OneStays, WordStays
      <4>4. RecordInv'
        BY <2>1, <3>1, <4>1, RecordStays
      <4> QED BY <4>3, <4>4
    <3> QED BY <1>3, <3>4, <3>5, <3>6, <3>7, <3>8, <3>9, <3>10, <3>11 DEF Continue
  <2> QED BY <2>2, <2>3 DEF LockInv
<1> QED BY <1>1, <1>2, <1>3 DEF Next

\* ExclusionKept: two threads are both in the registry's critical section only after a
\* verdict that was out of date, also while a waiter takes the lock over from a process
\* that was killed, at whichever step, and other waiters and holders live on.
THEOREM LockExclusive == Spec => []ExclusionKept
<1>1. Init => LockInv
  BY LockAssumption DEF Init, LockInv, DeadInv, OneHolder, WordInv, RecordInv, Having, Taken,
       InsideStages, StealStages
<1>2. TypeOK /\ LockInv /\ [Next]_vars => LockInv'
  BY LockStep
<1>3. LockInv => ExclusionKept
  BY DEF LockInv, OneHolder, Having, Taken, InsideStages, ExclusionKept, MutualExclusion
<1> QED BY <1>1, <1>2, <1>3, TypeCorrect, PTL DEF Spec
===============================================================================
