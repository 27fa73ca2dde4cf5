----------------------------- MODULE RegistryLock -----------------------------
(***************************************************************************)
(* The registry lock of rust/tenzorbus/src/futex.rs, one shared access a   *)
(* step: a lock word, the pid and the start-time token of its holder.      *)
(* Threads of several processes call lock and unlock; a process may be     *)
(* killed between any two steps, and a waiter that finds the recorded      *)
(* holder dead takes the lock over.                                        *)
(*                                                                         *)
(* The wait is a timed one (20 ms), so it returns whether or not anybody   *)
(* wakes the word: wake-ups are not modelled.  Accesses are sequentially   *)
(* consistent, which the relaxed loads of a waiter do not even promise.    *)
(*                                                                         *)
(* The takeover is not one access: a waiter loads the pid, then the token, *)
(* asks the system about them, and stores itself without a compare_exchange. *)
(* What can come in between does not happen unseen: a history variable says *)
(* whether a waiter has acted on what was no longer so.                    *)
(***************************************************************************)
EXTENDS Naturals, FiniteSets

CONSTANTS
    Procs,          \* pids
    NoProc,         \* pid 0
    Threads,        \* callers of lock and unlock
    Host,           \* the process of a thread
    StartToken,     \* the start-time token of a process; 0 without procfs
    Mortal,         \* bound: the processes that may be killed
    SafePoints      \* bound: steps of a thread before which it is not killed

ASSUME LockAssumption ==
    /\ NoProc \notin Procs
    /\ Host \in [Threads -> Procs]
    /\ StartToken \in [Procs -> Nat]
    /\ Mortal \subseteq Procs

VARIABLES
    word,                   \* G_REGISTRY_LOCK
    owner, ownerToken,      \* G_REGISTRY_LOCK_OWNER, .._OWNER_TOKEN
    alive,                  \* of each process
    pc,                     \* of each thread: its next step
    holder, holderToken,    \* of each waiter: what it read of the holder
    misled                  \* history: a verdict was out of date when it was reached

vars == <<word, owner, ownerToken, alive, pc, holder, holderToken, misled>>

UNLOCKED == 0
LOCKED == 1
CONTENDED == 2

PCs == {"idle", "swap", "wait", "recheck", "readOwner", "readToken", "judge",
        "recordOwner", "recordToken", "stealOwner", "stealToken", "stealWord",
        "critical", "clearOwner", "clearToken", "release", "dead"}

\* Mutant: every process but one's own passes for dead.
NeverAliveWithToken(p, t) == FALSE
\* pid_alive_with_token: token 0 stands for "not recorded".
PidAliveWithToken(p, t) == p \in Procs /\ alive[p] /\ (t = 0 \/ t = StartToken[p])

Step(t, from, to) == pc[t] = from /\ pc' = [pc EXCEPT ![t] = to]
Local == UNCHANGED <<word, owner, ownerToken, alive>>
Unread == UNCHANGED <<holder, holderToken, misled>>

-----------------------------------------------------------------------------
\* The first compare_exchange of lock.
TryLock(t) ==
    /\ Step(t, "idle", IF word = UNLOCKED THEN "recordOwner" ELSE "swap")
    /\ word' = IF word = UNLOCKED THEN LOCKED ELSE word
    /\ Unread /\ UNCHANGED <<owner, ownerToken, alive>>

\* word.swap(CONTENDED)
Swap(t) ==
    /\ Step(t, "swap", IF word = UNLOCKED THEN "recordOwner" ELSE "wait")
    /\ word' = CONTENDED
    /\ Unread /\ UNCHANGED <<owner, ownerToken, alive>>

\* The two stores that record an acquisition, on either path.
\* Mutant: the pid and the token are swapped.
RecordOwnerSwapped(t) ==
    /\ Step(t, "recordOwner", "recordToken")
    /\ owner' = StartToken[Host[t]]
    /\ Unread /\ UNCHANGED <<word, ownerToken, alive>>
RecordOwner(t) ==
    /\ Step(t, "recordOwner", "recordToken")
    /\ owner' = Host[t]
    /\ Unread /\ UNCHANGED <<word, ownerToken, alive>>

RecordToken(t) ==
    /\ Step(t, "recordToken", "critical")
    /\ ownerToken' = StartToken[Host[t]]
    /\ Unread /\ UNCHANGED <<word, owner, alive>>

\* The futex wait ends, by a wake-up, a changed word or the timeout.
EndWait(t) == Step(t, "wait", "recheck") /\ Local /\ Unread

Recheck(t) ==
    /\ Step(t, "recheck", IF word # UNLOCKED THEN "readOwner" ELSE "swap")
    /\ Local /\ Unread

ReadOwner(t) ==
    /\ Step(t, "readOwner", "readToken")
    /\ holder' = [holder EXCEPT ![t] = owner]
    /\ Local /\ UNCHANGED <<holderToken, misled>>

ReadToken(t) ==
    /\ Step(t, "readToken", "judge")
    /\ holderToken' = [holderToken EXCEPT ![t] = ownerToken]
    /\ Local /\ UNCHANGED <<holder, misled>>

\* Mutant: there is no recovery path.
TakenForDeadNever(t) == FALSE
\* The waiter's verdict: somebody holds the lock, not my process, and it is gone.
TakenForDead(t) ==
    /\ holder[t] \notin {NoProc, Host[t]}
    /\ ~PidAliveWithToken(holder[t], holderToken[t])

\* What t has read is not, or is about not to be, what the lock records: it was let go
\* or taken since, between the two loads or after them, or somebody else is taking it.
Stealing(t) == pc[t] \in {"stealOwner", "stealToken", "stealWord"}
Overtaken(t) ==
    \/ owner # holder[t] \/ ownerToken # holderToken[t]
    \/ \E u \in Threads \ {t} : Stealing(u)

Judge(t) ==
    /\ Step(t, "judge", IF TakenForDead(t) THEN "stealOwner" ELSE "swap")
    /\ misled' = (misled \/ (TakenForDead(t) /\ Overtaken(t)))
    /\ holder' = [holder EXCEPT ![t] = NoProc]
    /\ holderToken' = [holderToken EXCEPT ![t] = 0]
    /\ Local

StealOwner(t) ==
    /\ Step(t, "stealOwner", "stealToken")
    /\ owner' = Host[t]
    /\ Unread /\ UNCHANGED <<word, ownerToken, alive>>

StealToken(t) ==
    /\ Step(t, "stealToken", "stealWord")
    /\ ownerToken' = StartToken[Host[t]]
    /\ Unread /\ UNCHANGED <<word, owner, alive>>

StealWord(t) ==
    /\ Step(t, "stealWord", "critical")
    /\ word' = CONTENDED
    /\ Unread /\ UNCHANGED <<owner, ownerToken, alive>>

\* The critical section ends: unlock is called.
Leave(t) == Step(t, "critical", "clearOwner") /\ Local /\ Unread

ClearOwner(t) ==
    /\ Step(t, "clearOwner", "clearToken")
    /\ owner' = NoProc
    /\ Unread /\ UNCHANGED <<word, ownerToken, alive>>

ClearToken(t) ==
    /\ Step(t, "clearToken", "release")
    /\ ownerToken' = 0
    /\ Unread /\ UNCHANGED <<word, owner, alive>>

\* word.swap(UNLOCKED)
Unlock(t) ==
    /\ Step(t, "release", "idle")
    /\ word' = UNLOCKED
    /\ Unread /\ UNCHANGED <<owner, ownerToken, alive>>

\* Process p is killed, with all its threads.
Kill(p) ==
    /\ p \in Mortal /\ alive[p]
    /\ \A t \in Threads : Host[t] = p => pc[t] \notin SafePoints
    /\ alive' = [alive EXCEPT ![p] = FALSE]
    /\ pc' = [t \in Threads |-> IF Host[t] = p THEN "dead" ELSE pc[t]]
    /\ holder' = [t \in Threads |-> IF Host[t] = p THEN NoProc ELSE holder[t]]
    /\ holderToken' = [t \in Threads |-> IF Host[t] = p THEN 0 ELSE holderToken[t]]
    /\ UNCHANGED <<word, owner, ownerToken, misled>>

-----------------------------------------------------------------------------
Init ==
    /\ word = UNLOCKED
    /\ owner = NoProc
    /\ ownerToken = 0
    /\ alive = [p \in Procs |-> TRUE]
    /\ pc = [t \in Threads |-> "idle"]
    /\ holder = [t \in Threads |-> NoProc]
    /\ holderToken = [t \in Threads |-> 0]
    /\ misled = FALSE

\* lock once it was called, and unlock once it was called.
Continue(t) ==
    \/ Swap(t)
    \/ RecordOwner(t)
    \/ RecordToken(t)
    \/ EndWait(t)
    \/ Recheck(t)
    \/ ReadOwner(t)
    \/ ReadToken(t)
    \/ Judge(t)
    \/ StealOwner(t)
    \/ StealToken(t)
    \/ StealWord(t)
    \/ Leave(t)
    \/ ClearOwner(t)
    \/ ClearToken(t)
    \/ Unlock(t)

Next ==
    \/ \E t \in Threads : TryLock(t)
    \/ \E t \in Threads : Continue(t)
    \/ \E p \in Procs : Kill(p)

Spec == Init /\ [][Next]_vars

\* A thread that has called lock runs on, critical sections are finite, and a
\* futex wait ends.  Nobody is obliged to call lock, or is killed in the end.
FairSpec == Spec /\ \A t \in Threads : WF_vars(Continue(t))

-----------------------------------------------------------------------------
\* Every variable has its type.
TypeOK ==
    /\ word \in {UNLOCKED, LOCKED, CONTENDED}
    /\ owner \in Procs \cup {NoProc}
    /\ ownerToken \in Nat
    /\ alive \in [Procs -> BOOLEAN]
    /\ pc \in [Threads -> PCs]
    /\ holder \in [Threads -> Procs \cup {NoProc}]
    /\ holderToken \in [Threads -> Nat]
    /\ misled \in BOOLEAN

\* Two threads are never both inside the registry's critical section: stealing
\* from a dead holder does not break in on a live one.
MutualExclusion ==
    \A t, u \in Threads : pc[t] = "critical" /\ pc[u] = "critical" => t = u

\* As long as no verdict was out of date when it was reached, whoever was killed, and
\* wherever, a takeover breaks in on nobody: those windows, and nothing else in lock
\* and unlock, let two threads into the critical section.
ExclusionKept == ~misled => MutualExclusion

Waiting(t) == pc[t] \notin {"idle", "dead", "critical", "clearOwner", "clearToken", "release"}

\* "A producer killed inside its critical section cannot wedge the ring": while a
\* thread wants the lock, a thread that is alive gets it, again and again, unless a
\* verdict was out of date (then the lock may be lost with the second holder).
LockRecovers ==
    (\E t \in Threads : Waiting(t)) ~>
        \/ \E t \in Threads : pc[t] = "critical"
        \/ \A t \in Threads : ~Waiting(t)
        \/ misled
===============================================================================
