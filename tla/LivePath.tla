------------------------------- MODULE LivePath -------------------------------
(***************************************************************************)
(* The live path: the TenzorPipe bridge publishes, Python processes read   *)
(* through the bindings, and may publish when the bridge is gone.          *)
(***************************************************************************)
EXTENDS RingBindings, BusSink

CONSTANTS
    StaleReleaseRaces,  \* may a slot be given a new publication while the release
                        \* of a stale lease is between its look at the sequence and
                        \* its clearing of the bit?  The code allows it; FALSE: it
                        \* does not happen
    MaxSequences        \* bound: sequences assigned; none comes round again

ASSUME LiveAssumption ==
    /\ StaleReleaseRaces \in BOOLEAN
    /\ MaxSequences \in 0 .. SeqMod \div 2 - 1

liveVars == <<vars, pyVars, sinkVars>>

\* audience is kept up by whatever ends a Consumer.
OthersStep ==
    /\ UNCHANGED <<stage, direct, ownTensor, sinkRecord>>
    /\ audience' = StillOpen

LiveInit == Init /\ PyInit /\ SinkInit

NotOvertaken ==
    \A c \in Consumers : \A d \in late[c] : seq'[d.lease.slot] = seq[d.lease.slot]

LiveNext ==
    /\ \/ (SinkStep \/ BridgeCrash) /\ UNCHANGED pyVars
       \/ \E p \in Procs \ {Bridge} : (PyStep(p) \/ PyCrash(p)) /\ OthersStep
       \/ \E p \in Procs : Restart(p) /\ UNCHANGED <<pyVars, sinkVars>>
    /\ StaleReleaseRaces \/ NotOvertaken
    /\ (nextSeq' - FirstSeq) % SeqMod <= MaxSequences

LiveSpec == LiveInit /\ [][LiveNext]_liveVars

\* The ring's variables, the bindings' and the bridge's have their types.
LiveTypeOK ==
    /\ TypeOK
    /\ views \in [Consumers -> SUBSET Leases]
    /\ stale \in [Consumers -> SUBSET StaleLeases]
    /\ late \in [Consumers -> SUBSET StaleLeases]
    /\ array \in [PyWriters -> 0 .. SlotCount]
    /\ stage \in {"off", "awaiting", "streaming", "failed", "done", "exiting", "exited"}
    /\ direct \in BOOLEAN /\ ownTensor \in BOOLEAN
    /\ published \in 0 .. MaxEpochs /\ first \in Seqs /\ latest \in Seqs
    /\ audience \subseteq {c \in Consumers : cst[c] = "open"}
===============================================================================
