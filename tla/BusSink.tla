-------------------------------- MODULE BusSink --------------------------------
(***************************************************************************)
(* The TenzorPipe bridge, integration/bridge/src/main.rs: one process that *)
(* publishes each epoch of a clip.  The engine offers to decode straight   *)
(* into a reserved slot (video_destination) when one picture is exactly    *)
(* one epoch, and hands over a tensor of its own otherwise (epoch_ready);  *)
(* an epoch that fails is given up (abort_epoch).  The engine is external: *)
(* only that it fills a destination before it reports the epoch is used.   *)
(*                                                                         *)
(* Timeouts are the choice to give up.  A contradiction of the engine is a *)
(* failure like any other.  Left out: --corrupt-epoch, counters, options.  *)
(***************************************************************************)
EXTENDS TensorRing

CONSTANTS
    Bridge,         \* the process
    PendingWriter,  \* BusSink.pending, a SlotWriter
    CopyWriter,     \* the publish of the copy path
    Expected,       \* --await-consumers
    MaxEpochs       \* bound: epochs of a clip

ASSUME BridgeAssumption ==
    /\ WriterHost[PendingWriter] = Bridge /\ WriterHost[CopyWriter] = Bridge
    /\ PendingWriter \in DirectWriters /\ CopyWriter \in Writers \ DirectWriters
    /\ Expected \in Nat /\ MaxEpochs \in Nat

VARIABLES
    stage,          \* where main is
    direct,         \* not --copy-path
    ownTensor,      \* the engine has a tensor that it will hand over
    published, first, latest,   \* BusSink: published, first_ and last_sequence
    audience        \* the consumers open since the stream began

sinkVars == <<stage, direct, ownTensor, published, first, latest, audience>>
sinkRecord == <<published, first, latest>>

SinkInit ==
    /\ stage = "off" /\ direct = FALSE /\ ownTensor = FALSE
    /\ published = 0 /\ first = 0 /\ latest = 0
    /\ audience = {}

StillOpen == {c \in audience : cst'[c] = "open"}

\* The ring is there; claim the role and signal readiness.
Start ==
    /\ stage = "off" /\ ClaimProducer(Bridge)
    /\ stage' = "awaiting"
    /\ direct' \in BOOLEAN
    /\ UNCHANGED <<ownTensor, sinkRecord, audience>>

\* The loop over stats().consumers, whose deadline is 120 s.
AwaitConsumers ==
    /\ stage = "awaiting"
    /\ \/ /\ registered >= Expected
          /\ stage' = "streaming"
          /\ audience' = {c \in Consumers : cst[c] = "open"}
       \/ registered < Expected /\ stage' = "failed" /\ UNCHANGED audience
    /\ UNCHANGED <<vars, direct, ownTensor, sinkRecord>>

BetweenEpochs ==
    /\ stage = "streaming" /\ ~ownTensor
    /\ wst[PendingWriter] = "idle" /\ wst[CopyWriter] = "idle"

\* A slot is reserved, or the ring is full: wait, or fail when the time is up.
ReserveOrFail(w) ==
    \/ Reserve(w) /\ UNCHANGED stage
    \/ ReserveFull(w) /\ stage' \in {stage, "failed"}

\* video_destination: pending is the slot the engine is to decode into.
VideoDestination ==
    /\ BetweenEpochs /\ direct /\ published < MaxEpochs
    /\ ReserveOrFail(PendingWriter)
    /\ UNCHANGED <<direct, ownTensor, sinkRecord, audience>>

\* The offer is declined, or was not made.
DecodeAside ==
    /\ BetweenEpochs /\ published < MaxEpochs
    /\ ownTensor' = TRUE
    /\ UNCHANGED <<vars, stage, direct, sinkRecord, audience>>

\* The resize that writes into the destination, or the copy of publish.
Decode ==
    /\ stage = "streaming"
    /\ \E w \in {PendingWriter, CopyWriter} : wst[w] = "writing" /\ Fill(w)
    /\ UNCHANGED sinkVars

\* publish, until it has a slot.
PublishCopy ==
    /\ stage = "streaming" /\ ownTensor /\ wst[CopyWriter] = "idle"
    /\ ReserveOrFail(CopyWriter)
    /\ UNCHANGED <<direct, ownTensor, sinkRecord, audience>>

\* Mutant: what is kept is the end of the range, counted on without wrapping.
RecordEnd(sequence) ==
    /\ published' = published + 1
    /\ first' = IF published = 0 THEN sequence ELSE first
    /\ latest' = sequence + 1
\* record
Record(sequence) ==
    /\ published' = published + 1
    /\ first' = IF published = 0 THEN sequence ELSE first
    /\ latest' = sequence

\* epoch_ready, its commit: of the pending slot, or inside publish.
EpochReady ==
    /\ stage = "streaming"
    /\ \E w \in {PendingWriter, CopyWriter} :
          wst[w] = "filled" /\ Commit(w) /\ Record(wseq[w])
    /\ ownTensor' = FALSE
    /\ UNCHANGED <<stage, direct, audience>>

\* Mutant: what is pending is published as it is.
AbortEpochPublishing == Commit(PendingWriter)
AbortEpoch == Abort(PendingWriter)

\* The engine fails, contradicts itself, or reports nothing at all.  It calls
\* abort_epoch and then returns the error, so that a failed epoch is the stream's end.
EngineFails ==
    /\ stage = "streaming" /\ wst[CopyWriter] = "idle"
    /\ IF wst[PendingWriter] = "idle" THEN UNCHANGED vars ELSE AbortEpoch
    /\ stage' = "failed"
    /\ UNCHANGED <<direct, ownTensor, sinkRecord, audience>>

EndOfClip ==
    /\ BetweenEpochs /\ stage' = "done"
    /\ UNCHANGED <<vars, direct, ownTensor, sinkRecord, audience>>

\* main returns: the Producer is dropped, in its two steps, and the ring is kept.
ExitMain ==
    /\ stage \in {"failed", "done"}
    /\ DropProducer(Bridge)
    /\ stage' = "exiting" /\ ownTensor' = FALSE
    /\ UNCHANGED <<direct, sinkRecord, audience>>

RoleReturned ==
    /\ stage = "exiting"
    /\ HandBack(Bridge)
    /\ stage' = "exited"
    /\ UNCHANGED <<direct, ownTensor, sinkRecord, audience>>

\* The bridge is killed; another may be started, and attaches to the ring it left.
BridgeCrash ==
    /\ Crash(Bridge)
    /\ stage' = "off" /\ direct' = FALSE /\ ownTensor' = FALSE
    /\ published' = 0 /\ first' = 0 /\ latest' = 0 /\ audience' = {}

SinkStep ==
    \/ Start \/ AwaitConsumers \/ VideoDestination \/ DecodeAside \/ Decode \/ PublishCopy
    \/ EpochReady \/ EngineFails \/ EndOfClip \/ ExitMain \/ RoleReturned

-----------------------------------------------------------------------------
(* Properties.                                                             *)

\* A "harness can prove the slot a consumer read is the slot the decoder wrote into"
\* only if the trace has no gaps: a stream is the sequences from the first to the
\* last, on both paths, with epochs given up and other producers in between.
TraceContiguous ==
    published > 0 => latest = (first + published - 1) % SeqMod

\* "No epoch is published before every consumer is registered and therefore addressed
\* by it": a consumer that was there when the stream began, and still is, has
\* received every recorded epoch or is going to.
EpochsReachAudience ==
    \A c \in audience : \A k \in 0 .. published - 1 :
        LET epoch == (first + k) % SeqMod IN
        SeqNewer(epoch, last[c]) => \E s \in Deliverable(c) : seq[s] = epoch

\* No epoch is seen half decoded: what a consumer has leased from the bridge's
\* process was filled for the sequence it is published under, also when an epoch
\* was given up or the bridge killed before, and its slot and number used again.
WholeFrames ==
    \A c \in Consumers : \A l \in leases[c] : wpid[l.slot] = Bridge => l.data = l.seq
===============================================================================
