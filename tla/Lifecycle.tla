------------------------------ MODULE Lifecycle ------------------------------
(***************************************************************************)
(* The typed lifecycle detector of crates/galadriel-ncp/src/lifecycle.rs:  *)
(* the state machine between lifecycle-complete frames and the pure        *)
(* statistical detector.  One action is one call of the public interface.  *)
(*                                                                         *)
(* What is abstracted.  A logical stream (core session and stream name) is *)
(* one member of Streams.  A frame is its identity, the continuity context *)
(* its summary declares, and per frozen track the set of expected          *)
(* modalities with an assessable projection; its SHA-256 digest is the     *)
(* frame itself.  A receipt's digest is its index plus one, which tells    *)
(* the receipts of one detector apart as the hash does; ZeroDigest is 0.   *)
(* One retained observation vector is remembered by the position it was    *)
(* taken at and the continuity context it was taken under.  The report of  *)
(* the pure detector is left out; that it may refuse is a free choice.     *)
(*                                                                         *)
(* The code's ceilings (JSON_SAFE_INTEGER_MAX for counters, 64 streams,    *)
(* 1024 epochs, 4096 fingerprints, 65536 receipts) are the constants Max*. *)
(***************************************************************************)
EXTENDS Integers, Sequences, FiniteSets

CONSTANTS
  Producers, Streams, Epochs, Clocks, Tracks, Modalities, Contexts,
  LegacyStream,     \* "galadriel-fusion" under the producer's own session
  LegacyClock,      \* monotonic_process
  AcceptedSuites,   \* expected-modality sets that form an accepted suite
  MinChannels, MaxTracks, HistoryFrames, MaxGap,
  MaxSequence, MaxGeneration, MaxTimestamp, MaxReceiptIndex,
  MaxStreams, MaxEpochs, MaxRecent, MaxReceipts,
  Frames,           \* the assembled frames that may be handed over
  Positions,        \* the positions a control call may present
  Placed,           \* the <<position, frame>> pairs a caller may present
  NoLane, NoContext, NoFrame

VARIABLES
  lanes,        \* lanes: HashMap<LogicalStreamKey, LifecycleLane>
  receipts, anchor, lastDigest, nextIndex, evicted,
  fault,        \* the latched first terminal error, or NoFault
  outcome,      \* what the last call returned
  admitted      \* auxiliary: every coordinate each stream has ever taken

log  == <<receipts, anchor, lastDigest, nextIndex, evicted>>
vars == <<lanes, log, fault, outcome, admitted>>

-----------------------------------------------------------------------------
(* Data.                                                                    *)

Keys == Producers \X Streams

Position == [stream : Streams, epoch : Epochs, gen : 0..MaxGeneration,
             seq : 0..MaxSequence, ts : 0..MaxTimestamp, clock : Clocks]

(* FrameContinuity.                                                         *)
Continuity == [frame : Contexts, context : Contexts, registry : Contexts,
               modalities : SUBSET Modalities]

(* Structural defects of a frame, in the order the handler meets them.      *)
Defects == {"none", "cardinality", "identity", "modality_order", "ledger"}

(* roster: the frozen tracks, each with the modalities it can be assessed in *)
Frame == [producer : Producers, epoch : Epochs, seq : 0..MaxSequence,
          ts : 0..MaxTimestamp, under : Continuity,
          roster : UNION {[S -> SUBSET Modalities] : S \in SUBSET Tracks},
          defect : Defects]

Sample == [at : Position, under : Continuity]

Lane == [position : Position, usedEpochs : SUBSET Epochs,
         tracks : [Tracks -> Seq(Sample)],
         lastFrame : Continuity \cup {NoContext},
         recent : Seq([sequence : 0..MaxSequence, digest : Frames])]

ResetReasons == {"Explicit", "Timeout", "ProjectionFrameChanged",
                 "ProjectionContextChanged", "ProjectionRegistryChanged",
                 "ExpectedModalitiesChanged", "InterSampleDeadlineExceeded"}

Rejections == {"Duplicate", "Replay", "Reordered", "ConflictingReplay",
               "ForwardSequenceGap", "NonIncreasingTimestamp",
               "ClockDomainChanged", "StateGenerationMismatch", "MissingReset",
               "ReusedEpoch", "InvalidRolloverOrigin", "EpochCapacity",
               "StreamCapacity", "UnknownStream", "InvalidResetSuccessor"}

Faults == {"InvalidFrame", "InvalidPosition", "TrackCapacity", "Assessment",
           "ReceiptIndexExhausted"}

NoFault == "none"
ZeroDigest == 0

(* LifecycleTransition; `about' holds its reasons or its previous epoch.    *)
TransitionKinds == {"Initialized", "Advanced", "Reset", "EpochRolledOver",
                    "Rejected", "Faulted"}
Transition == [kind : TransitionKinds,
               about : SUBSET (ResetReasons \cup Epochs \cup Rejections \cup Faults)]

Initialized   == [kind |-> "Initialized", about |-> {}]
Advanced      == [kind |-> "Advanced", about |-> {}]
ResetFor(R)   == [kind |-> "Reset", about |-> R]
RolledOver(e) == [kind |-> "EpochRolledOver", about |-> {e}]
Rejected(r)   == [kind |-> "Rejected", about |-> {r}]
Faulted(r)    == [kind |-> "Faulted", about |-> {r}]

ResetsHistory(t) == t.kind \in {"Initialized", "Reset", "EpochRolledOver"}
IsTerminal(t) == t.kind \in {"Rejected", "Faulted"}

Receipt == [index : 0..MaxReceiptIndex, previous : 0..(MaxReceiptIndex + 1),
            digest : 0..(MaxReceiptIndex + 1), producer : Producers,
            position : Position, transition : Transition,
            frame : Frames \cup {NoFrame}, hasAssessment : BOOLEAN]

(* What the last call returned: the assessments of a frame, a receipt, an   *)
(* error (of assess_frame or of another call), or nothing to speak of.      *)
Answers == {"nothing", "assessed", "receipted", "frame_error", "error"}

OpenKeys == {k \in Keys : lanes[k] # NoLane}
NoTracks == [t \in Tracks |-> <<>>]

-----------------------------------------------------------------------------
(* A history spans at least one correlation window, hence several frames   *)
(* (from_components, CorrConfig).                                           *)
ASSUME BoundsAssumption ==
  /\ MaxSequence \in Nat /\ MaxGeneration \in Nat /\ MaxTimestamp \in Nat
  /\ MaxReceiptIndex \in Nat /\ MaxGap \in Nat /\ MinChannels \in Nat
  /\ HistoryFrames \in Nat \ {0, 1} /\ MaxTracks \in Nat \ {0}
  /\ MaxStreams \in Nat \ {0} /\ MaxEpochs \in Nat \ {0}
  /\ MaxRecent \in Nat \ {0} /\ MaxReceipts \in Nat \ {0}

ASSUME DataAssumption ==
  /\ LegacyStream \in Streams /\ LegacyClock \in Clocks /\ IsFiniteSet(Tracks)
  /\ AcceptedSuites \subseteq SUBSET Modalities
  /\ Frames \subseteq Frame /\ Positions \subseteq Position
  /\ Placed \subseteq Position \X Frames
  /\ NoLane \notin Lane \cup Position /\ NoContext \notin Continuity /\ NoFrame \notin Frames

-----------------------------------------------------------------------------
Init ==
  /\ lanes = [k \in Keys |-> NoLane]
  /\ receipts = <<>> /\ anchor = ZeroDigest /\ lastDigest = ZeroDigest
  /\ nextIndex = 0 /\ evicted = 0
  /\ fault = NoFault
  /\ outcome = [answer |-> "nothing", assessments |-> <<>>]
  /\ admitted = [k \in Keys |-> {}]

(* The definitions named Mutant... are slips a property must notice; nothing *)
(* but a sensitivity check uses them.                                       *)

(* LifecycleLane::new.                                                      *)
NewLane(p) == [position |-> p, usedEpochs |-> {p.epoch}, tracks |-> NoTracks,
               lastFrame |-> NoContext, recent |-> <<>>]

-----------------------------------------------------------------------------
(* Receipts.                                                                *)

DigestOf(index) == index + 1

ReceiptFor(producer, p, t, frame, withAssessment) ==
  [index |-> nextIndex, previous |-> lastDigest, digest |-> DigestOf(nextIndex),
   producer |-> producer, position |-> p, transition |-> t,
   frame |-> frame, hasAssessment |-> withAssessment]

Exhausted == nextIndex > MaxReceiptIndex

MutantCommit(r) ==
  /\ ~Exhausted
  /\ nextIndex' = nextIndex + 1
  /\ lastDigest' = r.digest
  /\ IF Len(receipts) >= MaxReceipts
       THEN /\ receipts' = Append(Tail(receipts), r)
            /\ anchor' = Head(receipts).previous
            /\ evicted' = evicted + 1
       ELSE /\ receipts' = Append(receipts, r)
            /\ UNCHANGED <<anchor, evicted>>

(* commit_receipt, when it succeeds: the oldest receipt leaves once the log  *)
(* is full, and the anchor takes its digest.                                *)
Commit(r) ==
  /\ ~Exhausted
  /\ nextIndex' = nextIndex + 1
  /\ lastDigest' = r.digest
  /\ IF Len(receipts) >= MaxReceipts
       THEN /\ receipts' = Append(Tail(receipts), r)
            /\ anchor' = Head(receipts).digest
            /\ evicted' = evicted + 1
       ELSE /\ receipts' = Append(receipts, r)
            /\ UNCHANGED <<anchor, evicted>>

-----------------------------------------------------------------------------
(* How a call ends.  `next' is the lanes as the handler has left them.      *)

MutantCleared(next) == next

(* latch: the lanes keep their positions and lose every retained window.    *)
Cleared(next) ==
  [k \in Keys |-> IF next[k] = NoLane THEN NoLane
                  ELSE [next[k] EXCEPT !.tracks = NoTracks]]

(* Auxiliary: the coordinates lanes move to, with the frame that was there. *)
Note(next, evidence) ==
  admitted' = [k \in Keys |->
    IF next[k] # NoLane /\ (lanes[k] = NoLane \/ next[k].position # lanes[k].position)
    THEN admitted[k] \cup {[epoch |-> next[k].position.epoch,
                            seq |-> next[k].position.seq, evidence |-> evidence]}
    ELSE admitted[k]]

Latch(answer, next, reason) ==
  /\ lanes' = Cleared(next)
  /\ fault' = reason
  /\ outcome' = [answer |-> answer, assessments |-> <<>>]

(* latch without a receipt: nothing about the call reached the log.         *)
FailSilently(error, reason) ==
  /\ Latch(error, lanes, reason)
  /\ UNCHANGED <<log, admitted>>

(* reject_with_receipt and fault_with_receipt.  A committed receipt carries *)
(* the frame's digest, when the call brought a frame.                       *)
Terminate(error, next, producer, p, t, frame, reason) ==
  /\ Note(next, NoFrame)
  /\ \/ /\ Commit(ReceiptFor(producer, p, t, frame, FALSE))
        /\ Latch(error, next, reason)
     \/ /\ Exhausted
        /\ Latch(error, next, "ReceiptIndexExhausted")
        /\ UNCHANGED log

(* The accepted end of a call; a log that cannot take the receipt latches.  *)
Accept(error, next, producer, p, t, evidence, assessments) ==
  /\ Note(next, evidence)
  /\ \/ /\ Commit(ReceiptFor(producer, p, t, evidence, evidence # NoFrame))
        /\ lanes' = next
        /\ outcome' = [answer |-> IF evidence = NoFrame THEN "receipted" ELSE "assessed",
                        assessments |-> assessments]
        /\ UNCHANGED fault
     \/ /\ Exhausted
        /\ Latch(error, next, "ReceiptIndexExhausted")
        /\ UNCHANGED log

-----------------------------------------------------------------------------
(* Admission.                                                               *)

(* StreamPosition::checked_reset, for a position already in bounds.         *)
IsCheckedReset(p, q) ==
  /\ q.ts > p.ts
  /\ q = [p EXCEPT !.gen = @ + 1, !.seq = @ + 1, !.ts = q.ts]

(* continuity_reset_reasons.                                                *)
ContinuityResetReasons(lane, f) ==
  IF lane.lastFrame = NoContext THEN {}
  ELSE {r \in ResetReasons :
     \/ r = "ProjectionFrameChanged" /\ lane.lastFrame.frame # f.under.frame
     \/ r = "ProjectionContextChanged" /\ lane.lastFrame.context # f.under.context
     \/ r = "ProjectionRegistryChanged" /\ lane.lastFrame.registry # f.under.registry
     \/ r = "ExpectedModalitiesChanged" /\ lane.lastFrame.modalities # f.under.modalities
     \/ r = "InterSampleDeadlineExceeded" /\ f.ts - lane.position.ts > MaxGap}

MutantRolloverRefusal(k, q) ==
  IF lanes[k] = NoLane THEN "UnknownStream"
  ELSE IF q.epoch = lanes[k].position.epoch THEN "ReusedEpoch"
  ELSE IF q.seq # 0 \/ q.gen # 0 THEN "InvalidRolloverOrigin"
  ELSE IF q.clock # lanes[k].position.clock THEN "ClockDomainChanged"
  ELSE "none"

(* classify_rollover: the first reason to refuse, or "none".                *)
RolloverRefusal(k, q) ==
  IF lanes[k] = NoLane THEN "UnknownStream"
  ELSE IF q.epoch = lanes[k].position.epoch THEN "ReusedEpoch"
  ELSE IF q.epoch \in lanes[k].usedEpochs THEN "ReusedEpoch"
  ELSE IF Cardinality(lanes[k].usedEpochs) >= MaxEpochs THEN "EpochCapacity"
  ELSE IF q.seq # 0 \/ q.gen # 0 THEN "InvalidRolloverOrigin"
  ELSE IF q.clock # lanes[k].position.clock THEN "ClockDomainChanged"
  ELSE "none"

(* A position at or before the active one, by what the ring remembers of it. *)
ReplayRefusal(lane, q, f) ==
  LET kept == {i \in DOMAIN lane.recent : lane.recent[i].sequence = q.seq} IN
  IF kept = {} THEN "Reordered"
  ELSE LET newest == CHOOSE i \in kept : \A j \in kept : j <= i IN
       IF lane.recent[newest].digest # f THEN "ConflictingReplay"
       ELSE IF q.seq = lane.position.seq THEN "Duplicate"
       ELSE "Replay"

MutantGenerationRefusal(lane, q, reasons) ==
  IF reasons # {} /\ q.gen = lane.position.gen THEN "MissingReset"
  ELSE IF q.gen < lane.position.gen THEN "StateGenerationMismatch"
  ELSE "none"

(* The generation the frame's continuity asks for.                          *)
GenerationRefusal(lane, q, reasons) ==
  IF reasons = {}
  THEN IF q.gen \in {lane.position.gen, lane.position.gen + 1} THEN "none"
       ELSE "StateGenerationMismatch"
  ELSE IF q.gen = lane.position.gen THEN "MissingReset"
  ELSE IF q.gen # lane.position.gen + 1 THEN "StateGenerationMismatch"
  ELSE "none"

MutantAdmissionRefusal(k, q, f) ==
  IF lanes[k] = NoLane
  THEN IF Cardinality(OpenKeys) > MaxStreams THEN "StreamCapacity"
       ELSE IF q.gen # 0 THEN "StateGenerationMismatch" ELSE "none"
  ELSE LET lane == lanes[k] IN
       IF q.epoch # lane.position.epoch THEN RolloverRefusal(k, q)
       ELSE IF q.clock # lane.position.clock THEN "ClockDomainChanged"
       ELSE IF q.seq <= lane.position.seq THEN ReplayRefusal(lane, q, f)
       ELSE IF q.ts <= lane.position.ts THEN "NonIncreasingTimestamp"
       ELSE GenerationRefusal(lane, q, ContinuityResetReasons(lane, f))

(* classify_admission: the first reason to refuse, or "none".               *)
AdmissionRefusal(k, q, f) ==
  IF lanes[k] = NoLane
  THEN IF Cardinality(OpenKeys) >= MaxStreams THEN "StreamCapacity"
       ELSE IF q.gen # 0 THEN "StateGenerationMismatch" ELSE "none"
  ELSE LET lane == lanes[k] IN
       IF q.epoch # lane.position.epoch THEN RolloverRefusal(k, q)
       ELSE IF q.clock # lane.position.clock THEN "ClockDomainChanged"
       ELSE IF q.seq <= lane.position.seq THEN ReplayRefusal(lane, q, f)
       ELSE IF q.seq # lane.position.seq + 1 THEN "ForwardSequenceGap"
       ELSE IF q.ts <= lane.position.ts THEN "NonIncreasingTimestamp"
       ELSE GenerationRefusal(lane, q, ContinuityResetReasons(lane, f))

(* The transition of an admitted frame.                                     *)
AdmissionOf(k, q, f) ==
  IF lanes[k] = NoLane THEN Initialized
  ELSE IF q.epoch # lanes[k].position.epoch THEN RolledOver(lanes[k].position.epoch)
  ELSE IF q.gen = lanes[k].position.gen THEN Advanced
  ELSE LET reasons == ContinuityResetReasons(lanes[k], f) IN
       ResetFor(IF reasons = {} THEN {"Explicit"} ELSE reasons)

MutantRolledOverLane(lane, q) ==
  [lane EXCEPT !.usedEpochs = @ \cup {q.epoch}, !.tracks = NoTracks,
               !.lastFrame = NoContext]

MutantRolledOverLaneKeepsRing(lane, q) ==
  [MutantRolledOverLane(lane, q) EXCEPT !.position = q]

(* apply_admission, on the one lane it touches.                             *)
RolledOverLane(lane, q) ==
  [position |-> q, usedEpochs |-> lane.usedEpochs \cup {q.epoch},
   tracks |-> NoTracks, lastFrame |-> NoContext, recent |-> <<>>]

AppliedLane(k, q, t) ==
  CASE t.kind = "Initialized"     -> NewLane(q)
    [] t.kind = "Advanced"        -> lanes[k]
    [] t.kind = "Reset"           -> [lanes[k] EXCEPT !.tracks = NoTracks]
    [] t.kind = "EpochRolledOver" -> RolledOverLane(lanes[k], q)

-----------------------------------------------------------------------------
(* Assessment of an admitted frame.                                         *)

Expected(f) == f.under.modalities
Abstains(f, t) == Expected(f) \ f.roster[t] # {}
Evaluated(f) == {t \in DOMAIN f.roster : ~Abstains(f, t)}

(* push_back, then pop_front past the history bound.                        *)
Slide(w, s) == IF Len(w) >= HistoryFrames THEN Append(Tail(w), s) ELSE Append(w, s)

MutantWindows(lane, q, f) ==
  [t \in Tracks |-> IF t \in Evaluated(f)
                    THEN Slide(lane.tracks[t], [at |-> q, under |-> f.under])
                    ELSE lane.tracks[t]]

(* Tracks outside the frozen ledger are dropped, abstained ones emptied.    *)
Windows(lane, q, f) ==
  [t \in Tracks |-> IF t \in Evaluated(f)
                    THEN Slide(lane.tracks[t], [at |-> q, under |-> f.under])
                    ELSE <<>>]

(* remember_frame.                                                          *)
Remember(recent, q, f) ==
  Append(IF Len(recent) >= MaxRecent THEN Tail(recent) ELSE recent,
         [sequence |-> q.seq, digest |-> f])

(* The lane after assess_lane and the bookkeeping that follows it.          *)
AssessedLane(lane, q, f) ==
  [lane EXCEPT !.position = q, !.tracks = Windows(lane, q, f),
               !.lastFrame = f.under, !.recent = Remember(@, q, f)]

MutantAssessments(lane, q, f, t) ==
  [x \in DOMAIN f.roster |->
     IF Abstains(f, x)
     THEN [kind |-> "Abstained", seq |-> f.seq,
           unavailable |-> Expected(f) \ f.roster[x]]
     ELSE [kind |-> "Evaluated", seq |-> f.seq, position |-> q,
           historyReset |-> ResetsHistory(t)]]

Assessments(lane, q, f, t) ==
  [x \in DOMAIN f.roster |->
     IF Abstains(f, x)
     THEN [kind |-> "Abstained", seq |-> f.seq,
           unavailable |-> Expected(f) \ f.roster[x]]
     ELSE [kind |-> "Evaluated", seq |-> f.seq, position |-> q,
           historyReset |-> ResetsHistory(t) \/ lane.tracks[x] = <<>>]]

(* The checks between the frame digest and admission, first failure first.  *)
FrameFault(q, f) ==
  IF f.defect = "identity" THEN "InvalidFrame"
  ELSE IF q.epoch # f.epoch \/ q.seq # f.seq \/ q.ts # f.ts THEN "InvalidPosition"
  ELSE IF \/ f.defect = "modality_order" \/ Expected(f) = {}
          \/ Cardinality(Expected(f)) < MinChannels
          \/ Expected(f) \notin AcceptedSuites THEN "InvalidFrame"
  ELSE IF Cardinality(DOMAIN f.roster) > MaxTracks THEN "TrackCapacity"
  ELSE IF \/ f.defect = "ledger"
          \/ \E t \in DOMAIN f.roster : ~(f.roster[t] \subseteq Expected(f))
       THEN "InvalidFrame"
  ELSE "none"

Admits(error, q, f) ==
  LET k    == <<f.producer, q.stream>>
      t    == AdmissionOf(k, q, f)
      lane == AppliedLane(k, q, t)
  IN \/ Accept(error, [lanes EXCEPT ![k] = AssessedLane(lane, q, f)],
               f.producer, q, t, f, Assessments(lane, q, f, t))
     \/ \* assess_default refuses one of the windows
        /\ Evaluated(f) # {}
        /\ Terminate(error, [lanes EXCEPT ![k] = lane], f.producer, q,
                     Faulted("Assessment"), f, "Assessment")

(* assess_positioned_frame after its fault check.                           *)
AssessAt(error, q, f) ==
  LET defect  == FrameFault(q, f)
      refusal == AdmissionRefusal(<<f.producer, q.stream>>, q, f)
  IN \/ /\ f.defect = "cardinality"
        /\ FailSilently(error, "InvalidFrame")
     \/ /\ f.defect # "cardinality" /\ defect # "none"
        /\ Terminate(error, lanes, f.producer, q, Faulted(defect), f, defect)
     \/ /\ f.defect # "cardinality" /\ defect = "none" /\ refusal # "none"
        /\ Terminate(error, lanes, f.producer, q, Rejected(refusal), f, refusal)
     \/ /\ f.defect # "cardinality" /\ defect = "none" /\ refusal = "none"
        /\ Admits(error, q, f)

-----------------------------------------------------------------------------
MutantLegacyGeneration(f) ==
  LET k == <<f.producer, LegacyStream>> IN
  IF lanes[k] = NoLane THEN 0
  ELSE IF lanes[k].position.epoch # f.epoch THEN 0
  ELSE IF lanes[k].lastFrame = NoContext \/ lanes[k].lastFrame = f.under
  THEN lanes[k].position.gen
  ELSE lanes[k].position.gen + 1

(* legacy_local_position.                                                   *)
LegacyGeneration(f) ==
  LET k == <<f.producer, LegacyStream>> IN
  IF lanes[k] = NoLane THEN 0
  ELSE IF lanes[k].position.epoch # f.epoch THEN 0
  ELSE IF ContinuityResetReasons(lanes[k], f) = {} THEN lanes[k].position.gen
  ELSE lanes[k].position.gen + 1

LegacyPosition(f) ==
  [stream |-> LegacyStream, epoch |-> f.epoch, gen |-> LegacyGeneration(f),
   seq |-> f.seq, ts |-> f.ts, clock |-> LegacyClock]

(* StreamPosition::try_new refuses a generation past the safe maximum.      *)
LegacyPositionValid(f) == LegacyGeneration(f) <= MaxGeneration

(* assess_frame and assess_frame_transition.                                *)
AssessFrame(f) ==
  /\ fault = NoFault
  /\ \/ /\ f.defect = "cardinality"
        /\ FailSilently("frame_error", "InvalidFrame")
     \/ /\ f.defect # "cardinality" /\ ~LegacyPositionValid(f)
        /\ FailSilently("frame_error", "InvalidPosition")
     \/ /\ f.defect # "cardinality" /\ LegacyPositionValid(f)
        /\ AssessAt("frame_error", LegacyPosition(f), f)

AssessPositionedFrame(q, f) ==
  /\ fault = NoFault
  /\ AssessAt("error", q, f)

(* control_reset, reached from reset_at and from timeout_at.                *)
ControlReset(producer, q, reason) ==
  LET k == <<producer, q.stream>> IN
  /\ fault = NoFault
  /\ IF lanes[k] # NoLane /\ IsCheckedReset(lanes[k].position, q)
     THEN Accept("error", [lanes EXCEPT ![k] =
                   [@ EXCEPT !.position = q, !.tracks = NoTracks, !.lastFrame = NoContext]],
                 producer, q, ResetFor({reason}), NoFrame, <<>>)
     ELSE Terminate("error", lanes, producer, q, Rejected("InvalidResetSuccessor"),
                    NoFrame, "InvalidResetSuccessor")

ResetAt(producer, q) == ControlReset(producer, q, "Explicit")
TimeoutAt(producer, q) == ControlReset(producer, q, "Timeout")

RolloverAt(producer, q) ==
  LET k == <<producer, q.stream>>
      refusal == RolloverRefusal(k, q)
  IN /\ fault = NoFault
     /\ IF refusal = "none"
        THEN Accept("error", [lanes EXCEPT ![k] = RolledOverLane(@, q)],
                    producer, q, RolledOver(lanes[k].position.epoch), NoFrame, <<>>)
        ELSE Terminate("error", lanes, producer, q, Rejected(refusal),
                       NoFrame, refusal)

(* A control call whose producer name is outside the identity grammar.      *)
ControlUnknownProducer ==
  /\ fault = NoFault
  /\ FailSilently("error", "InvalidPosition")

(* clear_histories: deprecated, but there; after a fault nothing is left to *)
(* clear.                                                                   *)
ClearHistories ==
  /\ lanes' = Cleared(lanes)
  /\ outcome' = IF fault = NoFault THEN [answer |-> "nothing", assessments |-> <<>>]
                ELSE outcome
  /\ UNCHANGED <<log, fault, admitted>>

(* Every other call after the first terminal error returns that error.      *)
ReturnFault ==
  /\ fault # NoFault
  /\ UNCHANGED vars

Next ==
  \/ \E f \in Frames : AssessFrame(f)
  \/ \E c \in Placed : AssessPositionedFrame(c[1], c[2])
  \/ \E m \in Producers, q \in Positions :
       ResetAt(m, q) \/ TimeoutAt(m, q) \/ RolloverAt(m, q)
  \/ ControlUnknownProducer
  \/ ClearHistories
  \/ ReturnFault

Spec == Init /\ [][Next]_vars
-----------------------------------------------------------------------------
(* Properties.                                                              *)

(* Every variable holds a value of its kind.                                *)
TypeOK ==
  /\ lanes \in [Keys -> Lane \cup {NoLane}]
  /\ receipts \in Seq(Receipt)
  /\ anchor \in 0..(MaxReceiptIndex + 1)
  /\ lastDigest \in 0..(MaxReceiptIndex + 1)
  /\ nextIndex \in 0..(MaxReceiptIndex + 1)
  /\ evicted \in Nat
  /\ fault \in {NoFault} \cup Faults \cup Rejections
  /\ outcome.answer \in Answers
  /\ admitted \in [Keys -> SUBSET [epoch : Epochs, seq : 0..MaxSequence,
                                   evidence : Frames \cup {NoFrame}]]

(* b was taken right after a with nothing in between: the next position of  *)
(* the same epoch and generation, in time, under the same continuity.       *)
Contiguous(a, b) ==
  /\ b.at = [a.at EXCEPT !.seq = @ + 1, !.ts = b.at.ts]
  /\ a.at.ts < b.at.ts /\ b.at.ts <= a.at.ts + MaxGap
  /\ b.under = a.under

LaneContinuous(lane) ==
  \A t \in Tracks : lane.tracks[t] # <<>> =>
    LET w == lane.tracks[t] IN
    /\ Len(w) <= HistoryFrames
    /\ w[Len(w)] = [at |-> lane.position, under |-> lane.lastFrame]
    /\ \A i \in 1..(Len(w) - 1) : Contiguous(w[i], w[i + 1])

(* Samples on either side of an absence, a reset, a rollover, a change of   *)
(* projection or an excessive gap never share a retained window, and every  *)
(* retained window ends at the stream's active position (assess_lane and    *)
(* everything that clears tracks).                                          *)
WindowsContinuous == \A k \in OpenKeys : LaneContinuous(lanes[k])

(* LifecycleReceipt::has_valid_detector_shape.                              *)
WellShaped(r) ==
  /\ r.index <= MaxReceiptIndex
  /\ r.index = 0 => r.previous = ZeroDigest
  /\ r.hasAssessment => r.frame # NoFrame
  /\ r.transition.kind \in {"Initialized", "Advanced"} => r.hasAssessment
  /\ r.transition.kind \in {"Reset", "EpochRolledOver"} => (r.frame # NoFrame) = r.hasAssessment
  /\ IsTerminal(r.transition) => ~r.hasAssessment
  /\ r.transition.kind = "Faulted" => r.frame # NoFrame

(* The retained receipts are one unbroken chain from the public anchor to   *)
(* the last digest, indexed from the number evicted, each a shape the       *)
(* strict decoder takes back (commit_receipt against follows and            *)
(* decode_and_verify).                                                      *)
ReceiptChain ==
  /\ nextIndex = evicted + Len(receipts)
  /\ Len(receipts) <= MaxReceipts
  /\ anchor = IF evicted = 0 THEN ZeroDigest ELSE DigestOf(evicted - 1)
  /\ lastDigest = IF nextIndex = 0 THEN ZeroDigest ELSE DigestOf(nextIndex - 1)
  /\ \A i \in 1..Len(receipts) :
       /\ receipts[i].index = evicted + i - 1
       /\ receipts[i].digest = DigestOf(receipts[i].index)
       /\ receipts[i].previous = IF i = 1 THEN anchor ELSE receipts[i - 1].digest
       /\ WellShaped(receipts[i])

(* A terminal receipt is the last one ever committed and names the fault    *)
(* that every later call returns; a faulted detector retains no window.     *)
FailsClosed ==
  /\ \A i \in 1..Len(receipts) : IsTerminal(receipts[i].transition) =>
       /\ i = Len(receipts)
       /\ fault # NoFault
       /\ receipts[i].transition.about = {fault}
  /\ fault # NoFault => \A k \in OpenKeys : lanes[k].tracks = NoTracks

KeyOf(r) == <<r.producer, r.position.stream>>

(* What an accepted receipt says of the one before it on the same stream.   *)
Replays(r, s) ==
  LET p == r.position  q == s.position IN
  \/ s.transition = Advanced /\ q = [p EXCEPT !.seq = @ + 1, !.ts = q.ts] /\ q.ts > p.ts
  \/ s.transition.kind = "Reset" /\ s.transition.about # {} /\ IsCheckedReset(p, q)
  \/ s.transition = RolledOver(p.epoch) /\ q.epoch # p.epoch
     /\ q.seq = 0 /\ q.gen = 0 /\ q.clock = p.clock

(* The log alone tells where every stream is: two successive accepted       *)
(* receipts of one stream are one legal transition apart, and the last one  *)
(* carries the stream's active position (the interleaved streams share one  *)
(* chain).                                                                  *)
LogReplaysLanes ==
  LET accepted == {i \in 1..Len(receipts) : ~IsTerminal(receipts[i].transition)}
      later(i) == {j \in accepted : j > i /\ KeyOf(receipts[j]) = KeyOf(receipts[i])}
  IN \A i \in accepted :
       IF later(i) = {}
       THEN fault = NoFault => lanes[KeyOf(receipts[i])].position = receipts[i].position
       ELSE \E j \in later(i) : (\A l \in later(i) : j <= l) /\ Replays(receipts[i], receipts[j])

(* What is returned for a track agrees with what is kept of it: a report    *)
(* says the history was reset exactly when its window holds this frame      *)
(* alone, an abstention leaves no window, and neither does a track outside  *)
(* the frozen ledger.                                                       *)
ReportsMatchWindows ==
  outcome.answer = "assessed" =>
    LET r == receipts[Len(receipts)]
        lane == lanes[KeyOf(r)]
    IN \A t \in Tracks :
         IF t \in DOMAIN outcome.assessments /\ outcome.assessments[t].kind = "Evaluated"
         THEN /\ outcome.assessments[t].position = r.position
              /\ lane.tracks[t] # <<>>
              /\ outcome.assessments[t].historyReset <=> Len(lane.tracks[t]) = 1
              /\ ResetsHistory(r.transition) => outcome.assessments[t].historyReset
         ELSE lane.tracks[t] = <<>>

(* A replay is called by its right name: Duplicate and Replay only for a    *)
(* frame that was accepted at that very coordinate, ConflictingReplay only  *)
(* where another frame was, Reordered only where none was or where the ring *)
(* has since forgotten it (remember_frame, classify_admission).             *)
ReplaysNamedRightly ==
  \A i \in 1..Len(receipts) :
    LET r      == receipts[i]
        past   == {c \in admitted[KeyOf(r)] : c.epoch = r.position.epoch /\ c.evidence # NoFrame}
        there  == {c \in past : c.seq = r.position.seq}
        beyond == {c \in past : c.seq > r.position.seq}
    IN /\ r.transition \in {Rejected("Duplicate"), Rejected("Replay")} =>
            \E c \in there : c.evidence = r.frame
       /\ r.transition = Rejected("ConflictingReplay") =>
            there # {} /\ \A c \in there : c.evidence # r.frame
       /\ r.transition = Rejected("Reordered") =>
            there = {} \/ Cardinality(beyond) >= MaxRecent

(* The position derived for a version 1 sidecar frame always asks for the   *)
(* generation its own continuity requires, so the compatibility entry point *)
(* never refuses its own derivation, whatever positioned and control calls  *)
(* came before (legacy_local_position against classify_admission).          *)
LegacyAsksRightGeneration ==
  outcome.answer = "frame_error" => fault \notin {"MissingReset", "StateGenerationMismatch"}

(* Every retained collection stays within its ceiling (lanes, epochs,       *)
(* fingerprints, tracks, histories).                                        *)
RetentionBounded ==
  /\ Cardinality(OpenKeys) <= MaxStreams
  /\ \A k \in OpenKeys :
       /\ Cardinality(lanes[k].usedEpochs) <= MaxEpochs
       /\ Len(lanes[k].recent) <= MaxRecent
       /\ Cardinality({t \in Tracks : lanes[k].tracks[t] # <<>>}) <= MaxTracks

(* A lane holds a position of its own stream; its used epochs are those of  *)
(* every coordinate it ever took, and none it took in the active epoch lies *)
(* beyond the active position.                                              *)
CoordinatesAccounted ==
  \A k \in Keys :
    IF lanes[k] = NoLane THEN admitted[k] = {}
    ELSE /\ lanes[k].position.stream = k[2]
         /\ lanes[k].usedEpochs = {c.epoch : c \in admitted[k]}
         /\ lanes[k].position.epoch \in lanes[k].usedEpochs
         /\ \A c \in admitted[k] :
              c.epoch = lanes[k].position.epoch => c.seq <= lanes[k].position.seq

(* No stream takes the same epoch and sequence twice, by frame, control     *)
(* call or rollover, in the whole life of the detector.                     *)
NeverTwice ==
  [][\A k \in Keys :
       (lanes'[k] # NoLane /\ (lanes[k] = NoLane \/ lanes'[k].position # lanes[k].position)) =>
         \A c \in admitted[k] :
           <<c.epoch, c.seq>> # <<lanes'[k].position.epoch, lanes'[k].position.seq>>]_vars

(* The detector implements the abstract promise about positions.            *)
Promise == INSTANCE StreamAdmission WITH
  Unopened <- NoLane,
  current  <- [k \in Keys |-> IF lanes[k] = NoLane THEN NoLane ELSE lanes[k].position],
  spent    <- [k \in Keys |-> {<<c.epoch, c.seq>> : c \in admitted[k]}],
  halted   <- fault # NoFault

ImplementsStreamAdmission == Promise!Spec
=============================================================================
