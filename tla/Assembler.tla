------------------------------ MODULE Assembler ------------------------------
(***************************************************************************)
(* The cross-route assembler of crates/galadriel-ncp/src/assembler.rs: it  *)
(* puts monitor events back in sequence order, joins them with the frozen  *)
(* observations of the other route, and releases a frame only when every   *)
(* declared event and every owed observation has arrived.  One action is   *)
(* one call; the caller brings the time.                                   *)
(*                                                                         *)
(* What is abstracted.  A frame identity is its fusion sequence, timestamp,*)
(* frozen prior and one value for frame and context id.  A projection is   *)
(* its prior, its frame and a value.  What size, decoding, validation and  *)
(* registry lookups conclude about an envelope is its `defect', and `raw'  *)
(* tells whether it was handed over as bytes or decoded; the limits        *)
(* of the registry policy that a single event can exceed are its `trouble'.*)
(* The three ways an observation can fail its join are one fault, since    *)
(* the code reports whichever hash order meets first.                      *)
(***************************************************************************)
EXTENDS FrameLedger, FiniteSets, FiniteSetsExt

CONSTANTS
  MonitorEnvelopes, ObservationEnvelopes,   \* what the two routes may carry
  Times,              \* the instants at which a call may be made
  LastInstant,        \* the largest representable instant
  MaxEventSeq,        \* JSON_SAFE_INTEGER_MAX
  MaxOutcomes,        \* RegistryOpportunityPolicy::max_outcomes_per_frame
  Limits              \* AssemblerLimits

VARIABLES
  self,     \* the fields of CrossRouteAssembler that evidence moves
  now,      \* last_now
  fault,    \* the latched first terminal fault, or NoFault
  told,     \* the events the last call returned
  log, seen, out, beats
            \* auxiliary: monitor events, observations and heartbeat receipt
            \* times taken by calls that did not fault, and frames released

taken  == <<log, seen, out, beats>>
epoch == <<self, now, fault, told, taken>>

StartedAt == 0

NoFault == [kind |-> None]

ASSUME LimitsAssumption ==
  /\ LastInstant \in Nat /\ MaxEventSeq \in Nat /\ Times \subseteq 0..LastInstant
  /\ Limits \in [{"openFrames", "eventsPerFrame", "observationsPerFrame", "tracksPerFrame",
                  "reorderEvents", "reorderDistance", "bytes", "priors", "observationStreams",
                  "observationAdvance", "frameDeadline", "reorderDeadline",
                  "heartbeatDeadline", "initialHeartbeatDeadline"} -> Nat \ {0}]
  /\ Limits.initialHeartbeatDeadline >= Limits.heartbeatDeadline

(* AssemblyFaultKind, where the assembler itself is the judge.              *)
AssemblyFaults ==
  {"MonotonicClockRegressed", "MonotonicDeadlineOverflow", "MonitorSequenceGap",
   "FrameDeadlineExpired", "HeartbeatDeadlineExpired", "DuplicateOrRegressedMonitorSequence",
   "MonitorReorderDistanceExceeded", "MonitorReorder", "MonitorSequenceExhausted",
   "ObservationForFinalizedFrame", "DuplicateOrRegressedObservation",
   "ObservationAdvanceExceeded", "ObservationStreams", "ObservationMismatch", "Frames",
   "FrameEvents", "FrameTracks", "FrameObservations", "BufferedBytes", "PriorIdentities",
   "PriorReuse", "FrameIdentityMismatch", "FusionSequenceRegressed",
   "MissingSummaryBeforeNextFrame", "EventAfterFrameSummary", "Registry",
   "ProducerDegradedFrame", "OutcomeCountMismatch", "InvalidFrameLedger",
   "V1ExpectedCountMismatch", "ProducerDeclaredLoss", "HeartbeatLastFusionMismatch",
   "HeartbeatStateRegressed"}

(* Numbers are naturals, absent values are no values, and an outcome says   *)
(* whether it owes an observation, which no miss and no birth does          *)
(* (ModalityOutcome::validate).                                             *)
ASSUME EnvelopeAssumption ==
  /\ None \notin Nat \cup AssemblyFaults
  /\ \A env \in MonitorEnvelopes :
       LET e == env.event IN
       /\ env.seq \in Nat /\ env.bytes \in Nat /\ e # None
       /\ e.kind # "Heartbeat" => e.id # None /\ e.id.fusion \in Nat
       /\ e.kind \notin {"Heartbeat", "Summary"} =>
            IF IsMiss(e) \/ IsBirth(e) THEN "v1" \in DOMAIN e => ~e.v1
            ELSE "v1" \in DOMAIN e /\ e.v1 \in BOOLEAN
  /\ \A env \in ObservationEnvelopes : env.bytes \in Nat /\ env.observation.fusion \in Nat

(* begin_call alone judges the clock: no check of an envelope or heartbeat  *)
(* concludes that time went back.                                           *)
ASSUME VerdictAssumption ==
  /\ \A env \in MonitorEnvelopes \cup ObservationEnvelopes :
       env.defect # "MonotonicClockRegressed"
  /\ \A env \in MonitorEnvelopes :
       env.event.kind = "Heartbeat" => env.event.trouble # "MonotonicClockRegressed"

New ==
  /\ self = [next |-> 1, pending |-> <<>>, gapAt |-> None, frames |-> <<>>, bytes |-> 0,
             priors |-> <<>>, high |-> <<>>, lastMonitor |-> None, lastSummary |-> None,
             lastFinalized |-> None, beat |-> None, lastBeat |-> None]
  /\ now = StartedAt /\ fault = NoFault /\ told = <<>>
  /\ log = <<>> /\ seen = {} /\ out = <<>> /\ beats = {}

-----------------------------------------------------------------------------
(* Inside a call.  w is the assembler's fields, the first error met with the*)
(* fusion sequence it invalidates from, the events to return, the frames    *)
(* staged and the monitor events processed.  A step leaves a w that carries *)
(* an error alone, as `?' does.                                             *)

Refuse(w, kind, from) == [w EXCEPT !.error = kind, !.from = from]

Least(S) == IF S = {} THEN None ELSE Min(S)
OldestOpen(w) == Least(DOMAIN w.frames)

(* PartialFrame::new.                                                       *)
NewFrame(at) == [seenAt |-> at, id |-> None, events |-> <<>>, observations |-> <<>>,
                 tracks |-> {}, summary |-> None, owed |-> None, bytes |-> 0, ready |-> FALSE]

EnsureFrame(w, f, at) ==
  IF w.error # None \/ f \in DOMAIN w.frames THEN w
  ELSE IF Cardinality(DOMAIN w.frames) >= Limits.openFrames THEN Refuse(w, "Frames", f)
  ELSE [w EXCEPT !.frames = Put(@, f, NewFrame(at))]

EstablishIdentity(w, id) ==
  LET f == id.fusion  known == id.prior \in DOMAIN w.priors IN
  IF w.error # None THEN w
  ELSE IF known /\ w.priors[id.prior] # f
    THEN Refuse(w, "PriorReuse", Least({f, w.priors[id.prior]}))
  ELSE IF ~known /\ Cardinality(DOMAIN w.priors) >= Limits.priors
    THEN Refuse(w, "PriorIdentities", f)
  ELSE IF w.frames[f].id \notin {None, id} THEN Refuse(w, "FrameIdentityMismatch", f)
  ELSE [w EXCEPT !.priors = Put(@, id.prior, f), !.frames[f].id = id]

ReserveBytes(w, n, from) ==
  IF w.error # None THEN w
  ELSE IF w.bytes + n > Limits.bytes THEN Refuse(w, "BufferedBytes", from)
  ELSE [w EXCEPT !.bytes = @ + n]

(* validate_observation_join.                                               *)
Joins(id, owed, o) ==
  LET pair == <<o.track, o.modality>> IN
  pair \in DOMAIN owed /\ o.ts = id.ts /\ o.projection = owed[pair]

RefreshReadiness(w, f) ==
  LET frame == w.frames[f] IN
  IF w.error # None THEN w
  ELSE [w EXCEPT !.frames[f].ready =
          /\ frame.summary # None
          /\ Cardinality(DOMAIN frame.observations) = Cardinality(DOMAIN frame.owed)]

(* AssembledFrame; the order of its observations is a function of their set.*)
Assembled(frame) ==
  [id |-> frame.id, events |-> frame.events, summary |-> frame.summary,
   observations |-> {frame.observations[p] : p \in DOMAIN frame.observations}]

(* One turn of the loop of drain_ready_frames: the oldest frame, if ready.  *)
ReleaseOldest(w) ==
  LET f == OldestOpen(w) IN
  IF w.error # None \/ f = None THEN w
  ELSE IF ~w.frames[f].ready THEN w
  ELSE [w EXCEPT !.frames = Restrict(@, DOMAIN @ \ {f}), !.bytes = @ - w.frames[f].bytes,
                 !.lastFinalized = f, !.ready = Append(@, Assembled(w.frames[f]))]

MutantDrainReadyFrames(w) == ReleaseOldest(w)

(* drain_ready_frames: turn after turn, one per open frame at most.         *)
DrainReadyFrames(w) ==
  LET turns == Cardinality(DOMAIN w.frames)
      after[n \in 0..turns] == IF n = 0 THEN w ELSE ReleaseOldest(after[n - 1])
  IN IF w.error # None THEN w ELSE after[turns]

-----------------------------------------------------------------------------
(* The monitor route, once an event's turn has come.                        *)

(* check_monitor_frame_order.                                               *)
CheckMonitorFrameOrder(w, f) ==
  LET previous == w.lastMonitor IN
  CASE w.error # None -> w
    [] previous # None /\ f < previous -> Refuse(w, "FusionSequenceRegressed", f)
    [] previous # None /\ f > previous /\ w.lastSummary # previous ->
         Refuse(w, "MissingSummaryBeforeNextFrame", previous)
    [] w.lastSummary = f -> Refuse([w EXCEPT !.lastMonitor = f], "EventAfterFrameSummary", f)
    [] OTHER -> [w EXCEPT !.lastMonitor = f]

RefuseSummarized(w, f) ==
  IF w.error = None /\ w.frames[f].summary # None
  THEN Refuse(w, "EventAfterFrameSummary", f) ELSE w

(* The start of process_frame_event and process_summary.                    *)
EnterFrame(w, p) ==
  LET id == p.event.id IN
  RefuseSummarized(EstablishIdentity(
    EnsureFrame(CheckMonitorFrameOrder(w, id.fusion), id.fusion, p.at), id), id.fusion)

FrameEventError(frame, e) ==
  CASE Len(frame.events) + 1 > MaxOutcomes \/ e.trouble # None -> "Registry"
    [] Len(frame.events) >= Limits.eventsPerFrame -> "FrameEvents"
    [] e.track \notin frame.tracks /\ Cardinality(frame.tracks) >= Limits.tracksPerFrame ->
         "FrameTracks"
    [] OTHER -> None

WithEvent(frame, p) ==
  [frame EXCEPT !.tracks = @ \cup {p.event.track}, !.events = Append(@, p.event),
                !.bytes = @ + p.bytes]

MutantAddEvent(w, p) ==
  LET f == p.event.id.fusion IN
  IF w.error # None THEN w
  ELSE [w EXCEPT !.bytes = @ + p.bytes,
                 !.frames[f] = WithEvent(@, [p EXCEPT !.bytes = 0])]

AddEvent(w, p) ==
  LET f     == p.event.id.fusion
      error == FrameEventError(w.frames[f], p.event)
  IN IF w.error # None THEN w
     ELSE IF error # None THEN Refuse(w, error, f)
     ELSE [w EXCEPT !.bytes = @ + p.bytes,
                    !.frames[f] = WithEvent(@, p)]

(* process_frame_event.                                                     *)
ProcessFrameEvent(w, p) == AddEvent(EnterFrame(w, p), p)

(* verify_summary, the policy limits and validate_frame_at_summary.         *)
SummaryError(frame, s) ==
  LET ledger == LedgerError(frame.events, s)
      owed   == Owed(frame.events, s)
  IN CASE s.trouble # None \/ s.active > MaxActiveTracks \/ s.outcomes > MaxOutcomes -> "Registry"
       [] s.degraded -> "ProducerDegradedFrame"
       [] Len(frame.events) # s.outcomes -> "OutcomeCountMismatch"
       [] ledger # None -> ledger
       [] Cardinality(DOMAIN owed) # s.v1Expected -> "V1ExpectedCountMismatch"
       [] \E p \in DOMAIN frame.observations : ~Joins(frame.id, owed, frame.observations[p]) ->
            "ObservationMismatch"
       [] OTHER -> None

Closed(frame, p) ==
  [frame EXCEPT !.summary = p.event, !.owed = Owed(frame.events, p.event), !.bytes = @ + p.bytes]

CloseFrame(w, p) ==
  LET s     == p.event
      f     == s.id.fusion
      error == SummaryError(w.frames[f], s)
  IN IF w.error # None THEN w
     ELSE IF error # None THEN Refuse(w, error, f)
     ELSE [w EXCEPT !.bytes = @ + p.bytes, !.lastSummary = f,
                    !.frames[f] = Closed(@, p)]

(* process_summary.                                                         *)
ProcessSummary(w, p) == CloseFrame(EnterFrame(w, p), p)

HeartbeatError(w, e) ==
  CASE e.trouble # None -> e.trouble
    [] e.degraded -> "ProducerDeclaredLoss"
    [] e.cursor # w.lastSummary -> "HeartbeatLastFusionMismatch"
    [] w.beat # None /\ (e.uptime <= w.beat.uptime \/ e.published < w.beat.published) ->
         "HeartbeatStateRegressed"
    [] OTHER -> None

(* process_heartbeat and what process_ordered_monitor adds.                 *)
ProcessHeartbeat(w, p) ==
  LET error == HeartbeatError(w, p.event) IN
  IF error # None THEN Refuse(w, error, OldestOpen(w))
  ELSE [w EXCEPT !.beat = [uptime |-> p.event.uptime, published |-> p.event.published],
                 !.lastBeat = p.at,
                 !.told = Append(@, [kind |-> "HeartbeatAccepted", at |-> p.at])]

(* process_ordered_monitor.                                                 *)
ProcessOrderedMonitor(w, p) ==
  LET processed == IF p.event.kind = "Summary" THEN ProcessSummary(w, p)
                   ELSE ProcessFrameEvent(w, p)
  IN IF p.event.kind = "Heartbeat" THEN ProcessHeartbeat(w, p)
     ELSE DrainReadyFrames(RefreshReadiness(processed, p.event.id.fusion))

(* One turn of the loop of drain_monitor.                                   *)
MoveOn(w, q) ==
  IF w.error # None THEN w
  ELSE IF q = MaxEventSeq THEN Refuse(w, "MonitorSequenceExhausted", OldestOpen(w))
  ELSE [w EXCEPT !.next = q + 1]

ProcessNext(w) ==
  LET q == w.next  p == w.pending[q] IN
  IF w.error # None \/ q \notin DOMAIN w.pending THEN w
  ELSE MoveOn(ProcessOrderedMonitor(
         [w EXCEPT !.bytes = @ - p.bytes, !.pending = Restrict(@, DOMAIN @ \ {q}),
                   !.processed = Append(@, p)], p), q)

RefreshGap(w) ==
  IF w.error # None THEN w
  ELSE [w EXCEPT !.gapAt = Least({w.pending[q].at : q \in DOMAIN w.pending})]

(* drain_monitor: turn after turn, one per buffered event at most.          *)
DrainMonitor(w) ==
  LET turns == Cardinality(DOMAIN w.pending)
      after[n \in 0..turns] == IF n = 0 THEN w ELSE ProcessNext(after[n - 1])
  IN RefreshGap(after[turns])

-----------------------------------------------------------------------------
(* The two routes in.                                                       *)

EventFusionSeq(e) == IF e.kind = "Heartbeat" THEN None ELSE e.id.fusion

(* Where a defective envelope invalidates from: raw bytes that are too large*)
(* are refused before anything in them is known.                            *)
DefectFrom(env, f) ==
  IF env.defect = "Registry" \/ (env.defect = "PayloadTooLarge" /\ ~env.raw) THEN f ELSE None

ContractMismatch(w, env) ==
  IF env.mismatch THEN [w EXCEPT !.told = Append(@, [kind |-> "ContractHashMismatch"])] ELSE w

MonitorError(w, env) ==
  CASE env.defect # None -> env.defect
    [] env.seq < w.next \/ env.seq \in DOMAIN w.pending -> "DuplicateOrRegressedMonitorSequence"
    [] env.seq - w.next > Limits.reorderDistance -> "MonitorReorderDistanceExceeded"
    [] Cardinality(DOMAIN w.pending) >= Limits.reorderEvents -> "MonitorReorder"
    [] OTHER -> None

MakeRoom(w, env, at) ==
  LET f == EventFusionSeq(env.event) IN
  ReserveBytes(IF f = None THEN w ELSE EnsureFrame(w, f, at), env.bytes, f)

Buffer(w, env, at) ==
  IF w.error # None THEN w
  ELSE DrainMonitor([w EXCEPT
         !.pending = Put(@, env.seq, [event |-> env.event, bytes |-> env.bytes, at |-> at])])

(* ingest_monitor_envelope_sized.                                           *)
TakeMonitor(w, env, at) ==
  LET f     == EventFusionSeq(env.event)
      error == MonitorError(w, env)
  IN IF w.error # None THEN w
     ELSE IF env.defect # None THEN Refuse(w, error, DefectFrom(env, f))
     ELSE IF error # None THEN Refuse(ContractMismatch(w, env), error, f)
     ELSE Buffer(MakeRoom(ContractMismatch(w, env), env, at), env, at)

(* The checks of the observation route before its frame is opened.          *)
ObservationError(w, o) ==
  LET stream == <<o.track, o.modality>>  known == stream \in DOMAIN w.high IN
  CASE w.lastFinalized # None /\ o.fusion <= w.lastFinalized -> "ObservationForFinalizedFrame"
    [] known /\ o.fusion <= w.high[stream] -> "DuplicateOrRegressedObservation"
    [] known /\ o.fusion - w.high[stream] > Limits.observationAdvance ->
         "ObservationAdvanceExceeded"
    [] ~known /\ Cardinality(DOMAIN w.high) >= Limits.observationStreams -> "ObservationStreams"
    [] OTHER -> None

(* FrameIdentity::from_observation.                                         *)
IdentityOf(o) == [fusion |-> o.fusion, ts |-> o.ts, prior |-> o.projection.prior,
                  frame |-> o.projection.frame]

JoinFrameError(frame, o) ==
  CASE Cardinality(DOMAIN frame.observations) >= Limits.observationsPerFrame ->
         "FrameObservations"
    [] o.track \notin frame.tracks /\ Cardinality(frame.tracks) >= Limits.tracksPerFrame ->
         "FrameTracks"
    [] frame.summary # None /\ ~Joins(frame.id, frame.owed, o) -> "ObservationMismatch"
    [] OTHER -> None

WithObservation(frame, o, bytes) ==
  [frame EXCEPT !.tracks = @ \cup {o.track}, !.bytes = @ + bytes,
                !.observations = Put(@, <<o.track, o.modality>>, o)]

Store(w, o, bytes) ==
  LET f == o.fusion  stream == <<o.track, o.modality>> IN
  IF w.error # None THEN w
  ELSE DrainReadyFrames(RefreshReadiness(
         [w EXCEPT !.high = Put(@, stream, f),
                   !.frames[f] = WithObservation(@, o, bytes)], f))

(* What becomes of an observation once its frame is open and identified.    *)
StoreObservation(w, o, bytes) ==
  LET error == JoinFrameError(w.frames[o.fusion], o) IN
  IF w.error # None THEN w
  ELSE IF error # None THEN Refuse(w, error, o.fusion)
  ELSE Store(ReserveBytes(w, bytes, o.fusion), o, bytes)

(* ingest_observation_envelope_sized.                                       *)
TakeObservation(w, env, at) ==
  LET o     == env.observation
      heard == IF env.defect \notin {None, "Registry"} THEN w ELSE ContractMismatch(w, env)
      error == IF env.defect # None THEN env.defect ELSE ObservationError(w, o)
      from  == IF env.defect # None THEN DefectFrom(env, o.fusion) ELSE o.fusion
      open  == EnsureFrame(heard, o.fusion, at)
  IN IF w.error # None THEN w
     ELSE IF error # None THEN Refuse(heard, error, from)
     ELSE StoreObservation(IF o.projection = None THEN open
                           ELSE EstablishIdentity(open, IdentityOf(o)), o, env.bytes)

-----------------------------------------------------------------------------
(* Time.                                                                    *)

Expired(since, t, deadline) == since # None /\ t - since >= deadline

HeartbeatBase == IF self.lastBeat = None THEN StartedAt ELSE self.lastBeat
HeartbeatWindow ==
  IF self.lastBeat = None THEN Limits.initialHeartbeatDeadline ELSE Limits.heartbeatDeadline

Overdue(t) == {f \in DOMAIN self.frames :
  ~self.frames[f].ready /\ Expired(self.frames[f].seenAt, t, Limits.frameDeadline)}

PendingFusions ==
  {EventFusionSeq(self.pending[q].event) : q \in DOMAIN self.pending} \ {None}

MutantBeginError(t) ==
  CASE t < now -> "MonotonicClockRegressed"
    [] \E d \in {Limits.frameDeadline, Limits.reorderDeadline, Limits.heartbeatDeadline,
                 Limits.initialHeartbeatDeadline} : t + d > LastInstant ->
         "MonotonicDeadlineOverflow"
    [] Expired(self.gapAt, t, Limits.reorderDeadline) -> "MonitorSequenceGap"
    [] Expired(HeartbeatBase, t, HeartbeatWindow) -> "HeartbeatDeadlineExpired"
    [] OTHER -> None

BeginError(t) ==
  CASE t < now -> "MonotonicClockRegressed"
    [] \E d \in {Limits.frameDeadline, Limits.reorderDeadline, Limits.heartbeatDeadline,
                 Limits.initialHeartbeatDeadline} : t + d > LastInstant ->
         "MonotonicDeadlineOverflow"
    [] Expired(self.gapAt, t, Limits.reorderDeadline) -> "MonitorSequenceGap"
    [] Overdue(t) # {} -> "FrameDeadlineExpired"
    [] Expired(HeartbeatBase, t, HeartbeatWindow) -> "HeartbeatDeadlineExpired"
    [] OTHER -> None

(* What a call adds to the fields while it runs.                            *)
Scratch == [error |-> None, from |-> None, told |-> <<>>, ready |-> <<>>, processed |-> <<>>]

(* begin_call.                                                              *)
Begin(t) ==
  LET w    == [x \in DOMAIN self \cup DOMAIN Scratch |->
                 IF x \in DOMAIN self THEN self[x] ELSE Scratch[x]]
      from == CASE BeginError(t) = "MonotonicClockRegressed" -> None
                [] BeginError(t) = "MonitorSequenceGap" ->
                     Least(PendingFusions \cup DOMAIN self.frames)
                [] BeginError(t) = "FrameDeadlineExpired" -> Least(Overdue(t))
                [] OTHER -> OldestOpen(self)
  IN IF BeginError(t) = None THEN w ELSE Refuse(w, BeginError(t), from)

MutantNextDeadlineAt ==
  Min({HeartbeatBase + HeartbeatWindow}
      \cup (IF self.gapAt = None THEN {} ELSE {self.gapAt + Limits.reorderDeadline})
      \cup {self.frames[f].seenAt + Limits.frameDeadline : f \in DOMAIN self.frames})

(* next_deadline_at, while the epoch lives.                                 *)
NextDeadlineAt ==
  Min({HeartbeatBase + HeartbeatWindow}
      \cup (IF self.gapAt = None THEN {} ELSE {self.gapAt + Limits.reorderDeadline})
      \cup {self.frames[f].seenAt + Limits.frameDeadline :
              f \in {g \in DOMAIN self.frames : ~self.frames[g].ready}})

-----------------------------------------------------------------------------
(* How a call ends: the staged frames last, or the fault and nothing kept.  *)

Latest(t) == Max({now, t})

AddFrame(frames, e) == IF e.kind = "FrameReady" THEN Append(frames, e.frame) ELSE frames
FramesOf(events) == FoldLeft(AddFrame, <<>>, events)
BeatsOf(events) == {e.at : e \in {x \in Range(events) : x.kind = "HeartbeatAccepted"}}
Ready(w) == [i \in DOMAIN w.ready |-> [kind |-> "FrameReady", frame |-> w.ready[i]]]
TheFault == [kind |-> "Fault"]

MutantReturned(w) ==
  IF w.error = None THEN w.told \o Ready(w) ELSE w.told \o Ready(w) \o <<TheFault>>

Returned(w) == IF w.error = None THEN w.told \o Ready(w) ELSE Append(w.told, TheFault)

Wiped(w) == [w EXCEPT !.pending = <<>>, !.frames = <<>>, !.priors = <<>>, !.high = <<>>,
                      !.bytes = 0]

Finish(w, t, observations) ==
  /\ now' = Latest(t)
  /\ told' = Returned(w)
  /\ out' = out \o FramesOf(Returned(w))
  /\ \/ /\ w.error = None
        /\ self' = Restrict(w, DOMAIN self)
        /\ log' = log \o [i \in DOMAIN w.processed |-> w.processed[i].event]
        /\ seen' = seen \cup observations
        /\ beats' = beats \cup BeatsOf(w.told)
        /\ UNCHANGED fault
     \/ /\ w.error # None
        /\ self' = Restrict(Wiped(w), DOMAIN self)
        /\ fault' = [kind |-> w.error, from |-> w.from, at |-> Latest(t)]
        /\ UNCHANGED <<log, seen, beats>>

IngestMonitor(env, t) ==
  /\ fault = NoFault
  /\ Finish(TakeMonitor(Begin(t), env, t), t, {})

IngestObservation(env, t) ==
  /\ fault = NoFault
  /\ Finish(TakeObservation(Begin(t), env, t), t, {env.observation})

AdvanceTime(t) ==
  /\ fault = NoFault
  /\ Finish(Begin(t), t, {})

(* Every call after the first fault returns nothing.                        *)
AfterFault ==
  /\ fault # NoFault
  /\ told' = <<>>
  /\ UNCHANGED <<self, now, fault, taken>>

EpochNext ==
  \/ \E t \in Times, env \in MonitorEnvelopes : IngestMonitor(env, t)
  \/ \E t \in Times, env \in ObservationEnvelopes : IngestObservation(env, t)
  \/ \E t \in Times : AdvanceTime(t)
  \/ AfterFault

EpochSpec == New /\ [][EpochNext]_epoch

(* The receiver that owns the assembler sleeps until next_deadline_at and   *)
(* calls advance_time again (operational_live.rs, recv), so time goes on.   *)
EpochFairness == WF_epoch(\E t \in Times : t > now /\ AdvanceTime(t))
EpochFairSpec == EpochSpec /\ EpochFairness
-----------------------------------------------------------------------------
(* Properties.                                                              *)

Promise == INSTANCE RouteJoin WITH dead <- fault # NoFault

(* The assembler implements the join of the two routes: whatever order the  *)
(* events of either route arrive in, what is released is the sequence-order *)
(* join of both, oldest frame first, each frame exact and no prior reused;  *)
(* a failing call releases nothing, even frames completed within it.        *)
ImplementsRouteJoin == Promise!Spec

Complete(f) == Len(Promise!Summaries(f)) = 1 /\ Promise!Matched(f)

Released == {out[i].id.fusion : i \in DOMAIN out}

(* A complete frame is held back only by an older open frame that is not    *)
(* complete, or that was released and is claimed again by an event still    *)
(* waiting for its turn, whichever route completed it                       *)
(* (refresh_frame_readiness and drain_ready_frames after every ingest).     *)
NothingWithheld ==
  fault = NoFault => \A f \in DOMAIN self.frames \ Released :
    Complete(f) => \E g \in DOMAIN self.frames : g < f /\ (~Complete(g) \/ g \in Released)

PendingBytes == SumFunction([q \in DOMAIN self.pending |-> self.pending[q].bytes])
FrameBytes   == SumFunction([f \in DOMAIN self.frames |-> self.frames[f].bytes])

(* The byte budget is exactly what is buffered, across reservation, drain,  *)
(* transfer to a frame and release, and no table outgrows its limit.        *)
BuffersAccounted ==
  /\ self.bytes = PendingBytes + FrameBytes /\ self.bytes <= Limits.bytes
  /\ Cardinality(DOMAIN self.pending) <= Limits.reorderEvents
  /\ Cardinality(DOMAIN self.frames) <= Limits.openFrames
  /\ Cardinality(DOMAIN self.priors) <= Limits.priors
  /\ Cardinality(DOMAIN self.high) <= Limits.observationStreams
  /\ \A q \in DOMAIN self.pending : q > self.next /\ q - self.next <= Limits.reorderDistance

(* After any call that does not fault nothing buffered is past its deadline:*)
(* not an event waiting for a gap, not a frame waiting for evidence, even   *)
(* when its first sight was a buffered event drained much later.            *)
DeadlinesKept ==
  fault = NoFault =>
    /\ \A q \in DOMAIN self.pending : ~Expired(self.pending[q].at, now, Limits.reorderDeadline)
    /\ Overdue(now) = {}

(* next_deadline_at is the first instant at which advance_time faults: a    *)
(* caller that sleeps until then neither misses a deadline nor wakes early. *)
NextDeadlineTight ==
  fault = NoFault => \A t \in Times : t >= now =>
    (BeginError(t) \in {"MonitorSequenceGap", "FrameDeadlineExpired", "HeartbeatDeadlineExpired"}
       <=> BeginError(t) # "MonotonicDeadlineOverflow" /\ t >= NextDeadlineAt)

(* A frame that is not complete is completed or ends the epoch: it is never *)
(* waited for without end, while the owner keeps advancing time.            *)
FramesResolve ==
  \A f \in {e.event.id.fusion : e \in {m \in MonitorEnvelopes : m.event.kind # "Heartbeat"}} :
    LET waiting == f \in DOMAIN self.frames /\ ~self.frames[f].ready
    IN (waiting /\ self.frames[f].seenAt + Limits.frameDeadline \in Times) ~> ~waiting

(* What the comment on HeartbeatDeadlineExpired says of it: no accepted     *)
(* heartbeat arrived before the local receipt deadline.                     *)
SilenceMeansSilence ==
  fault # NoFault /\ fault.kind = "HeartbeatDeadlineExpired" =>
    \A b \in beats : fault.at - b >= Limits.heartbeatDeadline
=============================================================================
