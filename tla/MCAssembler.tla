----------------------------- MODULE MCAssembler -----------------------------
(***************************************************************************)
(* Small producers for Assembler: three frames over two tracks, heartbeats,*)
(* and the ways a later envelope can contradict them.  Any envelope may    *)
(* arrive at any call, more than once and in any order.                    *)
(***************************************************************************)
EXTENDS Assembler

Id(f, prior) == [fusion |-> f, ts |-> 10 * f, prior |-> prior, frame |-> 1]
Projection(prior) == [prior |-> prior, frame |-> 1, value |-> 0]

UpdatedEvent(id, track) ==
  [kind |-> "Updated", id |-> id, track |-> track, modality |-> "V", attempt |-> 0,
   measurement |-> 0, candidates |-> 1, inGate |-> 1, gate |-> "inside", v1 |-> TRUE,
   projection |-> Projection(id.prior), trouble |-> None]

MissEvent(id) ==
  [kind |-> "NoMeasurement", id |-> id, track |-> 1, modality |-> "V", trouble |-> None]

SummaryEvent(id, outcomes, v1Expected) ==
  [kind |-> "Summary", id |-> id, expected |-> <<"V">>, inputs |-> 1, active |-> 1,
   outcomes |-> outcomes, v1Expected |-> v1Expected, degraded |-> FALSE, trouble |-> None]

HeartbeatEvent(uptime, cursor) ==
  [kind |-> "Heartbeat", uptime |-> uptime, published |-> uptime, cursor |-> cursor,
   degraded |-> FALSE, trouble |-> None]

Monitor(q, event) == [seq |-> q, event |-> event, bytes |-> 1, defect |-> None,
                      raw |-> TRUE, mismatch |-> FALSE]

Observation(f, track, prior) ==
  [observation |-> [fusion |-> f, ts |-> 10 * f, track |-> track, modality |-> "V",
                    projection |-> Projection(prior)],
   bytes |-> 1, defect |-> None, raw |-> TRUE, mismatch |-> FALSE]

(* Frame 1 owes one observation, frame 2 two, frame 3 none; a heartbeat may *)
(* take the place of an event of frame 2.                                   *)
JoinMonitor ==
  {Monitor(1, UpdatedEvent(Id(1, 1), 1)), [Monitor(2, SummaryEvent(Id(1, 1), 1, 1)) EXCEPT !.bytes = 4],
   Monitor(3, UpdatedEvent(Id(2, 2), 1)), Monitor(4, UpdatedEvent(Id(2, 2), 2)),
   Monitor(5, SummaryEvent(Id(2, 2), 2, 2)),
   Monitor(6, MissEvent(Id(3, 3))), Monitor(7, SummaryEvent(Id(3, 3), 1, 0)),
   Monitor(8, HeartbeatEvent(1, 3)),
   \* frame 2 under the prior of frame 1, frame 1 again, a false count, a
   \* degraded summary, an unreadable payload
   Monitor(4, UpdatedEvent(Id(2, 1), 2)), Monitor(5, UpdatedEvent(Id(1, 1), 1)),
   Monitor(4, HeartbeatEvent(1, 1)), Monitor(5, SummaryEvent(Id(2, 2), 2, 1)),
   Monitor(5, [SummaryEvent(Id(2, 2), 2, 2) EXCEPT !.degraded = TRUE]),
   [Monitor(1, HeartbeatEvent(1, None)) EXCEPT !.defect = "MalformedPayload"]}

(* One observation that contradicts its outcome, one that no outcome owes.  *)
JoinObservations ==
  {Observation(1, 1, 1), Observation(2, 1, 2), Observation(2, 2, 2),
   [Observation(2, 1, 2) EXCEPT !.observation.projection.value = 1],
   [Observation(3, 1, 3) EXCEPT !.mismatch = TRUE]}

JoinLimits ==
  [openFrames |-> 2, eventsPerFrame |-> 2, observationsPerFrame |-> 2, tracksPerFrame |-> 2,
   reorderEvents |-> 3, reorderDistance |-> 3, bytes |-> 7, priors |-> 3,
   observationStreams |-> 2, observationAdvance |-> 1, frameDeadline |-> 5,
   reorderDeadline |-> 5, heartbeatDeadline |-> 5, initialHeartbeatDeadline |-> 5]

(* One frame, its observation, another that opens a frame nobody closes,    *)
(* and two heartbeats.                                                      *)
ClockMonitor ==
  {Monitor(1, HeartbeatEvent(1, None)), Monitor(2, HeartbeatEvent(2, None)),
   Monitor(3, UpdatedEvent(Id(2, 2), 1)), Monitor(4, SummaryEvent(Id(2, 2), 1, 1))}

ClockObservations == {Observation(1, 1, 1), Observation(2, 1, 2)}

ClockLimits ==
  [JoinLimits EXCEPT !.bytes = 10, !.frameDeadline = 2, !.reorderDeadline = 3,
     !.heartbeatDeadline = 3, !.initialHeartbeatDeadline = 4]
=============================================================================
