------------------------ MODULE MCOperationalReceiver ------------------------
(***************************************************************************)
(* Small transports for OperationalReceiver: two heartbeats, an observation*)
(* that opens a frame nobody closes (and whose contract hash differs), a   *)
(* message under another key.                                              *)
(***************************************************************************)
EXTENDS OperationalReceiver, TLC

HeartbeatSample(q) ==
  [route |-> "monitor", defect |-> None,
   env |-> [seq |-> q, bytes |-> 1, defect |-> None, raw |-> TRUE, mismatch |-> FALSE,
            event |-> [kind |-> "Heartbeat", uptime |-> q, published |-> q, cursor |-> None,
                       degraded |-> FALSE, trouble |-> None]]]

ObservationSample ==
  [route |-> "observation", defect |-> None,
   env |-> [bytes |-> 1, defect |-> None, raw |-> TRUE, mismatch |-> TRUE,
            observation |-> [fusion |-> 1, ts |-> 10, track |-> 1, modality |-> "V",
                             projection |-> [prior |-> 1, frame |-> 1, value |-> 0]]]]

HeardMonitor      == {HeartbeatSample(q).env : q \in {1, 2}}
HeardObservations == {ObservationSample.env}

Misaddressed == [ObservationSample EXCEPT !.defect = "UnexpectedKey"]

Mixed == {HeartbeatSample(1), HeartbeatSample(2), ObservationSample, Misaddressed}
Beats == {HeartbeatSample(1), HeartbeatSample(2)}

ShortLimits ==
  [openFrames |-> 2, eventsPerFrame |-> 2, observationsPerFrame |-> 2, tracksPerFrame |-> 2,
   reorderEvents |-> 3, reorderDistance |-> 3, bytes |-> 7, priors |-> 3,
   observationStreams |-> 2, observationAdvance |-> 1, frameDeadline |-> 1,
   reorderDeadline |-> 1, heartbeatDeadline |-> 2, initialHeartbeatDeadline |-> 2]

Interchangeable == Permutations(Callbacks)
=============================================================================
