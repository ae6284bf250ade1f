---------------------------- MODULE ScalarMonitor ----------------------------
(***************************************************************************)
(* The scalar adapter of crates/galadriel-local-adapter/src/lib.rs, as     *)
(* functions on a prepared monitor: a fixed roster of channels on one      *)
(* track, whose frames must be complete and consecutive, around a detector *)
(* of the research subset.                                                 *)
(*                                                                         *)
(* A sample that PidObservation::try_scalar refuses has a negative NIS.    *)
(* After these checks the detector can refuse an observation for one       *)
(* reason only, NisWindow::new finding no storage for a new channel; and   *)
(* Mirror::assess can refuse a report, for a p-value that is not finite or *)
(* an outcome that it cannot form.  Whether they do is an input here.      *)
(* Running out of sequence numbers is left out.                            *)
(***************************************************************************)
EXTENDS Mirror

(* ScalarMonitor::prepare for a valid roster, a sequence of channels.       *)
Prepare(track, first, roster) ==
  [state |-> "Prepared", track |-> track, first |-> first, roster |-> roster,
   seq |-> None, time |-> None, mirror |-> NoTracks]

Retire(m) == [m EXCEPT !.state = "Retired", !.seq = None, !.time = None, !.mirror = NoTracks]

(* stage_frame, the whole frame before any of it is ingested, slot by slot. *)
StageError(m, frame) ==
  LET present == {i \in DOMAIN frame.evidence : frame.evidence[i] # None}
      changed == {i \in present : frame.evidence[i].dof # m.roster[i].dof}
      refused == changed \cup {i \in present : frame.evidence[i].nis < 0}
  IN
  IF m.state = "Retired" THEN "Retired"
  ELSE IF Len(frame.evidence) # Len(m.roster) THEN "FrameArity"
  ELSE IF refused = {} THEN None
  ELSE IF Min(refused) \in changed THEN "DegreesOfFreedomChanged"
  ELSE "InvalidObservation"

(* check_position.                                                          *)
PositionError(m, frame) ==
  IF m.state = "Prepared"
  THEN IF frame.seq # m.first THEN "SequenceDiscontinuity" ELSE None
  ELSE IF frame.time <= m.time \/ frame.time - m.time > MaxInterSampleGap
  THEN "TimestampDiscontinuity"
  ELSE IF frame.seq # m.seq + 1 THEN "SequenceDiscontinuity"
  ELSE None

(* validate_frame.                                                          *)
FrameError(m, frame) ==
  IF StageError(m, frame) # None THEN StageError(m, frame) ELSE PositionError(m, frame)

Absent(frame) == {i \in DOMAIN frame.evidence : frame.evidence[i] = None}

Observation(m, frame, i) ==
  [track |-> m.track, modality |-> m.roster[i].modality, dof |-> m.roster[i].dof,
   seq |-> frame.seq, time |-> frame.time, nis |-> frame.evidence[i].nis]

(* The detector after a whole frame, or None once it has refused a channel: *)
(* those in starved find no storage for a first sample.                     *)
IngestedFrame(m, frame, starved) ==
  FoldLeft(LAMBDA mirror, i :
             LET obs == Observation(m, frame, i) IN
             IF mirror = None \/ IngestError(None, mirror, obs) # None
                \/ (~Known(mirror, obs) /\ obs.modality \in starved)
             THEN None ELSE Ingested(mirror, obs),
           m.mirror, [i \in DOMAIN m.roster |-> i])

(* What is left of a monitor whose position or evidence broke the run.      *)
Abandoned(m) == Retire(m)

(* What may fail of itself in a call for these channels.                    *)
Failures(channels) == [storage : SUBSET channels, report : BOOLEAN]

(* assess_frame: the monitor it leaves, and an error, missing evidence or   *)
(* the report.                                                              *)
Assessed(m, frame, failing) ==
  LET mirror == IngestedFrame(m, frame, failing.storage) IN
  IF StageError(m, frame) # None
  THEN [monitor |-> m, answer |-> StageError(m, frame)]
  ELSE IF PositionError(m, frame) # None
  THEN [monitor |-> Abandoned(m), answer |-> PositionError(m, frame)]
  ELSE IF Absent(frame) # {}
  THEN [monitor |-> Abandoned(m), answer |-> "Unavailable"]
  ELSE IF mirror = None
  THEN [monitor |-> Abandoned(m), answer |-> "DetectorIngest"]
  ELSE IF failing.report
  THEN [monitor |-> Abandoned(m), answer |-> "DetectorAssessment"]
  ELSE [monitor |-> [m EXCEPT !.state = "Active", !.seq = frame.seq, !.time = frame.time,
                              !.mirror = mirror],
        answer  |-> "Report"]
=============================================================================
