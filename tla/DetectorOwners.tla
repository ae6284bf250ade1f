--------------------------- MODULE DetectorOwners ----------------------------
(***************************************************************************)
(* The three ways a detector is held: bare, by a caller of Mirror; behind  *)
(* the scalar adapter; and in the local monitor owner of                   *)
(* crates/galadriel-local-adapter/src/ncp_local.rs, which keeps one        *)
(* adapter per entity and is driven by the results of a simulated body.    *)
(* Each is held by one thread; who holds it is settled once.               *)
(*                                                                         *)
(* A call that is refused without a change is no step.  The body commits   *)
(* one result per step, so a step is never presented with two results;     *)
(* the integrity, plan and binding checks of ncp-local decide whether one  *)
(* reaches the owner at all.  The protocol around the owner may retire it  *)
(* at any time, as Abort does.                                             *)
(***************************************************************************)
EXTENDS ScalarMonitor

CONSTANTS
  Tracks, Modalities, Dofs, Levels,    \* what a caller of Mirror may send
  Release,         \* the modalities of its release suite
  MaxPosition,     \* bound: numbers and times
  Roster, First,   \* of the scalar monitor
  Entities,        \* sequence: the entities of the plan
  Innovations,     \* what a body result may say of an entity
  PlannedSteps,
  Times, Grain,    \* times of body results, and how many make a millisecond
  Visual, VisualDof

VARIABLES
  owner,      \* who holds the detector
  tracks,     \* Mirror::tracks of a bare detector
  monitor,    \* the ScalarMonitor
  native,     \* NativeMonitor
  accepted,   \* auxiliary: what every live channel was given, since it began
  torn        \* auxiliary: the body result that failed half-way, or None

vars == <<owner, tracks, monitor, native, accepted, torn>>

ASSUME OwnersAssumption ==
  /\ PlannedSteps \in Nat /\ Grain \in Nat \ {0} /\ Times \subseteq Nat
  /\ MaxPosition \in Nat /\ VisualDof \in Nat \ {0}
  /\ \A i \in DOMAIN Roster : Roster[i].dof > 0
  /\ Len(Entities) \in Nat /\ DOMAIN Entities = 1 .. Len(Entities)
  /\ Len(Roster) \in Nat /\ DOMAIN Roster = 1 .. Len(Roster)
  /\ \A i, j \in DOMAIN Roster : Roster[i].modality = Roster[j].modality => i = j

(* What is counted and summed are integers.                                 *)
ASSUME ValuesAssumption ==
  /\ Levels \subseteq Int /\ Dofs \subseteq Int
  /\ \A dof \in Dofs \cup {VisualDof} \cup {Roster[i].dof : i \in DOMAIN Roster} :
       dof \in Int /\ Slack(dof) \in Int
  /\ \A v \in Innovations :
       v.nis \in Int \cup {None} /\ (v.source # None => v.source.seq \in Int)

Waiting == [pc |-> "waiting", monitor |-> None, source |-> None]
Retired == [pc |-> "retired", monitor |-> None, source |-> None]

Nothing == [c \in {} |-> <<>>]

Init ==
  /\ owner \in {"release", "subset", "scalar", "native"}
  /\ tracks = NoTracks
  /\ monitor = Prepare("track", First, Roster)
  /\ native = [pc |-> "installed", completed |-> 0, tracks |-> <<>>]
  /\ accepted = Nothing /\ torn = None

-----------------------------------------------------------------------------
(* A bare detector.                                                         *)

Bare == owner \in {"release", "subset"}

Contract == IF owner = "release" THEN Release ELSE None

BareFrame == UNCHANGED <<owner, monitor, native, torn>>

Given(key, sample) ==
  [c \in DOMAIN accepted \cup {key} |->
     IF c # key THEN accepted[c]
     ELSE IF key \in DOMAIN accepted THEN Append(accepted[key], sample) ELSE <<sample>>]

Forgotten(keys) == [c \in DOMAIN accepted \ keys |-> accepted[c]]

SampleOf(obs) == [seq |-> obs.seq, time |-> obs.time, nis |-> obs.nis]

(* ingest and ingest_checked; assess changes nothing.                       *)
Ingest(obs) ==
  /\ Bare /\ IngestError(Contract, tracks, obs) = None
  /\ tracks' = Ingested(tracks, obs)
  /\ accepted' = Given(<<obs.track, obs.modality>>, SampleOf(obs))
  /\ BareFrame

RemoveTrack(t) ==
  /\ Bare /\ t \in DOMAIN tracks
  /\ tracks' = Without(tracks, t)
  /\ accepted' = Forgotten({t} \X Modalities)
  /\ BareFrame

Clear ==
  /\ Bare /\ tracks # NoTracks
  /\ tracks' = NoTracks /\ accepted' = Nothing
  /\ BareFrame

-----------------------------------------------------------------------------
(* The scalar adapter.                                                      *)

AssessFrame(frame, failing) ==
  LET result == Assessed(monitor, frame, failing) IN
  /\ owner = "scalar"
  /\ monitor' = result.monitor
  /\ accepted' = IF result.answer = "Report"
                 THEN [c \in {<<monitor.track, Roster[i].modality>> : i \in DOMAIN Roster} |->
                         LET i == CHOOSE j \in DOMAIN Roster : Roster[j].modality = c[2]
                             past == IF c \in DOMAIN accepted THEN accepted[c] ELSE <<>>
                         IN Append(past, SampleOf(Observation(monitor, frame, i)))]
                 ELSE IF result.monitor = monitor THEN accepted ELSE Nothing
  /\ UNCHANGED <<owner, tracks, native, torn>>

-----------------------------------------------------------------------------
(* The local monitor owner.                                                 *)

NativeFrame == UNCHANGED <<owner, tracks, monitor>>

PrepareRun ==
  /\ owner = "native" /\ native.pc = "installed"
  /\ native' = [native EXCEPT !.pc = "prepared", !.tracks = [i \in DOMAIN Entities |-> Waiting]]
  /\ UNCHANGED <<accepted, torn>> /\ NativeFrame

(* scalar_monitor for the source of a first observation.                    *)
Opened(source) ==
  [pc |-> "active", source |-> [sensor |-> source.sensor, track |-> source.track],
   monitor |-> Prepare(source.track, source.seq,
                       <<[modality |-> Visual, dof |-> VisualDof]>>)]

(* The frame of one slot an innovation makes.                               *)
FrameOf(innovation, time) ==
  [seq |-> innovation.source.seq, time |-> time \div Grain,
   evidence |-> <<IF innovation.nis = None THEN None
                  ELSE [nis |-> innovation.nis, dof |-> innovation.dof]>>]

Opens(track, innovation) == track.pc = "waiting" /\ innovation.status = "Observed"

(* The track an innovation is for, once it has opened it.                   *)
Met(track, innovation) == IF Opens(track, innovation) THEN Opened(innovation.source) ELSE track

(* assessment_data, for one entity: every track is checked before any moves.*)
Admissible(track, innovation, time) ==
  LET met == Met(track, innovation) IN
  /\ Opens(track, innovation) => innovation.source # None
  /\ met.pc = "active" /\ innovation.source # None =>
       /\ met.source = [sensor |-> innovation.source.sensor, track |-> innovation.source.track]
       /\ FrameError(met.monitor, FrameOf(innovation, time)) = None

(* What may fail of itself for one entity: the storage of a first sample,   *)
(* the report, or writing the report into the output, when the window has   *)
(* moved already.                                                           *)
Faults == {"none", "storage", "report", "output"}

Failing(fault) == [storage |-> IF fault = "storage" THEN {Visual} ELSE {},
                   report  |-> fault = "report"]

(* assess, for one entity: its track after, whether it failed, and whether  *)
(* its window was given a sample.                                           *)
TrackAfter(track, innovation, time, fault) ==
  LET met    == Met(track, innovation)
      result == Assessed(met.monitor, FrameOf(innovation, time), Failing(fault))
      missed == innovation.source = None \/ result.answer = "Unavailable"
  IN
  IF met.pc # "active" THEN [track |-> met, failed |-> FALSE, given |-> FALSE]
  ELSE IF missed THEN [track |-> Retired, failed |-> FALSE, given |-> FALSE]
  ELSE [track |-> [met EXCEPT !.monitor = result.monitor],
        failed |-> result.answer # "Report" \/ fault = "output",
        given |-> result.answer = "Report"]

(* The entities are assessed in order up to the first that fails.           *)
Reached(after) == {i \in DOMAIN after : \A j \in DOMAIN after : j < i => ~after[j].failed}

MutantCompletedAfter(after, step) == step

CompletedAfter(after, step) ==
  IF \E i \in DOMAIN after : after[i].failed THEN native.completed ELSE step

AssessStep(result, faults) ==
  LET after == [i \in DOMAIN Entities |->
                  TrackAfter(native.tracks[i], result.innovations[i], result.time, faults[i])]
      moved == Reached(after)
      next(i) == IF i \in moved THEN after[i].track ELSE native.tracks[i]
      live  == {i \in DOMAIN Entities : next(i).pc = "active" /\ next(i).monitor.state # "Retired"}
  IN
  /\ owner = "native" /\ native.pc = "prepared"
  /\ torn # None /\ torn.step = result.step => result = torn
  /\ result.step = native.completed + 1
  /\ native.completed = 0 \/ result.chained
  /\ \A i \in DOMAIN Entities :
       Admissible(native.tracks[i], result.innovations[i], result.time)
  /\ native' = [native EXCEPT !.tracks = [i \in DOMAIN Entities |-> next(i)],
                              !.completed = CompletedAfter(after, result.step)]
  /\ accepted' = [i \in live |->
                    LET past == IF i \in DOMAIN accepted THEN accepted[i] ELSE <<>>
                    IN IF i \in moved /\ after[i].given
                       THEN Append(past, [seq |-> result.innovations[i].source.seq,
                                          time |-> result.time \div Grain,
                                          nis |-> result.innovations[i].nis,
                                          step |-> result.step,
                                          sensor |-> result.innovations[i].source.sensor])
                       ELSE past]
  /\ torn' = IF \E i \in DOMAIN after : after[i].failed THEN result ELSE torn
  /\ NativeFrame

(* Finish, once the plan is complete, and Abort both retire the owner.      *)
EndRun ==
  /\ owner = "native" /\ native.pc # "retired"
  /\ native' = [pc |-> "retired", completed |-> 0, tracks |-> <<>>]
  /\ accepted' = Nothing /\ torn' = None
  /\ NativeFrame

-----------------------------------------------------------------------------
Observations ==
  [track : Tracks, modality : Modalities, dof : Dofs, nis : Levels,
   seq : 0 .. MaxPosition, time : 0 .. MaxPosition]

Slots == {None} \cup [nis : Levels \cup {-1}, dof : Dofs]

Frames ==
  [seq : 0 .. MaxPosition, time : 0 .. MaxPosition,
   evidence : UNION {[1 .. n -> Slots] : n \in 1 .. Len(Roster)}]

Results ==
  [step : 1 .. PlannedSteps, chained : BOOLEAN, time : Times,
   innovations : [DOMAIN Entities -> Innovations]]

(* A step ends at the first fault that takes effect, so one is enough.      *)
SingleFaults ==
  {[i \in DOMAIN Entities |-> IF i = k THEN fault ELSE "none"] :
     k \in DOMAIN Entities, fault \in Faults}

(* None is nothing else that it is compared with.                           *)
ASSUME AbsenceAssumption ==
  /\ None \notin Results /\ None # Release
  /\ None \notin {"InvalidObservation", "ResetRequired", "TrackLimit", "Retired", "FrameArity",
                  "DegreesOfFreedomChanged", "TimestampDiscontinuity", "SequenceDiscontinuity", "Report",
                  "Unavailable"}

Next ==
  \/ \E obs \in Observations : Ingest(obs)
  \/ \E t \in Tracks : RemoveTrack(t)
  \/ Clear
  \/ \E frame \in Frames, failing \in Failures(Modalities) : AssessFrame(frame, failing)
  \/ PrepareRun
  \/ \E result \in Results, faults \in SingleFaults : AssessStep(result, faults)
  \/ EndRun

Spec == Init /\ [][Next]_vars
-----------------------------------------------------------------------------
(* Properties.                                                              *)

(* Every channel retained anywhere, by the key of its history.              *)
RetainedBy(mirror) == UNION {{<<t, m>> : m \in DOMAIN mirror[t]} : t \in DOMAIN mirror}

LiveTracks ==
  {i \in DOMAIN native.tracks : native.tracks[i].pc = "active"
                                /\ native.tracks[i].monitor.mirror # NoTracks}

Retained == RetainedBy(tracks) \cup RetainedBy(monitor.mirror) \cup LiveTracks

ChannelAt(key) ==
  CASE owner = "native" -> native.tracks[key].monitor.mirror[native.tracks[key].source.track][Visual]
    [] owner = "scalar" -> monitor.mirror[key[1]][key[2]]
    [] OTHER            -> tracks[key[1]][key[2]]

Drift(h, i, dof) == Total([j \in 1 .. Len(h) - i + 1 |-> h[i + j - 1].nis - dof])

(* Page's statistic: the largest drift, slack deducted, of any final run.   *)
LargestRun(h, sign, dof) ==
  Max({0} \cup {sign * Drift(h, i, dof) - (Len(h) - i + 1) * Slack(dof) : i \in DOMAIN h})

(* A channel is what it was given since its track, monitor or run began and *)
(* nothing else: its window is the newest samples, its sums are those of the*)
(* whole history, no hole lies within it, and what was cleared, retired or  *)
(* removed has left nothing behind.                                         *)
WindowsMatchHistory ==
  /\ DOMAIN accepted = Retained
  /\ \A key \in Retained :
       LET channel == ChannelAt(key)  h == accepted[key]  n == Len(channel.window) IN
       /\ n = Min({WindowLen, Len(h)})
       /\ channel.window = [i \in 1 .. n |-> h[Len(h) - n + i].nis]
       /\ channel.hi = LargestRun(h, 1, channel.dof)
       /\ channel.lo = LargestRun(h, -1, channel.dof)
       /\ channel.seq = Last(h).seq /\ channel.time = Last(h).time
       /\ \A i \in 1 .. Len(h) - 1 :
            /\ h[i + 1].seq - h[i].seq \in 1 .. MaxSeqGap
            /\ h[i + 1].time - h[i].time \in 1 .. MaxInterSampleGap

(* Behind the adapter every frame is whole and follows the one before it:   *)
(* all channels hold the same consecutive positions.  In the local owner    *)
(* the frames are moreover those of consecutive body steps, from one        *)
(* sensor, up to the last completed one; a step that failed half-way, after *)
(* some tracks had moved, is never completed, so no window can pass it.     *)
RunsUnbroken ==
  /\ owner = "scalar" =>
       \A c, d \in DOMAIN accepted :
         /\ Len(accepted[c]) = Len(accepted[d])
         /\ \A i \in DOMAIN accepted[c] :
              /\ accepted[c][i].seq = First + i - 1
              /\ accepted[c][i].time = accepted[d][i].time
  /\ owner = "native" =>
       /\ torn # None => native.completed = torn.step - 1
       /\ \A i \in DOMAIN accepted :
            LET h == accepted[i] IN
            /\ Last(h).step \in
                 {native.completed} \cup (IF torn = None THEN {} ELSE {torn.step})
            /\ \A j \in 1 .. Len(h) - 1 :
                 /\ h[j + 1].step = h[j].step + 1 /\ h[j + 1].seq = h[j].seq + 1
                 /\ h[j + 1].sensor = h[j].sensor

Evidence(mirror, t, seq) == Anomalous(Rows(Release, mirror, t, seq))

Alarmed(mirror, t, seq) ==
  Report(Release, mirror, t, seq).verdict \notin {"Nominal", "InsufficientEvidence"}

(* Under a release suite an anomaly at some sequence stays one, for as long *)
(* as the anomalous channels are not sampled again: whatever their peers    *)
(* send or fail to send can change its name and never make it disappear.    *)
AnomalyHeld ==
  [][owner = "release" =>
       \A t \in DOMAIN tracks \cap DOMAIN tracks', seq \in 0 .. MaxPosition :
         LET named == Evidence(tracks, t, seq) IN
         /\ Alarmed(tracks, t, seq)
         /\ \A m \in named : tracks'[t][m].seq = tracks[t][m].seq
         => Alarmed(tracks', t, seq) /\ named \subseteq Evidence(tracks', t, seq)]_vars
=============================================================================
