------------------------- MODULE ConsistencyChannels -------------------------
(***************************************************************************)
(* consistency_channels_with_temporal_limits of                            *)
(* crates/galadriel-core/src/lib.rs: the rows on which the channels of one *)
(* track may be compared.  One pass over the stream keeps the newest frames*)
(* and the sequences at which some channel was silent for too long; a      *)
(* second one over these frames collects rows, and starts again after      *)
(* whatever breaks their run.                                              *)
(*                                                                         *)
(* A projection is its frozen prior and its provenance (frame, context and *)
(* dimensions); the values of a row are left out.  What is fixed for all   *)
(* streams of a caller, the requested channels and the limits, is valid:   *)
(* the channels are distinct and at least one.                             *)
(***************************************************************************)
EXTENDS Mirror

CONSTANTS
  Requested,    \* modalities
  MaxRetainedFrames,
  MaxInputObservations,
  PidObservations

VARIABLE stream    \* what has been recorded of a run

ASSUME AlignmentAssumption ==
  /\ Requested # {} /\ None \notin Requested /\ IsFiniteSet(Requested)
  /\ MaxRetainedFrames \in Nat \ {0} /\ MaxInputObservations \in Nat
  /\ \A obs \in PidObservations :
       /\ obs.seq \in Nat /\ obs.time \in Nat
       /\ obs.projection # None => obs.projection.provenance # None
  /\ \A error \in {"TooManyObservations", "AnotherTrack", "SequenceRegressed", "PriorReused", "TimestampRegressed",
                   "Duplicate", "PartlyProjected", "MixedAttestation"} : error # None

-----------------------------------------------------------------------------
(* The first pass.                                                          *)

Unread ==
  [error |-> None, lastSeq |-> 0, lastTime |-> [m \in {} |-> 0], breaks |-> {},
   priors |-> [p \in {} |-> 0], frames |-> [s \in {} |-> <<>>]]

Put(f, key, value) == [k \in DOMAIN f \cup {key} |-> IF k = key THEN value ELSE f[k]]

FrameAt(pass, seq) == IF seq \in DOMAIN pass.frames THEN pass.frames[seq] ELSE [m \in {} |-> 0]

(* What the checks before the modality filter find, track and all.          *)
StreamError(pass, obs, track) ==
  IF obs.track # track THEN "AnotherTrack"
  ELSE IF obs.seq < pass.lastSeq THEN "SequenceRegressed"
  ELSE IF obs.projection # None /\ obs.projection.prior \in DOMAIN pass.priors
          /\ pass.priors[obs.projection.prior] # obs.seq
  THEN "PriorReused"
  ELSE None

(* And those after it.                                                      *)
ChannelError(pass, obs) ==
  IF obs.modality \in DOMAIN pass.lastTime /\ obs.time <= pass.lastTime[obs.modality]
  THEN "TimestampRegressed"
  ELSE IF obs.modality \in DOMAIN FrameAt(pass, obs.seq) THEN "Duplicate"
  ELSE None

(* Whether this observation comes too long after the last one of its channel. *)
LateSample(pass, obs) ==
  obs.modality \in DOMAIN pass.lastTime
  /\ obs.time - pass.lastTime[obs.modality] > MaxInterSampleGap

MutantEvicted(pass) ==
  IF Cardinality(DOMAIN pass.frames) <= MaxRetainedFrames THEN pass
  ELSE [pass EXCEPT !.frames = [s \in DOMAIN @ \ {Max(DOMAIN @)} |-> @[s]]]

(* The oldest frame makes room, and takes its break with it.                *)
Evicted(pass) ==
  LET oldest == Min(DOMAIN pass.frames) IN
  IF Cardinality(DOMAIN pass.frames) <= MaxRetainedFrames THEN pass
  ELSE [pass EXCEPT !.frames = [s \in DOMAIN @ \ {oldest} |-> @[s]], !.breaks = @ \ {oldest}]

Noted(pass, obs) ==
  [pass EXCEPT !.lastSeq = obs.seq,
               !.priors = IF obs.projection = None THEN @
                          ELSE Put(@, obs.projection.prior, obs.seq)]

Framed(pass, obs) ==
  Evicted(
    [pass EXCEPT !.breaks = IF LateSample(pass, obs) THEN @ \cup {obs.seq} ELSE @,
                 !.lastTime = Put(@, obs.modality, obs.time),
                 !.frames = Put(@, obs.seq,
                                Put(FrameAt(pass, obs.seq), obs.modality,
                                    [projection |-> obs.projection, time |-> obs.time]))])

ReadNext(pass, obs, track) ==
  IF pass.error # None THEN pass
  ELSE IF StreamError(pass, obs, track) # None
  THEN [pass EXCEPT !.error = StreamError(pass, obs, track)]
  ELSE IF obs.modality \notin Requested THEN Noted(pass, obs)
  ELSE IF ChannelError(pass, obs) # None THEN [pass EXCEPT !.error = ChannelError(pass, obs)]
  ELSE Framed(Noted(pass, obs), obs)

Read == FoldLeft(LAMBDA pass, obs : ReadNext(pass, obs, stream[1].track), Unread, stream)

-----------------------------------------------------------------------------
(* The second pass.                                                         *)

NoRows == [error |-> None, rows |-> <<>>, provenance |-> None, firstTime |-> None,
           lastTime |-> None]

Whole(frame)     == Requested \subseteq DOMAIN frame
Projected(frame) == {m \in Requested : frame[m].projection # None}

(* The channels of one frame attest one provenance and one prior.           *)
Attested(frame) ==
  \A m, n \in Requested : frame[m].projection = frame[n].projection

Provenance(frame) == frame[CHOOSE m \in Requested : TRUE].projection.provenance

Earliest(frame) == Min({frame[m].time : m \in Requested})
Latest(frame)   == Max({frame[m].time : m \in Requested})

FrameCoherent(frame) == Latest(frame) - Earliest(frame) <= MaxTimestampSkew

(* This frame may follow the rows so far.                                   *)
ContinuesRun(run, seq, frame, breaks) ==
  /\ run.rows # <<>> => seq - Last(run.rows) <= MaxSeqGap
  /\ seq \notin breaks
  /\ run.provenance \in {None, Provenance(frame)}

WithRow(run, seq, frame) ==
  [run EXCEPT !.rows = Append(@, seq), !.provenance = Provenance(frame),
              !.firstTime = IF run.rows = <<>> THEN Earliest(frame) ELSE @,
              !.lastTime = Latest(frame)]

NextRow(run, seq, frame, breaks) ==
  IF run.error # None THEN run
  ELSE IF ~Whole(frame) THEN NoRows
  ELSE IF Projected(frame) = {} THEN NoRows
  ELSE IF Projected(frame) # Requested THEN [run EXCEPT !.error = "PartlyProjected"]
  ELSE IF ~Attested(frame) THEN [run EXCEPT !.error = "MixedAttestation"]
  ELSE IF ~FrameCoherent(frame) THEN NoRows
  ELSE WithRow(IF ContinuesRun(run, seq, frame, breaks) THEN run ELSE NoRows, seq, frame)

(* The order in which the map of frames is gone through.                    *)
Ascending(seqs) ==
  CHOOSE q \in [1..Cardinality(seqs) -> seqs] : \A i, j \in DOMAIN q : i < j => q[i] < q[j]

(* An error, or the rows with their bounds; no rows where the code has None.*)
Extracted ==
  LET pass == Read IN
  IF Len(stream) > MaxInputObservations THEN [NoRows EXCEPT !.error = "TooManyObservations"]
  ELSE IF pass.error # None THEN [NoRows EXCEPT !.error = pass.error]
  ELSE FoldLeft(LAMBDA run, seq : NextRow(run, seq, pass.frames[seq], pass.breaks),
                NoRows, Ascending(DOMAIN pass.frames))

-----------------------------------------------------------------------------
(* A stream is recorded observation by observation.                         *)

Observe ==
  \E obs \in PidObservations : stream' = Append(stream, obs)

AlignSpec == stream = <<>> /\ [][Observe]_stream

-----------------------------------------------------------------------------
(* The rule, stated on the whole stream.                                    *)

Wanted == {i \in DOMAIN stream : stream[i].modality \in Requested}

Orderly ==
  /\ \A i, j \in DOMAIN stream :
       /\ stream[i].track = stream[j].track
       /\ i < j => stream[i].seq <= stream[j].seq
       /\ stream[i].projection # None /\ stream[j].projection # None
          /\ stream[i].projection.prior = stream[j].projection.prior
          => stream[i].seq = stream[j].seq
  /\ \A i, j \in Wanted :
       i < j /\ stream[i].modality = stream[j].modality
       => stream[i].seq < stream[j].seq /\ stream[i].time < stream[j].time

(* The newest frames, and what a channel said in one.                       *)
Newest ==
  LET all == {stream[i].seq : i \in Wanted}
  IN {s \in all : Cardinality({u \in all : u > s}) < MaxRetainedFrames}

Said(s, m) == {stream[i] : i \in {j \in DOMAIN stream : stream[j].seq = s /\ stream[j].modality = m}}
SaidByAll(s) == UNION {Said(s, m) : m \in Requested}

Sound(s) ==
  (\A m \in Requested : Said(s, m) # {}) =>
    \A a, b \in SaidByAll(s) : a.projection = b.projection

Usable(s) ==
  /\ \A m \in Requested : \E a \in Said(s, m) : a.projection # None
  /\ \A a, b \in SaidByAll(s) : a.time - b.time <= MaxTimestampSkew

Adjacent(s, u) == s < u /\ \A v \in Newest : ~(s < v /\ v < u)

Linked(s, u) ==
  /\ u - s <= MaxSeqGap
  /\ \A m \in Requested : \A a \in Said(s, m), b \in Said(u, m) :
       b.time - a.time <= MaxInterSampleGap
       /\ a.projection.provenance = b.projection.provenance

LongestRun ==
  {s \in Newest : /\ \A u \in Newest : u >= s => Usable(u)
                  /\ \A u, v \in Newest : u >= s /\ Adjacent(u, v) => Linked(u, v)}

(* The rows are the longest run of frames up to the newest one in which     *)
(* every frame is whole, projected and coherent and none breaks off from    *)
(* the one before it; nothing is returned from a stream that is too long,   *)
(* is out of order, uses a prior twice or disagrees about one frame.        *)
RowsAreLongestRun ==
  LET got == Extracted IN
  /\ (got.error = None) <=>
       Len(stream) <= MaxInputObservations /\ Orderly /\ \A s \in Newest : Sound(s)
  /\ got.error = None =>
       /\ Range(got.rows) = LongestRun
       /\ \A i, j \in DOMAIN got.rows : i < j => got.rows[i] < got.rows[j]
       /\ LongestRun # {} =>
            /\ got.firstTime = Min({a.time : a \in SaidByAll(Min(LongestRun))})
            /\ got.lastTime = Max({a.time : a \in SaidByAll(Max(LongestRun))})
=============================================================================
