------------------------------- MODULE Mirror --------------------------------
(***************************************************************************)
(* The streaming detector of crates/galadriel-core/src/decision.rs with    *)
(* its windows (window.rs), cumulative sums (cusum.rs) and window test     *)
(* (baseline.rs), as functions on its one field: tracks, which maps every  *)
(* retained track to its channels by modality.                             *)
(*                                                                         *)
(* A NIS is a small number.  The code divides the cumulative sums of a     *)
(* channel by sqrt(2 * dof); here they stay in the unit of the NIS, and    *)
(* slack and threshold are multiplied instead.  Sums are exact here.  The  *)
(* code rounds the scaled sample and, at every update, both sums to an f64,*)
(* and saturates beyond f64::MAX: neither is modelled.                     *)
(***************************************************************************)
EXTENDS Integers, Sequences, FiniteSets, Functions, SequencesExt

CONSTANTS
  None,
  MaxSeqGap, MaxInterSampleGap, MaxTimestampSkew,
  WindowLen, MinSamples, MinChannels, MaxTracks,
  Slack(_), Threshold(_),    \* of the cumulative sums, by dof
  Elevated(_, _, _),    \* the window test: degrees of freedom, sum, channels
  JamNumerator, JamDenominator    \* jam_fraction

ASSUME DetectorAssumption ==
  /\ MaxSeqGap \in Nat \ {0} /\ MaxInterSampleGap \in Nat \ {0} /\ MaxTimestampSkew \in Nat
  /\ WindowLen \in Nat \ {0} /\ MinSamples \in 1 .. WindowLen
  /\ MinChannels \in Nat /\ MinChannels >= 2 /\ MaxTracks \in Nat \ {0}
  /\ JamNumerator \in Nat /\ JamDenominator \in Nat \ {0}

NoTracks == [t \in {} |-> {}]

Channels(tracks, t) == IF t \in DOMAIN tracks THEN tracks[t] ELSE NoTracks

Known(tracks, obs) == obs.modality \in DOMAIN Channels(tracks, obs.track)

-----------------------------------------------------------------------------
(* Mirror::ingest_inner.  A contract is the modalities a release suite      *)
(* expects, or None for the research subset.                                *)

Expects(contract, modality) == contract = None \/ modality \in contract

MutantContinues(channel, obs) == obs.seq - channel.seq <= MaxSeqGap

(* No hole in the numbers or the times.                                     *)
Continues(channel, obs) ==
  /\ obs.seq - channel.seq <= MaxSeqGap
  /\ obs.time - channel.time <= MaxInterSampleGap

(* Why the detector refuses an observation; none of it changes anything.    *)
IngestError(contract, tracks, obs) ==
  LET channel == Channels(tracks, obs.track)[obs.modality] IN
  IF ~Expects(contract, obs.modality) THEN "InvalidObservation"
  ELSE IF Known(tracks, obs)
  THEN IF obs.seq <= channel.seq \/ obs.dof # channel.dof \/ obs.time <= channel.time
       THEN "InvalidObservation"
       ELSE IF ~Continues(channel, obs) THEN "ResetRequired" ELSE None
  ELSE IF obs.track \notin DOMAIN tracks /\ Cardinality(DOMAIN tracks) >= MaxTracks
  THEN "TrackLimit"
  ELSE None

Positive(x) == Max({x, 0})

(* NisWindow::push.                                                         *)
Pushed(window, nis) ==
  Append(IF Len(window) >= WindowLen THEN Tail(window) ELSE window, nis)

(* Cusum::update around the null mean, which is dof.                        *)
High(hi, obs) == Positive(hi + obs.nis - obs.dof - Slack(obs.dof))
Low(lo, obs)  == Positive(lo + obs.dof - obs.nis - Slack(obs.dof))

(* ChannelState after one more observation, or after its first one.         *)
Sampled(channel, obs) ==
  [dof |-> obs.dof, window |-> Pushed(channel.window, obs.nis),
   hi |-> High(channel.hi, obs), lo |-> Low(channel.lo, obs),
   seq |-> obs.seq, time |-> obs.time]

Fresh == [window |-> <<>>, hi |-> 0, lo |-> 0]

(* The tracks after an observation that is not refused.                     *)
Ingested(tracks, obs) ==
  LET channels == Channels(tracks, obs.track)
      channel  == Sampled(IF Known(tracks, obs) THEN channels[obs.modality] ELSE Fresh, obs)
      extended == [m \in DOMAIN channels \cup {obs.modality} |->
                     IF m = obs.modality THEN channel ELSE channels[m]]
  IN [t \in DOMAIN tracks \cup {obs.track} |-> IF t = obs.track THEN extended ELSE tracks[t]]

(* remove_track.                                                            *)
Without(tracks, t) == [u \in DOMAIN tracks \ {t} |-> tracks[u]]

-----------------------------------------------------------------------------
(* Mirror::assess of one track at one sequence.                             *)

Total(window) == FoldLeft(LAMBDA a, b : a + b, 0, window)

(* A channel's row of the report.  How many channels share nis_alpha        *)
(* decides how much it takes to be elevated.                                *)
Row(channel, seq, count) ==
  LET n     == Len(channel.window)
      fresh == channel.seq <= seq /\ seq - channel.seq <= MaxSeqGap
  IN [n |-> n, seq |-> channel.seq, time |-> channel.time, fresh |-> fresh,
      ready |-> n >= MinSamples /\ fresh /\ channel.seq = seq,
      high |-> Elevated(n * channel.dof, Total(channel.window), count)
               \/ channel.hi >= Threshold(channel.dof),
      low  |-> channel.lo >= Threshold(channel.dof)]

Missing == [n |-> 0, seq |-> None, time |-> None, fresh |-> FALSE, ready |-> FALSE,
            high |-> FALSE, low |-> FALSE]

Rows(contract, tracks, t, seq) ==
  LET channels == Channels(tracks, t)
      all == DOMAIN channels \cup (IF contract = None THEN {} ELSE contract)
  IN [m \in all |-> IF m \in DOMAIN channels
                    THEN Row(channels[m], seq, Cardinality(all)) ELSE Missing]

Ready(rows) == {m \in DOMAIN rows : rows[m].ready}

(* Anomalous channels, and those inflated.                                  *)
Inflated(rows)  == {m \in Ready(rows) : rows[m].high}
Anomalous(rows) == {m \in Ready(rows) : rows[m].high \/ rows[m].low}

TimestampsCoherent(rows) ==
  \A m, p \in Ready(rows) : rows[m].time - rows[p].time <= MaxTimestampSkew

(* enough_complete_evidence.                                                *)
Complete(rows) ==
  /\ Cardinality(Ready(rows)) >= MinChannels
  /\ Ready(rows) = DOMAIN rows
  /\ TimestampsCoherent(rows)

(* broad_degradation_criteria.                                              *)
Broad(rows) ==
  /\ Cardinality(Inflated(rows)) >= 2
  /\ JamDenominator * Cardinality(Inflated(rows)) >= JamNumerator * Cardinality(Ready(rows))

MutantUnclassified(rows) == \E m \in Ready(rows) : rows[m].low

(* A verified anomaly that stale or missing peers, or a shift below the     *)
(* target, keep from a narrower name.                                       *)
Unclassified(rows) ==
  /\ Anomalous(rows) # {}
  /\ ~Complete(rows) \/ \E m \in Ready(rows) : rows[m].low

Verdict(rows) ==
  IF Unclassified(rows) THEN [name |-> "UnclassifiedAnomaly", channels |-> Anomalous(rows)]
  ELSE IF ~Complete(rows) THEN [name |-> "InsufficientEvidence", channels |-> {}]
  ELSE IF Inflated(rows) = {} THEN [name |-> "Nominal", channels |-> {}]
  ELSE IF Broad(rows) THEN [name |-> "BroadDegradation", channels |-> {}]
  ELSE [name |-> "AttributedInconsistency", channels |-> Inflated(rows)]

(* accepted_outcome: what insufficient evidence lacks.                      *)
Insufficiency(rows, seq) ==
  IF \A m \in DOMAIN rows : rows[m].n = 0 THEN "Empty"
  ELSE IF \E m \in DOMAIN rows : rows[m].seq = None THEN "MissingModalities"
  ELSE IF \E m \in DOMAIN rows : ~rows[m].fresh \/ rows[m].seq # seq
  THEN "StaleRetainedEvidence"
  ELSE IF \E m \in DOMAIN rows : ~rows[m].ready THEN "Collecting"
  ELSE "UnavailablePrerequisite"

Report(contract, tracks, t, seq) ==
  LET rows == Rows(contract, tracks, t, seq) IN
  [verdict |-> Verdict(rows).name, channels |-> Verdict(rows).channels, rows |-> rows,
   outcome |-> IF Verdict(rows).name = "InsufficientEvidence"
               THEN Insufficiency(rows, seq) ELSE Verdict(rows).name]
=============================================================================
