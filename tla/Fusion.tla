------------------------------- MODULE Fusion --------------------------------
(***************************************************************************)
(* The default assessment of crates/galadriel-core/src/fusion.rs: the      *)
(* report of the window detector (Mirror) is fused with what the signed    *)
(* correlation of every projection axis says (correlation.rs).             *)
(*                                                                         *)
(* An axis is the graph of the channel pairs whose correlation reaches the *)
(* threshold.  It is usable unless it has too few samples, a degenerate    *)
(* column or no usable significance floor; a pair below the threshold is   *)
(* no edge, so an axis without consensus is a graph without edges.  The    *)
(* axes of a family are numbered by prepare_release_assessment and share   *)
(* one configuration and binding, so the checks of these cannot fail.      *)
(*                                                                         *)
(* The public combine functions fuse any report with any family;           *)
(* assess_default fuses those of one stream.                               *)
(***************************************************************************)
EXTENDS Mirror

CONSTANTS
  Suite,         \* the modalities of the release suite
  ChannelSets,   \* channels the detector may retain for the track
  Families,      \* sequences of axes
  Position       \* the sequence that is assessed

VARIABLE assessment    \* what the last call found, or None

Axis == [usable : BOOLEAN, edges : SUBSET SUBSET Suite]

ASSUME FusionAssumption ==
  /\ IsFiniteSet(Suite)
  /\ Families \subseteq Seq(Axis)

-----------------------------------------------------------------------------
(* correlation::analyze, from the graph of one axis.                        *)

Clique(axis, members) == \A a, b \in members : a # b => {a, b} \in axis.edges

Cliques(axis) == {members \in (SUBSET Suite) \ {{}} : Clique(axis, members)}

LargestCliques(axis) ==
  LET cliques == Cliques(axis) IN
  {members \in cliques :
     \A others \in cliques : Cardinality(others) <= Cardinality(members)}

(* is_unique_strict_majority.                                               *)
UniqueStrictMajority(largest) ==
  \E members \in largest :
    /\ 2 * Cardinality(members) > Cardinality(Suite)
    /\ largest = {members}

MutantBridged(axis, consensus) ==
  \E a \in Suite \ consensus : \A b \in consensus : {a, b} \in axis.edges

(* An outsider that still corroborates part of the consensus.               *)
Bridged(axis, consensus) ==
  \E a \in Suite \ consensus : \E b \in consensus : {a, b} \in axis.edges

NoAttribution(name) == [name |-> name, channels |-> {}]

CorrVerdict(axis) ==
  LET largest   == LargestCliques(axis)
      consensus == CHOOSE members \in largest : TRUE
  IN
  IF \/ Cardinality(Suite) < 3 \/ ~axis.usable
     \/ ~UniqueStrictMajority(largest) \/ Bridged(axis, consensus)
  THEN NoAttribution("InsufficientEvidence")
  ELSE IF Suite \ consensus = {} THEN NoAttribution("Nominal")
  ELSE [name |-> "Decoupled", channels |-> Suite \ consensus]

-----------------------------------------------------------------------------
(* axis_consistency_evidence.                                               *)

Verdicts(family) == {CorrVerdict(family[i]) : i \in DOMAIN family}

PositiveSets(family) == {v.channels : v \in {w \in Verdicts(family) : w.name = "Decoupled"}}

Unavailable(family) ==
  family = <<>> \/ \E v \in Verdicts(family) : v.name = "InsufficientEvidence"

Consistency(family) ==
  LET positive  == PositiveSets(family)
      decoupled == UNION positive
  IN
  IF \/ {} \in positive \/ \E p, q \in positive : p # q
     \/ Unavailable(family) /\ decoupled # {}
  THEN [name |-> "Conflicted", channels |-> decoupled]
  ELSE IF Unavailable(family) THEN NoAttribution("Insufficient")
  ELSE IF decoupled = {} THEN NoAttribution("Intact")
  ELSE [name |-> "Decoupled", channels |-> decoupled]

-----------------------------------------------------------------------------
(* combine_validated.                                                       *)

FusedAs(name, channels) == [name |-> name, channels |-> channels, magnitude |-> None]

Attributed(channels, magnitude) ==
  [name |-> "AttributedInconsistency", channels |-> channels, magnitude |-> magnitude]

Magnitude(rows, channels) ==
  IF Verdict(rows).name = "InsufficientEvidence" THEN "Insufficient"
  ELSE IF channels \cap Anomalous(rows) = {} THEN "InCovariance"
  ELSE IF channels \subseteq Anomalous(rows) THEN "Elevated"
  ELSE "Mixed"

(* The channels the window detector attributes by itself, none if it does   *)
(* not find an anomaly.                                                     *)
BaselineAttribution(rows) ==
  CASE Verdict(rows).name = "AttributedInconsistency" -> Verdict(rows).channels
    [] Verdict(rows).name = "BroadDegradation"        -> Anomalous(rows)
    [] OTHER                                          -> {}

Fused(rows, consistency) ==
  LET baseline  == Verdict(rows)
      decoupled == consistency.channels
      all       == Anomalous(rows) \cup decoupled
  IN
  IF consistency.name = "Conflicted" \/ baseline.name = "UnclassifiedAnomaly"
  THEN FusedAs("UnclassifiedAnomaly", all)
  ELSE IF decoupled # {}
  THEN IF BaselineAttribution(rows) \notin {{}, decoupled}
       THEN FusedAs("UnclassifiedAnomaly", BaselineAttribution(rows) \cup decoupled)
       ELSE Attributed(all, Magnitude(rows, all))
  ELSE IF baseline.name = "AttributedInconsistency"
  THEN Attributed(baseline.channels, "Elevated")
  ELSE IF baseline.name = "Nominal" /\ consistency.name = "Insufficient"
  THEN FusedAs("InsufficientEvidence", {})
  ELSE FusedAs(baseline.name, {})

(* assess_default, once the report and the axes are there.                  *)
AssessDefault(channels, family) ==
  LET rows == Rows(Suite, [t \in {"track"} |-> channels], "track", Position) IN
  assessment' = [rows |-> rows, family |-> family,
                 verdict |-> Fused(rows, Consistency(family))]

FusionInit == assessment = None
FusionNext == \E channels \in ChannelSets, family \in Families : AssessDefault(channels, family)
FusionSpec == FusionInit /\ [][FusionNext]_assessment

-----------------------------------------------------------------------------
(* Properties.                                                              *)

(* What an axis shows, said without cliques: a strict majority every member *)
(* of which is joined to the members and to nobody else.                    *)
Agreed(axis, majority) ==
  /\ 2 * Cardinality(majority) > Cardinality(Suite)
  /\ \A a \in majority, b \in Suite : a # b => ({a, b} \in axis.edges <=> b \in majority)

Settled(axis) ==
  /\ Cardinality(Suite) >= 3 /\ axis.usable
  /\ \E majority \in SUBSET Suite : Agreed(axis, majority)

Apart(axis) ==
  {m \in Suite : Settled(axis)
                 /\ \A majority \in SUBSET Suite : Agreed(axis, majority) => m \notin majority}

ApartIn(family) == UNION {Apart(family[i]) : i \in DOMAIN family}

(* Nominal means that the report is nominal and that there are axes, all of *)
(* which settle on every channel.                                           *)
NominalIsEarned(rows, family, verdict) ==
  verdict.name = "Nominal" <=>
    /\ Verdict(rows).name = "Nominal" /\ family # <<>>
    /\ \A i \in DOMAIN family : Settled(family[i]) /\ Apart(family[i]) = {}

(* Every channel either detector holds against is named, whatever the rest  *)
(* of the evidence lacks; only broad degradation, which the axes never      *)
(* contradict, names none.                                                  *)
AllAreNamed(rows, family, verdict) ==
  LET named == Anomalous(rows) \cup ApartIn(family) IN
  /\ verdict.name \in {"Nominal", "InsufficientEvidence"} => named = {}
  /\ verdict.name = "BroadDegradation" => Broad(rows) /\ ApartIn(family) = {}
  /\ verdict.name \in {"UnclassifiedAnomaly", "AttributedInconsistency"} =>
       named # {} /\ verdict.channels = named

(* An inconsistency is attributed only if nothing that speaks says          *)
(* otherwise, so never to a mix of elevated and other channels.             *)
AttributionUncontradicted(rows, family, verdict) ==
  verdict.name = "AttributedInconsistency" =>
    /\ Anomalous(rows) \in {{}, verdict.channels}
    /\ ApartIn(family) # {} => \A i \in DOMAIN family :
         Settled(family[i]) /\ Apart(family[i]) \in {{}, verdict.channels}
    /\ verdict.magnitude # "Mixed"

(* No evidence is lost or explained away in fusion.                         *)
FusionHidesNothing ==
  assessment # None =>
    /\ NominalIsEarned(assessment.rows, assessment.family, assessment.verdict)
    /\ AllAreNamed(assessment.rows, assessment.family, assessment.verdict)
    /\ AttributionUncontradicted(assessment.rows, assessment.family, assessment.verdict)
=============================================================================
