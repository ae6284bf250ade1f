--------------------------- MODULE DetectorProofs ----------------------------
(***************************************************************************)
(* The detector, for every suite, every roster, all limits and all inputs. *)
(* First what it says: that fusion hides nothing.  One axis: the search for*)
(* a unique largest clique finds the majority that is joined to itself and *)
(* to nobody else, if there is one (any other clique of that size would    *)
(* have to meet it, and so be part of it).  Then a family, a report, the   *)
(* table of both.  Then that no peer can silence an anomaly.  Last what is *)
(* kept: the adapter and the local owner feed unbroken runs (RunInv), and  *)
(* every window and sum is that of all its channel was given (WindowInv),  *)
(* where Page's recursion is shown to find the largest run of a history.   *)
(* And that the rows on which the channels of a track are compared are the *)
(* longest run there is: what each of the two passes knows is stated on    *)
(* the whole stream (ReadInv, RowsUpTo).                                   *)
(***************************************************************************)
EXTENDS DetectorOwners, Fusion, ConsistencyChannels, FiniteSetTheorems, TLAPS

Numbers == INSTANCE FoldFacts WITH Step <- LAMBDA state, element, context : state

(* Two sets of channels that are large enough meet.                         *)
LEMMA Meet ==
  ASSUME FusionAssumption, NEW K \in SUBSET Suite, NEW L \in SUBSET Suite,
         2 * Cardinality(K) > Cardinality(Suite), Cardinality(L) >= Cardinality(K)
  PROVE  K \cap L # {}
<1>1. /\ IsFiniteSet(Suite) /\ IsFiniteSet(K) /\ IsFiniteSet(L)
      /\ Cardinality(Suite) \in Nat /\ Cardinality(K) \in Nat /\ Cardinality(L) \in Nat
  BY FS_Subset, FS_CardinalityType DEF FusionAssumption
<1>2. Cardinality(K) + Cardinality(L) > Cardinality(Suite)
  BY <1>1
<1>. QED BY <1>1, <1>2, FS_MajoritiesIntersect

(* A clique no smaller than an agreed majority is that majority.            *)
LEMMA NoOtherClique ==
  ASSUME FusionAssumption, NEW axis, NEW K \in SUBSET Suite, Agreed(axis, K),
         NEW L \in Cliques(axis), Cardinality(L) >= Cardinality(K)
  PROVE  L = K
<1>1. L \in SUBSET Suite /\ Clique(axis, L)
  BY DEF Cliques
<1>2. PICK x \in K : x \in L
  BY <1>1, Meet DEF Agreed
<1>3. \A y \in L : y \in K
  <2>1. SUFFICES ASSUME NEW y \in L, y # x PROVE y \in K
    BY <1>2
  <2>2. {x, y} \in axis.edges
    BY <1>1, <1>2, <2>1 DEF Clique
  <2>. QED BY <1>1, <1>2, <2>1, <2>2 DEF Agreed
<1>4. /\ IsFiniteSet(K) /\ Cardinality(K) \in Nat /\ Cardinality(L) \in Nat
      /\ Cardinality(L) <= Cardinality(K)
      /\ Cardinality(L) = Cardinality(K) => L = K
  BY <1>3, FS_Subset, FS_CardinalityType DEF FusionAssumption
<1>. QED BY <1>4

(* So the search finds it, alone, and nothing bridges it.                   *)
LEMMA AgreedIsFound ==
  ASSUME FusionAssumption, NEW axis, NEW K \in SUBSET Suite, Agreed(axis, K)
  PROVE  /\ LargestCliques(axis) = {K}
         /\ UniqueStrictMajority({K})
         /\ ~Bridged(axis, K)
<1>1. IsFiniteSet(K) /\ Cardinality(K) \in Nat /\ Cardinality(Suite) \in Nat
  BY FS_Subset, FS_CardinalityType DEF FusionAssumption
<1>2. K # {}
  <2>1. 2 * Cardinality(K) > Cardinality(Suite)
    BY DEF Agreed
  <2>2. Cardinality(K) # 0
    BY <1>1, <2>1
  <2>. QED BY <1>1, <2>2, FS_EmptySet
<1>3. K \in Cliques(axis)
  <2>1. Clique(axis, K)
    <3>1. SUFFICES ASSUME NEW a \in K, NEW b \in K, a # b PROVE {a, b} \in axis.edges
      BY DEF Clique
    <3>. QED BY <3>1 DEF Agreed
  <2>. QED BY <1>2, <2>1 DEF Cliques
<1>4. \A L \in Cliques(axis) : Cardinality(L) <= Cardinality(K)
  <2>1. SUFFICES ASSUME NEW L \in Cliques(axis) PROVE Cardinality(L) <= Cardinality(K)
    OBVIOUS
  <2>2. Cardinality(L) \in Nat
    BY FS_Subset, FS_CardinalityType DEF FusionAssumption, Cliques
  <2>. QED BY <1>1, <2>2, NoOtherClique
<1>5. \A L \in LargestCliques(axis) : L = K
  BY <1>1, <1>3, NoOtherClique DEF LargestCliques
<1>6. LargestCliques(axis) = {K}
  BY <1>3, <1>4, <1>5 DEF LargestCliques
<1>7. UniqueStrictMajority({K})
  BY DEF UniqueStrictMajority, Agreed
<1>8. ~Bridged(axis, K)
  <2>1. SUFFICES ASSUME NEW a \in Suite \ K, NEW b \in K, {a, b} \in axis.edges PROVE FALSE
    BY DEF Bridged
  <2>2. {b, a} = {a, b} /\ a # b /\ a \in Suite
    OBVIOUS
  <2>. QED BY <2>1, <2>2 DEF Agreed
<1>. QED BY <1>6, <1>7, <1>8

(* And what the search finds, unbridged, is an agreed majority.             *)
LEMMA FoundIsAgreed ==
  ASSUME FusionAssumption, NEW axis,
         UniqueStrictMajority(LargestCliques(axis)),
         ~Bridged(axis, CHOOSE members \in LargestCliques(axis) : TRUE)
  PROVE  \E K \in SUBSET Suite :
           /\ K = CHOOSE members \in LargestCliques(axis) : TRUE
           /\ Agreed(axis, K)
<1>1. PICK K \in LargestCliques(axis) :
        2 * Cardinality(K) > Cardinality(Suite) /\ LargestCliques(axis) = {K}
  BY DEF UniqueStrictMajority
<1>2. K = CHOOSE members \in LargestCliques(axis) : TRUE
  BY <1>1
<1>3. K \in SUBSET Suite /\ Clique(axis, K)
  BY DEF LargestCliques, Cliques
<1>4. ~Bridged(axis, K)
  BY <1>2
<1>5. \A a \in K, b \in Suite : a # b => ({a, b} \in axis.edges <=> b \in K)
  <2>1. SUFFICES ASSUME NEW a \in K, NEW b \in Suite, a # b
                 PROVE  {a, b} \in axis.edges <=> b \in K
    OBVIOUS
  <2>2. CASE b \in K
    BY <1>3, <2>1, <2>2 DEF Clique
  <2>3. CASE b \notin K
    <3>1. {b, a} = {a, b}
      OBVIOUS
    <3>. QED BY <1>4, <2>1, <2>3, <3>1 DEF Bridged
  <2>. QED BY <2>2, <2>3
<1>. QED BY <1>1, <1>2, <1>3, <1>5 DEF Agreed

(* What analyze answers, for one axis: it abstains unless the channels      *)
(* settle, and then sets apart exactly those outside the one majority that  *)
(* corroborates itself (correlation::analyze).                              *)
THEOREM AnalyzeSetsApart ==
  ASSUME FusionAssumption, NEW axis \in Axis
  PROVE  /\ CorrVerdict(axis).channels = Apart(axis)
         /\ CorrVerdict(axis).name =
              IF ~Settled(axis) THEN "InsufficientEvidence"
              ELSE IF Apart(axis) = {} THEN "Nominal" ELSE "Decoupled"
<1> DEFINE found == CHOOSE members \in LargestCliques(axis) : TRUE
<1>1. CASE Settled(axis)
  <2>1. PICK K \in SUBSET Suite : Agreed(axis, K)
    BY <1>1 DEF Settled
  <2>a. LargestCliques(axis) = {K} /\ UniqueStrictMajority({K}) /\ ~Bridged(axis, K)
    BY <2>1, AgreedIsFound
  <2>b. found = K  BY <2>a
  <2>2. /\ LargestCliques(axis) = {K} /\ UniqueStrictMajority(LargestCliques(axis))
        /\ found = K /\ ~Bridged(axis, found)
    BY <2>a, <2>b, Zenon
  <2>3. \A L \in SUBSET Suite : Agreed(axis, L) => L = K
    <3>1. SUFFICES ASSUME NEW L \in SUBSET Suite, Agreed(axis, L) PROVE L = K
      OBVIOUS
    <3>2. LargestCliques(axis) = {L}
      BY <3>1, AgreedIsFound
    <3>. QED BY <2>2, <3>2
  <2>4. Apart(axis) = Suite \ K
    BY <1>1, <2>1, <2>3 DEF Apart
  <2>5. CorrVerdict(axis) = IF Suite \ K = {} THEN NoAttribution("Nominal")
                            ELSE [name |-> "Decoupled", channels |-> Suite \ K]
    <3>1. ~(Cardinality(Suite) < 3) /\ axis.usable
      BY <1>1, FS_CardinalityType DEF Settled, FusionAssumption
    <3>. QED BY <2>2, <3>1 DEF CorrVerdict
  <2>. QED BY <1>1, <2>4, <2>5 DEF NoAttribution
<1>2. CASE ~Settled(axis)
  <2>1. Apart(axis) = {}
    BY <1>2 DEF Apart
  <2>2. CorrVerdict(axis) = NoAttribution("InsufficientEvidence")
    <3>1. SUFFICES ASSUME Cardinality(Suite) >= 3, axis.usable,
                          UniqueStrictMajority(LargestCliques(axis)), ~Bridged(axis, found)
                   PROVE  FALSE
      BY FS_CardinalityType DEF CorrVerdict, FusionAssumption
    <3>2. \E K \in SUBSET Suite : Agreed(axis, K)
      BY <3>1, FoundIsAgreed
    <3>. QED BY <1>2, <3>1, <3>2 DEF Settled
  <2>. QED BY <1>2, <2>1, <2>2 DEF NoAttribution
<1>. QED BY <1>1, <1>2

-----------------------------------------------------------------------------
(* What a family of axes says (axis_consistency_evidence).                  *)
LEMMA EvidenceOfFamily ==
  ASSUME FusionAssumption, NEW family \in Seq(Axis)
  PROVE  LET evidence == Consistency(family) IN
         /\ evidence.channels = ApartIn(family)
         /\ evidence.name \in {"Conflicted", "Insufficient", "Intact", "Decoupled"}
         /\ evidence.name \in {"Conflicted", "Decoupled"} <=> ApartIn(family) # {}
         /\ evidence.name \in {"Intact", "Decoupled"} =>
              /\ family # <<>>
              /\ \A i \in DOMAIN family :
                   Settled(family[i]) /\ Apart(family[i]) \in {{}, ApartIn(family)}
         /\ evidence.name = "Insufficient" =>
              family = <<>> \/ \E i \in DOMAIN family : ~Settled(family[i])
<1> DEFINE positive == PositiveSets(family)
<1>1. \A i \in DOMAIN family :
        /\ CorrVerdict(family[i]).channels = Apart(family[i])
        /\ CorrVerdict(family[i]).name =
             IF ~Settled(family[i]) THEN "InsufficientEvidence"
             ELSE IF Apart(family[i]) = {} THEN "Nominal" ELSE "Decoupled"
        /\ ~Settled(family[i]) => Apart(family[i]) = {}
  BY AnalyzeSetsApart DEF Apart
<1>2. positive = {Apart(family[i]) : i \in {j \in DOMAIN family : Apart(family[j]) # {}}}
  <2>1. \A p \in positive :
          \E i \in DOMAIN family : p = Apart(family[i]) /\ Apart(family[i]) # {}
    <3>1. SUFFICES ASSUME NEW p \in positive
                   PROVE \E i \in DOMAIN family : p = Apart(family[i]) /\ Apart(family[i]) # {}
      OBVIOUS
    <3>2. PICK i \in DOMAIN family :
            p = CorrVerdict(family[i]).channels /\ CorrVerdict(family[i]).name = "Decoupled"
      BY <3>1 DEF PositiveSets, Verdicts
    <3>. QED BY <1>1, <3>2
  <2>2. \A i \in DOMAIN family : Apart(family[i]) # {} => Apart(family[i]) \in positive
    BY <1>1 DEF PositiveSets, Verdicts
  <2>. QED BY <2>1, <2>2
<1>3. UNION positive = ApartIn(family) /\ {} \notin positive
  BY <1>2 DEF ApartIn
<1>4. Unavailable(family) <=> family = <<>> \/ \E i \in DOMAIN family : ~Settled(family[i])
  BY <1>1 DEF Unavailable, Verdicts
<1>5. ASSUME \A p, q \in positive : p = q
      PROVE  \A i \in DOMAIN family : Apart(family[i]) \in {{}, ApartIn(family)}
  <2>1. SUFFICES ASSUME NEW i \in DOMAIN family, Apart(family[i]) # {}
                 PROVE  Apart(family[i]) = ApartIn(family)
    OBVIOUS
  <2>2. positive = {Apart(family[i])}
    BY <1>2, <1>5, <2>1
  <2>. QED BY <1>3, <2>2
<1>6. (\E p, q \in positive : p # q) => ApartIn(family) # {}
  BY <1>3
<1>7. CASE \/ \E p, q \in positive : p # q
           \/ Unavailable(family) /\ ApartIn(family) # {}
  <2>1. Consistency(family) = [name |-> "Conflicted", channels |-> ApartIn(family)]
    BY <1>3, <1>7 DEF Consistency
  <2>. QED BY <1>6, <1>7, <2>1
<1>8. CASE /\ \A p, q \in positive : p = q
           /\ Unavailable(family) /\ ApartIn(family) = {}
  <2>1. Consistency(family) = [name |-> "Insufficient", channels |-> {}]
    BY <1>3, <1>8 DEF Consistency, NoAttribution
  <2>. QED BY <1>4, <1>8, <2>1
<1>9. CASE (\A p, q \in positive : p = q) /\ ~Unavailable(family)
  <2>1. CASE ApartIn(family) = {}
    <3>1. Consistency(family) = [name |-> "Intact", channels |-> {}]
      BY <1>3, <1>9, <2>1 DEF Consistency, NoAttribution
    <3>. QED BY <1>4, <1>5, <1>9, <2>1, <3>1
  <2>2. CASE ApartIn(family) # {}
    <3>1. Consistency(family) = [name |-> "Decoupled", channels |-> ApartIn(family)]
      BY <1>3, <1>9, <2>2 DEF Consistency
    <3>. QED BY <1>4, <1>5, <1>9, <2>2, <3>1
  <2>. QED BY <2>1, <2>2
<1>. QED BY <1>7, <1>8, <1>9

(* What the window detector says (Mirror::assess): every anomalous channel  *)
(* makes it say so, and a narrower name than unclassified leaves none out.  *)
LEMMA EvidenceOfReport ==
  ASSUME NEW rows
  PROVE  /\ Verdict(rows).name \in {"UnclassifiedAnomaly", "InsufficientEvidence", "Nominal",
                                    "BroadDegradation", "AttributedInconsistency"}
         /\ Verdict(rows).name \in {"InsufficientEvidence", "Nominal"} <=> Anomalous(rows) = {}
         /\ Verdict(rows).name = "BroadDegradation" => Broad(rows)
         /\ Verdict(rows).name = "AttributedInconsistency" =>
              Verdict(rows).channels = Anomalous(rows)
<1>1. Inflated(rows) \subseteq Anomalous(rows)
  BY DEF Inflated, Anomalous
<1>2. CASE Unclassified(rows)
  BY <1>2 DEF Verdict, Unclassified
<1>3. CASE ~Unclassified(rows) /\ ~Complete(rows)
  BY <1>3 DEF Verdict, Unclassified
<1>4. CASE ~Unclassified(rows) /\ Complete(rows)
  <2>1. Anomalous(rows) = Inflated(rows)
    <3>1. Anomalous(rows) = {} \/ ~\E m \in Ready(rows) : rows[m].low
      BY <1>4 DEF Unclassified
    <3>. QED BY <1>1, <3>1 DEF Anomalous, Inflated
  <2>. QED BY <1>4, <2>1 DEF Verdict
<1>. QED BY <1>2, <1>3, <1>4

-----------------------------------------------------------------------------
(* The table of combine_validated, for one report and one family.           *)
LEMMA FusedHidesNothing ==
  ASSUME NEW rows, NEW family, NEW evidence,
         evidence.channels = ApartIn(family),
         evidence.name \in {"Conflicted", "Insufficient", "Intact", "Decoupled"},
         evidence.name \in {"Conflicted", "Decoupled"} <=> ApartIn(family) # {},
         evidence.name \in {"Intact", "Decoupled"} =>
           /\ family # <<>>
           /\ \A i \in DOMAIN family :
                Settled(family[i]) /\ Apart(family[i]) \in {{}, ApartIn(family)},
         evidence.name = "Insufficient" =>
           family = <<>> \/ \E i \in DOMAIN family : ~Settled(family[i])
  PROVE  /\ NominalIsEarned(rows, family, Fused(rows, evidence))
         /\ AllAreNamed(rows, family, Fused(rows, evidence))
         /\ AttributionUncontradicted(rows, family, Fused(rows, evidence))
<1> DEFINE verdict == Fused(rows, evidence)
           named   == Anomalous(rows) \cup ApartIn(family)
<1>1. ApartIn(family) # {} <=> \E i \in DOMAIN family : Apart(family[i]) # {}
  BY DEF ApartIn
<1>2. /\ Verdict(rows).name \in {"UnclassifiedAnomaly", "InsufficientEvidence", "Nominal",
                                 "BroadDegradation", "AttributedInconsistency"}
      /\ Verdict(rows).name \in {"InsufficientEvidence", "Nominal"} <=> Anomalous(rows) = {}
      /\ Verdict(rows).name = "BroadDegradation" => Broad(rows)
      /\ Verdict(rows).name = "AttributedInconsistency" =>
           Verdict(rows).channels = Anomalous(rows)
  BY EvidenceOfReport
<1>3. CASE evidence.name = "Conflicted" \/ Verdict(rows).name = "UnclassifiedAnomaly"
  <2>1. verdict = [name |-> "UnclassifiedAnomaly", channels |-> named, magnitude |-> None]
    BY <1>3 DEF Fused, FusedAs
  <2>2. named # {}
    BY <1>2, <1>3
  <2>3. NominalIsEarned(rows, family, verdict)
    BY <1>1, <1>2, <1>3, <2>1 DEF NominalIsEarned
  <2>4. AllAreNamed(rows, family, verdict)
    BY <2>1, <2>2 DEF AllAreNamed
  <2>. QED BY <2>1, <2>3, <2>4 DEF AttributionUncontradicted
<1>4. CASE evidence.name = "Decoupled" /\ Verdict(rows).name # "UnclassifiedAnomaly"
  <2>1. ApartIn(family) # {} /\ named # {}
    BY <1>4
  <2>2. BaselineAttribution(rows) = Anomalous(rows)
    BY <1>2, <1>4 DEF BaselineAttribution
  <2>3. CASE Anomalous(rows) \notin {{}, ApartIn(family)}
    <3>1. verdict = [name |-> "UnclassifiedAnomaly", channels |-> named, magnitude |-> None]
      BY <1>4, <2>1, <2>2, <2>3 DEF Fused, FusedAs
    <3>2. NominalIsEarned(rows, family, verdict)
      BY <1>1, <2>1, <3>1 DEF NominalIsEarned
    <3>3. AllAreNamed(rows, family, verdict)
      BY <2>1, <3>1 DEF AllAreNamed
    <3>. QED BY <3>1, <3>2, <3>3 DEF AttributionUncontradicted
  <2>4. CASE Anomalous(rows) \in {{}, ApartIn(family)}
    <3>1. named = ApartIn(family)
      BY <2>4
    <3>2. verdict = [name |-> "AttributedInconsistency", channels |-> named,
                     magnitude |-> Magnitude(rows, named)]
      BY <1>4, <2>1, <2>2, <2>4 DEF Fused, Attributed
    <3>3. Magnitude(rows, named) # "Mixed"
      BY <2>4, <3>1 DEF Magnitude
    <3>4. NominalIsEarned(rows, family, verdict)
      BY <1>1, <2>1, <3>2 DEF NominalIsEarned
    <3>5. AllAreNamed(rows, family, verdict)
      BY <2>1, <3>2 DEF AllAreNamed
    <3>6. AttributionUncontradicted(rows, family, verdict)
      BY <1>4, <2>4, <3>1, <3>2, <3>3 DEF AttributionUncontradicted
    <3>. QED BY <3>4, <3>5, <3>6
  <2>. QED BY <2>3, <2>4
<1>5. CASE evidence.name \in {"Intact", "Insufficient"}
           /\ Verdict(rows).name = "AttributedInconsistency"
  <2>1. ApartIn(family) = {} /\ named = Anomalous(rows) /\ named # {}
    BY <1>2, <1>5
  <2>2. verdict = [name |-> "AttributedInconsistency", channels |-> named,
                   magnitude |-> "Elevated"]
    BY <1>2, <1>5, <2>1 DEF Fused, Attributed
  <2>3. NominalIsEarned(rows, family, verdict)
    BY <1>5, <2>2 DEF NominalIsEarned
  <2>4. AllAreNamed(rows, family, verdict)
    BY <2>1, <2>2 DEF AllAreNamed
  <2>5. AttributionUncontradicted(rows, family, verdict)
    BY <2>1, <2>2 DEF AttributionUncontradicted
  <2>. QED BY <2>3, <2>4, <2>5
<1>6. CASE evidence.name \in {"Intact", "Insufficient"}
           /\ Verdict(rows).name \in {"Nominal", "InsufficientEvidence"}
  <2>1. ApartIn(family) = {} /\ named = {} /\ \A i \in DOMAIN family : Apart(family[i]) = {}
    BY <1>1, <1>2, <1>6
  <2>2. verdict = [name |-> IF evidence.name = "Insufficient" THEN "InsufficientEvidence"
                            ELSE Verdict(rows).name,
                   channels |-> {}, magnitude |-> None]
    BY <1>6, <2>1 DEF Fused, FusedAs
  <2>3. NominalIsEarned(rows, family, verdict)
    BY <1>6, <2>1, <2>2 DEF NominalIsEarned
  <2>4. AllAreNamed(rows, family, verdict)
    BY <1>6, <2>1, <2>2 DEF AllAreNamed
  <2>5. AttributionUncontradicted(rows, family, verdict)
    BY <1>6, <2>2 DEF AttributionUncontradicted
  <2>. QED BY <2>3, <2>4, <2>5
<1>7. CASE evidence.name \in {"Intact", "Insufficient"}
           /\ Verdict(rows).name = "BroadDegradation"
  <2>1. ApartIn(family) = {}
    BY <1>7
  <2>2. verdict = [name |-> "BroadDegradation", channels |-> {}, magnitude |-> None]
    BY <1>7, <2>1 DEF Fused, FusedAs
  <2>3. NominalIsEarned(rows, family, verdict)
    BY <1>7, <2>2 DEF NominalIsEarned
  <2>4. AllAreNamed(rows, family, verdict)
    BY <1>2, <1>7, <2>1, <2>2 DEF AllAreNamed
  <2>5. AttributionUncontradicted(rows, family, verdict)
    BY <2>2 DEF AttributionUncontradicted
  <2>. QED BY <2>3, <2>4, <2>5
<1>. QED BY <1>2, <1>3, <1>4, <1>5, <1>6, <1>7

(* Whatever is assessed, with any detector parameters, any suite and any    *)
(* number of axes, no evidence is lost in fusion (assess_default).          *)
THEOREM AssessmentHidesNothing ==
  ASSUME FusionAssumption PROVE FusionSpec => []FusionHidesNothing
<1>1. FusionInit => FusionHidesNothing
  BY DEF FusionInit, FusionHidesNothing
<1>2. FusionHidesNothing /\ [FusionNext]_assessment => FusionHidesNothing'
  <2>1. SUFFICES ASSUME FusionHidesNothing, [FusionNext]_assessment PROVE FusionHidesNothing'
    OBVIOUS
  <2>2. CASE UNCHANGED assessment
    <3>1. assessment' = assessment
      BY <2>2
    <3>2. /\ assessment'.rows = assessment.rows /\ assessment'.family = assessment.family
          /\ assessment'.verdict = assessment.verdict
      BY <3>1
    <3>. QED BY <2>1, <3>1, <3>2 DEF FusionHidesNothing
  <2>3. ASSUME NEW channels \in ChannelSets, NEW family \in Families,
               AssessDefault(channels, family)
        PROVE  FusionHidesNothing'
    <3> DEFINE rows == Rows(Suite, [t \in {"track"} |-> channels], "track", Position)
    <3>1. /\ assessment'.rows = rows /\ assessment'.family = family
          /\ assessment'.verdict = Fused(rows, Consistency(family))
      BY <2>3 DEF AssessDefault
    <3>2. family \in Seq(Axis)
      BY DEF FusionAssumption
    <3> HIDE DEF rows
    <3>3. /\ NominalIsEarned(rows, family, Fused(rows, Consistency(family)))
          /\ AllAreNamed(rows, family, Fused(rows, Consistency(family)))
          /\ AttributionUncontradicted(rows, family, Fused(rows, Consistency(family)))
      BY <3>2, EvidenceOfFamily, FusedHidesNothing
    <3>. QED BY <3>1, <3>3 DEF FusionHidesNothing
  <2>. QED BY <2>1, <2>2, <2>3 DEF FusionNext
<1>. QED BY <1>1, <1>2, PTL DEF FusionSpec

-----------------------------------------------------------------------------
(* What a report of a release suite names, and what a step can take from it.*)

(* A report names an anomaly exactly when some channel has one.             *)
LEMMA VerdictNames ==
  ASSUME NEW rows
  PROVE  Verdict(rows).name \notin {"Nominal", "InsufficientEvidence"} <=> Anomalous(rows) # {}
<1>1. ASSUME Anomalous(rows) = {}
      PROVE  Verdict(rows).name \in {"Nominal", "InsufficientEvidence"}
  <2>1. ~Unclassified(rows) /\ Inflated(rows) = {}
    BY <1>1 DEF Unclassified, Inflated, Anomalous
  <2> QED  BY <2>1 DEF Verdict
<1>2. ASSUME Anomalous(rows) # {}
      PROVE  Verdict(rows).name \notin {"Nominal", "InsufficientEvidence"}
  <2>1. CASE Unclassified(rows)
    BY <2>1 DEF Verdict
  <2>2. CASE ~Unclassified(rows)
    <3>1. Complete(rows) /\ \A m \in Ready(rows) : ~rows[m].low
      BY <1>2, <2>2 DEF Unclassified
    <3>2. Inflated(rows) # {}
      BY <1>2, <3>1 DEF Inflated, Anomalous
    <3> QED  BY <2>2, <3>1, <3>2 DEF Verdict
  <2> QED  BY <2>1, <2>2
<1> QED  BY <1>1, <1>2

LEMMA AlarmedIs ==
  ASSUME NEW mirror, NEW t, NEW seq
  PROVE  Alarmed(mirror, t, seq) <=> Evidence(mirror, t, seq) # {}
BY VerdictNames DEF Alarmed, Evidence, Report

(* A release suite admits no other channel, so the number of channels that  *)
(* share a report, and with it what it takes to be elevated, never changes. *)
Suited == owner = "release" => \A t \in DOMAIN tracks : DOMAIN tracks[t] \subseteq Release

Takes(after, mirror, obs) ==
  /\ DOMAIN after = DOMAIN mirror \cup {obs.track}
  /\ \A t \in DOMAIN mirror : t # obs.track => after[t] = mirror[t]
  /\ DOMAIN after[obs.track] = DOMAIN Channels(mirror, obs.track) \cup {obs.modality}
  /\ \A m \in DOMAIN Channels(mirror, obs.track) :
       m # obs.modality => after[obs.track][m] = Channels(mirror, obs.track)[m]
  /\ after[obs.track][obs.modality] =
       Sampled(IF Known(mirror, obs) THEN Channels(mirror, obs.track)[obs.modality] ELSE Fresh,
               obs)

LEMMA IngestedIs == \A mirror, obs : Takes(Ingested(mirror, obs), mirror, obs)
BY DEF Takes, Ingested

LEMMA SampledAt == \A channel, obs : Sampled(channel, obs).seq = obs.seq
BY DEF Sampled

LEMMA SuitedStep == Suited /\ [Next]_vars => Suited'
<1> SUFFICES ASSUME Suited, [Next]_vars PROVE Suited'
  OBVIOUS
<1>1. ASSUME NEW obs \in Observations, Ingest(obs) PROVE Suited'
  <2> SUFFICES ASSUME owner = "release", NEW t \in DOMAIN tracks'
               PROVE  DOMAIN tracks'[t] \subseteq Release
    BY <1>1 DEF Ingest, BareFrame, Suited
  <2>1. tracks' = Ingested(tracks, obs) /\ IngestError(Release, tracks, obs) = None
    BY <1>1 DEF Ingest, Contract
  <2>2. obs.modality \in Release
    BY <2>1, AbsenceAssumption DEF IngestError, Expects
  <2>3. CASE t = obs.track
    <3>1. DOMAIN tracks'[t] = DOMAIN Channels(tracks, t) \cup {obs.modality}
      BY <2>1, <2>3, IngestedIs DEF Takes
    <3>2. DOMAIN Channels(tracks, t) \subseteq Release
      BY DEF Channels, Suited, NoTracks
    <3> QED  BY <2>2, <3>1, <3>2
  <2>4. CASE t # obs.track
    <3>1. DOMAIN tracks' = DOMAIN tracks \cup {obs.track}
      BY <2>1, IngestedIs DEF Takes
    <3>2. t \in DOMAIN tracks
      BY <2>4, <3>1
    <3>3. tracks'[t] = tracks[t]
      BY <2>1, <2>4, <3>2, IngestedIs DEF Takes
    <3> QED  BY <3>2, <3>3 DEF Suited
  <2> QED  BY <2>3, <2>4
<1>2. ASSUME NEW t \in Tracks, RemoveTrack(t) PROVE Suited'
  BY <1>2 DEF RemoveTrack, BareFrame, Without, Suited
<1>3. ASSUME Clear PROVE Suited'
  BY <1>3 DEF Clear, BareFrame, NoTracks, Suited
<1>4. ASSUME UNCHANGED <<owner, tracks>> PROVE Suited'
  BY <1>4 DEF Suited
<1> QED  BY <1>1, <1>2, <1>3, <1>4
         DEF Next, vars, AssessFrame, PrepareRun, AssessStep, EndRun, NativeFrame

LEMMA SuitedAlways == Spec => []Suited
<1>1. Init => Suited
  BY DEF Init, Suited, NoTracks
<1> QED  BY <1>1, SuitedStep, PTL DEF Spec

(* What is left of an anomaly after one more observation.                   *)
LEMMA EvidenceStays ==
  ASSUME Suited, owner = "release", NEW obs \in Observations, Ingest(obs),
         NEW t \in DOMAIN tracks \cap DOMAIN tracks', NEW seq,
         NEW m \in Evidence(tracks, t, seq), tracks'[t][m].seq = tracks[t][m].seq
  PROVE  m \in Evidence(tracks', t, seq)
<1> DEFINE rows == Rows(Release, tracks, t, seq)
           after == Rows(Release, tracks', t, seq)
           n == Cardinality(Release)
<1>1. tracks' = Ingested(tracks, obs) /\ IngestError(Release, tracks, obs) = None
  BY DEF Ingest, Contract
<1>2. obs.modality \in Release
  BY <1>1, AbsenceAssumption DEF IngestError, Expects
<1>3. Channels(tracks, t) = tracks[t] /\ Channels(tracks', t) = tracks'[t]
  BY DEF Channels
<1>4. DOMAIN tracks[t] \subseteq Release /\ DOMAIN tracks'[t] \subseteq Release
  <2>1. owner' = owner
    BY DEF Ingest, BareFrame
  <2>2. [Next]_vars
    BY DEF Next
  <2> QED  BY <2>1, <2>2, SuitedStep DEF Suited
<1>5. /\ rows = [k \in Release |-> IF k \in DOMAIN tracks[t] THEN Row(tracks[t][k], seq, n)
                                  ELSE Missing]
      /\ after = [k \in Release |-> IF k \in DOMAIN tracks'[t] THEN Row(tracks'[t][k], seq, n)
                                   ELSE Missing]
  <2>1. /\ DOMAIN tracks[t] \cup (IF Release = None THEN {} ELSE Release) = Release
        /\ DOMAIN tracks'[t] \cup (IF Release = None THEN {} ELSE Release) = Release
    BY <1>4, AbsenceAssumption
  <2> QED  BY <1>3, <2>1 DEF Rows
<1>6. m \in Release /\ m \in DOMAIN tracks[t]
  <2>1. m \in DOMAIN rows /\ rows[m].ready
    BY DEF Evidence, Anomalous, Ready
  <2> QED  BY <1>5, <2>1 DEF Missing
<1>7. m \in DOMAIN tracks'[t] /\ tracks'[t][m] = tracks[t][m]
  <2>1. CASE t # obs.track
    BY <1>1, <1>6, <2>1, IngestedIs DEF Takes
  <2>2. CASE t = obs.track /\ m # obs.modality
    BY <1>1, <1>3, <1>6, <2>2, IngestedIs DEF Takes
  <2>3. CASE t = obs.track /\ m = obs.modality
    <3>1. tracks'[t][m].seq = obs.seq
      BY <1>1, <2>3, IngestedIs, SampledAt DEF Takes
    <3>2. Known(tracks, obs)
      BY <1>3, <1>6, <2>3 DEF Known
    <3>3. ~(obs.seq <= tracks[t][m].seq)
      BY <1>1, <1>2, <1>3, <2>3, <3>2, AbsenceAssumption DEF IngestError
    <3>4. obs.seq \in Nat
      BY OwnersAssumption DEF Observations
    <3> QED  BY <3>1, <3>3, <3>4
  <2> QED  BY <2>1, <2>2, <2>3
<1>8. rows[m] = after[m]
  BY <1>5, <1>6, <1>7
<1> HIDE DEF rows, after
<1>9. m \in DOMAIN rows /\ rows[m].ready /\ (rows[m].high \/ rows[m].low)
  BY DEF Evidence, Anomalous, Ready, rows
<1>10. m \in DOMAIN after /\ after[m].ready /\ (after[m].high \/ after[m].low)
  BY <1>5, <1>6, <1>8, <1>9
<1> QED  BY <1>10 DEF Evidence, Anomalous, Ready, after

(* Whatever the peers of an anomalous channel send or fail to send, for any *)
(* windows, thresholds and window test, it stays anomalous (Mirror::assess  *)
(* after Mirror::ingest).                                                   *)
THEOREM AnomalyAlwaysHeld == Spec => AnomalyHeld
<1> DEFINE Held(t, seq) ==
      LET named == Evidence(tracks, t, seq) IN
      /\ Alarmed(tracks, t, seq)
      /\ \A m \in named : tracks'[t][m].seq = tracks[t][m].seq
      => Alarmed(tracks', t, seq) /\ named \subseteq Evidence(tracks', t, seq)
<1>1. ASSUME Suited, [Next]_vars, owner = "release",
             NEW t \in DOMAIN tracks \cap DOMAIN tracks', NEW seq \in 0 .. MaxPosition
      PROVE  Held(t, seq)
  <2>1. ASSUME NEW obs \in Observations, Ingest(obs) PROVE Held(t, seq)
    <3> SUFFICES ASSUME Alarmed(tracks, t, seq),
                        \A m \in Evidence(tracks, t, seq) : tracks'[t][m].seq = tracks[t][m].seq
                 PROVE  /\ Alarmed(tracks', t, seq)
                        /\ Evidence(tracks, t, seq) \subseteq Evidence(tracks', t, seq)
      OBVIOUS
    <3>1. Evidence(tracks, t, seq) \subseteq Evidence(tracks', t, seq)
      BY <1>1, <2>1, EvidenceStays
    <3>2. Evidence(tracks, t, seq) # {}
      BY AlarmedIs
    <3> QED  BY <3>1, <3>2, AlarmedIs
  <2>2. ASSUME tracks'[t] = tracks[t] PROVE Held(t, seq)
    BY <1>1, <2>2, AlarmedIs DEF Evidence, Rows, Channels
  <2>3. ASSUME NEW u \in Tracks, RemoveTrack(u) PROVE Held(t, seq)
    BY <1>1, <2>2, <2>3 DEF RemoveTrack, Without
  <2>4. ~Clear
    BY <1>1 DEF Clear, NoTracks
  <2> QED  BY <1>1, <2>1, <2>2, <2>3, <2>4
           DEF Next, vars, AssessFrame, PrepareRun, AssessStep, EndRun, NativeFrame
<1>2. Suited /\ [Next]_vars =>
        [owner = "release" =>
           \A t \in DOMAIN tracks \cap DOMAIN tracks', seq \in 0 .. MaxPosition : Held(t, seq)]_vars
  BY <1>1
<1> QED  BY <1>2, SuitedAlways, PTL DEF Spec, AnomalyHeld

-----------------------------------------------------------------------------
(* Unbroken runs.                                                           *)

(* A monitor and a track have the fields their first state has.             *)
MonitorFields == {"state", "track", "first", "roster", "seq", "time", "mirror"}
TrackFields   == {"pc", "monitor", "source"}
NativeFields  == {"pc", "completed", "tracks"}

Monitored(track) == track.pc = "active" => DOMAIN track.monitor = MonitorFields

Live(track) == track.pc = "active" /\ track.monitor.state # "Retired"

IsSequence(s) == \E T : s \in Seq(T)

-----------------------------------------------------------------------------
(* The adapter.                                                             *)

ScalarKeys == {<<monitor.track, Roster[i].modality>> : i \in DOMAIN Roster}

(* A history with the numbers from the first one up to the last.            *)
Level(h, last) ==
  /\ IsSequence(h) /\ h # <<>> /\ Len(h) = last - First + 1
  /\ \A i \in DOMAIN h : h[i].seq = First + i - 1

ScalarRun ==
  /\ DOMAIN monitor = MonitorFields /\ monitor.roster = Roster /\ monitor.first = First
  /\ monitor.state \in {"Prepared", "Active", "Retired"}
  /\ monitor.state # "Active" => DOMAIN accepted = {}
  /\ monitor.state = "Active" =>
       /\ First \in Nat /\ monitor.seq \in Nat
       /\ DOMAIN accepted = ScalarKeys
       /\ \A c \in ScalarKeys : Level(accepted[c], monitor.seq)
       /\ \A c, d \in ScalarKeys : \A i \in DOMAIN accepted[c] :
            accepted[c][i].time = accepted[d][i].time

(* What a call leaves, unless it changed nothing.                           *)
Advanced(m, frame, mirror) ==
  [m EXCEPT !.state = "Active", !.seq = frame.seq, !.time = frame.time, !.mirror = mirror]

LEMMA AssessedIs ==
  ASSUME NEW m, NEW frame, NEW failing, NEW result, result = Assessed(m, frame, failing)
  PROVE  \/ /\ result.answer = "Report" /\ StageError(m, frame) = None
            /\ PositionError(m, frame) = None /\ Absent(frame) = {}
            /\ IngestedFrame(m, frame, failing.storage) # None
            /\ result.monitor = Advanced(m, frame, IngestedFrame(m, frame, failing.storage))
         \/ /\ result.answer # "Report" /\ StageError(m, frame) = None
            /\ result.monitor = Retire(m)
            /\ result.answer = "Unavailable" <=>
                 PositionError(m, frame) = None /\ Absent(frame) # {}
         \/ /\ result.answer # "Report" /\ StageError(m, frame) # None
            /\ result.monitor = m
<1> DEFINE mirror == IngestedFrame(m, frame, failing.storage)
           stage  == StageError(m, frame)
           place  == PositionError(m, frame)
<1>1. stage # "Report" /\ place # "Report" /\ place # "Unavailable"
  BY AbsenceAssumption DEF StageError, PositionError
<1>2. \/ stage # None /\ result = [monitor |-> m, answer |-> stage]
      \/ stage = None /\ place # None /\ result = [monitor |-> Retire(m), answer |-> place]
      \/ /\ stage = None /\ place = None /\ Absent(frame) # {}
         /\ result = [monitor |-> Retire(m), answer |-> "Unavailable"]
      \/ /\ stage = None /\ place = None /\ Absent(frame) = {} /\ mirror = None
         /\ result = [monitor |-> Retire(m), answer |-> "DetectorIngest"]
      \/ /\ stage = None /\ place = None /\ Absent(frame) = {}
         /\ result = [monitor |-> Retire(m), answer |-> "DetectorAssessment"]
      \/ /\ stage = None /\ place = None /\ Absent(frame) = {} /\ mirror # None
         /\ result = [monitor |-> Advanced(m, frame, mirror), answer |-> "Report"]
  BY DEF Assessed, Abandoned, Advanced
<1> HIDE DEF mirror, stage, place
<1>3. \A a, b : [monitor |-> a, answer |-> b].monitor = a /\ [monitor |-> a, answer |-> b].answer = b
  OBVIOUS
<1> QED  BY <1>1, <1>2, <1>3 DEF mirror, stage, place

LEMMA RunGrows ==
  ASSUME NEW s, NEW x, IsSequence(s)
  PROVE  /\ IsSequence(Append(s, x)) /\ Append(s, x) # <<>> /\ Len(s) \in Nat
         /\ DOMAIN s = 1 .. Len(s) /\ DOMAIN Append(s, x) = 1 .. (Len(s) + 1)
         /\ Len(Append(s, x)) = Len(s) + 1 /\ Append(s, x)[Len(s) + 1] = x
         /\ \A i \in 1 .. Len(s) : Append(s, x)[i] = s[i]
<1>1. PICK T : s \in Seq(T)
  BY DEF IsSequence
<1> DEFINE U == T \cup {x}
<1>2. s \in Seq(U) /\ x \in U
  BY <1>1
<1>3. Append(s, x) \in Seq(U)
  BY <1>2
<1> HIDE DEF U
<1>4. /\ Len(s) \in Nat /\ DOMAIN s = 1 .. Len(s) /\ Len(Append(s, x)) = Len(s) + 1
      /\ Append(s, x)[Len(s) + 1] = x
      /\ \A i \in 1 .. Len(s) : Append(s, x)[i] = s[i]
  BY <1>2
<1>5. DOMAIN Append(s, x) = 1 .. (Len(s) + 1)
  BY <1>3, <1>4
<1>6. Append(s, x) # <<>>
  BY <1>4, <1>5
<1> QED  BY <1>3, <1>4, <1>5, <1>6 DEF IsSequence

LEMMA NothingRuns == IsSequence(<<>>) /\ Len(<<>>) = 0 /\ DOMAIN <<>> = {}
BY DEF IsSequence

LEMMA LevelStarts ==
  ASSUME First \in Nat, NEW x, x.seq = First
  PROVE  Level(Append(<<>>, x), First)
<1>1. /\ IsSequence(Append(<<>>, x)) /\ Append(<<>>, x) # <<>> /\ DOMAIN Append(<<>>, x) = 1 .. 1
      /\ Len(Append(<<>>, x)) = 1 /\ Append(<<>>, x)[1] = x
  <2>1. IsSequence(<<>>) /\ Len(<<>>) = 0
    BY NothingRuns
  <2> DEFINE e == <<>>
             g == Append(e, x)
  <2>2. IsSequence(e) /\ Len(e) = 0
    BY <2>1
  <2> HIDE DEF e
  <2>3. /\ IsSequence(g) /\ g # <<>> /\ DOMAIN g = 1 .. (Len(e) + 1)
        /\ Len(g) = Len(e) + 1 /\ g[Len(e) + 1] = x
    BY <2>2, RunGrows
  <2> HIDE DEF g
  <2>4. IsSequence(g) /\ g # <<>> /\ DOMAIN g = 1 .. 1 /\ Len(g) = 1 /\ g[1] = x
    BY <2>2, <2>3
  <2> QED  BY <2>4 DEF g, e
<1>2. \A i \in 1 .. 1 : i = 1
  OBVIOUS
<1> QED  BY <1>1, <1>2 DEF Level

LEMMA LevelGrows ==
  ASSUME First \in Nat, NEW last \in Nat, NEW h, Level(h, last), NEW x, x.seq = last + 1
  PROVE  Level(Append(h, x), last + 1)
<1> DEFINE g == Append(h, x)
<1>1. /\ IsSequence(g) /\ g # <<>> /\ Len(h) \in Nat /\ DOMAIN h = 1 .. Len(h)
      /\ DOMAIN g = 1 .. (Len(h) + 1) /\ Len(g) = Len(h) + 1 /\ g[Len(h) + 1] = x
      /\ \A i \in 1 .. Len(h) : g[i] = h[i]
  <2>1. IsSequence(h)
    BY DEF Level
  <2> QED  BY ONLY <2>1, RunGrows
<1> HIDE DEF g
<1>2. Len(h) = last - First + 1 /\ \A i \in DOMAIN h : h[i].seq = First + i - 1
  BY DEF Level
<1>3. ASSUME NEW i \in DOMAIN g PROVE g[i].seq = First + i - 1
  <2>1. CASE i = Len(h) + 1
    BY <1>1, <1>2, <2>1
  <2>2. CASE i # Len(h) + 1
    <3>1. i \in 1 .. Len(h)
      BY <1>1, <2>2
    <3> QED  BY <1>1, <1>2, <3>1
  <2> QED  BY <2>1, <2>2
<1>4. Len(g) = (last + 1) - First + 1
  BY <1>1, <1>2
<1>5. Level(g, last + 1)
  BY <1>1, <1>3, <1>4 DEF Level
<1> QED  BY <1>5 DEF g

(* A channel of the adapter after a frame: one sample more, that frame's.   *)
LEMMA ScalarAppends ==
  ASSUME NEW frame, NEW failing, AssessFrame(frame, failing),
         Assessed(monitor, frame, failing).answer = "Report"
  PROVE  /\ DOMAIN accepted' = ScalarKeys
         /\ \A c \in ScalarKeys : \E x :
              /\ accepted'[c] = Append(IF c \in DOMAIN accepted THEN accepted[c] ELSE <<>>, x)
              /\ x.seq = frame.seq /\ x.time = frame.time
<1> DEFINE at(c) == CHOOSE j \in DOMAIN Roster : Roster[j].modality = c[2]
           x(c) == SampleOf(Observation(monitor, frame, at(c)))
<1>1. accepted' = [c \in ScalarKeys |->
                     Append(IF c \in DOMAIN accepted THEN accepted[c] ELSE <<>>, x(c))]
  BY DEF AssessFrame, ScalarKeys
<1>2. \A c : x(c).seq = frame.seq /\ x(c).time = frame.time
  BY DEF SampleOf, Observation
<1> HIDE DEF x
<1> QED  BY <1>1, <1>2

LEMMA ScalarStep ==
  ASSUME ScalarRun, NEW frame \in Frames, NEW failing, AssessFrame(frame, failing)
  PROVE  ScalarRun'
<1> DEFINE result == Assessed(monitor, frame, failing)
<1>1. monitor' = result.monitor
  BY DEF AssessFrame
<1>2. CASE /\ result.answer = "Report" /\ StageError(monitor, frame) = None
           /\ PositionError(monitor, frame) = None
           /\ result.monitor = Advanced(monitor, frame,
                                        IngestedFrame(monitor, frame, failing.storage))
  <2>1. /\ monitor.state \in {"Prepared", "Active"}
        /\ monitor.state = "Prepared" => frame.seq = First
        /\ monitor.state = "Active" => frame.seq = monitor.seq + 1
    BY <1>2, AbsenceAssumption DEF ScalarRun, StageError, PositionError
  <2>2. /\ DOMAIN monitor' = MonitorFields /\ monitor'.roster = Roster
        /\ monitor'.first = First /\ monitor'.state = "Active"
        /\ monitor'.seq = frame.seq /\ monitor'.track = monitor.track
    BY <1>1, <1>2 DEF Advanced, ScalarRun, MonitorFields
  <2>3. ScalarKeys' = ScalarKeys
    BY <2>2 DEF ScalarKeys
  <2>4. DOMAIN accepted' = ScalarKeys
    BY <1>2, ScalarAppends
  <2>5. frame.seq \in Nat /\ First \in Nat
    BY <2>1, OwnersAssumption DEF Frames, ScalarRun
  <2> DEFINE past(c) == IF c \in DOMAIN accepted THEN accepted[c] ELSE <<>>
  <2>6. \A c \in ScalarKeys : \E x : /\ accepted'[c] = Append(past(c), x)
                                     /\ x.seq = frame.seq /\ x.time = frame.time
    BY <1>2, ScalarAppends
  <2>7. CASE monitor.state = "Prepared"
    <3>1. frame.seq = First /\ \A c : past(c) = <<>>
      BY <2>1, <2>7 DEF ScalarRun
    <3>2. ASSUME NEW c \in ScalarKeys
          PROVE  /\ Level(accepted'[c], frame.seq) /\ DOMAIN accepted'[c] = 1 .. 1
                 /\ accepted'[c][1].time = frame.time
      <4>1. PICK x : accepted'[c] = Append(<<>>, x) /\ x.seq = frame.seq /\ x.time = frame.time
        BY <2>6, <3>1
      <4> QED  BY <2>5, <3>1, <4>1, LevelStarts, NothingRuns, RunGrows
    <3>3. \A c, d \in ScalarKeys : \A i \in DOMAIN accepted'[c] :
            accepted'[c][i].time = accepted'[d][i].time
      <4>1. \A i \in 1 .. 1 : i = 1
        OBVIOUS
      <4> QED  BY <3>2, <4>1
    <3> QED  BY <2>2, <2>3, <2>4, <2>5, <3>2, <3>3 DEF ScalarRun
  <2>8. CASE monitor.state = "Active"
    <3> DEFINE n == monitor.seq - First + 1
    <3>1. /\ frame.seq = monitor.seq + 1 /\ monitor.seq \in Nat
          /\ \A c \in ScalarKeys : past(c) = accepted[c] /\ Level(accepted[c], monitor.seq)
          /\ \A c, d \in ScalarKeys : \A i \in DOMAIN accepted[c] :
                accepted[c][i].time = accepted[d][i].time
      BY <2>1, <2>8 DEF ScalarRun
    <3> HIDE DEF past
    <3>2. ASSUME NEW c \in ScalarKeys
          PROVE  /\ Level(accepted'[c], frame.seq) /\ n \in Nat
                 /\ DOMAIN accepted[c] = 1 .. n /\ DOMAIN accepted'[c] = 1 .. (n + 1)
                 /\ accepted'[c][n + 1].time = frame.time
                 /\ \A i \in 1 .. n : accepted'[c][i] = accepted[c][i]
      <4>1. PICK x : /\ accepted'[c] = Append(accepted[c], x)
                     /\ x.seq = frame.seq /\ x.time = frame.time
        BY <2>6, <3>1
      <4>2. IsSequence(accepted[c]) /\ Len(accepted[c]) = n
        BY <3>1 DEF Level
      <4> HIDE DEF n
      <4>3. Level(accepted'[c], frame.seq)
        BY <2>5, <3>1, <4>1, LevelGrows
      <4> QED  BY <4>1, <4>2, <4>3, RunGrows
    <3> HIDE DEF n
    <3>3. ASSUME NEW c \in ScalarKeys, NEW d \in ScalarKeys, NEW i \in DOMAIN accepted'[c]
          PROVE  accepted'[c][i].time = accepted'[d][i].time
      <4>1. CASE i = n + 1
        BY <3>2, <4>1
      <4>2. CASE i # n + 1
        <5>1. i \in 1 .. n /\ i \in DOMAIN accepted[c]
          BY <3>2, <4>2
        <5>2. accepted'[c][i] = accepted[c][i] /\ accepted'[d][i] = accepted[d][i]
          BY ONLY <3>2, <5>1, c \in ScalarKeys, d \in ScalarKeys
        <5>3. accepted[c][i].time = accepted[d][i].time
          BY ONLY <3>1, <5>1, c \in ScalarKeys, d \in ScalarKeys
        <5> QED  BY ONLY <5>2, <5>3
      <4> QED  BY <4>1, <4>2
    <3> QED  BY <2>2, <2>3, <2>4, <2>5, <3>2, <3>3 DEF ScalarRun
  <2> QED  BY <2>1, <2>7, <2>8
<1>3. CASE /\ result.answer # "Report" /\ StageError(monitor, frame) = None
           /\ result.monitor = Retire(monitor)
  <2>1. /\ DOMAIN monitor' = MonitorFields /\ monitor'.roster = Roster
        /\ monitor'.first = First /\ monitor'.state = "Retired"
    BY <1>1, <1>3 DEF Retire, ScalarRun, MonitorFields
  <2>2. monitor.state # "Retired"
    BY <1>3, AbsenceAssumption DEF StageError
  <2>3. accepted' = Nothing
    BY <1>1, <1>3, <2>1, <2>2 DEF AssessFrame
  <2> QED  BY <2>1, <2>3 DEF ScalarRun, Nothing
<1>4. CASE result.answer # "Report" /\ result.monitor = monitor
  <2>1. UNCHANGED <<monitor, accepted>>
    BY <1>1, <1>4 DEF AssessFrame
  <2> QED  BY <2>1 DEF ScalarRun, ScalarKeys
<1> HIDE DEF result
<1> QED  BY <1>2, <1>3, <1>4, AssessedIs DEF result

(* The local owner.  A history of consecutive steps, and the track it is of.*)
Followed(h) ==
  /\ IsSequence(h) /\ h # <<>>
  /\ \A j \in 1 .. Len(h) - 1 :
       /\ h[j + 1].step = h[j].step + 1 /\ h[j + 1].seq = h[j].seq + 1
       /\ h[j + 1].sensor = h[j].sensor

StandsAt(track, h) ==
  /\ track.monitor.state = "Active"
  /\ track.monitor.seq = h[Len(h)].seq /\ track.source.sensor = h[Len(h)].sensor

Formed(track) == DOMAIN track = TrackFields /\ Monitored(track)

(* A step that failed half-way left a track that refuses its result: the    *)
(* monitor is lost, or has had that sample.                                 *)
Stuck ==
  /\ torn.step = native.completed + 1
  /\ \E i \in DOMAIN Entities :
       LET m == native.tracks[i].monitor  source == torn.innovations[i].source IN
       /\ native.tracks[i].pc = "active" /\ source # None
       /\ \/ m.state = "Retired"
          \/ m.state = "Active" /\ m.seq \in Int /\ m.seq = source.seq

NativeRun ==
  /\ DOMAIN native = NativeFields /\ native.completed \in Nat
  /\ native.pc # "prepared" => DOMAIN accepted = {} /\ torn = None
  /\ native.pc = "prepared" =>
       /\ DOMAIN native.tracks = DOMAIN Entities
       /\ \A i \in DOMAIN Entities : Formed(native.tracks[i])
       /\ DOMAIN accepted = {i \in DOMAIN Entities : Live(native.tracks[i])}
       /\ \A i \in DOMAIN accepted :
            /\ Followed(accepted[i]) /\ StandsAt(native.tracks[i], accepted[i])
            /\ accepted[i][Len(accepted[i])].step \in
                 {native.completed} \cup (IF torn = None THEN {} ELSE {torn.step})
       /\ torn # None => Stuck

(* What one entity of a step comes to: nothing to measure, a sample, which  *)
(* may yet not be reported, or a window that took none and is lost.         *)
Rests(a) == a.track.pc # "active" /\ ~a.failed
Gives(a, track, innovation) ==
  /\ a.given /\ Live(a.track) /\ a.track.monitor.state = "Active"
  /\ innovation.source # None /\ a.track.monitor.seq = innovation.source.seq
  /\ a.track.source.sensor = innovation.source.sensor
  /\ track.pc = "active" =>
       /\ track.monitor.state # "Retired" /\ a.track.source = track.source
       /\ track.monitor.state = "Active" => innovation.source.seq = track.monitor.seq + 1
Fails(a, innovation) ==
  /\ a.failed /\ a.track.pc = "active" /\ a.track.monitor.state = "Retired"
  /\ innovation.source # None

LEMMA NoFrameError ==
  ASSUME NEW m, NEW frame, FrameError(m, frame) = None
  PROVE  StageError(m, frame) = None /\ PositionError(m, frame) = None /\ m.state # "Retired"
<1>1. StageError(m, frame) = None /\ PositionError(m, frame) = None
  BY DEF FrameError
<1> QED  BY <1>1, AbsenceAssumption DEF StageError

LEMMA OpenedFormed == \A source : Formed(Opened(source)) /\ Opened(source).pc = "active"
<1> SUFFICES ASSUME NEW source PROVE Formed(Opened(source)) /\ Opened(source).pc = "active"
  OBVIOUS
<1> DEFINE m == Prepare(source.track, source.seq, <<[modality |-> Visual, dof |-> VisualDof]>>)
<1>1. DOMAIN m = MonitorFields
  BY DEF Prepare, MonitorFields
<1> HIDE DEF m
<1>2. Opened(source) = [pc |-> "active", source |-> [sensor |-> source.sensor, track |-> source.track],
                        monitor |-> m]
  BY DEF Opened, m
<1> QED  BY <1>1, <1>2 DEF Formed, Monitored, TrackFields

LEMMA TrackMoves ==
  ASSUME NEW track, Formed(track), NEW innovation, NEW time, NEW fault,
         Admissible(track, innovation, time),
         NEW a, a = TrackAfter(track, innovation, time, fault)
  PROVE  /\ Formed(a.track)
         /\ Rests(a) \/ Gives(a, track, innovation) \/ Fails(a, innovation)
<1> DEFINE met == Met(track, innovation)
           frame == FrameOf(innovation, time)
           result == Assessed(met.monitor, frame, Failing(fault))
<1>1. Formed(met)
  BY OpenedFormed DEF Met
<1>2. met.pc = "active" => met = track \/ (met = Opened(innovation.source) /\ track.pc = "waiting")
  BY DEF Met, Opens
<1>3. CASE met.pc # "active"
  <2>1. a = [track |-> met, failed |-> FALSE, given |-> FALSE]
    BY <1>3 DEF TrackAfter
  <2> QED  BY <1>1, <1>3, <2>1 DEF Rests
<1>4. CASE met.pc = "active" /\ (innovation.source = None \/ result.answer = "Unavailable")
  <2>1. a = [track |-> Retired, failed |-> FALSE, given |-> FALSE]
    BY <1>4 DEF TrackAfter
  <2> QED  BY <2>1 DEF Rests, Retired, Formed, Monitored, TrackFields
<1>5. CASE met.pc = "active" /\ innovation.source # None /\ result.answer # "Unavailable"
  <2>1. a = [track  |-> [met EXCEPT !.monitor = result.monitor],
             failed |-> result.answer # "Report" \/ fault = "output",
             given  |-> result.answer = "Report"]
    BY <1>5 DEF TrackAfter
  <2>2. /\ met.source.sensor = innovation.source.sensor
        /\ FrameError(met.monitor, frame) = None
    BY <1>5 DEF Admissible
  <2>3. /\ StageError(met.monitor, frame) = None /\ PositionError(met.monitor, frame) = None
        /\ met.monitor.state # "Retired"
    BY <2>2, NoFrameError
  <2>4. frame.seq = innovation.source.seq
    BY DEF FrameOf
  <2>5. DOMAIN met = TrackFields /\ DOMAIN met.monitor = MonitorFields
    BY <1>1, <1>5 DEF Formed, Monitored
  <2>6. track.pc = "active" => met = track
    BY <1>2, <1>5
  <2>7. /\ a.failed <=> (result.answer # "Report" \/ fault = "output")
        /\ a.given <=> result.answer = "Report"
        /\ a.track = [met EXCEPT !.monitor = result.monitor]
    <3>1. \A x, y, z : /\ [track |-> x, failed |-> y, given |-> z].track = x
                       /\ [track |-> x, failed |-> y, given |-> z].failed = y
                       /\ [track |-> x, failed |-> y, given |-> z].given = z
      OBVIOUS
    <3> HIDE DEF met, result, frame
    <3> QED  BY ONLY <2>1, <3>1, Zenon
  <2>8. /\ DOMAIN a.track = TrackFields /\ a.track.monitor = result.monitor
        /\ a.track.pc = "active" /\ a.track.source = met.source
    <3>1. \A r, x : DOMAIN r = {"pc", "monitor", "source"} =>
            /\ DOMAIN [r EXCEPT !.monitor = x] = {"pc", "monitor", "source"}
            /\ [r EXCEPT !.monitor = x].monitor = x
            /\ [r EXCEPT !.monitor = x].pc = r.pc
            /\ [r EXCEPT !.monitor = x].source = r.source
      OBVIOUS
    <3> HIDE DEF met, result, frame
    <3> QED  BY ONLY <1>5, <2>5, <2>7, <3>1 DEF TrackFields
  <2> HIDE DEF met, result, frame
  <2>9. CASE /\ result.answer = "Report"
             /\ result.monitor = Advanced(met.monitor, frame,
                                          IngestedFrame(met.monitor, frame, Failing(fault).storage))
    <3>1. /\ DOMAIN result.monitor = MonitorFields /\ result.monitor.state = "Active"
          /\ result.monitor.seq = frame.seq
      BY <2>5, <2>9 DEF Advanced, MonitorFields
    <3>2. met.monitor.state = "Active" => frame.seq = met.monitor.seq + 1
      BY <2>3, AbsenceAssumption DEF PositionError
    <3>3. Gives(a, track, innovation)
      BY <1>5, <2>2, <2>3, <2>4, <2>6, <2>7, <2>8, <2>9, <3>1, <3>2 DEF Gives, Live
    <3> QED  BY <2>8, <3>1, <3>3 DEF Formed, Monitored
  <2>10. CASE result.answer # "Report" /\ result.monitor = Retire(met.monitor)
    <3>1. DOMAIN result.monitor = MonitorFields /\ result.monitor.state = "Retired"
      BY <2>5, <2>10 DEF Retire, MonitorFields
    <3> QED  BY <1>5, <2>7, <2>8, <2>10, <3>1 DEF Fails, Formed, Monitored
  <2> QED  BY <2>3, <2>9, <2>10, AssessedIs DEF result
<1> QED  BY <1>3, <1>4, <1>5

(* A sample more, of the next step and the next number, or a first one.     *)
LEMMA HistoryGrows ==
  ASSUME NEW a, NEW track, NEW innovation, Gives(a, track, innovation),
         NEW completed \in Nat, NEW past, NEW x,
         \/ past = <<>>
         \/ /\ Live(track) /\ Followed(past) /\ StandsAt(track, past)
            /\ past[Len(past)].step = completed,
         x.seq = innovation.source.seq, x.sensor = innovation.source.sensor,
         x.step = completed + 1
  PROVE  /\ Followed(Append(past, x)) /\ StandsAt(a.track, Append(past, x))
         /\ Append(past, x)[Len(Append(past, x))].step = completed + 1
<1> DEFINE h == Append(past, x)
<1>1. IsSequence(past)
  BY NothingRuns DEF Followed
<1>2. /\ IsSequence(h) /\ h # <<>> /\ Len(past) \in Nat /\ DOMAIN past = 1 .. Len(past)
      /\ Len(h) = Len(past) + 1 /\ h[Len(past) + 1] = x
      /\ \A i \in 1 .. Len(past) : h[i] = past[i]
  BY <1>1, RunGrows
<1> HIDE DEF h
<1>3. StandsAt(a.track, h) /\ h[Len(h)].step = completed + 1
  BY <1>2 DEF StandsAt, Gives
<1>4. ASSUME NEW j \in 1 .. Len(h) - 1
      PROVE  /\ h[j + 1].step = h[j].step + 1 /\ h[j + 1].seq = h[j].seq + 1
             /\ h[j + 1].sensor = h[j].sensor
  <2>1. j \in 1 .. Len(past) /\ h[j] = past[j]
    BY <1>2
  <2>2. past # <<>>
    BY <2>1, NothingRuns
  <2>3. /\ Live(track) /\ Followed(past) /\ StandsAt(track, past)
        /\ past[Len(past)].step = completed
    BY <2>2
  <2>4. CASE j = Len(past)
    <3>1. x.seq = track.monitor.seq + 1 /\ x.sensor = track.source.sensor
      BY <2>3 DEF Gives, StandsAt, Live
    <3> QED  BY <1>2, <2>1, <2>3, <2>4, <3>1 DEF StandsAt
  <2>5. CASE j # Len(past)
    <3>1. j \in 1 .. Len(past) - 1 /\ j + 1 \in 1 .. Len(past) /\ h[j + 1] = past[j + 1]
      BY <1>2, <2>1, <2>5
    <3> QED  BY <2>1, <2>3, <3>1 DEF Followed
  <2> QED  BY <2>4, <2>5
<1>5. Followed(h)
  BY <1>2, <1>4 DEF Followed
<1> QED  BY <1>3, <1>5 DEF h

(* What the owner does with a body result, the parts named.                 *)
StepTaken(result, after, moved, live) ==
  /\ DOMAIN after = DOMAIN Entities
  /\ \A i \in DOMAIN Entities : \E fault :
       after[i] = TrackAfter(native.tracks[i], result.innovations[i], result.time, fault)
  /\ moved = {i \in DOMAIN Entities : \A j \in DOMAIN Entities : j < i => ~after[j].failed}
  /\ DOMAIN native' = DOMAIN native /\ native'.pc = "prepared"
  /\ native'.completed = CompletedAfter(after, result.step)
  /\ DOMAIN native'.tracks = DOMAIN Entities
  /\ \A i \in DOMAIN Entities :
       native'.tracks[i] = IF i \in moved THEN after[i].track ELSE native.tracks[i]
  /\ live = {i \in DOMAIN Entities : Live(native'.tracks[i])}
  /\ DOMAIN accepted' = live
  /\ \A i \in live : \E x :
       /\ x.seq = result.innovations[i].source.seq
       /\ x.sensor = result.innovations[i].source.sensor
       /\ x.step = result.step /\ x.time = result.time \div Grain
       /\ x.nis = result.innovations[i].nis
       /\ LET past == IF i \in DOMAIN accepted THEN accepted[i] ELSE <<>> IN
          accepted'[i] = IF i \in moved /\ after[i].given THEN Append(past, x) ELSE past
  /\ torn' = IF \E i \in DOMAIN after : after[i].failed THEN result ELSE torn

LEMMA StepIsTaken ==
  ASSUME NativeRun, NEW result \in Results, NEW faults, AssessStep(result, faults)
  PROVE  \E after, moved, live : StepTaken(result, after, moved, live)
<1> DEFINE after == [i \in DOMAIN Entities |->
                      TrackAfter(native.tracks[i], result.innovations[i], result.time, faults[i])]
           moved == Reached(after)
           next(i) == IF i \in moved THEN after[i].track ELSE native.tracks[i]
           live  == {i \in DOMAIN Entities : next(i).pc = "active"
                                             /\ next(i).monitor.state # "Retired"}
           x(i) == [seq |-> result.innovations[i].source.seq, time |-> result.time \div Grain,
                    nis |-> result.innovations[i].nis, step |-> result.step,
                    sensor |-> result.innovations[i].source.sensor]
           past(i) == IF i \in DOMAIN accepted THEN accepted[i] ELSE <<>>
<1>1. /\ native.pc = "prepared"
      /\ native' = [native EXCEPT !.tracks = [i \in DOMAIN Entities |-> next(i)],
                                  !.completed = CompletedAfter(after, result.step)]
      /\ accepted' = [i \in live |-> IF i \in moved /\ after[i].given
                                     THEN Append(past(i), x(i)) ELSE past(i)]
      /\ torn' = IF \E i \in DOMAIN after : after[i].failed THEN result ELSE torn
  BY DEF AssessStep
<1>2. DOMAIN native = NativeFields
  BY DEF NativeRun
<1>3. /\ DOMAIN after = DOMAIN Entities
      /\ \A i \in DOMAIN Entities : \E s :
           after[i] = TrackAfter(native.tracks[i], result.innovations[i], result.time, s)
  OBVIOUS
<1>4. moved = {i \in DOMAIN Entities : \A j \in DOMAIN Entities : j < i => ~after[j].failed}
  BY <1>3 DEF Reached
<1>5. \A i : /\ x(i).seq = result.innovations[i].source.seq
             /\ x(i).sensor = result.innovations[i].source.sensor /\ x(i).step = result.step
             /\ x(i).time = result.time \div Grain /\ x(i).nis = result.innovations[i].nis
  OBVIOUS
<1> HIDE DEF after, moved, x
<1>6. \A a, b : LET r == [native EXCEPT !.tracks = a, !.completed = b] IN
        /\ DOMAIN r = DOMAIN native /\ r.pc = native.pc /\ r.completed = b /\ r.tracks = a
  BY <1>2 DEF NativeFields
<1>7. /\ DOMAIN native' = DOMAIN native /\ native'.pc = "prepared"
      /\ native'.completed = CompletedAfter(after, result.step)
      /\ native'.tracks = [i \in DOMAIN Entities |-> next(i)]
  BY <1>1, <1>6
<1>8. live = {i \in DOMAIN Entities : Live(native'.tracks[i])}
  BY <1>7 DEF Live
<1> HIDE DEF live
<1>9. StepTaken(result, after, moved, live)
  BY <1>1, <1>3, <1>4, <1>5, <1>7, <1>8 DEF StepTaken
<1> QED  BY <1>9

LEMMA EntitiesCount == DOMAIN Entities \subseteq Nat
BY OwnersAssumption

LEMMA NativeStep ==
  ASSUME NativeRun, NEW result \in Results, NEW faults, AssessStep(result, faults)
  PROVE  NativeRun'
<1>1. PICK after, moved, live : StepTaken(result, after, moved, live)
  BY StepIsTaken
<1>2. /\ native.pc = "prepared" /\ (torn # None /\ torn.step = result.step => result = torn)
      /\ result.step = native.completed + 1 /\ native.completed \in Nat
      /\ \A i \in DOMAIN Entities :
           Admissible(native.tracks[i], result.innovations[i], result.time)
  BY DEF AssessStep, NativeRun
<1>3. /\ \A i \in DOMAIN Entities : Formed(native.tracks[i])
      /\ DOMAIN accepted = {i \in DOMAIN Entities : Live(native.tracks[i])}
      /\ \A i \in DOMAIN accepted :
           /\ Followed(accepted[i]) /\ StandsAt(native.tracks[i], accepted[i])
           /\ accepted[i][Len(accepted[i])].step \in
                {native.completed} \cup (IF torn = None THEN {} ELSE {torn.step})
      /\ torn # None => Stuck
  BY <1>2 DEF NativeRun
<1>4. \A i \in DOMAIN Entities :
        /\ Formed(after[i].track)
        /\ \/ Rests(after[i]) \/ Gives(after[i], native.tracks[i], result.innovations[i])
           \/ Fails(after[i], result.innovations[i])
  <2> SUFFICES ASSUME NEW i \in DOMAIN Entities
               PROVE  /\ Formed(after[i].track)
                      /\ \/ Rests(after[i])
                         \/ Gives(after[i], native.tracks[i], result.innovations[i])
                         \/ Fails(after[i], result.innovations[i])
    OBVIOUS
  <2>1. PICK s : after[i] = TrackAfter(native.tracks[i], result.innovations[i], result.time, s)
    BY <1>1 DEF StepTaken
  <2>2. /\ Formed(native.tracks[i])
        /\ Admissible(native.tracks[i], result.innovations[i], result.time)
    BY <1>2, <1>3
  <2> QED  BY <2>1, <2>2, TrackMoves
(* A track that a failed step has retired refuses that step's result.       *)
<1>5. torn = None
  <2> SUFFICES ASSUME torn # None PROVE FALSE
    OBVIOUS
  <2>1. Stuck
    BY <1>3
  <2>2. result = torn
    BY <1>2, <2>1 DEF Stuck
  <2>3. PICK i \in DOMAIN Entities :
          /\ native.tracks[i].pc = "active" /\ result.innovations[i].source # None
          /\ \/ native.tracks[i].monitor.state = "Retired"
             \/ /\ native.tracks[i].monitor.state = "Active"
                /\ native.tracks[i].monitor.seq \in Int
                /\ native.tracks[i].monitor.seq = result.innovations[i].source.seq
    BY <2>1, <2>2 DEF Stuck
  <2>4. Met(native.tracks[i], result.innovations[i]) = native.tracks[i]
    BY <2>3 DEF Met, Opens
  <2>5. FrameError(native.tracks[i].monitor, FrameOf(result.innovations[i], result.time)) = None
    BY <1>2, <2>3, <2>4 DEF Admissible
  <2> DEFINE m == native.tracks[i].monitor
             frame == FrameOf(result.innovations[i], result.time)
  <2>6. PositionError(m, frame) = None /\ m.state # "Retired"
    BY <2>5, NoFrameError
  <2>7. frame.seq = result.innovations[i].source.seq
    BY DEF FrameOf
  <2> HIDE DEF m, frame
  <2>8. m.state = "Active" /\ m.seq \in Int /\ frame.seq = m.seq
    BY <2>3, <2>6, <2>7 DEF m
  <2>9. frame.seq = m.seq + 1
    BY <2>6, <2>8, AbsenceAssumption DEF PositionError
  <2> QED  BY <2>8, <2>9
<1>6. \A i \in DOMAIN Entities : Formed(native'.tracks[i])
  BY <1>1, <1>3, <1>4 DEF StepTaken
<1>7. /\ DOMAIN native' = NativeFields /\ native'.pc = "prepared"
      /\ DOMAIN native'.tracks = DOMAIN Entities
      /\ DOMAIN accepted' = {i \in DOMAIN Entities : Live(native'.tracks[i])}
  BY <1>1 DEF StepTaken, NativeRun
(* What a track that is live after the step has been given.                 *)
<1>8. ASSUME NEW i \in DOMAIN accepted'
      PROVE  /\ Followed(accepted'[i]) /\ StandsAt(native'.tracks[i], accepted'[i])
             /\ accepted'[i][Len(accepted'[i])].step =
                  IF i \in moved THEN result.step ELSE native.completed
  <2> DEFINE past == IF i \in DOMAIN accepted THEN accepted[i] ELSE <<>>
  <2>1. i \in DOMAIN Entities /\ Live(native'.tracks[i])
    BY <1>7
  <2>2. PICK x : /\ x.seq = result.innovations[i].source.seq
                 /\ x.sensor = result.innovations[i].source.sensor
                 /\ x.step = result.step
                 /\ accepted'[i] = IF i \in moved /\ after[i].given
                                   THEN Append(past, x) ELSE past
    BY <1>1 DEF StepTaken
  <2>3. CASE i \in moved
    <3>1. native'.tracks[i] = after[i].track
      BY <1>1, <2>1, <2>3 DEF StepTaken
    <3>2. Gives(after[i], native.tracks[i], result.innovations[i])
      BY <1>4, <2>1, <3>1 DEF Rests, Fails, Live
    <3>3. accepted'[i] = Append(past, x)
      BY <2>2, <2>3, <3>2 DEF Gives
    <3>4. \/ past = <<>>
          \/ /\ Live(native.tracks[i]) /\ Followed(past) /\ StandsAt(native.tracks[i], past)
             /\ past[Len(past)].step = native.completed
      BY <1>3, <1>5
    <3> HIDE DEF past
    <3> QED  BY <1>2, <2>2, <2>3, <3>1, <3>2, <3>3, <3>4, HistoryGrows
  <2>4. CASE i \notin moved
    <3>1. native'.tracks[i] = native.tracks[i] /\ accepted'[i] = past
      BY <1>1, <2>1, <2>2, <2>4 DEF StepTaken
    <3>2. i \in DOMAIN accepted /\ past = accepted[i]
      BY <1>3, <2>1, <3>1
    <3> QED  BY <1>3, <1>5, <2>4, <3>1, <3>2
  <2> QED  BY <2>3, <2>4
<1>9. CASE \A i \in DOMAIN after : ~after[i].failed
  <2>1. /\ moved = DOMAIN Entities /\ torn' = None /\ native'.completed = result.step
    BY <1>1, <1>5, <1>9 DEF StepTaken, CompletedAfter
  <2>2. native'.completed \in Nat
    BY <1>2, <2>1
  <2>3. \A i \in DOMAIN accepted' :
          accepted'[i][Len(accepted'[i])].step \in
            {native'.completed} \cup (IF torn' = None THEN {} ELSE {torn'.step})
    BY <1>7, <1>8, <2>1
  <2> QED  BY <1>6, <1>7, <1>8, <2>1, <2>2, <2>3 DEF NativeRun
<1>10. CASE \E i \in DOMAIN after : after[i].failed
  <2>1. torn' = result /\ native'.completed = native.completed
    BY <1>1, <1>10 DEF StepTaken, CompletedAfter
  <2>2. torn' # None
    BY <2>1, AbsenceAssumption
  <2>3. PICK k \in DOMAIN Entities :
          after[k].failed /\ \A j \in DOMAIN Entities : j < k => ~after[j].failed
    <3> DEFINE S == {i \in DOMAIN Entities : after[i].failed}
    <3>1. S # {} /\ S \in SUBSET Nat
      BY <1>1, <1>10, EntitiesCount DEF StepTaken
    <3>2. PICK k \in S : \A j \in S : k <= j
      BY <3>1, Numbers!LeastNat
    <3>3. ASSUME NEW j \in DOMAIN Entities, j < k PROVE ~after[j].failed
      BY <3>1, <3>2, <3>3, EntitiesCount
    <3> QED  BY <3>2, <3>3
  <2>4. k \in moved /\ native'.tracks[k] = after[k].track
    BY <1>1, <2>3 DEF StepTaken
  <2>5. \/ Fails(after[k], result.innovations[k])
        \/ Gives(after[k], native.tracks[k], result.innovations[k])
    BY <1>4, <2>3 DEF Rests
  <2>6. Stuck'
    <3> DEFINE source == result.innovations[k].source
    <3>1. source # None /\ after[k].track.pc = "active"
      BY <2>5 DEF Fails, Gives, Live
    <3>2. \/ after[k].track.monitor.state = "Retired"
          \/ /\ after[k].track.monitor.state = "Active"
             /\ after[k].track.monitor.seq \in Int
             /\ after[k].track.monitor.seq = source.seq
      <4>1. source # None => source.seq \in Int
        BY ValuesAssumption DEF Results
      <4> QED  BY <2>5, <3>1, <4>1 DEF Fails, Gives
    <3> QED  BY <1>2, <2>1, <2>4, <3>1, <3>2 DEF Stuck
  <2>7. \A i \in DOMAIN accepted' :
          accepted'[i][Len(accepted'[i])].step \in
            {native'.completed} \cup (IF torn' = None THEN {} ELSE {torn'.step})
    BY <1>8, <2>1, <2>2
  <2>8. native'.completed \in Nat
    BY <1>2, <2>1
  <2> QED  BY <1>6, <1>7, <1>8, <2>6, <2>7, <2>8 DEF NativeRun
<1> QED  BY <1>9, <1>10

-----------------------------------------------------------------------------
RunInv == (owner = "scalar" => ScalarRun) /\ (owner = "native" => NativeRun)

LEMMA RunStarts == Init => RunInv
<1> SUFFICES ASSUME Init PROVE ScalarRun /\ NativeRun
  BY DEF RunInv
<1>1. DOMAIN accepted = {}
  BY DEF Init, Nothing
<1>2. ScalarRun
  BY <1>1 DEF Init, ScalarRun, Prepare, MonitorFields
<1>3. NativeRun
  BY <1>1 DEF Init, NativeRun, NativeFields
<1> QED  BY <1>2, <1>3

LEMMA RunStep == RunInv /\ [Next]_vars => RunInv'
<1> SUFFICES ASSUME RunInv, [Next]_vars PROVE RunInv'
  OBVIOUS
<1>1. ASSUME Bare, owner' = owner PROVE RunInv'
  BY <1>1 DEF Bare, RunInv
<1>2. ASSUME NEW frame \in Frames, NEW failing, AssessFrame(frame, failing) PROVE RunInv'
  <2>1. owner = "scalar" /\ owner' = "scalar"
    BY <1>2 DEF AssessFrame
  <2>2. ScalarRun'
    BY <1>2, <2>1, ScalarStep DEF RunInv
  <2> QED  BY <2>1, <2>2 DEF RunInv
<1>3. ASSUME PrepareRun PROVE RunInv'
  <2>1. owner = "native" /\ owner' = "native" /\ UNCHANGED <<accepted, torn>>
    BY <1>3 DEF PrepareRun, NativeFrame
  <2>2. NativeRun /\ DOMAIN accepted = {} /\ torn = None
    BY <1>3, <2>1 DEF PrepareRun, RunInv, NativeRun
  <2>3. /\ DOMAIN native' = NativeFields /\ native'.pc = "prepared"
        /\ native'.completed = native.completed
        /\ native'.tracks = [i \in DOMAIN Entities |-> Waiting]
    BY <1>3, <2>2 DEF PrepareRun, NativeRun, NativeFields
  <2>4. Formed(Waiting) /\ ~Live(Waiting)
    BY DEF Formed, Monitored, Live, Waiting, TrackFields
  <2>5. NativeRun'
    BY <2>1, <2>2, <2>3, <2>4 DEF NativeRun
  <2> QED  BY <2>1, <2>5 DEF RunInv
<1>4. ASSUME NEW result \in Results, NEW faults, AssessStep(result, faults) PROVE RunInv'
  <2>1. owner = "native" /\ owner' = "native"
    BY <1>4 DEF AssessStep, NativeFrame
  <2>2. NativeRun'
    BY <1>4, <2>1, NativeStep DEF RunInv
  <2> QED  BY <2>1, <2>2 DEF RunInv
<1>5. ASSUME EndRun PROVE RunInv'
  <2>1. owner = "native" /\ owner' = "native"
    BY <1>5 DEF EndRun, NativeFrame
  <2>2. NativeRun'
    BY <1>5 DEF EndRun, NativeRun, NativeFields, Nothing
  <2> QED  BY <2>1, <2>2 DEF RunInv
<1>6. CASE UNCHANGED vars
  <2>1. UNCHANGED <<owner, monitor, native, accepted, torn>>
    BY <1>6 DEF vars
  <2> QED  BY <2>1 DEF RunInv, ScalarRun, ScalarKeys, NativeRun, Stuck
<1>7. CASE \E obs \in Observations : Ingest(obs)
  BY <1>1, <1>7 DEF Ingest, BareFrame
<1>8. CASE \E t \in Tracks : RemoveTrack(t)
  BY <1>1, <1>8 DEF RemoveTrack, BareFrame
<1>9. CASE Clear
  BY <1>1, <1>9 DEF Clear, BareFrame
<1> QED  BY <1>2, <1>3, <1>4, <1>5, <1>6, <1>7, <1>8, <1>9 DEF Next

LEMMA RunsAreUnbroken == RunInv => RunsUnbroken
<1> SUFFICES ASSUME RunInv PROVE RunsUnbroken
  OBVIOUS
<1>1. ASSUME owner = "scalar"
      PROVE  \A c, d \in DOMAIN accepted :
               /\ Len(accepted[c]) = Len(accepted[d])
               /\ \A i \in DOMAIN accepted[c] :
                    /\ accepted[c][i].seq = First + i - 1
                    /\ accepted[c][i].time = accepted[d][i].time
  <2>1. ScalarRun
    BY <1>1 DEF RunInv
  <2> SUFFICES ASSUME NEW c \in DOMAIN accepted, NEW d \in DOMAIN accepted
               PROVE  /\ Len(accepted[c]) = Len(accepted[d])
                      /\ \A i \in DOMAIN accepted[c] :
                           /\ accepted[c][i].seq = First + i - 1
                           /\ accepted[c][i].time = accepted[d][i].time
    OBVIOUS
  <2>2. /\ c \in ScalarKeys /\ d \in ScalarKeys
        /\ Level(accepted[c], monitor.seq) /\ Level(accepted[d], monitor.seq)
        /\ \A i \in DOMAIN accepted[c] : accepted[c][i].time = accepted[d][i].time
    BY <2>1 DEF ScalarRun
  <2> QED  BY <2>2 DEF Level
<1>2. ASSUME owner = "native"
      PROVE  /\ torn # None => native.completed = torn.step - 1
             /\ \A i \in DOMAIN accepted :
                  /\ Last(accepted[i]).step \in
                       {native.completed} \cup (IF torn = None THEN {} ELSE {torn.step})
                  /\ \A j \in 1 .. Len(accepted[i]) - 1 :
                       /\ accepted[i][j + 1].step = accepted[i][j].step + 1
                       /\ accepted[i][j + 1].seq = accepted[i][j].seq + 1
                       /\ accepted[i][j + 1].sensor = accepted[i][j].sensor
  <2>1. NativeRun
    BY <1>2 DEF RunInv
  <2>2. CASE native.pc # "prepared"
    BY <2>1, <2>2 DEF NativeRun
  <2>3. CASE native.pc = "prepared"
    <3>1. torn # None => native.completed = torn.step - 1
      BY <2>1, <2>3 DEF NativeRun, Stuck
    <3>2. ASSUME NEW i \in DOMAIN accepted
          PROVE  /\ Followed(accepted[i])
                 /\ accepted[i][Len(accepted[i])].step \in
                      {native.completed} \cup (IF torn = None THEN {} ELSE {torn.step})
      BY <2>1, <2>3 DEF NativeRun
    <3> QED  BY <3>1, <3>2 DEF Followed, Last
  <2> QED  BY <2>2, <2>3
<1> QED  BY <1>1, <1>2 DEF RunsUnbroken

(* Nothing a window is given behind the adapter or in the local owner, in   *)
(* any order of frames and body results (assess_frame, assess), leaves a    *)
(* hole in it or carries it past a step that was never completed.           *)
THEOREM RunsAlwaysUnbroken == Spec => []RunsUnbroken
<1>1. Spec => []RunInv
  BY RunStarts, RunStep, PTL DEF Spec
<1> QED  BY <1>1, RunsAreUnbroken, PTL

-----------------------------------------------------------------------------
(* Sums, and the frame of an adapter, as the turns of a loop.               *)
Plus(sum, addend, context) == sum + addend

Sums == INSTANCE FoldFacts WITH Step <- Plus

LEMMA TotalIsFold == \A w : Total(w) = Sums!Fold(0, w, None)
BY DEF Total, Sums!Fold, Plus, FoldLeft, MapThenFoldSet, Max, Sums!FoldLeft,
       Sums!MapThenFoldSet, Sums!Max

LEMMA TotalAppend ==
  ASSUME NEW s \in Seq(Int), NEW v \in Int
  PROVE  Total(Append(s, v)) = Total(s) + v
BY TotalIsFold, Sums!FoldAppend DEF Plus

LEMMA TotalNothing == Total(<<>>) = 0
BY TotalIsFold, Sums!FoldEmpty

LEMMA TotalType ==
  ASSUME NEW s \in Seq(Int)
  PROVE  Total(s) \in Int
<1>1. PICK h : Sums!IsRun(h, 0, s, None) /\ Sums!Fold(0, s, None) = h[Len(s)]
  BY Sums!FoldRuns
<1>2. h[0] = 0 /\ \A i \in 1 .. Len(s) : h[i] = h[i - 1] + s[i]
  BY <1>1 DEF Sums!IsRun, Plus
<1> DEFINE Typed == {i \in Nat : i <= Len(s) => h[i] \in Int}
<1>3. 0 \in Typed
  BY <1>2
<1>4. ASSUME NEW i \in Nat, i \in Typed PROVE i + 1 \in Typed
  <2> SUFFICES ASSUME i + 1 <= Len(s) PROVE h[i + 1] \in Int
    OBVIOUS
  <2>1. i + 1 \in 1 .. Len(s) /\ (i + 1) - 1 = i /\ h[i] \in Int /\ s[i + 1] \in Int
    BY <1>4
  <2> QED  BY <1>2, <2>1
<1> HIDE DEF Typed
<1>5. Len(s) \in Typed
  BY <1>3, <1>4, Sums!Induction
<1>6. Len(s) \in Nat
  OBVIOUS
<1> QED  BY <1>1, <1>5, <1>6, TotalIsFold DEF Typed

(* The top of a set of numbers is its maximum.                              *)
TopOf(v, S) == v \in S /\ \A s \in S : s <= v

LEMMA TopIsMax ==
  ASSUME NEW S \in SUBSET Int, NEW v, TopOf(v, S)
  PROVE  Max(S) = v
<1>1. \A x \in S : (\A y \in S : x >= y) <=> x = v
  BY DEF TopOf
<1>2. v \in S
  BY DEF TopOf
<1> QED  BY <1>1, <1>2 DEF Max

LEMMA PositiveIs == \A x \in Int : Positive(x) = IF x >= 0 THEN x ELSE 0
<1> SUFFICES ASSUME NEW x \in Int PROVE Positive(x) = IF x >= 0 THEN x ELSE 0
  OBVIOUS
<1>1. {x, 0} \in SUBSET Int /\ TopOf(IF x >= 0 THEN x ELSE 0, {x, 0})
  BY DEF TopOf
<1> QED  BY <1>1, TopIsMax DEF Positive

LEMMA MinOfTwo == \A a, b \in Int : Min({a, b}) = IF a <= b THEN a ELSE b
BY DEF Min

-----------------------------------------------------------------------------
(* A history of numbers.                                                    *)
Numbered(h) ==
  /\ IsSequence(h)
  /\ \A i \in DOMAIN h : h[i].nis \in Int /\ h[i].seq \in Int /\ h[i].time \in Int

Deviations(h, i, dof) == [j \in 1 .. Len(h) - i + 1 |-> h[i + j - 1].nis - dof]

(* What LargestRun takes the maximum of.                                    *)
Excess(h, i, sign, dof) == sign * Drift(h, i, dof) - (Len(h) - i + 1) * Slack(dof)
Rises(h, sign, dof) == {0} \cup {Excess(h, i, sign, dof) : i \in DOMAIN h}

LEMMA DeviationsGrow ==
  ASSUME NEW h, Numbered(h), NEW dof \in Int, NEW x, x.nis \in Int,
         NEW i \in 1 .. Len(h) + 1
  PROVE  /\ Deviations(h, i, dof) \in Seq(Int)
         /\ Deviations(Append(h, x), i, dof) = Append(Deviations(h, i, dof), x.nis - dof)
<1> DEFINE g == Append(h, x)
           n == Len(h)
           d == Deviations(h, i, dof)
           e == Deviations(g, i, dof)
<1>1. /\ n \in Nat /\ DOMAIN h = 1 .. n /\ Len(g) = n + 1 /\ g[n + 1] = x
      /\ \A k \in 1 .. n : g[k] = h[k]
  <2>1. IsSequence(h)
    BY DEF Numbered
  <2> QED  BY ONLY <2>1, RunGrows
<1>2. \A k \in 1 .. n : h[k].nis \in Int
  BY <1>1 DEF Numbered
<1> HIDE DEF g, n
<1>3. \A j \in 1 .. n - i + 1 : i + j - 1 \in 1 .. n
  BY <1>1
<1>4. d = [j \in 1 .. n - i + 1 |-> h[i + j - 1].nis - dof]
  BY DEF Deviations, n
<1>5. e = [j \in 1 .. (n - i + 1) + 1 |-> g[i + j - 1].nis - dof]
  <2>1. (n + 1) - i + 1 = (n - i + 1) + 1
    BY <1>1
  <2> QED  BY <1>1, <2>1 DEF Deviations
<1> HIDE DEF d, e
<1> DEFINE m == n - i + 1
<1>6. m \in Nat
  BY <1>1 DEF n
<1>7. d \in Seq(Int) /\ Len(d) = m
  <2>1. \A j \in 1 .. m : h[i + j - 1].nis - dof \in Int
    BY <1>2, <1>3
  <2>2. d \in [1 .. m -> Int]
    BY <1>4, <2>1
  <2> HIDE DEF m
  <2> QED  BY <1>6, <2>2
<1>8. Append(d, x.nis - dof) = [j \in 1 .. m + 1 |-> IF j = m + 1 THEN x.nis - dof ELSE d[j]]
  <2> HIDE DEF m
  <2> QED  BY <1>6, <1>7
<1>9. ASSUME NEW j \in 1 .. m + 1
      PROVE  g[i + j - 1].nis - dof = IF j = m + 1 THEN x.nis - dof ELSE d[j]
  <2>1. CASE j = m + 1
    <3>1. i + j - 1 = n + 1
      BY <1>1, <2>1
    <3> QED  BY <1>1, <2>1, <3>1
  <2>2. CASE j # m + 1
    <3>1. j \in 1 .. m
      BY <1>6, <2>2
    <3>2. g[i + j - 1] = h[i + j - 1]
      BY <1>1, <1>3, <3>1
    <3> QED  BY <1>4, <2>2, <3>1, <3>2
  <2> QED  BY <2>1, <2>2
<1>10. e = Append(d, x.nis - dof)
  BY <1>5, <1>8, <1>9
<1> QED  BY <1>7, <1>10 DEF d, e, g

LEMMA DriftGrows ==
  ASSUME NEW h, Numbered(h), NEW dof \in Int, NEW x, x.nis \in Int,
         NEW i \in 1 .. Len(h) + 1
  PROVE  /\ Drift(h, i, dof) \in Int
         /\ Drift(Append(h, x), i, dof) = Drift(h, i, dof) + (x.nis - dof)
<1>1. \A g : Drift(g, i, dof) = Total(Deviations(g, i, dof))
  BY DEF Drift, Deviations
<1>2. /\ Deviations(h, i, dof) \in Seq(Int) /\ x.nis - dof \in Int
      /\ Deviations(Append(h, x), i, dof) = Append(Deviations(h, i, dof), x.nis - dof)
  BY DeviationsGrow
<1>3. Total(Deviations(h, i, dof)) \in Int
  BY <1>2, TotalType
<1>4. Total(Deviations(Append(h, x), i, dof)) = Total(Deviations(h, i, dof)) + (x.nis - dof)
  BY <1>2, TotalAppend
<1> QED  BY ONLY <1>1, <1>3, <1>4

LEMMA DriftOfNothing ==
  ASSUME NEW h, Len(h) \in Nat, NEW dof
  PROVE  Drift(h, Len(h) + 1, dof) = 0
<1>1. 1 .. Len(h) - (Len(h) + 1) + 1 = {}
  OBVIOUS
<1>2. Deviations(h, Len(h) + 1, dof) = <<>>
  BY <1>1 DEF Deviations
<1> QED  BY <1>2, TotalNothing DEF Drift, Deviations

LEMMA OneMore == \A a, b \in Int : (a + 1) * b = a * b + b /\ 0 * b = 0 /\ a * b \in Int
OBVIOUS

LEMMA ExcessGrows ==
  ASSUME NEW h, Numbered(h), NEW dof \in Int, Slack(dof) \in Int, NEW x, x.nis \in Int,
         NEW sign \in {1, -1}, NEW i \in 1 .. Len(h) + 1
  PROVE  /\ Excess(h, i, sign, dof) \in Int
         /\ Excess(Append(h, x), i, sign, dof) =
              Excess(h, i, sign, dof) + (sign * (x.nis - dof) - Slack(dof))
<1> DEFINE p == Drift(h, i, dof)
           q == Drift(Append(h, x), i, dof)
           n == Len(h)
           S == Slack(dof)
           v == x.nis - dof
<1>1. n \in Nat /\ Len(Append(h, x)) = n + 1
  <2>1. IsSequence(h)
    BY DEF Numbered
  <2> QED  BY ONLY <2>1, RunGrows
<1>2. p \in Int /\ q = p + v /\ v \in Int /\ S \in Int
  <2>1. /\ Drift(h, i, dof) \in Int
        /\ Drift(Append(h, x), i, dof) = Drift(h, i, dof) + (x.nis - dof)
    BY DriftGrows
  <2> QED  BY <2>1
<1>3. /\ Excess(h, i, sign, dof) = sign * p - (n - i + 1) * S
      /\ Excess(Append(h, x), i, sign, dof) = sign * q - ((n + 1) - i + 1) * S
  BY <1>1 DEF Excess
<1> HIDE DEF p, q, n, S, v
<1>4. (n + 1) - i + 1 = (n - i + 1) + 1 /\ n - i + 1 \in Int
  BY <1>1 DEF n
<1>5. ((n + 1) - i + 1) * S = (n - i + 1) * S + S /\ (n - i + 1) * S \in Int
  BY <1>2, <1>4, OneMore
<1> DEFINE k == (n - i + 1) * S
           l == ((n + 1) - i + 1) * S
<1>6. l = k + S /\ k \in Int
  BY <1>5
<1> HIDE DEF k, l
<1>7. sign * p - k \in Int /\ sign * q - l = (sign * p - k) + (sign * v - S)
  BY <1>2, <1>6
<1> QED  BY <1>3, <1>7 DEF k, l, v, S

LEMMA ExcessOfNothing ==
  ASSUME NEW h, Len(h) \in Nat, NEW dof, Slack(dof) \in Int, NEW sign \in {1, -1}
  PROVE  Excess(h, Len(h) + 1, sign, dof) = 0
<1>1. Drift(h, Len(h) + 1, dof) = 0 /\ Len(h) - (Len(h) + 1) + 1 = 0
  BY DriftOfNothing
<1>2. sign * 0 = 0 /\ 0 * Slack(dof) = 0
  BY OneMore
<1> QED  BY <1>1, <1>2 DEF Excess

(* Page's recursion computes the largest run.                               *)
LEMMA RisesGrow ==
  ASSUME NEW h, Numbered(h), NEW dof \in Int, Slack(dof) \in Int, NEW x, x.nis \in Int,
         NEW sign \in {1, -1}, NEW v \in Int, TopOf(v, Rises(h, sign, dof))
  PROVE  /\ Positive(v + (sign * (x.nis - dof) - Slack(dof))) \in Int
         /\ TopOf(Positive(v + (sign * (x.nis - dof) - Slack(dof))),
                  Rises(Append(h, x), sign, dof))
<1> DEFINE g == Append(h, x)
           n == Len(h)
           d == sign * (x.nis - dof) - Slack(dof)
           e(i) == Excess(h, i, sign, dof)
           f(i) == Excess(g, i, sign, dof)
           w == Positive(v + d)
<1>1. n \in Nat /\ DOMAIN h = 1 .. n /\ DOMAIN g = 1 .. n + 1
  <2>1. IsSequence(h)
    BY DEF Numbered
  <2> QED  BY ONLY <2>1, RunGrows
<1>2. \A i \in 1 .. n + 1 : e(i) \in Int /\ f(i) = e(i) + d
  BY ExcessGrows
<1>3. e(n + 1) = 0
  BY <1>1, ExcessOfNothing
<1>4. d \in Int
  OBVIOUS
<1>5. v = 0 \/ \E i \in 1 .. n : v = e(i)
  BY <1>1 DEF TopOf, Rises
<1>6. 0 <= v /\ \A i \in 1 .. n : e(i) <= v
  BY <1>1 DEF TopOf, Rises
<1>7. Rises(g, sign, dof) = {0} \cup {f(i) : i \in 1 .. n + 1}
  BY <1>1 DEF Rises
<1> HIDE DEF e, f, d, g, n
<1>8. w = (IF v + d >= 0 THEN v + d ELSE 0) /\ w \in Int
  BY <1>4, PositiveIs
<1> HIDE DEF w
<1>9. \E i \in 1 .. n + 1 : v = e(i)
  <2>1. n + 1 \in 1 .. n + 1 /\ \A i \in 1 .. n : i \in 1 .. n + 1
    BY <1>1
  <2> QED  BY <1>3, <1>5, <2>1
<1>10. w \in {0} \cup {f(i) : i \in 1 .. n + 1}
  BY <1>2, <1>8, <1>9
<1>11. \A i \in 1 .. n + 1 : e(i) <= v
  <2> SUFFICES ASSUME NEW i \in 1 .. n + 1 PROVE e(i) <= v
    OBVIOUS
  <2>1. CASE i = n + 1
    BY <1>3, <1>6, <2>1
  <2>2. CASE i # n + 1
    <3>1. i \in 1 .. n
      BY <1>1, <2>2
    <3> QED  BY <1>6, <3>1
  <2> QED  BY <2>1, <2>2
<1>12. \A i \in 1 .. n + 1 : f(i) <= w
  BY <1>2, <1>4, <1>8, <1>11
<1>13. 0 <= w
  BY <1>4, <1>8
<1>14. TopOf(w, Rises(g, sign, dof))
  BY <1>7, <1>10, <1>12, <1>13 DEF TopOf
<1> QED  BY <1>8, <1>14 DEF w, d, g

-----------------------------------------------------------------------------
(* The window is the newest samples.                                        *)
Slice(h, last, n) == [i \in 1 .. n |-> h[last - n + i].nis]
WindowOf(h) == Slice(h, Len(h), Min({WindowLen, Len(h)}))

LEMMA WindowGrows ==
  ASSUME NEW h, Numbered(h), NEW x, x.nis \in Int, NEW w, w = WindowOf(h)
  PROVE  Pushed(w, x.nis) = WindowOf(Append(h, x))
<1> DEFINE g == Append(h, x)
           k == Len(h)
           n == IF WindowLen <= k THEN WindowLen ELSE k
           m == IF WindowLen <= k + 1 THEN WindowLen ELSE k + 1
           u == IF Len(w) >= WindowLen THEN Tail(w) ELSE w
<1>1. /\ k \in Nat /\ DOMAIN h = 1 .. k /\ Len(g) = k + 1 /\ g[k + 1] = x
      /\ \A i \in 1 .. k : g[i] = h[i]
  <2>1. IsSequence(h)
    BY DEF Numbered
  <2> QED  BY ONLY <2>1, RunGrows
<1>2. \A i \in 1 .. k : h[i].nis \in Int
  BY <1>1 DEF Numbered
<1>3. WindowLen \in Nat /\ WindowLen >= 1
  BY DetectorAssumption
<1> HIDE DEF g, k
<1>4. Min({WindowLen, k}) = n /\ Min({WindowLen, k + 1}) = m
  BY <1>1, <1>3, MinOfTwo
<1>5. n \in Nat /\ m \in Nat /\ m >= 1 /\ n <= k /\ m <= k + 1 /\ (m = n \/ m = n + 1)
      /\ (n >= WindowLen <=> m = n) /\ (n < WindowLen => n = k /\ m = k + 1)
  BY <1>1, <1>3
<1>6. /\ w = [i \in 1 .. n |-> h[k - n + i].nis]
      /\ WindowOf(g) = [i \in 1 .. m |-> g[(k + 1) - m + i].nis]
  <2> HIDE DEF n, m
  <2>1. \A s, l : Len(s) = l => WindowOf(s) = Slice(s, l, Min({WindowLen, l}))
    BY DEF WindowOf
  <2>2. WindowOf(h) = Slice(h, k, Min({WindowLen, k}))
    BY <2>1 DEF k
  <2>3. WindowOf(g) = Slice(g, k + 1, Min({WindowLen, k + 1}))
    BY <1>1, <2>1
  <2>4. w = Slice(h, k, n) /\ WindowOf(g) = Slice(g, k + 1, m)
    BY <1>4, <2>2, <2>3
  <2> QED  BY <2>4 DEF Slice
<1> HIDE DEF n, m
<1>7. w \in Seq(Int) /\ Len(w) = n
  <2>1. \A i \in 1 .. n : k - n + i \in 1 .. k
    BY <1>1, <1>5
  <2>2. w \in [1 .. n -> Int]
    BY <1>2, <1>6, <2>1
  <2> QED  BY ONLY <1>5, <2>2
<1>8. /\ u \in Seq(Int) /\ Len(u) = m - 1
      /\ \A i \in 1 .. m - 1 : u[i] = h[(k + 1) - m + i].nis
  <2>1. CASE n >= WindowLen
    <3>1. u = Tail(w) /\ m = n /\ Len(w) >= 1 /\ w # <<>>
      BY <1>5, <1>7, <2>1
    <3>2. u \in Seq(Int) /\ Len(u) = n - 1 /\ \A i \in 1 .. n - 1 : u[i] = w[i + 1]
      BY <1>5, <1>7, <3>1
    <3>3. ASSUME NEW i \in 1 .. n - 1 PROVE w[i + 1] = h[(k + 1) - m + i].nis
      <4>1. i + 1 \in 1 .. n /\ k - n + (i + 1) = (k + 1) - m + i
        BY <1>1, <1>5, <3>1
      <4> QED  BY <1>6, <4>1
    <3> QED  BY <3>1, <3>2, <3>3
  <2>2. CASE ~(n >= WindowLen)
    <3>1. u = w /\ m = n + 1 /\ n = k /\ m - 1 = n
      BY <1>3, <1>5, <1>7, <2>2
    <3>2. \A i \in 1 .. n : (k + 1) - m + i = k - n + i
      BY <1>1, <1>5, <3>1
    <3> HIDE DEF u
    <3>3. ASSUME NEW i \in 1 .. m - 1 PROVE u[i] = h[(k + 1) - m + i].nis
      <4>1. i \in 1 .. n /\ u[i] = w[i]
        BY <3>1
      <4>2. w[i] = h[k - n + i].nis
        BY <1>6, <4>1
      <4> QED  BY <3>2, <4>1, <4>2
    <3>4. u \in Seq(Int) /\ Len(u) = m - 1
      BY <1>7, <3>1
    <3> QED  BY <3>3, <3>4
  <2> QED  BY <2>1, <2>2
<1> HIDE DEF u
<1>9. Append(u, x.nis) = [i \in 1 .. m |-> IF i = m THEN x.nis ELSE u[i]]
  <2>1. /\ Append(u, x.nis) \in Seq(Int) /\ Len(Append(u, x.nis)) = m
        /\ Append(u, x.nis)[m] = x.nis
        /\ \A i \in 1 .. m - 1 : Append(u, x.nis)[i] = u[i]
    BY <1>5, <1>8
  <2>2. \A i \in 1 .. m : i = m \/ i \in 1 .. m - 1
    BY <1>5
  <2> QED  BY <2>1, <2>2
<1>10. ASSUME NEW i \in 1 .. m PROVE g[(k + 1) - m + i].nis = IF i = m THEN x.nis ELSE u[i]
  <2>1. CASE i = m
    <3>1. (k + 1) - m + i = k + 1
      BY <1>1, <1>5, <2>1
    <3> QED  BY <1>1, <2>1, <3>1
  <2>2. CASE i # m
    <3>1. i \in 1 .. m - 1 /\ (k + 1) - m + i \in 1 .. k
      BY <1>1, <1>5, <2>2
    <3> QED  BY <1>1, <1>8, <2>2, <3>1
  <2> QED  BY <2>1, <2>2
<1>11. Append(u, x.nis) = WindowOf(g)
  BY <1>6, <1>9, <1>10
<1> QED  BY <1>11 DEF Pushed, u, g

(* What a channel keeps of what it was given, and what its position adds.   *)
Kept(channel, h, dof) ==
  /\ channel.window = WindowOf(h)
  /\ channel.hi \in Int /\ TopOf(channel.hi, Rises(h, 1, dof))
  /\ channel.lo \in Int /\ TopOf(channel.lo, Rises(h, -1, dof))

Chained(h) ==
  \A i \in 1 .. Len(h) - 1 :
    /\ h[i + 1].seq - h[i].seq \in 1 .. MaxSeqGap
    /\ h[i + 1].time - h[i].time \in 1 .. MaxInterSampleGap

Matches(channel, h) ==
  /\ Numbered(h) /\ h # <<>> /\ Chained(h)
  /\ channel.dof \in Int /\ Slack(channel.dof) \in Int
  /\ Kept(channel, h, channel.dof)
  /\ channel.seq = h[Len(h)].seq /\ channel.time = h[Len(h)].time

(* An observation a channel may take, and the sample that is recorded of it.*)
InOrder(obs) ==
  /\ obs.nis \in Int /\ obs.seq \in Int /\ obs.time \in Int
  /\ obs.dof \in Int /\ Slack(obs.dof) \in Int

Records(x, obs) == x.nis = obs.nis /\ x.seq = obs.seq /\ x.time = obs.time

Follows(channel, obs) ==
  /\ ~(obs.seq <= channel.seq) /\ ~(obs.time <= channel.time)
  /\ obs.dof = channel.dof /\ Continues(channel, obs)

LEMMA FreshKept == \A dof : Kept(Fresh, <<>>, dof)
<1> SUFFICES ASSUME NEW dof PROVE Kept(Fresh, <<>>, dof)
  OBVIOUS
<1> DEFINE e == <<>>
<1>1. Len(e) = 0 /\ DOMAIN e = {}
  BY NothingRuns
<1>2. Fresh.window = e /\ Fresh.hi = 0 /\ Fresh.lo = 0
  BY DEF Fresh
<1>3. WindowOf(e) = <<>>
  <2>1. Min({WindowLen, Len(e)}) = 0
    BY <1>1, MinOfTwo, DetectorAssumption
  <2>2. \A s : Slice(s, Len(s), 0) = <<>>
    <3>1. 1 .. 0 = {}
      OBVIOUS
    <3> QED  BY <3>1 DEF Slice
  <2> HIDE DEF e
  <2> QED  BY <2>1, <2>2 DEF WindowOf
<1> DEFINE f == <<>>
<1>4. WindowOf(e) = e
  BY <1>3
<1> HIDE DEF e
<1>5. \A sign : Rises(e, sign, dof) = {0}
  BY <1>1 DEF Rises
<1>6. TopOf(0, {0})
  BY DEF TopOf
<1>7. Kept(Fresh, e, dof)
  BY <1>2, <1>4, <1>5, <1>6 DEF Kept
<1> QED  BY <1>7 DEF e

LEMMA SampledKeeps ==
  ASSUME NEW obs, InOrder(obs), NEW x, Records(x, obs), NEW channel, NEW h, Numbered(h),
         Kept(channel, h, obs.dof)
  PROVE  Kept(Sampled(channel, obs), Append(h, x), obs.dof)
<1> DEFINE d == x.nis - obs.dof
           S == Slack(obs.dof)
           hi == Positive(channel.hi + (1 * d - S))
           lo == Positive(channel.lo + (-1 * d - S))
<1>1. x.nis \in Int /\ obs.nis = x.nis /\ obs.dof \in Int /\ S \in Int
  BY DEF InOrder, Records
<1>2. /\ Sampled(channel, obs).window = Pushed(channel.window, x.nis)
      /\ Sampled(channel, obs).hi = High(channel.hi, obs)
      /\ Sampled(channel, obs).lo = Low(channel.lo, obs)
  BY <1>1 DEF Sampled
<1>3. channel.hi \in Int /\ channel.lo \in Int
  BY DEF Kept
<1>4. High(channel.hi, obs) = hi /\ Low(channel.lo, obs) = lo
  <2>1. \A a, b, c, s \in Int :
          /\ a + b - c - s = a + (1 * (b - c) - s)
          /\ a + c - b - s = a + (-1 * (b - c) - s)
    OBVIOUS
  <2>2. /\ channel.hi + obs.nis - obs.dof - S = channel.hi + (1 * d - S)
        /\ channel.lo + obs.dof - obs.nis - S = channel.lo + (-1 * d - S)
    BY <1>1, <1>3, <2>1
  <2> QED  BY <2>2 DEF High, Low
<1>5. hi \in Int /\ TopOf(hi, Rises(Append(h, x), 1, obs.dof))
  BY <1>1, <1>3, RisesGrow DEF Kept
<1>6. lo \in Int /\ TopOf(lo, Rises(Append(h, x), -1, obs.dof))
  BY <1>1, <1>3, RisesGrow DEF Kept
<1>7. Pushed(channel.window, x.nis) = WindowOf(Append(h, x))
  BY <1>1, WindowGrows DEF Kept
<1> HIDE DEF hi, lo
<1> QED  BY <1>2, <1>4, <1>5, <1>6, <1>7 DEF Kept

LEMMA ChainGrows ==
  ASSUME NEW h, Numbered(h), h # <<>>, Chained(h), NEW x,
         x.seq - h[Len(h)].seq \in 1 .. MaxSeqGap,
         x.time - h[Len(h)].time \in 1 .. MaxInterSampleGap
  PROVE  Chained(Append(h, x))
<1> DEFINE g == Append(h, x)
           n == Len(h)
<1>1. /\ n \in Nat /\ Len(g) = n + 1 /\ g[n + 1] = x /\ \A i \in 1 .. n : g[i] = h[i]
  <2>1. IsSequence(h)
    BY DEF Numbered
  <2> QED  BY ONLY <2>1, RunGrows
<1> HIDE DEF g
<1>2. ASSUME NEW i \in 1 .. Len(g) - 1
      PROVE  /\ g[i + 1].seq - g[i].seq \in 1 .. MaxSeqGap
             /\ g[i + 1].time - g[i].time \in 1 .. MaxInterSampleGap
  <2>1. i \in 1 .. n /\ g[i] = h[i]
    BY <1>1
  <2>2. CASE i = n
    <3>1. g[i + 1] = x /\ g[i] = h[Len(h)]
      BY <1>1, <2>1, <2>2
    <3> QED  BY <3>1
  <2>3. CASE i # n
    <3>1. i \in 1 .. Len(h) - 1 /\ g[i + 1] = h[i + 1]
      BY <1>1, <2>1, <2>3
    <3> QED  BY <2>1, <3>1 DEF Chained
  <2> QED  BY <2>2, <2>3
<1> QED  BY <1>2 DEF Chained, g

LEMMA NumberedGrows ==
  ASSUME NEW h, Numbered(h), NEW x, x.nis \in Int, x.seq \in Int, x.time \in Int
  PROVE  /\ Numbered(Append(h, x)) /\ Append(h, x) # <<>>
         /\ Append(h, x)[Len(Append(h, x))] = x
<1> DEFINE g == Append(h, x)
           n == Len(h)
<1>1. /\ IsSequence(g) /\ g # <<>> /\ n \in Nat /\ DOMAIN h = 1 .. n /\ DOMAIN g = 1 .. (n + 1)
      /\ Len(g) = n + 1 /\ g[n + 1] = x /\ \A i \in 1 .. n : g[i] = h[i]
  <2>1. IsSequence(h)
    BY DEF Numbered
  <2> QED  BY ONLY <2>1, RunGrows
<1> HIDE DEF g, n
<1>2. ASSUME NEW i \in DOMAIN g
      PROVE  g[i].nis \in Int /\ g[i].seq \in Int /\ g[i].time \in Int
  <2>1. CASE i = n + 1
    BY <1>1, <2>1
  <2>2. CASE i # n + 1
    <3>1. i \in DOMAIN h /\ g[i] = h[i]
      BY <1>1, <2>2
    <3> QED  BY <3>1 DEF Numbered
  <2> QED  BY <2>1, <2>2
<1>3. Numbered(g)
  BY <1>1, <1>2 DEF Numbered
<1> QED  BY <1>1, <1>3 DEF g

(* A channel after one more observation, or after its first.                *)
LEMMA SampledMatches ==
  ASSUME NEW obs, InOrder(obs), NEW x, Records(x, obs), NEW channel, NEW h,
         (channel = Fresh /\ h = <<>>) \/ (Matches(channel, h) /\ Follows(channel, obs))
  PROVE  Matches(Sampled(channel, obs), Append(h, x))
<1>1. x.nis \in Int /\ x.seq \in Int /\ x.time \in Int
  BY DEF InOrder, Records
<1>2. /\ Sampled(channel, obs).dof = obs.dof /\ Sampled(channel, obs).seq = x.seq
      /\ Sampled(channel, obs).time = x.time
  BY DEF Sampled, Records
<1>3. Numbered(h) /\ Kept(channel, h, obs.dof)
  <2>1. CASE channel = Fresh /\ h = <<>>
    BY <2>1, FreshKept, NothingRuns DEF Numbered
  <2>2. CASE Matches(channel, h) /\ Follows(channel, obs)
    BY <2>2 DEF Matches, Follows
  <2> QED  BY <2>1, <2>2
<1>4. Kept(Sampled(channel, obs), Append(h, x), obs.dof)
  BY <1>3, SampledKeeps
<1>5. /\ Numbered(Append(h, x)) /\ Append(h, x) # <<>>
      /\ Append(h, x)[Len(Append(h, x))] = x
  BY <1>1, <1>3, NumberedGrows
<1>6. Chained(Append(h, x))
  <2>1. CASE channel = Fresh /\ h = <<>>
    <3>1. Len(Append(h, x)) = 1
      <4>1. IsSequence(h) /\ Len(h) = 0
        BY <2>1, NothingRuns
      <4> HIDE <2>1
      <4> QED  BY ONLY <4>1, RunGrows
    <3>2. 1 .. 1 - 1 = {}
      OBVIOUS
    <3> QED  BY <3>1, <3>2 DEF Chained
  <2>2. CASE Matches(channel, h) /\ Follows(channel, obs)
    <3>1. /\ Numbered(h) /\ h # <<>> /\ Chained(h)
          /\ channel.seq = h[Len(h)].seq /\ channel.time = h[Len(h)].time
      BY <2>2 DEF Matches
    <3>2. channel.seq \in Int /\ channel.time \in Int
      <4>1. Len(h) \in DOMAIN h
        <5>1. IsSequence(h)
          BY <3>1 DEF Numbered
        <5> QED  BY <3>1, <5>1 DEF IsSequence
      <4> QED  BY <3>1, <4>1 DEF Numbered
    <3>3. /\ x.seq - channel.seq \in 1 .. MaxSeqGap
          /\ x.time - channel.time \in 1 .. MaxInterSampleGap
      BY <1>1, <2>2, <3>2, DetectorAssumption DEF Follows, Continues, Records
    <3> QED  BY <3>1, <3>3, ChainGrows
  <2> QED  BY <2>1, <2>2
<1> HIDE DEF Matches
<1>7. obs.dof \in Int /\ Slack(obs.dof) \in Int
  BY DEF InOrder
<1> QED  BY <1>2, <1>4, <1>5, <1>6, <1>7 DEF Matches

(* An observation that is not refused follows what its channel has.         *)
LEMMA AdmittedFollows ==
  ASSUME NEW contract, NEW mirror, NEW obs, IngestError(contract, mirror, obs) = None,
         Known(mirror, obs)
  PROVE  Follows(Channels(mirror, obs.track)[obs.modality], obs)
BY AbsenceAssumption DEF IngestError, Follows

(* The channels of a mirror, and what an observation does to them.          *)
Has(mirror, t, m) == t \in DOMAIN mirror /\ m \in DOMAIN mirror[t]

Earlier(mirror, t, m) == IF Has(mirror, t, m) THEN mirror[t][m] ELSE Fresh

LEMMA RetainedIs ==
  \A mirror, c : c \in RetainedBy(mirror) <=> \E t, m : Has(mirror, t, m) /\ c = <<t, m>>
BY DEF RetainedBy, Has

LEMMA RetainedAt == \A mirror, t, m : <<t, m>> \in RetainedBy(mirror) <=> Has(mirror, t, m)
BY RetainedIs

LEMMA KnownIs == \A mirror, obs : Known(mirror, obs) <=> Has(mirror, obs.track, obs.modality)
BY DEF Known, Channels, Has, NoTracks

LEMMA IngestedHas ==
  ASSUME NEW mirror, NEW obs, NEW after, after = Ingested(mirror, obs)
  PROVE  /\ \A t, m : Has(after, t, m) <=>
              (Has(mirror, t, m) \/ (t = obs.track /\ m = obs.modality))
         /\ \A t, m : Has(mirror, t, m) /\ ~(t = obs.track /\ m = obs.modality) =>
              after[t][m] = mirror[t][m]
         /\ after[obs.track][obs.modality] =
              Sampled(Earlier(mirror, obs.track, obs.modality), obs)
<1>1. Takes(after, mirror, obs)
  BY IngestedIs
<1>2. \A t : t \in DOMAIN after <=> t \in DOMAIN mirror \/ t = obs.track
  BY <1>1 DEF Takes
<1>3. \A t : t # obs.track /\ t \in DOMAIN mirror => after[t] = mirror[t]
  BY <1>1 DEF Takes
<1>4. \A m : m \in DOMAIN after[obs.track] <=> (Has(mirror, obs.track, m) \/ m = obs.modality)
  BY <1>1 DEF Takes, Channels, Has, NoTracks
<1>5. \A t, m : Has(after, t, m) <=>
        (Has(mirror, t, m) \/ (t = obs.track /\ m = obs.modality))
  <2> SUFFICES ASSUME NEW t, NEW m
               PROVE  Has(after, t, m) <=>
                        (Has(mirror, t, m) \/ (t = obs.track /\ m = obs.modality))
    OBVIOUS
  <2>1. CASE t = obs.track
    BY <1>2, <1>4, <2>1 DEF Has
  <2>2. CASE t # obs.track
    BY <1>2, <1>3, <2>2 DEF Has
  <2> QED  BY <2>1, <2>2
<1>6. ASSUME NEW t, NEW m, Has(mirror, t, m), ~(t = obs.track /\ m = obs.modality)
      PROVE  after[t][m] = mirror[t][m]
  <2>1. CASE t = obs.track
    <3>1. Channels(mirror, obs.track) = mirror[t] /\ m \in DOMAIN mirror[t] /\ m # obs.modality
      BY <1>6, <2>1 DEF Has, Channels
    <3> QED  BY <1>1, <2>1, <3>1 DEF Takes
  <2>2. CASE t # obs.track
    BY <1>3, <1>6, <2>2 DEF Has
  <2> QED  BY <2>1, <2>2
<1>7. after[obs.track][obs.modality] = Sampled(Earlier(mirror, obs.track, obs.modality), obs)
  <2>1. (IF Known(mirror, obs) THEN Channels(mirror, obs.track)[obs.modality] ELSE Fresh) =
          Earlier(mirror, obs.track, obs.modality)
    BY KnownIs DEF Earlier, Channels, Has
  <2> QED  BY <1>1, <2>1 DEF Takes
<1> QED  BY <1>5, <1>6, <1>7

LEMMA EarlierFollows ==
  ASSUME NEW contract, NEW mirror, NEW obs, IngestError(contract, mirror, obs) = None,
         Has(mirror, obs.track, obs.modality)
  PROVE  Follows(mirror[obs.track][obs.modality], obs)
<1>1. Known(mirror, obs) /\ Channels(mirror, obs.track) = mirror[obs.track]
  BY KnownIs DEF Has, Channels
<1> QED  BY <1>1, AdmittedFollows

-----------------------------------------------------------------------------
(* The bare detector.                                                       *)
BareRun ==
  /\ DOMAIN accepted = RetainedBy(tracks)
  /\ \A t, m : Has(tracks, t, m) => m \in Modalities /\ Matches(tracks[t][m], accepted[<<t, m>>])

LEMMA ObservationsSound == \A obs \in Observations : InOrder(obs) /\ obs.modality \in Modalities
<1> SUFFICES ASSUME NEW obs \in Observations PROVE InOrder(obs) /\ obs.modality \in Modalities
  OBVIOUS
<1>1. /\ obs.nis \in Levels /\ obs.dof \in Dofs /\ obs.seq \in Int /\ obs.time \in Int
      /\ obs.modality \in Modalities
  BY DEF Observations
<1> QED  BY <1>1, ValuesAssumption DEF InOrder

LEMMA FirstSample == \A x : Append(<<>>, x) = <<x>>
<1> SUFFICES ASSUME NEW x PROVE Append(<<>>, x) = <<x>>
  OBVIOUS
<1> DEFINE e == <<>>
           g == Append(e, x)
           f == <<x>>
<1>1. e \in Seq({x}) /\ Len(e) = 0
  OBVIOUS
<1>2. f \in Seq({x}) /\ Len(f) = 1 /\ f[1] = x
  OBVIOUS
<1> HIDE DEF e, f
<1>3. g \in Seq({x}) /\ Len(g) = 1 /\ g[1] = x
  BY <1>1
<1> HIDE DEF g
<1>4. DOMAIN g = 1 .. 1 /\ DOMAIN f = 1 .. 1
  BY <1>2, <1>3
<1>5. g = [i \in 1 .. 1 |-> g[i]] /\ f = [i \in 1 .. 1 |-> f[i]]
  BY <1>2, <1>3, <1>4
<1>6. \A i \in 1 .. 1 : g[i] = f[i]
  BY <1>2, <1>3
<1>7. g = f
  BY <1>5, <1>6
<1> QED  BY <1>7 DEF e, f, g

LEMMA IngestStep ==
  ASSUME BareRun, NEW obs \in Observations, Ingest(obs)
  PROVE  BareRun'
<1> DEFINE T == obs.track
           M == obs.modality
           key == <<T, M>>
           past == IF key \in DOMAIN accepted THEN accepted[key] ELSE <<>>
           x == SampleOf(obs)
<1>1. /\ IngestError(Contract, tracks, obs) = None /\ tracks' = Ingested(tracks, obs)
      /\ accepted' = Given(key, x)
  BY DEF Ingest
<1>2. /\ \A t, m : Has(tracks', t, m) <=> (Has(tracks, t, m) \/ (t = T /\ m = M))
      /\ \A t, m : Has(tracks, t, m) /\ ~(t = T /\ m = M) => tracks'[t][m] = tracks[t][m]
      /\ tracks'[T][M] = Sampled(Earlier(tracks, T, M), obs)
  BY <1>1, IngestedHas
<1>3. InOrder(obs) /\ M \in Modalities /\ Records(x, obs)
  BY ObservationsSound DEF Records, SampleOf
<1>4. key \in DOMAIN accepted <=> Has(tracks, T, M)
  BY RetainedAt DEF BareRun
<1>5. /\ DOMAIN accepted' = DOMAIN accepted \cup {key}
      /\ accepted'[key] = Append(past, x)
      /\ \A c \in DOMAIN accepted : c # key => accepted'[c] = accepted[c]
  <2>1. Append(<<>>, x) = <<x>>
    BY FirstSample
  <2> HIDE DEF key, x
  <2> QED  BY <1>1, <2>1 DEF Given
<1> HIDE DEF x
<1>6. DOMAIN accepted' = RetainedBy(tracks')
  <2>1. \A c : c \in RetainedBy(tracks') <=> (c \in RetainedBy(tracks) \/ c = key)
    BY <1>2, RetainedIs
  <2> HIDE DEF key
  <2> QED  BY <1>5, <2>1 DEF BareRun
<1>7. Matches(tracks'[T][M], accepted'[key])
  <2>1. CASE Has(tracks, T, M)
    <3>1. /\ Follows(tracks[T][M], obs) /\ Matches(tracks[T][M], accepted[key])
          /\ past = accepted[key] /\ Earlier(tracks, T, M) = tracks[T][M]
      BY <1>1, <1>4, <2>1, EarlierFollows DEF BareRun, Earlier
    <3> HIDE DEF key, past
    <3>2. Matches(Sampled(tracks[T][M], obs), Append(accepted[key], x))
      BY <1>3, <3>1, SampledMatches
    <3> QED  BY <1>2, <1>5, <3>1, <3>2
  <2>2. CASE ~Has(tracks, T, M)
    <3>1. past = <<>> /\ Earlier(tracks, T, M) = Fresh
      BY <1>4, <2>2 DEF Earlier
    <3> HIDE DEF key, past
    <3>2. Matches(Sampled(Fresh, obs), Append(<<>>, x))
      BY <1>3, SampledMatches
    <3> QED  BY <1>2, <1>5, <3>1, <3>2
  <2> QED  BY <2>1, <2>2
<1>8. ASSUME NEW t, NEW m, Has(tracks', t, m)
      PROVE  m \in Modalities /\ Matches(tracks'[t][m], accepted'[<<t, m>>])
  <2>1. CASE t = T /\ m = M
    BY <1>3, <1>7, <2>1
  <2>2. CASE ~(t = T /\ m = M)
    <3>1. Has(tracks, t, m) /\ tracks'[t][m] = tracks[t][m]
      BY <1>2, <1>8, <2>2
    <3>2. <<t, m>> \in DOMAIN accepted /\ <<t, m>> # key
      BY <2>2, <3>1, RetainedAt DEF BareRun
    <3> HIDE DEF key
    <3> QED  BY <1>5, <3>1, <3>2 DEF BareRun
  <2> QED  BY <2>1, <2>2
<1> QED  BY <1>6, <1>8 DEF BareRun

LEMMA RemovalStep ==
  ASSUME BareRun, NEW u \in Tracks, RemoveTrack(u)
  PROVE  BareRun'
<1>1. tracks' = Without(tracks, u) /\ accepted' = Forgotten({u} \X Modalities)
  BY DEF RemoveTrack
<1>2. \A t, m : /\ Has(tracks', t, m) <=> (Has(tracks, t, m) /\ t # u)
                /\ Has(tracks', t, m) => tracks'[t][m] = tracks[t][m]
  BY <1>1 DEF Has, Without
<1>3. /\ \A c : c \in DOMAIN accepted' <=> (c \in DOMAIN accepted /\ c \notin {u} \X Modalities)
      /\ \A c \in DOMAIN accepted' : accepted'[c] = accepted[c]
  BY <1>1 DEF Forgotten
<1>4. \A t, m : Has(tracks, t, m) => (<<t, m>> \in {u} \X Modalities <=> t = u)
  BY DEF BareRun
<1>5. \A c : c \in DOMAIN accepted' <=> c \in RetainedBy(tracks')
  <2> SUFFICES ASSUME NEW c PROVE c \in DOMAIN accepted' <=> c \in RetainedBy(tracks')
    OBVIOUS
  <2>1. c \in DOMAIN accepted <=> \E t, m : Has(tracks, t, m) /\ c = <<t, m>>
    BY RetainedIs DEF BareRun
  <2>2. c \in RetainedBy(tracks') <=> \E t, m : Has(tracks', t, m) /\ c = <<t, m>>
    BY RetainedIs
  <2> QED  BY <1>2, <1>3, <1>4, <2>1, <2>2
<1>6. ASSUME NEW t, NEW m, Has(tracks', t, m)
      PROVE  m \in Modalities /\ Matches(tracks'[t][m], accepted'[<<t, m>>])
  <2>1. Has(tracks, t, m) /\ tracks'[t][m] = tracks[t][m]
    BY <1>2, <1>6
  <2>2. <<t, m>> \in DOMAIN accepted'
    BY <1>5, <1>6, RetainedAt
  <2>3. accepted'[<<t, m>>] = accepted[<<t, m>>]
    BY <1>3, <2>2
  <2> QED  BY <2>1, <2>3 DEF BareRun
<1>7. DOMAIN accepted' = RetainedBy(tracks')
  BY <1>5
<1> QED  BY <1>6, <1>7 DEF BareRun

LEMMA EmptyHas == \A t, m : ~Has(NoTracks, t, m)
BY DEF Has, NoTracks

LEMMA EmptyRetains == RetainedBy(NoTracks) = {}
BY RetainedIs, EmptyHas

LEMMA ClearedStep == (tracks = NoTracks /\ accepted = Nothing) => BareRun
BY EmptyHas, EmptyRetains DEF BareRun, Nothing

(* One slot of a frame.                                                     *)
FrameTurn(mirror, i, c) ==
  LET obs == Observation(c.m, c.frame, i) IN
  IF mirror = None \/ IngestError(None, mirror, obs) # None
     \/ (~Known(mirror, obs) /\ obs.modality \in c.starved)
  THEN None ELSE Ingested(mirror, obs)

FrameFold == INSTANCE FoldFacts WITH Step <- FrameTurn

LEMMA FrameIsFold ==
  ASSUME NEW m, NEW frame, NEW starved
  PROVE  IngestedFrame(m, frame, starved) =
           FrameFold!Fold(m.mirror, [i \in DOMAIN m.roster |-> i],
                          [m |-> m, frame |-> frame, starved |-> starved])
BY DEF IngestedFrame, FrameTurn, FrameFold!Fold, FoldLeft, MapThenFoldSet, Max,
   FrameFold!FoldLeft, FrameFold!MapThenFoldSet, FrameFold!Max

(* A mirror after the first n slots: each has sampled its own channel once, *)
(* which could take it.                                                     *)
Slot(m, i, t, k) == t = m.track /\ k = m.roster[i].modality

Served(m, frame, after, n) ==
  /\ \A t, k : Has(after, t, k) <=> (Has(m.mirror, t, k) \/ \E i \in 1 .. n : Slot(m, i, t, k))
  /\ \A t, k : Has(m.mirror, t, k) /\ (\A i \in 1 .. n : ~Slot(m, i, t, k)) =>
       after[t][k] = m.mirror[t][k]
  /\ \A i \in 1 .. n :
       LET k == m.roster[i].modality  obs == Observation(m, frame, i) IN
       /\ after[m.track][k] = Sampled(Earlier(m.mirror, m.track, k), obs)
       /\ Has(m.mirror, m.track, k) => Follows(m.mirror[m.track][k], obs)

Rostered(roster) ==
  /\ Len(roster) \in Nat /\ DOMAIN roster = 1 .. Len(roster)
  /\ \A i, j \in DOMAIN roster : roster[i].modality = roster[j].modality => i = j

LEMMA ServedGrows ==
  ASSUME NEW m, Rostered(m.roster), NEW frame, NEW n \in Nat, n + 1 \in DOMAIN m.roster,
         NEW mirror, Served(m, frame, mirror, n),
         NEW obs, obs = Observation(m, frame, n + 1), IngestError(None, mirror, obs) = None,
         NEW after, after = Ingested(mirror, obs)
  PROVE  Served(m, frame, after, n + 1)
<1> DEFINE M == m.roster[n + 1].modality
           T == m.track
<1>1. obs.track = T /\ obs.modality = M
  BY DEF Observation
<1>2. /\ \A t, k : Has(after, t, k) <=> (Has(mirror, t, k) \/ (t = T /\ k = M))
      /\ \A t, k : Has(mirror, t, k) /\ ~(t = T /\ k = M) => after[t][k] = mirror[t][k]
      /\ after[T][M] = Sampled(Earlier(mirror, T, M), obs)
      /\ Has(mirror, T, M) => Follows(mirror[T][M], obs)
  BY <1>1, IngestedHas, EarlierFollows
<1>3. \A i \in 1 .. n + 1 : i = n + 1 \/ i \in 1 .. n
  OBVIOUS
<1>4. 1 .. n \subseteq 1 .. n + 1 /\ n + 1 \in 1 .. n + 1 /\ 1 .. n + 1 \subseteq DOMAIN m.roster
  BY DEF Rostered
<1>5. \A t, k : Slot(m, n + 1, t, k) <=> (t = T /\ k = M)
  BY DEF Slot
<1>6. \A i \in 1 .. n : ~Slot(m, i, T, M)
  <2>1. \A i \in 1 .. n : i # n + 1
    OBVIOUS
  <2> QED  BY <1>4, <2>1 DEF Slot, Rostered
<1> HIDE DEF M, T
<1>7. /\ Has(mirror, T, M) <=> Has(m.mirror, T, M)
      /\ Has(mirror, T, M) => mirror[T][M] = m.mirror[T][M]
      /\ Earlier(mirror, T, M) = Earlier(m.mirror, T, M)
  <2>1. /\ Has(mirror, T, M) <=> Has(m.mirror, T, M)
        /\ Has(mirror, T, M) => mirror[T][M] = m.mirror[T][M]
    BY <1>6 DEF Served
  <2> QED  BY <2>1 DEF Earlier
<1>8. ASSUME NEW t, NEW k
      PROVE  Has(after, t, k) <=>
               (Has(m.mirror, t, k) \/ \E i \in 1 .. n + 1 : Slot(m, i, t, k))
  <2>1. (\E i \in 1 .. n + 1 : Slot(m, i, t, k)) <=>
          ((t = T /\ k = M) \/ \E i \in 1 .. n : Slot(m, i, t, k))
    BY <1>3, <1>4, <1>5
  <2>2. Has(mirror, t, k) <=> (Has(m.mirror, t, k) \/ \E i \in 1 .. n : Slot(m, i, t, k))
    BY DEF Served
  <2> QED  BY <1>2, <2>1, <2>2
<1>9. ASSUME NEW t, NEW k, Has(m.mirror, t, k), \A i \in 1 .. n + 1 : ~Slot(m, i, t, k)
      PROVE  after[t][k] = m.mirror[t][k]
  <2>1. ~(t = T /\ k = M) /\ \A i \in 1 .. n : ~Slot(m, i, t, k)
    BY <1>4, <1>5, <1>9
  <2>2. Has(mirror, t, k) /\ mirror[t][k] = m.mirror[t][k]
    BY <1>9, <2>1 DEF Served
  <2> QED  BY <1>2, <2>1, <2>2
<1>10. ASSUME NEW i \in 1 .. n + 1
       PROVE  LET k == m.roster[i].modality  o == Observation(m, frame, i) IN
              /\ after[m.track][k] = Sampled(Earlier(m.mirror, m.track, k), o)
              /\ Has(m.mirror, m.track, k) => Follows(m.mirror[m.track][k], o)
  <2>1. CASE i = n + 1
    <3>1. /\ after[T][M] = Sampled(Earlier(m.mirror, T, M), obs)
          /\ Has(m.mirror, T, M) => Follows(m.mirror[T][M], obs)
      BY <1>2, <1>7
    <3> QED  BY <2>1, <3>1 DEF T, M
  <2>2. CASE i # n + 1
    <3> DEFINE k == m.roster[i].modality
               o == Observation(m, frame, i)
    <3>1. i \in 1 .. n
      BY <1>3, <2>2
    <3>2. /\ mirror[T][k] = Sampled(Earlier(m.mirror, T, k), o)
          /\ Has(m.mirror, T, k) => Follows(m.mirror[T][k], o)
      BY <3>1 DEF Served, T
    <3>3. Slot(m, i, T, k)
      BY DEF Slot, T
    <3>4. Has(mirror, T, k)
      BY <3>1, <3>3 DEF Served
    <3>5. k # M
      BY <1>6, <3>1, <3>3
    <3>6. after[T][k] = mirror[T][k]
      BY <1>2, <3>4, <3>5
    <3> QED  BY <3>2, <3>6 DEF T
  <2> QED  BY <2>1, <2>2
<1> QED  BY <1>8, <1>9, <1>10 DEF Served

LEMMA FrameServed ==
  ASSUME NEW m, Rostered(m.roster), NEW frame, NEW starved, NEW after,
         after = IngestedFrame(m, frame, starved), after # None
  PROVE  Served(m, frame, after, Len(m.roster))
<1> DEFINE N == Len(m.roster)
           s == [i \in DOMAIN m.roster |-> i]
           c == [m |-> m, frame |-> frame, starved |-> starved]
<1>1. N \in Nat /\ DOMAIN m.roster = 1 .. N
  BY DEF Rostered
<1>2. s \in Seq(Nat) /\ Len(s) = N /\ \A i \in 1 .. N : s[i] = i
  <2>1. s \in [1 .. N -> Nat]
    BY <1>1
  <2> HIDE DEF N
  <2> QED  BY <1>1, <2>1
<1>3. c.m = m /\ c.frame = frame /\ c.starved = starved
  OBVIOUS
<1>4. after = FrameFold!Fold(m.mirror, s, c)
  BY FrameIsFold
<1> HIDE DEF s, c, N
<1>5. PICK h : FrameFold!IsRun(h, m.mirror, s, c) /\ FrameFold!Fold(m.mirror, s, c) = h[Len(s)]
  BY <1>2, FrameFold!FoldRuns
<1>6. h[0] = m.mirror /\ \A i \in 1 .. N : h[i] = FrameTurn(h[i - 1], i, c)
  BY <1>2, <1>5 DEF FrameFold!IsRun
<1> DEFINE Done == {n \in Nat : n <= N /\ h[n] # None => Served(m, frame, h[n], n)}
<1>7. 0 \in Done
  <2>1. 1 .. 0 = {}
    OBVIOUS
  <2>2. Served(m, frame, h[0], 0)
    BY <1>6, <2>1 DEF Served
  <2> QED  BY <2>2
<1>8. ASSUME NEW n \in Nat, n \in Done PROVE n + 1 \in Done
  <2> SUFFICES ASSUME n + 1 <= N, h[n + 1] # None
               PROVE  Served(m, frame, h[n + 1], n + 1)
    OBVIOUS
  <2>1. n + 1 \in 1 .. N /\ n + 1 \in DOMAIN m.roster /\ (n + 1) - 1 = n /\ n <= N
    BY <1>1
  <2> DEFINE obs == Observation(m, frame, n + 1)
  <2>2. h[n + 1] = FrameTurn(h[n], n + 1, c)
    BY <1>6, <2>1
  <2>3. /\ h[n] # None /\ IngestError(None, h[n], obs) = None
        /\ h[n + 1] = Ingested(h[n], obs)
    BY <1>3, <2>2 DEF FrameTurn
  <2>4. Served(m, frame, h[n], n)
    BY <1>8, <2>1, <2>3
  <2> HIDE DEF obs
  <2>5. obs = Observation(m, frame, n + 1)
    BY DEF obs
  <2> HIDE DEF Done
  <2> QED  BY <2>1, <2>3, <2>4, <2>5, ServedGrows
<1> HIDE DEF Done
<1>9. N \in Done
  BY <1>1, <1>7, <1>8, FrameFold!Induction
<1>10. after = h[N]
  BY <1>2, <1>4, <1>5
<1> QED  BY <1>1, <1>9, <1>10 DEF Done, N

(* A monitor has either every channel of its roster, each of which matches  *)
(* its history, or none.                                                    *)
MonitorKept(m, hist) ==
  /\ m.state # "Active" => m.mirror = NoTracks
  /\ m.state = "Active" =>
       /\ \A t, k : Has(m.mirror, t, k) <=> \E i \in DOMAIN m.roster : Slot(m, i, t, k)
       /\ \A i \in DOMAIN m.roster :
            Matches(m.mirror[m.track][m.roster[i].modality], hist[m.roster[i].modality])

(* What a whole frame adds to the histories.                                *)
FrameGiven(m, frame, hist, after) ==
  \A i \in DOMAIN m.roster : \E x :
    /\ Records(x, Observation(m, frame, i))
    /\ after[m.roster[i].modality] =
         Append(IF m.state = "Active" THEN hist[m.roster[i].modality] ELSE <<>>, x)

LEMMA MonitorAdvances ==
  ASSUME NEW m, DOMAIN m = MonitorFields, Rostered(m.roster), NEW hist, MonitorKept(m, hist),
         NEW frame, \A i \in DOMAIN m.roster : InOrder(Observation(m, frame, i)),
         NEW mirror, Served(m, frame, mirror, Len(m.roster)),
         NEW after, FrameGiven(m, frame, hist, after)
  PROVE  MonitorKept(Advanced(m, frame, mirror), after)
<1> DEFINE b == Advanced(m, frame, mirror)
<1>1. /\ b.state = "Active" /\ b.mirror = mirror /\ b.roster = m.roster /\ b.track = m.track
  BY DEF Advanced, MonitorFields
<1> HIDE DEF b
<1>2. DOMAIN m.roster = 1 .. Len(m.roster)
  BY DEF Rostered
<1>3. \A i, t, k : Slot(b, i, t, k) <=> Slot(m, i, t, k)
  BY <1>1 DEF Slot
<1>4. \A t, k : Has(m.mirror, t, k) => \E i \in DOMAIN m.roster : Slot(m, i, t, k)
  BY EmptyHas DEF MonitorKept
<1>5. \A t, k : Has(b.mirror, t, k) <=> \E i \in DOMAIN b.roster : Slot(b, i, t, k)
  <2>1. \A t, k : Has(mirror, t, k) <=>
          (Has(m.mirror, t, k) \/ \E i \in DOMAIN m.roster : Slot(m, i, t, k))
    BY <1>2 DEF Served
  <2> QED  BY <1>1, <1>3, <1>4, <2>1
<1>6. ASSUME NEW i \in DOMAIN m.roster
      PROVE  Matches(b.mirror[b.track][b.roster[i].modality], after[b.roster[i].modality])
  <2> DEFINE k == m.roster[i].modality
             T == m.track
             obs == Observation(m, frame, i)
             past == IF m.state = "Active" THEN hist[k] ELSE <<>>
  <2>1. PICK x : Records(x, obs) /\ after[k] = Append(past, x)
    BY DEF FrameGiven
  <2>2. /\ mirror[T][k] = Sampled(Earlier(m.mirror, T, k), obs)
        /\ Has(m.mirror, T, k) => Follows(m.mirror[T][k], obs)
    BY <1>2 DEF Served
  <2>3. InOrder(obs)
    OBVIOUS
  <2>4. CASE m.state = "Active"
    <3>1. Has(m.mirror, T, k) /\ Matches(m.mirror[T][k], hist[k]) /\ past = hist[k]
      BY <2>4 DEF MonitorKept, Slot
    <3>2. Earlier(m.mirror, T, k) = m.mirror[T][k]
      BY <3>1 DEF Earlier
    <3> HIDE DEF obs, past, k, T
    <3>3. Matches(Sampled(m.mirror[T][k], obs), Append(hist[k], x))
      BY <2>1, <2>2, <2>3, <3>1, SampledMatches
    <3>4. Matches(mirror[T][k], after[k])
      BY <2>1, <2>2, <3>1, <3>2, <3>3
    <3> QED  BY <1>1, <3>4 DEF k, T
  <2>5. CASE m.state # "Active"
    <3>1. past = <<>> /\ Earlier(m.mirror, T, k) = Fresh
      BY <2>5, EmptyHas DEF Earlier, MonitorKept
    <3> HIDE DEF obs, past, k, T
    <3>2. Matches(Sampled(Fresh, obs), Append(<<>>, x))
      BY <2>1, <2>3, SampledMatches
    <3>3. Matches(mirror[T][k], after[k])
      BY <2>1, <2>2, <3>1, <3>2
    <3> QED  BY <1>1, <3>3 DEF k, T
  <2> QED  BY <2>4, <2>5
<1>7. MonitorKept(b, after)
  <2>1. \A i \in DOMAIN b.roster :
          Matches(b.mirror[b.track][b.roster[i].modality], after[b.roster[i].modality])
    BY <1>1, <1>6
  <2> QED  BY <1>1, <1>5, <2>1 DEF MonitorKept
<1> QED  BY <1>7 DEF b

-----------------------------------------------------------------------------
(* The adapter.                                                             *)
ScalarHistory == [k \in {Roster[i].modality : i \in DOMAIN Roster} |->
                    IF <<monitor.track, k>> \in DOMAIN accepted
                    THEN accepted[<<monitor.track, k>>] ELSE <<>>]

ScalarKept == MonitorKept(monitor, ScalarHistory)

LEMMA RosterRostered == Rostered(Roster)
BY OwnersAssumption DEF Rostered

LEMMA FramesSound ==
  ASSUME NEW m, m.roster = Roster, NEW frame \in Frames, StageError(m, frame) = None,
         Absent(frame) = {}
  PROVE  \A i \in DOMAIN Roster : InOrder(Observation(m, frame, i))
<1> SUFFICES ASSUME NEW i \in DOMAIN Roster PROVE InOrder(Observation(m, frame, i))
  OBVIOUS
<1>1. frame.seq \in Int /\ frame.time \in Int
  BY DEF Frames
<1>2. PICK n \in 1 .. Len(Roster) : frame.evidence \in [1 .. n -> Slots]
  BY DEF Frames
<1>3. Len(frame.evidence) = Len(Roster)
  BY AbsenceAssumption DEF StageError
<1>4. Len(frame.evidence) = n /\ DOMAIN frame.evidence = 1 .. n
  <2>1. n \in Nat
    BY OwnersAssumption
  <2> DEFINE e == frame.evidence
  <2>2. e \in [1 .. n -> Slots]
    BY <1>2
  <2> HIDE DEF e
  <2>3. e \in Seq(Slots) /\ DOMAIN e = 1 .. n
    BY ONLY <2>1, <2>2
  <2>4. Len(e) = n
    BY ONLY <2>1, <2>3
  <2> QED  BY <2>3, <2>4 DEF e
<1>5. i \in 1 .. n
  BY <1>3, <1>4, OwnersAssumption
<1>6. frame.evidence[i] \in Slots /\ frame.evidence[i] # None
  BY <1>2, <1>4, <1>5 DEF Absent
<1>7. frame.evidence[i].nis \in Int
  <2> DEFINE L == Levels \cup {-1}
             s == frame.evidence[i]
  <2>1. s \in [nis : L, dof : Dofs]
    BY <1>6 DEF Slots
  <2>2. L \subseteq Int
    BY ValuesAssumption
  <2> HIDE DEF L, s
  <2>3. s.nis \in L
    BY <2>1
  <2> QED  BY <2>2, <2>3 DEF s
<1>8. Roster[i].dof \in Int /\ Slack(Roster[i].dof) \in Int
  BY ValuesAssumption
<1> QED  BY <1>1, <1>7, <1>8 DEF InOrder, Observation

LEMMA ScalarKeptStep ==
  ASSUME ScalarRun, ScalarKept, NEW frame \in Frames, NEW failing, AssessFrame(frame, failing)
  PROVE  ScalarKept'
<1> DEFINE result == Assessed(monitor, frame, failing)
           mirror == IngestedFrame(monitor, frame, failing.storage)
<1>1. monitor' = result.monitor
  BY DEF AssessFrame
<1>2. DOMAIN monitor = MonitorFields /\ monitor.roster = Roster
  BY DEF ScalarRun
<1>3. CASE /\ result.answer = "Report" /\ StageError(monitor, frame) = None
           /\ Absent(frame) = {} /\ mirror # None
           /\ result.monitor = Advanced(monitor, frame, mirror)
  <2>1. Served(monitor, frame, mirror, Len(Roster))
    BY <1>2, <1>3, FrameServed, RosterRostered
  <2>2. \A i \in DOMAIN Roster : InOrder(Observation(monitor, frame, i))
    BY <1>2, <1>3, FramesSound
  <2>3. monitor'.track = monitor.track
    BY <1>1, <1>2, <1>3 DEF Advanced, MonitorFields
  <2>4. FrameGiven(monitor, frame, ScalarHistory, ScalarHistory')
    <3> SUFFICES ASSUME NEW i \in DOMAIN Roster
                 PROVE  \E x : /\ Records(x, Observation(monitor, frame, i))
                               /\ ScalarHistory'[Roster[i].modality] =
                                    Append(IF monitor.state = "Active"
                                           THEN ScalarHistory[Roster[i].modality] ELSE <<>>, x)
      BY <1>2 DEF FrameGiven
    <3> DEFINE k == Roster[i].modality
               c == <<monitor.track, k>>
               x == SampleOf(Observation(monitor, frame, i))
               past == IF c \in DOMAIN accepted THEN accepted[c] ELSE <<>>
    <3>1. c \in ScalarKeys
      BY DEF ScalarKeys
    <3>2. (CHOOSE j \in DOMAIN Roster : Roster[j].modality = c[2]) = i
      <4>1. \A j \in DOMAIN Roster : Roster[j].modality = c[2] <=> j = i
        BY OwnersAssumption
      <4> HIDE DEF c
      <4> QED  BY <4>1
    <3>3. DOMAIN accepted' = ScalarKeys /\ accepted'[c] = Append(past, x)
      <4>1. accepted' = [d \in ScalarKeys |->
                           Append(IF d \in DOMAIN accepted THEN accepted[d] ELSE <<>>,
                                  SampleOf(Observation(monitor, frame,
                                    CHOOSE j \in DOMAIN Roster : Roster[j].modality = d[2])))]
        BY <1>3 DEF AssessFrame, ScalarKeys
      <4>2. \A d \in ScalarKeys :
              accepted'[d] = Append(IF d \in DOMAIN accepted THEN accepted[d] ELSE <<>>,
                                    SampleOf(Observation(monitor, frame,
                                      CHOOSE j \in DOMAIN Roster : Roster[j].modality = d[2])))
        BY <4>1
      <4> HIDE DEF c
      <4>3. accepted'[c] = Append(IF c \in DOMAIN accepted THEN accepted[c] ELSE <<>>,
                                  SampleOf(Observation(monitor, frame,
                                    CHOOSE j \in DOMAIN Roster : Roster[j].modality = c[2])))
        BY <3>1, <4>2
      <4>4. DOMAIN accepted' = ScalarKeys
        BY <4>1
      <4> QED  BY <3>2, <4>3, <4>4
    <3>4. Records(x, Observation(monitor, frame, i))
      BY DEF Records, SampleOf
    <3> HIDE DEF x
    <3>5. ScalarHistory'[k] = Append(past, x)
      BY <2>3, <3>1, <3>3 DEF ScalarHistory
    <3>6. past = IF monitor.state = "Active" THEN ScalarHistory[k] ELSE <<>>
      <4>1. monitor.state # "Active" => DOMAIN accepted = {}
        BY DEF ScalarRun
      <4>2. ScalarHistory[k] = past
        BY DEF ScalarHistory
      <4> QED  BY <4>1, <4>2
    <3> QED  BY <3>4, <3>5, <3>6
  <2> QED  BY <1>1, <1>2, <1>3, <2>1, <2>2, <2>4, RosterRostered, MonitorAdvances DEF ScalarKept
<1>4. CASE result.answer # "Report" /\ result.monitor = Retire(monitor)
  <2>1. monitor'.state = "Retired" /\ monitor'.mirror = NoTracks
    BY <1>1, <1>2, <1>4 DEF Retire, MonitorFields
  <2> QED  BY <2>1 DEF ScalarKept, MonitorKept
<1>5. CASE result.answer # "Report" /\ result.monitor = monitor
  <2>1. UNCHANGED <<monitor, accepted>>
    BY <1>1, <1>5 DEF AssessFrame
  <2>2. ScalarHistory' = ScalarHistory
    BY <2>1 DEF ScalarHistory
  <2> QED  BY <2>1, <2>2 DEF ScalarKept
<1> HIDE DEF result, mirror
<1> QED  BY <1>3, <1>4, <1>5, AssessedIs DEF result, mirror

(* The local owner.                                                         *)
VisualRoster == <<[modality |-> Visual, dof |-> VisualDof]>>

VisualHistory(h) == [k \in {Visual} |-> h]

TrackKept(track, h) ==
  track.pc = "active" =>
    /\ track.monitor.roster = VisualRoster /\ track.monitor.track = track.source.track
    /\ MonitorKept(track.monitor, VisualHistory(h))

PastOf(i) == IF i \in DOMAIN accepted THEN accepted[i] ELSE <<>>

NativeKept ==
  native.pc = "prepared" => \A i \in DOMAIN Entities : TrackKept(native.tracks[i], PastOf(i))

LEMMA VisualRostered ==
  /\ Rostered(VisualRoster) /\ DOMAIN VisualRoster = {1} /\ Len(VisualRoster) = 1
  /\ VisualRoster[1].modality = Visual /\ VisualRoster[1].dof = VisualDof
<1>1. /\ Len(VisualRoster) = 1 /\ DOMAIN VisualRoster = 1 .. 1
      /\ VisualRoster[1].modality = Visual /\ VisualRoster[1].dof = VisualDof
  BY DEF VisualRoster
<1> QED  BY <1>1 DEF Rostered

LEMMA OpenedKept == \A source, h : TrackKept(Opened(source), h)
<1> SUFFICES ASSUME NEW source, NEW h PROVE TrackKept(Opened(source), h)
  OBVIOUS
<1> DEFINE m == Prepare(source.track, source.seq, VisualRoster)
<1>1. m.state = "Prepared" /\ m.mirror = NoTracks /\ m.roster = VisualRoster /\ m.track = source.track
  BY DEF Prepare
<1>2. Opened(source) = [pc |-> "active", source |-> [sensor |-> source.sensor, track |-> source.track],
                        monitor |-> m]
  BY DEF Opened, VisualRoster
<1> HIDE DEF m
<1>3. Opened(source).monitor = m /\ Opened(source).source.track = source.track
  BY <1>2
<1> QED  BY <1>1, <1>3 DEF TrackKept, MonitorKept

(* How a track comes to be active after a step.                             *)
LEMMA TrackCarries ==
  ASSUME NEW track, Formed(track), NEW innovation, NEW time, NEW fault,
         Admissible(track, innovation, time),
         NEW a, a = TrackAfter(track, innovation, time, fault), a.track.pc = "active",
         NEW met, met = Met(track, innovation), NEW frame, frame = FrameOf(innovation, time)
  PROVE  /\ met.pc = "active" /\ DOMAIN met.monitor = MonitorFields /\ innovation.source # None
         /\ StageError(met.monitor, frame) = None /\ a.track.source = met.source
         /\ \/ \E mirror, storage :
                 /\ Absent(frame) = {} /\ mirror # None
                 /\ mirror = IngestedFrame(met.monitor, frame, storage)
                 /\ a.track.monitor = Advanced(met.monitor, frame, mirror)
            \/ a.track.monitor = Retire(met.monitor)
<1> DEFINE result == Assessed(met.monitor, frame, Failing(fault))
<1>1. Formed(met)
  BY OpenedFormed DEF Met
<1>2. met.pc = "active"
  <2> SUFFICES ASSUME met.pc # "active" PROVE FALSE
    OBVIOUS
  <2>1. a = [track |-> met, failed |-> FALSE, given |-> FALSE]
    BY DEF TrackAfter
  <2> QED  BY <2>1
<1>3. innovation.source # None /\ result.answer # "Unavailable"
  <2> SUFFICES ASSUME innovation.source = None \/ result.answer = "Unavailable" PROVE FALSE
    OBVIOUS
  <2>1. a = [track |-> Retired, failed |-> FALSE, given |-> FALSE]
    BY <1>2 DEF TrackAfter
  <2> QED  BY <2>1 DEF Retired
<1>4. a = [track  |-> [met EXCEPT !.monitor = result.monitor],
           failed |-> result.answer # "Report" \/ fault = "output",
           given  |-> result.answer = "Report"]
  BY <1>2, <1>3 DEF TrackAfter
<1>5. DOMAIN met = TrackFields /\ DOMAIN met.monitor = MonitorFields
  BY <1>1, <1>2 DEF Formed, Monitored
<1>6. a.track.monitor = result.monitor /\ a.track.source = met.source
  <2>1. a.track = [met EXCEPT !.monitor = result.monitor]
    BY <1>4
  <2> HIDE DEF result
  <2> QED  BY ONLY <1>5, <2>1 DEF TrackFields
<1>7. FrameError(met.monitor, frame) = None
  BY <1>2, <1>3 DEF Admissible
<1>8. StageError(met.monitor, frame) = None
  BY <1>7, NoFrameError
<1> HIDE DEF result
<1> QED  BY <1>2, <1>3, <1>5, <1>6, <1>8, AssessedIs DEF result

LEMMA InnovationsSound ==
  ASSUME NEW result \in Results, NEW i \in DOMAIN Entities,
         NEW innovation, innovation = result.innovations[i], innovation.source # None,
         NEW frame, frame = FrameOf(innovation, result.time), Absent(frame) = {},
         NEW m, m.roster = VisualRoster,
         NEW obs, obs = Observation(m, frame, 1)
  PROVE  /\ InOrder(obs) /\ obs.nis = innovation.nis /\ obs.seq = innovation.source.seq
         /\ obs.time = result.time \div Grain
<1>1. innovation \in Innovations /\ result.time \in Nat
  BY OwnersAssumption DEF Results
<1>2. innovation.nis \in Int \cup {None} /\ innovation.source.seq \in Int
  BY <1>1, ValuesAssumption
<1>3. result.time \div Grain \in Int
  BY <1>1, OwnersAssumption
<1> DEFINE slot == IF innovation.nis = None THEN None
                   ELSE [nis |-> innovation.nis, dof |-> innovation.dof]
<1>4. frame.seq = innovation.source.seq /\ frame.time = result.time \div Grain /\ frame.evidence = <<slot>>
  BY DEF FrameOf
<1> HIDE DEF slot
<1>5. frame.evidence[1] = slot /\ 1 \in DOMAIN frame.evidence
  BY <1>4
<1>6. slot # None
  BY <1>5 DEF Absent
<1>7. slot = [nis |-> innovation.nis, dof |-> innovation.dof] /\ innovation.nis # None
  BY <1>6 DEF slot
<1>8. obs.nis = innovation.nis /\ obs.seq = frame.seq /\ obs.time = frame.time /\ obs.dof = VisualDof
  BY <1>5, <1>7, VisualRostered DEF Observation
<1>9. VisualDof \in Int /\ Slack(VisualDof) \in Int
  BY ValuesAssumption
<1> QED  BY <1>2, <1>3, <1>4, <1>7, <1>8, <1>9 DEF InOrder

LEMMA NativeKeptStep ==
  ASSUME NativeRun, NativeKept, NEW result \in Results, NEW faults, AssessStep(result, faults)
  PROVE  NativeKept'
<1>1. PICK after, moved, live : StepTaken(result, after, moved, live)
  BY StepIsTaken
<1>2. /\ native.pc = "prepared"
      /\ \A i \in DOMAIN Entities :
           Admissible(native.tracks[i], result.innovations[i], result.time)
  BY DEF AssessStep
<1>3. /\ \A i \in DOMAIN Entities : Formed(native.tracks[i])
      /\ DOMAIN accepted = {i \in DOMAIN Entities : Live(native.tracks[i])}
      /\ \A i \in DOMAIN accepted : StandsAt(native.tracks[i], accepted[i])
  BY <1>2 DEF NativeRun
<1>4. DOMAIN accepted' = {i \in DOMAIN Entities : Live(native'.tracks[i])}
  BY <1>1 DEF StepTaken
<1> SUFFICES ASSUME NEW i \in DOMAIN Entities, native'.tracks[i].pc = "active"
             PROVE  TrackKept(native'.tracks[i], PastOf(i)')
  BY DEF NativeKept, TrackKept
<1> DEFINE track == native.tracks[i]
           innovation == result.innovations[i]
<1>5. TrackKept(track, PastOf(i))
  BY <1>2 DEF NativeKept
<1>6. CASE i \notin moved
  <2>1. native'.tracks[i] = track
    BY <1>1, <1>6 DEF StepTaken
  <2>2. CASE Live(track)
    <3>1. i \in DOMAIN accepted' /\ i \in DOMAIN accepted
      BY <1>3, <1>4, <2>1, <2>2
    <3>2. accepted'[i] = accepted[i]
      BY <1>1, <1>6, <3>1 DEF StepTaken
    <3>3. PastOf(i)' = PastOf(i)
      BY <3>1, <3>2 DEF PastOf
    <3> QED  BY <1>5, <2>1, <3>3
  <2>3. CASE ~Live(track)
    <3>1. track.monitor.state = "Retired"
      BY <2>1, <2>3 DEF Live
    <3> QED  BY <1>5, <2>1, <3>1 DEF TrackKept, MonitorKept
  <2> QED  BY <2>2, <2>3
<1>7. CASE i \in moved
  <2> DEFINE met == Met(track, innovation)
             frame == FrameOf(innovation, result.time)
             m == met.monitor
  <2>1. PICK s : after[i] = TrackAfter(track, innovation, result.time, s)
    BY <1>1 DEF StepTaken
  <2> DEFINE now == native'.tracks[i]
  <2>2. now = after[i].track
    BY <1>1, <1>7 DEF StepTaken
  <2>3. /\ met.pc = "active" /\ DOMAIN m = MonitorFields /\ innovation.source # None
        /\ StageError(m, frame) = None /\ now.source = met.source
        /\ \/ \E mirror, storage :
                 /\ Absent(frame) = {} /\ mirror # None
                 /\ mirror = IngestedFrame(m, frame, storage)
                 /\ now.monitor = Advanced(m, frame, mirror)
           \/ now.monitor = Retire(m)
    BY <1>2, <1>3, <2>1, <2>2, TrackCarries
  <2>4. m.state # "Retired"
    BY <2>3, AbsenceAssumption DEF StageError
  <2>5. \/ met = track /\ track.pc = "active"
        \/ met = Opened(innovation.source) /\ track.pc = "waiting"
    BY <2>3 DEF Met, Opens
  <2>6. TrackKept(met, PastOf(i))
    BY <1>5, <2>5, OpenedKept
  <2>7. /\ m.roster = VisualRoster /\ m.track = met.source.track
        /\ MonitorKept(m, VisualHistory(PastOf(i)))
    BY <2>3, <2>6 DEF TrackKept
  <2>8. CASE now.monitor = Retire(m)
    <3>1. /\ now.monitor.state = "Retired" /\ now.monitor.mirror = NoTracks
          /\ now.monitor.roster = m.roster /\ now.monitor.track = m.track
      <4> HIDE DEF now, m
      <4> QED  BY <2>3, <2>8 DEF Retire, MonitorFields
    <3> QED  BY <2>3, <2>7, <3>1 DEF TrackKept, MonitorKept
  <2>9. ASSUME NEW mirror, NEW storage, Absent(frame) = {}, mirror # None,
               mirror = IngestedFrame(m, frame, storage), now.monitor = Advanced(m, frame, mirror)
        PROVE  TrackKept(native'.tracks[i], PastOf(i)')
    <3>1. /\ now.monitor.state = "Active" /\ now.monitor.roster = m.roster
          /\ now.monitor.track = m.track
      <4> HIDE DEF now, m, frame
      <4> QED  BY <2>3, <2>9 DEF Advanced, MonitorFields
    <3>2. i \in DOMAIN accepted'
      BY <1>4, <3>1 DEF Live
    <3>3. after[i].given
      <4>1. \/ Rests(after[i]) \/ Gives(after[i], track, innovation) \/ Fails(after[i], innovation)
        BY <1>2, <1>3, <2>1, TrackMoves
      <4> QED  BY <2>2, <3>1, <4>1 DEF Rests, Gives, Fails
    <3>4. PICK x : /\ x.seq = innovation.source.seq /\ x.time = result.time \div Grain
                   /\ x.nis = innovation.nis
                   /\ accepted'[i] = IF i \in moved /\ after[i].given
                                     THEN Append(PastOf(i), x) ELSE PastOf(i)
      BY <1>1, <3>2 DEF StepTaken, PastOf
    <3>5. PastOf(i)' = Append(PastOf(i), x)
      BY <1>7, <3>2, <3>3, <3>4 DEF PastOf
    <3> DEFINE obs == Observation(m, frame, 1)
    <3>6. /\ InOrder(obs) /\ obs.nis = innovation.nis /\ obs.seq = innovation.source.seq
          /\ obs.time = result.time \div Grain
      BY <2>3, <2>7, <2>9, InnovationsSound
    <3>7. PastOf(i) = IF m.state = "Active" THEN VisualHistory(PastOf(i))[Visual] ELSE <<>>
      <4>1. VisualHistory(PastOf(i))[Visual] = PastOf(i)
        BY DEF VisualHistory
      <4>2. ASSUME m.state # "Active" PROVE PastOf(i) = <<>>
        <5>1. i \notin DOMAIN accepted
          BY <1>3, <2>5, <4>2 DEF StandsAt, Live
        <5> QED  BY <5>1 DEF PastOf
      <4> QED  BY <4>1, <4>2
    <3>8. FrameGiven(m, frame, VisualHistory(PastOf(i)), VisualHistory(PastOf(i)'))
      <4>1. VisualHistory(PastOf(i)')[Visual] = PastOf(i)'
        BY DEF VisualHistory
      <4>2. Records(x, obs)
        BY <3>4, <3>6 DEF Records
      <4>3. \A j \in DOMAIN m.roster : j = 1 /\ m.roster[j].modality = Visual
        BY <2>7, VisualRostered
      <4> HIDE DEF m, frame
      <4> QED  BY <3>5, <3>7, <4>1, <4>2, <4>3 DEF FrameGiven
    <3>9. Served(m, frame, mirror, Len(m.roster)) /\ Rostered(m.roster)
      BY <2>7, <2>9, VisualRostered, FrameServed
    <3>10. \A j \in DOMAIN m.roster : InOrder(Observation(m, frame, j))
      BY <2>7, <3>6, VisualRostered
    <3>11. MonitorKept(now.monitor, VisualHistory(PastOf(i)'))
      BY <2>3, <2>7, <2>9, <3>8, <3>9, <3>10, MonitorAdvances
    <3> QED  BY <2>3, <2>7, <3>1, <3>11 DEF TrackKept
  <2> QED  BY <2>3, <2>8, <2>9
<1> QED  BY <1>6, <1>7

(* What every detector, however it is held, keeps of what it was given.     *)
Idle == tracks = NoTracks
Unheld == monitor.mirror = NoTracks
Uninstalled == DOMAIN native.tracks = {}
Unprepared == native.pc # "prepared" => Uninstalled

WindowInv ==
  /\ Bare => BareRun /\ Unheld /\ Uninstalled
  /\ owner = "scalar" => ScalarKept /\ Idle /\ Uninstalled
  /\ owner = "native" => NativeKept /\ Unprepared /\ Idle /\ Unheld
  /\ owner \in {"release", "subset", "scalar", "native"}

LEMMA WindowStarts == Init => WindowInv
<1> SUFFICES ASSUME Init PROVE WindowInv
  OBVIOUS
<1>1. BareRun /\ Idle
  BY ClearedStep DEF Init, Idle
<1>2. monitor.mirror = NoTracks /\ monitor.state = "Prepared"
  BY DEF Init, Prepare
<1>3. ScalarKept
  BY <1>2 DEF ScalarKept, MonitorKept
<1>4. DOMAIN native.tracks = {} /\ native.pc = "installed"
  BY NothingRuns DEF Init
<1> QED  BY <1>1, <1>2, <1>3, <1>4
         DEF Init, WindowInv, Unheld, Uninstalled, Unprepared, NativeKept

LEMMA WindowStep == RunInv /\ WindowInv /\ [Next]_vars => WindowInv'
<1> SUFFICES ASSUME RunInv, WindowInv, [Next]_vars PROVE WindowInv'
  OBVIOUS
<1>1. ASSUME Bare, BareFrame, BareRun' PROVE WindowInv'
  <2>1. Unheld /\ Uninstalled
    BY <1>1 DEF WindowInv
  <2> QED  BY <1>1, <2>1 DEF WindowInv, Bare, BareFrame, Unheld, Uninstalled
<1>2. ASSUME NEW obs \in Observations, Ingest(obs) PROVE WindowInv'
  <2>1. Bare /\ BareFrame /\ BareRun
    BY <1>2 DEF Ingest, WindowInv
  <2> QED  BY <1>1, <1>2, <2>1, IngestStep
<1>3. ASSUME NEW t \in Tracks, RemoveTrack(t) PROVE WindowInv'
  <2>1. Bare /\ BareFrame /\ BareRun
    BY <1>3 DEF RemoveTrack, WindowInv
  <2> QED  BY <1>1, <1>3, <2>1, RemovalStep
<1>4. ASSUME Clear PROVE WindowInv'
  <2>1. Bare /\ BareFrame /\ tracks' = NoTracks /\ accepted' = Nothing
    BY <1>4 DEF Clear
  <2>2. BareRun'
    BY <2>1, EmptyHas, EmptyRetains DEF BareRun, Nothing
  <2> QED  BY <1>1, <2>1, <2>2
<1>5. ASSUME NEW frame \in Frames, NEW failing, AssessFrame(frame, failing) PROVE WindowInv'
  <2>1. owner = "scalar" /\ owner' = "scalar" /\ UNCHANGED <<tracks, native>>
    BY <1>5 DEF AssessFrame
  <2>2. ScalarRun /\ ScalarKept /\ Idle /\ Uninstalled
    BY <2>1 DEF RunInv, WindowInv
  <2>3. ScalarKept'
    BY <1>5, <2>2, ScalarKeptStep
  <2> QED  BY <2>1, <2>2, <2>3 DEF WindowInv, Bare, Idle, Uninstalled
<1>6. ASSUME owner = "native", NativeFrame, NativeKept', Unprepared' PROVE WindowInv'
  <2>1. Idle /\ Unheld
    BY <1>6 DEF WindowInv
  <2> QED  BY <1>6, <2>1 DEF WindowInv, Bare, NativeFrame, Idle, Unheld
<1>7. ASSUME PrepareRun PROVE WindowInv'
  <2>1. NativeRun
    BY <1>7 DEF PrepareRun, RunInv
  <2>2. native'.tracks = [i \in DOMAIN Entities |-> Waiting]
    BY <1>7, <2>1 DEF PrepareRun, NativeRun, NativeFields
  <2>3. NativeKept'
    BY <2>2 DEF NativeKept, TrackKept, Waiting
  <2>4. Unprepared'
    BY <1>7, <2>1 DEF PrepareRun, NativeRun, NativeFields, Unprepared
  <2> QED  BY <1>6, <1>7, <2>3, <2>4 DEF PrepareRun
<1>8. ASSUME NEW result \in Results, NEW faults, AssessStep(result, faults) PROVE WindowInv'
  <2>1. owner = "native" /\ NativeFrame /\ NativeRun /\ NativeKept
    BY <1>8 DEF AssessStep, RunInv, WindowInv
  <2>2. Unprepared'
    BY <1>8, <2>1, StepIsTaken DEF StepTaken, Unprepared
  <2> QED  BY <1>6, <1>8, <2>1, <2>2, NativeKeptStep
<1>9. ASSUME EndRun PROVE WindowInv'
  <2>1. native'.pc = "retired"
    BY <1>9 DEF EndRun
  <2>2. NativeKept'
    BY <2>1 DEF NativeKept
  <2>3. Unprepared'
    BY <1>9, NothingRuns DEF EndRun, Unprepared, Uninstalled
  <2> QED  BY <1>6, <1>9, <2>2, <2>3 DEF EndRun
<1>10. CASE UNCHANGED vars
  <2>1. UNCHANGED <<owner, tracks, monitor, native, accepted>>
    BY <1>10 DEF vars
  <2>2. (BareRun' <=> BareRun) /\ (ScalarKept' <=> ScalarKept) /\ (NativeKept' <=> NativeKept)
    BY <2>1 DEF BareRun, ScalarKept, ScalarHistory, NativeKept, PastOf
  <2> QED  BY <2>1, <2>2 DEF WindowInv, Bare, Idle, Unheld, Uninstalled, Unprepared
<1> QED  BY <1>2, <1>3, <1>4, <1>5, <1>7, <1>8, <1>9, <1>10 DEF Next

(* A channel that matches its history says what WindowsMatchHistory asks.   *)
Faithful(channel, h) ==
  LET n == Len(channel.window) IN
  /\ n = Min({WindowLen, Len(h)})
  /\ channel.window = [i \in 1 .. n |-> h[Len(h) - n + i].nis]
  /\ channel.hi = LargestRun(h, 1, channel.dof)
  /\ channel.lo = LargestRun(h, -1, channel.dof)
  /\ channel.seq = Last(h).seq /\ channel.time = Last(h).time
  /\ \A i \in 1 .. Len(h) - 1 :
       /\ h[i + 1].seq - h[i].seq \in 1 .. MaxSeqGap
       /\ h[i + 1].time - h[i].time \in 1 .. MaxInterSampleGap

LEMMA RisesType ==
  ASSUME NEW h, Numbered(h), NEW dof \in Int, Slack(dof) \in Int, NEW sign \in {1, -1}
  PROVE  Rises(h, sign, dof) \in SUBSET Int
<1> DEFINE x == [nis |-> 0]
<1>1. x.nis \in Int
  OBVIOUS
<1>2. Len(h) \in Nat /\ DOMAIN h = 1 .. Len(h)
  <2>1. IsSequence(h)
    BY DEF Numbered
  <2> QED  BY ONLY <2>1, RunGrows
<1>3. ASSUME NEW i \in DOMAIN h PROVE Excess(h, i, sign, dof) \in Int
  <2>1. i \in 1 .. Len(h) + 1
    BY <1>2
  <2> HIDE DEF x
  <2> QED  BY <1>1, <2>1, ExcessGrows
<1> QED  BY <1>3 DEF Rises

LEMMA MatchesIsFaithful ==
  ASSUME NEW channel, NEW h, Matches(channel, h)
  PROVE  Faithful(channel, h)
<1>1. /\ Numbered(h) /\ Chained(h) /\ channel.dof \in Int /\ Slack(channel.dof) \in Int
      /\ Kept(channel, h, channel.dof)
      /\ channel.seq = h[Len(h)].seq /\ channel.time = h[Len(h)].time
  BY DEF Matches
<1> DEFINE n == Min({WindowLen, Len(h)})
<1>2. channel.window = Slice(h, Len(h), n)
  BY <1>1 DEF Kept, WindowOf
<1>3. n \in Nat
  <2>1. IsSequence(h)
    BY <1>1 DEF Numbered
  <2>2. Len(h) \in Nat /\ WindowLen \in Nat
    BY <2>1, DetectorAssumption DEF IsSequence
  <2> QED  BY <2>2, MinOfTwo
<1> HIDE DEF n
<1>4. Len(channel.window) = n
  <2> DEFINE w == channel.window
             T == {h[Len(h) - n + i].nis : i \in 1 .. n}
  <2>1. w = [i \in 1 .. n |-> h[Len(h) - n + i].nis]
    BY <1>2 DEF Slice
  <2>2. w \in [1 .. n -> T]
    BY <2>1
  <2> HIDE DEF w, T
  <2>3. w \in Seq(T) /\ DOMAIN w = 1 .. n
    BY ONLY <1>3, <2>2
  <2>4. Len(w) = n
    BY ONLY <1>3, <2>3
  <2> QED  BY <2>4 DEF w
<1>5. channel.hi = LargestRun(h, 1, channel.dof)
  <2>1. Rises(h, 1, channel.dof) \in SUBSET Int /\ TopOf(channel.hi, Rises(h, 1, channel.dof))
    BY <1>1, RisesType DEF Kept
  <2>2. Max(Rises(h, 1, channel.dof)) = channel.hi
    BY <2>1, TopIsMax
  <2> QED  BY <2>2 DEF LargestRun, Rises, Excess
<1>6. channel.lo = LargestRun(h, -1, channel.dof)
  <2>1. Rises(h, -1, channel.dof) \in SUBSET Int /\ TopOf(channel.lo, Rises(h, -1, channel.dof))
    BY <1>1, RisesType DEF Kept
  <2>2. Max(Rises(h, -1, channel.dof)) = channel.lo
    BY <2>1, TopIsMax
  <2> QED  BY <2>2 DEF LargestRun, Rises, Excess
<1>7. channel.seq = Last(h).seq /\ channel.time = Last(h).time
  BY <1>1 DEF Last
<1>8. channel.window = [i \in 1 .. Len(channel.window) |->
                          h[Len(h) - Len(channel.window) + i].nis]
  <2>1. channel.window = Slice(h, Len(h), Len(channel.window))
    BY <1>2, <1>4
  <2> QED  BY <2>1 DEF Slice
<1> QED  BY <1>1, <1>4, <1>5, <1>6, <1>7, <1>8 DEF Faithful, Chained, n

LEMMA WindowsMatch == RunInv /\ WindowInv => WindowsMatchHistory
<1> SUFFICES ASSUME RunInv, WindowInv PROVE WindowsMatchHistory
  OBVIOUS
<1>1. SUFFICES /\ DOMAIN accepted = Retained
               /\ \A key \in Retained : Matches(ChannelAt(key), accepted[key])
  <2> SUFFICES ASSUME DOMAIN accepted = Retained,
                      \A key \in Retained : Matches(ChannelAt(key), accepted[key])
               PROVE  WindowsMatchHistory
    OBVIOUS
  <2>1. \A key \in Retained : Faithful(ChannelAt(key), accepted[key])
    BY MatchesIsFaithful
  <2> QED  BY <2>1 DEF WindowsMatchHistory, Faithful
<1>2. Uninstalled => LiveTracks = {}
  BY DEF Uninstalled, LiveTracks
<1>3. CASE Bare
  <2>1. BareRun /\ Unheld /\ LiveTracks = {}
    BY <1>2, <1>3 DEF WindowInv
  <2>2. Retained = RetainedBy(tracks)
    BY <2>1, EmptyRetains DEF Retained, Unheld
  <2>3. \A key : ChannelAt(key) = tracks[key[1]][key[2]]
    BY <1>3 DEF Bare, ChannelAt
  <2>4. ASSUME NEW key \in Retained PROVE Matches(ChannelAt(key), accepted[key])
    <3>1. PICK t, m : Has(tracks, t, m) /\ key = <<t, m>>
      BY <2>2, <2>4, RetainedIs
    <3>2. ChannelAt(key) = tracks[t][m]
      BY <2>3, <3>1
    <3> QED  BY <2>1, <3>1, <3>2 DEF BareRun
  <2> QED  BY <2>1, <2>2, <2>4 DEF BareRun
<1>4. CASE owner = "scalar"
  <2>1. ScalarRun /\ ScalarKept /\ Idle /\ LiveTracks = {}
    BY <1>2, <1>4 DEF WindowInv, RunInv
  <2>2. Retained = RetainedBy(monitor.mirror)
    BY <2>1, EmptyRetains DEF Retained, Idle
  <2>3. \A key : ChannelAt(key) = monitor.mirror[key[1]][key[2]]
    BY <1>4 DEF ChannelAt
  <2>4. CASE monitor.state # "Active"
    <3>1. DOMAIN accepted = {} /\ Retained = {}
      BY <2>1, <2>2, <2>4, EmptyRetains DEF ScalarRun, ScalarKept, MonitorKept
    <3> QED  BY <3>1
  <2>5. CASE monitor.state = "Active"
    <3>1. DOMAIN accepted = ScalarKeys /\ monitor.roster = Roster
      BY <2>1, <2>5 DEF ScalarRun
    <3>2. /\ \A t, k : Has(monitor.mirror, t, k) <=> \E i \in DOMAIN Roster : Slot(monitor, i, t, k)
          /\ \A i \in DOMAIN Roster :
               Matches(monitor.mirror[monitor.track][Roster[i].modality],
                       ScalarHistory[Roster[i].modality])
      BY <2>1, <2>5, <3>1 DEF ScalarKept, MonitorKept
    <3>3. \A c : c \in Retained <=> c \in ScalarKeys
      <4> SUFFICES ASSUME NEW c PROVE c \in Retained <=> c \in ScalarKeys
        OBVIOUS
      <4>1. c \in Retained <=> \E t, k : Has(monitor.mirror, t, k) /\ c = <<t, k>>
        BY <2>2, RetainedIs
      <4> QED  BY <3>1, <3>2, <4>1 DEF ScalarKeys, Slot
    <3>4. ASSUME NEW key \in Retained PROVE Matches(ChannelAt(key), accepted[key])
      <4>1. PICK i \in DOMAIN Roster : key = <<monitor.track, Roster[i].modality>>
        BY <3>3, <3>4 DEF ScalarKeys
      <4>2. ChannelAt(key) = monitor.mirror[monitor.track][Roster[i].modality]
        BY <2>3, <4>1
      <4>3. ScalarHistory[Roster[i].modality] = accepted[key]
        BY <3>1, <3>3, <3>4, <4>1 DEF ScalarHistory
      <4> QED  BY <3>2, <4>2, <4>3
    <3> QED  BY <3>1, <3>3, <3>4
  <2> QED  BY <2>4, <2>5
<1>5. CASE owner = "native"
  <2>1. NativeRun /\ NativeKept /\ Unprepared /\ Idle /\ Unheld
    BY <1>5 DEF WindowInv, RunInv
  <2>2. Retained = LiveTracks
    BY <2>1, EmptyRetains DEF Retained, Idle, Unheld
  <2>3. \A key : ChannelAt(key) =
          native.tracks[key].monitor.mirror[native.tracks[key].source.track][Visual]
    BY <1>5 DEF ChannelAt
  <2>4. CASE native.pc # "prepared"
    <3>1. DOMAIN accepted = {}
      BY <2>1, <2>4 DEF NativeRun
    <3>2. LiveTracks = {}
      BY <1>2, <2>1, <2>4 DEF Unprepared
    <3> QED  BY <2>2, <3>1, <3>2
  <2>5. CASE native.pc = "prepared"
    <3>1. /\ DOMAIN native.tracks = DOMAIN Entities
          /\ DOMAIN accepted = {i \in DOMAIN Entities : Live(native.tracks[i])}
          /\ \A i \in DOMAIN accepted : StandsAt(native.tracks[i], accepted[i])
          /\ \A i \in DOMAIN Entities : TrackKept(native.tracks[i], PastOf(i))
      BY <2>1, <2>5 DEF NativeRun, NativeKept
    <3>2. ASSUME NEW i \in DOMAIN accepted
          PROVE  /\ i \in LiveTracks
                 /\ Matches(native.tracks[i].monitor.mirror[native.tracks[i].source.track][Visual],
                            accepted[i])
      <4> DEFINE m == native.tracks[i].monitor
      <4>1. native.tracks[i].pc = "active" /\ m.state = "Active" /\ i \in DOMAIN native.tracks
        BY <3>1 DEF StandsAt, Live
      <4>2. /\ m.roster = VisualRoster /\ m.track = native.tracks[i].source.track
            /\ MonitorKept(m, VisualHistory(accepted[i]))
        BY <3>1, <4>1 DEF TrackKept, PastOf
      <4> HIDE DEF m
      <4>3. 1 \in DOMAIN m.roster /\ m.roster[1].modality = Visual
        BY <4>2, VisualRostered
      <4>4. Has(m.mirror, m.track, Visual) /\ VisualHistory(accepted[i])[Visual] = accepted[i]
        BY <4>1, <4>2, <4>3 DEF MonitorKept, Slot, VisualHistory, m
      <4>5. m.mirror # NoTracks
        BY <4>4, EmptyHas
      <4>6. Matches(m.mirror[m.track][Visual], accepted[i])
        BY <4>1, <4>2, <4>3, <4>4 DEF MonitorKept, m
      <4> QED  BY <4>1, <4>2, <4>5, <4>6 DEF LiveTracks, m
    <3>3. ASSUME NEW i \in LiveTracks PROVE i \in DOMAIN accepted
      <4>1. /\ i \in DOMAIN Entities /\ native.tracks[i].pc = "active"
            /\ native.tracks[i].monitor.mirror # NoTracks
        BY <3>1, <3>3 DEF LiveTracks
      <4>2. native.tracks[i].monitor.state = "Active"
        BY <3>1, <4>1 DEF TrackKept, MonitorKept
      <4> QED  BY <3>1, <4>1, <4>2 DEF Live
    <3> QED  BY <2>2, <2>3, <3>2, <3>3
  <2> QED  BY <2>4, <2>5
<1> QED  BY <1>3, <1>4, <1>5 DEF WindowInv, Bare

(* However a detector is held, through gaps, refusals, retirements, storage *)
(* failures and removals (ingest_inner, assess_frame, assess, remove_track, *)
(* clear): what it keeps of a channel is computed from exactly what that    *)
(* channel was given since it began.                                        *)
THEOREM WindowsAlwaysMatch == Spec => []WindowsMatchHistory
<1>1. Init => RunInv /\ WindowInv
  BY RunStarts, WindowStarts
<1>2. RunInv /\ WindowInv /\ [Next]_vars => (RunInv /\ WindowInv)'
  BY RunStep, WindowStep
<1> QED  BY <1>1, <1>2, WindowsMatch, PTL DEF Spec

-----------------------------------------------------------------------------
(* Consistency channels, the first pass: what is kept of a stream, stated   *)
(* on all of it.                                                            *)

ReadFold == INSTANCE FoldFacts WITH Step <- ReadNext

LEMMA ReadIsFold ==
  /\ Read = ReadFold!Fold(Unread, stream, stream[1].track)
  /\ Read' = ReadFold!Fold(Unread, stream', stream'[1].track)
<1>1. Read = ReadFold!Fold(Unread, stream, stream[1].track)
  BY DEF Read, ReadFold!Fold, FoldLeft, MapThenFoldSet, Max,
     ReadFold!FoldLeft, ReadFold!MapThenFoldSet, ReadFold!Max
<1>2. Read' = ReadFold!Fold(Unread, stream', stream'[1].track)
  BY DEF Read, ReadFold!Fold, FoldLeft, MapThenFoldSet, Max,
     ReadFold!FoldLeft, ReadFold!MapThenFoldSet, ReadFold!Max
<1> QED  BY <1>1, <1>2

Grown(obs) ==
  /\ stream \in Seq(PidObservations) /\ obs \in PidObservations
  /\ stream' = Append(stream, obs)

LEMMA ReadGrows ==
  ASSUME NEW obs, Grown(obs)
  PROVE  Read' = ReadNext(Read, obs, stream'[1].track)
<1> DEFINE c == stream'[1].track
<1>1. Read' = ReadFold!Fold(Unread, Append(stream, obs), c)
  BY ReadIsFold DEF Grown
<1>2. ReadFold!Fold(Unread, stream, c) = Read
  <2>1. CASE stream = <<>>
    BY <2>1, ReadIsFold, ReadFold!FoldEmpty
  <2>2. CASE stream # <<>>
    <3>1. stream'[1] = stream[1]
      BY <2>2 DEF Grown
    <3> QED  BY <3>1, ReadIsFold
  <2> QED  BY <2>1, <2>2
<1> HIDE DEF c
<1>3. stream \in Seq(PidObservations) /\ obs \in PidObservations
  BY DEF Grown
<1>4. ReadFold!Fold(Unread, Append(stream, obs), c)
        = ReadNext(ReadFold!Fold(Unread, stream, c), obs, c)
  BY <1>3, ReadFold!FoldAppend
<1> QED  BY <1>1, <1>2, <1>4 DEF c

(* The new observation comes last.                                          *)
New == Len(stream) + 1

LEMMA NewIs ==
  ASSUME NEW obs, Grown(obs)
  PROVE  /\ New \in Nat /\ New \notin DOMAIN stream /\ DOMAIN stream' = DOMAIN stream \cup {New}
         /\ \A i \in DOMAIN stream : i \in Nat /\ i < New /\ stream'[i] = stream[i]
         /\ stream'[New] = obs
BY DEF Grown, New

LEMMA WantedGrows ==
  ASSUME NEW obs, Grown(obs)
  PROVE  /\ Wanted \subseteq DOMAIN stream
         /\ obs.modality \in Requested => Wanted' = Wanted \cup {New}
         /\ obs.modality \notin Requested => Wanted' = Wanted
<1>1. Wanted' = {i \in DOMAIN stream \cup {New} : stream'[i].modality \in Requested}
  BY NewIs DEF Wanted
<1> QED  BY <1>1, NewIs DEF Wanted

LEMMA Observed ==
  ASSUME stream \in Seq(PidObservations)
  PROVE  \A i \in DOMAIN stream :
           /\ i \in Nat /\ stream[i] \in PidObservations
           /\ stream[i].seq \in Nat /\ stream[i].time \in Nat
           /\ stream[i].projection # None => stream[i].projection.provenance # None
BY AlignmentAssumption

FitsStream(obs) ==
  \A i \in DOMAIN stream :
    /\ stream[i].track = obs.track /\ stream[i].seq <= obs.seq
    /\ stream[i].projection # None /\ obs.projection # None
       /\ stream[i].projection.prior = obs.projection.prior => stream[i].seq = obs.seq

FitsChannel(obs) ==
  \A i \in Wanted :
    stream[i].modality = obs.modality => stream[i].seq < obs.seq /\ stream[i].time < obs.time

LEMMA OrderlyGrows ==
  ASSUME NEW obs, Grown(obs)
  PROVE  Orderly' <=> /\ Orderly /\ FitsStream(obs)
                      /\ obs.modality \in Requested => FitsChannel(obs)
<1> DEFINE Pair(i, j) ==
             /\ stream[i].track = stream[j].track
             /\ i < j => stream[i].seq <= stream[j].seq
             /\ stream[i].projection # None /\ stream[j].projection # None
                /\ stream[i].projection.prior = stream[j].projection.prior
                => stream[i].seq = stream[j].seq
           Follow(i, j) == i < j /\ stream[i].modality = stream[j].modality
                           => stream[i].seq < stream[j].seq /\ stream[i].time < stream[j].time
<1>. PICK n : n = New
  OBVIOUS
<1>0. /\ n \in Nat /\ n \notin DOMAIN stream /\ DOMAIN stream' = DOMAIN stream \cup {n}
      /\ \A i \in DOMAIN stream : i \in Nat /\ i < n /\ stream'[i] = stream[i]
      /\ stream'[n] = obs
  BY NewIs
<1>1. /\ Orderly <=> /\ \A i, j \in DOMAIN stream : Pair(i, j)
                     /\ \A i, j \in Wanted : Follow(i, j)
      /\ Orderly' <=> /\ \A i, j \in DOMAIN stream' : Pair(i, j)'
                      /\ \A i, j \in Wanted' : Follow(i, j)'
  BY DEF Orderly
<1>2. \A i, j \in DOMAIN stream : (Pair(i, j)' <=> Pair(i, j)) /\ (Follow(i, j)' <=> Follow(i, j))
  BY NewIs
<1>3. obs.seq \in Nat
  BY AlignmentAssumption DEF Grown
<1>4. Pair(n, n)' /\ Follow(n, n)'
  BY <1>0, <1>3
<1>5. (\A i \in DOMAIN stream : Pair(i, n)' /\ Pair(n, i)') <=> FitsStream(obs)
  <2>1. \A i \in DOMAIN stream : stream[i].seq \in Nat
    BY Observed DEF Grown
  <2>2. ASSUME NEW i \in DOMAIN stream
        PROVE  (Pair(i, n)' /\ Pair(n, i)') <=>
                 /\ stream[i].track = obs.track /\ stream[i].seq <= obs.seq
                 /\ stream[i].projection # None /\ obs.projection # None
                    /\ stream[i].projection.prior = obs.projection.prior => stream[i].seq = obs.seq
    <3>1. /\ stream'[i] = stream[i] /\ stream'[n] = obs /\ i < n /\ ~(n < i)
          /\ stream[i].seq \in Nat
      BY <1>0, <2>1
    <3> QED  BY <3>1
  <2> QED  BY <2>2 DEF FitsStream
<1>6. (\A i \in Wanted : Follow(i, n)' /\ Follow(n, i)') <=> FitsChannel(obs)
  <2>1. \A i \in Wanted : i \in DOMAIN stream /\ stream[i].seq \in Nat /\ stream[i].time \in Nat
    BY Observed, WantedGrows DEF Grown
  <2>2. ASSUME NEW i \in Wanted
        PROVE  (Follow(i, n)' /\ Follow(n, i)') <=>
                 (stream[i].modality = obs.modality
                  => stream[i].seq < obs.seq /\ stream[i].time < obs.time)
    <3>1. stream'[i] = stream[i] /\ stream'[n] = obs /\ i < n /\ ~(n < i)
      BY <1>0, <2>1
    <3> QED  BY <3>1
  <2> QED  BY <2>2 DEF FitsChannel
<1> HIDE DEF Pair, Follow
<1>7. (\A i, j \in DOMAIN stream' : Pair(i, j)')
        <=> (\A i, j \in DOMAIN stream : Pair(i, j)) /\ FitsStream(obs)
  BY <1>2, <1>4, <1>5, NewIs
<1>8. (\A i, j \in Wanted' : Follow(i, j)')
        <=> (\A i, j \in Wanted : Follow(i, j)) /\ (obs.modality \in Requested => FitsChannel(obs))
  <2>1. \A i, j \in Wanted : Follow(i, j)' <=> Follow(i, j)
    BY <1>2, WantedGrows
  <2>2. CASE obs.modality \in Requested
    <3>1. Wanted' = Wanted \cup {New}
      BY <2>2, WantedGrows
    <3> QED  BY <1>4, <1>6, <2>1, <2>2, <3>1
  <2>3. CASE obs.modality \notin Requested
    BY <2>1, <2>3, WantedGrows
  <2> QED  BY <2>2, <2>3
<1> QED  BY <1>1, <1>7, <1>8

-----------------------------------------------------------------------------
(* What the first pass knows of a stream it has not refused.                *)

IsPass(pass) ==
  pass = [error |-> pass.error, lastSeq |-> pass.lastSeq, lastTime |-> pass.lastTime,
          breaks |-> pass.breaks, priors |-> pass.priors, frames |-> pass.frames]

NumberRead(pass) ==
  /\ pass.lastSeq \in Nat
  /\ \A i \in DOMAIN stream : stream[i].seq <= pass.lastSeq
  /\ pass.lastSeq = 0 \/ \E i \in DOMAIN stream : stream[i].seq = pass.lastSeq

PriorsRead(pass) ==
  /\ \A p \in DOMAIN pass.priors :
       \E i \in DOMAIN stream : stream[i].projection # None /\ stream[i].projection.prior = p
  /\ \A i \in DOMAIN stream :
       stream[i].projection # None =>
         /\ stream[i].projection.prior \in DOMAIN pass.priors
         /\ pass.priors[stream[i].projection.prior] = stream[i].seq

TimesRead(pass) ==
  /\ \A m \in DOMAIN pass.lastTime :
       \E i \in Wanted : stream[i].modality = m /\ stream[i].time = pass.lastTime[m]
  /\ \A i \in Wanted :
       /\ stream[i].modality \in DOMAIN pass.lastTime
       /\ stream[i].time <= pass.lastTime[stream[i].modality]

(* The frames are the newest ones.                                          *)
SeqsSeen == {stream[i].seq : i \in Wanted}

FramesKept(pass) ==
  LET kept == DOMAIN pass.frames IN
  /\ kept \subseteq SeqsSeen
  /\ \A s \in kept, u \in SeqsSeen : u > s => u \in kept
  /\ IsFiniteSet(kept) /\ Cardinality(kept) <= MaxRetainedFrames
  /\ kept = SeqsSeen \/ Cardinality(kept) = MaxRetainedFrames

ReadingOf(obs) == [projection |-> obs.projection, time |-> obs.time]

FrameRead(s, frame) ==
  /\ \A m \in DOMAIN frame : \E i \in Wanted : stream[i].seq = s /\ stream[i].modality = m
  /\ \A i \in Wanted :
       stream[i].seq = s => /\ stream[i].modality \in DOMAIN frame
                            /\ frame[stream[i].modality] = ReadingOf(stream[i])

FramesRead(pass) == \A s \in DOMAIN pass.frames : FrameRead(s, pass.frames[s])

(* Its channel was silent for too long before observation i.                *)
Before(i) == {j \in Wanted : j < i /\ stream[j].modality = stream[i].modality}

Late(i) ==
  Before(i) # {} /\ \A j \in Before(i) : stream[i].time - stream[j].time > MaxInterSampleGap

BreaksRead(pass) ==
  \A s : s \in pass.breaks <=>
           s \in DOMAIN pass.frames /\ \E i \in Wanted : stream[i].seq = s /\ Late(i)

ReadHolds(pass) ==
  /\ IsPass(pass) /\ NumberRead(pass) /\ PriorsRead(pass) /\ TimesRead(pass)
  /\ FramesKept(pass) /\ FramesRead(pass) /\ BreaksRead(pass)

ReadInv ==
  /\ stream \in Seq(PidObservations)
  /\ Read.error = None <=> Orderly
  /\ Orderly => ReadHolds(Read)

(* It refuses what does not fit.                                            *)
LEMMA StreamErrorIs ==
  ASSUME NEW obs, Grown(obs), Orderly,
         NEW pass, NumberRead(pass), PriorsRead(pass)
  PROVE  StreamError(pass, obs, stream'[1].track) = None <=> FitsStream(obs)
<1>1. obs.seq \in Nat
  BY AlignmentAssumption DEF Grown
<1>2. stream'[1].track = obs.track <=> \A i \in DOMAIN stream : stream[i].track = obs.track
  <2>1. CASE stream = <<>>
    BY <2>1 DEF Grown
  <2>2. CASE stream # <<>>
    <3>1. 1 \in DOMAIN stream /\ stream'[1] = stream[1]
      BY <2>2 DEF Grown
    <3>2. \A i \in DOMAIN stream : stream[i].track = stream[1].track
      BY <3>1 DEF Orderly
    <3> QED  BY <3>1, <3>2
  <2> QED  BY <2>1, <2>2
<1>3. obs.seq < pass.lastSeq <=> ~(\A i \in DOMAIN stream : stream[i].seq <= obs.seq)
  BY <1>1, Observed DEF NumberRead, Grown
<1>4. (/\ obs.projection # None /\ obs.projection.prior \in DOMAIN pass.priors
       /\ pass.priors[obs.projection.prior] # obs.seq)
      <=> ~(\A i \in DOMAIN stream :
              stream[i].projection # None /\ obs.projection # None
              /\ stream[i].projection.prior = obs.projection.prior => stream[i].seq = obs.seq)
  BY DEF PriorsRead
<1>5. None \notin {"AnotherTrack", "SequenceRegressed", "PriorReused"}
  BY AlignmentAssumption
<1> QED  BY <1>2, <1>3, <1>4, <1>5 DEF StreamError, FitsStream

(* A number a channel may speak at, and what is there already.              *)
LEMMA FrameAtIs ==
  ASSUME NEW obs, Grown(obs), FitsStream(obs),
         NEW pass, FramesKept(pass), FramesRead(pass)
  PROVE  /\ FrameRead(obs.seq, FrameAt(pass, obs.seq))
         /\ obs.seq \in SeqsSeen => obs.seq \in DOMAIN pass.frames
         /\ \A u \in SeqsSeen : u <= obs.seq
<1> DEFINE kept == DOMAIN pass.frames
<1>1. obs.seq \in Nat /\ MaxRetainedFrames \in Nat \ {0}
  BY AlignmentAssumption DEF Grown
<1>2. \A i \in Wanted : i \in DOMAIN stream
  BY WantedGrows
<1>3. SeqsSeen \subseteq Nat /\ \A u \in SeqsSeen : u <= obs.seq
  BY <1>2, Observed DEF SeqsSeen, FitsStream, Grown
<1>4. ASSUME obs.seq \in SeqsSeen PROVE obs.seq \in kept
  <2>1. kept # {}
    BY <1>1, <1>4, FS_EmptySet DEF FramesKept
  <2>2. PICK s \in kept : TRUE
    BY <2>1
  <2>3. s \in SeqsSeen /\ s <= obs.seq /\ s \in Nat
    BY <1>3, <2>2 DEF FramesKept
  <2> QED  BY <1>1, <1>4, <2>2, <2>3 DEF FramesKept
<1>5. FrameRead(obs.seq, FrameAt(pass, obs.seq))
  <2>1. CASE obs.seq \in kept
    BY <2>1 DEF FrameAt, FramesRead
  <2>2. CASE obs.seq \notin kept
    <3>1. FrameAt(pass, obs.seq) = [m \in {} |-> 0]
      BY <2>2 DEF FrameAt
    <3>2. \A i \in Wanted : stream[i].seq # obs.seq
      BY <1>4, <2>2 DEF SeqsSeen
    <3> QED  BY <3>1, <3>2 DEF FrameRead
  <2> QED  BY <2>1, <2>2
<1> QED  BY <1>3, <1>4, <1>5

LEMMA ChannelErrorIs ==
  ASSUME NEW obs, Grown(obs), FitsStream(obs),
         NEW pass, TimesRead(pass), FramesKept(pass), FramesRead(pass)
  PROVE  ChannelError(pass, obs) = None <=> FitsChannel(obs)
<1>1. obs.seq \in Nat /\ obs.time \in Nat
  BY AlignmentAssumption DEF Grown
<1>2. \A i \in Wanted : /\ i \in DOMAIN stream /\ stream[i].seq \in Nat /\ stream[i].time \in Nat
                        /\ stream[i].seq <= obs.seq
  BY Observed, WantedGrows DEF Grown, FitsStream
<1>3. obs.modality \in DOMAIN pass.lastTime /\ obs.time <= pass.lastTime[obs.modality]
      <=> ~(\A i \in Wanted : stream[i].modality = obs.modality => stream[i].time < obs.time)
  BY <1>1, <1>2 DEF TimesRead
<1>4. obs.modality \in DOMAIN FrameAt(pass, obs.seq)
      <=> ~(\A i \in Wanted : stream[i].modality = obs.modality => stream[i].seq < obs.seq)
  <2>1. FrameRead(obs.seq, FrameAt(pass, obs.seq))
    BY FrameAtIs
  <2> QED  BY <1>1, <1>2, <2>1 DEF FrameRead
<1>5. None \notin {"TimestampRegressed", "Duplicate"}
  BY AlignmentAssumption
<1> QED  BY <1>3, <1>4, <1>5 DEF ChannelError, FitsChannel

-----------------------------------------------------------------------------
(* One observation more, of any channel.                                    *)
LEMMA NotedIs ==
  ASSUME NEW pass, IsPass(pass), NEW obs
  PROVE  LET noted == Noted(pass, obs) IN
         /\ IsPass(noted) /\ noted.error = pass.error /\ noted.lastSeq = obs.seq
         /\ noted.priors = IF obs.projection = None THEN pass.priors
                           ELSE Put(pass.priors, obs.projection.prior, obs.seq)
         /\ noted.lastTime = pass.lastTime /\ noted.breaks = pass.breaks
         /\ noted.frames = pass.frames
<1> PICK priors : priors = IF obs.projection = None THEN pass.priors
                           ELSE Put(pass.priors, obs.projection.prior, obs.seq)
  OBVIOUS
<1>1. Noted(pass, obs) = [pass EXCEPT !.lastSeq = obs.seq, !.priors = priors]
  BY DEF Noted
<1> QED  BY <1>1 DEF IsPass

(* What a frame pushes out.                                                 *)
Filled(pass, obs) ==
  Put(pass.frames, obs.seq, Put(FrameAt(pass, obs.seq), obs.modality, ReadingOf(obs)))

Gone(pass, obs) ==
  LET filled == DOMAIN pass.frames \cup {obs.seq} IN
  IF Cardinality(filled) <= MaxRetainedFrames THEN {} ELSE {Min(filled)}

AfterFrame(pass, obs, framed) ==
  /\ IsPass(framed) /\ framed.error = pass.error /\ framed.lastSeq = pass.lastSeq
  /\ framed.priors = pass.priors
  /\ framed.lastTime = Put(pass.lastTime, obs.modality, obs.time)
  /\ framed.breaks = (pass.breaks \cup (IF LateSample(pass, obs) THEN {obs.seq} ELSE {}))
                       \ Gone(pass, obs)
  /\ DOMAIN framed.frames = (DOMAIN pass.frames \cup {obs.seq}) \ Gone(pass, obs)
  /\ \A s \in DOMAIN framed.frames : framed.frames[s] = Filled(pass, obs)[s]

LEMMA FramedIs ==
  ASSUME NEW pass, IsPass(pass), NEW obs
  PROVE  AfterFrame(pass, obs, Framed(pass, obs))
<1> DEFINE breaks == IF LateSample(pass, obs) THEN pass.breaks \cup {obs.seq} ELSE pass.breaks
           times == Put(pass.lastTime, obs.modality, obs.time)
           filled == Filled(pass, obs)
<1> PICK put : put =
      [pass EXCEPT !.breaks = IF LateSample(pass, obs) THEN @ \cup {obs.seq} ELSE @,
                   !.lastTime = Put(@, obs.modality, obs.time),
                   !.frames = Put(@, obs.seq,
                                  Put(FrameAt(pass, obs.seq), obs.modality,
                                      [projection |-> obs.projection, time |-> obs.time]))]
  OBVIOUS
<1>1. Framed(pass, obs) = Evicted(put)
  BY DEF Framed
<1>0. put = [pass EXCEPT !.breaks = breaks, !.lastTime = times, !.frames = filled]
  BY DEF Filled, ReadingOf
<1>2. DOMAIN filled = DOMAIN pass.frames \cup {obs.seq}
  BY DEF Filled, Put
<1>3. breaks = pass.breaks \cup (IF LateSample(pass, obs) THEN {obs.seq} ELSE {})
  OBVIOUS
<1> HIDE DEF breaks, times, filled
<1>4. /\ IsPass(put) /\ put.error = pass.error /\ put.lastSeq = pass.lastSeq
      /\ put.priors = pass.priors /\ put.lastTime = times /\ put.breaks = breaks
      /\ put.frames = filled
  BY <1>0 DEF IsPass
<1>5. CASE Cardinality(DOMAIN filled) <= MaxRetainedFrames
  <2>1. Evicted(put) = put /\ Gone(pass, obs) = {}
    BY <1>2, <1>4, <1>5 DEF Evicted, Gone
  <2> QED  BY <1>1, <1>2, <1>3, <1>4, <2>1 DEF times, filled, AfterFrame
<1>6. CASE ~(Cardinality(DOMAIN filled) <= MaxRetainedFrames)
  <2> DEFINE oldest == Min(DOMAIN filled)
             left == [s \in DOMAIN filled \ {oldest} |-> filled[s]]
  <2>1. Gone(pass, obs) = {oldest}
    BY <1>2, <1>6 DEF Gone
  <2>2. Evicted(put) = [put EXCEPT !.frames = left, !.breaks = breaks \ {oldest}]
    BY <1>4, <1>6 DEF Evicted
  <2>3. DOMAIN left = DOMAIN filled \ {oldest} /\ \A s \in DOMAIN left : left[s] = filled[s]
    OBVIOUS
  <2> HIDE DEF oldest, left
  <2>4. /\ IsPass(Evicted(put)) /\ Evicted(put).error = pass.error
        /\ Evicted(put).lastSeq = pass.lastSeq /\ Evicted(put).priors = pass.priors
        /\ Evicted(put).lastTime = times /\ Evicted(put).breaks = breaks \ {oldest}
        /\ Evicted(put).frames = left
    BY <1>4, <2>2 DEF IsPass
  <2> QED  BY <1>1, <1>2, <1>3, <2>1, <2>3, <2>4 DEF times, filled, AfterFrame
<1> QED  BY <1>5, <1>6

LEMMA NumberStep ==
  ASSUME NEW obs, Grown(obs), FitsStream(obs),
         NEW after, after.lastSeq = obs.seq
  PROVE  NumberRead(after)'
<1>1. obs.seq \in Nat
  BY AlignmentAssumption DEF Grown
<1> QED  BY <1>1, NewIs DEF NumberRead, FitsStream

LEMMA PriorsStep ==
  ASSUME NEW obs, Grown(obs), FitsStream(obs), NEW pass, PriorsRead(pass),
         NEW after,
         after.priors = IF obs.projection = None THEN pass.priors
                        ELSE Put(pass.priors, obs.projection.prior, obs.seq)
  PROVE  PriorsRead(after)'
<1>1. CASE obs.projection = None
  BY <1>1, NewIs DEF PriorsRead
<1>2. CASE obs.projection # None
  <2> DEFINE prior == obs.projection.prior
  <2>1. /\ DOMAIN after.priors = DOMAIN pass.priors \cup {prior}
        /\ after.priors[prior] = obs.seq
        /\ \A p \in DOMAIN pass.priors : p # prior => after.priors[p] = pass.priors[p]
    BY <1>2 DEF Put
  <2>2. \A i \in DOMAIN stream :
          stream[i].projection # None /\ stream[i].projection.prior = prior
          => stream[i].seq = obs.seq
    BY <1>2 DEF FitsStream
  <2>3. \A p \in DOMAIN after.priors : \E i \in DOMAIN stream' :
          stream'[i].projection # None /\ stream'[i].projection.prior = p
    <3>1. stream'[New].projection # None /\ stream'[New].projection.prior = prior
      BY <1>2, NewIs
    <3> QED  BY <2>1, <3>1, NewIs DEF PriorsRead
  <2>4. ASSUME NEW i \in DOMAIN stream', stream'[i].projection # None
        PROVE  /\ stream'[i].projection.prior \in DOMAIN after.priors
               /\ after.priors[stream'[i].projection.prior] = stream'[i].seq
    <3>1. CASE i = New
      BY <2>1, <3>1, NewIs
    <3>2. CASE i \in DOMAIN stream
      <4>1. stream'[i] = stream[i]
        BY <3>2, NewIs
      <4>2. /\ stream[i].projection.prior \in DOMAIN pass.priors
            /\ pass.priors[stream[i].projection.prior] = stream[i].seq
        BY <2>4, <3>2, <4>1 DEF PriorsRead
      <4> QED  BY <2>1, <2>2, <2>4, <3>2, <4>1, <4>2
    <3> QED  BY <2>4, <3>1, <3>2, NewIs
  <2> QED  BY <2>3, <2>4 DEF PriorsRead
<1> QED  BY <1>1, <1>2

(* What is known of the channels asked for does not change with another.    *)
LEMMA LateStays ==
  ASSUME NEW obs, Grown(obs)
  PROVE  \A i \in Wanted : Late(i)' <=> Late(i)
<1> SUFFICES ASSUME NEW i \in Wanted PROVE Late(i)' <=> Late(i)
  OBVIOUS
<1>1. Before(i)' = Before(i) /\ Before(i) \subseteq Wanted
  BY NewIs, WantedGrows DEF Before
<1> QED  BY <1>1, NewIs, WantedGrows DEF Late

LEMMA SkippedStep ==
  ASSUME NEW obs, Grown(obs), obs.modality \notin Requested,
         NEW pass, TimesRead(pass), FramesKept(pass), FramesRead(pass), BreaksRead(pass),
         NEW after, after.lastTime = pass.lastTime, after.frames = pass.frames,
         after.breaks = pass.breaks
  PROVE  TimesRead(after)' /\ FramesKept(after)' /\ FramesRead(after)' /\ BreaksRead(after)'
<1>1. Wanted' = Wanted /\ \A i \in Wanted : stream'[i] = stream[i]
  BY NewIs, WantedGrows
<1>2. SeqsSeen' = SeqsSeen
  BY <1>1 DEF SeqsSeen
<1>3. TimesRead(after)'
  BY <1>1 DEF TimesRead
<1>4. FramesKept(after)'
  BY <1>2 DEF FramesKept
<1>5. FramesRead(after)'
  BY <1>1 DEF FramesRead, FrameRead, ReadingOf
<1>6. BreaksRead(after)'
  BY <1>1, LateStays DEF BreaksRead
<1> QED  BY <1>3, <1>4, <1>5, <1>6

(* A channel that was asked for.                                            *)
LEMMA TimesStep ==
  ASSUME NEW obs, Grown(obs), obs.modality \in Requested, FitsChannel(obs),
         NEW pass, TimesRead(pass),
         NEW after, after.lastTime = Put(pass.lastTime, obs.modality, obs.time)
  PROVE  TimesRead(after)'
<1>1. obs.time \in Nat /\ Wanted' = Wanted \cup {New} /\ New \notin Wanted
  BY NewIs, WantedGrows, AlignmentAssumption DEF Grown
<1>2. \A i \in Wanted : stream'[i] = stream[i] /\ stream[i].time \in Nat
  BY Observed, NewIs, WantedGrows DEF Grown
<1>3. /\ DOMAIN after.lastTime = DOMAIN pass.lastTime \cup {obs.modality}
      /\ after.lastTime[obs.modality] = obs.time
      /\ \A m \in DOMAIN pass.lastTime : m # obs.modality => after.lastTime[m] = pass.lastTime[m]
  BY DEF Put
<1>4. ASSUME NEW m \in DOMAIN after.lastTime
      PROVE  \E i \in Wanted' : stream'[i].modality = m /\ stream'[i].time = after.lastTime[m]
  <2>1. CASE m = obs.modality
    BY <1>1, <1>3, <2>1, NewIs
  <2>2. CASE m # obs.modality
    BY <1>1, <1>2, <1>3, <2>2 DEF TimesRead
  <2> QED  BY <2>1, <2>2
<1>5. ASSUME NEW i \in Wanted'
      PROVE  /\ stream'[i].modality \in DOMAIN after.lastTime
             /\ stream'[i].time <= after.lastTime[stream'[i].modality]
  <2>1. CASE i = New
    BY <1>1, <1>3, <2>1, NewIs
  <2>2. CASE i \in Wanted
    <3>1. /\ stream'[i] = stream[i] /\ stream[i].modality \in DOMAIN pass.lastTime
          /\ stream[i].time <= pass.lastTime[stream[i].modality]
      BY <1>2, <2>2 DEF TimesRead
    <3>2. CASE stream[i].modality = obs.modality
      <4>1. stream[i].time < obs.time
        BY <2>2, <3>2 DEF FitsChannel
      <4> QED  BY <1>1, <1>2, <1>3, <2>2, <3>1, <3>2, <4>1
    <3>3. CASE stream[i].modality # obs.modality
      BY <1>3, <3>1, <3>3
    <3> QED  BY <3>2, <3>3
  <2> QED  BY <1>1, <2>1, <2>2
<1> QED  BY <1>4, <1>5 DEF TimesRead

LEMMA LateNew ==
  ASSUME NEW obs, Grown(obs),
         obs.modality \in Requested, NEW pass, TimesRead(pass), NEW n, n = New
  PROVE  Late(n)' <=> LateSample(pass, obs)
<1> DEFINE same == {j \in Wanted : stream[j].modality = obs.modality}
           last == pass.lastTime[obs.modality]
<1>1. /\ obs.time \in Nat /\ MaxInterSampleGap \in Nat /\ stream'[n] = obs
      /\ Wanted' = Wanted \cup {n} /\ n \notin Wanted /\ n \in Nat
  BY NewIs, WantedGrows, AlignmentAssumption, DetectorAssumption DEF Grown
<1>2. \A j \in Wanted : j < n /\ stream'[j] = stream[j] /\ stream[j].time \in Nat
  BY Observed, NewIs, WantedGrows DEF Grown
<1>3. Before(n)' = same
  <2>1. Before(n)' = {j \in Wanted' : j < n /\ stream'[j].modality = stream'[n].modality}
    BY DEF Before
  <2> QED  BY <1>1, <1>2, <2>1
<1>4. Late(n)' <=> same # {} /\ \A j \in same : obs.time - stream[j].time > MaxInterSampleGap
  <2>1. Late(n)' <=> /\ Before(n)' # {}
                     /\ \A j \in Before(n)' : stream'[n].time - stream'[j].time > MaxInterSampleGap
    BY DEF Late
  <2> QED  BY <1>1, <1>2, <1>3, <2>1
<1>5. same # {} <=> obs.modality \in DOMAIN pass.lastTime
  BY DEF TimesRead
<1>6. ASSUME same # {}
      PROVE  (\A j \in same : obs.time - stream[j].time > MaxInterSampleGap)
               <=> obs.time - last > MaxInterSampleGap
  <2>1. PICK i \in same : stream[i].time = last
    BY <1>5, <1>6 DEF TimesRead
  <2>2. \A j \in same : stream[j].time \in Nat /\ stream[j].time <= last
    BY <1>2 DEF TimesRead
  <2> HIDE DEF same, last
  <2> QED  BY <1>1, <2>1, <2>2
<1> QED  BY <1>4, <1>5, <1>6 DEF LateSample

(* The frames are still the newest ones.                                    *)
LEMMA FramesStep ==
  ASSUME NEW obs, Grown(obs), obs.modality \in Requested, FitsStream(obs),
         NEW pass, FramesKept(pass), FramesRead(pass),
         NEW after, DOMAIN after.frames = (DOMAIN pass.frames \cup {obs.seq}) \ Gone(pass, obs)
  PROVE  FramesKept(after)'
<1> DEFINE kept == DOMAIN pass.frames
           filled == kept \cup {obs.seq}
           left == DOMAIN after.frames
<1>1. /\ obs.seq \in Nat /\ MaxRetainedFrames \in Nat \ {0}
      /\ Wanted' = Wanted \cup {New} /\ stream'[New] = obs
      /\ \A i \in Wanted : i \in DOMAIN stream /\ stream'[i] = stream[i] /\ stream[i].seq \in Nat
  BY Observed, NewIs, WantedGrows, AlignmentAssumption DEF Grown
<1>2. SeqsSeen' = SeqsSeen \cup {obs.seq} /\ SeqsSeen \subseteq Nat
  <2>1. SeqsSeen' = {stream'[i].seq : i \in Wanted'}
    BY DEF SeqsSeen
  <2> QED  BY <1>1, <2>1 DEF SeqsSeen
<1>3. /\ \A u \in SeqsSeen : u <= obs.seq
      /\ obs.seq \in SeqsSeen => obs.seq \in kept
  BY FrameAtIs
<1>4. /\ kept \subseteq SeqsSeen /\ IsFiniteSet(kept) /\ Cardinality(kept) <= MaxRetainedFrames
      /\ \A s \in kept, u \in SeqsSeen : u > s => u \in kept
      /\ kept = SeqsSeen \/ Cardinality(kept) = MaxRetainedFrames
  BY DEF FramesKept
<1>5. /\ filled \subseteq SeqsSeen' /\ IsFiniteSet(filled) /\ filled # {}
      /\ \A s \in filled, u \in SeqsSeen' : u > s => u \in filled
  <2>1. ASSUME NEW s \in filled, NEW u \in SeqsSeen', u > s PROVE u \in filled
    <3>1. CASE u = obs.seq
      BY <3>1
    <3>2. CASE u \in SeqsSeen /\ s \in kept
      BY <1>4, <2>1, <3>2
    <3>3. CASE u \in SeqsSeen /\ s = obs.seq
      <4>1. u \in Nat /\ u <= obs.seq /\ u > obs.seq /\ obs.seq \in Nat
        BY <1>1, <1>2, <1>3, <2>1, <3>3
      <4> QED  BY ONLY <4>1
    <3> QED  BY <1>2, <3>1, <3>2, <3>3
  <2> QED  BY <1>2, <1>4, <2>1, FS_AddElement
<1>6. Cardinality(filled) = IF obs.seq \in kept THEN Cardinality(kept) ELSE Cardinality(kept) + 1
  BY <1>4, FS_AddElement
<1>7. Cardinality(kept) \in Nat /\ Cardinality(filled) \in Nat
  BY <1>4, <1>5, FS_CardinalityType
<1>8. left = filled \ Gone(pass, obs)
  OBVIOUS
<1>9. CASE Cardinality(filled) <= MaxRetainedFrames
  <2>1. left = filled
    BY <1>8, <1>9 DEF Gone
  <2>2. filled = SeqsSeen' \/ Cardinality(filled) = MaxRetainedFrames
    <3>1. CASE kept = SeqsSeen
      BY <1>2, <3>1
    <3>2. CASE Cardinality(kept) = MaxRetainedFrames
      BY <1>1, <1>6, <1>7, <1>9, <3>2
    <3> QED  BY <1>4, <3>1, <3>2
  <2> HIDE DEF kept, filled
  <2> QED  BY <1>5, <1>9, <2>1, <2>2 DEF FramesKept
<1>10. CASE ~(Cardinality(filled) <= MaxRetainedFrames)
  <2> DEFINE oldest == Min(filled)
  <2>1. left = filled \ {oldest}
    BY <1>8, <1>10 DEF Gone
  <2>2. oldest \in filled /\ \A y \in filled : oldest <= y
    <3>1. filled \in SUBSET Nat
      BY <1>1, <1>2, <1>4
    <3>2. Min(filled) = Numbers!Min(filled)
      BY DEF Min, Numbers!Min
    <3> HIDE DEF filled
    <3> QED  BY <1>5, <3>1, <3>2, Numbers!MinIs
  <2>3. Cardinality(filled) = MaxRetainedFrames + 1
    BY <1>1, <1>4, <1>6, <1>7, <1>10
  <2>4. IsFiniteSet(left) /\ Cardinality(left) = MaxRetainedFrames
    <3> HIDE DEF filled, left, oldest
    <3>1. IsFiniteSet(filled \ {oldest}) /\ Cardinality(filled \ {oldest}) = Cardinality(filled) - 1
      BY <1>5, <2>2, FS_RemoveElement
    <3> QED  BY <1>1, <2>1, <2>3, <3>1
  <2>5. ASSUME NEW s \in left, NEW u \in SeqsSeen', u > s PROVE u \in left
    <3>1. s \in filled /\ u \in filled /\ oldest <= s
      BY <1>5, <2>1, <2>2, <2>5
    <3>2. filled \subseteq Nat
      BY <1>1, <1>2, <1>4
    <3>3. oldest \in Nat /\ s \in Nat /\ u \in Nat
      BY <2>2, <3>1, <3>2
    <3> HIDE DEF filled, left, oldest
    <3>4. u # oldest
      BY <2>5, <3>1, <3>3
    <3> QED  BY <2>1, <3>1, <3>4
  <2>6. left \subseteq SeqsSeen' /\ Cardinality(left) <= MaxRetainedFrames
    BY <1>1, <1>5, <2>1, <2>4
  <2> HIDE DEF left
  <2> QED  BY <2>4, <2>5, <2>6 DEF FramesKept, left
<1> QED  BY <1>9, <1>10

LEMMA SamplesStep ==
  ASSUME NEW obs, Grown(obs), obs.modality \in Requested,
         FitsStream(obs), FitsChannel(obs),
         NEW pass, FramesKept(pass), FramesRead(pass),
         NEW after, DOMAIN after.frames = (DOMAIN pass.frames \cup {obs.seq}) \ Gone(pass, obs),
         \A s \in DOMAIN after.frames : after.frames[s] = Filled(pass, obs)[s]
  PROVE  FramesRead(after)'
<1> DEFINE here == FrameAt(pass, obs.seq)
<1> PICK more : more = Put(here, obs.modality, ReadingOf(obs))
  OBVIOUS
<1>1. /\ obs.seq \in Nat /\ Wanted' = Wanted \cup {New} /\ stream'[New] = obs
      /\ \A i \in Wanted : stream'[i] = stream[i] /\ stream[i].seq \in Nat
  BY Observed, NewIs, WantedGrows, AlignmentAssumption DEF Grown
<1>2. FrameRead(obs.seq, here)
  BY FrameAtIs
<1>3. /\ DOMAIN more = DOMAIN here \cup {obs.modality} /\ more[obs.modality] = ReadingOf(obs)
      /\ \A m \in DOMAIN here : m # obs.modality => more[m] = here[m]
  BY DEF Put
<1>4. Filled(pass, obs) = Put(pass.frames, obs.seq, more)
  BY DEF Filled
<1> HIDE DEF here
<1>5. FrameRead(obs.seq, more)'
  <2>1. ASSUME NEW m \in DOMAIN more
        PROVE  \E i \in Wanted' : stream'[i].seq = obs.seq /\ stream'[i].modality = m
    <3>1. CASE m = obs.modality
      BY <1>1, <3>1
    <3>2. CASE m \in DOMAIN here
      BY <1>1, <1>2, <3>2 DEF FrameRead
    <3> QED  BY <1>3, <3>1, <3>2
  <2>2. ASSUME NEW i \in Wanted', stream'[i].seq = obs.seq
        PROVE  /\ stream'[i].modality \in DOMAIN more
               /\ more[stream'[i].modality] = ReadingOf(stream'[i])
    <3>1. CASE i = New
      BY <1>1, <1>3, <3>1
    <3>2. CASE i \in Wanted
      <4>1. stream'[i] = stream[i] /\ stream[i].modality # obs.modality
        BY <1>1, <2>2, <3>2 DEF FitsChannel
      <4> QED  BY <1>2, <1>3, <2>2, <3>2, <4>1 DEF FrameRead
    <3> QED  BY <1>1, <3>1, <3>2
  <2> QED  BY <2>1, <2>2 DEF FrameRead, ReadingOf
<1>6. ASSUME NEW s \in DOMAIN pass.frames, s # obs.seq
      PROVE  FrameRead(s, pass.frames[s])'
  <2>1. FrameRead(s, pass.frames[s])
    BY DEF FramesRead
  <2> QED  BY <1>1, <1>6, <2>1 DEF FrameRead, ReadingOf
<1>7. ASSUME NEW s \in DOMAIN after.frames PROVE FrameRead(s, after.frames[s])'
  <2>1. after.frames[s] = Put(pass.frames, obs.seq, more)[s]
    BY <1>4
  <2>2. CASE s = obs.seq
    <3>1. after.frames[s] = more
      BY <2>1, <2>2 DEF Put
    <3> QED  BY <1>5, <2>2, <3>1
  <2>3. CASE s # obs.seq
    <3>1. s \in DOMAIN pass.frames /\ after.frames[s] = pass.frames[s]
      BY <2>1, <2>3 DEF Put
    <3> QED  BY <1>6, <2>3, <3>1
  <2> QED  BY <2>2, <2>3
<1> QED  BY <1>7 DEF FramesRead

LEMMA BreaksStep ==
  ASSUME NEW obs, Grown(obs),
         obs.modality \in Requested, FitsStream(obs),
         NEW pass, TimesRead(pass), FramesKept(pass), FramesRead(pass), BreaksRead(pass),
         NEW after, DOMAIN after.frames = (DOMAIN pass.frames \cup {obs.seq}) \ Gone(pass, obs),
         after.breaks = (pass.breaks \cup (IF LateSample(pass, obs) THEN {obs.seq} ELSE {}))
                          \ Gone(pass, obs)
  PROVE  BreaksRead(after)'
<1> PICK n : n = New
  OBVIOUS
<1>1. /\ Wanted' = Wanted \cup {n} /\ stream'[n] = obs
      /\ \A i \in Wanted : stream'[i] = stream[i]
  BY NewIs, WantedGrows
<1>2. Late(n)' <=> LateSample(pass, obs)
  BY LateNew
<1>3. \A i \in Wanted : Late(i)' <=> Late(i)
  BY LateStays
<1>4. \A i \in Wanted : stream[i].seq = obs.seq => obs.seq \in DOMAIN pass.frames
  BY FrameAtIs DEF SeqsSeen
<1>5. ASSUME NEW s
      PROVE  s \in after.breaks <=> /\ s \in DOMAIN after.frames
                                    /\ \E i \in Wanted' : stream'[i].seq = s /\ Late(i)'
  <2>1. (\E i \in Wanted' : stream'[i].seq = s /\ Late(i)')
          <=> \/ \E i \in Wanted : stream[i].seq = s /\ Late(i)
              \/ s = obs.seq /\ LateSample(pass, obs)
    BY <1>1, <1>2, <1>3
  <2>2. s \in pass.breaks <=> /\ s \in DOMAIN pass.frames
                              /\ \E i \in Wanted : stream[i].seq = s /\ Late(i)
    BY DEF BreaksRead
  <2> QED  BY <1>4, <2>1, <2>2
<1> QED  BY <1>5 DEF BreaksRead

LEMMA ReadStep ==
  ASSUME NEW obs, Grown(obs), Orderly,
         NEW pass, ReadHolds(pass), pass.error = None,
         NEW after, after = ReadNext(pass, obs, stream'[1].track)
  PROVE  /\ after.error = None <=> Orderly'
         /\ Orderly' => ReadHolds(after)'
<1>1. /\ IsPass(pass) /\ NumberRead(pass) /\ PriorsRead(pass) /\ TimesRead(pass)
      /\ FramesKept(pass) /\ FramesRead(pass) /\ BreaksRead(pass)
  BY DEF ReadHolds
<1>2. Orderly' <=> FitsStream(obs) /\ (obs.modality \in Requested => FitsChannel(obs))
  BY OrderlyGrows
<1>3. StreamError(pass, obs, stream'[1].track) = None <=> FitsStream(obs)
  BY <1>1, StreamErrorIs
<1> DEFINE noted == Noted(pass, obs)
<1>4. /\ IsPass(noted) /\ noted.error = None /\ noted.lastSeq = obs.seq
      /\ noted.priors = IF obs.projection = None THEN pass.priors
                        ELSE Put(pass.priors, obs.projection.prior, obs.seq)
      /\ noted.lastTime = pass.lastTime /\ noted.breaks = pass.breaks
      /\ noted.frames = pass.frames
  BY <1>1, NotedIs
<1> HIDE DEF noted
<1>5. CASE ~FitsStream(obs)
  <2>1. after = [pass EXCEPT !.error = StreamError(pass, obs, stream'[1].track)]
    BY <1>3, <1>5 DEF ReadNext
  <2>2. after.error = StreamError(pass, obs, stream'[1].track)
    BY <1>1, <2>1 DEF IsPass
  <2> QED  BY <1>2, <1>3, <1>5, <2>2
<1>6. CASE FitsStream(obs) /\ obs.modality \notin Requested
  <2>1. after = noted
    BY <1>3, <1>6 DEF ReadNext, noted
  <2>2. NumberRead(after)' /\ PriorsRead(after)'
    BY <1>1, <1>4, <1>6, <2>1, NumberStep, PriorsStep
  <2>3. TimesRead(after)' /\ FramesKept(after)' /\ FramesRead(after)' /\ BreaksRead(after)'
    BY <1>1, <1>4, <1>6, <2>1, SkippedStep
  <2>4. IsPass(after)'
    BY <1>4, <2>1 DEF IsPass
  <2> QED  BY <1>2, <1>4, <1>6, <2>1, <2>2, <2>3, <2>4 DEF ReadHolds
<1>7. CASE FitsStream(obs) /\ obs.modality \in Requested /\ ~FitsChannel(obs)
  <2>1. ChannelError(pass, obs) # None
    BY <1>1, <1>7, ChannelErrorIs
  <2>2. after = [pass EXCEPT !.error = ChannelError(pass, obs)]
    BY <1>3, <1>7, <2>1 DEF ReadNext
  <2>3. after.error = ChannelError(pass, obs)
    BY <1>1, <2>2 DEF IsPass
  <2> QED  BY <1>2, <1>7, <2>1, <2>3
<1>8. CASE FitsStream(obs) /\ obs.modality \in Requested /\ FitsChannel(obs)
  <2>1. ChannelError(pass, obs) = None
    BY <1>1, <1>8, ChannelErrorIs
  <2>2. after = Framed(noted, obs)
    BY <1>3, <1>8, <2>1 DEF ReadNext, noted
  <2>3. LateSample(noted, obs) = LateSample(pass, obs)
    BY <1>4 DEF LateSample
  <2>4. Gone(noted, obs) = Gone(pass, obs) /\ Filled(noted, obs) = Filled(pass, obs)
    BY <1>4 DEF Gone, Filled, FrameAt
  <2>5. /\ IsPass(after) /\ after.error = None /\ after.lastSeq = obs.seq
        /\ after.priors = noted.priors
        /\ after.lastTime = Put(pass.lastTime, obs.modality, obs.time)
        /\ after.breaks = (pass.breaks \cup (IF LateSample(pass, obs) THEN {obs.seq} ELSE {}))
                            \ Gone(pass, obs)
        /\ DOMAIN after.frames = (DOMAIN pass.frames \cup {obs.seq}) \ Gone(pass, obs)
        /\ \A s \in DOMAIN after.frames : after.frames[s] = Filled(pass, obs)[s]
    <3>1. /\ IsPass(after) /\ after.error = noted.error /\ after.lastSeq = noted.lastSeq
          /\ after.priors = noted.priors
          /\ after.lastTime = Put(noted.lastTime, obs.modality, obs.time)
          /\ after.breaks = (noted.breaks \cup (IF LateSample(noted, obs) THEN {obs.seq} ELSE {}))
                              \ Gone(noted, obs)
          /\ DOMAIN after.frames = (DOMAIN noted.frames \cup {obs.seq}) \ Gone(noted, obs)
          /\ \A s \in DOMAIN after.frames : after.frames[s] = Filled(noted, obs)[s]
      <4>1. AfterFrame(noted, obs, after)
        BY <1>4, <2>2, FramedIs
      <4> QED  BY <4>1 DEF AfterFrame
    <3>2. after.breaks = (pass.breaks \cup (IF LateSample(pass, obs) THEN {obs.seq} ELSE {}))
                           \ Gone(pass, obs)
      BY <1>4, <2>3, <2>4, <3>1
    <3>3. /\ after.lastTime = Put(pass.lastTime, obs.modality, obs.time)
          /\ DOMAIN after.frames = (DOMAIN pass.frames \cup {obs.seq}) \ Gone(pass, obs)
      BY <1>4, <2>4, <3>1
    <3>4. \A s \in DOMAIN after.frames : after.frames[s] = Filled(pass, obs)[s]
      BY <2>4, <3>1
    <3> QED  BY <1>4, <3>1, <3>2, <3>3, <3>4
  <2>6. NumberRead(after)'
    BY <1>8, <2>5, NumberStep
  <2>7. PriorsRead(after)'
    <3>1. after.priors = IF obs.projection = None THEN pass.priors
                         ELSE Put(pass.priors, obs.projection.prior, obs.seq)
      BY <1>4, <2>5
    <3> QED  BY <1>1, <1>8, <3>1, PriorsStep
  <2>8. TimesRead(after)'
    BY <1>1, <1>8, <2>5, TimesStep
  <2>9. FramesKept(after)'
    BY <1>1, <1>8, <2>5, FramesStep
  <2>10. FramesRead(after)'
    BY <1>1, <1>8, <2>5, SamplesStep
  <2>11. BreaksRead(after)'
    BY <1>1, <1>8, <2>5, BreaksStep
  <2>12. IsPass(after)'
    BY <2>5 DEF IsPass
  <2> QED  BY <1>2, <1>8, <2>5, <2>6, <2>7, <2>8, <2>9, <2>10, <2>11, <2>12 DEF ReadHolds
<1> QED  BY <1>5, <1>6, <1>7, <1>8

LEMMA ReadInit ==
  ASSUME stream = <<>>
  PROVE  ReadInv
<1>1. Read = Unread
  BY ReadIsFold, ReadFold!FoldEmpty
<1>2. DOMAIN stream = {} /\ stream \in Seq(PidObservations) /\ Wanted = {} /\ SeqsSeen = {}
  BY DEF Wanted, SeqsSeen
<1>3. Orderly
  BY <1>2 DEF Orderly
<1>4. /\ Unread.error = None /\ IsPass(Unread) /\ Unread.lastSeq = 0 /\ DOMAIN Unread.priors = {}
      /\ DOMAIN Unread.lastTime = {} /\ DOMAIN Unread.frames = {} /\ Unread.breaks = {}
  BY DEF Unread, IsPass
<1>5. NumberRead(Unread) /\ PriorsRead(Unread) /\ TimesRead(Unread)
  BY <1>2, <1>4 DEF NumberRead, PriorsRead, TimesRead
<1>6. FramesKept(Unread) /\ FramesRead(Unread) /\ BreaksRead(Unread)
  <2>1. IsFiniteSet({}) /\ Cardinality({}) <= MaxRetainedFrames
    BY FS_EmptySet, AlignmentAssumption
  <2> QED  BY <1>2, <1>4, <2>1 DEF FramesKept, FramesRead, BreaksRead
<1> QED  BY <1>1, <1>2, <1>3, <1>4, <1>5, <1>6 DEF ReadInv, ReadHolds

LEMMA ReadKeeps ==
  ASSUME ReadInv, [Observe]_stream
  PROVE  ReadInv'
<1>1. CASE UNCHANGED stream
  <2>1. Read' = Read
    BY <1>1, ReadIsFold
  <2>2. (Orderly' <=> Orderly) /\ Wanted' = Wanted
    BY <1>1 DEF Orderly, Wanted
  <2>3. \A i \in Wanted : Late(i)' <=> Late(i)
    BY <1>1, <2>2 DEF Late, Before
  <2>4. SeqsSeen' = SeqsSeen
    BY <1>1, <2>2 DEF SeqsSeen
  <2>5. ReadHolds(Read) => ReadHolds(Read)'
    BY <1>1, <2>1, <2>2, <2>3, <2>4
    DEF ReadHolds, IsPass, NumberRead, PriorsRead, TimesRead, FramesKept, FramesRead, FrameRead,
        ReadingOf, BreaksRead
  <2> QED  BY <1>1, <2>1, <2>2, <2>5 DEF ReadInv
<1>2. ASSUME NEW obs \in PidObservations, stream' = Append(stream, obs)
      PROVE  ReadInv'
  <2>1. Grown(obs) /\ stream' \in Seq(PidObservations)
    BY <1>2 DEF Grown, ReadInv
  <2>2. Read' = ReadNext(Read, obs, stream'[1].track)
    BY <2>1, ReadGrows
  <2>3. CASE ~Orderly
    <3>1. Read.error # None /\ Read' = Read
      BY <2>2, <2>3 DEF ReadInv, ReadNext
    <3>2. ~Orderly'
      BY <2>1, <2>3, OrderlyGrows
    <3> QED  BY <2>1, <3>1, <3>2 DEF ReadInv
  <2>4. CASE Orderly
    <3>1. ReadHolds(Read) /\ Read.error = None
      BY <2>4 DEF ReadInv
    <3>2. PICK after : after = ReadNext(Read, obs, stream'[1].track)
      OBVIOUS
    <3>3. /\ after.error = None <=> Orderly'
          /\ Orderly' => ReadHolds(after)'
      BY <2>1, <2>4, <3>1, <3>2, ReadStep
    <3>4. Read' = after
      BY <2>2, <3>2
    <3>5. Orderly' => ReadHolds(Read)'
      BY <3>3, <3>4
      DEF ReadHolds, IsPass, NumberRead, PriorsRead, TimesRead, FramesKept, FramesRead, BreaksRead
    <3> QED  BY <2>1, <3>3, <3>4, <3>5 DEF ReadInv
  <2> QED  BY <2>3, <2>4
<1> QED  BY <1>1, <1>2 DEF Observe

LEMMA AlwaysRead == AlignSpec => []ReadInv
<1>1. stream = <<>> => ReadInv
  BY ReadInit
<1>2. ReadInv /\ [Observe]_stream => ReadInv'
  BY ReadKeeps
<1> QED  BY <1>1, <1>2, PTL DEF AlignSpec

-----------------------------------------------------------------------------
(* The second pass.  First the order in which it takes the frames.          *)
LEMMA GreatestIs ==
  ASSUME NEW S \in SUBSET Nat, S # {}, IsFiniteSet(S)
  PROVE  Max(S) \in S /\ \A y \in S : y <= Max(S)
<1>1. Numbers!IsFiniteSet(S) /\ Numbers!Max(S) = Max(S)
  BY DEF IsFiniteSet, Numbers!IsFiniteSet, Max, Numbers!Max
<1> QED  BY <1>1, Numbers!MaxIs

LEMMA AscendingExists ==
  ASSUME NEW S \in SUBSET Nat, IsFiniteSet(S)
  PROVE  \E q \in [1 .. Cardinality(S) -> S] : \A i, j \in DOMAIN q : i < j => q[i] < q[j]
<1> DEFINE Rising(q, n) == \A i, j \in 1 .. n : i < j => q[i] < q[j]
           Works == {n \in Nat : \A T \in SUBSET S :
                     Cardinality(T) = n => \E q \in [1 .. n -> T] : Rising(q, n)}
<1>1. 0 \in Works
  <2> SUFFICES ASSUME NEW T \in SUBSET S, Cardinality(T) = 0
               PROVE  \E q \in [1 .. 0 -> T] : Rising(q, 0)
    OBVIOUS
  <2> DEFINE q == [i \in 1 .. 0 |-> 0]
  <2>1. q \in [1 .. 0 -> T] /\ Rising(q, 0)
    OBVIOUS
  <2> QED  BY <2>1
<1>2. ASSUME NEW n \in Nat, n \in Works PROVE n + 1 \in Works
  <2> SUFFICES ASSUME NEW T \in SUBSET S, Cardinality(T) = n + 1
               PROVE  \E q \in [1 .. n + 1 -> T] : Rising(q, n + 1)
    OBVIOUS
  <2>1. IsFiniteSet(T) /\ T # {} /\ T \in SUBSET Nat
    <3>1. IsFiniteSet(T)
      BY FS_Subset
    <3>2. n + 1 # 0
      OBVIOUS
    <3>3. T # {}
      BY <3>2, FS_EmptySet
    <3> QED  BY <3>1, <3>3
  <2>2. PICK x \in T : \A y \in T : y <= x
    <3>1. Max(T) \in T /\ \A y \in T : y <= Max(T)
      BY <2>1, GreatestIs
    <3> QED  BY <3>1
  <2>3. Cardinality(T \ {x}) = n
    <3>1. Cardinality(T \ {x}) = Cardinality(T) - 1
      BY <2>1, FS_RemoveElement
    <3>2. (n + 1) - 1 = n
      OBVIOUS
    <3> QED  BY <3>1, <3>2
  <2>4. T \ {x} \in SUBSET S
    OBVIOUS
  <2>5. PICK q \in [1 .. n -> T \ {x}] : Rising(q, n)
    BY <1>2, <2>3, <2>4
  <2> DEFINE r == [i \in 1 .. n + 1 |-> IF i = n + 1 THEN x ELSE q[i]]
  <2>6. \A i \in 1 .. n : q[i] \in T /\ q[i] # x /\ q[i] \in Nat
    BY <2>1, <2>5
  <2>7. \A i \in 1 .. n : q[i] < x
    BY <2>1, <2>2, <2>6
  <2>8. \A i \in 1 .. n + 1 : i = n + 1 \/ (i \in 1 .. n /\ i # n + 1)
    OBVIOUS
  <2>9. r[n + 1] = x /\ \A i \in 1 .. n : r[i] = q[i]
    OBVIOUS
  <2>10. r \in [1 .. n + 1 -> T]
    BY <2>6, <2>8
  <2> HIDE DEF r
  <2>11. Rising(r, n + 1)
    <3> SUFFICES ASSUME NEW i \in 1 .. n + 1, NEW j \in 1 .. n + 1, i < j PROVE r[i] < r[j]
      OBVIOUS
    <3>1. i \in 1 .. n
      OBVIOUS
    <3>2. CASE j = n + 1
      BY <2>7, <2>9, <3>1, <3>2
    <3>3. CASE j \in 1 .. n
      BY <2>5, <2>9, <3>1, <3>3
    <3> QED  BY <2>8, <3>2, <3>3
  <2> QED  BY <2>10, <2>11
<1> HIDE DEF Works
<1>3. \A n \in Nat : n \in Works
  BY <1>1, <1>2, Numbers!Induction
<1>4. Cardinality(S) \in Nat
  BY FS_CardinalityType
<1>5. PICK q \in [1 .. Cardinality(S) -> S] : Rising(q, Cardinality(S))
  BY <1>3, <1>4 DEF Works
<1> QED  BY <1>5

LEMMA AscendingIs ==
  ASSUME NEW S \in SUBSET Nat, IsFiniteSet(S)
  PROVE  LET q == Ascending(S)  n == Cardinality(S) IN
         /\ n \in Nat /\ q \in [1 .. n -> S] /\ \A i, j \in 1 .. n : i < j => q[i] < q[j]
         /\ \A s \in S : \E i \in 1 .. n : q[i] = s
<1> DEFINE n == Cardinality(S)
<1>1. PICK q : q = Ascending(S)
  OBVIOUS
<1>2. q \in [1 .. n -> S] /\ \A i, j \in DOMAIN q : i < j => q[i] < q[j]
  BY <1>1, AscendingExists DEF Ascending
<1>3. n \in Nat
  BY FS_CardinalityType
<1> HIDE DEF n
<1>4. \A i, j \in 1 .. n : q[i] = q[j] => i = j
  <2> SUFFICES ASSUME NEW i \in 1 .. n, NEW j \in 1 .. n, q[i] = q[j], i # j PROVE FALSE
    OBVIOUS
  <2>1. q[i] \in Nat /\ q[j] \in Nat /\ DOMAIN q = 1 .. n
    BY <1>2
  <2>2. i < j \/ j < i
    BY <1>3
  <2> QED  BY <1>2, <2>1, <2>2
<1>5. q \in Injection(1 .. n, S)
  BY <1>2, <1>4 DEF Injection, IsInjective
<1>6. IsFiniteSet(1 .. n) /\ Cardinality(1 .. n) = n
  BY <1>3, FS_Interval
<1>7. q \in Surjection(1 .. n, S)
  BY <1>5, <1>6, FS_Injection DEF n
<1>8. \A s \in S : \E i \in 1 .. n : q[i] = s
  BY <1>7 DEF Surjection
<1> QED  BY <1>1, <1>2, <1>3, <1>8 DEF n

(* The frames that are kept are the newest.                                 *)
LEMMA NewestIs ==
  ASSUME stream \in Seq(PidObservations),
         NEW pass, NumberRead(pass), FramesKept(pass)
  PROVE  DOMAIN pass.frames = Newest /\ Newest \subseteq Nat
<1> DEFINE all == SeqsSeen
           kept == DOMAIN pass.frames
           above(s) == {u \in all : u > s}
<1>1. Newest = {s \in all : Cardinality(above(s)) < MaxRetainedFrames}
  BY DEF Newest, SeqsSeen
<1>2. MaxRetainedFrames \in Nat \ {0}
  BY AlignmentAssumption
<1>3. all \subseteq Nat /\ \A s \in all : s <= pass.lastSeq
  BY Observed DEF SeqsSeen, Wanted, NumberRead
<1>4. IsFiniteSet(all)
  BY <1>3, FS_BoundedSetOfNaturals DEF NumberRead
<1>5. /\ kept \subseteq all /\ IsFiniteSet(kept) /\ Cardinality(kept) <= MaxRetainedFrames
      /\ \A s \in kept, u \in all : u > s => u \in kept
      /\ kept = all \/ Cardinality(kept) = MaxRetainedFrames
  BY DEF FramesKept
<1> HIDE DEF all, kept
<1>6. ASSUME NEW s \in kept PROVE Cardinality(above(s)) < MaxRetainedFrames
  <2>1. above(s) \subseteq kept \ {s}
    <3> SUFFICES ASSUME NEW u \in all, u > s PROVE u \in kept \ {s}
      OBVIOUS
    <3>1. u \in kept /\ u \in Nat /\ s \in Nat
      BY <1>3, <1>5
    <3>2. u # s
      BY <3>1
    <3> QED  BY <3>1, <3>2
  <2>2. IsFiniteSet(kept \ {s}) /\ Cardinality(kept \ {s}) = Cardinality(kept) - 1
    BY <1>5, FS_RemoveElement
  <2>3. Cardinality(above(s)) <= Cardinality(kept \ {s}) /\ IsFiniteSet(above(s))
    BY <2>1, <2>2, FS_Subset
  <2>4. Cardinality(above(s)) \in Nat /\ Cardinality(kept) \in Nat
    BY <1>5, <2>3, FS_CardinalityType
  <2> QED  BY <1>2, <1>5, <2>2, <2>3, <2>4
<1>7. ASSUME NEW s \in all, s \notin kept PROVE ~(Cardinality(above(s)) < MaxRetainedFrames)
  <2>1. Cardinality(kept) = MaxRetainedFrames
    BY <1>5, <1>7
  <2>2. kept \subseteq above(s)
    BY <1>3, <1>5, <1>7
  <2>3. above(s) \in SUBSET all
    OBVIOUS
  <2>4. IsFiniteSet(above(s))
    BY <1>4, <2>3, FS_Subset
  <2>5. Cardinality(kept) <= Cardinality(above(s)) /\ Cardinality(above(s)) \in Nat
    BY <2>2, <2>4, FS_Subset, FS_CardinalityType
  <2> QED  BY <1>2, <2>1, <2>5
<1>8. kept = Newest
  BY <1>1, <1>5, <1>6, <1>7
<1> QED  BY <1>3, <1>5, <1>8 DEF kept

(* A frame holds what the channels said in it.                              *)
LEMMA SaidIs ==
  ASSUME NEW s, NEW frame, FrameRead(s, frame), NEW m \in Requested
  PROVE  /\ m \in DOMAIN frame <=> Said(s, m) # {}
         /\ \A a \in Said(s, m) : frame[m] = ReadingOf(a)
<1>1. \A a : a \in Said(s, m) <=> \E i \in Wanted : /\ stream[i].seq = s /\ stream[i].modality = m
                                                     /\ a = stream[i]
  BY DEF Said, Wanted
<1> QED  BY <1>1 DEF FrameRead

LEMMA ReadingsAre ==
  ASSUME NEW a
  PROVE  ReadingOf(a).projection = a.projection /\ ReadingOf(a).time = a.time
BY DEF ReadingOf

LEMMA WholeIs ==
  ASSUME NEW s, NEW frame, FrameRead(s, frame)
  PROVE  /\ Whole(frame) <=> \A m \in Requested : Said(s, m) # {}
         /\ \A a : a \in SaidByAll(s) <=> \E m \in Requested : a \in Said(s, m)
         /\ \A m \in Requested : \A a \in Said(s, m) :
              frame[m].projection = a.projection /\ frame[m].time = a.time
BY SaidIs, ReadingsAre DEF Whole, SaidByAll

LEMMA SoundIs ==
  ASSUME NEW s, NEW frame, FrameRead(s, frame)
  PROVE  /\ Sound(s) <=> \/ ~Whole(frame) \/ Projected(frame) = {}
                         \/ Projected(frame) = Requested /\ Attested(frame)
         /\ Sound(s) /\ Whole(frame) => Attested(frame)
<1>1. CASE ~Whole(frame)
  BY <1>1, WholeIs DEF Sound
<1>2. CASE Whole(frame)
  <2>1. \A m \in Requested : \E a : a \in Said(s, m) /\ frame[m].projection = a.projection
    BY <1>2, WholeIs
  <2>2. Sound(s) <=> \A a, b \in SaidByAll(s) : a.projection = b.projection
    BY <1>2, WholeIs DEF Sound
  <2>3. Sound(s) <=> Attested(frame)
    BY <2>1, <2>2, WholeIs DEF Attested
  <2>4. Projected(frame) = {} => Attested(frame)
    BY DEF Projected, Attested
  <2>5. Attested(frame) => Projected(frame) = {} \/ Projected(frame) = Requested
    BY DEF Projected, Attested
  <2> QED  BY <1>2, <2>3, <2>4, <2>5
<1> QED  BY <1>1, <1>2

(* When the channels of a frame spoke.                                      *)
LEMMA TimesAre ==
  ASSUME stream \in Seq(PidObservations),
         NEW s, NEW frame, FrameRead(s, frame), Whole(frame)
  PROVE  LET times == {a.time : a \in SaidByAll(s)} IN
         /\ {frame[m].time : m \in Requested} = times
         /\ times \in SUBSET Nat /\ times # {} /\ IsFiniteSet(times)
<1> DEFINE times == {a.time : a \in SaidByAll(s)}
           f == [m \in Requested |-> frame[m].time]
<1>1. \A m \in Requested : \E a : a \in Said(s, m) /\ frame[m].time = a.time
  BY WholeIs
<1>2. {frame[m].time : m \in Requested} = times
  BY <1>1, WholeIs
<1>3. times \in SUBSET Nat
  BY Observed DEF SaidByAll, Said
<1>4. times # {}
  BY <1>2, AlignmentAssumption
<1>5. IsFiniteSet(times)
  <2>1. f \in Surjection(Requested, times)
    BY <1>2 DEF Surjection
  <2>2. IsFiniteSet(Requested)
    BY AlignmentAssumption
  <2> HIDE DEF f, times
  <2> QED  BY <2>1, <2>2, FS_Surjection
<1> QED  BY <1>2, <1>3, <1>4, <1>5

LEMMA UsableIs ==
  ASSUME stream \in Seq(PidObservations),
         NEW s, NEW frame, FrameRead(s, frame)
  PROVE  Usable(s) <=> Whole(frame) /\ Projected(frame) = Requested /\ FrameCoherent(frame)
<1>1. (\A m \in Requested : \E a \in Said(s, m) : a.projection # None)
        <=> Whole(frame) /\ Projected(frame) = Requested
  BY WholeIs DEF Projected
<1>2. ASSUME Whole(frame)
      PROVE  FrameCoherent(frame)
               <=> \A a, b \in SaidByAll(s) : a.time - b.time <= MaxTimestampSkew
  <2> DEFINE times == {a.time : a \in SaidByAll(s)}
  <2>1. /\ times \in SUBSET Nat /\ times # {} /\ IsFiniteSet(times)
        /\ {frame[m].time : m \in Requested} = times
    BY <1>2, TimesAre
  <2>2. Min(times) = Numbers!Min(times)
    BY DEF Min, Numbers!Min
  <2>3. Latest(frame) = Max(times) /\ Earliest(frame) = Min(times)
    BY <2>1 DEF Latest, Earliest
  <2>4. (\A a, b \in SaidByAll(s) : a.time - b.time <= MaxTimestampSkew)
          <=> \A x, y \in times : x - y <= MaxTimestampSkew
    OBVIOUS
  <2> HIDE DEF times
  <2>5. /\ Max(times) \in times /\ \A y \in times : y <= Max(times)
        /\ Min(times) \in times /\ \A y \in times : Min(times) <= y
    <3>1. Max(times) \in times /\ \A y \in times : y <= Max(times)
      BY <2>1, GreatestIs
    <3>2. Numbers!Min(times) \in times /\ \A y \in times : Numbers!Min(times) <= y
      BY <2>1, Numbers!MinIs
    <3> QED  BY <2>2, <3>1, <3>2
  <2>6. (\A x, y \in times : x - y <= MaxTimestampSkew)
          <=> Max(times) - Min(times) <= MaxTimestampSkew
    <3>1. ASSUME Max(times) - Min(times) <= MaxTimestampSkew, NEW x \in times, NEW y \in times
          PROVE  x - y <= MaxTimestampSkew
      <4>1. /\ x \in Nat /\ y \in Nat /\ Max(times) \in Nat /\ Min(times) \in Nat
            /\ x <= Max(times) /\ Min(times) <= y /\ MaxTimestampSkew \in Nat
        BY <2>1, <2>5, DetectorAssumption
      <4> QED  BY <3>1, <4>1
    <3> QED  BY <2>5, <3>1
  <2> QED  BY <2>3, <2>4, <2>6 DEF FrameCoherent
<1> QED  BY <1>1, <1>2 DEF Usable

(* One provenance for a frame that may be a row.                            *)
LEMMA ProvenanceIs ==
  ASSUME stream \in Seq(PidObservations),
         NEW s, NEW frame, FrameRead(s, frame), Sound(s), Usable(s)
  PROVE  /\ \A a \in SaidByAll(s) : a.projection.provenance = Provenance(frame)
         /\ Provenance(frame) # None
<1> DEFINE M == CHOOSE m \in Requested : TRUE
<1>1. M \in Requested
  BY AlignmentAssumption
<1>2. Provenance(frame) = frame[M].projection.provenance
  BY DEF Provenance
<1> HIDE DEF M
<1>3. PICK a \in Said(s, M) : a.projection # None
  BY <1>1 DEF Usable
<1>4. a \in SaidByAll(s) /\ frame[M].projection = a.projection
  BY <1>1, <1>3, WholeIs
<1>5. \A b \in SaidByAll(s) : b.projection = a.projection
  BY <1>4 DEF Sound, Usable
<1>6. a.projection.provenance # None
  BY <1>3, Observed DEF Said
<1> QED  BY <1>2, <1>4, <1>5, <1>6

(* What breaks a frame off from the one before it.                          *)
LEMMA BreakIs ==
  ASSUME stream \in Seq(PidObservations), Orderly,
         NEW pass, FramesKept(pass), BreaksRead(pass), DOMAIN pass.frames = Newest,
         NEW s \in Newest, NEW u \in Newest, Adjacent(s, u), Usable(s)
  PROVE  u \notin pass.breaks <=>
           \A m \in Requested : \A a \in Said(s, m), b \in Said(u, m) :
             b.time - a.time <= MaxInterSampleGap
<1>1. \A i \in Wanted : /\ i \in DOMAIN stream /\ i \in Nat /\ stream[i].seq \in Nat
                        /\ stream[i].time \in Nat /\ stream[i].modality \in Requested
  BY Observed DEF Wanted
<1>2. MaxInterSampleGap \in Nat
  BY DetectorAssumption
<1>3. \A v \in SeqsSeen : s < v => v \in Newest
  BY DEF FramesKept
<1>4. Newest \subseteq SeqsSeen
  BY DEF FramesKept
<1>5. s \in Nat /\ u \in Nat /\ s < u
  BY <1>1, <1>4 DEF SeqsSeen, Adjacent
<1>6. \A i, j \in Wanted : i < j => stream[i].seq <= stream[j].seq
  BY <1>1 DEF Orderly
<1>7. \A i, j \in Wanted : i < j /\ stream[i].modality = stream[j].modality
                           => stream[i].seq < stream[j].seq /\ stream[i].time < stream[j].time
  BY DEF Orderly
<1>8. \A t, m, a : m \in Requested =>
        (a \in Said(t, m) <=> \E i \in Wanted : /\ stream[i].seq = t /\ stream[i].modality = m
                                                 /\ a = stream[i])
  BY DEF Said, Wanted
<1>9. \A i, j \in Wanted : stream[i].seq = u /\ stream[j].seq = s => j < i
  <2> SUFFICES ASSUME NEW i \in Wanted, NEW j \in Wanted, stream[i].seq = u, stream[j].seq = s
               PROVE  j < i
    OBVIOUS
  <2>1. i # j /\ ~(i < j)
    BY <1>1, <1>5, <1>6
  <2> QED  BY <1>1, <2>1
<1>10. ASSUME u \in pass.breaks
       PROVE  ~ \A m \in Requested : \A a \in Said(s, m), b \in Said(u, m) :
                  b.time - a.time <= MaxInterSampleGap
  <2>1. PICK i \in Wanted : stream[i].seq = u /\ Late(i)
    BY <1>10 DEF BreaksRead
  <2> DEFINE m == stream[i].modality
  <2>2. PICK a \in Said(s, m) : TRUE
    BY <1>1 DEF Usable
  <2>3. PICK j \in Wanted : stream[j].seq = s /\ stream[j].modality = m /\ a = stream[j]
    BY <1>1, <1>8, <2>2
  <2>4. j \in Before(i)
    BY <1>9, <2>1, <2>3 DEF Before
  <2>5. stream[i].time - stream[j].time > MaxInterSampleGap
    BY <2>1, <2>4 DEF Late
  <2>6. stream[i] \in Said(u, m) /\ m \in Requested
    BY <1>1, <1>8, <2>1
  <2>7. ~(stream[i].time - a.time <= MaxInterSampleGap)
    BY <1>1, <1>2, <2>3, <2>5
  <2> QED  BY <2>2, <2>6, <2>7
<1>11. ASSUME u \notin pass.breaks, NEW m \in Requested, NEW a \in Said(s, m), NEW b \in Said(u, m)
       PROVE  b.time - a.time <= MaxInterSampleGap
  <2>1. PICK j \in Wanted : stream[j].seq = s /\ stream[j].modality = m /\ a = stream[j]
    BY <1>8
  <2>2. PICK i \in Wanted : stream[i].seq = u /\ stream[i].modality = m /\ b = stream[i]
    BY <1>8
  <2>3. ~Late(i)
    BY <1>11, <2>2 DEF BreaksRead
  <2>4. j \in Before(i)
    BY <1>9, <2>1, <2>2 DEF Before
  <2>5. PICK k \in Before(i) : ~(stream[i].time - stream[k].time > MaxInterSampleGap)
    BY <2>3, <2>4 DEF Late
  <2>6. k \in Wanted /\ k < i /\ stream[k].modality = m
    BY <2>2 DEF Before
  <2>7. stream[k].seq < u
    BY <1>7, <2>2, <2>6
  <2>8. ~(s < stream[k].seq)
    <3>1. stream[k].seq \in SeqsSeen
      BY <2>6 DEF SeqsSeen
    <3> QED  BY <1>3, <2>7, <3>1 DEF Adjacent
  <2>9. k = j \/ k < j
    <3>1. ~(j < k)
      BY <1>7, <2>1, <2>6, <2>8
    <3> QED  BY <1>1, <2>1, <2>6, <3>1
  <2>10. stream[k].time <= stream[j].time
    BY <1>1, <1>7, <2>1, <2>6, <2>9
  <2>11. /\ stream[i].time \in Nat /\ stream[j].time \in Nat /\ stream[k].time \in Nat
    BY <1>1, <2>1, <2>2, <2>6
  <2>12. stream[i].time - stream[j].time <= MaxInterSampleGap
    <3> PICK x : x = stream[i].time
      OBVIOUS
    <3> PICK y : y = stream[j].time
      OBVIOUS
    <3> PICK z : z = stream[k].time
      OBVIOUS
    <3>1. x \in Nat /\ y \in Nat /\ z \in Nat /\ z <= y /\ ~(x - z > MaxInterSampleGap)
      BY <2>5, <2>10, <2>11
    <3>2. x - y <= MaxInterSampleGap
      BY ONLY <1>2, <3>1
    <3> QED  BY <3>2
  <2> QED  BY <2>1, <2>2, <2>12
<1> QED  BY <1>10, <1>11

Joined(pass, s, u) ==
  /\ u - s <= MaxSeqGap /\ u \notin pass.breaks
  /\ Provenance(pass.frames[s]) = Provenance(pass.frames[u])

LEMMA LinkedIs ==
  ASSUME stream \in Seq(PidObservations), Orderly,
         NEW pass, FramesKept(pass), FramesRead(pass), BreaksRead(pass),
         DOMAIN pass.frames = Newest,
         NEW s \in Newest, NEW u \in Newest, Adjacent(s, u),
         Sound(s), Usable(s), Sound(u), Usable(u)
  PROVE  Linked(s, u) <=> Joined(pass, s, u)
<1>1. FrameRead(s, pass.frames[s]) /\ FrameRead(u, pass.frames[u])
  BY DEF FramesRead
<1>2. /\ \A m \in Requested : \A a \in Said(s, m) :
           a.projection.provenance = Provenance(pass.frames[s])
      /\ \A m \in Requested : \A b \in Said(u, m) :
           b.projection.provenance = Provenance(pass.frames[u])
  BY <1>1, ProvenanceIs, WholeIs
<1>3. \E m \in Requested : Said(s, m) # {} /\ Said(u, m) # {}
  BY AlignmentAssumption DEF Usable
<1>4. (\A m \in Requested : \A a \in Said(s, m), b \in Said(u, m) :
         a.projection.provenance = b.projection.provenance)
        <=> Provenance(pass.frames[s]) = Provenance(pass.frames[u])
  BY <1>2, <1>3
<1>5. u \notin pass.breaks <=>
        \A m \in Requested : \A a \in Said(s, m), b \in Said(u, m) :
          b.time - a.time <= MaxInterSampleGap
  BY BreakIs
<1> QED  BY <1>4, <1>5 DEF Linked, Joined

(* One frame more.                                                          *)
IsRows(run) ==
  run = [error |-> run.error, rows |-> run.rows, provenance |-> run.provenance,
         firstTime |-> run.firstTime, lastTime |-> run.lastTime]

LEMMA NoRowsAre == IsRows(NoRows) /\ NoRows.error = None /\ NoRows.rows = <<>>
BY DEF IsRows, NoRows

LEMMA NextRowIs ==
  ASSUME stream \in Seq(PidObservations),
         NEW s, NEW frame, FrameRead(s, frame),
         NEW run, IsRows(run), run.error = None, NEW breaks
  PROVE  LET next == NextRow(run, s, frame, breaks) IN
         /\ ~Sound(s) => next.error # None
         /\ Sound(s) /\ ~Usable(s) => next = NoRows
         /\ Sound(s) /\ Usable(s) =>
              next = WithRow(IF ContinuesRun(run, s, frame, breaks) THEN run ELSE NoRows, s, frame)
<1> DEFINE next == NextRow(run, s, frame, breaks)
<1>1. CASE ~Sound(s)
  <2>1. Whole(frame) /\ Projected(frame) # {}
    BY <1>1, SoundIs
  <2>2. "PartlyProjected" # None /\ "MixedAttestation" # None
    BY AlignmentAssumption
  <2>3. CASE Projected(frame) # Requested
    <3>1. next = [run EXCEPT !.error = "PartlyProjected"]
      BY <2>1, <2>3 DEF NextRow
    <3> QED  BY <1>1, <2>2, <3>1 DEF IsRows
  <2>4. CASE Projected(frame) = Requested
    <3>1. ~Attested(frame)
      BY <1>1, <2>4, SoundIs
    <3>2. next = [run EXCEPT !.error = "MixedAttestation"]
      BY <2>1, <2>4, <3>1 DEF NextRow
    <3> QED  BY <1>1, <2>2, <3>2 DEF IsRows
  <2> QED  BY <2>3, <2>4
<1>2. CASE Sound(s)
  <2>1. Usable(s) <=> Whole(frame) /\ Projected(frame) = Requested /\ FrameCoherent(frame)
    BY UsableIs
  <2>2. /\ ~Whole(frame) \/ Projected(frame) = {} \/ Projected(frame) = Requested
        /\ Whole(frame) => Attested(frame)
    BY <1>2, SoundIs
  <2>3. Requested # {}
    BY AlignmentAssumption
  <2> QED  BY <1>2, <2>1, <2>2, <2>3 DEF NextRow
<1> QED  BY <1>1, <1>2

LEMMA WithRowIs ==
  ASSUME NEW run, IsRows(run), run.error = None, NEW s, NEW frame
  PROVE  LET next == WithRow(run, s, frame) IN
         /\ IsRows(next) /\ next.error = None /\ next.rows = Append(run.rows, s)
         /\ next.provenance = Provenance(frame) /\ next.lastTime = Latest(frame)
         /\ next.firstTime = IF run.rows = <<>> THEN Earliest(frame) ELSE run.firstTime
<1> PICK first : first = IF run.rows = <<>> THEN Earliest(frame) ELSE run.firstTime
  OBVIOUS
<1>1. WithRow(run, s, frame) =
        [run EXCEPT !.rows = Append(run.rows, s), !.provenance = Provenance(frame),
                    !.firstTime = first, !.lastTime = Latest(frame)]
  BY DEF WithRow
<1> QED  BY <1>1 DEF IsRows

(* The run that ends with the k-th frame, from the a-th one.                *)
RunFrom(pass, q, k, run, a) ==
  /\ IsRows(run) /\ run.rows \in Seq(Nat) /\ Len(run.rows) = k + 1 - a
  /\ \A x \in 1 .. k + 1 - a : run.rows[x] = q[a - 1 + x]
  /\ \A i \in a .. k : Usable(q[i])
  /\ \A i \in a .. k - 1 : Linked(q[i], q[i + 1])
  /\ a > 1 => ~Usable(q[a - 1]) \/ (a <= k /\ ~Linked(q[a - 1], q[a]))
  /\ a <= k => /\ run.provenance = Provenance(pass.frames[q[k]])
               /\ run.firstTime = Earliest(pass.frames[q[a]])
               /\ run.lastTime = Latest(pass.frames[q[k]])
  /\ a > k => run = NoRows

RowsUpTo(pass, q, k, run) ==
  /\ run.error = None <=> \A i \in 1 .. k : Sound(q[i])
  /\ run.error = None => \E a \in 1 .. k + 1 : RunFrom(pass, q, k, run, a)

(* All the frames, in order.                                                *)
Ordered(pass, q, n) ==
  /\ n \in Nat /\ q \in [1 .. n -> Newest] /\ Newest \subseteq Nat
  /\ \A i, j \in 1 .. n : i < j => q[i] < q[j]
  /\ \A s \in Newest : \E i \in 1 .. n : q[i] = s
  /\ DOMAIN pass.frames = Newest /\ FramesKept(pass) /\ FramesRead(pass) /\ BreaksRead(pass)

LEMMA Neighbours ==
  ASSUME NEW pass, NEW q, NEW n, Ordered(pass, q, n)
  PROVE  \A i, j \in 1 .. n : Adjacent(q[i], q[j]) <=> j = i + 1
<1>1. \A i \in 1 .. n : q[i] \in Nat
  BY DEF Ordered
<1>2. \A i, j \in 1 .. n : q[i] < q[j] <=> i < j
  <2> SUFFICES ASSUME NEW i \in 1 .. n, NEW j \in 1 .. n, q[i] < q[j], ~(i < j) PROVE FALSE
    BY DEF Ordered
  <2>1. i = j \/ j < i
    BY DEF Ordered
  <2> QED  BY <1>1, <2>1 DEF Ordered
<1>3. \A i, j \in 1 .. n :
        Adjacent(q[i], q[j]) <=> i < j /\ \A l \in 1 .. n : ~(i < l /\ l < j)
  <2> SUFFICES ASSUME NEW i \in 1 .. n, NEW j \in 1 .. n
               PROVE  Adjacent(q[i], q[j]) <=> i < j /\ \A l \in 1 .. n : ~(i < l /\ l < j)
    OBVIOUS
  <2>1. (\E v \in Newest : q[i] < v /\ v < q[j]) <=> \E l \in 1 .. n : i < l /\ l < j
    <3>1. /\ \A v \in Newest : \E l \in 1 .. n : q[l] = v
          /\ \A l \in 1 .. n : q[l] \in Newest
      BY DEF Ordered
    <3> QED  BY <1>2, <3>1
  <2> QED  BY <1>2, <2>1 DEF Adjacent
<1>4. ASSUME NEW i \in 1 .. n, NEW j \in 1 .. n
      PROVE  (i < j /\ \A l \in 1 .. n : ~(i < l /\ l < j)) <=> j = i + 1
  <2>1. n \in Nat
    BY DEF Ordered
  <2>2. ASSUME i < j, \A l \in 1 .. n : ~(i < l /\ l < j) PROVE j = i + 1
    <3>1. i + 1 \in 1 .. n /\ i < i + 1
      BY <2>1, <2>2
    <3>2. ~(i + 1 < j)
      BY <2>2, <3>1
    <3> QED  BY <2>1, <2>2, <3>2
  <2> QED  BY <2>1, <2>2
<1> QED  BY <1>3, <1>4

(* A run that starts with this frame.                                       *)
LEMMA RowsStart ==
  ASSUME NEW pass, NEW q, NEW k \in Nat, q[k + 1] \in Nat, Usable(q[k + 1]),
         k >= 1 => ~Usable(q[k]) \/ ~Linked(q[k], q[k + 1])
  PROVE  RunFrom(pass, q, k + 1, WithRow(NoRows, q[k + 1], pass.frames[q[k + 1]]), k + 1)
<1> DEFINE s == q[k + 1]
<1> PICK frame : frame = pass.frames[s]
  OBVIOUS
<1> PICK next : next = WithRow(NoRows, s, frame)
  OBVIOUS
<1>1. /\ IsRows(next) /\ next.rows = <<s>> /\ next.provenance = Provenance(frame)
      /\ next.lastTime = Latest(frame) /\ next.firstTime = Earliest(frame)
  <2>1. Append(<<>>, s) = <<s>>
    OBVIOUS
  <2> QED  BY <2>1, NoRowsAre, WithRowIs
<1>2. /\ next.rows \in Seq(Nat) /\ Len(next.rows) = (k + 1) + 1 - (k + 1)
      /\ \A x \in 1 .. (k + 1) + 1 - (k + 1) : next.rows[x] = q[(k + 1) - 1 + x]
  <2>1. next.rows \in Seq(Nat) /\ Len(next.rows) = 1 /\ next.rows[1] = s
    BY <1>1
  <2>2. (k + 1) + 1 - (k + 1) = 1 /\ (k + 1) - 1 + 1 = k + 1
    OBVIOUS
  <2> QED  BY <2>1, <2>2
<1>3. (\A i \in (k + 1) .. (k + 1) : i = k + 1) /\ (k + 1) .. (k + 1) - 1 = {} /\ (k + 1) - 1 = k
  OBVIOUS
<1>4. (k + 1 > 1 => k >= 1) /\ k + 1 <= k + 1 /\ ~(k + 1 > k + 1)
  OBVIOUS
<1> QED  BY <1>1, <1>2, <1>3, <1>4 DEF RunFrom

LEMMA RowsGrow ==
  ASSUME stream \in Seq(PidObservations), Orderly,
         NEW pass, NEW q, NEW n, Ordered(pass, q, n), NEW k \in Nat, k + 1 \in 1 .. n,
         NEW run, RowsUpTo(pass, q, k, run),
         NEW next, next = NextRow(run, q[k + 1], pass.frames[q[k + 1]], pass.breaks)
  PROVE  RowsUpTo(pass, q, k + 1, next)
<1> PICK s : s = q[k + 1]
  OBVIOUS
<1> PICK frame : frame = pass.frames[s]
  OBVIOUS
<1>1. /\ n \in Nat /\ 1 .. k \subseteq 1 .. n /\ 1 .. k + 1 \subseteq 1 .. n
      /\ \A i \in 1 .. k + 1 : i \in 1 .. k \/ i = k + 1
      /\ 1 .. k \subseteq 1 .. k + 1 /\ k + 1 \in 1 .. k + 1
  BY DEF Ordered
<1>2. s \in Newest /\ s \in Nat /\ FrameRead(s, frame)
  BY DEF Ordered, FramesRead
<1>3. (\A i \in 1 .. k + 1 : Sound(q[i])) <=> (\A i \in 1 .. k : Sound(q[i])) /\ Sound(s)
  BY <1>1
<1>4. CASE run.error # None
  BY <1>3, <1>4 DEF NextRow, RowsUpTo
<1>5. CASE run.error = None
  <2>1. PICK a \in 1 .. k + 1 : RunFrom(pass, q, k, run, a)
    BY <1>5 DEF RowsUpTo
  <2>2. IsRows(run) /\ \A i \in 1 .. k : Sound(q[i])
    BY <1>5, <2>1 DEF RowsUpTo, RunFrom
  <2>3. /\ ~Sound(s) => next.error # None
        /\ Sound(s) /\ ~Usable(s) => next = NoRows
        /\ Sound(s) /\ Usable(s) =>
             next = WithRow(IF ContinuesRun(run, s, frame, pass.breaks) THEN run ELSE NoRows,
                            s, frame)
    BY <1>2, <1>5, <2>2, NextRowIs
  <2>4. CASE ~Sound(s)
    BY <1>3, <2>3, <2>4 DEF RowsUpTo
  <2>5. CASE Sound(s) /\ ~Usable(s)
    <3>1. next = NoRows /\ IsRows(next) /\ next.error = None /\ next.rows = <<>>
      BY <2>3, <2>5, NoRowsAre
    <3>2. RunFrom(pass, q, k + 1, next, k + 2)
      <4>1. /\ (k + 1) + 1 - (k + 2) = 0 /\ (k + 2) .. (k + 1) = {} /\ (k + 2) .. (k + 1) - 1 = {}
            /\ (k + 2) - 1 = k + 1 /\ ~(k + 2 <= k + 1) /\ 1 .. 0 = {}
        OBVIOUS
      <4>2. next.rows \in Seq(Nat) /\ Len(next.rows) = 0
        BY <3>1
      <4> QED  BY <2>5, <3>1, <4>1, <4>2 DEF RunFrom
    <3>3. k + 2 \in 1 .. (k + 1) + 1
      OBVIOUS
    <3> QED  BY <1>3, <2>2, <2>5, <3>1, <3>2, <3>3 DEF RowsUpTo
  <2>6. CASE Sound(s) /\ Usable(s)
    <3>1. (\A i \in 1 .. k + 1 : Sound(q[i])) /\ k + 1 \in 1 .. (k + 1) + 1
          /\ a \in 1 .. (k + 1) + 1
      BY <1>3, <2>2, <2>6
    <3>2. next.error = None
      BY <1>5, <2>2, <2>3, <2>6, NoRowsAre, WithRowIs
    <3>3. CASE a = k + 1
      <4>1. run = NoRows /\ (k >= 1 => ~Usable(q[k]))
        <5>1. a > k /\ ~(a <= k) /\ (k >= 1 => a > 1) /\ a - 1 = k
          BY <3>3
        <5> QED  BY <2>1, <5>1 DEF RunFrom
      <4>2. next = WithRow(NoRows, s, frame)
        BY <2>3, <2>6, <4>1
      <4>3. RunFrom(pass, q, k + 1, next, k + 1)
        BY <1>2, <2>6, <4>1, <4>2, RowsStart
      <4> QED  BY <3>1, <3>2, <4>3 DEF RowsUpTo
    <3>4. CASE a <= k
      <4>1. /\ k >= 1 /\ k \in 1 .. n /\ k \in 1 .. k /\ k \in a .. k
            /\ k + 1 - a \in Nat \ {0} /\ a - 1 + (k + 1 - a) = k /\ k + 1 - a \in 1 .. k + 1 - a
        BY <1>1, <3>4
      <4>2. Usable(q[k]) /\ Sound(q[k]) /\ q[k] \in Newest /\ Adjacent(q[k], s)
        BY <1>1, <2>1, <2>2, <4>1, Neighbours DEF RunFrom, Ordered
      <4>3. run.rows # <<>> /\ Last(run.rows) = q[k]
        <5>1. Len(run.rows) = k + 1 - a /\ run.rows[k + 1 - a] = q[k] /\ run.rows \in Seq(Nat)
          BY <2>1, <4>1 DEF RunFrom
        <5>2. run.rows # <<>>
          BY <4>1, <5>1
        <5> QED  BY <5>1, <5>2 DEF Last
      <4>4. run.provenance = Provenance(pass.frames[q[k]]) /\ run.provenance # None
        <5>1. FrameRead(q[k], pass.frames[q[k]])
          BY <4>2 DEF Ordered, FramesRead
        <5> QED  BY <2>1, <3>4, <4>2, <5>1, ProvenanceIs DEF RunFrom
      <4>5. ContinuesRun(run, s, frame, pass.breaks) <=> Linked(q[k], s)
        <5>1. Linked(q[k], s) <=> /\ s - q[k] <= MaxSeqGap /\ s \notin pass.breaks
                                  /\ Provenance(pass.frames[q[k]]) = Provenance(frame)
          <6>1. /\ DOMAIN pass.frames = Newest /\ FramesKept(pass) /\ FramesRead(pass)
                /\ BreaksRead(pass)
            BY DEF Ordered
          <6>2. Linked(q[k], s) <=> Joined(pass, q[k], s)
            BY <1>2, <2>6, <4>2, <6>1, LinkedIs
          <6> QED  BY <6>2 DEF Joined
        <5> QED  BY <4>3, <4>4, <5>1 DEF ContinuesRun
      <4>6. CASE ~Linked(q[k], s)
        <5>1. next = WithRow(NoRows, s, frame)
          BY <2>3, <2>6, <4>5, <4>6
        <5>2. RunFrom(pass, q, k + 1, next, k + 1)
          BY <1>2, <2>6, <4>6, <5>1, RowsStart
        <5> QED  BY <3>1, <3>2, <5>2 DEF RowsUpTo
      <4>7. CASE Linked(q[k], s)
        <5>1. next = WithRow(run, s, frame)
          BY <2>3, <2>6, <4>5, <4>7
        <5>2. /\ IsRows(next) /\ next.rows = Append(run.rows, s)
              /\ next.provenance = Provenance(frame) /\ next.lastTime = Latest(frame)
              /\ next.firstTime = run.firstTime
          BY <1>5, <2>2, <4>3, <5>1, WithRowIs
        <5>3. /\ run.rows \in Seq(Nat) /\ Len(run.rows) = k + 1 - a
              /\ \A x \in 1 .. k + 1 - a : run.rows[x] = q[a - 1 + x]
          BY <2>1 DEF RunFrom
        <5>4. /\ next.rows \in Seq(Nat) /\ Len(next.rows) = (k + 1) + 1 - a
              /\ \A x \in 1 .. k + 1 - a : next.rows[x] = run.rows[x]
              /\ next.rows[(k + 1) + 1 - a] = s
          <6>1. (k + 1) + 1 - a = (k + 1 - a) + 1
            OBVIOUS
          <6> PICK rows : rows = run.rows
            OBVIOUS
          <6> PICK l : l = k + 1 - a
            OBVIOUS
          <6>2. rows \in Seq(Nat) /\ Len(rows) = l /\ s \in Nat /\ l \in Nat
            BY <1>2, <4>1, <5>3
          <6>3. /\ Append(rows, s) \in Seq(Nat) /\ Len(Append(rows, s)) = l + 1
                /\ \A x \in 1 .. l : Append(rows, s)[x] = rows[x]
                /\ Append(rows, s)[l + 1] = s
            BY ONLY <6>2
          <6> QED  BY <5>2, <6>1, <6>3
        <5>5. \A x \in 1 .. (k + 1) + 1 - a : next.rows[x] = q[a - 1 + x]
          <6>1. \A x \in 1 .. (k + 1) + 1 - a : x \in 1 .. k + 1 - a \/ x = (k + 1) + 1 - a
            OBVIOUS
          <6>2. a - 1 + ((k + 1) + 1 - a) = k + 1
            OBVIOUS
          <6> QED  BY <5>3, <5>4, <6>1, <6>2
        <5>6. \A i \in a .. k + 1 : Usable(q[i])
          <6>1. \A i \in a .. k + 1 : i \in a .. k \/ i = k + 1
            OBVIOUS
          <6> QED  BY <2>1, <2>6, <6>1 DEF RunFrom
        <5>7. \A i \in a .. (k + 1) - 1 : Linked(q[i], q[i + 1])
          <6>1. \A i \in a .. (k + 1) - 1 : i \in a .. k - 1 \/ i = k
            OBVIOUS
          <6> QED  BY <2>1, <4>7, <6>1 DEF RunFrom
        <5>8. a > 1 => ~Usable(q[a - 1]) \/ (a <= k + 1 /\ ~Linked(q[a - 1], q[a]))
          BY <2>1, <3>4 DEF RunFrom
        <5>9. next.firstTime = Earliest(pass.frames[q[a]]) /\ a <= k + 1 /\ ~(a > k + 1)
          BY <2>1, <3>4, <5>2 DEF RunFrom
        <5>10. RunFrom(pass, q, k + 1, next, a)
          BY <5>2, <5>4, <5>5, <5>6, <5>7, <5>8, <5>9 DEF RunFrom
        <5> QED  BY <3>1, <3>2, <5>10 DEF RowsUpTo
      <4> QED  BY <4>6, <4>7
    <3>5. a = k + 1 \/ a <= k
      OBVIOUS
    <3> QED  BY <3>3, <3>4, <3>5
  <2> QED  BY <2>4, <2>5, <2>6
<1> QED  BY <1>4, <1>5

RowTurn(run, seq, pass) == NextRow(run, seq, pass.frames[seq], pass.breaks)

RowFold == INSTANCE FoldFacts WITH Step <- RowTurn

LEMMA ExtractedIsFold ==
  ASSUME Read.error = None, ~(Len(stream) > MaxInputObservations)
  PROVE  Extracted = RowFold!Fold(NoRows, Ascending(DOMAIN Read.frames), Read)
BY DEF Extracted, RowTurn, RowFold!Fold, FoldLeft, MapThenFoldSet, Max,
   RowFold!FoldLeft, RowFold!MapThenFoldSet, RowFold!Max

LEMMA RowsOfAll ==
  ASSUME stream \in Seq(PidObservations), Orderly,
         NEW pass, NEW q, NEW n, Ordered(pass, q, n)
  PROVE  RowsUpTo(pass, q, n, RowFold!Fold(NoRows, q, pass))
<1>1. n \in Nat /\ q \in Seq(Nat) /\ Len(q) = n
  <2>1. n \in Nat /\ q \in [1 .. n -> Newest] /\ Newest \subseteq Nat
    BY DEF Ordered
  <2>2. q \in [1 .. n -> Nat]
    BY <2>1
  <2> QED  BY ONLY <2>1, <2>2
<1>2. PICK h : RowFold!IsRun(h, NoRows, q, pass) /\ RowFold!Fold(NoRows, q, pass) = h[Len(q)]
  BY <1>1, RowFold!FoldRuns
<1>3. /\ h[0] = NoRows
      /\ \A i \in 1 .. n : h[i] = NextRow(h[i - 1], q[i], pass.frames[q[i]], pass.breaks)
  BY <1>1, <1>2 DEF RowFold!IsRun, RowTurn
<1> DEFINE Done == {k \in Nat : k <= n => RowsUpTo(pass, q, k, h[k])}
<1>4. 0 \in Done
  <2>1. RunFrom(pass, q, 0, NoRows, 1)
    <3>1. /\ 0 + 1 - 1 = 0 /\ 1 .. 0 = {} /\ 1 .. 0 - 1 = {} /\ ~(1 > 1) /\ ~(1 <= 0)
      OBVIOUS
    <3>2. NoRows.rows \in Seq(Nat) /\ Len(NoRows.rows) = 0
      BY NoRowsAre
    <3> QED  BY <3>1, <3>2, NoRowsAre DEF RunFrom
  <2>2. 1 \in 1 .. 0 + 1 /\ 1 .. 0 = {}
    OBVIOUS
  <2> QED  BY <1>3, <2>1, <2>2, NoRowsAre DEF RowsUpTo
<1>5. ASSUME NEW k \in Nat, k \in Done PROVE k + 1 \in Done
  <2> SUFFICES ASSUME k + 1 <= n PROVE RowsUpTo(pass, q, k + 1, h[k + 1])
    OBVIOUS
  <2>1. k <= n /\ k + 1 \in 1 .. n /\ (k + 1) - 1 = k
    BY <1>1
  <2>2. h[k + 1] = NextRow(h[k], q[k + 1], pass.frames[q[k + 1]], pass.breaks)
    BY <1>3, <2>1
  <2>3. RowsUpTo(pass, q, k, h[k])
    BY <1>5, <2>1
  <2> QED  BY <2>1, <2>2, <2>3, RowsGrow
<1> HIDE DEF Done
<1>6. n \in Done
  BY <1>1, <1>4, <1>5, Numbers!Induction
<1> QED  BY <1>1, <1>2, <1>6 DEF Done

LEMMA RunIsLongest ==
  ASSUME NEW pass, NEW q, NEW n, Ordered(pass, q, n), NEW run,
         NEW a \in 1 .. n + 1, RunFrom(pass, q, n, run, a)
  PROVE  LongestRun = {q[i] : i \in a .. n}
<1>1. /\ n \in Nat /\ a \in Nat /\ a .. n \subseteq 1 .. n
      /\ \A i \in 1 .. n : q[i] \in Newest /\ q[i] \in Nat
  <2>1. n \in Nat /\ \A i \in 1 .. n : q[i] \in Newest /\ q[i] \in Nat
    BY DEF Ordered
  <2>2. a \in Nat /\ a >= 1
    BY <2>1
  <2>3. a .. n \subseteq 1 .. n
    BY <2>1, <2>2
  <2> QED  BY <2>1, <2>2, <2>3
<1>2. \A i, j \in 1 .. n : q[j] >= q[i] <=> j >= i
  <2> SUFFICES ASSUME NEW i \in 1 .. n, NEW j \in 1 .. n PROVE q[j] >= q[i] <=> j >= i
    OBVIOUS
  <2>1. /\ i < j => q[i] < q[j]
        /\ j < i => q[j] < q[i]
        /\ i = j \/ i < j \/ j < i
    BY <1>1 DEF Ordered
  <2> QED  BY <1>1, <2>1
<1>3. ASSUME NEW i \in 1 .. n
      PROVE  q[i] \in LongestRun <=>
               /\ \A j \in i .. n : Usable(q[j])
               /\ \A j \in i .. n - 1 : Linked(q[j], q[j + 1])
  <2>1. (\A u \in Newest : u >= q[i] => Usable(u)) <=> \A j \in i .. n : Usable(q[j])
    <3>1. \A j : j \in i .. n <=> j \in 1 .. n /\ j >= i
      BY <1>1
    <3> QED  BY <1>2, <3>1 DEF Ordered
  <2>2. (\A u, v \in Newest : u >= q[i] /\ Adjacent(u, v) => Linked(u, v))
          <=> \A j \in i .. n - 1 : Linked(q[j], q[j + 1])
    <3>1. \A j : j \in i .. n - 1 <=> j \in 1 .. n /\ j >= i /\ j + 1 \in 1 .. n
      BY <1>1
    <3>2. ASSUME \A j \in i .. n - 1 : Linked(q[j], q[j + 1]),
                 NEW u \in Newest, NEW v \in Newest, u >= q[i], Adjacent(u, v)
          PROVE  Linked(u, v)
      <4>1. PICK j \in 1 .. n, l \in 1 .. n : u = q[j] /\ v = q[l]
        BY DEF Ordered
      <4>2. l = j + 1 /\ j >= i
        BY <1>2, <3>2, <4>1, Neighbours
      <4> QED  BY <3>1, <3>2, <4>1, <4>2
    <3>3. ASSUME \A u, v \in Newest : u >= q[i] /\ Adjacent(u, v) => Linked(u, v),
                 NEW j \in i .. n - 1
          PROVE  Linked(q[j], q[j + 1])
      <4>1. j \in 1 .. n /\ j >= i /\ j + 1 \in 1 .. n
        BY <3>1
      <4>2. Adjacent(q[j], q[j + 1]) /\ q[j] >= q[i]
        BY <1>2, <4>1, Neighbours
      <4> QED  BY <1>1, <3>3, <4>1, <4>2
    <3> QED  BY <3>2, <3>3
  <2> QED  BY <1>1, <2>1, <2>2 DEF LongestRun
<1>4. ASSUME NEW i \in a .. n PROVE q[i] \in LongestRun
  <2>1. i \in 1 .. n /\ (\A j \in i .. n : j \in a .. n) /\ (\A j \in i .. n - 1 : j \in a .. n - 1)
    BY <1>1
  <2> QED  BY <1>3, <2>1 DEF RunFrom
<1>5. ASSUME NEW i \in 1 .. n, i \notin a .. n PROVE q[i] \notin LongestRun
  <2>1. a > 1 /\ a - 1 \in i .. n /\ (a <= n => a - 1 \in i .. n - 1) /\ (a - 1) + 1 = a
    BY <1>1, <1>5
  <2>2. ~Usable(q[a - 1]) \/ (a <= n /\ ~Linked(q[a - 1], q[a]))
    BY <2>1 DEF RunFrom
  <2>3. CASE ~Usable(q[a - 1])
    BY <1>3, <2>1, <2>3
  <2>4. CASE a <= n /\ ~Linked(q[a - 1], q[a])
    BY <1>3, <2>1, <2>4
  <2> QED  BY <2>2, <2>3, <2>4
<1>6. \A s \in LongestRun : \E i \in 1 .. n : q[i] = s
  BY DEF LongestRun, Ordered
<1> QED  BY <1>1, <1>4, <1>5, <1>6

LEMMA ReadGivesRows ==
  ASSUME ReadInv
  PROVE  RowsAreLongestRun
<1> PICK got : got = Extracted
  OBVIOUS
<1>0. (Len(stream) <= MaxInputObservations) <=> ~(Len(stream) > MaxInputObservations)
  BY AlignmentAssumption DEF ReadInv
<1>1. CASE Len(stream) > MaxInputObservations \/ ~Orderly
  <2>1. ~Orderly => Read.error # None
    BY DEF ReadInv
  <2>2. got.error # None
    <3>1. \A error : [NoRows EXCEPT !.error = error].error = error
      BY DEF NoRows
    <3> QED  BY <1>1, <2>1, <3>1, AlignmentAssumption DEF Extracted
  <2> QED  BY <1>0, <1>1, <2>2 DEF RowsAreLongestRun
<1>2. CASE Orderly /\ ~(Len(stream) > MaxInputObservations)
  <2>1. stream \in Seq(PidObservations) /\ Read.error = None /\ ReadHolds(Read)
    BY <1>2 DEF ReadInv
  <2> PICK pass : pass = Read
    OBVIOUS
  <2>2. /\ NumberRead(pass) /\ FramesKept(pass) /\ FramesRead(pass) /\ BreaksRead(pass)
    BY <2>1 DEF ReadHolds
  <2>3. DOMAIN pass.frames = Newest /\ Newest \subseteq Nat /\ IsFiniteSet(Newest)
    BY <2>1, <2>2, NewestIs DEF FramesKept
  <2> PICK q : q = Ascending(Newest)
    OBVIOUS
  <2> PICK n : n = Cardinality(Newest)
    OBVIOUS
  <2>4. Ordered(pass, q, n)
    BY <2>2, <2>3, AscendingIs DEF Ordered
  <2>5. got = RowFold!Fold(NoRows, q, pass)
    BY <1>2, <2>1, <2>3, ExtractedIsFold
  <2>6. RowsUpTo(pass, q, n, got)
    BY <1>2, <2>1, <2>4, <2>5, RowsOfAll
  <2>7. (\A i \in 1 .. n : Sound(q[i])) <=> \A s \in Newest : Sound(s)
    <3>1. /\ \A s \in Newest : \E i \in 1 .. n : q[i] = s
          /\ \A i \in 1 .. n : q[i] \in Newest
      BY <2>4 DEF Ordered
    <3> QED  BY <3>1
  <2>8. (got.error = None) <=> Orderly /\ \A s \in Newest : Sound(s)
    BY <1>2, <2>6, <2>7 DEF RowsUpTo
  <2>9. ASSUME got.error = None
        PROVE  /\ Range(got.rows) = LongestRun
               /\ \A i, j \in DOMAIN got.rows : i < j => got.rows[i] < got.rows[j]
               /\ LongestRun # {} =>
                    /\ got.firstTime = Min({b.time : b \in SaidByAll(Min(LongestRun))})
                    /\ got.lastTime = Max({b.time : b \in SaidByAll(Max(LongestRun))})
    <3>1. PICK a \in 1 .. n + 1 : RunFrom(pass, q, n, got, a)
      BY <2>6, <2>9 DEF RowsUpTo
    <3>2. LongestRun = {q[i] : i \in a .. n}
      BY <2>4, <3>1, RunIsLongest
    <3>3. /\ n \in Nat /\ a \in Nat /\ DOMAIN got.rows = 1 .. n + 1 - a
          /\ \A x \in 1 .. n + 1 - a : got.rows[x] = q[a - 1 + x] /\ a - 1 + x \in a .. n
          /\ \A i \in a .. n : i - (a - 1) \in 1 .. n + 1 - a /\ a - 1 + (i - (a - 1)) = i
          /\ a .. n \subseteq 1 .. n
      <4>1. n \in Nat
        BY <2>4 DEF Ordered
      <4>2. /\ got.rows \in Seq(Nat) /\ Len(got.rows) = n + 1 - a
            /\ \A x \in 1 .. n + 1 - a : got.rows[x] = q[a - 1 + x]
        BY <3>1 DEF RunFrom
      <4>3. DOMAIN got.rows = 1 .. n + 1 - a
        BY <4>2
      <4>4. \A x \in 1 .. n + 1 - a : a - 1 + x \in a .. n
        BY <4>1
      <4>5. \A i \in a .. n : i - (a - 1) \in 1 .. n + 1 - a /\ a - 1 + (i - (a - 1)) = i
        BY <4>1
      <4>6. a \in Nat /\ a >= 1
        BY <4>1
      <4>7. a .. n \subseteq 1 .. n
        BY <4>1, <4>6
      <4>8. \A x \in 1 .. n + 1 - a : got.rows[x] = q[a - 1 + x] /\ a - 1 + x \in a .. n
        BY <4>2, <4>4
      <4> QED  BY <4>1, <4>3, <4>5, <4>6, <4>7, <4>8, Zenon
    <3>4. Range(got.rows) = LongestRun
      <4>1. \A x \in DOMAIN got.rows : got.rows[x] \in LongestRun
        <5> SUFFICES ASSUME NEW x \in 1 .. n + 1 - a PROVE got.rows[x] \in LongestRun
          BY <3>3
        <5>1. got.rows[x] = q[a - 1 + x] /\ a - 1 + x \in a .. n
          BY <3>3
        <5> QED  BY <3>2, <5>1
      <4>2. \A s \in LongestRun : \E x \in DOMAIN got.rows : got.rows[x] = s
        <5> SUFFICES ASSUME NEW i \in a .. n PROVE \E x \in DOMAIN got.rows : got.rows[x] = q[i]
          BY <3>2
        <5>1. i - (a - 1) \in DOMAIN got.rows /\ got.rows[i - (a - 1)] = q[i]
          BY <3>3
        <5> QED  BY <5>1
      <4> QED  BY <4>1, <4>2 DEF Range
    <3>5. \A i, j \in DOMAIN got.rows : i < j => got.rows[i] < got.rows[j]
      <4> SUFFICES ASSUME NEW i \in 1 .. n + 1 - a, NEW j \in 1 .. n + 1 - a, i < j
                   PROVE  got.rows[i] < got.rows[j]
        BY <3>3
      <4>1. a - 1 + i \in 1 .. n /\ a - 1 + j \in 1 .. n /\ a - 1 + i < a - 1 + j
        BY <3>3
      <4> QED  BY <2>4, <3>3, <4>1 DEF Ordered
    <3>6. ASSUME LongestRun # {}
          PROVE  /\ got.firstTime = Min({b.time : b \in SaidByAll(Min(LongestRun))})
                 /\ got.lastTime = Max({b.time : b \in SaidByAll(Max(LongestRun))})
      <4>1. a <= n /\ a \in a .. n /\ n \in a .. n
        BY <3>2, <3>3, <3>6
      <4>2. \A i \in a .. n : /\ i \in 1 .. n /\ q[i] \in Nat /\ q[i] \in Newest
                              /\ (i = a \/ q[a] < q[i]) /\ (i = n \/ q[i] < q[n])
        <5> SUFFICES ASSUME NEW i \in a .. n
                     PROVE  /\ i \in 1 .. n /\ q[i] \in Nat /\ q[i] \in Newest
                            /\ (i = a \/ q[a] < q[i]) /\ (i = n \/ q[i] < q[n])
          OBVIOUS
        <5>1. i \in 1 .. n /\ a \in 1 .. n /\ n \in 1 .. n /\ (i = a \/ a < i) /\ (i = n \/ i < n)
          BY <3>3, <4>1
        <5> QED  BY <2>4, <5>1 DEF Ordered
      <4>3. Min(LongestRun) = q[a]
        <5>1. q[a] \in LongestRun /\ \A s \in LongestRun : s \in Nat /\ q[a] <= s
          BY <3>2, <4>1, <4>2
        <5> QED  BY <5>1 DEF Min
      <4>4. Max(LongestRun) = q[n]
        <5>1. q[n] \in LongestRun /\ \A s \in LongestRun : s \in Nat /\ s <= q[n]
          BY <3>2, <4>1, <4>2
        <5> QED  BY <5>1 DEF Max
      <4>5. /\ got.firstTime = Earliest(pass.frames[q[a]])
            /\ got.lastTime = Latest(pass.frames[q[n]])
        BY <3>1, <4>1 DEF RunFrom
      <4>6. \A i \in a .. n : /\ FrameRead(q[i], pass.frames[q[i]]) /\ Usable(q[i])
        BY <2>2, <2>3, <3>1, <4>2 DEF FramesRead, RunFrom
      <4>7. \A i \in a .. n : Whole(pass.frames[q[i]])
        BY <2>1, <4>6, UsableIs
      <4>8. \A i \in a .. n : {pass.frames[q[i]][m].time : m \in Requested}
                                = {b.time : b \in SaidByAll(q[i])}
        BY <2>1, <4>6, <4>7, TimesAre
      <4> QED  BY <4>1, <4>3, <4>4, <4>5, <4>8 DEF Earliest, Latest
    <3> QED  BY <3>4, <3>5, <3>6
  <2> QED  BY <1>0, <1>2, <2>8, <2>9 DEF RowsAreLongestRun
<1> QED  BY <1>1, <1>2

(* Whatever is recorded, the rows that the channels of a track are compared *)
(* on are the longest run up to the newest frame that nothing breaks.       *)
THEOREM RowsAlwaysLongestRun == AlignSpec => []RowsAreLongestRun
<1>1. ReadInv => RowsAreLongestRun
  BY ReadGivesRows
<1> QED  BY <1>1, AlwaysRead, PTL
=============================================================================
