----------------------------- MODULE FrameLedger -----------------------------
(***************************************************************************)
(* The ledger one fusion frame must balance before its summary closes it:  *)
(* validate_frame_ledger of crates/galadriel-ncp/src/assembler.rs, and the *)
(* validation every outcome passed on the wire (monitor.rs).               *)
(*                                                                         *)
(* An outcome carries its track, modality, attempt and measurement index,  *)
(* the pair's candidate and in-gate counts, the side of the gate its       *)
(* evidence puts it on, whether it owes a v1 observation and the projection*)
(* that observation must repeat.  A miss carries a reason.  A summary s    *)
(* has the expected modalities in registry order, the input count and the  *)
(* active track count.  Numbers and identities are small; the u32 sums of  *)
(* the code stay far below their width because a frame has at most 4096    *)
(* events (MAX_FRAME_ITEMS).                                               *)
(***************************************************************************)
EXTENDS Integers, SequencesExt

CONSTANTS
  MaxActiveTracks, MaxAttempts,  \* two bounds of RegistryOpportunityPolicy
  None                           \* an absent value

(* A map with one entry inserted or replaced.                               *)
Put(f, key, value) == [x \in DOMAIN f \cup {key} |-> IF x = key THEN value ELSE f[x]]

Misses    == {"NoMeasurement", "NoCandidate", "NoInGateCandidate", "NotAssigned",
              "TrackNotEligible"}
Terminals == {"Updated", "UpdateRejected", "UnsupportedFilter", "IncomparableProjection"}
Kinds     == Terminals \cup {"GateRejected", "AssignmentRejected", "TrackBirth"}

IsMiss(e)  == e.kind \in Misses
IsBirth(e) == e.kind = "TrackBirth"
PairOf(e)  == <<e.track, e.modality>>

(* ModalityOutcome::validate, on what the ledger reads.                     *)
WireValid(e) ==
  /\ e.inGate <= e.candidates
  /\ e.v1 => e.kind \in {"Updated", "IncomparableProjection"}
  /\ e.kind = "Updated" => e.v1
  /\ e.kind \in Terminals \cup {"TrackBirth"} => e.measurement # None
  /\ e.kind \in {"Updated", "UpdateRejected", "IncomparableProjection"} =>
       e.inGate > 0 /\ e.gate = "inside"
  /\ e.kind = "AssignmentRejected" => e.inGate > 0 /\ e.gate = "inside"
  /\ e.kind = "GateRejected" => e.candidates > 0 /\ e.gate = "outside"
  /\ e.kind = "TrackBirth" =>
       e.candidates = 0 /\ e.gate = None /\ e.projection = None
  /\ e.kind = "UnsupportedFilter" => e.gate = None
  /\ e.kind = "Updated" => e.projection # None
  /\ e.kind = "IncomparableProjection" => e.projection = None

-----------------------------------------------------------------------------
(* The pass over the events, in producer order.                             *)

Rank(e, s) == CHOOSE i \in DOMAIN s.expected : s.expected[i] = e.modality
Before(a, b) == a[1] < b[1] \/ (a[1] = b[1] /\ a[2] < b[2])

(* PairLedger::default.                                                     *)
NoPair == [attempts |-> 0, measurement |-> -1, candidates |-> None, inGate |-> None,
           inside |-> 0, unverifiable |-> FALSE, terminals |-> 0, miss |-> None]

Opening == [error |-> None, pairs |-> <<>>, frozen |-> {}, owed |-> <<>>,
            last |-> <<-1, 0>>, births |-> {}]

PairIn(acc, e) == IF PairOf(e) \in DOMAIN acc.pairs THEN acc.pairs[PairOf(e)] ELSE NoPair

(* Every frozen record comes before the births, in track and modality order.*)
OutOfPlace(acc, e, s) ==
  acc.births # {} \/ Before(<<e.track, Rank(e, s)>>, acc.last)

Placed(acc, e, s, pair) ==
  [acc EXCEPT !.pairs = Put(@, PairOf(e), pair), !.frozen = @ \cup {e.track},
              !.last = <<e.track, Rank(e, s)>>]

(* births holds the <<measurement, track>> of every birth so far; the code's *)
(* rank order adds nothing to distinct, increasing measurements.            *)
RecordBirth(acc, e, s) ==
  IF \/ e.attempt # 0 \/ e.measurement >= s.inputs
     \/ \E b \in acc.births : e.measurement <= b[1] \/ e.track = b[2]
  THEN [acc EXCEPT !.error = "InvalidFrameLedger"]
  ELSE [acc EXCEPT !.births = @ \cup {<<e.measurement, e.track>>}]

Attempted(pair, e) ==
  [pair EXCEPT !.attempts = @ + 1, !.measurement = e.measurement,
               !.candidates = e.candidates, !.inGate = e.inGate,
               !.inside = IF e.gate = "inside" THEN @ + 1 ELSE @,
               !.unverifiable = @ \/ e.gate = None,
               !.terminals = IF e.kind \in Terminals THEN @ + 1 ELSE @]

Owing(acc, e) ==
  IF e.v1 THEN [acc EXCEPT !.owed = Put(@, PairOf(e), e.projection)] ELSE acc

RecordAttempt(acc, e, s) ==
  LET pair == PairIn(acc, e) IN
  IF \/ OutOfPlace(acc, e, s)
     \/ pair.miss # None \/ e.attempt # pair.attempts
     \/ e.measurement = None \/ e.measurement >= s.inputs
     \/ e.measurement <= pair.measurement
  THEN [acc EXCEPT !.error = "InvalidFrameLedger"]
  ELSE IF pair.attempts + 1 > MaxAttempts THEN [acc EXCEPT !.error = "Registry"]
  ELSE IF \/ pair.candidates \notin {None, e.candidates}
          \/ pair.inGate \notin {None, e.inGate}
          \/ e.v1 /\ PairOf(e) \in DOMAIN acc.owed
  THEN [acc EXCEPT !.error = "InvalidFrameLedger"]
  ELSE Owing(Placed(acc, e, s, Attempted(pair, e)), e)

RecordMiss(acc, e, s) ==
  IF OutOfPlace(acc, e, s) \/ PairIn(acc, e).miss # None
  THEN [acc EXCEPT !.error = "InvalidFrameLedger"]
  ELSE Placed(acc, e, s, [PairIn(acc, e) EXCEPT !.miss = e.kind])

(* One event of the pass; the first error ends it.                          *)
Record(acc, e, s) ==
  IF acc.error # None THEN acc
  ELSE IF e.modality \notin Range(s.expected)
    THEN [acc EXCEPT !.error = "InvalidFrameLedger"]
  ELSE IF IsMiss(e) THEN RecordMiss(acc, e, s)
  ELSE IF IsBirth(e) THEN RecordBirth(acc, e, s)
  ELSE RecordAttempt(acc, e, s)

Pass(events, s) == FoldLeft(LAMBDA acc, e : Record(acc, e, s), Opening, events)

-----------------------------------------------------------------------------
(* The totals, once the pass is over.                                       *)

(* The definition named Mutant... is a slip the property must notice; nothing *)
(* but a sensitivity check uses them.                                       *)
MutantBalanced(pair, s) ==
  LET candidates == IF pair.candidates = None THEN 0 ELSE pair.candidates
      inGate     == IF pair.inGate = None THEN 0 ELSE pair.inGate
  IN /\ candidates = pair.attempts
     /\ pair.unverifiable \/ inGate = pair.inside
     /\ pair.terminals > 0 \/ pair.miss # None

(* Whether a pair's counts agree and its terminal outcome or miss fits them.*)
Balanced(pair, s) ==
  LET candidates == IF pair.candidates = None THEN 0 ELSE pair.candidates
      inGate     == IF pair.inGate = None THEN 0 ELSE pair.inGate
  IN /\ candidates = pair.attempts
     /\ pair.unverifiable \/ inGate = pair.inside
     /\ \/ pair.terminals = 1 /\ pair.miss = None
        \/ /\ pair.terminals = 0
           /\ \/ pair.miss \in {"NoMeasurement", "TrackNotEligible"} /\ candidates = 0
              \/ pair.miss = "NoCandidate" /\ candidates = 0 /\ s.inputs > 0
              \/ pair.miss = "NoInGateCandidate" /\ candidates > 0 /\ inGate = 0
              \/ pair.miss = "NotAssigned" /\ inGate > 0

(* validate_frame_ledger: the first error, and the observations owed.       *)
LedgerError(events, s) ==
  LET acc  == Pass(events, s)
      born == {b[2] : b \in acc.births}
  IN IF acc.error # None THEN acc.error
     ELSE IF born \cap acc.frozen # {} THEN "InvalidFrameLedger"
     ELSE IF Cardinality(born) > MaxActiveTracks \/ Cardinality(acc.frozen) > MaxActiveTracks
       THEN "Registry"
     ELSE IF \/ s.active > Cardinality(acc.frozen) + Cardinality(born)
             \/ ~(acc.frozen \X Range(s.expected) \subseteq DOMAIN acc.pairs)
             \/ \E p \in DOMAIN acc.pairs : ~Balanced(acc.pairs[p], s)
       THEN "InvalidFrameLedger"
     ELSE None

Owed(events, s) == Pass(events, s).owed
=============================================================================
