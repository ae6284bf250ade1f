---------------------------- MODULE MCFrameLedger ----------------------------
(***************************************************************************)
(* Every ledger over small data, grown one event at a time as the producer *)
(* publishes it, against the cardinality rule the producer contract states *)
(* (docs/PRODUCER-CONTRACT.md, monitor outcomes).  A ledger the pass has   *)
(* refused is not grown further: the code has returned.                    *)
(***************************************************************************)
EXTENDS FrameLedger, FiniteSetsExt

CONSTANTS MCPairs, MCKinds, MCMisses, MCMeasurements, MCAttempts, MCCounts, MaxEvents,
          Summaries

VARIABLE events

(* The pairs that may be attempted; every pair of two tracks and two
   modalities may be missed. *)
SmallPairs == {<<1, "V">>, <<2, "V">>}

MCSummaries ==
  {[expected |-> <<"V">>, inputs |-> 2, active |-> 1],
   [expected |-> <<"V", "T">>, inputs |-> 1, active |-> 0]}

(* What the wire lets through, over small data.                             *)
Outcomes ==
  {e \in [kind : MCKinds, track : {1, 2}, modality : {"V", "T"}, attempt : MCAttempts,
          measurement : MCMeasurements, candidates : MCCounts, inGate : MCCounts,
          gate : {"inside", "outside", None}, v1 : BOOLEAN, projection : {"P", None}] :
     /\ PairOf(e) \in MCPairs
     /\ WireValid(e)
     /\ e.kind # "Updated" => e.projection = None}

MissEvents == [kind : MCMisses, track : {1, 2}, modality : {"V", "T"}]

Publish ==
  /\ Len(events) < MaxEvents
  /\ \E s \in Summaries : Pass(events, s).error = None
  /\ \E e \in Outcomes \cup MissEvents : events' = Append(events, e)

Init == events = <<>>
Next == Publish
Spec == Init /\ [][Next]_events

-----------------------------------------------------------------------------
(* The contract, stated on the whole ledger.                                *)

Frozen == SelectSeq(events, LAMBDA e : ~IsBirth(e))
Births == SelectSeq(events, IsBirth)
Tracks(seq) == {seq[i].track : i \in DOMAIN seq}
History(t, m) == SelectSeq(Frozen, LAMBDA e : PairOf(e) = <<t, m>>)

Ascending(seq, Less(_, _)) == \A i, j \in DOMAIN seq : i < j => Less(seq[i], seq[j])

(* Every bounded attempt first, each repeating the totals they add up to;   *)
(* then one terminal disposition, or one miss for the deepest stage reached.*)
LawfulPair(h, s) ==
  LET tries == SelectSeq(h, LAMBDA e : ~IsMiss(e))
      n     == Len(tries)
      ended == {i \in 1..n : tries[i].kind \in Terminals}
      inside == {i \in 1..n : tries[i].gate = "inside"}
  IN /\ \A i \in 1..n :
          /\ tries[i].attempt = i - 1 /\ tries[i].candidates = n
          /\ tries[i].inGate = tries[1].inGate
          /\ tries[i].measurement # None /\ tries[i].measurement < s.inputs
     /\ Ascending(tries, LAMBDA a, b : a.measurement < b.measurement)
     /\ (\A i \in 1..n : tries[i].gate # None) =>
          \A i \in 1..n : tries[i].inGate = Cardinality(inside)
     /\ \/ Cardinality(ended) = 1 /\ h = tries
        \/ /\ ended = {} /\ Len(h) = n + 1 /\ IsMiss(h[n + 1])
           /\ h[n + 1].kind \in
                IF n = 0
                THEN {"TrackNotEligible", "NoMeasurement"} \cup
                     (IF s.inputs > 0 THEN {"NoCandidate"} ELSE {})
                ELSE IF inside = {} THEN {"NoInGateCandidate"} ELSE {"NotAssigned"}

Lawful(s) ==
  /\ events = Frozen \o Births
  /\ \A i \in DOMAIN events : events[i].modality \in Range(s.expected)
  /\ Ascending(Frozen, LAMBDA a, b : ~Before(<<b.track, Rank(b, s)>>, <<a.track, Rank(a, s)>>))
  /\ \A t \in Tracks(Frozen), m \in Range(s.expected) : LawfulPair(History(t, m), s)
  /\ Ascending(Births, LAMBDA a, b : a.measurement < b.measurement /\ a.track # b.track)
  /\ \A i \in DOMAIN Births : Births[i].attempt = 0 /\ Births[i].measurement < s.inputs
  /\ Tracks(Frozen) \cap Tracks(Births) = {}
  /\ s.active <= Cardinality(Tracks(Frozen)) + Cardinality(Tracks(Births))

WithinPolicy(s) ==
  /\ Cardinality(Tracks(Frozen)) <= MaxActiveTracks
  /\ Cardinality(Tracks(Births)) <= MaxActiveTracks
  /\ \A t \in Tracks(Frozen), m \in Range(s.expected) :
       Len(SelectSeq(History(t, m), LAMBDA e : ~IsMiss(e))) <= MaxAttempts

(* In an accepted ledger an observation is owed exactly by the pairs whose  *)
(* one terminal outcome requires it, with the projection of that outcome    *)
(* (the join keys the second route is checked against).                     *)
OwedByTerminals(s) ==
  LET owed == Owed(events, s)
      owing == {i \in DOMAIN events : ~IsMiss(events[i]) /\ ~IsBirth(events[i]) /\ events[i].v1}
  IN /\ DOMAIN owed = {PairOf(events[i]) : i \in owing}
     /\ \A i \in owing : owed[PairOf(events[i])] = events[i].projection
     /\ Cardinality(owing) = Cardinality(DOMAIN owed)

(* The one pass of validate_frame_ledger accepts exactly the ledgers of the *)
(* contract that the deployment's limits allow: none that double-counts,    *)
(* omits or contradicts an opportunity, and every one a lawful producer     *)
(* publishes; and what it passes on as owed is what they say.               *)
LedgerMatchesContract ==
  \A s \in Summaries :
    /\ LedgerError(events, s) = None <=> Lawful(s) /\ WithinPolicy(s)
    /\ LedgerError(events, s) = None => OwedByTerminals(s)
=============================================================================
