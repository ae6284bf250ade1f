-------------------------- MODULE MCDetectorOwners ---------------------------
(***************************************************************************)
(* Small detectors: windows of two, two channels, dimensions of one and    *)
(* two, two NIS levels; an adapter for both channels; a plan of three steps*)
(* for two entities.  Beside the owners, streams of up to five observations*)
(* grow for the alignment of consistency channels, and reports of four     *)
(* channels are fused with families of up to two axes.                     *)
(***************************************************************************)
EXTENDS DetectorOwners, ConsistencyChannels, Fusion

CONSTANT Contexts

MCSlack(dof) == 0
MCThreshold(dof) == 2
MCElevated(k, sum, count) == sum > 2 * k + count - 1

MCRoster == <<[modality |-> "V", dof |-> 1], [modality |-> "T", dof |-> 1]>>

MCEntities == <<"e1", "e2">>

Observed(seq, nis) ==
  [status |-> "Observed", source |-> [sensor |-> "s1", track |-> "k", seq |-> seq],
   nis |-> nis, dof |-> 1]

MCInnovations ==
  {[status |-> "Birth", source |-> None, nis |-> None, dof |-> 1],
   Observed(1, 1), Observed(2, 1), Observed(3, 1), Observed(2, None),
   [Observed(2, 1) EXCEPT !.source.sensor = "s2"]}

-----------------------------------------------------------------------------
(* Streams.                                                                 *)

(* Mostly a projection has a prior of its own and one context; at sequence  *)
(* two it may have another context, or the prior of sequence one.  A channel*)
(* nobody asked for, and another track, may come at sequence two.           *)
Projections(s) ==
  {None} \cup [prior : IF s = 2 THEN {1, 2} ELSE {s},
               provenance : IF s = 2 THEN Contexts ELSE {"c1"}]

MCObservations ==
  UNION {[track : {"t1"}, modality : Requested, seq : {s},
          time : IF s = 2 THEN {2, 3} ELSE {s}, projection : Projections(s)] : s \in {1, 2, 4}}
  \cup [track : {"t1"}, modality : {"R"}, seq : {2}, time : {2},
        projection : [prior : {1, 2}, provenance : {"c1"}]]
  \cup [track : {"t2"}, modality : Requested, seq : {2}, time : {2}, projection : {None}]

(* A stream the first pass has refused is refused however it goes on; one   *)
(* kind of observation is enough to come too late, and to be one too many   *)
(* for a stream that has two rows.                                          *)
MCObserve ==
  LET full == Len(stream) = MaxInputObservations IN
  /\ owner = "subset" /\ accepted = Nothing
  /\ Len(stream) <= MaxInputObservations /\ Read.error = None
  /\ full => Len(Extracted.rows) = 2
  /\ Observe
  /\ LET obs == Last(stream') IN
     full \/ (stream # <<>> /\ obs.seq < Last(stream).seq)
     => obs.modality = "V" /\ obs.projection = None /\ (full => obs.seq = 4)
  /\ UNCHANGED <<vars, assessment>>

-----------------------------------------------------------------------------
(* Reports and families.                                                    *)

Seen(window, hi, lo, seq, time) ==
  [dof |-> 1, window |-> window, hi |-> hi, lo |-> lo, seq |-> seq, time |-> time]

Quiet == Seen(<<1>>, 0, 0, 2, 2)
Loud  == Seen(<<3>>, 2, 0, 2, 2)

(* Most channels are quiet, inflated or not there; one may also be shifted  *)
(* down, stale or of another time.                                          *)
SuiteStates(m) ==
  {None, Quiet, Loud}
  \cup (IF m = "V" THEN {Seen(<<0, 0>>, 0, 2, 2, 2), Seen(<<3>>, 2, 0, 1, 1),
                         Seen(<<1>>, 0, 0, 2, 3)} ELSE {})

MCChannelSets ==
  LET there(f) == {m \in Suite : f[m] # None} IN
  {[m \in there(f) |-> f[m]] :
     f \in {g \in [Suite -> UNION {SuiteStates(m) : m \in Suite}] :
             \A m \in Suite : g[m] \in SuiteStates(m)}}

Pairs(channels) == {{a, b} : a, b \in channels} \ {{a} : a \in channels}

(* Every graph alone, and two axes of a few kinds each.                     *)
MCFamilies ==
  LET axis(edges) == [usable |-> TRUE, edges |-> edges]
      kinds == {[usable |-> FALSE, edges |-> {}], axis({}), axis(Pairs(Suite)),
                axis(Pairs(Suite \ {"V"})), axis(Pairs(Suite \ {"T"}))}
  IN {<<>>, <<[usable |-> FALSE, edges |-> {}]>>}
     \cup {<<axis(edges)>> : edges \in SUBSET Pairs(Suite)} \cup {<<a, b>> : a, b \in kinds}

-----------------------------------------------------------------------------
(* Side by side: one of the three moves in a behaviour.                     *)

MCInit == Init /\ stream = <<>> /\ FusionInit
MCNext ==
  \/ stream = <<>> /\ assessment = None /\ Next /\ UNCHANGED <<stream, assessment>>
  \/ assessment = None /\ MCObserve
  \/ /\ owner = "subset" /\ accepted = Nothing /\ stream = <<>>
     /\ assessment = None /\ FusionNext
     /\ UNCHANGED <<vars, stream>>
MCSpec == MCInit /\ [][MCNext]_<<vars, stream, assessment>>

=============================================================================
