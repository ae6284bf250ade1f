------------------------------ MODULE RouteJoin ------------------------------
(***************************************************************************)
(* What cross-route assembly promises, without buffers, clocks or limits.  *)
(* One route is a log of monitor events in sequence order, the other a set *)
(* of observations.  A frame may come out once its summary is in the log   *)
(* and its observations are exactly those its ledger owes; frames come out *)
(* in fusion order, each carrying every event of its fusion sequence in    *)
(* log order, no two sharing a frozen prior.  The first fault ends it: the *)
(* failing call releases nothing, and nothing comes out after it.          *)
(* Assembler.tla implements this specification.                            *)
(***************************************************************************)
EXTENDS Integers, FiniteSets, SequencesExt

VARIABLES
  log,    \* monitor events taken, in sequence order
  seen,   \* observations taken
  out,    \* frames released, oldest first
  dead    \* a terminal fault happened

vars == <<log, seen, out, dead>>

Init == log = <<>> /\ seen = {} /\ out = <<>> /\ dead = FALSE

Closes(e, f) == e.kind = "Summary" /\ e.id.fusion = f
OfFrame(e, f) == e.kind \notin {"Heartbeat", "Summary"} /\ e.id.fusion = f

AddEvent(events, e, f)      == IF OfFrame(e, f) THEN Append(events, e) ELSE events
AddSummary(summaries, e, f) == IF Closes(e, f) THEN Append(summaries, e) ELSE summaries

Events(f)    == FoldLeft(LAMBDA events, e : AddEvent(events, e, f), <<>>, log)
Summaries(f) == FoldLeft(LAMBDA summaries, e : AddSummary(summaries, e, f), <<>>, log)
Evidence(f)  == {o \in seen : o.fusion = f}

(* Every outcome that owes an observation has exactly its own, and there is *)
(* no other.                                                                *)
Matched(f) ==
  LET owing == {i \in DOMAIN Events(f) : "v1" \in DOMAIN Events(f)[i] /\ Events(f)[i].v1}
      answers(o, e) == o.track = e.track /\ o.modality = e.modality
                       /\ o.ts = e.id.ts /\ o.projection = e.projection
  IN /\ Cardinality(owing) = Cardinality(Evidence(f))
     /\ \A i \in owing : \E o \in Evidence(f) : answers(o, Events(f)[i])

Joined(f) == [id |-> Summaries(f)[1].id, events |-> Events(f),
              observations |-> Evidence(f), summary |-> Summaries(f)[1]]

Releasable(r) ==
  LET f == r.id.fusion IN
  /\ Len(Summaries(f)) = 1 /\ Summaries(f)[1].outcomes = Len(Events(f))
  /\ \A i \in DOMAIN Events(f) : Events(f)[i].id = r.id
  /\ Matched(f)
  /\ r = Joined(f)

IsPrefixOf(s, t) == Len(s) <= Len(t) /\ SubSeq(t, 1, Len(s)) = s

(* A call takes some events and at most one observation, and releases what  *)
(* has become releasable and is newer than everything released before.      *)
Take ==
  /\ ~dead /\ ~dead'
  /\ IsPrefixOf(log, log') /\ seen \subseteq seen' /\ Cardinality(seen' \ seen) <= 1
  /\ IsPrefixOf(out, out')
  /\ \A i \in (Len(out) + 1)..Len(out') : Releasable(out[i])'
  /\ \A i, j \in DOMAIN out' : i < j =>
       out'[i].id.fusion < out'[j].id.fusion /\ out'[i].id.prior # out'[j].id.prior

Die == ~dead /\ dead' /\ UNCHANGED <<log, seen, out>>

Next == Take \/ Die

Spec == Init /\ [][Next]_vars
=============================================================================
