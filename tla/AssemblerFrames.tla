--------------------------- MODULE AssemblerFrames ---------------------------
(***************************************************************************)
(* What the functions an assembler's call is made of do to its frames, and *)
(* what a call therefore keeps while an error may still strike (Running):  *)
(* the lemmas AssemblerProofs rests on.  The last ones are about the ledger *)
(* of a frame and its release.                                             *)
(***************************************************************************)
EXTENDS Assembler, FiniteSetTheorems, TLAPS

-----------------------------------------------------------------------------
(* The operators of RouteJoin, as functions of a log and of what was seen.  *)

Event    == {env.event : env \in MonitorEnvelopes}
Observed == {env.observation : env \in ObservationEnvelopes}

EventsIn(L, f)    == FoldLeft(LAMBDA events, e : Promise!AddEvent(events, e, f), <<>>, L)
SummariesIn(L, f) ==
  FoldLeft(LAMBDA summaries, e : Promise!AddSummary(summaries, e, f), <<>>, L)
EvidenceIn(S, f)  == {o \in S : o.fusion = f}

EventFold   == INSTANCE FoldFacts WITH Step <- Promise!AddEvent
SummaryFold == INSTANCE FoldFacts WITH Step <- Promise!AddSummary
LedgerFold  == INSTANCE FoldFacts WITH Step <- Record

(* Each of these names of the library is known by one name per instance.    *)
LEMMA FoldsAre ==
  \A L, f : /\ EventsIn(L, f) = EventFold!Fold(<<>>, L, f)
            /\ SummariesIn(L, f) = SummaryFold!Fold(<<>>, L, f)
<1>1. \A L, f : EventsIn(L, f) = EventFold!Fold(<<>>, L, f)
  BY DEF EventFold!Fold, EventsIn, FoldLeft, MapThenFoldSet, Max, EventFold!FoldLeft,
     EventFold!MapThenFoldSet, EventFold!Max
<1>2. \A L, f : SummariesIn(L, f) = SummaryFold!Fold(<<>>, L, f)
  BY DEF SummaryFold!Fold, SummariesIn, FoldLeft, MapThenFoldSet, Max, SummaryFold!FoldLeft,
     SummaryFold!MapThenFoldSet, SummaryFold!Max
<1> QED  BY <1>1, <1>2

LEMMA PromiseFoldsAre ==
  \A f : Promise!Events(f) = EventsIn(log, f) /\ Promise!Summaries(f) = SummariesIn(log, f)
<1>1. \A f : Promise!Events(f) = EventsIn(log, f)
  BY DEF Promise!Events, EventsIn, FoldLeft, MapThenFoldSet, Max, Promise!FoldLeft,
     Promise!MapThenFoldSet, Promise!Max
<1>2. \A f : Promise!Summaries(f) = SummariesIn(log, f)
  BY DEF Promise!Summaries, SummariesIn, FoldLeft, MapThenFoldSet, Max, Promise!FoldLeft,
     Promise!MapThenFoldSet, Promise!Max
<1> QED  BY <1>1, <1>2

LEMMA EmptyLog == \A f : EventsIn(<<>>, f) = <<>> /\ SummariesIn(<<>>, f) = <<>>
BY FoldsAre, EventFold!FoldEmpty, SummaryFold!FoldEmpty

LEMMA GrownLog ==
  ASSUME NEW L \in Seq(Event), NEW e \in Event, NEW f
  PROVE  /\ EventsIn(Append(L, e), f) = Promise!AddEvent(EventsIn(L, f), e, f)
         /\ SummariesIn(Append(L, e), f) = Promise!AddSummary(SummariesIn(L, f), e, f)
<1>1. EventsIn(Append(L, e), f) = Promise!AddEvent(EventsIn(L, f), e, f)
  BY FoldsAre, EventFold!FoldAppend
<1>2. SummariesIn(Append(L, e), f) = Promise!AddSummary(SummariesIn(L, f), e, f)
  BY FoldsAre, SummaryFold!FoldAppend
<1> QED  BY <1>1, <1>2
-----------------------------------------------------------------------------
(* What each stage of a call does.  The fields are those of the assembler,  *)
(* and those of a call; a stage that meets no error found none before it.   *)

SelfFields == {"next", "pending", "gapAt", "frames", "bytes", "priors", "high", "lastMonitor",
               "lastSummary", "lastFinalized", "beat", "lastBeat"}
WorkFields == SelfFields \cup {"error", "from", "told", "ready", "processed"}
FrameFields == {"seenAt", "id", "events", "observations", "tracks", "summary", "owed", "bytes",
                "ready"}

Work(w) == DOMAIN w = WorkFields

(* v is w but for the fields named, and for an error.                       *)
Changes(v, w, fields) ==
  /\ Work(v)
  /\ v.error = None => w.error = None
  /\ \A x \in WorkFields \ (fields \cup {"error", "from"}) : v[x] = w[x]

LEMMA FaultNames == \A kind \in AssemblyFaults : kind # None
BY EnvelopeAssumption

LEMMA Refused ==
  ASSUME NEW w, Work(w), NEW kind, NEW from
  PROVE  /\ Changes(Refuse(w, kind, from), w, {}) \/ kind = None
         /\ Work(Refuse(w, kind, from)) /\ Refuse(w, kind, from).error = kind
         /\ Refuse(w, kind, from).told = w.told
BY DEF Work, WorkFields, SelfFields, Changes, Refuse

LEMMA EnsureFrameIs ==
  ASSUME NEW w, Work(w), NEW f, NEW at
  PROVE  LET v == EnsureFrame(w, f, at) IN
         /\ Changes(v, w, {"frames"})
         /\ v.error = None =>
              IF f \in DOMAIN w.frames THEN v.frames = w.frames
              ELSE /\ v.frames = Put(w.frames, f, NewFrame(at))
                   /\ ~(Cardinality(DOMAIN w.frames) >= Limits.openFrames)
<1>1. "Frames" # None  BY FaultNames DEF AssemblyFaults
<1> QED  BY <1>1 DEF EnsureFrame, Refuse, Changes, Work, WorkFields, SelfFields

LEMMA EstablishIdentityIs ==
  ASSUME NEW w, Work(w), NEW id
  PROVE  LET v == EstablishIdentity(w, id)
             f == id.fusion
         IN
         /\ Changes(v, w, {"frames", "priors"})
         /\ v.error = None =>
              /\ v.priors = Put(w.priors, id.prior, f)
              /\ id.prior \in DOMAIN w.priors => w.priors[id.prior] = f
              /\ id.prior \notin DOMAIN w.priors =>
                   ~(Cardinality(DOMAIN w.priors) >= Limits.priors)
              /\ w.frames[f].id \in {None, id}
              /\ v.frames = [w.frames EXCEPT ![f].id = id]
<1>1. "PriorReuse" # None /\ "PriorIdentities" # None /\ "FrameIdentityMismatch" # None
  BY FaultNames DEF AssemblyFaults
<1> QED  BY <1>1 DEF EstablishIdentity, Refuse, Changes, Work, WorkFields, SelfFields

LEMMA ReserveBytesIs ==
  ASSUME NEW w, Work(w), NEW n, NEW from
  PROVE  LET v == ReserveBytes(w, n, from) IN
         /\ Changes(v, w, {"bytes"})
         /\ v.error = None => v.bytes = w.bytes + n /\ ~(w.bytes + n > Limits.bytes)
<1>1. "BufferedBytes" # None  BY FaultNames DEF AssemblyFaults
<1> QED  BY <1>1 DEF ReserveBytes, Refuse, Changes, Work, WorkFields, SelfFields

LEMMA CheckMonitorFrameOrderIs ==
  ASSUME NEW w, Work(w), NEW f
  PROVE  LET v == CheckMonitorFrameOrder(w, f) IN
         /\ Changes(v, w, {"lastMonitor"})
         /\ v.error = None =>
              /\ v.lastMonitor = f /\ w.lastSummary # f
              /\ w.lastMonitor # None =>
                   ~(f < w.lastMonitor) /\ (f > w.lastMonitor => w.lastSummary = w.lastMonitor)
<1>1. /\ "FusionSequenceRegressed" # None /\ "MissingSummaryBeforeNextFrame" # None
      /\ "EventAfterFrameSummary" # None
  BY FaultNames DEF AssemblyFaults
<1> QED  BY <1>1 DEF CheckMonitorFrameOrder, Refuse, Changes, Work, WorkFields, SelfFields

LEMMA RefuseSummarizedIs ==
  ASSUME NEW w, Work(w), NEW f
  PROVE  LET v == RefuseSummarized(w, f) IN
         /\ Changes(v, w, {})
         /\ v.error = None => v = w /\ w.frames[f].summary = None
<1>1. "EventAfterFrameSummary" # None  BY FaultNames DEF AssemblyFaults
<1> QED  BY <1>1 DEF RefuseSummarized, Refuse, Changes, Work, WorkFields, SelfFields
Opened(frames, f, at) == IF f \in DOMAIN frames THEN frames ELSE Put(frames, f, NewFrame(at))

LEMMA EnterFrameIs ==
  ASSUME NEW w, Work(w), NEW p
  PROVE  LET v  == EnterFrame(w, p)
             id == p.event.id
             f  == id.fusion
         IN
         /\ Changes(v, w, {"frames", "priors", "lastMonitor"})
         /\ v.error = None =>
              /\ v.lastMonitor = f /\ w.lastSummary # f
              /\ w.lastMonitor # None =>
                   ~(f < w.lastMonitor) /\ (f > w.lastMonitor => w.lastSummary = w.lastMonitor)
              /\ v.priors = Put(w.priors, id.prior, f)
              /\ id.prior \in DOMAIN w.priors => w.priors[id.prior] = f
              /\ id.prior \notin DOMAIN w.priors =>
                   ~(Cardinality(DOMAIN w.priors) >= Limits.priors)
              /\ Opened(w.frames, f, p.at)[f].id \in {None, id}
              /\ v.frames = [Opened(w.frames, f, p.at) EXCEPT ![f].id = id]
              /\ v.frames[f].summary = None
<1> DEFINE id == p.event.id
           f  == id.fusion
           a == CheckMonitorFrameOrder(w, f)
           b == EnsureFrame(a, f, p.at)
           c == EstablishIdentity(b, id)
           v == RefuseSummarized(c, f)
<1>0. EnterFrame(w, p) = v  BY DEF EnterFrame
<1>1. /\ Changes(a, w, {"lastMonitor"})
      /\ a.error = None =>
           /\ a.lastMonitor = f /\ w.lastSummary # f
           /\ w.lastMonitor # None =>
                ~(f < w.lastMonitor) /\ (f > w.lastMonitor => w.lastSummary = w.lastMonitor)
  BY CheckMonitorFrameOrderIs
<1> HIDE DEF a
<1>2. /\ Changes(b, a, {"frames"})
      /\ b.error = None => b.frames = Opened(a.frames, f, p.at)
  BY <1>1, EnsureFrameIs DEF Changes, Opened
<1> HIDE DEF b
<1>3. /\ Changes(c, b, {"frames", "priors"})
      /\ c.error = None =>
           /\ c.priors = Put(b.priors, id.prior, f)
           /\ id.prior \in DOMAIN b.priors => b.priors[id.prior] = f
           /\ id.prior \notin DOMAIN b.priors => ~(Cardinality(DOMAIN b.priors) >= Limits.priors)
           /\ b.frames[f].id \in {None, id}
           /\ c.frames = [b.frames EXCEPT ![f].id = id]
  BY <1>2, EstablishIdentityIs DEF Changes
<1> HIDE DEF c
<1>4. Changes(v, c, {}) /\ (v.error = None => v = c /\ c.frames[f].summary = None)
  BY <1>3, RefuseSummarizedIs DEF Changes
<1> HIDE DEF v
<1>5. Changes(v, w, {"frames", "priors", "lastMonitor"})
  BY <1>1, <1>2, <1>3, <1>4 DEF Changes, WorkFields, SelfFields
<1>6. v.error = None => a.frames = w.frames /\ b.priors = w.priors /\ v = c /\ v.lastMonitor = a.lastMonitor
                        /\ a.error = None /\ b.error = None /\ c.error = None
  BY <1>1, <1>2, <1>3, <1>4 DEF Changes, WorkFields, SelfFields
<1> HIDE DEF f, id
<1>7. v.error = None =>
              /\ v.lastMonitor = f /\ w.lastSummary # f
              /\ w.lastMonitor # None =>
                   ~(f < w.lastMonitor) /\ (f > w.lastMonitor => w.lastSummary = w.lastMonitor)
              /\ v.priors = Put(w.priors, id.prior, f)
              /\ id.prior \in DOMAIN w.priors => w.priors[id.prior] = f
              /\ id.prior \notin DOMAIN w.priors =>
                   ~(Cardinality(DOMAIN w.priors) >= Limits.priors)
              /\ Opened(w.frames, f, p.at)[f].id \in {None, id}
              /\ v.frames = [Opened(w.frames, f, p.at) EXCEPT ![f].id = id]
              /\ v.frames[f].summary = None
  BY <1>1, <1>2, <1>3, <1>4, <1>6
<1> QED  BY <1>0, <1>5, <1>7 DEF f, id

LEMMA AddEventIs ==
  ASSUME NEW w, Work(w), NEW p
  PROVE  LET v == AddEvent(w, p)
             f == p.event.id.fusion
         IN
         /\ Changes(v, w, {"frames", "bytes"})
         /\ v.error = None =>
              /\ v.bytes = w.bytes + p.bytes
              /\ v.frames = [w.frames EXCEPT ![f] = WithEvent(w.frames[f], p)]
BY DEF AddEvent, Refuse, Changes, Work, WorkFields, SelfFields

LEMMA NoSummaryError ==
  ASSUME NEW frame, NEW s, SummaryError(frame, s) = None
  PROVE  /\ Len(frame.events) = s.outcomes /\ LedgerError(frame.events, s) = None
         /\ \A p \in DOMAIN frame.observations :
              Joins(frame.id, Owed(frame.events, s), frame.observations[p])
<1>1. /\ "Registry" # None /\ "ProducerDegradedFrame" # None /\ "OutcomeCountMismatch" # None
      /\ "V1ExpectedCountMismatch" # None /\ "ObservationMismatch" # None
  BY FaultNames DEF AssemblyFaults
<1> DEFINE ledger == LedgerError(frame.events, s)
           owed   == Owed(frame.events, s)
           fits   == \A p \in DOMAIN frame.observations :
                       Joins(frame.id, owed, frame.observations[p])
<1>2. SummaryError(frame, s) =
        CASE s.trouble # None \/ s.active > MaxActiveTracks \/ s.outcomes > MaxOutcomes ->
               "Registry"
          [] s.degraded -> "ProducerDegradedFrame"
          [] Len(frame.events) # s.outcomes -> "OutcomeCountMismatch"
          [] ledger # None -> ledger
          [] Cardinality(DOMAIN owed) # s.v1Expected -> "V1ExpectedCountMismatch"
          [] ~fits -> "ObservationMismatch"
          [] OTHER -> None
  BY DEF SummaryError
<1> HIDE DEF ledger, owed, fits
<1>3. Len(frame.events) = s.outcomes /\ ledger = None /\ fits  BY <1>1, <1>2
<1> QED  BY <1>3 DEF ledger, owed, fits

LEMMA CloseFrameIs ==
  ASSUME NEW w, Work(w), NEW p
  PROVE  LET v == CloseFrame(w, p)
             f == p.event.id.fusion
         IN
         /\ Changes(v, w, {"frames", "bytes", "lastSummary"})
         /\ v.error = None =>
              /\ v.bytes = w.bytes + p.bytes /\ v.lastSummary = f
              /\ v.frames = [w.frames EXCEPT ![f] = Closed(w.frames[f], p)]
              /\ SummaryError(w.frames[f], p.event) = None
BY DEF CloseFrame, Refuse, Changes, Work, WorkFields, SelfFields

IsReady(frame) ==
  frame.summary # None /\ Cardinality(DOMAIN frame.observations) = Cardinality(DOMAIN frame.owed)

LEMMA RefreshReadinessIs ==
  ASSUME NEW w, Work(w), NEW f
  PROVE  LET v == RefreshReadiness(w, f) IN
         /\ Changes(v, w, {"frames"})
         /\ v.error = None => v.frames = [w.frames EXCEPT ![f].ready = IsReady(w.frames[f])]
BY DEF RefreshReadiness, IsReady, Changes, Work, WorkFields, SelfFields

LEMMA MoveOnIs ==
  ASSUME NEW w, Work(w), NEW q
  PROVE  LET v == MoveOn(w, q) IN
         Changes(v, w, {"next"}) /\ (v.error = None => v.next = q + 1)
<1>1. "MonitorSequenceExhausted" # None  BY FaultNames DEF AssemblyFaults
<1> QED  BY <1>1 DEF MoveOn, Refuse, Changes, Work, WorkFields, SelfFields

LEMMA ProcessHeartbeatIs ==
  ASSUME NEW w, Work(w), NEW p
  PROVE  LET v == ProcessHeartbeat(w, p) IN
         /\ Changes(v, w, {"beat", "lastBeat", "told"})
         /\ v.told = w.told \/ v.told = Append(w.told, [kind |-> "HeartbeatAccepted", at |-> p.at])
         /\ v.error = None => v.lastBeat = p.at
BY DEF ProcessHeartbeat, Refuse, Changes, Work, WorkFields, SelfFields

LEMMA ContractMismatchIs ==
  ASSUME NEW w, Work(w), NEW env
  PROVE  LET v == ContractMismatch(w, env) IN
         /\ Changes(v, w, {"told"})
         /\ v.told = w.told \/ v.told = Append(w.told, [kind |-> "ContractHashMismatch"])
BY DEF ContractMismatch, Changes, Work, WorkFields, SelfFields

(* Restrict of the library, by its definition.                              *)
LEMMA ReleaseOldestIs ==
  ASSUME NEW w, Work(w)
  PROVE  LET v == ReleaseOldest(w)
             f == OldestOpen(w)
         IN
         \/ v = w /\ (w.error # None \/ f = None \/ ~w.frames[f].ready)
         \/ /\ Changes(v, w, {"frames", "bytes", "lastFinalized", "ready"})
            /\ v.error = None /\ f # None /\ w.frames[f].ready
            /\ v.frames = [g \in DOMAIN w.frames \ {f} |-> w.frames[g]]
            /\ v.bytes = w.bytes - w.frames[f].bytes /\ v.lastFinalized = f
            /\ v.ready = Append(w.ready, Assembled(w.frames[f]))
BY DEF ReleaseOldest, Restrict, Changes, Work, WorkFields, SelfFields
-----------------------------------------------------------------------------
(* Totals of bytes, and the sizes of tables.                                *)

Total(F) == SumFunction([x \in DOMAIN F |-> F[x].bytes])

Weighed(F) == IsFiniteSet(DOMAIN F) /\ \A x \in DOMAIN F : F[x].bytes \in Nat

LEMMA SumsAre ==
  \A f, S : /\ SumFunctionOnSet(f, S) = EventFold!SumFunctionOnSet(f, S)
            /\ IsFiniteSet(S) <=> EventFold!IsFiniteSet(S)
<1>1. \A f, S : SumFunctionOnSet(f, S) = EventFold!SumFunctionOnSet(f, S)
  BY DEF SumFunctionOnSet, FoldFunctionOnSet, MapThenFoldSet, EventFold!SumFunctionOnSet,
     EventFold!FoldFunctionOnSet, EventFold!MapThenFoldSet
<1>2. \A S : IsFiniteSet(S) <=> EventFold!IsFiniteSet(S)
  BY DEF IsFiniteSet, EventFold!IsFiniteSet
<1> QED  BY <1>1, <1>2

LEMMA TotalTakes ==
  ASSUME NEW F, Weighed(F)
  PROVE  /\ Total(F) \in Nat
         /\ \A x \in DOMAIN F :
              /\ Total(F) = F[x].bytes + Total([y \in DOMAIN F \ {x} |-> F[y]])
              /\ Weighed([y \in DOMAIN F \ {x} |-> F[y]])
<1> DEFINE b == [x \in DOMAIN F |-> F[x].bytes]
<1>1. EventFold!IsFiniteSet(DOMAIN F) /\ \A x \in DOMAIN F : b[x] \in Nat
  BY SumsAre DEF Weighed
<1>2. Total(F) = EventFold!SumFunctionOnSet(b, DOMAIN F)
  BY SumsAre DEF Total, SumFunction
<1>3. /\ EventFold!SumFunctionOnSet(b, DOMAIN F) \in Nat
      /\ \A x \in DOMAIN F : EventFold!SumFunctionOnSet(b, DOMAIN F)
                               = b[x] + EventFold!SumFunctionOnSet(b, DOMAIN F \ {x})
  BY <1>1, EventFold!SumRemove
<1>4. ASSUME NEW x \in DOMAIN F
      PROVE  EventFold!SumFunctionOnSet(b, DOMAIN F \ {x}) = Total([y \in DOMAIN F \ {x} |-> F[y]])
  <2> DEFINE G == [y \in DOMAIN F \ {x} |-> F[y]]
             c == [y \in DOMAIN G |-> G[y].bytes]
  <2>1. Total(G) = EventFold!SumFunctionOnSet(c, DOMAIN F \ {x})
    BY SumsAre DEF Total, SumFunction
  <2>2. EventFold!IsFiniteSet(DOMAIN F \ {x})  BY FS_RemoveElement, SumsAre DEF Weighed
  <2>3. \A y \in DOMAIN F \ {x} : b[y] = c[y]  OBVIOUS
  <2>4. EventFold!SumFunctionOnSet(b, DOMAIN F \ {x}) = EventFold!SumFunctionOnSet(c, DOMAIN F \ {x})
    <3> HIDE DEF b, c, G
    <3> QED  BY <2>2, <2>3, EventFold!SumSame
  <2> QED  BY <2>1, <2>4
<1>5. \A x \in DOMAIN F : Weighed([y \in DOMAIN F \ {x} |-> F[y]])
  BY FS_RemoveElement DEF Weighed
<1> QED  BY <1>2, <1>3, <1>4, <1>5

LEMMA TotalEmpty == \A F : DOMAIN F = {} => Total(F) = 0
<1> SUFFICES ASSUME NEW F, DOMAIN F = {} PROVE Total(F) = 0  OBVIOUS
<1>1. Total(F) = EventFold!SumFunctionOnSet([x \in {} |-> F[x].bytes], {})
  BY SumsAre DEF Total, SumFunction
<1> QED  BY <1>1, EventFold!SumEmpty

LEMMA TotalPut ==
  ASSUME NEW F, Weighed(F), NEW x, x \notin DOMAIN F, NEW v, v.bytes \in Nat
  PROVE  Total(Put(F, x, v)) = v.bytes + Total(F) /\ Weighed(Put(F, x, v))
<1> DEFINE G == Put(F, x, v)
<1>1. DOMAIN G = DOMAIN F \cup {x} /\ G[x] = v /\ \A y \in DOMAIN F : G[y] = F[y]  BY DEF Put
<1> HIDE DEF G
<1>2. Weighed(G)  BY <1>1, FS_AddElement DEF Weighed
<1>3. Total(G) = v.bytes + Total([y \in DOMAIN G \ {x} |-> G[y]])  BY <1>1, <1>2, TotalTakes
<1>4. DOMAIN G \ {x} = DOMAIN F  BY <1>1
<1>5. [y \in DOMAIN [z \in DOMAIN F |-> G[z]] |-> [z \in DOMAIN F |-> G[z]][y].bytes]
        = [y \in DOMAIN F |-> F[y].bytes]
  BY <1>1
<1>6. Total([y \in DOMAIN F |-> G[y]]) = Total(F)  BY <1>5 DEF Total
<1> QED  BY <1>2, <1>3, <1>4, <1>6 DEF G

(* One entry replaced.                                                      *)
LEMMA TotalReplace ==
  ASSUME NEW F, Weighed(F), NEW x \in DOMAIN F, NEW G, DOMAIN G = DOMAIN F,
         \A y \in DOMAIN F \ {x} : G[y] = F[y], G[x].bytes \in Nat
  PROVE  Total(G) = Total(F) - F[x].bytes + G[x].bytes /\ Weighed(G) /\ Total(F) >= F[x].bytes
<1>1. Weighed(G)  BY DEF Weighed
<1> DEFINE R(H) == [y \in DOMAIN H \ {x} |-> H[y]]
<1>2. R(F) = R(G)  OBVIOUS
<1>3. Total(G) = G[x].bytes + Total(R(G))  BY <1>1, TotalTakes
<1>4. Total(F) = F[x].bytes + Total(R(F))  BY TotalTakes
<1>5. Total(R(F)) \in Nat  BY TotalTakes
<1>6. F[x].bytes \in Nat  BY DEF Weighed
<1> HIDE DEF R
<1> QED  BY <1>1, <1>2, <1>3, <1>4, <1>5, <1>6

LEMMA PutIs ==
  \A f, x, v : /\ DOMAIN Put(f, x, v) = DOMAIN f \cup {x} /\ Put(f, x, v)[x] = v
               /\ \A y \in DOMAIN f \ {x} : Put(f, x, v)[y] = f[y]
BY DEF Put

LEMMA PutSize ==
  ASSUME NEW f, IsFiniteSet(DOMAIN f), NEW x, NEW v, NEW limit \in Nat,
         Cardinality(DOMAIN f) <= limit,
         x \notin DOMAIN f => ~(Cardinality(DOMAIN f) >= limit)
  PROVE  IsFiniteSet(DOMAIN Put(f, x, v)) /\ Cardinality(DOMAIN Put(f, x, v)) <= limit
<1>1. DOMAIN Put(f, x, v) = DOMAIN f \cup {x}  BY PutIs
<1>2. Cardinality(DOMAIN f) \in Nat  BY FS_CardinalityType
<1>3. CASE x \in DOMAIN f
  <2>1. DOMAIN f \cup {x} = DOMAIN f  BY <1>3
  <2> QED  BY <1>1, <2>1
<1>4. CASE x \notin DOMAIN f
  <2>1. /\ Cardinality(DOMAIN f \cup {x}) = Cardinality(DOMAIN f) + 1
        /\ IsFiniteSet(DOMAIN f \cup {x})
    BY <1>4, FS_AddElement
  <2> QED  BY <1>1, <1>2, <1>4, <2>1
<1> QED  BY <1>3, <1>4
-----------------------------------------------------------------------------
(* The invariant, part by part, of the fields r, with a log L and evidence  *)
(* S taken so far and frames O released.                                    *)

Entry == [event : Event, bytes : Nat, at : Nat]
Option == Nat \cup {None}

Final(r, f) == r.lastFinalized # None /\ f <= r.lastFinalized

(* Summaries follow one another, and a frame is released after its summary. *)
Ordered(r) ==
  /\ r.lastMonitor \in Option /\ r.lastSummary \in Option /\ r.lastFinalized \in Option
  /\ r.lastFinalized # None => r.lastSummary # None /\ r.lastFinalized <= r.lastSummary
  /\ r.lastSummary # None => r.lastMonitor # None /\ r.lastSummary <= r.lastMonitor

(* The events waiting for their turn, within reach of the next sequence.    *)
Waiting(r) ==
  /\ r.next \in Nat
  /\ IsFiniteSet(DOMAIN r.pending) /\ DOMAIN r.pending \subseteq Nat
  /\ Cardinality(DOMAIN r.pending) <= Limits.reorderEvents
  /\ \A q \in DOMAIN r.pending :
       r.pending[q] \in Entry /\ q >= r.next /\ q - r.next <= Limits.reorderDistance

(* The frame of a waiting event was opened when the event was buffered.     *)
Foreseen(r) ==
  \A q \in DOMAIN r.pending :
    LET e == r.pending[q].event IN
    e.kind # "Heartbeat" => e.id.fusion \in DOMAIN r.frames \/ Final(r, e.id.fusion)

Tables(r) ==
  /\ IsFiniteSet(DOMAIN r.frames) /\ DOMAIN r.frames \subseteq Nat
  /\ Cardinality(DOMAIN r.frames) <= Limits.openFrames
  /\ \A f \in DOMAIN r.frames : r.frames[f].bytes \in Nat /\ r.frames[f].seenAt \in Nat
  /\ IsFiniteSet(DOMAIN r.priors) /\ Cardinality(DOMAIN r.priors) <= Limits.priors
  /\ IsFiniteSet(DOMAIN r.high) /\ Cardinality(DOMAIN r.high) <= Limits.observationStreams
  /\ \A x \in DOMAIN r.high : r.high[x] \in Nat

Budget(r) ==
  r.bytes = Total(r.pending) + Total(r.frames) /\ r.bytes <= Limits.bytes

(* Nothing that waits is past its deadline at t.                            *)
Timely(r, t) ==
  /\ \A q \in DOMAIN r.pending : t - r.pending[q].at < Limits.reorderDeadline
  /\ \A f \in DOMAIN r.frames :
       ~IsReady(r.frames[f]) => t - r.frames[f].seenAt < Limits.frameDeadline

(* The flags say what they should, but for those of X.                      *)
SettledBut(r, X) == \A f \in DOMAIN r.frames \ X : r.frames[f].ready = IsReady(r.frames[f])

KeepsId(r, f, id) == id.fusion = f /\ id.prior \in DOMAIN r.priors /\ r.priors[id.prior] = f

(* A frame holds what both routes have brought of it.                       *)
Gathered(r, f, L, S) ==
  LET frame == r.frames[f] IN
  /\ frame.events = EventsIn(L, f)
  /\ \A i \in DOMAIN frame.events :
       Promise!OfFrame(frame.events[i], f) /\ frame.events[i].id = frame.id
  /\ SummariesIn(L, f) = IF frame.summary = None THEN <<>> ELSE <<frame.summary>>
  /\ EvidenceIn(S, f) = {frame.observations[p] : p \in DOMAIN frame.observations}
  /\ \A p \in DOMAIN frame.observations :
       /\ p = <<frame.observations[p].track, frame.observations[p].modality>>
       /\ p \in DOMAIN r.high /\ f <= r.high[p]

(* And once summarized, what its ledger allows.                             *)
Balances(r, f) ==
  LET frame == r.frames[f] IN
  /\ frame.summary.id = frame.id /\ frame.id # None
  /\ frame.summary.outcomes = Len(frame.events)
  /\ LedgerError(frame.events, frame.summary) = None
  /\ frame.owed = Owed(frame.events, frame.summary)
  /\ \A p \in DOMAIN frame.observations : Joins(frame.id, frame.owed, frame.observations[p])
  /\ r.lastSummary # None /\ f <= r.lastSummary

FrameGood(r, f, L, S) ==
  LET frame == r.frames[f] IN
  /\ DOMAIN frame = FrameFields
  /\ frame.events \in Seq(Event) /\ IsFiniteSet(DOMAIN frame.observations)
  /\ frame.id # None => KeepsId(r, f, frame.id)
  /\ Final(r, f) => frame.summary = None
  /\ ~Final(r, f) => Gathered(r, f, L, S) /\ (frame.summary # None => Balances(r, f))

Untouched(L, S, f) == EventsIn(L, f) = <<>> /\ SummariesIn(L, f) = <<>> /\ EvidenceIn(S, f) = {}

(* Outcomes that owe an observation, matched with evidence E.               *)
Owes(events) == {i \in DOMAIN events : "v1" \in DOMAIN events[i] /\ events[i].v1}
MatchedIn(events, E) ==
  /\ Cardinality(Owes(events)) = Cardinality(E)
  /\ \A i \in Owes(events) : \E o \in E :
       /\ o.track = events[i].track /\ o.modality = events[i].modality
       /\ o.ts = events[i].id.ts /\ o.projection = events[i].projection

ReleasableIn(x, L, S) ==
  LET f == x.id.fusion
      events == EventsIn(L, f)
      summaries == SummariesIn(L, f)
  IN
  /\ Len(summaries) = 1 /\ summaries[1].outcomes = Len(events)
  /\ \A i \in DOMAIN events : events[i].id = x.id
  /\ MatchedIn(events, EvidenceIn(S, f))
  /\ x = [id |-> summaries[1].id, events |-> events, observations |-> EvidenceIn(S, f),
          summary |-> summaries[1]]

(* What was released is the join of its frame, and always will be.          *)
Done(r, O, L, S) ==
  /\ \A i \in DOMAIN O :
       LET f == O[i].id.fusion IN
       f \in Nat /\ Final(r, f) /\ KeepsId(r, f, O[i].id) /\ ReleasableIn(O[i], L, S)
  /\ \A i, j \in DOMAIN O : i < j => O[i].id.fusion < O[j].id.fusion

(* A summarized frame that is not open was released.                        *)
SummedUp(r, O, L) ==
  \A f \in Nat : Final(r, f) /\ SummariesIn(L, f) # <<>> => \E i \in DOMAIN O : O[i].id.fusion = f

Joined(r, O, L, S) ==
  /\ \A f \in DOMAIN r.frames : FrameGood(r, f, L, S)
  /\ \A f \in Nat \ DOMAIN r.frames : ~Final(r, f) => Untouched(L, S, f)
  /\ Done(r, O, L, S)
  /\ SummedUp(r, O, L)

-----------------------------------------------------------------------------
(* A step that concerns one frame leaves what holds of the others.          *)

SameFolds(L, M, f) == EventsIn(M, f) = EventsIn(L, f) /\ SummariesIn(M, f) = SummariesIn(L, f)

Extends(p, q) == \A x \in DOMAIN p : x \in DOMAIN q /\ q[x] = p[x]

Beside(w, v, f, L, M, S, T) ==
  /\ v.lastFinalized = w.lastFinalized
  /\ DOMAIN w.frames \subseteq DOMAIN v.frames /\ DOMAIN v.frames \subseteq DOMAIN w.frames \cup {f}
  /\ \A g \in DOMAIN w.frames \ {f} : v.frames[g] = w.frames[g]
  /\ Extends(w.priors, v.priors)
  /\ \A x \in DOMAIN w.high : x \in DOMAIN v.high /\ v.high[x] \in Nat /\ w.high[x] <= v.high[x]
  /\ w.lastSummary # None => v.lastSummary # None /\ w.lastSummary <= v.lastSummary
  /\ \A g : g # f \/ Final(w, g) => SameFolds(L, M, g) /\ EvidenceIn(T, g) = EvidenceIn(S, g)

LEMMA BesideOthers ==
  ASSUME NEW w, NEW v, NEW f, NEW L, NEW M, NEW S, NEW T, NEW O,
         Tables(w), Ordered(w), Ordered(v), Beside(w, v, f, L, M, S, T), Joined(w, O, L, S)
  PROVE  /\ \A g \in DOMAIN v.frames \ {f} : FrameGood(v, g, M, T)
         /\ \A g \in Nat \ (DOMAIN v.frames \cup {f}) : ~Final(v, g) => Untouched(M, T, g)
         /\ Done(v, O, M, T)
         /\ SummedUp(v, O, M)
<1>1. \A g : Final(v, g) <=> Final(w, g)  BY DEF Beside, Final
<1>2. \A g, id : KeepsId(w, g, id) => KeepsId(v, g, id)  BY DEF Beside, Extends, KeepsId
<1>3. ASSUME NEW g \in DOMAIN v.frames \ {f} PROVE FrameGood(v, g, M, T)
  <2>0. g \in DOMAIN w.frames /\ v.frames[g] = w.frames[g] /\ g \in Nat
    BY DEF Beside, Tables
  <2>1. FrameGood(w, g, L, S)  BY <2>0 DEF Joined
  <2>2. SameFolds(L, M, g) /\ EvidenceIn(T, g) = EvidenceIn(S, g)  BY DEF Beside
  <2>3. Gathered(w, g, L, S) => Gathered(v, g, M, T)
    <3> SUFFICES ASSUME Gathered(w, g, L, S) PROVE Gathered(v, g, M, T)  OBVIOUS
    <3>1. ASSUME NEW p \in DOMAIN v.frames[g].observations
          PROVE  /\ p = <<v.frames[g].observations[p].track, v.frames[g].observations[p].modality>>
                 /\ p \in DOMAIN v.high /\ g <= v.high[p]
      <4>1. /\ p = <<v.frames[g].observations[p].track, v.frames[g].observations[p].modality>>
            /\ p \in DOMAIN w.high /\ g <= w.high[p]
        BY <2>0 DEF Gathered
      <4>2. p \in DOMAIN v.high /\ v.high[p] \in Nat /\ w.high[p] <= v.high[p] /\ w.high[p] \in Nat
        BY <4>1 DEF Beside, Tables
      <4> QED  BY <2>0, <4>1, <4>2
    <3> QED  BY <2>0, <2>2, <3>1 DEF Gathered, SameFolds
  <2>4. Balances(w, g) => Balances(v, g)
    <3> SUFFICES ASSUME Balances(w, g) PROVE Balances(v, g)  OBVIOUS
    <3>1. v.lastSummary # None /\ g <= v.lastSummary
      BY <2>0 DEF Balances, Beside, Ordered, Option
    <3> QED  BY <2>0, <3>1 DEF Balances
  <2> QED  BY <1>1, <1>2, <2>0, <2>1, <2>3, <2>4 DEF FrameGood
<1>4. ASSUME NEW g \in Nat \ (DOMAIN v.frames \cup {f}), ~Final(v, g) PROVE Untouched(M, T, g)
  BY <1>1, <1>4 DEF Beside, SameFolds, Joined, Untouched
<1>5. Done(v, O, M, T)
  <2>1. ASSUME NEW i \in DOMAIN O
        PROVE  LET g == O[i].id.fusion IN
               g \in Nat /\ Final(v, g) /\ KeepsId(v, g, O[i].id) /\ ReleasableIn(O[i], M, T)
    <3> DEFINE g == O[i].id.fusion
    <3>1. g \in Nat /\ Final(w, g) /\ KeepsId(w, g, O[i].id) /\ ReleasableIn(O[i], L, S)
      BY DEF Joined, Done
    <3>2. SameFolds(L, M, g) /\ EvidenceIn(T, g) = EvidenceIn(S, g)  BY <3>1 DEF Beside
    <3>3. ReleasableIn(O[i], M, T)  BY <3>1, <3>2 DEF ReleasableIn, SameFolds
    <3> QED  BY <1>1, <1>2, <3>1, <3>3
  <2> QED  BY <2>1 DEF Joined, Done
<1>6. SummedUp(v, O, M)
  BY <1>1 DEF Beside, SameFolds, Joined, SummedUp
<1> QED  BY <1>3, <1>4, <1>5, <1>6
-----------------------------------------------------------------------------
(* The invariant while a call runs at t with evidence S: of its fields, of  *)
(* the log with what it has processed, of what is out with what it releases.*)

IsSeq(s) == \E T : s \in Seq(T)
Calm(notices) ==
  IsSeq(notices) /\ \A i \in DOMAIN notices : notices[i].kind # "FrameReady"

LogWith(w) == log \o [i \in DOMAIN w.processed |-> w.processed[i].event]
OutWith(w) == out \o w.ready

Sequenced(w) ==
  /\ log \in Seq(Event) /\ IsSeq(out)
  /\ w.processed \in Seq(Entry) /\ IsSeq(w.ready) /\ Calm(w.told) /\ w.lastBeat \in Option

Running(w, S, t) ==
  /\ Work(w) /\ Sequenced(w)
  /\ Ordered(w) /\ Waiting(w) /\ Foreseen(w) /\ Tables(w) /\ Budget(w) /\ Timely(w, t)
  /\ Joined(w, OutWith(w), LogWith(w), S)

LEMMA EventFacts ==
  \A e \in Event :
    /\ e # None
    /\ e.kind # "Heartbeat" => e.id # None /\ e.id.fusion \in Nat
    /\ e.kind \notin {"Heartbeat", "Summary"} =>
         IF IsMiss(e) \/ IsBirth(e) THEN "v1" \in DOMAIN e => ~e.v1
         ELSE "v1" \in DOMAIN e /\ e.v1 \in BOOLEAN
BY EnvelopeAssumption DEF Event

LEMMA SeqAppend == \A s, x : IsSeq(s) => IsSeq(Append(s, x))
<1> SUFFICES ASSUME NEW s, NEW x, NEW T, s \in Seq(T) PROVE IsSeq(Append(s, x))  BY DEF IsSeq
<1>1. s \in Seq(T \cup {x})  OBVIOUS
<1>2. Append(s, x) \in Seq(T \cup {x})  BY <1>1
<1> QED  BY <1>2 DEF IsSeq

LEMMA CalmAppend == \A s, x : Calm(s) /\ x.kind # "FrameReady" => Calm(Append(s, x))
<1> SUFFICES ASSUME NEW s, NEW x, NEW T, s \in Seq(T), Calm(s), x.kind # "FrameReady"
             PROVE Calm(Append(s, x))
  BY DEF Calm, IsSeq
<1>1. \A i \in DOMAIN Append(s, x) : Append(s, x)[i].kind # "FrameReady"  BY DEF Calm
<1> QED  BY <1>1, SeqAppend DEF Calm

LEMMA ConcatAppend ==
  ASSUME NEW s, NEW t, NEW x, IsSeq(s), IsSeq(t)
  PROVE  s \o Append(t, x) = Append(s \o t, x)
<1>1. PICK T : s \in Seq(T)  BY DEF IsSeq
<1>2. PICK U : t \in Seq(U)  BY DEF IsSeq
<1>3. s \in Seq(T \cup U \cup {x}) /\ t \in Seq(T \cup U \cup {x})  BY <1>1, <1>2
<1> QED  BY <1>3

LEMMA EventsAppend ==
  ASSUME NEW s \in Seq(Entry), NEW p \in Entry
  PROVE  LET E(t) == [i \in DOMAIN t |-> t[i].event] IN
         /\ E(s) \in Seq(Event) /\ p.event \in Event
         /\ E(Append(s, p)) = Append(E(s), p.event)
<1> DEFINE E(t) == [i \in DOMAIN t |-> t[i].event]
<1>1. DOMAIN s = 1..Len(s) /\ Len(s) \in Nat /\ \A i \in 1..Len(s) : s[i] \in Entry  OBVIOUS
<1>2. p.event \in Event /\ \A i \in 1..Len(s) : s[i].event \in Event  BY <1>1 DEF Entry
<1>3. E(s) = [i \in 1..Len(s) |-> s[i].event]  BY <1>1
<1>4. E(s) \in Seq(Event) /\ Len(E(s)) = Len(s)
  <2>1. [i \in 1..Len(s) |-> s[i].event] \in Seq(Event)  BY <1>1, <1>2
  <2>2. Len([i \in 1..Len(s) |-> s[i].event]) = Len(s)  BY <1>1
  <2> QED  BY <1>3, <2>1, <2>2
<1> DEFINE q == Append(s, p)
<1>5. DOMAIN q = 1..(Len(s) + 1) /\ q[Len(s) + 1] = p /\ \A i \in 1..Len(s) : q[i] = s[i]  BY <1>1
<1> HIDE DEF q
<1>6. E(q) = [i \in 1..(Len(s) + 1) |-> q[i].event]  BY <1>5
<1>7. \A i \in 1..(Len(s) + 1) :
        q[i].event = IF i = Len(s) + 1 THEN p.event ELSE E(s)[i]
  BY <1>1, <1>3, <1>5
<1>8. /\ DOMAIN Append(E(s), p.event) = 1..(Len(s) + 1)
      /\ \A i \in 1..(Len(s) + 1) :
           Append(E(s), p.event)[i] = IF i = Len(s) + 1 THEN p.event ELSE E(s)[i]
  <2> HIDE DEF E
  <2> QED  BY <1>1, <1>2, <1>4
<1>9. Append(E(s), p.event) = [i \in 1..(Len(s) + 1) |-> q[i].event]
  <2> HIDE DEF E
  <2>1. Append(E(s), p.event) \in Seq(Event)  BY <1>2, <1>4
  <2>2. Append(E(s), p.event) = [i \in 1..(Len(s) + 1) |-> Append(E(s), p.event)[i]]
    BY <1>8, <2>1
  <2> QED  BY <1>7, <1>8, <2>2
<1> QED  BY <1>2, <1>4, <1>6, <1>9 DEF q

LEMMA LogAppend ==
  ASSUME NEW w, NEW v, NEW p \in Entry, Sequenced(w), v.processed = Append(w.processed, p)
  PROVE  /\ LogWith(v) = Append(LogWith(w), p.event) /\ LogWith(w) \in Seq(Event)
         /\ p.event \in Event
<1> DEFINE E(s) == [i \in DOMAIN s |-> s[i].event]
<1>1. /\ E(w.processed) \in Seq(Event) /\ p.event \in Event
      /\ E(v.processed) = Append(E(w.processed), p.event)
  BY EventsAppend DEF Sequenced
<1>2. LogWith(w) = log \o E(w.processed) /\ LogWith(v) = log \o E(v.processed)  BY DEF LogWith
<1> HIDE DEF E
<1>3. log \in Seq(Event)  BY DEF Sequenced
<1>4. log \o E(v.processed) = Append(log \o E(w.processed), p.event)
  BY <1>1, <1>3
<1> QED  BY <1>1, <1>2, <1>3, <1>4

LEMMA LogGrows ==
  ASSUME NEW L \in Seq(Event), NEW e \in Event
  PROVE  LET M == Append(L, e) IN
         /\ e.kind = "Heartbeat" => \A g : SameFolds(L, M, g)
         /\ e.kind # "Heartbeat" => \A g : g # e.id.fusion => SameFolds(L, M, g)
         /\ e.kind = "Summary" => /\ EventsIn(M, e.id.fusion) = EventsIn(L, e.id.fusion)
                                  /\ SummariesIn(M, e.id.fusion) =
                                       Append(SummariesIn(L, e.id.fusion), e)
         /\ e.kind \notin {"Heartbeat", "Summary"} =>
              /\ EventsIn(M, e.id.fusion) = Append(EventsIn(L, e.id.fusion), e)
              /\ SummariesIn(M, e.id.fusion) = SummariesIn(L, e.id.fusion)
BY GrownLog DEF SameFolds, Promise!AddEvent, Promise!AddSummary, Promise!OfFrame, Promise!Closes

-----------------------------------------------------------------------------
(* A turn of the monitor route: its event leaves the table and enters a     *)
(* frame.                                                                   *)

Popped(w) ==
  [w EXCEPT !.bytes = @ - w.pending[w.next].bytes,
            !.pending = Restrict(@, DOMAIN @ \ {w.next}),
            !.processed = Append(@, w.pending[w.next])]

LEMMA PoppedIs ==
  ASSUME NEW w, Work(w)
  PROVE  LET v == Popped(w) IN
         /\ Work(v) /\ \A x \in WorkFields \ {"bytes", "pending", "processed"} : v[x] = w[x]
         /\ v.bytes = w.bytes - w.pending[w.next].bytes
         /\ v.pending = [q \in DOMAIN w.pending \ {w.next} |-> w.pending[q]]
         /\ v.processed = Append(w.processed, w.pending[w.next])
BY DEF Popped, Restrict, Work, WorkFields, SelfFields

Taken(w, v, frame) ==
  LET p  == w.pending[w.next]
      id == p.event.id
      f  == id.fusion
  IN
  /\ Changes(v, w, {"bytes", "pending", "processed", "frames", "priors", "lastMonitor",
                    "lastSummary"})
  /\ v.bytes = w.bytes
  /\ v.pending = [q \in DOMAIN w.pending \ {w.next} |-> w.pending[q]]
  /\ v.processed = Append(w.processed, p)
  /\ f \in DOMAIN w.frames /\ ~Final(w, f)
  /\ w.frames[f].summary = None /\ w.frames[f].id \in {None, id}
  /\ v.frames = [w.frames EXCEPT ![f] = frame]
  /\ v.priors = Put(w.priors, id.prior, f)
  /\ id.prior \in DOMAIN w.priors => w.priors[id.prior] = f
  /\ id.prior \notin DOMAIN w.priors => ~(Cardinality(DOMAIN w.priors) >= Limits.priors)
  /\ v.lastMonitor = f /\ (w.lastMonitor # None => w.lastMonitor <= f)

(* The frame an event enters is open and not yet summarized.                *)
LEMMA Entered ==
  ASSUME NEW w, NEW S, NEW t, Running(w, S, t), w.next \in DOMAIN w.pending,
         w.pending[w.next].event.kind # "Heartbeat"
  PROVE  LET p  == w.pending[w.next]
             id == p.event.id
             f  == id.fusion
             v  == EnterFrame(Popped(w), p)
         IN
         /\ Changes(v, w, {"bytes", "pending", "processed", "frames", "priors", "lastMonitor"})
         /\ v.error = None =>
              /\ Taken(w, [v EXCEPT !.bytes = w.bytes], [w.frames[f] EXCEPT !.id = id])
              /\ v.bytes = w.bytes - p.bytes
<1> DEFINE p  == w.pending[w.next]
           id == p.event.id
           f  == id.fusion
           u  == Popped(w)
           v  == EnterFrame(u, p)
<1>1. Work(w) /\ p \in Entry /\ id # None /\ f \in Nat
  BY EventFacts DEF Running, Waiting, Entry
<1>2. /\ Work(u) /\ \A x \in WorkFields \ {"bytes", "pending", "processed"} : u[x] = w[x]
      /\ u.bytes = w.bytes - p.bytes
      /\ u.pending = [q \in DOMAIN w.pending \ {w.next} |-> w.pending[q]]
      /\ u.processed = Append(w.processed, p)
  BY <1>1, PoppedIs
<1>3. u.error = w.error /\ u.lastSummary = w.lastSummary /\ u.lastMonitor = w.lastMonitor
      /\ u.priors = w.priors /\ u.frames = w.frames
  BY <1>2 DEF WorkFields, SelfFields
<1> HIDE DEF u
<1>4. /\ Changes(v, u, {"frames", "priors", "lastMonitor"})
      /\ v.error = None =>
              /\ v.lastMonitor = f /\ u.lastSummary # f
              /\ u.lastMonitor # None =>
                   ~(f < u.lastMonitor) /\ (f > u.lastMonitor => u.lastSummary = u.lastMonitor)
              /\ v.priors = Put(u.priors, id.prior, f)
              /\ id.prior \in DOMAIN u.priors => u.priors[id.prior] = f
              /\ id.prior \notin DOMAIN u.priors =>
                   ~(Cardinality(DOMAIN u.priors) >= Limits.priors)
              /\ Opened(u.frames, f, p.at)[f].id \in {None, id}
              /\ v.frames = [Opened(u.frames, f, p.at) EXCEPT ![f].id = id]
              /\ v.frames[f].summary = None
  <2>1. Work(u)  BY <1>2
  <2> QED  BY ONLY <2>1, EnterFrameIs
<1> HIDE DEF v
<1>5. Changes(v, w, {"bytes", "pending", "processed", "frames", "priors", "lastMonitor"})
  BY <1>2, <1>4 DEF Changes, WorkFields, SelfFields
<1>6. ASSUME v.error = None
      PROVE  /\ Taken(w, [v EXCEPT !.bytes = w.bytes], [w.frames[f] EXCEPT !.id = id])
             /\ v.bytes = w.bytes - p.bytes
  <2>0. w.lastSummary # f /\ w.lastMonitor # None => ~(f < w.lastMonitor)
    BY <1>3, <1>4, <1>6
  <2>a. w.lastSummary # f  BY <1>3, <1>4, <1>6
  <2>b. Ordered(w)  BY DEF Running
  <2> HIDE DEF f
  <2>1. w.lastMonitor # None => w.lastMonitor <= f
    BY <1>1, <2>0, <2>a, <2>b DEF Ordered, Option
  <2>2. ~Final(w, f)
    BY <1>1, <2>1, <2>a, <2>b DEF Ordered, Option, Final
  <2> USE DEF f
  <2>3. f \in DOMAIN w.frames
    BY <2>2 DEF Running, Foreseen
  <2>4. DOMAIN w.frames[f] = FrameFields  BY <2>3 DEF Running, Joined, FrameGood
  <2>5. Opened(u.frames, f, p.at) = w.frames  BY <1>3, <2>3 DEF Opened
  <2>6. v.frames = [w.frames EXCEPT ![f].id = id] /\ w.frames[f].id \in {None, id}
    BY <1>4, <1>6, <2>5
  <2>7. v.frames[f] = [w.frames[f] EXCEPT !.id = id]  BY <2>3, <2>6
  <2>8. w.frames[f].summary = None  BY <1>4, <1>6, <2>4, <2>7 DEF FrameFields
  <2>9. v.frames = [w.frames EXCEPT ![f] = [w.frames[f] EXCEPT !.id = id]]  BY <2>6
  <2>10. v.bytes = w.bytes - p.bytes /\ v.pending = u.pending /\ v.processed = u.processed
    BY <1>2, <1>4 DEF Changes, WorkFields, SelfFields
  <2> DEFINE z == [v EXCEPT !.bytes = w.bytes]
  <2>11. /\ Changes(z, w, {"bytes", "pending", "processed", "frames", "priors", "lastMonitor",
                           "lastSummary"})
         /\ z.bytes = w.bytes /\ z.pending = v.pending /\ z.processed = v.processed
         /\ z.frames = v.frames /\ z.priors = v.priors /\ z.lastMonitor = v.lastMonitor
    BY <1>5 DEF Changes, Work, WorkFields, SelfFields
  <2> HIDE DEF z
  <2>12. Taken(w, z, [w.frames[f] EXCEPT !.id = id])
    BY <1>2, <1>3, <1>4, <1>6, <2>1, <2>2, <2>3, <2>6, <2>8, <2>9, <2>10, <2>11 DEF Taken
  <2> QED  BY <2>10, <2>12 DEF z
<1> QED  BY <1>5, <1>6 DEF u, v

LEMMA SequencedAppend ==
  ASSUME NEW w, NEW v, NEW p \in Entry, Sequenced(w), v.processed = Append(w.processed, p),
         v.ready = w.ready, v.told = w.told, v.lastBeat = w.lastBeat
  PROVE  Sequenced(v) /\ OutWith(v) = OutWith(w)
BY DEF Sequenced, OutWith

(* The frame holds what has been gathered, with the event of this turn.     *)
Filled(w, v, S, frame) ==
  LET p == w.pending[w.next]
      f == p.event.id.fusion
      M == Append(LogWith(w), p.event)
  IN  /\ DOMAIN frame = FrameFields /\ frame.events \in Seq(Event)
      /\ frame.id = p.event.id /\ frame.bytes = w.frames[f].bytes + p.bytes
      /\ frame.seenAt = w.frames[f].seenAt
      /\ frame.observations = w.frames[f].observations
      /\ v.lastSummary \in {w.lastSummary, f}
      /\ Gathered(v, f, M, S) /\ (frame.summary # None => Balances(v, f))

(* What such a turn keeps.                                                  *)
LEMMA TakenKeeps ==
  ASSUME NEW w, NEW v, NEW S, NEW t \in Nat, NEW frame, Running(w, S, t), SettledBut(w, {}),
         w.next \in DOMAIN w.pending, w.pending[w.next].event.kind # "Heartbeat",
         Taken(w, v, frame), Filled(w, v, S, frame)
  PROVE  Running(v, S, t) /\ SettledBut(v, {w.pending[w.next].event.id.fusion})
<1> DEFINE n  == w.next
           p  == w.pending[n]
           id == p.event.id
           f  == id.fusion
           L  == LogWith(w)
           M  == Append(L, p.event)
           old == w.frames[f]
<1>1. /\ p \in Entry /\ p.event \in Event /\ f \in Nat /\ p.bytes \in Nat
      /\ n \in Nat /\ n \in DOMAIN w.pending /\ p.event.kind # "Heartbeat"
  BY EventFacts DEF Running, Waiting, Entry
<1>w. Work(v) /\ Changes(v, w, {"bytes", "pending", "processed", "frames", "priors",
                                 "lastMonitor", "lastSummary"})
  BY DEF Taken, Changes
<1>2. /\ v.next = w.next /\ v.high = w.high /\ v.lastFinalized = w.lastFinalized
      /\ v.lastBeat = w.lastBeat /\ v.told = w.told /\ v.ready = w.ready
  BY <1>w DEF Changes, WorkFields, SelfFields
<1>3. v.bytes = w.bytes /\ v.pending = [q \in DOMAIN w.pending \ {n} |-> w.pending[q]]
      /\ v.processed = Append(w.processed, p)
  BY DEF Taken
<1>4. v.frames = [w.frames EXCEPT ![f] = frame] /\ f \in DOMAIN w.frames /\ ~Final(w, f)
      /\ old.summary = None
  BY DEF Taken
<1>5. DOMAIN v.frames = DOMAIN w.frames /\ v.frames[f] = frame
      /\ \A g \in DOMAIN w.frames \ {f} : v.frames[g] = w.frames[g]
  BY <1>4
<1>6. /\ v.priors = Put(w.priors, id.prior, f)
      /\ id.prior \in DOMAIN w.priors => w.priors[id.prior] = f
      /\ id.prior \notin DOMAIN w.priors => ~(Cardinality(DOMAIN w.priors) >= Limits.priors)
  BY DEF Taken
<1>7. v.lastMonitor = f /\ (w.lastMonitor # None => w.lastMonitor <= f)  BY DEF Taken
<1>8. /\ DOMAIN frame = FrameFields /\ frame.events \in Seq(Event) /\ frame.id = id
      /\ frame.bytes = old.bytes + p.bytes /\ frame.seenAt = old.seenAt
      /\ frame.observations = old.observations
      /\ v.lastSummary \in {w.lastSummary, f}
      /\ Gathered(v, f, M, S) /\ (frame.summary # None => Balances(v, f))
  BY DEF Filled
<1>9. /\ Work(w) /\ Sequenced(w) /\ Ordered(w) /\ Waiting(w) /\ Foreseen(w) /\ Tables(w)
      /\ Budget(w) /\ Timely(w, t) /\ Joined(w, OutWith(w), L, S)
  BY DEF Running
<1>10. /\ LogWith(v) = M /\ L \in Seq(Event) /\ Sequenced(v) /\ OutWith(v) = OutWith(w)
  BY <1>1, <1>2, <1>3, <1>9, SequencedAppend, LogAppend
<1>11. \A g : g # f => SameFolds(L, M, g)  BY <1>1, <1>10, LogGrows
<1>12. Total(w.pending) = p.bytes + Total(v.pending) /\ Total(v.pending) \in Nat
  <2>1. Weighed(w.pending)  BY <1>9 DEF Weighed, Waiting, Entry
  <2>2. n \in DOMAIN w.pending  BY <1>1
  <2> HIDE DEF n
  <2>3. LET G == [q \in DOMAIN w.pending \ {n} |-> w.pending[q]] IN
        Total(w.pending) = w.pending[n].bytes + Total(G) /\ Weighed(G)
    BY ONLY <2>1, <2>2, TotalTakes
  <2>4. Total(w.pending) = p.bytes + Total(v.pending) /\ Weighed(v.pending)
    BY <1>3, <2>3
  <2> QED  BY <2>4, TotalTakes
<1>13. KeepsId(v, f, id) /\ Extends(w.priors, v.priors)
  <2> DEFINE x == id.prior
             q == w.priors
  <2>1. v.priors = Put(q, x, f) /\ (x \in DOMAIN q => q[x] = f)  BY <1>6
  <2> HIDE DEF x, q
  <2>2. x \in DOMAIN v.priors /\ v.priors[x] = f  BY ONLY <2>1 DEF Put
  <2>3. \A y \in DOMAIN q : y \in DOMAIN v.priors /\ v.priors[y] = q[y]
    BY ONLY <2>1 DEF Put
  <2> QED  BY <2>2, <2>3 DEF KeepsId, Extends, x, q
<1> HIDE DEF n, p, id, f, L, M, old
<1>14. Ordered(v)
  <2>1. w.lastSummary # None => w.lastSummary \in Nat /\ w.lastSummary <= f
    BY ONLY <1>1, <1>7, <1>9 DEF Ordered, Option
  <2>2. /\ v.lastMonitor \in Option /\ v.lastSummary \in Option /\ v.lastFinalized \in Option
        /\ v.lastSummary # None => v.lastMonitor # None /\ v.lastSummary <= v.lastMonitor
    BY <1>1, <1>2, <1>7, <1>8, <1>9, <2>1, EnvelopeAssumption DEF Ordered, Option
  <2>3. v.lastFinalized # None => v.lastSummary # None /\ v.lastFinalized <= v.lastSummary
    BY <1>1, <1>2, <1>8, <1>9, <2>1, EnvelopeAssumption DEF Ordered, Option
  <2> QED  BY <2>2, <2>3 DEF Ordered
<1>15. Waiting(v)
  <2>1. DOMAIN v.pending = DOMAIN w.pending \ {n}  BY <1>3
  <2>2. /\ IsFiniteSet(DOMAIN v.pending)
        /\ Cardinality(DOMAIN v.pending) <= Cardinality(DOMAIN w.pending)
        /\ Cardinality(DOMAIN v.pending) \in Nat /\ Cardinality(DOMAIN w.pending) \in Nat
    BY <1>9, <2>1, FS_Subset, FS_CardinalityType DEF Waiting
  <2>3. Limits.reorderEvents \in Nat  BY LimitsAssumption
  <2>4. Cardinality(DOMAIN v.pending) <= Limits.reorderEvents  BY <1>9, <2>2, <2>3 DEF Waiting
  <2>5. \A q \in DOMAIN v.pending : q \in DOMAIN w.pending /\ v.pending[q] = w.pending[q]
    BY <1>3
  <2> QED  BY ONLY <1>2, <1>9, <2>2, <2>4, <2>5 DEF Waiting
<1>16. Foreseen(v)
  <2>1. \A q \in DOMAIN v.pending : q \in DOMAIN w.pending /\ v.pending[q] = w.pending[q]
    BY <1>3
  <2> QED  BY ONLY <1>2, <1>5, <1>9, <2>1 DEF Foreseen, Final
<1>17. Tables(v)
  <2>1. Limits.priors \in Nat  BY LimitsAssumption
  <2>2. IsFiniteSet(DOMAIN v.priors) /\ Cardinality(DOMAIN v.priors) <= Limits.priors
    <3>1. IsFiniteSet(DOMAIN w.priors) /\ Cardinality(DOMAIN w.priors) <= Limits.priors
      BY <1>9 DEF Tables
    <3> QED  BY ONLY <1>6, <2>1, <3>1, PutSize
  <2>3. frame.bytes \in Nat /\ frame.seenAt \in Nat
    BY ONLY <1>1, <1>4, <1>8, <1>9 DEF Tables, old
  <2> QED  BY ONLY <1>2, <1>5, <1>9, <2>2, <2>3 DEF Tables
<1>18. Budget(v)
  <2>1. Weighed(w.frames)  BY <1>9 DEF Weighed, Tables
  <2>2. Total(w.frames) \in Nat  BY <2>1, TotalTakes
  <2>3. old.bytes \in Nat /\ frame.bytes = old.bytes + p.bytes
    BY <1>4, <1>8, <1>9 DEF Tables, old
  <2>4. frame.bytes \in Nat  BY <1>1, <2>3
  <2>5. Total(v.frames) = Total(w.frames) - old.bytes + frame.bytes
    BY ONLY <1>4, <1>5, <2>1, <2>4, TotalReplace DEF old
  <2>6. w.bytes = Total(w.pending) + Total(w.frames) /\ w.bytes <= Limits.bytes
    BY <1>9 DEF Budget
  <2>7. v.bytes = Total(v.pending) + Total(v.frames)
    BY ONLY <1>1, <1>3, <1>12, <2>2, <2>3, <2>5, <2>6
  <2> QED  BY <1>3, <2>6, <2>7 DEF Budget
<1>19. Timely(v, t)
  <2>1. t - frame.seenAt < Limits.frameDeadline  BY <1>4, <1>8, <1>9 DEF Timely, IsReady, old
  <2>2. \A q \in DOMAIN v.pending : q \in DOMAIN w.pending /\ v.pending[q] = w.pending[q]
    BY <1>3
  <2> QED  BY ONLY <1>5, <1>9, <2>1, <2>2 DEF Timely
<1>20. Beside(w, v, f, L, M, S, S)
  <2>1. \A x \in DOMAIN w.high : x \in DOMAIN v.high /\ v.high[x] \in Nat /\ w.high[x] <= v.high[x]
    BY ONLY <1>2, <1>9 DEF Tables
  <2>2. w.lastSummary # None => v.lastSummary # None /\ w.lastSummary <= v.lastSummary
    BY ONLY <1>1, <1>7, <1>8, <1>9, EnvelopeAssumption DEF Ordered, Option
  <2>3. \A g : g # f \/ Final(w, g) => SameFolds(L, M, g)  BY <1>4, <1>11
  <2> QED  BY ONLY <1>2, <1>5, <1>13, <2>1, <2>2, <2>3 DEF Beside
<1>21. FrameGood(v, f, M, S)
  <2>1. ~Final(v, f)  BY <1>2, <1>4 DEF Final
  <2>2. IsFiniteSet(DOMAIN frame.observations)
    BY <1>4, <1>8, <1>9 DEF Joined, FrameGood, old
  <2> QED  BY ONLY <1>5, <1>8, <1>13, <2>1, <2>2, <1>4 DEF FrameGood
<1>22. Joined(v, OutWith(v), LogWith(v), S)
  <2> DEFINE O == OutWith(w)
  <2>1. Joined(w, O, L, S)  BY <1>9
  <2> HIDE DEF O
  <2>2. /\ \A g \in DOMAIN v.frames \ {f} : FrameGood(v, g, M, S)
        /\ \A g \in Nat \ (DOMAIN v.frames \cup {f}) : ~Final(v, g) => Untouched(M, S, g)
        /\ Done(v, O, M, S)
        /\ SummedUp(v, O, M)
    BY ONLY <1>9, <1>14, <1>20, <2>1, BesideOthers
  <2>3. Joined(v, O, M, S)  BY ONLY <1>4, <1>5, <1>21, <2>2 DEF Joined
  <2> QED  BY <1>10, <2>3 DEF O
<1>23. SettledBut(v, {f})  BY <1>5 DEF SettledBut
<1> QED
  BY <1>w, <1>10, <1>14, <1>15, <1>16, <1>17, <1>18, <1>19, <1>22, <1>23
     DEF Running, f, id, p, n

(* The frame as it was, with the identity of the event that enters it.      *)
Identified(w, S, L, f, id, new) ==
  LET old == w.frames[f] IN
  /\ DOMAIN old = FrameFields /\ DOMAIN new = FrameFields /\ new.id = id
  /\ \A x \in FrameFields \ {"id"} : new[x] = old[x]
  /\ old.events \in Seq(Event) /\ old.events = EventsIn(L, f)
  /\ \A i \in DOMAIN old.events : Promise!OfFrame(old.events[i], f) /\ old.events[i].id = id
  /\ SummariesIn(L, f) = <<>>
  /\ EvidenceIn(S, f) = {old.observations[p] : p \in DOMAIN old.observations}
  /\ \A p \in DOMAIN old.observations :
       /\ p = <<old.observations[p].track, old.observations[p].modality>>
       /\ p \in DOMAIN w.high /\ f <= w.high[p]

LEMMA EnteredFrame ==
  ASSUME NEW w, NEW S, NEW L, NEW f \in DOMAIN w.frames, FrameGood(w, f, L, S), ~Final(w, f),
         w.frames[f].summary = None, NEW id, id # None, w.frames[f].id \in {None, id}
  PROVE  Identified(w, S, L, f, id, [w.frames[f] EXCEPT !.id = id])
<1> DEFINE old == w.frames[f]
           new == [old EXCEPT !.id = id]
<1>1. DOMAIN old = FrameFields /\ old.events \in Seq(Event) /\ Gathered(w, f, L, S)
  BY DEF FrameGood
<1>2. DOMAIN new = FrameFields /\ new.id = id /\ \A x \in FrameFields \ {"id"} : new[x] = old[x]
  BY <1>1 DEF FrameFields
<1>3. ASSUME NEW i \in DOMAIN old.events
      PROVE  Promise!OfFrame(old.events[i], f) /\ old.events[i].id = id
  <2>1. Promise!OfFrame(old.events[i], f) /\ old.events[i].id = old.id  BY <1>1 DEF Gathered
  <2>2. old.events[i] \in Event  BY <1>1
  <2>3. old.events[i].id # None  BY <2>1, <2>2, EventFacts DEF Promise!OfFrame
  <2> QED  BY <2>1, <2>3
<1> QED  BY <1>1, <1>2, <1>3 DEF Gathered, Identified

LEMMA OutcomeTaken ==
  ASSUME NEW w, NEW S, NEW t, Running(w, S, t), w.next \in DOMAIN w.pending,
         w.pending[w.next].event.kind \notin {"Heartbeat", "Summary"},
         NEW v, v = ProcessFrameEvent(Popped(w), w.pending[w.next])
  PROVE  /\ Changes(v, w, {"bytes", "pending", "processed", "frames", "priors", "lastMonitor"})
         /\ v.error = None => \E frame : Taken(w, v, frame) /\ Filled(w, v, S, frame)
<1> DEFINE n  == w.next
           p  == w.pending[n]
           id == p.event.id
           f  == id.fusion
           L  == LogWith(w)
           M  == Append(L, p.event)
           old == w.frames[f]
           u  == EnterFrame(Popped(w), p)
           mid == [old EXCEPT !.id = id]
           frame == WithEvent(mid, p)
<1>1. /\ p \in Entry /\ p.event \in Event /\ f \in Nat /\ p.bytes \in Nat /\ id # None
      /\ p.event.kind \notin {"Heartbeat", "Summary"} /\ n \in DOMAIN w.pending /\ Sequenced(w)
  BY EventFacts DEF Running, Waiting, Entry
<1>2. /\ Changes(u, w, {"bytes", "pending", "processed", "frames", "priors", "lastMonitor"})
      /\ u.error = None => Taken(w, [u EXCEPT !.bytes = w.bytes], mid) /\ u.bytes = w.bytes - p.bytes
  BY Entered
<1>3. v = AddEvent(u, p)  BY DEF ProcessFrameEvent
<1> HIDE DEF u
<1>4. /\ Changes(v, u, {"frames", "bytes"})
      /\ v.error = None => /\ v.bytes = u.bytes + p.bytes
                           /\ v.frames = [u.frames EXCEPT ![f] = WithEvent(u.frames[f], p)]
  <2>1. Work(u)  BY <1>2 DEF Changes
  <2> QED  BY ONLY <1>3, <2>1, AddEventIs
<1>5. Changes(v, w, {"bytes", "pending", "processed", "frames", "priors", "lastMonitor"})
  BY <1>2, <1>4 DEF Changes, WorkFields, SelfFields
<1>6. ASSUME v.error = None PROVE Taken(w, v, frame) /\ Filled(w, v, S, frame)
  <2> DEFINE z == [u EXCEPT !.bytes = w.bytes]
  <2>1. Taken(w, z, mid) /\ u.bytes = w.bytes - p.bytes  BY <1>2, <1>4, <1>6 DEF Changes
  <2>2. /\ z.bytes = w.bytes /\ z.frames = u.frames /\ z.pending = u.pending
        /\ z.processed = u.processed /\ z.priors = u.priors /\ z.lastMonitor = u.lastMonitor
    BY <1>2 DEF Changes, Work, WorkFields, SelfFields
  <2> HIDE DEF z
  <2>3. f \in DOMAIN w.frames /\ z.frames = [w.frames EXCEPT ![f] = mid]  BY <2>1 DEF Taken
  <2> HIDE DEF mid
  <2>4. u.frames[f] = mid /\ v.frames = [w.frames EXCEPT ![f] = frame]
    <3>1. u.frames = [w.frames EXCEPT ![f] = mid]  BY <2>2, <2>3
    <3>2. u.frames[f] = mid  BY <2>3, <3>1
    <3>3. v.frames = [u.frames EXCEPT ![f] = frame]  BY <1>4, <1>6, <3>2
    <3> HIDE DEF frame, f
    <3> QED  BY ONLY <3>1, <3>2, <3>3
  <2>5. v.bytes = w.bytes
    <3>1. w.bytes \in Nat
      <4>1. Weighed(w.pending) /\ Weighed(w.frames)
        BY DEF Running, Weighed, Waiting, Tables, Entry
      <4> QED  BY <4>1, TotalTakes DEF Running, Budget
    <3> HIDE DEF p, f, frame
    <3>2. v.bytes = u.bytes + p.bytes  BY ONLY <1>4, <1>6
    <3>3. u.bytes = w.bytes - p.bytes  BY ONLY <2>1
    <3>4. p.bytes \in Nat  BY ONLY <1>1
    <3> QED  BY ONLY <3>1, <3>2, <3>3, <3>4
  <2>6. /\ v.pending = u.pending /\ v.processed = u.processed /\ v.priors = u.priors
        /\ v.lastMonitor = u.lastMonitor /\ v.lastSummary = w.lastSummary /\ v.high = w.high
    <3>1. Changes(v, u, {"frames", "bytes"})  BY ONLY <1>4
    <3>2. /\ v.pending = u.pending /\ v.processed = u.processed /\ v.priors = u.priors
          /\ v.lastMonitor = u.lastMonitor
      BY ONLY <3>1 DEF Changes, WorkFields, SelfFields
    <3>3. v.lastSummary = w.lastSummary /\ v.high = w.high
      BY ONLY <1>5 DEF Changes, WorkFields, SelfFields
    <3> QED  BY ONLY <3>2, <3>3
  <2>7. Changes(v, w, {"bytes", "pending", "processed", "frames", "priors", "lastMonitor",
                       "lastSummary"})
    BY <1>5 DEF Changes
  <2>8. Taken(w, v, frame)  BY <2>1, <2>2, <2>4, <2>5, <2>6, <2>7 DEF Taken
  <2>9. FrameGood(w, f, L, S) /\ ~Final(w, f) /\ old.summary = None /\ old.id \in {None, id}
    BY <2>1, <2>3 DEF Taken, Running, Joined
  <2>10. /\ DOMAIN old = FrameFields /\ DOMAIN mid = FrameFields /\ mid.id = id
         /\ \A x \in FrameFields \ {"id"} : mid[x] = old[x]
         /\ old.events \in Seq(Event) /\ old.events = EventsIn(L, f)
         /\ \A i \in DOMAIN old.events :
              Promise!OfFrame(old.events[i], f) /\ old.events[i].id = id
         /\ SummariesIn(L, f) = <<>>
         /\ EvidenceIn(S, f) = {old.observations[x] : x \in DOMAIN old.observations}
         /\ \A x \in DOMAIN old.observations :
              /\ x = <<old.observations[x].track, old.observations[x].modality>>
              /\ x \in DOMAIN w.high /\ f <= w.high[x]
    <3>1. id # None /\ f \in DOMAIN w.frames  BY <1>1, <2>3
    <3> HIDE DEF f, id, p, n, L
    <3>2. Identified(w, S, L, f, id, mid)
      BY ONLY <3>1, <2>9, EnteredFrame DEF mid, old
    <3> QED  BY ONLY <3>2 DEF Identified, old
  <2>11. /\ DOMAIN frame = FrameFields /\ frame.events = Append(old.events, p.event)
         /\ frame.id = id /\ frame.bytes = old.bytes + p.bytes /\ frame.seenAt = old.seenAt
         /\ frame.observations = old.observations /\ frame.summary = None
    BY <2>9, <2>10 DEF WithEvent, FrameFields
  <2> HIDE DEF frame, old
  <2>12. EventsIn(M, f) = Append(EventsIn(L, f), p.event) /\ SummariesIn(M, f) = SummariesIn(L, f)
    <3>1. L \in Seq(Event)
      <4> DEFINE y == [processed |-> Append(w.processed, p)]
      <4>1. y.processed = Append(w.processed, p)  OBVIOUS
      <4> HIDE DEF y
      <4> QED  BY <1>1, <4>1, LogAppend
    <3> QED  BY <1>1, <3>1, LogGrows
  <2>13. Promise!OfFrame(p.event, f)  BY <1>1 DEF Promise!OfFrame
  <2> HIDE DEF f, id, p, L, M, n
  <2>14. \A i \in DOMAIN frame.events :
           Promise!OfFrame(frame.events[i], f) /\ frame.events[i].id = frame.id
    BY ONLY <1>1, <2>10, <2>11, <2>13 DEF id
  <2>15. Gathered(v, f, M, S)
    BY ONLY <2>4, <2>3, <2>6, <2>10, <2>11, <2>12, <2>14 DEF Gathered
  <2>16. Append(old.events, p.event) \in Seq(Event)  BY <1>1, <2>10
  <2> QED  BY <2>6, <2>8, <2>11, <2>15, <2>16 DEF Filled, f, id, p, L, M, n, old
<1> QED  BY <1>5, <1>6

LEMMA SummaryTaken ==
  ASSUME NEW w, NEW S, NEW t, Running(w, S, t), w.next \in DOMAIN w.pending,
         w.pending[w.next].event.kind = "Summary",
         NEW v, v = ProcessSummary(Popped(w), w.pending[w.next])
  PROVE  /\ Changes(v, w, {"bytes", "pending", "processed", "frames", "priors", "lastMonitor",
                           "lastSummary"})
         /\ v.error = None => \E frame : Taken(w, v, frame) /\ Filled(w, v, S, frame)
<1> DEFINE n  == w.next
           p  == w.pending[n]
           id == p.event.id
           f  == id.fusion
           L  == LogWith(w)
           M  == Append(L, p.event)
           old == w.frames[f]
           u  == EnterFrame(Popped(w), p)
           mid == [old EXCEPT !.id = id]
           frame == Closed(mid, p)
<1>1. /\ p \in Entry /\ p.event \in Event /\ f \in Nat /\ p.bytes \in Nat /\ id # None
      /\ p.event.kind = "Summary" /\ n \in DOMAIN w.pending /\ Sequenced(w)
  BY EventFacts DEF Running, Waiting, Entry
<1>2. /\ Changes(u, w, {"bytes", "pending", "processed", "frames", "priors", "lastMonitor"})
      /\ u.error = None => Taken(w, [u EXCEPT !.bytes = w.bytes], mid) /\ u.bytes = w.bytes - p.bytes
  BY Entered
<1>3. v = CloseFrame(u, p)  BY DEF ProcessSummary
<1> HIDE DEF u
<1>4. /\ Changes(v, u, {"frames", "bytes", "lastSummary"})
      /\ v.error = None => /\ v.bytes = u.bytes + p.bytes /\ v.lastSummary = f
                           /\ v.frames = [u.frames EXCEPT ![f] = Closed(u.frames[f], p)]
                           /\ SummaryError(u.frames[f], p.event) = None
  <2>1. Work(u)  BY <1>2 DEF Changes
  <2> HIDE DEF p, n
  <2> QED  BY ONLY <1>3, <2>1, CloseFrameIs
<1>5. Changes(v, w, {"bytes", "pending", "processed", "frames", "priors", "lastMonitor",
                     "lastSummary"})
  BY <1>2, <1>4 DEF Changes, WorkFields, SelfFields
<1>6. ASSUME v.error = None PROVE Taken(w, v, frame) /\ Filled(w, v, S, frame)
  <2> DEFINE z == [u EXCEPT !.bytes = w.bytes]
  <2>1. Taken(w, z, mid) /\ u.bytes = w.bytes - p.bytes  BY <1>2, <1>4, <1>6 DEF Changes
  <2>2. /\ z.bytes = w.bytes /\ z.frames = u.frames /\ z.pending = u.pending
        /\ z.processed = u.processed /\ z.priors = u.priors /\ z.lastMonitor = u.lastMonitor
    BY <1>2 DEF Changes, Work, WorkFields, SelfFields
  <2> HIDE DEF z
  <2>3. f \in DOMAIN w.frames /\ z.frames = [w.frames EXCEPT ![f] = mid]  BY <2>1 DEF Taken
  <2> HIDE DEF mid
  <2>4. u.frames[f] = mid /\ v.frames = [w.frames EXCEPT ![f] = frame]
    <3>1. u.frames = [w.frames EXCEPT ![f] = mid]  BY <2>2, <2>3
    <3>2. u.frames[f] = mid  BY <2>3, <3>1
    <3>3. v.frames = [u.frames EXCEPT ![f] = frame]  BY <1>4, <1>6, <3>2
    <3> HIDE DEF frame, f
    <3> QED  BY ONLY <3>1, <3>2, <3>3
  <2>5. v.bytes = w.bytes
    <3>1. w.bytes \in Nat
      <4>1. Weighed(w.pending) /\ Weighed(w.frames)
        BY DEF Running, Weighed, Waiting, Tables, Entry
      <4> QED  BY <4>1, TotalTakes DEF Running, Budget
    <3> HIDE DEF p, f, frame
    <3>2. v.bytes = u.bytes + p.bytes  BY ONLY <1>4, <1>6
    <3>3. u.bytes = w.bytes - p.bytes  BY ONLY <2>1
    <3>4. p.bytes \in Nat  BY ONLY <1>1
    <3> QED  BY ONLY <3>1, <3>2, <3>3, <3>4
  <2>6. /\ v.pending = u.pending /\ v.processed = u.processed /\ v.priors = u.priors
        /\ v.lastMonitor = u.lastMonitor /\ v.lastSummary = f /\ v.high = w.high
    BY <1>4, <1>5, <1>6 DEF Changes, WorkFields, SelfFields
  <2>7. Changes(v, w, {"bytes", "pending", "processed", "frames", "priors", "lastMonitor",
                       "lastSummary"})
    BY <1>5 DEF Changes
  <2>8. Taken(w, v, frame)  BY <2>1, <2>2, <2>4, <2>5, <2>6, <2>7 DEF Taken
  <2>9. FrameGood(w, f, L, S) /\ ~Final(w, f) /\ old.summary = None /\ old.id \in {None, id}
    BY <2>1, <2>3 DEF Taken, Running, Joined
  <2>10. /\ DOMAIN old = FrameFields /\ DOMAIN mid = FrameFields /\ mid.id = id
         /\ \A x \in FrameFields \ {"id"} : mid[x] = old[x]
         /\ old.events \in Seq(Event) /\ old.events = EventsIn(L, f)
         /\ \A i \in DOMAIN old.events :
              Promise!OfFrame(old.events[i], f) /\ old.events[i].id = id
         /\ SummariesIn(L, f) = <<>>
         /\ EvidenceIn(S, f) = {old.observations[x] : x \in DOMAIN old.observations}
         /\ \A x \in DOMAIN old.observations :
              /\ x = <<old.observations[x].track, old.observations[x].modality>>
              /\ x \in DOMAIN w.high /\ f <= w.high[x]
    <3>1. id # None /\ f \in DOMAIN w.frames  BY <1>1, <2>3
    <3> HIDE DEF f, id, p, n, L
    <3>2. Identified(w, S, L, f, id, mid)
      BY ONLY <3>1, <2>9, EnteredFrame DEF mid, old
    <3> QED  BY ONLY <3>2 DEF Identified, old
  <2>11. /\ DOMAIN frame = FrameFields /\ frame.events = old.events
         /\ frame.id = id /\ frame.bytes = old.bytes + p.bytes /\ frame.seenAt = old.seenAt
         /\ frame.observations = old.observations /\ frame.summary = p.event
         /\ frame.owed = Owed(old.events, p.event)
    BY <2>9, <2>10 DEF Closed, FrameFields
  <2> HIDE DEF frame, old
  <2>12. EventsIn(M, f) = EventsIn(L, f) /\ SummariesIn(M, f) = Append(SummariesIn(L, f), p.event)
    <3>1. L \in Seq(Event)
      <4> DEFINE y == [processed |-> Append(w.processed, p)]
      <4>1. y.processed = Append(w.processed, p)  OBVIOUS
      <4> HIDE DEF y
      <4> QED  BY <1>1, <4>1, LogAppend
    <3> QED  BY <1>1, <3>1, LogGrows
  <2>13. p.event # None  BY <1>1, EventFacts
  <2>14. /\ Len(mid.events) = p.event.outcomes /\ LedgerError(mid.events, p.event) = None
         /\ \A x \in DOMAIN mid.observations :
              Joins(mid.id, Owed(mid.events, p.event), mid.observations[x])
    <3>1. SummaryError(mid, p.event) = None  BY <1>4, <1>6, <2>4
    <3> HIDE DEF p
    <3> QED  BY ONLY <3>1, NoSummaryError
  <2>15. mid.events = old.events /\ mid.observations = old.observations /\ mid.id = id
    BY <2>10 DEF FrameFields
  <2> HIDE DEF f, id, p, L, M, n
  <2>16. Balances(v, f)
    <3>1. v.frames[f] = frame  BY <2>3, <2>4
    <3>2. /\ frame.summary = p.event /\ frame.id = p.event.id /\ frame.id # None
          /\ v.lastSummary = f /\ f \in Nat
      BY <1>1, <2>6, <2>11 DEF id
    <3>3. v.lastSummary # None /\ f <= v.lastSummary  BY ONLY <3>2, EnvelopeAssumption
    <3>4. /\ frame.events = mid.events /\ frame.observations = mid.observations
          /\ frame.id = mid.id /\ frame.owed = Owed(mid.events, p.event)
      BY ONLY <2>11, <2>15
    <3> QED  BY ONLY <3>1, <3>2, <3>3, <3>4, <2>14 DEF Balances
  <2>17. Gathered(v, f, M, S)
    <3>1. v.frames[f] = frame  BY <2>3, <2>4
    <3>2. frame.events = EventsIn(M, f) /\ SummariesIn(M, f) = <<p.event>>
      BY ONLY <2>10, <2>11, <2>12
    <3>3. frame.summary = p.event /\ frame.summary # None  BY ONLY <2>11, <2>13
    <3> QED  BY ONLY <2>6, <2>10, <2>11, <3>1, <3>2, <3>3 DEF Gathered
  <2> QED
    <3>1. DOMAIN frame = FrameFields /\ frame.events \in Seq(Event)  BY <2>10, <2>11
    <3>2. v.lastSummary \in {w.lastSummary, f}  BY <2>6
    <3> QED  BY ONLY <2>8, <2>11, <2>16, <2>17, <3>1, <3>2 DEF Filled, f, id, p, L, M, n, old
<1> QED  BY <1>5, <1>6
-----------------------------------------------------------------------------
(* What a frame's ledger says: along the pass no pair owes twice, and each  *)
(* owing outcome leaves its projection under its own pair.                  *)

AccFields == {"error", "pairs", "frozen", "owed", "last", "births"}

OwesUpTo(events, n) == {i \in 1..n : "v1" \in DOMAIN events[i] /\ events[i].v1}

Listed(owed, events, n) ==
  /\ DOMAIN owed = {PairOf(events[i]) : i \in OwesUpTo(events, n)}
  /\ \A i, j \in OwesUpTo(events, n) : PairOf(events[i]) = PairOf(events[j]) => i = j
  /\ \A i \in OwesUpTo(events, n) : owed[PairOf(events[i])] = events[i].projection

LEMMA RecordIs ==
  ASSUME NEW acc, DOMAIN acc = AccFields, NEW e \in Event, e.kind \notin {"Heartbeat", "Summary"},
         NEW s
  PROVE  LET v == Record(acc, e, s) IN
         /\ DOMAIN v = AccFields
         /\ v.error = None => acc.error = None
         /\ v.error = None =>
              IF "v1" \in DOMAIN e /\ e.v1
              THEN /\ v.owed = Put(acc.owed, PairOf(e), e.projection)
                   /\ PairOf(e) \notin DOMAIN acc.owed
              ELSE v.owed = acc.owed
<1>1. "InvalidFrameLedger" # None /\ "Registry" # None  BY FaultNames DEF AssemblyFaults
<1>2. IF IsMiss(e) \/ IsBirth(e) THEN "v1" \in DOMAIN e => ~e.v1
      ELSE "v1" \in DOMAIN e /\ e.v1 \in BOOLEAN
  BY EventFacts
<1>3. ASSUME NEW kind, kind # None
      PROVE  LET v == [acc EXCEPT !.error = kind] IN DOMAIN v = AccFields /\ v.error # None
  BY <1>3 DEF AccFields
<1>4. ASSUME NEW pair
      PROVE  LET v == Placed(acc, e, s, pair) IN
             DOMAIN v = AccFields /\ v.error = acc.error /\ v.owed = acc.owed
  BY DEF Placed, AccFields
<1>5. CASE acc.error # None  BY <1>5 DEF Record
<1>6. CASE acc.error = None /\ e.modality \notin Range(s.expected)
  BY <1>1, <1>3, <1>6 DEF Record
<1>7. CASE acc.error = None /\ e.modality \in Range(s.expected) /\ IsMiss(e)
  <2>1. Record(acc, e, s) = RecordMiss(acc, e, s)  BY <1>7 DEF Record
  <2>2. LET v == RecordMiss(acc, e, s) IN
        DOMAIN v = AccFields /\ (v.error = None => v.owed = acc.owed)
    BY <1>1, <1>3, <1>4 DEF RecordMiss
  <2> QED  BY <1>2, <1>7, <2>1, <2>2
<1>8. CASE acc.error = None /\ e.modality \in Range(s.expected) /\ ~IsMiss(e) /\ IsBirth(e)
  <2>1. Record(acc, e, s) = RecordBirth(acc, e, s)  BY <1>8 DEF Record
  <2>2. LET v == RecordBirth(acc, e, s) IN
        DOMAIN v = AccFields /\ (v.error = None => v.owed = acc.owed)
    BY <1>1, <1>3 DEF RecordBirth, AccFields
  <2> QED  BY <1>2, <1>8, <2>1, <2>2
<1>9. CASE acc.error = None /\ e.modality \in Range(s.expected) /\ ~IsMiss(e) /\ ~IsBirth(e)
  <2> DEFINE placed == Placed(acc, e, s, Attempted(PairIn(acc, e), e))
  <2>1. Record(acc, e, s) = RecordAttempt(acc, e, s)  BY <1>9 DEF Record
  <2>2. DOMAIN placed = AccFields /\ placed.error = acc.error /\ placed.owed = acc.owed  BY <1>4
  <2> HIDE DEF placed
  <2>3. LET v == Owing(placed, e) IN
        /\ DOMAIN v = AccFields
        /\ v.owed = IF e.v1 THEN Put(acc.owed, PairOf(e), e.projection) ELSE acc.owed
    BY <2>2 DEF Owing, AccFields
  <2>4. \/ \E kind : kind # None /\ RecordAttempt(acc, e, s) = [acc EXCEPT !.error = kind]
        \/ /\ RecordAttempt(acc, e, s) = Owing(placed, e)
           /\ ~(e.v1 /\ PairOf(e) \in DOMAIN acc.owed)
    BY <1>1 DEF RecordAttempt, placed
  <2> QED  BY <1>2, <1>3, <1>9, <2>1, <2>3, <2>4
<1> QED  BY <1>5, <1>6, <1>7, <1>8, <1>9

LEMMA ListedGrows ==
  ASSUME NEW owed, NEW events, NEW n \in Nat, Listed(owed, events, n), NEW new,
         LET e == events[n + 1] IN
         IF "v1" \in DOMAIN e /\ e.v1
         THEN new = Put(owed, PairOf(e), e.projection) /\ PairOf(e) \notin DOMAIN owed
         ELSE new = owed
  PROVE  Listed(new, events, n + 1)
<1> DEFINE e == events[n + 1]
           A == OwesUpTo(events, n)
           B == OwesUpTo(events, n + 1)
           P(i) == PairOf(events[i])
<1>1. n + 1 \notin A /\ B = IF "v1" \in DOMAIN e /\ e.v1 THEN A \cup {n + 1} ELSE A
  <2>1. \A i : i \in 1..(n + 1) <=> i \in 1..n \/ i = n + 1  OBVIOUS
  <2> QED  BY <2>1 DEF OwesUpTo
<1>2. /\ DOMAIN owed = {P(i) : i \in A}
      /\ \A i, j \in A : P(i) = P(j) => i = j
      /\ \A i \in A : owed[P(i)] = events[i].projection
  BY DEF Listed
<1>3. CASE ~("v1" \in DOMAIN e /\ e.v1)
  <2>1. B = A /\ new = owed  BY <1>1, <1>3
  <2> QED  BY <1>2, <2>1 DEF Listed
<1>4. CASE "v1" \in DOMAIN e /\ e.v1
  <2>1. B = A \cup {n + 1} /\ new = Put(owed, P(n + 1), events[n + 1].projection)
        /\ P(n + 1) \notin DOMAIN owed
    BY <1>1, <1>4
  <2> HIDE DEF A, B, P
  <2>2. DOMAIN new = {P(i) : i \in B}  BY <1>2, <2>1 DEF Put
  <2>3. \A i, j \in B : P(i) = P(j) => i = j  BY <1>2, <2>1
  <2>4. \A i \in B : new[P(i)] = events[i].projection  BY <1>1, <1>2, <2>1 DEF Put
  <2> QED  BY <2>2, <2>3, <2>4 DEF Listed, A, B, P
<1> QED  BY <1>3, <1>4

LEMMA PassLists ==
  ASSUME NEW events \in Seq(Event), NEW s, LedgerError(events, s) = None,
         \A i \in DOMAIN events : events[i].kind \notin {"Heartbeat", "Summary"}
  PROVE  Listed(Owed(events, s), events, Len(events))
<1>1. Pass(events, s) = LedgerFold!Fold(Opening, events, s)
  BY DEF Pass, LedgerFold!Fold, FoldLeft, MapThenFoldSet, Max, LedgerFold!FoldLeft,
     LedgerFold!MapThenFoldSet, LedgerFold!Max
<1>2. PICK h : /\ LedgerFold!IsRun(h, Opening, events, s)
               /\ LedgerFold!Fold(Opening, events, s) = h[Len(events)]
  BY LedgerFold!FoldRuns
<1>3. h[0] = Opening /\ \A i \in 1..Len(events) : h[i] = Record(h[i - 1], events[i], s)
  BY <1>2 DEF LedgerFold!IsRun
<1> DEFINE Good(i) == /\ DOMAIN h[i] = AccFields
                      /\ h[i].error = None => Listed(h[i].owed, events, i)
           Goods == {i \in Nat : i <= Len(events) => Good(i)}
<1>4. 0 \in Goods
  <2>1. DOMAIN Opening = AccFields /\ Opening.owed = <<>>  BY DEF Opening, AccFields
  <2>2. OwesUpTo(events, 0) = {}  BY DEF OwesUpTo
  <2>3. Listed(<<>>, events, 0)  BY <2>2 DEF Listed
  <2> QED  BY <1>3, <2>1, <2>3
<1>5. ASSUME NEW i \in Nat, i \in Goods PROVE i + 1 \in Goods
  <2> SUFFICES ASSUME i + 1 <= Len(events) PROVE Good(i + 1)  OBVIOUS
  <2>1. i <= Len(events) /\ i + 1 \in 1..Len(events) /\ (i + 1) - 1 = i /\ Len(events) \in Nat
    OBVIOUS
  <2>2. h[i + 1] = Record(h[i], events[i + 1], s)  BY <1>3, <2>1
  <2>3. Good(i)  BY <1>5, <2>1
  <2>4. events[i + 1] \in Event /\ events[i + 1].kind \notin {"Heartbeat", "Summary"}
    BY <2>1
  <2> DEFINE acc == h[i]
             e == events[i + 1]
             v == h[i + 1]
  <2>5. /\ DOMAIN v = AccFields
        /\ v.error = None => acc.error = None
        /\ v.error = None =>
             IF "v1" \in DOMAIN e /\ e.v1
             THEN v.owed = Put(acc.owed, PairOf(e), e.projection) /\ PairOf(e) \notin DOMAIN acc.owed
             ELSE v.owed = acc.owed
    <3>1. DOMAIN acc = AccFields  BY <2>3
    <3> HIDE DEF acc, e
    <3>2. e \in Event /\ e.kind \notin {"Heartbeat", "Summary"}  BY <2>4 DEF e
    <3>3. v = Record(acc, e, s)  BY <2>2 DEF acc, e
    <3> HIDE DEF v
    <3> QED  BY ONLY <3>1, <3>2, <3>3, RecordIs
  <2>6. v.error = None => Listed(v.owed, events, i + 1)
    <3> SUFFICES ASSUME v.error = None PROVE Listed(v.owed, events, i + 1)  OBVIOUS
    <3>1. Listed(acc.owed, events, i)  BY <2>3, <2>5
    <3> HIDE DEF acc, v
    <3> QED  BY <2>5, <3>1, ListedGrows
  <2> QED  BY <2>5, <2>6
<1> HIDE DEF Goods
<1>6. \A i \in Nat : i \in Goods  BY <1>4, <1>5, LedgerFold!Induction
<1>7. Good(Len(events))
  <2>1. Len(events) \in Nat /\ Len(events) <= Len(events)  OBVIOUS
  <2> QED  BY <1>6, <2>1 DEF Goods
<1>8. Pass(events, s).error = None  BY DEF LedgerError
<1> QED  BY <1>1, <1>2, <1>7, <1>8 DEF Owed

LEMMA SameSize ==
  ASSUME NEW S, IsFiniteSet(S), NEW g, DOMAIN g = S, \A x, y \in S : g[x] = g[y] => x = y
  PROVE  LET T == {g[x] : x \in S} IN IsFiniteSet(T) /\ Cardinality(T) = Cardinality(S)
<1> DEFINE T == {g[x] : x \in S}
           h == [x \in S |-> g[x]]
<1>1. h \in [S -> T]  OBVIOUS
<1>2. \A x \in S : h[x] = g[x]  OBVIOUS
<1>a. \A y \in T : \E x \in S : h[x] = y  BY <1>2
<1>b. \A x, y \in S : h[x] = h[y] => x = y  BY <1>2
<1>c. h \in Bijection(S, T)
  <2> HIDE DEF h, T
  <2> QED  BY ONLY <1>1, <1>a, <1>b DEF Bijection, Injection, IsInjective, Surjection
<1>3. ExistsBijection(S, T)  BY <1>c DEF ExistsBijection
<1> HIDE DEF T
<1>4. IsFiniteSet(T) /\ Cardinality(T) = Cardinality(S)  BY ONLY <1>3, IsFiniteSet(S), FS_Bijection
<1> QED  BY <1>4 DEF T

(* There are as many owed observations as owing outcomes.                   *)
LEMMA OwedSize ==
  ASSUME NEW events \in Seq(Event), NEW s, LedgerError(events, s) = None,
         \A i \in DOMAIN events : events[i].kind \notin {"Heartbeat", "Summary"}
  PROVE  /\ IsFiniteSet(DOMAIN Owed(events, s))
         /\ Cardinality(DOMAIN Owed(events, s)) = Cardinality(Owes(events))
<1> DEFINE owed == Owed(events, s)
           n == Len(events)
           A == OwesUpTo(events, n)
<1>1. n \in Nat /\ Owes(events) = A  BY DEF Owes, OwesUpTo
<1>2. /\ DOMAIN owed = {PairOf(events[i]) : i \in A}
      /\ \A i, j \in A : PairOf(events[i]) = PairOf(events[j]) => i = j
  BY PassLists DEF Listed
<1>3. A \subseteq 1..n  BY DEF OwesUpTo
<1> HIDE DEF n, A, owed
<1>4. IsFiniteSet(A)
  <2>1. IsFiniteSet(1..n)  BY <1>1, FS_Interval
  <2> QED  BY <1>3, <2>1, FS_Subset
<1> DEFINE g == [i \in A |-> PairOf(events[i])]
<1>5. DOMAIN g = A /\ {g[i] : i \in A} = DOMAIN owed /\ \A i, j \in A : g[i] = g[j] => i = j
  BY <1>2
<1> HIDE DEF g
<1>6. IsFiniteSet(DOMAIN owed) /\ Cardinality(DOMAIN owed) = Cardinality(A)
  BY <1>4, <1>5, SameSize
<1> QED  BY <1>1, <1>6 DEF owed

(* And as many observations as pairs that have one.                         *)
LEMMA EvidenceSize ==
  ASSUME NEW obs, IsFiniteSet(DOMAIN obs),
         \A p \in DOMAIN obs : p = <<obs[p].track, obs[p].modality>>
  PROVE  Cardinality({obs[p] : p \in DOMAIN obs}) = Cardinality(DOMAIN obs)
<1> DEFINE D == DOMAIN obs
<1>1. \A p, q \in D : obs[p] = obs[q] => p = q  OBVIOUS
<1> HIDE DEF D
<1>2. IsFiniteSet(D) /\ DOMAIN obs = D  BY DEF D
<1> QED  BY <1>1, <1>2, SameSize

(* A frame as large as what it owes has exactly what it owes.               *)
Full(events, s, id, obs) ==
  /\ events \in Seq(Event) /\ LedgerError(events, s) = None
  /\ \A i \in DOMAIN events : /\ events[i].kind \notin {"Heartbeat", "Summary"}
                              /\ events[i].id = id
  /\ IsFiniteSet(DOMAIN obs)
  /\ \A p \in DOMAIN obs : /\ p = <<obs[p].track, obs[p].modality>>
                           /\ Joins(id, Owed(events, s), obs[p])
  /\ Cardinality(DOMAIN obs) = Cardinality(DOMAIN Owed(events, s))

LEMMA MatchedWhenFull ==
  ASSUME NEW events, NEW s, NEW id, NEW obs, Full(events, s, id, obs),
         NEW E, E = {obs[p] : p \in DOMAIN obs}
  PROVE  MatchedIn(events, E) /\ DOMAIN obs = DOMAIN Owed(events, s)
<1>0. /\ events \in Seq(Event) /\ LedgerError(events, s) = None
      /\ \A i \in DOMAIN events : /\ events[i].kind \notin {"Heartbeat", "Summary"}
                                  /\ events[i].id = id
      /\ IsFiniteSet(DOMAIN obs)
      /\ \A p \in DOMAIN obs : /\ p = <<obs[p].track, obs[p].modality>>
                               /\ Joins(id, Owed(events, s), obs[p])
      /\ Cardinality(DOMAIN obs) = Cardinality(DOMAIN Owed(events, s))
  BY DEF Full
<1> DEFINE owed == Owed(events, s)
           n == Len(events)
           A == OwesUpTo(events, n)
<1>1. n \in Nat /\ DOMAIN events = 1..n /\ Owes(events) = A
  BY <1>0 DEF Owes, OwesUpTo
<1>2. /\ DOMAIN owed = {PairOf(events[i]) : i \in A}
      /\ \A i, j \in A : PairOf(events[i]) = PairOf(events[j]) => i = j
      /\ \A i \in A : owed[PairOf(events[i])] = events[i].projection
  BY <1>0, PassLists DEF Listed
<1>3. A \subseteq 1..n  BY DEF OwesUpTo
<1> HIDE DEF n, A, owed
<1>5. IsFiniteSet(DOMAIN owed) /\ Cardinality(DOMAIN owed) = Cardinality(A)
  BY <1>0, <1>1, OwedSize DEF owed
<1>6. Cardinality(E) = Cardinality(DOMAIN obs)
  <2>1. \A p \in DOMAIN obs : p = <<obs[p].track, obs[p].modality>>  BY <1>0
  <2> QED  BY ONLY <1>0, <2>1, E = {obs[p] : p \in DOMAIN obs}, EvidenceSize
<1>7. \A p \in DOMAIN obs : /\ <<obs[p].track, obs[p].modality>> = p /\ p \in DOMAIN owed
                            /\ obs[p].ts = id.ts /\ obs[p].projection = owed[p]
  BY <1>0 DEF Joins, owed
<1>8. DOMAIN obs = DOMAIN owed
  <2>1. DOMAIN obs \in SUBSET DOMAIN owed  BY <1>7
  <2>2. Cardinality(DOMAIN obs) = Cardinality(DOMAIN owed)  BY <1>0 DEF owed
  <2> QED  BY ONLY <1>5, <2>1, <2>2, FS_Subset
<1>9. ASSUME NEW i \in A
      PROVE  \E o \in E : /\ o.track = events[i].track /\ o.modality = events[i].modality
                          /\ o.ts = events[i].id.ts /\ o.projection = events[i].projection
  <2> DEFINE p == PairOf(events[i])
  <2>1. p \in DOMAIN obs /\ owed[p] = events[i].projection  BY <1>2, <1>8
  <2>2. obs[p] \in E /\ obs[p].ts = id.ts /\ obs[p].projection = events[i].projection
    BY <1>7, <2>1
  <2>3. <<obs[p].track, obs[p].modality>> = <<events[i].track, events[i].modality>>
    <3>1. <<obs[p].track, obs[p].modality>> = p  BY <1>7, <2>1
    <3> QED  BY <3>1 DEF PairOf
  <2>4. obs[p].track = events[i].track /\ obs[p].modality = events[i].modality
    BY ONLY <2>3
  <2>5. events[i].id = id  BY <1>0, <1>1, <1>3
  <2> QED  BY <2>2, <2>4, <2>5
<1>10. Cardinality(A) = Cardinality(E)  BY <1>5, <1>6, <1>8
<1> QED  BY <1>1, <1>8, <1>9, <1>10 DEF MatchedIn, owed
-----------------------------------------------------------------------------
(* Readiness refreshed, and the oldest frame released.                      *)

(* Frames apart, v is w.                                                    *)
LEMMA OnlyFrames ==
  ASSUME NEW w, NEW v, Changes(v, w, {"frames"})
  PROVE  /\ v.next = w.next /\ v.pending = w.pending /\ v.bytes = w.bytes /\ v.priors = w.priors
         /\ v.high = w.high /\ v.lastMonitor = w.lastMonitor /\ v.lastSummary = w.lastSummary
         /\ v.lastFinalized = w.lastFinalized /\ v.lastBeat = w.lastBeat /\ v.told = w.told
         /\ v.ready = w.ready /\ v.processed = w.processed
         /\ Sequenced(w) => Sequenced(v) /\ OutWith(v) = OutWith(w) /\ LogWith(v) = LogWith(w)
<1>1. /\ v.next = w.next /\ v.pending = w.pending /\ v.bytes = w.bytes /\ v.priors = w.priors
      /\ v.high = w.high /\ v.lastMonitor = w.lastMonitor /\ v.lastSummary = w.lastSummary
      /\ v.lastFinalized = w.lastFinalized /\ v.lastBeat = w.lastBeat /\ v.told = w.told
      /\ v.ready = w.ready /\ v.processed = w.processed
  BY DEF Changes, WorkFields, SelfFields
<1> QED  BY <1>1 DEF Sequenced, OutWith, LogWith

LEMMA Reflagged ==
  ASSUME NEW w, NEW v, NEW f, NEW L, NEW S, NEW b, FrameGood(w, f, L, S),
         f \in DOMAIN v.frames, v.frames[f] = [w.frames[f] EXCEPT !.ready = b],
         v.priors = w.priors, v.high = w.high, v.lastSummary = w.lastSummary,
         v.lastFinalized = w.lastFinalized
  PROVE  /\ FrameGood(v, f, L, S) /\ v.frames[f].ready = b
         /\ \A x \in FrameFields \ {"ready"} : v.frames[f][x] = w.frames[f][x]
<1> DEFINE old == w.frames[f]
           new == v.frames[f]
<1>1. DOMAIN old = FrameFields  BY DEF FrameGood
<1>2. DOMAIN new = FrameFields /\ new.ready = b /\ \A x \in FrameFields \ {"ready"} : new[x] = old[x]
  BY <1>1 DEF FrameFields
<1>3. /\ new.seenAt = old.seenAt /\ new.id = old.id /\ new.events = old.events
      /\ new.observations = old.observations /\ new.summary = old.summary
      /\ new.owed = old.owed /\ new.bytes = old.bytes
  BY <1>2 DEF FrameFields
<1> HIDE DEF new, old
<1>4. Gathered(w, f, L, S) => Gathered(v, f, L, S)  BY <1>3 DEF Gathered, new, old
<1>5. Balances(w, f) => Balances(v, f)  BY <1>3 DEF Balances, new, old
<1>6. FrameGood(v, f, L, S)
  BY <1>2, <1>3, <1>4, <1>5 DEF FrameGood, KeepsId, Final, new, old
<1> QED  BY <1>2, <1>6 DEF new, old

LEMMA Refreshed ==
  ASSUME NEW w, NEW S, NEW t, NEW f \in DOMAIN w.frames, Running(w, S, t), SettledBut(w, {f}),
         NEW v, v = RefreshReadiness(w, f)
  PROVE  /\ Changes(v, w, {"frames"})
         /\ v.error = None => Running(v, S, t) /\ SettledBut(v, {})
<1> DEFINE L == LogWith(w)
           O == OutWith(w)
           b == IsReady(w.frames[f])
<1>1. /\ Changes(v, w, {"frames"})
      /\ v.error = None => v.frames = [w.frames EXCEPT ![f].ready = b]
  BY RefreshReadinessIs DEF Running
<1>2. SUFFICES ASSUME v.error = None PROVE Running(v, S, t) /\ SettledBut(v, {})  BY <1>1
<1>3. /\ v.next = w.next /\ v.pending = w.pending /\ v.bytes = w.bytes /\ v.priors = w.priors
      /\ v.high = w.high /\ v.lastMonitor = w.lastMonitor /\ v.lastSummary = w.lastSummary
      /\ v.lastFinalized = w.lastFinalized
      /\ Sequenced(v) /\ OutWith(v) = O /\ LogWith(v) = L /\ Work(v)
  BY <1>1, OnlyFrames DEF Running, Changes
<1>4. v.frames = [w.frames EXCEPT ![f].ready = b]  BY <1>1, <1>2
<1>5. /\ DOMAIN v.frames = DOMAIN w.frames
      /\ \A g \in DOMAIN w.frames \ {f} : v.frames[g] = w.frames[g]
      /\ v.frames[f] = [w.frames[f] EXCEPT !.ready = b]
  BY <1>4
<1>6. /\ Ordered(w) /\ Waiting(w) /\ Foreseen(w) /\ Tables(w) /\ Budget(w) /\ Timely(w, t)
      /\ Joined(w, O, L, S)
  BY DEF Running
<1> HIDE DEF L, O, b
<1>7. /\ FrameGood(v, f, L, S) /\ v.frames[f].ready = b
      /\ \A x \in FrameFields \ {"ready"} : v.frames[f][x] = w.frames[f][x]
  <2>1. FrameGood(w, f, L, S)  BY <1>6 DEF Joined
  <2>2. /\ f \in DOMAIN v.frames /\ v.frames[f] = [w.frames[f] EXCEPT !.ready = b]
        /\ v.priors = w.priors /\ v.high = w.high
        /\ v.lastSummary = w.lastSummary /\ v.lastFinalized = w.lastFinalized
    BY ONLY f \in DOMAIN w.frames, <1>3, <1>5
  <2> QED  BY ONLY <2>1, <2>2, Reflagged
<1>8. /\ v.frames[f].seenAt = w.frames[f].seenAt /\ v.frames[f].bytes = w.frames[f].bytes
      /\ IsReady(v.frames[f]) = b
  BY <1>7 DEF FrameFields, IsReady, b
<1>9. Ordered(v)  BY <1>3, <1>6 DEF Ordered
<1>10. Waiting(v)  BY <1>3, <1>6 DEF Waiting
<1>11. Foreseen(v)  BY <1>3, <1>5, <1>6 DEF Foreseen, Final
<1>12. Tables(v)
  <2>1. \A g \in DOMAIN v.frames : v.frames[g].bytes \in Nat /\ v.frames[g].seenAt \in Nat
    BY <1>5, <1>6, <1>8 DEF Tables
  <2> QED  BY ONLY <1>3, <1>5, <1>6, <2>1 DEF Tables
<1>13. Budget(v)
  <2>1. Weighed(w.frames)  BY <1>6 DEF Weighed, Tables
  <2>2. w.frames[f].bytes \in Nat /\ Total(w.frames) \in Nat  BY <1>6, <2>1, TotalTakes DEF Tables
  <2>3. Total(v.frames) = Total(w.frames) - w.frames[f].bytes + v.frames[f].bytes
    <3>1. v.frames[f].bytes \in Nat  BY <1>8, <2>2
    <3> QED  BY ONLY f \in DOMAIN w.frames, <1>5, <2>1, <3>1, TotalReplace
  <2>4. Total(v.frames) = Total(w.frames)  BY ONLY <1>8, <2>2, <2>3
  <2> QED  BY ONLY <1>3, <1>6, <2>4 DEF Budget
<1>14. Timely(v, t)
  <2>1. \A g \in DOMAIN v.frames : /\ IsReady(v.frames[g]) = IsReady(w.frames[g])
                                   /\ v.frames[g].seenAt = w.frames[g].seenAt
    BY <1>5, <1>8 DEF b
  <2> QED  BY ONLY <1>3, <1>5, <1>6, <2>1 DEF Timely
<1>15. Beside(w, v, f, L, L, S, S)
  <2>1. \A x \in DOMAIN w.high : w.high[x] <= w.high[x]  BY <1>6 DEF Tables
  <2>2. w.lastSummary # None => w.lastSummary <= w.lastSummary  BY <1>6 DEF Ordered, Option
  <2> QED  BY ONLY <1>3, <1>5, <1>6, <2>1, <2>2 DEF Beside, Extends, SameFolds, Tables
<1>16. Joined(v, O, L, S)
  <2>1. /\ \A g \in DOMAIN v.frames \ {f} : FrameGood(v, g, L, S)
        /\ \A g \in Nat \ (DOMAIN v.frames \cup {f}) : ~Final(v, g) => Untouched(L, S, g)
        /\ Done(v, O, L, S)
        /\ SummedUp(v, O, L)
    BY ONLY <1>6, <1>9, <1>15, BesideOthers
  <2> QED  BY ONLY f \in DOMAIN w.frames, <1>5, <1>7, <2>1 DEF Joined
<1>17. SettledBut(v, {})
  <2>1. \A g \in DOMAIN w.frames \ {f} : w.frames[g].ready = IsReady(w.frames[g])
    BY DEF SettledBut
  <2> QED  BY ONLY <1>5, <1>7, <1>8, <2>1 DEF SettledBut
<1> QED
  BY <1>3, <1>9, <1>10, <1>11, <1>12, <1>13, <1>14, <1>16, <1>17 DEF Running

LEMMA FullWhenReady ==
  ASSUME NEW w, NEW f \in DOMAIN w.frames, NEW L, NEW S, FrameGood(w, f, L, S),
         IsReady(w.frames[f])
  PROVE  LET frame == w.frames[f] IN
         Full(frame.events, frame.summary, frame.id, frame.observations)
<1> DEFINE frame == w.frames[f]
           s == frame.summary
           events == frame.events
           obs == frame.observations
           id == frame.id
           D == Owed(events, s)
<1>1. s # None /\ Cardinality(DOMAIN obs) = Cardinality(DOMAIN frame.owed)  BY DEF IsReady
<1>2. Gathered(w, f, L, S) /\ Balances(w, f) /\ events \in Seq(Event)
      /\ IsFiniteSet(DOMAIN obs)
  BY <1>1 DEF FrameGood
<1>3. \A i \in DOMAIN events : /\ events[i].kind \notin {"Heartbeat", "Summary"}
                               /\ events[i].id = id
  BY <1>2 DEF Gathered, Promise!OfFrame
<1>4. LedgerError(events, s) = None /\ frame.owed = D  BY <1>2 DEF Balances
<1>5. \A p \in DOMAIN obs : p = <<obs[p].track, obs[p].modality>>  BY <1>2 DEF Gathered
<1>6. \A p \in DOMAIN obs : Joins(id, D, obs[p])  BY <1>2, <1>4 DEF Balances
<1>7. Cardinality(DOMAIN obs) = Cardinality(DOMAIN D)  BY <1>1, <1>4
<1> HIDE DEF s, events, obs, id
<1>8. Full(events, s, id, obs)
  BY ONLY <1>2, <1>3, <1>4, <1>5, <1>6, <1>7 DEF Full, D
<1> QED  BY <1>8 DEF s, events, obs, id

LEMMA ReleasableWhenReady ==
  ASSUME NEW w, NEW f \in DOMAIN w.frames, NEW L, NEW S, FrameGood(w, f, L, S),
         IsReady(w.frames[f]), NEW x, x = Assembled(w.frames[f])
  PROVE  /\ ~Final(w, f) /\ w.lastSummary # None /\ f <= w.lastSummary
         /\ x.id.fusion = f /\ KeepsId(w, f, x.id) /\ ReleasableIn(x, L, S)
<1> DEFINE frame == w.frames[f]
           s == frame.summary
           events == frame.events
           obs == frame.observations
<1>1. s # None /\ Cardinality(DOMAIN obs) = Cardinality(DOMAIN frame.owed)  BY DEF IsReady
<1>2. ~Final(w, f) /\ Gathered(w, f, L, S) /\ Balances(w, f)  BY <1>1 DEF FrameGood
<1>3. /\ events = EventsIn(L, f) /\ SummariesIn(L, f) = <<s>>
      /\ \A i \in DOMAIN events : Promise!OfFrame(events[i], f) /\ events[i].id = frame.id
      /\ EvidenceIn(S, f) = {obs[p] : p \in DOMAIN obs}
      /\ \A p \in DOMAIN obs : p = <<obs[p].track, obs[p].modality>>
  BY <1>1, <1>2 DEF Gathered
<1>4. /\ s.id = frame.id /\ frame.id # None /\ s.outcomes = Len(events)
      /\ LedgerError(events, s) = None /\ frame.owed = Owed(events, s)
      /\ \A p \in DOMAIN obs : Joins(frame.id, Owed(events, s), obs[p])
      /\ w.lastSummary # None /\ f <= w.lastSummary
  BY <1>2 DEF Balances
<1>5. KeepsId(w, f, frame.id) /\ frame.id.fusion = f /\ events \in Seq(Event)
      /\ IsFiniteSet(DOMAIN obs)
  BY <1>4 DEF FrameGood, KeepsId
<1> HIDE DEF frame, s, events, obs
<1> DEFINE E == {obs[p] : p \in DOMAIN obs}
<1>6. MatchedIn(events, E)
  <2>1. Full(events, s, frame.id, obs)  BY FullWhenReady DEF frame, s, events, obs
  <2>2. E = {obs[p] : p \in DOMAIN obs}  OBVIOUS
  <2> DEFINE id == frame.id
  <2> HIDE DEF E, id
  <2>3. Full(events, s, id, obs)  BY <2>1 DEF id
  <2> QED  BY ONLY <2>2, <2>3, MatchedWhenFull
<1>7. x = [id |-> frame.id, events |-> events, summary |-> s,
           observations |-> {obs[p] : p \in DOMAIN obs}]
  BY DEF Assembled, frame, s, events, obs
<1>8. x.id = frame.id  BY <1>7
<1>9. ReleasableIn(x, L, S)
  <2>1. Len(<<s>>) = 1 /\ <<s>>[1] = s  OBVIOUS
  <2>2. x = [id |-> s.id, events |-> EventsIn(L, f), observations |-> EvidenceIn(S, f),
             summary |-> s]
    BY ONLY <1>3, <1>4, <1>7
  <2>3. \A i \in DOMAIN events : events[i].id = x.id  BY <1>3, <1>8
  <2>4. x.id.fusion = f  BY <1>5, <1>8
  <2>5. MatchedIn(events, EvidenceIn(S, f))  BY ONLY <1>3, <1>6
  <2>6. /\ Len(SummariesIn(L, f)) = 1 /\ SummariesIn(L, f)[1] = s
        /\ SummariesIn(L, f)[1].outcomes = Len(EventsIn(L, f))
    BY ONLY <1>3, <1>4, <2>1
  <2>7. \A i \in DOMAIN EventsIn(L, f) : EventsIn(L, f)[i].id = x.id  BY ONLY <1>3, <2>3
  <2>8. MatchedIn(EventsIn(L, f), EvidenceIn(S, f))  BY ONLY <1>3, <2>5
  <2> QED  BY ONLY <2>2, <2>4, <2>6, <2>7, <2>8 DEF ReleasableIn
<1> QED  BY <1>2, <1>4, <1>5, <1>8, <1>9

(* Least, over the open frames.                                             *)
LEMMA OldestIs ==
  ASSUME NEW r, Tables(r)
  PROVE  /\ OldestOpen(r) = None <=> DOMAIN r.frames = {}
         /\ DOMAIN r.frames # {} => /\ OldestOpen(r) \in DOMAIN r.frames
                                    /\ \A g \in DOMAIN r.frames : OldestOpen(r) <= g
<1>1. CASE DOMAIN r.frames = {}  BY <1>1 DEF OldestOpen, Least
<1>2. CASE DOMAIN r.frames # {}
  <2>1. /\ EventFold!Min(DOMAIN r.frames) \in DOMAIN r.frames
        /\ \A g \in DOMAIN r.frames : EventFold!Min(DOMAIN r.frames) <= g
    BY <1>2, EventFold!MinIs DEF Tables
  <2>2. Min(DOMAIN r.frames) = EventFold!Min(DOMAIN r.frames)  BY DEF Min, EventFold!Min
  <2>3. OldestOpen(r) = Min(DOMAIN r.frames)  BY <1>2 DEF OldestOpen, Least
  <2>4. OldestOpen(r) \in Nat  BY <2>1, <2>2, <2>3 DEF Tables
  <2> QED  BY <1>2, <2>1, <2>2, <2>3, <2>4, EnvelopeAssumption
<1> QED  BY <1>1, <1>2

(* One turn of the loop of drain_ready_frames.                              *)
Emptied(w, v, f) ==
  /\ Changes(v, w, {"frames", "bytes", "lastFinalized", "ready"})
  /\ f \in DOMAIN w.frames /\ \A g \in DOMAIN w.frames : f <= g
  /\ w.frames[f].ready
  /\ v.frames = [g \in DOMAIN w.frames \ {f} |-> w.frames[g]]
  /\ v.bytes = w.bytes - w.frames[f].bytes /\ v.lastFinalized = f
  /\ v.ready = Append(w.ready, Assembled(w.frames[f]))

LEMMA EmptiedKeeps ==
  ASSUME NEW w, NEW v, NEW S, NEW t, NEW f, Running(w, S, t), SettledBut(w, {}), Emptied(w, v, f)
  PROVE  Running(v, S, t) /\ SettledBut(v, {})
<1> DEFINE L == LogWith(w)
           O == OutWith(w)
           x == Assembled(w.frames[f])
           Q == Append(O, x)
<1>1. /\ Work(v) /\ v.next = w.next /\ v.pending = w.pending /\ v.priors = w.priors
      /\ v.high = w.high /\ v.lastMonitor = w.lastMonitor /\ v.lastSummary = w.lastSummary
      /\ v.lastBeat = w.lastBeat /\ v.told = w.told /\ v.processed = w.processed
  BY DEF Emptied, Changes, WorkFields, SelfFields
<1>2. /\ f \in DOMAIN w.frames /\ \A g \in DOMAIN w.frames : f <= g
      /\ w.frames[f].ready
      /\ v.bytes = w.bytes - w.frames[f].bytes /\ v.lastFinalized = f
      /\ v.ready = Append(w.ready, x)
  BY DEF Emptied
<1>3. v.frames = [g \in DOMAIN w.frames \ {f} |-> w.frames[g]]  BY DEF Emptied
<1>4. /\ DOMAIN v.frames = DOMAIN w.frames \ {f}
      /\ \A g \in DOMAIN v.frames : v.frames[g] = w.frames[g]
  BY <1>3
<1>5. /\ Ordered(w) /\ Waiting(w) /\ Foreseen(w) /\ Tables(w) /\ Budget(w) /\ Timely(w, t)
      /\ Joined(w, O, L, S) /\ Sequenced(w)
  BY DEF Running
<1>6. f \in Nat /\ \A g \in DOMAIN w.frames : g \in Nat  BY <1>2, <1>5 DEF Tables
<1>7. /\ ~Final(w, f) /\ w.lastSummary # None /\ f <= w.lastSummary
      /\ x.id.fusion = f /\ KeepsId(w, f, x.id) /\ ReleasableIn(x, L, S)
  <2>1. IsReady(w.frames[f])  BY <1>2 DEF SettledBut, IsReady
  <2>2. FrameGood(w, f, L, S)  BY <1>2, <1>5 DEF Joined
  <2>3. f \in DOMAIN w.frames  BY <1>2
  <2> HIDE DEF L
  <2> QED  BY ONLY <2>1, <2>2, <2>3, ReleasableWhenReady
<1>8. Sequenced(v) /\ LogWith(v) = L /\ OutWith(v) = Q /\ IsSeq(O)
  <2>1. IsSeq(v.ready)  BY <1>2, <1>5, SeqAppend DEF Sequenced
  <2>2. IsSeq(out) /\ IsSeq(w.ready)  BY <1>5 DEF Sequenced
  <2>3. OutWith(v) = Q  BY <1>2, <2>2, ConcatAppend DEF OutWith
  <2>4. IsSeq(O)
    <3>1. PICK A : out \in Seq(A)  BY <2>2 DEF IsSeq
    <3>2. PICK B : w.ready \in Seq(B)  BY <2>2 DEF IsSeq
    <3>3. out \in Seq(A \cup B) /\ w.ready \in Seq(A \cup B)  BY <3>1, <3>2
    <3>4. out \o w.ready \in Seq(A \cup B)  BY <3>3
    <3> QED  BY <3>4 DEF IsSeq, OutWith
  <2> QED  BY <1>1, <1>5, <2>1, <2>3, <2>4 DEF Sequenced, LogWith
<1> HIDE DEF L, O, x, Q
<1>9. Ordered(v)  BY <1>1, <1>2, <1>5, <1>6, <1>7 DEF Ordered, Option
<1>10. Waiting(v)  BY <1>1, <1>5 DEF Waiting
<1>11. \A g : Final(w, g) /\ g \in Nat => Final(v, g) /\ g < f
  BY <1>2, <1>5, <1>6, <1>7, EnvelopeAssumption DEF Final, Ordered, Option
<1>12. Final(v, f) /\ \A g \in DOMAIN v.frames : ~Final(v, g) /\ ~Final(w, g)
  <2>1. Final(v, f)  BY <1>2, <1>6, EnvelopeAssumption DEF Final
  <2>2. \A g \in DOMAIN v.frames : g \in Nat /\ g > f  BY <1>2, <1>4, <1>6
  <2>3. \A g \in DOMAIN v.frames : ~Final(v, g)  BY <1>2, <1>6, <2>2 DEF Final
  <2> QED  BY <1>11, <2>1, <2>2, <2>3
<1>13. Foreseen(v)
  <2> SUFFICES ASSUME NEW q \in DOMAIN w.pending, w.pending[q].event.kind # "Heartbeat"
               PROVE  LET g == w.pending[q].event.id.fusion IN g \in DOMAIN v.frames \/ Final(v, g)
    BY <1>1 DEF Foreseen
  <2> DEFINE g == w.pending[q].event.id.fusion
  <2>1. g \in DOMAIN w.frames \/ Final(w, g)  BY <1>5 DEF Foreseen
  <2>2. g \in Nat  BY <1>5, EventFacts DEF Waiting, Entry
  <2> HIDE DEF g
  <2>3. g \in DOMAIN v.frames \/ Final(v, g)  BY <1>4, <1>11, <1>12, <2>1, <2>2
  <2> QED  BY <2>3 DEF g
<1>14. Tables(v)
  <2>1. /\ IsFiniteSet(DOMAIN v.frames) /\ Cardinality(DOMAIN v.frames) \in Nat
        /\ Cardinality(DOMAIN v.frames) <= Cardinality(DOMAIN w.frames)
        /\ Cardinality(DOMAIN w.frames) \in Nat
    BY <1>4, <1>5, FS_Subset, FS_CardinalityType DEF Tables
  <2>2. Limits.openFrames \in Nat /\ Cardinality(DOMAIN w.frames) <= Limits.openFrames
    BY <1>5, LimitsAssumption DEF Tables
  <2>3. Cardinality(DOMAIN v.frames) <= Limits.openFrames  BY ONLY <2>1, <2>2
  <2>4. \A g \in DOMAIN v.frames : v.frames[g].bytes \in Nat /\ v.frames[g].seenAt \in Nat
    BY <1>4, <1>5 DEF Tables
  <2> QED  BY ONLY <1>1, <1>4, <1>5, <2>1, <2>3, <2>4 DEF Tables
<1>15. Budget(v)
  <2>1. Weighed(w.frames) /\ Weighed(w.pending)  BY <1>5 DEF Weighed, Tables, Waiting, Entry
  <2>2. LET G == [g \in DOMAIN w.frames \ {f} |-> w.frames[g]] IN
        Total(w.frames) = w.frames[f].bytes + Total(G) /\ Weighed(G)
    BY ONLY <1>2, <2>1, TotalTakes
  <2>3. Total(w.frames) = w.frames[f].bytes + Total(v.frames) /\ Weighed(v.frames)
    BY <1>3, <2>2
  <2>4. Total(v.frames) \in Nat /\ Total(w.pending) \in Nat /\ w.frames[f].bytes \in Nat
    BY <1>2, <1>5, <2>1, <2>3, TotalTakes DEF Tables
  <2>5. Limits.bytes \in Nat  BY LimitsAssumption
  <2> QED  BY ONLY <1>1, <1>2, <1>5, <2>3, <2>4, <2>5 DEF Budget
<1>16. Timely(v, t)  BY <1>1, <1>4, <1>5 DEF Timely
<1>17. Joined(v, Q, L, S)
  <2>1. \A g \in DOMAIN v.frames : FrameGood(v, g, L, S)
    <3> SUFFICES ASSUME NEW g \in DOMAIN v.frames PROVE FrameGood(v, g, L, S)  OBVIOUS
    <3>1. g \in DOMAIN w.frames /\ v.frames[g] = w.frames[g] /\ ~Final(v, g) /\ ~Final(w, g)
      BY <1>4, <1>12
    <3>2. FrameGood(w, g, L, S)  BY <1>5, <3>1 DEF Joined
    <3>3. Gathered(w, g, L, S) => Gathered(v, g, L, S)  BY <1>1, <3>1 DEF Gathered
    <3>4. Balances(w, g) => Balances(v, g)  BY <1>1, <3>1 DEF Balances
    <3> QED  BY ONLY <1>1, <3>1, <3>2, <3>3, <3>4 DEF FrameGood, KeepsId
  <2>2. \A g \in Nat \ DOMAIN v.frames : ~Final(v, g) => Untouched(L, S, g)
    <3> SUFFICES ASSUME NEW g \in Nat \ DOMAIN v.frames, ~Final(v, g) PROVE Untouched(L, S, g)
      OBVIOUS
    <3>1. g # f /\ g \notin DOMAIN w.frames /\ ~Final(w, g)  BY <1>4, <1>11, <1>12
    <3> QED  BY <1>5, <3>1 DEF Joined
  <2>3. Done(v, Q, L, S)
    <3>1. \A i \in DOMAIN O :
            LET g == O[i].id.fusion IN
            g \in Nat /\ Final(w, g) /\ KeepsId(w, g, O[i].id) /\ ReleasableIn(O[i], L, S)
      BY <1>5 DEF Joined, Done
    <3>2. \A i, j \in DOMAIN O : i < j => O[i].id.fusion < O[j].id.fusion
      BY <1>5 DEF Joined, Done
    <3>3. PICK T : O \in Seq(T)  BY <1>8 DEF IsSeq
    <3>4. /\ Len(O) \in Nat /\ DOMAIN O = 1..Len(O) /\ DOMAIN Q = 1..(Len(O) + 1)
          /\ Q[Len(O) + 1] = x /\ \A i \in 1..Len(O) : Q[i] = O[i]
      BY <3>3 DEF Q
    <3>5. \A i \in DOMAIN Q :
            LET g == Q[i].id.fusion IN
            g \in Nat /\ Final(v, g) /\ KeepsId(v, g, Q[i].id) /\ ReleasableIn(Q[i], L, S)
      <4> SUFFICES ASSUME NEW i \in DOMAIN Q
                   PROVE  LET g == Q[i].id.fusion IN
                          g \in Nat /\ Final(v, g) /\ KeepsId(v, g, Q[i].id)
                            /\ ReleasableIn(Q[i], L, S)
        OBVIOUS
      <4>1. CASE i = Len(O) + 1  BY <1>1, <1>6, <1>7, <1>12, <3>4, <4>1 DEF KeepsId
      <4>2. CASE i # Len(O) + 1
        <5>1. i \in DOMAIN O /\ Q[i] = O[i]  BY <3>4, <4>2
        <5> QED  BY <1>1, <1>11, <3>1, <5>1 DEF KeepsId
      <4> QED  BY <4>1, <4>2
    <3>6. \A i, j \in DOMAIN Q : i < j => Q[i].id.fusion < Q[j].id.fusion
      <4> SUFFICES ASSUME NEW i \in DOMAIN Q, NEW j \in DOMAIN Q, i < j
                   PROVE  Q[i].id.fusion < Q[j].id.fusion
        OBVIOUS
      <4>1. i \in DOMAIN O /\ Q[i] = O[i]  BY <3>4
      <4>2. CASE j = Len(O) + 1  BY <1>7, <1>11, <3>1, <3>4, <4>1, <4>2
      <4>3. CASE j # Len(O) + 1
        <5>1. j \in DOMAIN O /\ Q[j] = O[j]  BY <3>4, <4>3
        <5> QED  BY <3>2, <4>1, <5>1
      <4> QED  BY <4>2, <4>3
    <3> QED  BY ONLY <3>5, <3>6 DEF Done
  <2>4. SummedUp(v, Q, L)
    <3> SUFFICES ASSUME NEW g \in Nat, Final(v, g), SummariesIn(L, g) # <<>>
                 PROVE  \E i \in DOMAIN Q : Q[i].id.fusion = g
      BY DEF SummedUp
    <3>3. PICK T : O \in Seq(T)  BY <1>8 DEF IsSeq
    <3>4. /\ Len(O) \in Nat /\ DOMAIN O = 1..Len(O) /\ DOMAIN Q = 1..(Len(O) + 1)
          /\ Q[Len(O) + 1] = x /\ \A i \in 1..Len(O) : Q[i] = O[i]
      BY <3>3 DEF Q
    <3>5. CASE Final(w, g)
      <4>1. PICK i \in DOMAIN O : O[i].id.fusion = g  BY <1>5, <3>5 DEF Joined, SummedUp
      <4> QED  BY <3>4, <4>1
    <3>6. CASE g = f
      <4>1. Len(O) + 1 \in DOMAIN Q  BY <3>4
      <4> QED  BY <1>7, <3>4, <3>6, <4>1
    <3>7. CASE ~Final(w, g) /\ g # f
      <4>1. g <= f  BY <1>2 DEF Final
      <4>2. g \notin DOMAIN w.frames  BY <1>2, <1>6, <3>7, <4>1
      <4> QED  BY <1>5, <3>7, <4>2 DEF Joined, Untouched
    <3> QED  BY <3>5, <3>6, <3>7
  <2> QED  BY <2>1, <2>2, <2>3, <2>4 DEF Joined
<1>18. SettledBut(v, {})
  <2>1. \A g \in DOMAIN w.frames : w.frames[g].ready = IsReady(w.frames[g])  BY DEF SettledBut
  <2> QED  BY ONLY <1>4, <2>1 DEF SettledBut
<1> QED  BY <1>1, <1>8, <1>9, <1>10, <1>13, <1>14, <1>15, <1>16, <1>17, <1>18 DEF Running
=============================================================================
