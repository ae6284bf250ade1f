--------------------------- MODULE AssemblerProofs ---------------------------
(***************************************************************************)
(* Theorems about Assembler, for every value of its constants that meets   *)
(* LimitsAssumption and EnvelopeAssumption: its buffers are accounted for, *)
(* its deadlines are kept and told, nothing complete is withheld, and it   *)
(* implements RouteJoin.  First what the loops of a call keep, then what   *)
(* a call and a step do.                                                   *)
(***************************************************************************)
EXTENDS AssemblerFrames

(* No frame left is both oldest and ready.                                  *)
Quiet(r) == OldestOpen(r) = None \/ ~r.frames[OldestOpen(r)].ready

LEMMA ReleaseTurn ==
  ASSUME NEW w, NEW S, NEW t, Running(w, S, t), SettledBut(w, {})
  PROVE  LET v == ReleaseOldest(w) IN
         /\ Running(v, S, t) /\ SettledBut(v, {})
         /\ v = w \/ Cardinality(DOMAIN v.frames) = Cardinality(DOMAIN w.frames) - 1
         /\ v = w => w.error # None \/ Quiet(w)
<1> DEFINE v == ReleaseOldest(w)
           f == OldestOpen(w)
<1>1. \/ v = w /\ (w.error # None \/ f = None \/ ~w.frames[f].ready)
      \/ /\ Changes(v, w, {"frames", "bytes", "lastFinalized", "ready"})
         /\ v.error = None /\ f # None /\ w.frames[f].ready
         /\ v.frames = [g \in DOMAIN w.frames \ {f} |-> w.frames[g]]
         /\ v.bytes = w.bytes - w.frames[f].bytes /\ v.lastFinalized = f
         /\ v.ready = Append(w.ready, Assembled(w.frames[f]))
  BY ReleaseOldestIs DEF Running
<1> HIDE DEF v
<1>2. CASE v = w /\ (w.error # None \/ f = None \/ ~w.frames[f].ready)
  BY <1>2 DEF Quiet, v
<1>3. CASE /\ Changes(v, w, {"frames", "bytes", "lastFinalized", "ready"})
           /\ v.error = None /\ f # None /\ w.frames[f].ready
           /\ v.frames = [g \in DOMAIN w.frames \ {f} |-> w.frames[g]]
           /\ v.bytes = w.bytes - w.frames[f].bytes /\ v.lastFinalized = f
           /\ v.ready = Append(w.ready, Assembled(w.frames[f]))
  <2>1. f \in DOMAIN w.frames /\ \A g \in DOMAIN w.frames : f <= g
    BY <1>3, OldestIs DEF Running
  <2> HIDE DEF f
  <2>2. Emptied(w, v, f)  BY <1>3, <2>1 DEF Emptied
  <2>3. Running(v, S, t) /\ SettledBut(v, {})  BY <2>2, EmptiedKeeps
  <2>4. DOMAIN v.frames = DOMAIN w.frames \ {f} /\ IsFiniteSet(DOMAIN w.frames)
    BY <1>3 DEF Running, Tables
  <2>5. /\ Cardinality(DOMAIN v.frames) = Cardinality(DOMAIN w.frames) - 1
        /\ Cardinality(DOMAIN w.frames) \in Nat
    BY <2>1, <2>4, FS_RemoveElement, FS_CardinalityType
  <2>6. v # w  BY <2>5
  <2> QED  BY <2>3, <2>5, <2>6 DEF v
<1> QED  BY <1>1, <1>2, <1>3

TurnOfRelease(w, n, c) == ReleaseOldest(w)
ReleaseLoop == INSTANCE FoldFacts WITH Step <- TurnOfRelease

LEMMA DrainReadyFramesIs ==
  ASSUME NEW w, NEW S, NEW t, Running(w, S, t), SettledBut(w, {}), w.error = None
  PROVE  LET v == DrainReadyFrames(w) IN
         /\ Changes(v, w, {"frames", "bytes", "lastFinalized", "ready"})
         /\ v.error = w.error
         /\ Running(v, S, t) /\ SettledBut(v, {})
         /\ v.error = None => Quiet(v)
<1> DEFINE turns == Cardinality(DOMAIN w.frames)
           a == ReleaseLoop!Loop(w, turns, None)
           Fields == {"frames", "bytes", "lastFinalized", "ready"}
<1>0. w.error = None  OBVIOUS
<1>1. turns \in Nat  BY FS_CardinalityType DEF Running, Tables
<1>2. DrainReadyFrames(w) = a[turns]
  <2>1. w.error = None => DrainReadyFrames(w) = a[turns]
    BY DEF DrainReadyFrames, ReleaseLoop!Loop, TurnOfRelease
  <2> QED  BY <1>0, <2>1
<1>3. a[0] = w /\ \A n \in 1..turns : a[n] = ReleaseOldest(a[n - 1])
  BY <1>1, ReleaseLoop!LoopIs DEF TurnOfRelease
<1> DEFINE Left(r) == Cardinality(DOMAIN r.frames)
           Good(n) == /\ Changes(a[n], w, Fields) /\ a[n].error = w.error
                      /\ Running(a[n], S, t) /\ SettledBut(a[n], {})
                      /\ a[n].error = None => Quiet(a[n]) \/ Left(a[n]) + n <= turns
           Goods == {n \in Nat : n <= turns => Good(n)}
<1> HIDE DEF a, turns
<1>4. 0 \in Goods
  <2>1. Changes(w, w, Fields)  BY DEF Running, Changes
  <2>2. Left(w) + 0 <= turns  BY <1>1 DEF turns
  <2> QED  BY <1>3, <2>1, <2>2
<1>5. ASSUME NEW n \in Nat, n \in Goods PROVE n + 1 \in Goods
  <2> SUFFICES ASSUME n + 1 <= turns PROVE Good(n + 1)  OBVIOUS
  <2> DEFINE x == a[n]
             y == a[n + 1]
  <2>1. y = ReleaseOldest(x)
    <3>1. n + 1 \in 1..turns /\ (n + 1) - 1 = n  BY <1>1
    <3> QED  BY <1>3, <3>1
  <2>2. Good(n)  BY <1>1, <1>5
  <2>3. /\ Changes(x, w, Fields) /\ x.error = w.error
        /\ Running(x, S, t) /\ SettledBut(x, {})
        /\ x.error = None => Quiet(x) \/ Left(x) + n <= turns
    BY <2>2
  <2> HIDE DEF x, y
  <2>4. /\ Running(y, S, t) /\ SettledBut(y, {})
        /\ y = x \/ Left(y) = Left(x) - 1
        /\ y = x => x.error # None \/ Quiet(x)
    BY ONLY <2>1, <2>3, ReleaseTurn
  <2>5. y = x \/ (Changes(y, x, Fields) /\ y.error = None)
    BY <2>1, <2>3, ReleaseOldestIs DEF Running
  <2>6. Changes(y, w, Fields) /\ y.error = w.error
    BY <2>3, <2>5 DEF Changes
  <2>7. y.error = None => Quiet(y) \/ Left(y) + (n + 1) <= turns
    <3>1. CASE y = x  BY <2>4, <3>1
    <3>2. CASE y # x
      <4>1. x.error = None  BY <2>5, <3>2 DEF Changes
      <4>2. ~Quiet(x)
        BY <2>1, <3>2 DEF Quiet, ReleaseOldest
      <4>3. Left(x) \in Nat  BY <2>3, FS_CardinalityType DEF Running, Tables
      <4> QED  BY <1>1, <2>3, <2>4, <3>2, <4>1, <4>2, <4>3
    <3> QED  BY <3>1, <3>2
  <2> QED  BY <2>4, <2>6, <2>7 DEF x, y
<1> HIDE DEF Goods
<1>6. \A n \in Nat : n \in Goods  BY <1>4, <1>5, ReleaseLoop!Induction
<1>7. Good(turns)  BY <1>1, <1>6 DEF Goods
<1> DEFINE z == a[turns]
<1>8. /\ Changes(z, w, Fields) /\ z.error = w.error
      /\ Running(z, S, t) /\ SettledBut(z, {})
      /\ z.error = None => Quiet(z) \/ Left(z) + turns <= turns
  BY <1>7
<1> HIDE DEF z
<1>9. z.error = None => Quiet(z)
  <2> SUFFICES ASSUME Left(z) + turns <= turns PROVE Quiet(z)  BY <1>8
  <2>1. Left(z) \in Nat /\ IsFiniteSet(DOMAIN z.frames)
    BY <1>8, FS_CardinalityType DEF Running, Tables
  <2>2. Left(z) = 0  BY <1>1, <2>1
  <2>3. DOMAIN z.frames = {}  BY <2>1, <2>2, FS_EmptySet
  <2> QED  BY <1>8, <2>3, OldestIs DEF Quiet, Running
<1> QED  BY <1>2, <1>8, <1>9 DEF z

(* After an error nothing more is released.                                 *)
LEMMA DrainOnError == \A w : w.error # None => DrainReadyFrames(w) = w
BY DEF DrainReadyFrames

-----------------------------------------------------------------------------
(* Steps that leave the frames alone.                                       *)

SameFrames(v, w) ==
  /\ v.frames = w.frames /\ v.priors = w.priors /\ v.high = w.high
  /\ v.lastMonitor = w.lastMonitor /\ v.lastSummary = w.lastSummary
  /\ v.lastFinalized = w.lastFinalized

LEMMA JoinedSame ==
  ASSUME NEW w, NEW v, SameFrames(v, w), NEW L, NEW M, \A g : SameFolds(L, M, g),
         NEW O, NEW S, Joined(w, O, L, S)
  PROVE  Joined(v, O, M, S)
<1>1. \A g : EventsIn(M, g) = EventsIn(L, g) /\ SummariesIn(M, g) = SummariesIn(L, g)
  BY DEF SameFolds
<1>2. \A g : Final(v, g) <=> Final(w, g)  BY DEF SameFrames, Final
<1>3. ASSUME NEW g \in DOMAIN w.frames PROVE FrameGood(v, g, M, S)
  <2>1. FrameGood(w, g, L, S)  BY DEF Joined
  <2>2. Gathered(w, g, L, S) => Gathered(v, g, M, S)  BY <1>1 DEF Gathered, SameFrames
  <2>3. Balances(w, g) => Balances(v, g)  BY DEF Balances, SameFrames
  <2>4. \A id : KeepsId(w, g, id) => KeepsId(v, g, id)  BY DEF KeepsId, SameFrames
  <2> QED  BY ONLY SameFrames(v, w), <1>2, <2>1, <2>2, <2>3, <2>4 DEF FrameGood, SameFrames
<1>4. \A g \in Nat \ DOMAIN w.frames : ~Final(v, g) => Untouched(M, S, g)
  BY <1>1, <1>2 DEF Joined, Untouched
<1>5. Done(v, O, M, S)
  <2>1. \A x : ReleasableIn(x, L, S) => ReleasableIn(x, M, S)  BY <1>1 DEF ReleasableIn
  <2>2. \A g, id : KeepsId(w, g, id) => KeepsId(v, g, id)  BY DEF KeepsId, SameFrames
  <2>3. Done(w, O, L, S)  BY DEF Joined
  <2> QED  BY ONLY <1>2, <2>1, <2>2, <2>3 DEF Done
<1>6. SummedUp(v, O, M)
  <2>1. SummedUp(w, O, L)  BY DEF Joined
  <2> QED  BY ONLY <1>1, <1>2, <2>1 DEF SummedUp
<1> QED  BY <1>3, <1>4, <1>5, <1>6 DEF Joined, SameFrames

(* And leave what waits alone, too.                                         *)
LEMMA RunningSame ==
  ASSUME NEW w, NEW S, NEW t, Running(w, S, t), NEW v, Work(v), SameFrames(v, w),
         v.pending = w.pending, v.bytes = w.bytes, v.processed = w.processed,
         v.ready = w.ready, v.next \in Nat, Calm(v.told), v.lastBeat \in Option,
         \A q \in DOMAIN w.pending : q >= v.next /\ q - v.next <= Limits.reorderDistance
  PROVE  Running(v, S, t) /\ (\A X : SettledBut(w, X) => SettledBut(v, X)) /\ (Quiet(w) => Quiet(v))
<1>1. /\ Ordered(w) /\ Waiting(w) /\ Foreseen(w) /\ Tables(w) /\ Budget(w) /\ Timely(w, t)
      /\ Joined(w, OutWith(w), LogWith(w), S) /\ Sequenced(w)
  BY DEF Running
<1>2. Sequenced(v) /\ OutWith(v) = OutWith(w) /\ LogWith(v) = LogWith(w)
  BY <1>1 DEF Sequenced, OutWith, LogWith
<1>3. Joined(v, OutWith(v), LogWith(v), S)
  <2> DEFINE L == LogWith(w)
  <2>1. \A g : SameFolds(L, L, g)  BY DEF SameFolds
  <2> HIDE DEF L
  <2>2. LogWith(v) = L /\ Joined(w, OutWith(w), L, S)  BY <1>1, <1>2 DEF L
  <2> QED  BY <1>2, <2>1, <2>2, JoinedSame
<1>4. Ordered(v)  BY <1>1 DEF Ordered, SameFrames
<1>5. Waiting(v)  BY <1>1 DEF Waiting
<1>6. Foreseen(v)  BY <1>1 DEF Foreseen, SameFrames, Final
<1>7. Tables(v)  BY <1>1 DEF Tables, SameFrames
<1>8. Budget(v) /\ Timely(v, t)  BY <1>1 DEF Budget, Timely, SameFrames
<1>9. (\A X : SettledBut(w, X) => SettledBut(v, X)) /\ (Quiet(w) => Quiet(v))
  BY DEF SettledBut, Quiet, OldestOpen, SameFrames
<1> QED  BY <1>2, <1>3, <1>4, <1>5, <1>6, <1>7, <1>8, <1>9 DEF Running

(* A heartbeat leaves the table and enters no frame.                        *)
LEMMA Beaten ==
  ASSUME NEW w, NEW S, NEW t, Running(w, S, t), w.next \in DOMAIN w.pending,
         w.pending[w.next].event.kind = "Heartbeat",
         NEW v, v = ProcessHeartbeat(Popped(w), w.pending[w.next])
  PROVE  /\ Changes(v, w, {"bytes", "pending", "processed", "beat", "lastBeat", "told"})
         /\ Calm(v.told)
         /\ v.error = None =>
              /\ Running(v, S, t) /\ (\A X : SettledBut(w, X) => SettledBut(v, X))
              /\ Quiet(w) => Quiet(v)
              /\ v.pending = [q \in DOMAIN w.pending \ {w.next} |-> w.pending[q]]
<1> DEFINE n == w.next
           p == w.pending[n]
           u == Popped(w)
           L == LogWith(w)
           M == Append(L, p.event)
<1>1. /\ p \in Entry /\ p.event \in Event /\ p.bytes \in Nat /\ p.at \in Nat
      /\ n \in DOMAIN w.pending /\ p.event.kind = "Heartbeat"
  BY DEF Running, Waiting, Entry
<1>2. /\ Work(u) /\ \A x \in WorkFields \ {"bytes", "pending", "processed"} : u[x] = w[x]
      /\ u.bytes = w.bytes - p.bytes
      /\ u.pending = [q \in DOMAIN w.pending \ {n} |-> w.pending[q]]
      /\ u.processed = Append(w.processed, p)
  BY PoppedIs DEF Running
<1> HIDE DEF u
<1>3. /\ Changes(v, u, {"beat", "lastBeat", "told"})
      /\ v.told = u.told \/ v.told = Append(u.told, [kind |-> "HeartbeatAccepted", at |-> p.at])
      /\ v.error = None => v.lastBeat = p.at
  <2>1. v = ProcessHeartbeat(u, p) /\ Work(u)  BY <1>2 DEF u
  <2> HIDE DEF p
  <2> QED  BY ONLY <2>1, ProcessHeartbeatIs
<1>4. Changes(v, w, {"bytes", "pending", "processed", "beat", "lastBeat", "told"})
  BY <1>2, <1>3 DEF Changes, WorkFields, SelfFields
<1>5. Calm(v.told)
  <2>1. Calm(w.told) /\ u.told = w.told  BY <1>2 DEF Running, Sequenced, WorkFields, SelfFields
  <2>2. [kind |-> "HeartbeatAccepted", at |-> p.at].kind # "FrameReady"  OBVIOUS
  <2> QED  BY <1>3, <2>1, <2>2, CalmAppend
<1>6. /\ SameFrames(v, w) /\ v.next = w.next /\ v.ready = w.ready /\ Work(v)
  BY <1>4 DEF Changes, WorkFields, SelfFields, SameFrames
<1>7. /\ v.bytes = w.bytes - p.bytes
      /\ v.pending = [q \in DOMAIN w.pending \ {n} |-> w.pending[q]]
      /\ v.processed = Append(w.processed, p)
  BY <1>2, <1>3 DEF Changes, WorkFields, SelfFields
<1>8. ASSUME v.error = None
      PROVE  Running(v, S, t) /\ (\A X : SettledBut(w, X) => SettledBut(v, X)) /\ (Quiet(w) => Quiet(v))
  <2>1. /\ Ordered(w) /\ Waiting(w) /\ Foreseen(w) /\ Tables(w) /\ Budget(w) /\ Timely(w, t)
        /\ Joined(w, OutWith(w), L, S) /\ Sequenced(w)
    BY DEF Running
  <2>2. LogWith(v) = M /\ L \in Seq(Event)  BY <1>1, <1>7, <2>1, LogAppend
  <2>3. Sequenced(v) /\ OutWith(v) = OutWith(w)
    <3>1. v.lastBeat \in Option  BY <1>1, <1>3, <1>8 DEF Option
    <3>2. v.processed \in Seq(Entry)  BY <1>1, <1>7, <2>1 DEF Sequenced
    <3> QED  BY ONLY <1>5, <1>6, <2>1, <3>1, <3>2 DEF Sequenced, OutWith
  <2>4. \A g : SameFolds(L, M, g)  BY <1>1, <2>2, LogGrows
  <2>5. /\ DOMAIN v.pending = DOMAIN w.pending \ {n}
        /\ \A q \in DOMAIN v.pending : v.pending[q] = w.pending[q]
    BY <1>7
  <2>6. Total(w.pending) = p.bytes + Total(v.pending) /\ Total(v.pending) \in Nat
    <3>1. Weighed(w.pending)  BY <2>1 DEF Weighed, Waiting, Entry
    <3> HIDE DEF n
    <3>2. LET G == [q \in DOMAIN w.pending \ {n} |-> w.pending[q]] IN
          Total(w.pending) = w.pending[n].bytes + Total(G) /\ Weighed(G)
      BY ONLY <1>1, <3>1, TotalTakes
    <3>3. Total(w.pending) = p.bytes + Total(v.pending) /\ Weighed(v.pending)
      BY <1>7, <3>2
    <3> QED  BY <3>3, TotalTakes
  <2> HIDE DEF n, p, L, M
  <2>7. Joined(v, OutWith(v), LogWith(v), S)  BY <1>6, <2>1, <2>2, <2>3, <2>4, JoinedSame
  <2>8. Ordered(v)  BY <1>6, <2>1 DEF Ordered, SameFrames
  <2>9. Waiting(v)
    <3>1. /\ IsFiniteSet(DOMAIN v.pending)
          /\ Cardinality(DOMAIN v.pending) <= Cardinality(DOMAIN w.pending)
          /\ Cardinality(DOMAIN v.pending) \in Nat /\ Cardinality(DOMAIN w.pending) \in Nat
      BY <2>1, <2>5, FS_Subset, FS_CardinalityType DEF Waiting
    <3>2. Limits.reorderEvents \in Nat  BY LimitsAssumption
    <3>3. Cardinality(DOMAIN v.pending) <= Limits.reorderEvents  BY <2>1, <3>1, <3>2 DEF Waiting
    <3> QED  BY ONLY <1>6, <2>1, <2>5, <3>1, <3>3 DEF Waiting
  <2>10. Foreseen(v)  BY ONLY <1>6, <2>1, <2>5 DEF Foreseen, SameFrames, Final
  <2>11. Tables(v)  BY <1>6, <2>1 DEF Tables, SameFrames
  <2>12. Timely(v, t)  BY ONLY <1>6, <2>1, <2>5 DEF Timely, SameFrames
  <2>13. Budget(v)
    <3>1. Weighed(w.frames)  BY <2>1 DEF Weighed, Tables
    <3>2. Total(w.frames) \in Nat /\ Limits.bytes \in Nat  BY <3>1, TotalTakes, LimitsAssumption
    <3>3. v.frames = w.frames  BY <1>6 DEF SameFrames
    <3> QED  BY ONLY <1>1, <1>7, <2>1, <2>6, <3>2, <3>3 DEF Budget
  <2>14. (\A X : SettledBut(w, X) => SettledBut(v, X)) /\ (Quiet(w) => Quiet(v))
    BY <1>6 DEF SettledBut, Quiet, OldestOpen, SameFrames
  <2> QED
    BY <1>6, <2>3, <2>7, <2>8, <2>9, <2>10, <2>11, <2>12, <2>13, <2>14 DEF Running
<1> QED  BY <1>4, <1>5, <1>7, <1>8

-----------------------------------------------------------------------------
(* Time that does not go back.  Only begin_call may say that it did, and a  *)
(* heartbeat that waited behind a gap is not yet stale when it is processed *)
(* if the reorder deadline is no longer than the heartbeat deadline.        *)

InOrder(w) == w.error # "MonotonicClockRegressed"

(* The heartbeat deadline of the fields r lies after t.                     *)
BeatHeard(r, t) ==
  IF r.lastBeat = None THEN t - StartedAt < Limits.initialHeartbeatDeadline
  ELSE t - r.lastBeat < Limits.heartbeatDeadline

(* How a call stands with the clock; the deadlines of the configuration     *)
(* decide whether a heartbeat may be stale when its turn comes.             *)
Prompt == Limits.reorderDeadline <= Limits.heartbeatDeadline
OnClock(w, t) == InOrder(w) /\ (Prompt /\ w.error = None => BeatHeard(w, t))

LEMMA NoneInOrder == None # "MonotonicClockRegressed"
BY FaultNames DEF AssemblyFaults

LEMMA RefusedInOrder ==
  ASSUME NEW w, Work(w), NEW kind, kind # "MonotonicClockRegressed", NEW from
  PROVE  InOrder(Refuse(w, kind, from))
BY Refused DEF InOrder

(* The stages of a call blame something else.                               *)
LEMMA StagesInOrder ==
  ASSUME NEW w, Work(w), InOrder(w)
  PROVE  /\ \A f, at : InOrder(EnsureFrame(w, f, at))
         /\ \A id : InOrder(EstablishIdentity(w, id))
         /\ \A n, from : InOrder(ReserveBytes(w, n, from))
         /\ \A f : InOrder(CheckMonitorFrameOrder(w, f))
         /\ \A f : InOrder(RefuseSummarized(w, f))
         /\ \A f : InOrder(RefreshReadiness(w, f))
         /\ \A q : InOrder(MoveOn(w, q))
         /\ \A p : InOrder(AddEvent(w, p))
<1>1. \A f, at : InOrder(EnsureFrame(w, f, at))
  BY DEF EnsureFrame, Refuse, InOrder, Work, WorkFields, SelfFields
<1>2. \A id : InOrder(EstablishIdentity(w, id))
  BY DEF EstablishIdentity, Refuse, InOrder, Work, WorkFields, SelfFields
<1>3. \A n, from : InOrder(ReserveBytes(w, n, from))
  BY DEF ReserveBytes, Refuse, InOrder, Work, WorkFields, SelfFields
<1>4. \A f : InOrder(CheckMonitorFrameOrder(w, f))
  BY DEF CheckMonitorFrameOrder, Refuse, InOrder, Work, WorkFields, SelfFields
<1>5. \A f : InOrder(RefuseSummarized(w, f))
  BY DEF RefuseSummarized, Refuse, InOrder, Work, WorkFields, SelfFields
<1>6. \A f : InOrder(RefreshReadiness(w, f))
  BY DEF RefreshReadiness, InOrder, Work, WorkFields, SelfFields
<1>7. \A q : InOrder(MoveOn(w, q))
  BY DEF MoveOn, Refuse, InOrder, Work, WorkFields, SelfFields
<1>8. \A p : InOrder(AddEvent(w, p))
  <2> SUFFICES ASSUME NEW p PROVE InOrder(AddEvent(w, p))  OBVIOUS
  <2> DEFINE f == p.event.id.fusion
             error == FrameEventError(w.frames[f], p.event)
  <2>1. error # "MonotonicClockRegressed"  BY NoneInOrder DEF FrameEventError
  <2>2. \/ AddEvent(w, p) = w
        \/ AddEvent(w, p) = Refuse(w, error, f)
        \/ AddEvent(w, p) = [w EXCEPT !.bytes = @ + p.bytes, !.frames[f] = WithEvent(@, p)]
    BY DEF AddEvent
  <2>3. LET v == [w EXCEPT !.bytes = @ + p.bytes, !.frames[f] = WithEvent(@, p)] IN InOrder(v)
    <3> DEFINE frames == [w.frames EXCEPT ![f] = WithEvent(@, p)]
    <3>1. [w EXCEPT !.bytes = @ + p.bytes, !.frames[f] = WithEvent(@, p)]
            = [w EXCEPT !.bytes = @ + p.bytes, !.frames = frames]
      OBVIOUS
    <3> HIDE DEF frames
    <3> QED  BY <3>1 DEF InOrder, Work, WorkFields, SelfFields
  <2> HIDE DEF error, f
  <2> QED  BY <2>1, <2>2, <2>3, RefusedInOrder
<1> QED  BY <1>1, <1>2, <1>3, <1>4, <1>5, <1>6, <1>7, <1>8

LEMMA EntersInOrder ==
  ASSUME NEW w, Work(w), InOrder(w), NEW p
  PROVE  InOrder(EnterFrame(w, p))
<1> DEFINE id == p.event.id
           f  == id.fusion
           a == CheckMonitorFrameOrder(w, f)
           b == EnsureFrame(a, f, p.at)
           c == EstablishIdentity(b, id)
<1>1. EnterFrame(w, p) = RefuseSummarized(c, f)  BY DEF EnterFrame
<1>2. Work(a) /\ InOrder(a)  BY CheckMonitorFrameOrderIs, StagesInOrder DEF Changes
<1> HIDE DEF a
<1>3. Work(b) /\ InOrder(b)  BY <1>2, EnsureFrameIs, StagesInOrder DEF Changes
<1> HIDE DEF b
<1>4. Work(c) /\ InOrder(c)  BY <1>3, EstablishIdentityIs, StagesInOrder DEF Changes
<1> HIDE DEF c
<1> QED  BY <1>1, <1>4, StagesInOrder

(* Neither does the ledger of a frame.                                      *)
LEMMA RecordInOrder ==
  ASSUME NEW acc, DOMAIN acc = AccFields, NEW e, NEW s, InOrder(acc)
  PROVE  DOMAIN Record(acc, e, s) = AccFields /\ InOrder(Record(acc, e, s))
<1>1. ASSUME NEW kind, kind # "MonotonicClockRegressed"
      PROVE  LET v == [acc EXCEPT !.error = kind] IN DOMAIN v = AccFields /\ InOrder(v)
  BY <1>1 DEF AccFields, InOrder
<1>2. ASSUME NEW pair
      PROVE  LET v == Placed(acc, e, s, pair) IN DOMAIN v = AccFields /\ InOrder(v)
  BY DEF Placed, AccFields, InOrder
<1>3. DOMAIN RecordMiss(acc, e, s) = AccFields /\ InOrder(RecordMiss(acc, e, s))
  BY <1>1, <1>2 DEF RecordMiss
<1>4. DOMAIN RecordBirth(acc, e, s) = AccFields /\ InOrder(RecordBirth(acc, e, s))
  <2>1. LET v == [acc EXCEPT !.births = @ \cup {<<e.measurement, e.track>>}] IN
        DOMAIN v = AccFields /\ InOrder(v)
    BY DEF AccFields, InOrder
  <2> QED  BY <1>1, <2>1 DEF RecordBirth
<1>5. DOMAIN RecordAttempt(acc, e, s) = AccFields /\ InOrder(RecordAttempt(acc, e, s))
  <2> DEFINE placed == Placed(acc, e, s, Attempted(PairIn(acc, e), e))
  <2>1. DOMAIN placed = AccFields /\ InOrder(placed)  BY <1>2
  <2>2. \/ \E kind \in {"InvalidFrameLedger", "Registry"} :
             RecordAttempt(acc, e, s) = [acc EXCEPT !.error = kind]
        \/ RecordAttempt(acc, e, s) = Owing(placed, e)
    BY DEF RecordAttempt
  <2> HIDE DEF placed
  <2>3. DOMAIN Owing(placed, e) = AccFields /\ InOrder(Owing(placed, e))
    BY <2>1 DEF Owing, AccFields, InOrder
  <2> QED  BY <1>1, <2>2, <2>3
<1> QED  BY <1>1, <1>3, <1>4, <1>5 DEF Record

LEMMA LedgerInOrder ==
  ASSUME NEW events \in Seq(Event), NEW s
  PROVE  LedgerError(events, s) # "MonotonicClockRegressed"
<1>1. Pass(events, s) = LedgerFold!Fold(Opening, events, s)
  BY DEF Pass, LedgerFold!Fold, FoldLeft, MapThenFoldSet, Max, LedgerFold!FoldLeft,
     LedgerFold!MapThenFoldSet, LedgerFold!Max
<1>2. PICK h : /\ LedgerFold!IsRun(h, Opening, events, s)
               /\ LedgerFold!Fold(Opening, events, s) = h[Len(events)]
  BY LedgerFold!FoldRuns
<1>3. h[0] = Opening /\ \A i \in 1..Len(events) : h[i] = Record(h[i - 1], events[i], s)
  BY <1>2 DEF LedgerFold!IsRun
<1> DEFINE Good(i) == DOMAIN h[i] = AccFields /\ InOrder(h[i])
           Goods == {i \in Nat : i <= Len(events) => Good(i)}
<1>4. 0 \in Goods
  <2>1. DOMAIN Opening = AccFields /\ Opening.error = None  BY DEF Opening, AccFields
  <2> QED  BY <1>3, <2>1, NoneInOrder DEF InOrder
<1>5. ASSUME NEW i \in Nat, i \in Goods PROVE i + 1 \in Goods
  <2> SUFFICES ASSUME i + 1 <= Len(events) PROVE Good(i + 1)  OBVIOUS
  <2>1. i <= Len(events) /\ i + 1 \in 1..Len(events) /\ (i + 1) - 1 = i /\ Len(events) \in Nat
    OBVIOUS
  <2>2. h[i + 1] = Record(h[i], events[i + 1], s)  BY <1>3, <2>1
  <2>3. DOMAIN h[i] = AccFields /\ InOrder(h[i])  BY <1>5, <2>1
  <2> QED  BY <2>2, <2>3, RecordInOrder
<1> HIDE DEF Goods
<1>6. \A i \in Nat : i \in Goods  BY <1>4, <1>5, LedgerFold!Induction
<1>7. InOrder(h[Len(events)])
  <2>1. Len(events) \in Nat /\ Len(events) <= Len(events)  OBVIOUS
  <2> QED  BY <1>6, <2>1 DEF Goods
<1>8. Pass(events, s).error # "MonotonicClockRegressed"  BY <1>1, <1>2, <1>7 DEF InOrder
<1> QED  BY <1>8, NoneInOrder DEF LedgerError

LEMMA SummaryInOrder ==
  ASSUME NEW frame, NEW s, frame.events \in Seq(Event)
  PROVE  SummaryError(frame, s) # "MonotonicClockRegressed"
<1> DEFINE ledger == LedgerError(frame.events, s)
           owed   == Owed(frame.events, s)
           fits   == \A p \in DOMAIN frame.observations :
                       Joins(frame.id, owed, frame.observations[p])
<1>1. SummaryError(frame, s) =
        CASE s.trouble # None \/ s.active > MaxActiveTracks \/ s.outcomes > MaxOutcomes ->
               "Registry"
          [] s.degraded -> "ProducerDegradedFrame"
          [] Len(frame.events) # s.outcomes -> "OutcomeCountMismatch"
          [] ledger # None -> ledger
          [] Cardinality(DOMAIN owed) # s.v1Expected -> "V1ExpectedCountMismatch"
          [] ~fits -> "ObservationMismatch"
          [] OTHER -> None
  BY DEF SummaryError
<1>2. ledger # "MonotonicClockRegressed"  BY LedgerInOrder
<1> HIDE DEF ledger, owed, fits
<1> QED  BY <1>1, <1>2, NoneInOrder

LEMMA ClosesInOrder ==
  ASSUME NEW w, Work(w), InOrder(w), NEW p,
         w.error = None => w.frames[p.event.id.fusion].events \in Seq(Event)
  PROVE  InOrder(CloseFrame(w, p))
<1> DEFINE f == p.event.id.fusion
           error == SummaryError(w.frames[f], p.event)
           closed == [w EXCEPT !.bytes = @ + p.bytes, !.lastSummary = f,
                               !.frames[f] = Closed(@, p)]
<1>1. CloseFrame(w, p) = IF w.error # None THEN w
                         ELSE IF error # None THEN Refuse(w, error, f) ELSE closed
  BY DEF CloseFrame
<1>2. w.error = None => error # "MonotonicClockRegressed"  BY SummaryInOrder
<1>3. InOrder(closed)
  <2> DEFINE frames == [w.frames EXCEPT ![f] = Closed(@, p)]
  <2>1. closed = [w EXCEPT !.bytes = @ + p.bytes, !.lastSummary = f, !.frames = frames]
    OBVIOUS
  <2> HIDE DEF frames, closed
  <2> QED  BY <2>1 DEF InOrder, Work, WorkFields, SelfFields
<1> HIDE DEF error, closed, f
<1> QED  BY <1>1, <1>2, <1>3, RefusedInOrder

LEMMA BeatsInOrder ==
  ASSUME NEW w, Work(w), InOrder(w), NEW p, p.event \in Event, p.event.kind = "Heartbeat"
  PROVE  InOrder(ProcessHeartbeat(w, p))
<1> DEFINE error == HeartbeatError(w, p.event)
<1>1. p.event.trouble # "MonotonicClockRegressed"  BY VerdictAssumption DEF Event
<1>2. error # "MonotonicClockRegressed"  BY <1>1, NoneInOrder DEF HeartbeatError
<1>3. \/ ProcessHeartbeat(w, p) = Refuse(w, error, OldestOpen(w))
      \/ ProcessHeartbeat(w, p).error = w.error
  BY DEF ProcessHeartbeat, Work, WorkFields, SelfFields
<1> HIDE DEF error
<1> QED  BY <1>2, <1>3, RefusedInOrder DEF InOrder

(* A step that hears no heartbeat.                                          *)
LEMMA HeardStays ==
  ASSUME NEW w, NEW v, NEW t, OnClock(w, t), NEW fields, Changes(v, w, fields),
         "lastBeat" \notin fields, InOrder(v)
  PROVE  OnClock(v, t)
BY DEF Changes, OnClock, BeatHeard, WorkFields, SelfFields

-----------------------------------------------------------------------------
(* What holds between the turns of drain_monitor.                           *)
Steady(w, S, t) ==
  /\ Work(w) /\ Calm(w.told)
  /\ w.error = None => Running(w, S, t) /\ SettledBut(w, {}) /\ Quiet(w)

(* The end of a turn: readiness of frame f, and what may then be released.  *)
LEMMA ReadyThenDrained ==
  ASSUME NEW w, NEW S, NEW t, NEW f, Work(w), Calm(w.told),
         w.error = None => f \in DOMAIN w.frames /\ Running(w, S, t) /\ SettledBut(w, {f}),
         NEW v, v = DrainReadyFrames(RefreshReadiness(w, f))
  PROVE  /\ Changes(v, w, {"frames", "bytes", "lastFinalized", "ready"})
         /\ Steady(v, S, t)
         /\ InOrder(w) => InOrder(v)
<1> DEFINE Fields == {"frames", "bytes", "lastFinalized", "ready"}
           x == RefreshReadiness(w, f)
<1>1. CASE w.error # None
  <2>1. x = w  BY <1>1 DEF RefreshReadiness
  <2>2. v = w  BY <1>1, <2>1, DrainOnError
  <2> QED  BY <1>1, <2>2 DEF Changes, Steady
<1>2. CASE w.error = None
  <2>1. /\ Changes(x, w, {"frames"})
        /\ x.error = None => Running(x, S, t) /\ SettledBut(x, {})
    BY <1>2, Refreshed
  <2>o. InOrder(w) => InOrder(x)  BY StagesInOrder
  <2> HIDE DEF x
  <2>2. CASE x.error # None
    <3>1. v = x  BY <2>2, DrainOnError DEF x
    <3>2. x.told = w.told  BY <2>1 DEF Changes, WorkFields, SelfFields
    <3>3. InOrder(w) => InOrder(v)  BY <2>o, <3>1
    <3> QED  BY <2>1, <2>2, <3>1, <3>2, <3>3 DEF Changes, Steady
  <2>3. CASE x.error = None
    <3>1. v = DrainReadyFrames(x)  BY DEF x
    <3>2. /\ Changes(v, x, Fields) /\ v.error = None
          /\ Running(v, S, t) /\ SettledBut(v, {}) /\ Quiet(v)
      BY <2>1, <2>3, <3>1, DrainReadyFramesIs
    <3>3. Changes(v, w, Fields)  BY <2>1, <3>2 DEF Changes
    <3>4. InOrder(v)  BY <3>2, NoneInOrder DEF InOrder
    <3> QED  BY <3>2, <3>3, <3>4 DEF Steady, Running, Sequenced
  <2> QED  BY <2>2, <2>3
<1> QED  BY <1>1, <1>2

(* An event that enters its frame, up to there and in the end.              *)
LEMMA EnteredEvents ==
  ASSUME NEW w, NEW S, NEW t, Running(w, S, t), w.next \in DOMAIN w.pending,
         NEW p, p = w.pending[w.next], p.event.kind # "Heartbeat",
         NEW e, e = EnterFrame(Popped(w), p)
  PROVE  /\ Work(e)
         /\ e.error = None => e.frames[p.event.id.fusion].events \in Seq(Event)
<1> DEFINE f == p.event.id.fusion
           old == w.frames[f]
           mid == [old EXCEPT !.id = p.event.id]
           z == [e EXCEPT !.bytes = w.bytes]
<1>1. Work(e) /\ (e.error = None => Taken(w, z, mid))  BY Entered DEF Changes
<1>2. z.frames = e.frames
  <2>1. DOMAIN e = WorkFields  BY <1>1 DEF Work
  <2> QED  BY ONLY <2>1 DEF WorkFields, SelfFields
<1>3. ASSUME e.error = None PROVE e.frames[f].events \in Seq(Event)
  <2>1. f \in DOMAIN w.frames /\ z.frames = [w.frames EXCEPT ![f] = mid]
    <3>1. Taken(w, z, mid)  BY <1>1, <1>3
    <3> HIDE DEF z, mid
    <3> QED  BY <3>1 DEF Taken
  <2>2. FrameGood(w, f, LogWith(w), S)  BY <2>1 DEF Running, Joined
  <2>3. DOMAIN old = FrameFields /\ old.events \in Seq(Event)  BY <2>2 DEF FrameGood
  <2>4. mid.events = old.events  BY <2>3 DEF FrameFields
  <2> HIDE DEF mid, f, z, old
  <2>5. e.frames[f] = mid  BY ONLY <1>2, <2>1
  <2> QED  BY ONLY <2>3, <2>4, <2>5
<1> QED  BY <1>1, <1>3

LEMMA TakenInOrder ==
  ASSUME NEW w, NEW S, NEW t, Running(w, S, t), w.next \in DOMAIN w.pending, InOrder(w),
         NEW p, p = w.pending[w.next], p.event.kind # "Heartbeat",
         NEW v, v = IF p.event.kind = "Summary" THEN CloseFrame(EnterFrame(Popped(w), p), p)
                    ELSE AddEvent(EnterFrame(Popped(w), p), p)
  PROVE  InOrder(v)
<1> DEFINE u == Popped(w)
           e == EnterFrame(u, p)
<1>1. Work(u) /\ u.error = w.error
  <2>1. Work(w)  BY DEF Running
  <2>2. Work(u) /\ \A x \in WorkFields \ {"bytes", "pending", "processed"} : u[x] = w[x]
    BY <2>1, PoppedIs
  <2> HIDE DEF u
  <2> QED  BY <2>2 DEF WorkFields, SelfFields
<1>2. /\ Work(e)
      /\ e.error = None => e.frames[p.event.id.fusion].events \in Seq(Event)
  BY EnteredEvents
<1> HIDE DEF u
<1>3. InOrder(e)  BY <1>1, EntersInOrder DEF InOrder
<1>4. v = IF p.event.kind = "Summary" THEN CloseFrame(e, p) ELSE AddEvent(e, p)  BY DEF u
<1> HIDE DEF e
<1>5. InOrder(CloseFrame(e, p))  BY ONLY <1>2, <1>3, ClosesInOrder
<1>6. InOrder(AddEvent(e, p))  BY ONLY <1>2, <1>3, StagesInOrder
<1> QED  BY ONLY <1>4, <1>5, <1>6

(* A turn of drain_monitor, up to the move to the next sequence.            *)
LEMMA TurnProcessed ==
  ASSUME NEW w, NEW S, NEW t \in Nat, Running(w, S, t), SettledBut(w, {}), Quiet(w), w.error = None,
         w.next \in DOMAIN w.pending,
         NEW v, v = ProcessOrderedMonitor(Popped(w), w.pending[w.next])
  PROVE  /\ Steady(v, S, t) /\ v.next = w.next
         /\ v.error = None => v.pending = [q \in DOMAIN w.pending \ {w.next} |-> w.pending[q]]
         /\ OnClock(w, t) => OnClock(v, t)
<1> DEFINE p == w.pending[w.next]
           f == p.event.id.fusion
           u == Popped(w)
           Fields == {"bytes", "pending", "processed", "frames", "priors", "lastMonitor",
                      "lastSummary"}
<1>e. /\ p \in Entry /\ p.event \in Event /\ p.at \in Nat
      /\ t - p.at < Limits.reorderDeadline
  BY DEF Running, Waiting, Entry, Timely
<1>u. Work(u) /\ \A x \in WorkFields \ {"bytes", "pending", "processed"} : u[x] = w[x]
  BY PoppedIs DEF Running
<1>o. OnClock(w, t) => InOrder(u)  BY <1>u DEF OnClock, InOrder, WorkFields, SelfFields
<1>1. CASE p.event.kind = "Heartbeat"
  <2>1. v = ProcessHeartbeat(u, p)  BY <1>1 DEF ProcessOrderedMonitor
  <2>2. /\ Changes(v, w, {"bytes", "pending", "processed", "beat", "lastBeat", "told"})
        /\ Calm(v.told)
        /\ v.error = None =>
             /\ Running(v, S, t) /\ (\A X : SettledBut(w, X) => SettledBut(v, X))
             /\ Quiet(w) => Quiet(v)
             /\ v.pending = [q \in DOMAIN w.pending \ {w.next} |-> w.pending[q]]
    BY <1>1, <2>1, Beaten
  <2>3. Work(v) /\ v.next = w.next  BY <2>2 DEF Changes, WorkFields, SelfFields
  <2>4. ASSUME OnClock(w, t) PROVE OnClock(v, t)
    <3> HIDE DEF u, p
    <3>1. InOrder(v)  BY <1>1, <1>e, <1>u, <1>o, <2>1, <2>4, BeatsInOrder
    <3>2. v.error = None => v.lastBeat = p.at  BY <1>u, <2>1, ProcessHeartbeatIs
    <3>3. p.at # None  BY <1>e, EnvelopeAssumption
    <3>4. Prompt => t - p.at < Limits.heartbeatDeadline
      <4> DEFINE a == p.at
                 m == Limits.reorderDeadline
                 h == Limits.heartbeatDeadline
      <4>1. a \in Nat /\ m \in Nat /\ h \in Nat /\ t - a < m /\ (Prompt => m <= h)
        BY <1>e, LimitsAssumption DEF Prompt
      <4> HIDE DEF a, m, h
      <4>2. Prompt => t - a < h  BY ONLY <4>1, t \in Nat
      <4> QED  BY <4>2 DEF a, h
    <3> QED  BY <3>1, <3>2, <3>3, <3>4 DEF OnClock, BeatHeard
  <2> QED  BY <2>2, <2>3, <2>4 DEF Steady
<1>2. CASE p.event.kind # "Heartbeat"
  <2> DEFINE x == IF p.event.kind = "Summary" THEN ProcessSummary(u, p) ELSE ProcessFrameEvent(u, p)
  <2>1. v = DrainReadyFrames(RefreshReadiness(x, f))  BY <1>2 DEF ProcessOrderedMonitor
  <2>2. /\ Changes(x, w, Fields)
        /\ x.error = None => \E frame : Taken(w, x, frame) /\ Filled(w, x, S, frame)
    <3>1. CASE p.event.kind = "Summary"
      <4>1. x = ProcessSummary(u, p)  BY <3>1
      <4> HIDE DEF x
      <4> QED  BY <3>1, <4>1, SummaryTaken
    <3>2. CASE p.event.kind # "Summary"
      <4>1. x = ProcessFrameEvent(u, p)  BY <3>2
      <4> HIDE DEF x
      <4>2. /\ Changes(x, w, {"bytes", "pending", "processed", "frames", "priors", "lastMonitor"})
            /\ x.error = None => \E frame : Taken(w, x, frame) /\ Filled(w, x, S, frame)
        BY <1>2, <3>2, <4>1, OutcomeTaken
      <4> QED  BY <4>2 DEF Changes
    <3> QED  BY <3>1, <3>2
  <2>o. OnClock(w, t) => InOrder(x)
    <3>1. x = IF p.event.kind = "Summary" THEN CloseFrame(EnterFrame(u, p), p)
              ELSE AddEvent(EnterFrame(u, p), p)
      BY DEF ProcessSummary, ProcessFrameEvent
    <3> HIDE DEF x
    <3> QED  BY <1>2, <3>1, TakenInOrder DEF OnClock
  <2> HIDE DEF x
  <2>3. /\ Work(x) /\ x.told = w.told /\ x.next = w.next /\ Calm(w.told)
    BY <2>2 DEF Changes, WorkFields, SelfFields, Running, Sequenced
  <2>4. ASSUME x.error = None
        PROVE  /\ f \in DOMAIN x.frames /\ Running(x, S, t) /\ SettledBut(x, {f})
               /\ x.pending = [q \in DOMAIN w.pending \ {w.next} |-> w.pending[q]]
    <3>1. PICK frame : Taken(w, x, frame) /\ Filled(w, x, S, frame)  BY <2>2, <2>4
    <3>2. Running(x, S, t) /\ SettledBut(x, {f})  BY <1>2, <3>1, TakenKeeps
    <3>3. f \in DOMAIN x.frames  BY <3>1 DEF Taken
    <3>4. x.pending = [q \in DOMAIN w.pending \ {w.next} |-> w.pending[q]]  BY <3>1 DEF Taken
    <3> QED  BY <3>2, <3>3, <3>4
  <2> HIDE DEF f, p
  <2>5. /\ Changes(v, x, {"frames", "bytes", "lastFinalized", "ready"})
        /\ Steady(v, S, t) /\ (InOrder(x) => InOrder(v))
    BY <2>1, <2>3, <2>4, ReadyThenDrained
  <2>6. v.next = x.next /\ v.pending = x.pending /\ (v.error = None => x.error = None)
    BY <2>5 DEF Changes, WorkFields, SelfFields
  <2>7. OnClock(w, t) => OnClock(v, t)
    <3> DEFINE All == Fields \cup {"lastFinalized", "ready"}
    <3>1. Changes(v, w, All)  BY <2>2, <2>5 DEF Changes
    <3>2. "lastBeat" \notin All  OBVIOUS
    <3> HIDE DEF All
    <3> QED  BY <2>o, <2>5, <3>1, <3>2, HeardStays
  <2> QED  BY <2>3, <2>4, <2>5, <2>6, <2>7
<1> QED  BY <1>1, <1>2

(* A turn of drain_monitor.                                                 *)
LEMMA Turn ==
  ASSUME NEW w, NEW S, NEW t \in Nat, Steady(w, S, t),
         NEW v, v = ProcessNext(w)
  PROVE  /\ Steady(v, S, t) /\ (v.error = None => w.error = None)
         /\ v.error = None /\ v # w =>
              /\ w.next \in DOMAIN w.pending
              /\ Cardinality(DOMAIN v.pending) = Cardinality(DOMAIN w.pending) - 1
         /\ v = w => w.error # None \/ w.next \notin DOMAIN w.pending
         /\ OnClock(w, t) => OnClock(v, t)
<1>1. CASE w.error # None
  <2>1. v = w  BY <1>1 DEF ProcessNext
  <2> QED  BY <1>1, <2>1
<1>2. CASE w.error = None /\ w.next \notin DOMAIN w.pending
  <2>1. v = w  BY <1>2 DEF ProcessNext
  <2> QED  BY <1>2, <2>1
<1>3. CASE w.error = None /\ w.next \in DOMAIN w.pending
  <2> DEFINE q == w.next
             D == DOMAIN w.pending
             x == ProcessOrderedMonitor(Popped(w), w.pending[w.next])
  <2>0. Running(w, S, t) /\ SettledBut(w, {}) /\ Quiet(w)  BY <1>3 DEF Steady
  <2>1. v = MoveOn(x, q)  BY <1>3 DEF ProcessNext, Popped
  <2>2. /\ Steady(x, S, t) /\ x.next = q
        /\ x.error = None => x.pending = [r \in D \ {q} |-> w.pending[r]]
        /\ OnClock(w, t) => OnClock(x, t)
    BY <1>3, <2>0, TurnProcessed
  <2> HIDE DEF x
  <2>3. /\ Changes(v, x, {"next"}) /\ (v.error = None => v.next = q + 1)
    <3>1. Work(x)  BY <2>2 DEF Steady
    <3> HIDE DEF q
    <3> QED  BY <2>1, <3>1, MoveOnIs
  <2>4. /\ Work(v) /\ v.told = x.told /\ SameFrames(v, x) /\ v.pending = x.pending
        /\ v.bytes = x.bytes /\ v.processed = x.processed /\ v.ready = x.ready
        /\ v.lastBeat = x.lastBeat
    BY <2>3 DEF Changes, WorkFields, SelfFields, SameFrames
  <2>5. Calm(v.told)  BY <2>2, <2>4 DEF Steady
  <2>6. ASSUME v.error = None
        PROVE  /\ Running(v, S, t) /\ SettledBut(v, {}) /\ Quiet(v)
               /\ Cardinality(DOMAIN v.pending) = Cardinality(D) - 1 /\ v # w
    <3>1. x.error = None  BY <2>3, <2>6 DEF Changes
    <3>2. Running(x, S, t) /\ SettledBut(x, {}) /\ Quiet(x)  BY <2>2, <3>1 DEF Steady
    <3>3. DOMAIN x.pending = D \ {q}  BY <2>2, <3>1
    <3>4. /\ q \in Nat /\ D \subseteq Nat /\ IsFiniteSet(D)
          /\ \A r \in D : r >= q /\ r - q <= Limits.reorderDistance
      BY <2>0 DEF Running, Waiting
    <3>5. Limits.reorderDistance \in Nat  BY LimitsAssumption
    <3>6. v.next = q + 1  BY <2>3, <2>6
    <3> HIDE DEF q, D
    <3>7. v.next \in Nat  BY <3>4, <3>6
    <3>8. \A r \in DOMAIN x.pending : r >= v.next /\ r - v.next <= Limits.reorderDistance
      <4> DEFINE m == Limits.reorderDistance
                 z == v.next
      <4> SUFFICES ASSUME NEW r \in DOMAIN x.pending PROVE r >= z /\ r - z <= m  OBVIOUS
      <4>1. r \in Nat /\ r >= q /\ r - q <= m /\ r # q  BY <3>3, <3>4
      <4>2. z = q + 1 /\ m \in Nat /\ q \in Nat  BY <3>4, <3>5, <3>6
      <4> HIDE DEF m, z
      <4> QED  BY ONLY <4>1, <4>2
    <3>9. v.lastBeat \in Option  BY <2>4, <3>2 DEF Running, Sequenced
    <3>10. Running(v, S, t) /\ SettledBut(v, {}) /\ Quiet(v)
      BY ONLY <2>4, <2>5, <3>2, <3>7, <3>8, <3>9, RunningSame
    <3>11. q \in D  BY <1>3 DEF q, D
    <3>12. Cardinality(DOMAIN v.pending) = Cardinality(D) - 1
      BY <2>4, <3>3, <3>4, <3>11, FS_RemoveElement
    <3>13. v.next # w.next
      <4>1. w.next = q  BY DEF q
      <4> QED  BY <3>4, <3>6, <4>1
    <3> QED  BY <3>10, <3>12, <3>13
  <2>7. v = w => v.error = None  BY <1>3
  <2>8. OnClock(x, t) => OnClock(v, t)
    <3>1. InOrder(x) => InOrder(v)  BY <2>1, <2>2, StagesInOrder DEF Steady
    <3>2. "lastBeat" \notin {"next"}  OBVIOUS
    <3> QED  BY <2>3, <3>1, <3>2, HeardStays DEF OnClock
  <2> QED  BY <1>3, <2>2, <2>4, <2>5, <2>6, <2>7, <2>8 DEF Steady
<1> QED  BY <1>1, <1>2, <1>3
TurnOfMonitor(w, n, c) == ProcessNext(w)
MonitorLoop == INSTANCE FoldFacts WITH Step <- TurnOfMonitor

(* The clock of a gap runs from the oldest event that waits behind it, and  *)
(* no event whose turn has come waits.                                      *)
Gapped(r) ==
  /\ r.gapAt = Least({r.pending[q].at : q \in DOMAIN r.pending})
  /\ r.next \notin DOMAIN r.pending

(* drain_monitor processes every event whose turn comes.                    *)
LEMMA TurnsTaken ==
  ASSUME NEW w, NEW S, NEW t \in Nat, Steady(w, S, t), w.error = None
  PROVE  \E z : /\ Steady(z, S, t) /\ (z.error = None => z.next \notin DOMAIN z.pending)
                /\ DrainMonitor(w) = RefreshGap(z)
                /\ OnClock(w, t) => OnClock(z, t)
<1> DEFINE turns == Cardinality(DOMAIN w.pending)
           a == MonitorLoop!Loop(w, turns, None)
           Left(r) == Cardinality(DOMAIN r.pending)
           Passed(r) == r.next \notin DOMAIN r.pending
           Good(n) == /\ Steady(a[n], S, t) /\ (OnClock(w, t) => OnClock(a[n], t))
                      /\ a[n].error = None => Passed(a[n]) \/ Left(a[n]) + n <= turns
           Goods == {n \in Nat : n <= turns => Good(n)}
<1>0. Running(w, S, t)  BY DEF Steady
<1>1. turns \in Nat  BY <1>0, FS_CardinalityType DEF Running, Waiting
<1>2. DrainMonitor(w) = RefreshGap(a[turns])
  BY DEF DrainMonitor, MonitorLoop!Loop, TurnOfMonitor
<1>3. a[0] = w /\ \A n \in 1..turns : a[n] = ProcessNext(a[n - 1])
  BY <1>1, MonitorLoop!LoopIs DEF TurnOfMonitor
<1> HIDE DEF a, turns
<1>4. 0 \in Goods
  <2>1. Left(w) + 0 <= turns  BY <1>1 DEF turns
  <2> QED  BY <1>3, <2>1
<1>5. ASSUME NEW n \in Nat, n \in Goods PROVE n + 1 \in Goods
  <2> SUFFICES ASSUME n + 1 <= turns PROVE Good(n + 1)  OBVIOUS
  <2> DEFINE x == a[n]
             y == a[n + 1]
  <2>1. y = ProcessNext(x)
    <3>1. n + 1 \in 1..turns /\ (n + 1) - 1 = n  BY <1>1
    <3> QED  BY <1>3, <3>1
  <2>2. Good(n)  BY <1>1, <1>5
  <2>3. /\ Steady(x, S, t) /\ (x.error = None => Passed(x) \/ Left(x) + n <= turns)
        /\ OnClock(w, t) => OnClock(x, t)
    BY <2>2
  <2> HIDE DEF x, y
  <2>4. /\ Steady(y, S, t) /\ (y.error = None => x.error = None)
        /\ y.error = None /\ y # x => ~Passed(x) /\ Left(y) = Left(x) - 1
        /\ y = x => x.error # None \/ Passed(x)
        /\ OnClock(x, t) => OnClock(y, t)
    BY ONLY <2>1, <2>3, t \in Nat, Turn
  <2>5. y.error = None => Passed(y) \/ Left(y) + (n + 1) <= turns
    <3> SUFFICES ASSUME y.error = None PROVE Passed(y) \/ Left(y) + (n + 1) <= turns
      OBVIOUS
    <3>1. CASE y = x  BY <2>4, <3>1
    <3>2. CASE y # x
      <4>1. Left(x) \in Nat  BY <2>3, <2>4, FS_CardinalityType DEF Steady, Running, Waiting
      <4> QED  BY <1>1, <2>3, <2>4, <3>2, <4>1
    <3> QED  BY <3>1, <3>2
  <2> QED  BY <2>3, <2>4, <2>5 DEF x, y
<1> HIDE DEF Goods
<1>6. \A n \in Nat : n \in Goods  BY <1>4, <1>5, MonitorLoop!Induction
<1>7. Good(turns)  BY <1>1, <1>6 DEF Goods
<1> DEFINE z == a[turns]
<1>8. /\ Steady(z, S, t) /\ (z.error = None => Passed(z) \/ Left(z) + turns <= turns)
      /\ OnClock(w, t) => OnClock(z, t)
  BY <1>7
<1> HIDE DEF z
<1>9. z.error = None => z.next \notin DOMAIN z.pending
  <2> SUFFICES ASSUME z.error = None, Left(z) + turns <= turns PROVE Passed(z)  BY <1>8
  <2>1. Left(z) \in Nat /\ IsFiniteSet(DOMAIN z.pending)
    BY <1>8, FS_CardinalityType DEF Steady, Running, Waiting
  <2>2. Left(z) = 0  BY <1>1, <2>1
  <2>3. DOMAIN z.pending = {}  BY <2>1, <2>2, FS_EmptySet
  <2> QED  BY <2>3
<1>10. DrainMonitor(w) = RefreshGap(z)  BY <1>2 DEF z
<1> QED  BY <1>8, <1>9, <1>10

LEMMA DrainMonitorIs ==
  ASSUME NEW w, NEW S, NEW t \in Nat, Steady(w, S, t), w.error = None,
         NEW v, v = DrainMonitor(w)
  PROVE  /\ Steady(v, S, t) /\ (v.error = None => Gapped(v))
         /\ OnClock(w, t) => OnClock(v, t)
<1>1. PICK z : /\ Steady(z, S, t) /\ (z.error = None => z.next \notin DOMAIN z.pending)
               /\ v = RefreshGap(z) /\ (OnClock(w, t) => OnClock(z, t))
  BY TurnsTaken
<1>2. CASE z.error # None
  <2>1. v = z  BY <1>1, <1>2 DEF RefreshGap
  <2> QED  BY <1>1, <1>2, <2>1
<1>3. CASE z.error = None
  <2> DEFINE g == Least({z.pending[q].at : q \in DOMAIN z.pending})
  <2>1. v = [z EXCEPT !.gapAt = g]  BY <1>1, <1>3 DEF RefreshGap
  <2>2. Work(z) /\ Running(z, S, t) /\ SettledBut(z, {}) /\ Quiet(z)  BY <1>1, <1>3 DEF Steady
  <2> HIDE DEF g
  <2>3. v.gapAt = g /\ Work(v) /\ \A x \in WorkFields \ {"gapAt"} : v[x] = z[x]
    BY <2>1, <2>2 DEF Work, WorkFields, SelfFields
  <2>4. /\ SameFrames(v, z) /\ v.pending = z.pending /\ v.bytes = z.bytes
        /\ v.processed = z.processed /\ v.ready = z.ready /\ v.next = z.next
        /\ v.told = z.told /\ v.lastBeat = z.lastBeat /\ v.error = z.error
    BY <2>3 DEF WorkFields, SelfFields, SameFrames
  <2>5. /\ z.next \in Nat /\ Calm(z.told) /\ z.lastBeat \in Option
        /\ \A q \in DOMAIN z.pending : q >= z.next /\ q - z.next <= Limits.reorderDistance
    BY <2>2 DEF Running, Waiting, Sequenced
  <2>6. Running(v, S, t) /\ SettledBut(v, {}) /\ Quiet(v)
    BY <2>2, <2>3, <2>4, <2>5, RunningSame
  <2>7. Gapped(v)  BY <1>1, <1>3, <2>3, <2>4 DEF Gapped, g
  <2>8. OnClock(z, t) => OnClock(v, t)  BY <2>4 DEF OnClock, InOrder, BeatHeard
  <2> QED  BY <1>1, <2>3, <2>4, <2>5, <2>6, <2>7, <2>8 DEF Steady
<1> QED  BY <1>2, <1>3
-----------------------------------------------------------------------------
(* The routes in: a frame is opened, room is made, evidence is stored.      *)

LEMMA Opens ==
  ASSUME NEW w, NEW S, NEW t \in Nat, Steady(w, S, t), w.error = None, NEW f \in Nat,
         NEW v, v = EnsureFrame(w, f, t)
  PROVE  /\ Steady(v, S, t) /\ Changes(v, w, {"frames"})
         /\ v.error = None => f \in DOMAIN v.frames
<1>1. Work(w) /\ Running(w, S, t) /\ SettledBut(w, {}) /\ Quiet(w) /\ Calm(w.told)
  BY DEF Steady
<1>2. /\ Changes(v, w, {"frames"})
      /\ v.error = None =>
           IF f \in DOMAIN w.frames THEN v.frames = w.frames
           ELSE /\ v.frames = Put(w.frames, f, NewFrame(t))
                /\ ~(Cardinality(DOMAIN w.frames) >= Limits.openFrames)
  BY <1>1, EnsureFrameIs
<1>3. /\ v.next = w.next /\ v.pending = w.pending /\ v.bytes = w.bytes /\ v.priors = w.priors
      /\ v.high = w.high /\ v.lastMonitor = w.lastMonitor /\ v.lastSummary = w.lastSummary
      /\ v.lastFinalized = w.lastFinalized /\ v.lastBeat = w.lastBeat /\ v.told = w.told
      /\ v.processed = w.processed
      /\ Sequenced(w) => Sequenced(v) /\ OutWith(v) = OutWith(w) /\ LogWith(v) = LogWith(w)
  BY <1>2, OnlyFrames
<1>4. Work(v) /\ Calm(v.told)  BY <1>1, <1>2, <1>3 DEF Changes
<1>5. CASE v.error = None /\ f \in DOMAIN w.frames
  <2>1. SameFrames(v, w) /\ v.ready = w.ready
    BY <1>2, <1>3, <1>5, OnlyFrames DEF SameFrames
  <2>2. /\ w.next \in Nat /\ w.lastBeat \in Option
        /\ \A q \in DOMAIN w.pending : q >= w.next /\ q - w.next <= Limits.reorderDistance
    BY <1>1 DEF Running, Waiting, Sequenced
  <2>3. Running(v, S, t) /\ SettledBut(v, {}) /\ Quiet(v)
    BY <1>1, <1>3, <1>4, <2>1, <2>2, RunningSame
  <2> QED  BY <1>2, <1>4, <1>5, <2>1, <2>3 DEF Steady, SameFrames
<1>6. CASE v.error = None /\ f \notin DOMAIN w.frames
  <2> DEFINE new == NewFrame(t)
             L == LogWith(w)
             O == OutWith(w)
  <2>1. /\ Sequenced(w) /\ Ordered(w) /\ Waiting(w) /\ Foreseen(w) /\ Tables(w)
        /\ Budget(w) /\ Timely(w, t) /\ Joined(w, O, L, S)
    BY <1>1 DEF Running
  <2>2. /\ v.frames = Put(w.frames, f, new)
        /\ ~(Cardinality(DOMAIN w.frames) >= Limits.openFrames)
    BY <1>2, <1>6
  <2>3. /\ DOMAIN new = FrameFields /\ new.seenAt = t /\ new.id = None /\ new.events = <<>>
        /\ new.observations = <<>> /\ new.summary = None /\ new.bytes = 0 /\ new.ready = FALSE
    BY DEF NewFrame, FrameFields
  <2> HIDE DEF new, L, O
  <2>4. /\ DOMAIN v.frames = DOMAIN w.frames \cup {f} /\ v.frames[f] = new
        /\ \A g \in DOMAIN w.frames : g # f /\ v.frames[g] = w.frames[g]
    <3> DEFINE F == w.frames
    <3>1. f \notin DOMAIN F /\ v.frames = Put(F, f, new)  BY <1>6, <2>2
    <3> HIDE DEF F
    <3>2. DOMAIN Put(F, f, new) = DOMAIN F \cup {f} /\ Put(F, f, new)[f] = new
      BY DEF Put
    <3>3. \A g \in DOMAIN F \ {f} : Put(F, f, new)[g] = F[g]  BY ONLY PutIs
    <3>4. DOMAIN v.frames = DOMAIN F \cup {f} /\ v.frames[f] = new
      BY ONLY <3>1, <3>2
    <3>5. \A g \in DOMAIN F : g # f /\ v.frames[g] = F[g]  BY ONLY <3>1, <3>3
    <3> QED  BY <3>4, <3>5 DEF F
  <2>5. ~IsReady(new)  BY <2>3 DEF IsReady
  <2>6. Ordered(v) /\ Waiting(v)  BY <1>3, <2>1 DEF Ordered, Waiting
  <2>7. Foreseen(v)  BY ONLY <1>3, <2>1, <2>4 DEF Foreseen, Final
  <2>8. Tables(v)
    <3>1. Limits.openFrames \in Nat  BY LimitsAssumption
    <3>2. IsFiniteSet(DOMAIN v.frames) /\ Cardinality(DOMAIN v.frames) <= Limits.openFrames
      <4>1. IsFiniteSet(DOMAIN w.frames) /\ Cardinality(DOMAIN w.frames) <= Limits.openFrames
        BY <2>1 DEF Tables
      <4> QED  BY ONLY <2>2, <3>1, <4>1, PutSize
    <3> QED  BY ONLY <1>3, <2>1, <2>3, <2>4, <3>2, f \in Nat, t \in Nat DEF Tables
  <2>9. Budget(v)
    <3>1. Weighed(w.frames)  BY <2>1 DEF Weighed, Tables
    <3>2. Total(w.frames) \in Nat  BY <3>1, TotalTakes
    <3>3. new.bytes \in Nat  BY <2>3
    <3>4. Total(v.frames) = new.bytes + Total(w.frames)  BY <1>6, <2>2, <3>1, <3>3, TotalPut
    <3>5. Total(v.frames) = Total(w.frames)  BY <2>3, <3>2, <3>4
    <3> QED  BY <1>3, <2>1, <3>5 DEF Budget
  <2>10. Timely(v, t)
    <3>1. Limits.frameDeadline \in Nat \ {0}  BY LimitsAssumption
    <3>2. t - new.seenAt < Limits.frameDeadline  BY <2>3, <3>1
    <3> QED  BY ONLY <1>3, <2>1, <2>4, <3>2 DEF Timely
  <2>11. Beside(w, v, f, L, L, S, S)
    <3>1. Extends(w.priors, v.priors)  BY <1>3 DEF Extends
    <3>2. \A x \in DOMAIN w.high : x \in DOMAIN v.high /\ v.high[x] \in Nat /\ w.high[x] <= v.high[x]
      BY <1>3, <2>1 DEF Tables
    <3>3. w.lastSummary # None => v.lastSummary # None /\ w.lastSummary <= v.lastSummary
      BY <1>3, <2>1 DEF Ordered, Option
    <3> QED  BY ONLY <1>3, <2>4, <3>1, <3>2, <3>3 DEF Beside, SameFolds
  <2>12. FrameGood(v, f, L, S)
    <3>1. IsFiniteSet(DOMAIN new.observations) /\ DOMAIN new.observations = {}
      BY <2>3, FS_EmptySet
    <3>2. ~Final(v, f) => Untouched(L, S, f)
      BY <1>3, <1>6, <2>1 DEF Joined, Final
    <3>3. Untouched(L, S, f) => Gathered(v, f, L, S)
      <4>1. {new.observations[p] : p \in DOMAIN new.observations} = {}  BY <3>1
      <4>2. DOMAIN new.events = {}  BY <2>3
      <4> QED  BY <2>3, <2>4, <3>1, <4>1, <4>2 DEF Untouched, Gathered
    <3>4. new.events \in Seq(Event)  BY <2>3
    <3> QED  BY ONLY <2>3, <2>4, <3>1, <3>2, <3>3, <3>4 DEF FrameGood
  <2>13. Joined(v, O, L, S)
    <3>1. /\ \A g \in DOMAIN v.frames \ {f} : FrameGood(v, g, L, S)
          /\ \A g \in Nat \ (DOMAIN v.frames \cup {f}) : ~Final(v, g) => Untouched(L, S, g)
          /\ Done(v, O, L, S)
          /\ SummedUp(v, O, L)
      BY ONLY <2>1, <2>6, <2>11, BesideOthers
    <3> QED  BY ONLY <2>4, <2>12, <3>1 DEF Joined
  <2>14. Running(v, S, t)
    BY <1>3, <1>4, <2>1, <2>6, <2>7, <2>8, <2>9, <2>10, <2>13 DEF Running, L, O
  <2>15. SettledBut(v, {})
    <3>1. new.ready = IsReady(new)  BY <2>3, <2>5 DEF IsReady
    <3> QED  BY <1>1, <2>4, <3>1 DEF SettledBut
  <2>16. Quiet(v)
    <3>1. OldestOpen(v) \in DOMAIN v.frames /\ \A g \in DOMAIN v.frames : OldestOpen(v) <= g
      BY <2>4, <2>8, OldestIs
    <3>2. CASE OldestOpen(v) = f  BY <2>3, <2>4, <3>2 DEF Quiet
    <3>3. CASE OldestOpen(v) # f
      <4>1. OldestOpen(v) \in DOMAIN w.frames /\ \A g \in DOMAIN w.frames : OldestOpen(v) <= g
        BY <2>4, <3>1, <3>3
      <4>2. OldestOpen(w) \in DOMAIN w.frames /\ \A g \in DOMAIN w.frames : OldestOpen(w) <= g
        BY <2>1, <4>1, OldestIs
      <4>3. OldestOpen(v) = OldestOpen(w)  BY <2>1, <4>1, <4>2 DEF Tables
      <4>4. OldestOpen(w) # None  BY <2>1, <4>1, OldestIs
      <4> QED  BY <1>1, <2>4, <4>1, <4>3, <4>4 DEF Quiet
    <3> QED  BY <3>2, <3>3
  <2> QED  BY <1>2, <1>4, <1>6, <2>4, <2>14, <2>15, <2>16 DEF Steady
<1>7. CASE v.error # None  BY <1>2, <1>4, <1>7 DEF Steady
<1> QED  BY <1>5, <1>6, <1>7
(* An event that may wait: it is in reach, new, and its frame is open.      *)
MayWait(w, q, p, t) ==
  /\ q \in Nat /\ p \in Entry /\ p.at = t
  /\ q >= w.next /\ q - w.next <= Limits.reorderDistance /\ q \notin DOMAIN w.pending
  /\ ~(Cardinality(DOMAIN w.pending) >= Limits.reorderEvents)
  /\ p.event.kind # "Heartbeat" => p.event.id.fusion \in DOMAIN w.frames

Queued(x, q, p) == [x EXCEPT !.pending = Put(@, q, p)]

(* Room is reserved and the event takes its place among those that wait.    *)
LEMMA Buffers ==
  ASSUME NEW w, NEW S, NEW t \in Nat, Steady(w, S, t), w.error = None,
         NEW q, NEW p, MayWait(w, q, p, t),
         NEW from, NEW x, x = ReserveBytes(w, p.bytes, from), x.error = None,
         NEW v, v = Queued(x, q, p)
  PROVE  Steady(v, S, t) /\ v.error = None
<1>0. /\ q \in Nat /\ p \in Entry /\ p.at = t
      /\ q >= w.next /\ q - w.next <= Limits.reorderDistance /\ q \notin DOMAIN w.pending
      /\ ~(Cardinality(DOMAIN w.pending) >= Limits.reorderEvents)
      /\ p.event.kind # "Heartbeat" => p.event.id.fusion \in DOMAIN w.frames
  BY DEF MayWait
<1>1. /\ Work(w) /\ Sequenced(w) /\ Ordered(w) /\ Waiting(w) /\ Foreseen(w) /\ Tables(w)
      /\ Budget(w) /\ Timely(w, t) /\ Joined(w, OutWith(w), LogWith(w), S)
      /\ SettledBut(w, {}) /\ Quiet(w)
  BY DEF Steady, Running
<1>2. /\ Changes(x, w, {"bytes"}) /\ x.bytes = w.bytes + p.bytes
      /\ ~(w.bytes + p.bytes > Limits.bytes)
  BY <1>1, ReserveBytesIs
<1>3. /\ Work(v) /\ v.error = None /\ v.bytes = w.bytes + p.bytes
      /\ v.pending = Put(w.pending, q, p)
      /\ \A y \in WorkFields \ {"bytes", "pending", "error", "from"} : v[y] = w[y]
  BY <1>2 DEF Changes, Work, WorkFields, SelfFields, Queued
<1>4. /\ SameFrames(v, w) /\ v.next = w.next /\ v.processed = w.processed
      /\ v.ready = w.ready /\ v.told = w.told /\ v.lastBeat = w.lastBeat
  BY <1>3 DEF WorkFields, SelfFields, SameFrames
<1>5. Sequenced(v) /\ OutWith(v) = OutWith(w) /\ LogWith(v) = LogWith(w)
  <2>1. Sequenced(v)  BY <1>1, <1>4 DEF Sequenced
  <2>2. OutWith(v) = OutWith(w) /\ LogWith(v) = LogWith(w)  BY ONLY <1>4 DEF OutWith, LogWith
  <2> QED  BY <2>1, <2>2
<1>6. /\ DOMAIN v.pending = DOMAIN w.pending \cup {q} /\ v.pending[q] = p
      /\ \A y \in DOMAIN w.pending : v.pending[y] = w.pending[y]
  <2> DEFINE F == w.pending
  <2>1. q \notin DOMAIN F /\ v.pending = Put(F, q, p)  BY <1>0, <1>3
  <2> HIDE DEF F
  <2>2. DOMAIN Put(F, q, p) = DOMAIN F \cup {q} /\ Put(F, q, p)[q] = p  BY DEF Put
  <2>3. \A y \in DOMAIN F \ {q} : Put(F, q, p)[y] = F[y]  BY ONLY PutIs
  <2>4. DOMAIN v.pending = DOMAIN F \cup {q} /\ v.pending[q] = p  BY ONLY <2>1, <2>2
  <2>5. \A y \in DOMAIN F : v.pending[y] = F[y]  BY ONLY <2>1, <2>3
  <2> QED  BY <2>4, <2>5 DEF F
<1>7. Joined(v, OutWith(v), LogWith(v), S)
  <2> DEFINE L == LogWith(w)
  <2>1. \A g : SameFolds(L, L, g)  BY DEF SameFolds
  <2> HIDE DEF L
  <2>2. LogWith(v) = L /\ Joined(w, OutWith(w), L, S)  BY <1>1, <1>5 DEF L
  <2> QED  BY <1>4, <1>5, <2>1, <2>2, JoinedSame
<1>8. Ordered(v) /\ Tables(v)  BY <1>1, <1>4 DEF Ordered, Tables, SameFrames
<1>9. Waiting(v)
  <2>1. Limits.reorderEvents \in Nat  BY LimitsAssumption
  <2>2. IsFiniteSet(DOMAIN v.pending) /\ Cardinality(DOMAIN v.pending) <= Limits.reorderEvents
    <3>1. IsFiniteSet(DOMAIN w.pending) /\ Cardinality(DOMAIN w.pending) <= Limits.reorderEvents
      BY <1>1 DEF Waiting
    <3> QED  BY <1>0, <1>3, <2>1, <3>1, PutSize
  <2> QED  BY ONLY <1>0, <1>1, <1>4, <1>6, <2>2 DEF Waiting
<1>10. Foreseen(v)
  BY ONLY <1>0, <1>1, <1>4, <1>6 DEF Foreseen, Final, SameFrames
<1>11. Budget(v)
  <2>1. Weighed(w.pending) /\ Weighed(w.frames) /\ p.bytes \in Nat
    BY <1>0, <1>1 DEF Weighed, Waiting, Tables, Entry
  <2>2. Total(w.pending) \in Nat /\ Total(w.frames) \in Nat  BY <2>1, TotalTakes
  <2>3. Total(v.pending) = p.bytes + Total(w.pending)  BY <1>0, <1>3, <2>1, TotalPut
  <2>4. w.bytes = Total(w.pending) + Total(w.frames)  BY <1>1 DEF Budget
  <2>5. Limits.bytes \in Nat /\ v.frames = w.frames  BY <1>4, LimitsAssumption DEF SameFrames
  <2> QED  BY ONLY <1>2, <1>3, <2>1, <2>2, <2>3, <2>4, <2>5 DEF Budget
<1>12. Timely(v, t)
  <2>1. Limits.reorderDeadline \in Nat \ {0}  BY LimitsAssumption
  <2>2. t - p.at < Limits.reorderDeadline  BY <1>0, <2>1
  <2> QED  BY ONLY <1>1, <1>4, <1>6, <2>2 DEF Timely, SameFrames
<1>13. SettledBut(v, {}) /\ Quiet(v)
  BY <1>1, <1>4 DEF SettledBut, Quiet, OldestOpen, SameFrames
<1>14. Calm(v.told)  BY <1>1, <1>4 DEF Sequenced
<1> QED
  BY <1>3, <1>5, <1>7, <1>8, <1>9, <1>10, <1>11, <1>12, <1>13, <1>14 DEF Steady, Running

(* A call notes a contract mismatch first.                                  *)
LEMMA Noted ==
  ASSUME NEW w, NEW S, NEW t, Steady(w, S, t), w.error = None, NEW env,
         NEW v, v = ContractMismatch(w, env)
  PROVE  Steady(v, S, t) /\ Changes(v, w, {"told"}) /\ v.error = None
<1>1. Work(w) /\ Running(w, S, t) /\ SettledBut(w, {}) /\ Quiet(w) /\ Calm(w.told)
  BY DEF Steady
<1>2. /\ Changes(v, w, {"told"})
      /\ v.told = w.told \/ v.told = Append(w.told, [kind |-> "ContractHashMismatch"])
  BY <1>1, ContractMismatchIs
<1>3. Calm(v.told)
  <2>1. [kind |-> "ContractHashMismatch"].kind # "FrameReady"  OBVIOUS
  <2> QED  BY <1>1, <1>2, <2>1, CalmAppend
<1>4. v.error = None
  BY <1>1 DEF ContractMismatch, Work, WorkFields, SelfFields
<1>5. /\ SameFrames(v, w) /\ v.pending = w.pending /\ v.bytes = w.bytes
      /\ v.processed = w.processed /\ v.ready = w.ready /\ v.next = w.next
      /\ v.lastBeat = w.lastBeat /\ Work(v)
  BY <1>2 DEF Changes, WorkFields, SelfFields, SameFrames
<1>6. /\ w.next \in Nat /\ w.lastBeat \in Option
      /\ \A q \in DOMAIN w.pending : q >= w.next /\ q - w.next <= Limits.reorderDistance
  BY <1>1 DEF Running, Waiting, Sequenced
<1>7. Running(v, S, t) /\ SettledBut(v, {}) /\ Quiet(v)
  BY <1>1, <1>3, <1>5, <1>6, RunningSame
<1> QED  BY <1>2, <1>3, <1>4, <1>5, <1>7 DEF Steady

LEMMA RefusedSteady ==
  ASSUME NEW w, NEW S, NEW t, Steady(w, S, t), NEW kind, kind # None, NEW from
  PROVE  Steady(Refuse(w, kind, from), S, t) /\ Refuse(w, kind, from).error # None
BY Refused DEF Steady

(* A monitor envelope taken.                                                *)
LEMMA MonitorTaken ==
  ASSUME NEW w, NEW S, NEW t \in Nat, Steady(w, S, t), w.error = None,
         NEW env \in MonitorEnvelopes, NEW v, v = TakeMonitor(w, env, t)
  PROVE  /\ Steady(v, S, t) /\ (v.error = None => Gapped(v))
         /\ OnClock(w, t) => OnClock(v, t)
<1> DEFINE f == EventFusionSeq(env.event)
           error == MonitorError(w, env)
           h == ContractMismatch(w, env)
           o == IF f = None THEN h ELSE EnsureFrame(h, f, t)
           x == ReserveBytes(o, env.bytes, f)
           p == [event |-> env.event, bytes |-> env.bytes, at |-> t]
           b == Queued(x, env.seq, p)
<1>k. /\ error # None => error # "MonotonicClockRegressed"
      /\ error # None => \A u, from : Work(u) => OnClock(Refuse(u, error, from), t)
  <2>1. error # "MonotonicClockRegressed"  BY VerdictAssumption, NoneInOrder DEF MonitorError
  <2> HIDE DEF error
  <2> QED  BY <2>1, RefusedInOrder, Refused DEF OnClock
<1>1. CASE env.defect # None
  <2>1. v = Refuse(w, error, DefectFrom(env, f))  BY <1>1 DEF TakeMonitor
  <2>2. error # None
    <3>1. /\ "DuplicateOrRegressedMonitorSequence" # None
          /\ "MonitorReorderDistanceExceeded" # None /\ "MonitorReorder" # None
      BY FaultNames DEF AssemblyFaults
    <3> QED  BY <1>1, <3>1 DEF MonitorError
  <2> HIDE DEF error, f
  <2> QED  BY <1>k, <2>1, <2>2, RefusedSteady DEF Steady
<1>2. Steady(h, S, t) /\ Changes(h, w, {"told"}) /\ h.error = None  BY Noted
<1>o. OnClock(w, t) => OnClock(h, t)
  <2>1. "lastBeat" \notin {"told"} /\ InOrder(h)  BY <1>2, NoneInOrder DEF InOrder
  <2> HIDE DEF h
  <2> QED  BY <1>2, <2>1, HeardStays
<1>3. CASE env.defect = None /\ error # None
  <2>1. v = Refuse(h, error, f)  BY <1>3 DEF TakeMonitor
  <2> HIDE DEF error, f, h
  <2> QED  BY <1>2, <1>3, <1>k, <2>1, RefusedSteady DEF Steady
<1>4. CASE env.defect = None /\ error = None
  <2>1. v = IF x.error # None THEN x ELSE DrainMonitor(b)
    BY <1>4 DEF TakeMonitor, MakeRoom, Buffer, Queued
  <2>2. /\ ~(env.seq < w.next) /\ env.seq \notin DOMAIN w.pending
        /\ ~(env.seq - w.next > Limits.reorderDistance)
        /\ ~(Cardinality(DOMAIN w.pending) >= Limits.reorderEvents)
    <3>1. /\ "DuplicateOrRegressedMonitorSequence" # None
          /\ "MonitorReorderDistanceExceeded" # None /\ "MonitorReorder" # None
      BY FaultNames DEF AssemblyFaults
    <3> QED  BY <1>4, <3>1 DEF MonitorError
  <2>3. /\ env.seq \in Nat /\ env.bytes \in Nat /\ env.event \in Event
        /\ env.event.kind # "Heartbeat" =>
             f # None /\ f \in Nat /\ f = env.event.id.fusion
        /\ env.event.kind = "Heartbeat" => f = None
    <3>1. env.event \in Event  BY DEF Event
    <3>2. env.event.kind # "Heartbeat" => env.event.id.fusion \in Nat  BY <3>1, EventFacts
    <3> QED  BY <3>1, <3>2, EnvelopeAssumption DEF EventFusionSeq
  <2>4. p \in Entry /\ p.at = t /\ p.event = env.event /\ p.bytes = env.bytes
    BY <2>3 DEF Entry
  <2> HIDE DEF f, error, p, h
  <2>5. /\ Steady(o, S, t) /\ Work(o) /\ o.next = h.next /\ o.pending = h.pending
        /\ o.error = None /\ f # None => f \in DOMAIN o.frames
    <3>1. CASE f = None  BY <1>2, <3>1 DEF Steady
    <3>2. CASE f # None
      <4>1. o = EnsureFrame(h, f, t)  BY <3>2
      <4> HIDE DEF o
      <4>2. f \in Nat  BY <2>3, <3>2
      <4>3. /\ Steady(o, S, t) /\ Changes(o, h, {"frames"})
            /\ o.error = None => f \in DOMAIN o.frames
        BY <1>2, <4>1, <4>2, Opens
      <4> QED  BY <4>3 DEF Changes, WorkFields, SelfFields
    <3> QED  BY <3>1, <3>2
  <2>c. OnClock(h, t) => OnClock(o, t)
    <3>1. CASE f = None  BY <3>1
    <3>2. CASE f # None
      <4>1. o = EnsureFrame(h, f, t) /\ Work(h)  BY <1>2, <3>2 DEF Steady
      <4> HIDE DEF o
      <4>2. InOrder(h) => InOrder(o)  BY <4>1, StagesInOrder
      <4>3. Changes(o, h, {"frames"}) /\ "lastBeat" \notin {"frames"}
        BY <4>1, EnsureFrameIs
      <4> QED  BY <4>2, <4>3, HeardStays DEF OnClock
    <3> QED  BY <3>1, <3>2
  <2> HIDE DEF o
  <2>6. Changes(x, o, {"bytes"})  BY <2>5, ReserveBytesIs
  <2>d. OnClock(w, t) => OnClock(x, t)
    <3>1. InOrder(o) => InOrder(x)  BY <2>5, StagesInOrder
    <3>2. "lastBeat" \notin {"bytes"}  OBVIOUS
    <3> HIDE DEF x
    <3> QED  BY <1>o, <2>6, <2>c, <3>1, <3>2, HeardStays DEF OnClock
  <2>7. CASE x.error # None
    <3>1. v = x  BY <2>1, <2>7
    <3>2. Calm(x.told) /\ Work(x)  BY <2>5, <2>6 DEF Changes, WorkFields, SelfFields, Steady
    <3> QED  BY <2>7, <2>d, <3>1, <3>2 DEF Steady
  <2>8. CASE x.error = None
    <3>1. v = DrainMonitor(b)  BY <2>1, <2>8
    <3>2. o.error = None  BY <2>6, <2>8 DEF Changes
    <3>3. o.next = w.next /\ o.pending = w.pending
      BY <1>2, <2>5 DEF Changes, WorkFields, SelfFields
    <3>n. o.next \in Nat  BY <2>5, <3>2 DEF Steady, Running, Waiting
    <3>l. Limits.reorderDistance \in Nat  BY LimitsAssumption
    <3>4. /\ env.seq >= o.next /\ env.seq - o.next <= Limits.reorderDistance
          /\ env.seq \notin DOMAIN o.pending
          /\ ~(Cardinality(DOMAIN o.pending) >= Limits.reorderEvents)
      BY <2>2, <2>3, <3>3, <3>n, <3>l
    <3>5. p.event.kind # "Heartbeat" => p.event.id.fusion \in DOMAIN o.frames
      BY <2>3, <2>4, <2>5, <3>2
    <3>6. x = ReserveBytes(o, p.bytes, f)  BY <2>4
    <3> DEFINE q == env.seq
    <3>7. MayWait(o, q, p, t)  BY <2>3, <2>4, <3>4, <3>5 DEF MayWait
    <3>8. b = Queued(x, q, p)  OBVIOUS
    <3>9. Steady(b, S, t) /\ b.error = None
      <4> HIDE DEF q, x, b
      <4>1. Steady(o, S, t)  BY <2>5
      <4> QED  BY ONLY t \in Nat, <2>8, <3>2, <3>6, <3>7, <3>8, <4>1, Buffers
    <3>10. OnClock(w, t) => OnClock(b, t)
      <4>1. Work(x) /\ b.lastBeat = x.lastBeat /\ b.error = x.error
        <5>1. Work(x)  BY <2>6 DEF Changes
        <5> HIDE DEF x, q, p
        <5> QED  BY <5>1, <3>8 DEF Queued, Work, WorkFields, SelfFields
      <4> HIDE DEF b, x
      <4> QED  BY <2>d, <4>1 DEF OnClock, InOrder, BeatHeard
    <3> HIDE DEF b
    <3> QED  BY <2>8, <3>1, <3>9, <3>10, DrainMonitorIs
  <2> QED  BY <2>7, <2>8
<1> QED  BY <1>1, <1>3, <1>4
(* The identity of an observation enters the frame it belongs to.           *)
LEMMA Identifies ==
  ASSUME NEW w, NEW S, NEW t \in Nat, Steady(w, S, t), w.error = None,
         NEW id, id.fusion \in DOMAIN w.frames, ~Final(w, id.fusion),
         NEW v, v = EstablishIdentity(w, id)
  PROVE  /\ Steady(v, S, t) /\ Changes(v, w, {"frames", "priors"})
         /\ v.error = None => DOMAIN v.frames = DOMAIN w.frames
<1> DEFINE f == id.fusion
           old == w.frames[f]
           new == [old EXCEPT !.id = id]
           L == LogWith(w)
           O == OutWith(w)
<1>1. /\ Work(w) /\ Sequenced(w) /\ Ordered(w) /\ Waiting(w) /\ Foreseen(w) /\ Tables(w)
      /\ Budget(w) /\ Timely(w, t) /\ Joined(w, O, L, S)
      /\ SettledBut(w, {}) /\ Quiet(w)
  BY DEF Steady, Running
<1>2. /\ Changes(v, w, {"frames", "priors"})
      /\ v.error = None =>
           /\ v.priors = Put(w.priors, id.prior, f)
           /\ id.prior \in DOMAIN w.priors => w.priors[id.prior] = f
           /\ id.prior \notin DOMAIN w.priors =>
                ~(Cardinality(DOMAIN w.priors) >= Limits.priors)
           /\ w.frames[f].id \in {None, id}
           /\ v.frames = [w.frames EXCEPT ![f].id = id]
  BY <1>1, EstablishIdentityIs
<1>3. /\ v.next = w.next /\ v.pending = w.pending /\ v.bytes = w.bytes /\ v.high = w.high
      /\ v.lastMonitor = w.lastMonitor /\ v.lastSummary = w.lastSummary
      /\ v.lastFinalized = w.lastFinalized /\ v.lastBeat = w.lastBeat /\ v.told = w.told
      /\ v.processed = w.processed /\ v.ready = w.ready /\ Work(v)
  BY <1>2 DEF Changes, WorkFields, SelfFields
<1>4. Calm(v.told)  BY <1>1, <1>3 DEF Sequenced
<1>5. ASSUME v.error = None
      PROVE  /\ Running(v, S, t) /\ SettledBut(v, {}) /\ Quiet(v)
             /\ DOMAIN v.frames = DOMAIN w.frames
  <2>1. /\ Sequenced(v) /\ OutWith(v) = O /\ LogWith(v) = L
    <3>1. Sequenced(v)  BY <1>1, <1>3 DEF Sequenced
    <3>2. OutWith(v) = O /\ LogWith(v) = L  BY ONLY <1>3 DEF OutWith, LogWith, O, L
    <3> QED  BY <3>1, <3>2
  <2>2. f \in DOMAIN w.frames /\ f \in Nat /\ ~Final(w, f) /\ FrameGood(w, f, L, S)
    BY <1>1 DEF Tables, Joined
  <2>3. DOMAIN old = FrameFields  BY <2>2 DEF FrameGood
  <2>4. /\ DOMAIN new = FrameFields /\ new.id = id
        /\ \A x \in FrameFields \ {"id"} : new[x] = old[x]
    BY <2>3 DEF FrameFields
  <2>5. v.frames = [w.frames EXCEPT ![f] = new] /\ old.id \in {None, id}
    BY <1>2, <1>5
  <2>6. /\ DOMAIN v.frames = DOMAIN w.frames /\ v.frames[f] = new
        /\ \A g \in DOMAIN w.frames \ {f} : v.frames[g] = w.frames[g]
    BY <2>2, <2>5
  <2>7. KeepsId(v, f, id) /\ Extends(w.priors, v.priors)
    <3> DEFINE x == id.prior
               q == w.priors
    <3>1. v.priors = Put(q, x, f) /\ (x \in DOMAIN q => q[x] = f)  BY <1>2, <1>5
    <3> HIDE DEF x, q
    <3>2. x \in DOMAIN v.priors /\ v.priors[x] = f  BY ONLY <3>1 DEF Put
    <3>3. \A y \in DOMAIN q : y \in DOMAIN v.priors /\ v.priors[y] = q[y]
      BY ONLY <3>1 DEF Put
    <3> QED  BY <3>2, <3>3 DEF KeepsId, Extends, x, q
  <2>8. /\ new.events = old.events /\ new.observations = old.observations
        /\ new.summary = old.summary /\ new.owed = old.owed /\ new.bytes = old.bytes
        /\ new.seenAt = old.seenAt /\ new.ready = old.ready
    BY <2>4 DEF FrameFields
  <2>9. IsReady(new) <=> IsReady(old)  BY <2>8 DEF IsReady
  <2>10. Tables(v)
    <3>1. Limits.priors \in Nat  BY LimitsAssumption
    <3>2. IsFiniteSet(DOMAIN v.priors) /\ Cardinality(DOMAIN v.priors) <= Limits.priors
      <4> DEFINE x == id.prior
      <4>1. IsFiniteSet(DOMAIN w.priors) /\ Cardinality(DOMAIN w.priors) <= Limits.priors
        BY <1>1 DEF Tables
      <4>2. v.priors = Put(w.priors, x, f)
            /\ (x \notin DOMAIN w.priors => ~(Cardinality(DOMAIN w.priors) >= Limits.priors))
        BY <1>2, <1>5
      <4> HIDE DEF x, f
      <4> QED  BY ONLY <3>1, <4>1, <4>2, PutSize
    <3>3. new.bytes \in Nat /\ new.seenAt \in Nat  BY <1>1, <2>2, <2>8 DEF Tables
    <3> HIDE DEF new, f
    <3> QED  BY ONLY <1>1, <1>3, <2>6, <3>2, <3>3 DEF Tables
  <2>11. Budget(v)
    <3>1. Weighed(w.frames)  BY <1>1 DEF Weighed, Tables
    <3>2. new.bytes = old.bytes /\ old.bytes \in Nat  BY <1>1, <2>2, <2>8 DEF Tables
    <3>3. Total(w.frames) \in Nat  BY <3>1, TotalTakes
    <3> HIDE DEF new, f
    <3>4. Total(v.frames) = Total(w.frames) - old.bytes + new.bytes
      BY ONLY <2>2, <2>6, <3>1, <3>2, TotalReplace
    <3>5. Total(v.frames) = Total(w.frames)
      <4> HIDE DEF old
      <4> QED  BY ONLY <3>2, <3>3, <3>4
    <3> QED  BY <1>1, <1>3, <3>5 DEF Budget
  <2> HIDE DEF new, f, L, O
  <2>12. Ordered(v) /\ Waiting(v)  BY <1>1, <1>3 DEF Ordered, Waiting
  <2>13. Foreseen(v)  BY ONLY <1>1, <1>3, <2>6 DEF Foreseen, Final
  <2>14. Timely(v, t)  BY ONLY <1>1, <1>3, <2>2, <2>6, <2>8, <2>9 DEF Timely, old
  <2>15. Beside(w, v, f, L, L, S, S)
    <3>1. \A x \in DOMAIN w.high : x \in DOMAIN v.high /\ v.high[x] \in Nat /\ w.high[x] <= v.high[x]
      BY <1>1, <1>3 DEF Tables
    <3>2. w.lastSummary # None => v.lastSummary # None /\ w.lastSummary <= v.lastSummary
      BY <1>1, <1>3 DEF Ordered, Option
    <3> QED  BY ONLY <1>3, <2>2, <2>6, <2>7, <3>1, <3>2 DEF Beside, SameFolds
  <2>16. FrameGood(v, f, L, S)
    <3>1. ~Final(v, f)  BY <1>3, <2>2 DEF Final
    <3>2. Gathered(w, f, L, S) /\ (old.summary # None => Balances(w, f))
          /\ old.events \in Seq(Event) /\ IsFiniteSet(DOMAIN old.observations)
      BY <2>2 DEF FrameGood, old
    <3>3. \A i \in DOMAIN old.events : Promise!OfFrame(old.events[i], f) /\ old.events[i].id = id
      <4> SUFFICES ASSUME NEW i \in DOMAIN old.events
                   PROVE  Promise!OfFrame(old.events[i], f) /\ old.events[i].id = id
        OBVIOUS
      <4>1. Promise!OfFrame(old.events[i], f) /\ old.events[i].id = old.id
        BY <3>2 DEF Gathered, old
      <4>2. old.events[i] \in Event  BY <3>2
      <4>3. old.events[i].id # None  BY <4>1, <4>2, EventFacts DEF Promise!OfFrame
      <4> QED  BY <2>5, <4>1, <4>3
    <3>4. Gathered(v, f, L, S)
      BY ONLY <1>3, <2>4, <2>6, <2>8, <3>2, <3>3 DEF Gathered, old
    <3>5. old.summary # None => Balances(v, f)
      <4>1. SUFFICES ASSUME old.summary # None PROVE Balances(v, f)  OBVIOUS
      <4>2. Balances(w, f)  BY <3>2, <4>1
      <4>3. old.id = id /\ id # None  BY <2>5, <4>2 DEF Balances, old
      <4> QED  BY ONLY <1>3, <2>4, <2>6, <2>8, <4>2, <4>3 DEF Balances, old
    <3> QED  BY ONLY <2>4, <2>6, <2>7, <2>8, <3>1, <3>2, <3>4, <3>5 DEF FrameGood
  <2>17. Joined(v, O, L, S)
    <3>1. /\ \A g \in DOMAIN v.frames \ {f} : FrameGood(v, g, L, S)
          /\ \A g \in Nat \ (DOMAIN v.frames \cup {f}) : ~Final(v, g) => Untouched(L, S, g)
          /\ Done(v, O, L, S)
          /\ SummedUp(v, O, L)
      BY ONLY <1>1, <2>12, <2>15, BesideOthers
    <3> QED  BY ONLY <2>2, <2>6, <2>16, <3>1 DEF Joined
  <2>18. Running(v, S, t)
    BY <1>3, <2>1, <2>10, <2>11, <2>12, <2>13, <2>14, <2>17 DEF Running
  <2>19. SettledBut(v, {})
    <3>1. old.ready = IsReady(old)  BY <1>1, <2>2 DEF SettledBut, old
    <3>2. new.ready = IsReady(new)  BY <2>8, <3>1 DEF IsReady
    <3> QED  BY ONLY <1>1, <2>6, <3>2 DEF SettledBut
  <2>20. Quiet(v)
    <3>1. OldestOpen(v) = OldestOpen(w)  BY <2>6 DEF OldestOpen
    <3>2. CASE OldestOpen(w) = None  BY <3>1, <3>2 DEF Quiet
    <3>3. CASE OldestOpen(w) # None
      <4>1. OldestOpen(w) \in DOMAIN w.frames  BY <1>1, <3>3, OldestIs
      <4>2. v.frames[OldestOpen(w)].ready = w.frames[OldestOpen(w)].ready
        BY <2>6, <2>8, <4>1 DEF old
      <4> QED  BY <1>1, <3>1, <4>2 DEF Quiet
    <3> QED  BY <3>2, <3>3
  <2> QED  BY <2>6, <2>18, <2>19, <2>20
<1> QED  BY <1>2, <1>3, <1>4, <1>5 DEF Steady
(* An observation its frame can hold: newer than any of its stream, and one *)
(* that the ledger owes once the frame is summarized.                       *)
Storable(w, o) ==
  LET f == o.fusion
      stream == <<o.track, o.modality>>
      frame == w.frames[f]
  IN
  /\ f \in DOMAIN w.frames /\ f \in Nat /\ ~Final(w, f)
  /\ stream \in DOMAIN w.high => ~(f <= w.high[stream])
  /\ stream \notin DOMAIN w.high => ~(Cardinality(DOMAIN w.high) >= Limits.observationStreams)
  /\ frame.summary # None => Joins(frame.id, frame.owed, o)

Stored(x, o, bytes) ==
  [x EXCEPT !.high = Put(@, <<o.track, o.modality>>, o.fusion),
            !.frames[o.fusion] = WithObservation(@, o, bytes)]

(* A full frame is owed nothing more.                                       *)
LEMMA NotYetReady ==
  ASSUME NEW w, NEW L, NEW S, NEW o, Storable(w, o), FrameGood(w, o.fusion, L, S)
  PROVE  /\ <<o.track, o.modality>> \notin DOMAIN w.frames[o.fusion].observations
         /\ ~IsReady(w.frames[o.fusion])
<1> DEFINE f == o.fusion
           pair == <<o.track, o.modality>>
           frame == w.frames[f]
           obs == frame.observations
<1>1. /\ f \in DOMAIN w.frames /\ f \in Nat /\ ~Final(w, f)
      /\ pair \in DOMAIN w.high => ~(f <= w.high[pair])
      /\ frame.summary # None => Joins(frame.id, frame.owed, o)
  BY DEF Storable
<1>2. Gathered(w, f, L, S) /\ (frame.summary # None => Balances(w, f))  BY <1>1 DEF FrameGood
<1>3. \A p \in DOMAIN obs : p \in DOMAIN w.high /\ f <= w.high[p]  BY <1>2 DEF Gathered
<1>4. pair \notin DOMAIN obs  BY <1>1, <1>3
<1>5. ~IsReady(frame)
  <2> SUFFICES ASSUME IsReady(frame) PROVE FALSE  OBVIOUS
  <2>1. frame.summary # None  BY DEF IsReady
  <2> DEFINE events == frame.events
             s == frame.summary
             id == frame.id
             E == {obs[p] : p \in DOMAIN obs}
  <2>2. Full(events, s, id, obs)  BY <1>1, FullWhenReady
  <2>3. E = {obs[p] : p \in DOMAIN obs}  OBVIOUS
  <2>4. frame.owed = Owed(events, s)  BY <1>2, <2>1 DEF Balances
  <2>5. pair \in DOMAIN frame.owed  BY <1>1, <2>1 DEF Joins
  <2> HIDE DEF events, s, id, E, obs
  <2>6. DOMAIN obs = DOMAIN Owed(events, s)  BY <2>2, <2>3, MatchedWhenFull
  <2> QED  BY <1>4, <2>4, <2>5, <2>6
<1> QED  BY <1>4, <1>5

(* The observation is stored in its frame.                                  *)
LEMMA Stores ==
  ASSUME NEW w, NEW S, NEW t \in Nat, Steady(w, S, t), w.error = None,
         NEW o, Storable(w, o), NEW bytes \in Nat,
         NEW from, NEW x, x = ReserveBytes(w, bytes, from), x.error = None,
         NEW v, v = Stored(x, o, bytes)
  PROVE  /\ Running(v, S \cup {o}, t) /\ SettledBut(v, {o.fusion}) /\ v.error = None
         /\ o.fusion \in DOMAIN v.frames /\ Changes(v, w, {"bytes", "high", "frames"})
<1> DEFINE f == o.fusion
           pair == <<o.track, o.modality>>
           T == S \cup {o}
           old == w.frames[f]
           new == WithObservation(old, o, bytes)
           L == LogWith(w)
           O == OutWith(w)
<1>1. /\ Work(w) /\ Sequenced(w) /\ Ordered(w) /\ Waiting(w) /\ Foreseen(w) /\ Tables(w)
      /\ Budget(w) /\ Timely(w, t) /\ Joined(w, O, L, S) /\ SettledBut(w, {})
  BY DEF Steady, Running
<1>2. /\ f \in DOMAIN w.frames /\ f \in Nat /\ ~Final(w, f)
      /\ pair \in DOMAIN w.high => ~(f <= w.high[pair])
      /\ pair \notin DOMAIN w.high => ~(Cardinality(DOMAIN w.high) >= Limits.observationStreams)
      /\ old.summary # None => Joins(old.id, old.owed, o)
  BY DEF Storable
<1>3. /\ Changes(x, w, {"bytes"}) /\ x.bytes = w.bytes + bytes
      /\ ~(w.bytes + bytes > Limits.bytes)
  BY <1>1, ReserveBytesIs
<1>4. /\ Work(x) /\ x.frames = w.frames /\ x.high = w.high
      /\ \A y \in WorkFields \ {"bytes", "error", "from"} : x[y] = w[y]
  BY <1>3 DEF Changes, WorkFields, SelfFields
<1>5. /\ Work(v) /\ v.error = None /\ v.bytes = w.bytes + bytes
      /\ v.high = Put(w.high, pair, f)
      /\ v.frames = [w.frames EXCEPT ![f] = new]
      /\ \A y \in WorkFields \ {"bytes", "high", "frames", "error", "from"} : v[y] = w[y]
  BY <1>3, <1>4 DEF Stored, Work, WorkFields, SelfFields
<1>6. /\ v.next = w.next /\ v.pending = w.pending /\ v.priors = w.priors
      /\ v.lastMonitor = w.lastMonitor /\ v.lastSummary = w.lastSummary
      /\ v.lastFinalized = w.lastFinalized /\ v.lastBeat = w.lastBeat /\ v.told = w.told
      /\ v.processed = w.processed /\ v.ready = w.ready
  BY <1>5 DEF WorkFields, SelfFields
<1>7. Changes(v, w, {"bytes", "high", "frames"})  BY <1>3, <1>5 DEF Changes
<1>8. FrameGood(w, f, L, S)  BY <1>1, <1>2 DEF Joined
<1>9. pair \notin DOMAIN old.observations /\ ~IsReady(old)  BY <1>8, NotYetReady
<1>10. /\ DOMAIN old = FrameFields /\ old.events \in Seq(Event)
       /\ IsFiniteSet(DOMAIN old.observations)
       /\ old.id # None => KeepsId(w, f, old.id)
       /\ Gathered(w, f, L, S) /\ (old.summary # None => Balances(w, f))
  BY <1>2, <1>8 DEF FrameGood
<1>11. /\ DOMAIN new = FrameFields
       /\ new.observations = Put(old.observations, pair, o) /\ new.bytes = old.bytes + bytes
       /\ \A y \in FrameFields \ {"tracks", "bytes", "observations"} : new[y] = old[y]
  BY <1>10 DEF WithObservation, FrameFields
<1>12. /\ DOMAIN v.frames = DOMAIN w.frames /\ v.frames[f] = new
       /\ \A g \in DOMAIN w.frames \ {f} : v.frames[g] = w.frames[g]
  BY <1>2, <1>5
<1>13. /\ new.events = old.events /\ new.summary = old.summary /\ new.owed = old.owed
       /\ new.id = old.id /\ new.seenAt = old.seenAt /\ new.ready = old.ready
  BY <1>11 DEF FrameFields
<1>14. /\ Sequenced(v) /\ OutWith(v) = O /\ LogWith(v) = L
  <2>1. Sequenced(v)  BY <1>1, <1>6 DEF Sequenced
  <2>2. OutWith(v) = O /\ LogWith(v) = L  BY ONLY <1>6 DEF OutWith, LogWith, O, L
  <2> QED  BY <2>1, <2>2
<1>15. o.track = pair[1] /\ o.modality = pair[2] /\ o.fusion = f  OBVIOUS
<1>p. pair = <<o.track, o.modality>>  OBVIOUS
<1> HIDE DEF f, pair, new, L, O
<1>16. /\ DOMAIN new.observations = DOMAIN old.observations \cup {pair}
       /\ new.observations[pair] = o
       /\ \A p \in DOMAIN old.observations : new.observations[p] = old.observations[p]
  <2> DEFINE F == old.observations
  <2>1. pair \notin DOMAIN F /\ new.observations = Put(F, pair, o)  BY <1>9, <1>11
  <2> HIDE DEF F
  <2>2. DOMAIN Put(F, pair, o) = DOMAIN F \cup {pair} /\ Put(F, pair, o)[pair] = o  BY DEF Put
  <2>3. \A y \in DOMAIN F \ {pair} : Put(F, pair, o)[y] = F[y]  BY ONLY PutIs
  <2>4. DOMAIN new.observations = DOMAIN F \cup {pair} /\ new.observations[pair] = o
    BY ONLY <2>1, <2>2
  <2>5. \A y \in DOMAIN F : new.observations[y] = F[y]  BY ONLY <2>1, <2>3
  <2> QED  BY <2>4, <2>5 DEF F
<1>17. /\ DOMAIN v.high = DOMAIN w.high \cup {pair} /\ v.high[pair] = f
       /\ \A y \in DOMAIN w.high \ {pair} : v.high[y] = w.high[y]
  <2> DEFINE F == w.high
  <2>1. v.high = Put(F, pair, f)  BY <1>5
  <2> HIDE DEF F
  <2>2. DOMAIN Put(F, pair, f) = DOMAIN F \cup {pair} /\ Put(F, pair, f)[pair] = f  BY DEF Put
  <2>3. \A y \in DOMAIN F \ {pair} : Put(F, pair, f)[y] = F[y]  BY ONLY PutIs
  <2>4. /\ DOMAIN v.high = DOMAIN F \cup {pair} /\ v.high[pair] = f
        /\ \A y \in DOMAIN F \ {pair} : v.high[y] = F[y]
    BY ONLY <2>1, <2>2, <2>3
  <2> QED  BY <2>4 DEF F
<1>18. \A y \in DOMAIN w.high : y \in DOMAIN v.high /\ v.high[y] \in Nat /\ w.high[y] <= v.high[y]
  BY ONLY <1>1, <1>2, <1>17 DEF Tables
<1>19. EvidenceIn(T, f) = EvidenceIn(S, f) \cup {o}
       /\ \A g : g # f => EvidenceIn(T, g) = EvidenceIn(S, g)
  BY <1>15 DEF EvidenceIn
<1> HIDE DEF T
<1>20. Tables(v)
  <2>1. Limits.observationStreams \in Nat  BY LimitsAssumption
  <2>2. IsFiniteSet(DOMAIN v.high) /\ Cardinality(DOMAIN v.high) <= Limits.observationStreams
    <3>1. IsFiniteSet(DOMAIN w.high) /\ Cardinality(DOMAIN w.high) <= Limits.observationStreams
      BY <1>1 DEF Tables
    <3> QED  BY ONLY <1>2, <1>5, <2>1, <3>1, PutSize
  <2>3. new.bytes \in Nat /\ new.seenAt \in Nat  BY <1>1, <1>2, <1>11, <1>13 DEF Tables
  <2>4. \A y \in DOMAIN v.high : v.high[y] \in Nat  BY ONLY <1>1, <1>2, <1>17 DEF Tables
  <2> QED  BY ONLY <1>1, <1>6, <1>12, <2>2, <2>3, <2>4 DEF Tables
<1>21. Budget(v)
  <2>1. Weighed(w.frames) /\ Weighed(w.pending)
    BY <1>1 DEF Weighed, Tables, Waiting, Entry
  <2>2. Total(w.frames) \in Nat /\ Total(w.pending) \in Nat  BY <2>1, TotalTakes
  <2>3. old.bytes \in Nat /\ new.bytes = old.bytes + bytes  BY <1>1, <1>2, <1>11 DEF Tables
  <2>4. new.bytes \in Nat  BY <2>3
  <2>5. Total(v.frames) = Total(w.frames) - old.bytes + new.bytes
    BY ONLY <1>2, <1>12, <2>1, <2>4, TotalReplace
  <2>6. w.bytes = Total(w.pending) + Total(w.frames) /\ Limits.bytes \in Nat
    BY <1>1, LimitsAssumption DEF Budget
  <2> HIDE DEF old
  <2> QED  BY ONLY bytes \in Nat, <1>3, <1>5, <1>6, <2>2, <2>3, <2>5, <2>6 DEF Budget
<1>22. Ordered(v) /\ Waiting(v)  BY <1>1, <1>6 DEF Ordered, Waiting
<1>23. Foreseen(v)  BY ONLY <1>1, <1>6, <1>12 DEF Foreseen, Final
<1>24. Timely(v, t)
  <2>1. t - new.seenAt < Limits.frameDeadline  BY ONLY <1>1, <1>2, <1>9, <1>13 DEF Timely
  <2> QED  BY ONLY <1>1, <1>6, <1>12, <2>1 DEF Timely
<1>25. Beside(w, v, f, L, L, S, T)
  <2>1. Extends(w.priors, v.priors)  BY <1>6 DEF Extends
  <2>2. w.lastSummary # None => v.lastSummary # None /\ w.lastSummary <= v.lastSummary
    BY <1>1, <1>6 DEF Ordered, Option
  <2>3. \A g : g # f \/ Final(w, g) => EvidenceIn(T, g) = EvidenceIn(S, g)
    BY ONLY <1>2, <1>19
  <2> QED  BY ONLY <1>6, <1>12, <1>18, <2>1, <2>2, <2>3 DEF Beside, SameFolds
<1>26. FrameGood(v, f, L, T)
  <2>1. ~Final(v, f)  BY <1>2, <1>6 DEF Final
  <2>2. IsFiniteSet(DOMAIN new.observations)  BY <1>10, <1>16, FS_AddElement
  <2>3. old.id # None => KeepsId(v, f, new.id)  BY <1>6, <1>10, <1>13 DEF KeepsId
  <2>4. Gathered(v, f, L, T)
    <3>1. /\ old.events = EventsIn(L, f)
          /\ \A i \in DOMAIN old.events :
               Promise!OfFrame(old.events[i], f) /\ old.events[i].id = old.id
          /\ SummariesIn(L, f) = IF old.summary = None THEN <<>> ELSE <<old.summary>>
          /\ EvidenceIn(S, f) = {old.observations[p] : p \in DOMAIN old.observations}
          /\ \A p \in DOMAIN old.observations :
               /\ p = <<old.observations[p].track, old.observations[p].modality>>
               /\ p \in DOMAIN w.high /\ f <= w.high[p]
      BY <1>10 DEF Gathered
    <3>2. EvidenceIn(T, f) = {new.observations[p] : p \in DOMAIN new.observations}
      <4>1. {new.observations[p] : p \in DOMAIN new.observations} =
            {old.observations[p] : p \in DOMAIN old.observations} \cup {o}
        BY ONLY <1>16
      <4> QED  BY ONLY <1>19, <3>1, <4>1
    <3>3. ASSUME NEW p \in DOMAIN new.observations
          PROVE  /\ p = <<new.observations[p].track, new.observations[p].modality>>
                 /\ p \in DOMAIN v.high /\ f <= v.high[p]
      <4>1. CASE p = pair  BY ONLY <1>2, <1>p, <1>16, <1>17, <4>1
      <4>2. CASE p # pair
        <5>1. p \in DOMAIN old.observations /\ new.observations[p] = old.observations[p]
          BY ONLY <1>16, <3>3, <4>2
        <5>2. v.high[p] = w.high[p] /\ p \in DOMAIN v.high  BY ONLY <1>17, <3>1, <4>2, <5>1
        <5> QED  BY ONLY <3>1, <5>1, <5>2
      <4> QED  BY <4>1, <4>2
    <3> QED  BY ONLY <1>12, <1>13, <3>1, <3>2, <3>3 DEF Gathered
  <2>5. old.summary # None => Balances(v, f)
    <3> SUFFICES ASSUME old.summary # None PROVE Balances(v, f)  OBVIOUS
    <3>1. Balances(w, f) /\ Joins(old.id, old.owed, o)  BY <1>2, <1>10
    <3>2. \A p \in DOMAIN new.observations : Joins(old.id, old.owed, new.observations[p])
      <4>1. \A p \in DOMAIN old.observations : Joins(old.id, old.owed, old.observations[p])
        BY ONLY <3>1 DEF Balances
      <4> QED  BY ONLY <1>16, <3>1, <4>1
    <3> QED  BY ONLY <1>6, <1>12, <1>13, <3>1, <3>2 DEF Balances
  <2> QED  BY ONLY <1>10, <1>11, <1>12, <1>13, <2>1, <2>2, <2>3, <2>4, <2>5 DEF FrameGood
<1>27. Joined(v, O, L, T)
  <2>1. /\ \A g \in DOMAIN v.frames \ {f} : FrameGood(v, g, L, T)
        /\ \A g \in Nat \ (DOMAIN v.frames \cup {f}) : ~Final(v, g) => Untouched(L, T, g)
        /\ Done(v, O, L, T)
        /\ SummedUp(v, O, L)
    BY ONLY <1>1, <1>22, <1>25, BesideOthers
  <2> QED  BY ONLY <1>2, <1>12, <1>26, <2>1 DEF Joined
<1>28. SettledBut(v, {f})  BY ONLY <1>1, <1>12 DEF SettledBut
<1>29. Running(v, T, t)
  BY <1>5, <1>14, <1>20, <1>21, <1>22, <1>23, <1>24, <1>27 DEF Running
<1> QED  BY <1>2, <1>5, <1>7, <1>12, <1>28, <1>29 DEF T, f
(* An observation envelope taken.                                           *)
LEMMA ObservationTaken ==
  ASSUME NEW w, NEW S, NEW t \in Nat, Steady(w, S, t), w.error = None, Gapped(w),
         NEW env \in ObservationEnvelopes, NEW v, v = TakeObservation(w, env, t)
  PROVE  /\ Steady(v, S \cup {env.observation}, t) /\ (v.error = None => Gapped(v))
         /\ OnClock(w, t) => OnClock(v, t)
<1> DEFINE o == env.observation
           f == o.fusion
           stream == <<o.track, o.modality>>
           T == S \cup {o}
           heard == IF env.defect \notin {None, "Registry"} THEN w ELSE ContractMismatch(w, env)
           error == IF env.defect # None THEN env.defect ELSE ObservationError(w, o)
           from == IF env.defect # None THEN DefectFrom(env, f) ELSE f
           open == EnsureFrame(heard, f, t)
           i == IF o.projection = None THEN open ELSE EstablishIdentity(open, IdentityOf(o))
           x == ReserveBytes(i, env.bytes, f)
           y == Stored(x, o, env.bytes)
<1>1. f \in Nat /\ env.bytes \in Nat  BY EnvelopeAssumption
<1>k. error # "MonotonicClockRegressed"
  BY VerdictAssumption, NoneInOrder DEF ObservationError
<1>2. Steady(heard, S, t) /\ Changes(heard, w, {"told"}) /\ heard.error = None
  <2>1. Changes(w, w, {"told"})  BY DEF Changes, Steady
  <2>2. LET h == ContractMismatch(w, env) IN
        Steady(h, S, t) /\ Changes(h, w, {"told"}) /\ h.error = None
    BY Noted
  <2> QED  BY <2>1, <2>2
<1>o. OnClock(w, t) => OnClock(heard, t)
  <2>1. "lastBeat" \notin {"told"} /\ InOrder(heard)  BY <1>2, NoneInOrder DEF InOrder
  <2> HIDE DEF heard
  <2> QED  BY <1>2, <2>1, HeardStays
<1>3. v = IF error # None THEN Refuse(heard, error, from) ELSE StoreObservation(i, o, env.bytes)
  BY DEF TakeObservation
<1>e. ASSUME v.error # None, Work(v), Calm(v.told), InOrder(w) => InOrder(v)
      PROVE  /\ Steady(v, T, t) /\ (v.error = None => Gapped(v))
             /\ OnClock(w, t) => OnClock(v, t)
  BY <1>e DEF Steady, OnClock
<1>4. CASE error # None
  <2>1. v = Refuse(heard, error, from)  BY <1>3, <1>4
  <2> HIDE DEF heard, error, from
  <2>2. InOrder(v)  BY <1>2, <1>k, <2>1, RefusedInOrder DEF Steady
  <2> QED  BY <1>2, <1>4, <1>e, <2>1, <2>2, RefusedSteady DEF Steady
<1>5. CASE error = None
  <2>1. v = StoreObservation(i, o, env.bytes)  BY <1>3, <1>5
  <2>2. /\ ~Final(w, f)
        /\ stream \in DOMAIN w.high => ~(f <= w.high[stream])
        /\ stream \notin DOMAIN w.high =>
             ~(Cardinality(DOMAIN w.high) >= Limits.observationStreams)
    <3>1. /\ "ObservationForFinalizedFrame" # None /\ "DuplicateOrRegressedObservation" # None
          /\ "ObservationAdvanceExceeded" # None /\ "ObservationStreams" # None
      BY FaultNames DEF AssemblyFaults
    <3>2. ObservationError(w, o) = None  BY <1>5
    <3> QED  BY <3>1, <3>2 DEF ObservationError, Final
  <2>3. /\ Steady(open, S, t) /\ Changes(open, heard, {"frames"})
        /\ open.error = None => f \in DOMAIN open.frames
        /\ InOrder(heard) => InOrder(open)
    <3> HIDE DEF heard, f
    <3>1. InOrder(heard) => InOrder(open)  BY <1>2, StagesInOrder DEF Steady
    <3> QED  BY <1>1, <1>2, <3>1, Opens
  <2> HIDE DEF heard, error, from
  <2>4. /\ Steady(i, S, t) /\ Changes(i, open, {"frames", "priors"})
        /\ i.error = None => f \in DOMAIN i.frames
    <3>1. CASE o.projection = None
      <4>1. i = open  BY <3>1
      <4> HIDE DEF open, i
      <4> QED  BY <2>3, <4>1 DEF Changes, Steady
    <3>2. CASE o.projection # None
      <4> DEFINE id == IdentityOf(o)
      <4>1. i = EstablishIdentity(open, id) /\ id.fusion = f  BY <3>2 DEF IdentityOf
      <4>2. CASE open.error # None
        <5>1. i = open  BY <4>1, <4>2 DEF EstablishIdentity
        <5> HIDE DEF open, i
        <5> QED  BY <2>3, <4>2, <5>1 DEF Changes, Steady
      <4>3. CASE open.error = None
        <5>1. ~Final(open, id.fusion)
          BY <1>2, <2>2, <2>3, <4>1 DEF Changes, WorkFields, SelfFields, Final
        <5>2. id.fusion \in DOMAIN open.frames  BY <2>3, <4>1, <4>3
        <5> HIDE DEF id, open, i, f
        <5>3. /\ Steady(i, S, t) /\ Changes(i, open, {"frames", "priors"})
              /\ i.error = None => DOMAIN i.frames = DOMAIN open.frames
          BY <2>3, <4>1, <4>3, <5>1, <5>2, Identifies
        <5> QED  BY <4>1, <5>2, <5>3
      <4> QED  BY <4>2, <4>3
    <3> QED  BY <3>1, <3>2
  <2> HIDE DEF open
  <2>o. InOrder(w) => InOrder(i)
    <3>1. InOrder(heard)  BY <1>2, NoneInOrder DEF InOrder
    <3>2. InOrder(open) /\ Work(open)  BY <2>3, <3>1 DEF Steady
    <3> QED  BY <3>2, StagesInOrder
  <2>5. /\ i.error = None => i.lastFinalized = w.lastFinalized
        /\ i.high = w.high /\ i.next = w.next /\ i.pending = w.pending /\ i.gapAt = w.gapAt
        /\ i.lastFinalized = w.lastFinalized /\ Work(i)
    BY <1>2, <2>3, <2>4 DEF Changes, WorkFields, SelfFields
  <2> DEFINE wrong == JoinFrameError(i.frames[f], o)
  <2>6. CASE i.error # None
    <3>1. v = i  BY <2>1, <2>6 DEF StoreObservation
    <3> HIDE DEF i
    <3> QED  BY <1>e, <2>4, <2>6, <2>o, <3>1 DEF Steady
  <2>7. CASE i.error = None /\ wrong # None
    <3>1. v = Refuse(i, wrong, f)  BY <2>1, <2>7 DEF StoreObservation
    <3>2. wrong # "MonotonicClockRegressed"  BY NoneInOrder DEF JoinFrameError
    <3> HIDE DEF i, wrong
    <3>3. InOrder(v)  BY <2>5, <3>1, <3>2, RefusedInOrder
    <3> QED  BY <1>e, <2>4, <2>7, <3>1, <3>3, RefusedSteady DEF Steady
  <2>8. CASE i.error = None /\ wrong = None
    <3>1. v = IF x.error # None THEN x ELSE DrainReadyFrames(RefreshReadiness(y, f))
      BY <2>1, <2>8 DEF StoreObservation, Store, Stored
    <3> HIDE DEF i
    <3>2. Changes(x, i, {"bytes"})  BY <2>5, ReserveBytesIs
    <3>o. InOrder(w) => InOrder(x)  BY <2>5, <2>o, StagesInOrder
    <3>3. CASE x.error # None
      <4>1. v = x  BY <3>1, <3>3
      <4>2. Calm(x.told) /\ Work(x)
        BY <2>4, <3>2 DEF Changes, WorkFields, SelfFields, Steady
      <4> QED  BY <1>e, <3>3, <3>o, <4>1, <4>2
    <3>4. CASE x.error = None
      <4>1. Storable(i, o)
        <5>1. i.frames[f].summary # None => Joins(i.frames[f].id, i.frames[f].owed, o)
          <6>1. /\ "FrameObservations" # None /\ "FrameTracks" # None
                /\ "ObservationMismatch" # None
            BY FaultNames DEF AssemblyFaults
          <6> QED  BY <2>8, <6>1 DEF JoinFrameError
        <5>2. ~Final(i, f)  BY <2>2, <2>5 DEF Final
        <5>3. f \in DOMAIN i.frames  BY <2>4, <2>8
        <5> QED  BY <1>1, <2>2, <2>5, <5>1, <5>2, <5>3 DEF Storable
      <4>2. y = Stored(x, o, env.bytes) /\ x = ReserveBytes(i, env.bytes, f)  OBVIOUS
      <4>3. /\ Running(y, T, t) /\ SettledBut(y, {f}) /\ y.error = None
            /\ f \in DOMAIN y.frames /\ Changes(y, i, {"bytes", "high", "frames"})
        <5> DEFINE b == env.bytes
        <5>1. /\ b \in Nat /\ Steady(i, S, t) /\ i.error = None
              /\ x = ReserveBytes(i, b, f) /\ y = Stored(x, o, b)
          BY <1>1, <2>4, <2>8, <4>2
        <5>2. T = S \cup {o} /\ f = o.fusion  OBVIOUS
        <5> HIDE DEF x, y, o, b, T, f
        <5>3. /\ Running(y, S \cup {o}, t) /\ SettledBut(y, {o.fusion}) /\ y.error = None
              /\ o.fusion \in DOMAIN y.frames /\ Changes(y, i, {"bytes", "high", "frames"})
          BY ONLY t \in Nat, <3>4, <4>1, <5>1, Stores
        <5> QED  BY ONLY <5>2, <5>3
      <4>4. v = DrainReadyFrames(RefreshReadiness(y, f))  BY <3>1, <3>4
      <4> HIDE DEF x, y, T, f
      <4>5. Work(y) /\ Calm(y.told)  BY <4>3 DEF Running, Sequenced
      <4>6. /\ Changes(v, y, {"frames", "bytes", "lastFinalized", "ready"}) /\ Steady(v, T, t)
            /\ InOrder(y) => InOrder(v)
        BY ONLY <4>3, <4>4, <4>5, ReadyThenDrained
      <4>7. v.gapAt = w.gapAt /\ v.next = w.next /\ v.pending = w.pending
        BY <2>5, <4>3, <4>6 DEF Changes, WorkFields, SelfFields
      <4>8. v.error = None => Gapped(v)  BY <4>7 DEF Gapped
      <4>9. Steady(v, T, t)  BY <4>6
      <4>10. InOrder(v)  BY <4>3, <4>6, NoneInOrder DEF InOrder
      <4>11. v.lastBeat = w.lastBeat
        BY <1>2, <2>3, <2>4, <4>3, <4>6 DEF Changes, WorkFields, SelfFields
      <4>12. OnClock(w, t) => OnClock(v, t)  BY <4>10, <4>11 DEF OnClock, BeatHeard
      <4> QED  BY <4>8, <4>9, <4>12 DEF T
    <3> QED  BY <3>3, <3>4
  <2> QED  BY <2>6, <2>7, <2>8
<1> QED  BY <1>4, <1>5
-----------------------------------------------------------------------------
(* How a call ends: what it tells holds its frames, in order, last.         *)

TurnOfFrames(frames, e, c) == AddFrame(frames, e)
FrameFold == INSTANCE FoldFacts WITH Step <- TurnOfFrames

LEMMA FramesAre == \A events : FramesOf(events) = FrameFold!Fold(<<>>, events, None)
BY DEF FramesOf, TurnOfFrames, FrameFold!Fold, FoldLeft, MapThenFoldSet, Max,
   FrameFold!FoldLeft, FrameFold!MapThenFoldSet, FrameFold!Max

(* The frames of calm notices that frames of s follow, as a run.            *)
LEMMA FramesFollow ==
  ASSUME NEW T, NEW s \in Seq(T), NEW notices, Calm(notices), NEW events, IsSeq(events),
         Len(events) = Len(notices) + Len(s),
         \A i \in 1..Len(notices) : events[i] = notices[i],
         \A i \in 1..Len(s) : events[Len(notices) + i] = [kind |-> "FrameReady", frame |-> s[i]]
  PROVE  FramesOf(events) = s
<1> DEFINE m == Len(notices)
           n == Len(s)
           Pre(j) == [i \in 1..j |-> s[i]]
<1>1. PICK U : events \in Seq(U)  BY DEF IsSeq
<1>2. PICK h : FrameFold!IsRun(h, <<>>, events, None)
               /\ FrameFold!Fold(<<>>, events, None) = h[Len(events)]
  BY <1>1, FrameFold!FoldRuns
<1>3. m \in Nat /\ n \in Nat /\ DOMAIN notices = 1..m /\ Len(events) = m + n
  <2>1. PICK V : notices \in Seq(V)  BY DEF Calm, IsSeq
  <2> QED  BY <2>1
<1>4. h[0] = <<>> /\ \A i \in 1..(m + n) : h[i] = AddFrame(h[i - 1], events[i])
  BY <1>2, <1>3 DEF FrameFold!IsRun, TurnOfFrames
<1>5. \A i \in 1..m : events[i].kind # "FrameReady"  BY <1>3 DEF Calm
<1>6. \A i \in 1..n : events[m + i].kind = "FrameReady" /\ events[m + i].frame = s[i]
  <2> SUFFICES ASSUME NEW i \in 1..n
               PROVE  events[m + i].kind = "FrameReady" /\ events[m + i].frame = s[i]
    OBVIOUS
  <2>1. events[m + i] = [kind |-> "FrameReady", frame |-> s[i]]  OBVIOUS
  <2> QED  BY ONLY <2>1
<1> DEFINE Silent == {i \in Nat : i <= m => h[i] = <<>>}
           Speaking  == {i \in Nat : i <= n => h[m + i] = Pre(i)}
<1> HIDE DEF m, n
<1>7. h[m] = <<>>
  <2>1. 0 \in Silent  BY <1>4
  <2>2. ASSUME NEW i \in Nat, i \in Silent PROVE i + 1 \in Silent
    <3> SUFFICES ASSUME i + 1 <= m PROVE h[i + 1] = <<>>  OBVIOUS
    <3>1. i + 1 \in 1..m /\ i + 1 \in 1..(m + n) /\ (i + 1) - 1 = i /\ i <= m  BY <1>3
    <3>2. h[i + 1] = AddFrame(h[i], events[i + 1])  BY <1>4, <3>1
    <3> QED  BY <1>5, <2>2, <3>1, <3>2 DEF AddFrame
  <2> HIDE DEF Silent
  <2>3. m \in Silent  BY <1>3, <2>1, <2>2, FrameFold!Induction
  <2> QED  BY <1>3, <2>3 DEF Silent
<1>8. h[m + n] = Pre(n)
  <2>1. 0 \in Speaking  BY <1>3, <1>7
  <2>2. ASSUME NEW i \in Nat, i \in Speaking PROVE i + 1 \in Speaking
    <3> SUFFICES ASSUME i + 1 <= n PROVE h[m + (i + 1)] = Pre(i + 1)  OBVIOUS
    <3>1. /\ i + 1 \in 1..n /\ m + (i + 1) \in 1..(m + n) /\ (m + (i + 1)) - 1 = m + i
          /\ i <= n
      BY <1>3
    <3>2. h[m + (i + 1)] = AddFrame(h[m + i], events[m + (i + 1)])  BY <1>4, <3>1
    <3>3. h[m + (i + 1)] = Append(Pre(i), s[i + 1])  BY <1>6, <2>2, <3>1, <3>2 DEF AddFrame
    <3>4. Append(Pre(i), s[i + 1]) = Pre(i + 1)
      <4>0. i \in Nat /\ \A k \in 1..(i + 1) : s[k] \in T  BY <1>3, <3>1 DEF n
      <4>1. Pre(i) \in Seq(T) /\ Len(Pre(i)) = i /\ Pre(i + 1) \in Seq(T) /\ Len(Pre(i + 1)) = i + 1
            /\ s[i + 1] \in T
        BY ONLY <4>0
      <4>2. \A k \in 1..(i + 1) : Append(Pre(i), s[i + 1])[k] = Pre(i + 1)[k]
        BY <4>1
      <4> HIDE DEF Pre
      <4> DEFINE A == Append(Pre(i), s[i + 1])
                 B == Pre(i + 1)
      <4>3. A \in Seq(T) /\ Len(A) = i + 1  BY <4>1
      <4>4. B \in Seq(T) /\ Len(B) = i + 1 /\ \A k \in 1..(i + 1) : A[k] = B[k]
        BY <4>1, <4>2
      <4> HIDE DEF A, B
      <4>5. A = [k \in 1..(i + 1) |-> A[k]] /\ B = [k \in 1..(i + 1) |-> B[k]]
        BY ONLY <4>3, <4>4, i \in Nat
      <4>6. A = B  BY ONLY <4>4, <4>5
      <4> QED  BY <4>6 DEF A, B
    <3> QED  BY <3>3, <3>4
  <2> HIDE DEF Speaking
  <2>3. n \in Speaking  BY <1>3, <2>1, <2>2, FrameFold!Induction
  <2> QED  BY <1>3, <2>3 DEF Speaking
<1>9. Pre(n) = s  BY DEF n
<1> QED  BY <1>2, <1>3, <1>8, <1>9, FramesAre

LEMMA FramesOfCalm == \A notices : Calm(notices) => FramesOf(notices) = <<>>
<1> SUFFICES ASSUME NEW notices, Calm(notices) PROVE FramesOf(notices) = <<>>  OBVIOUS
<1> DEFINE s == <<>>
<1>1. s \in Seq({}) /\ Len(s) = 0 /\ IsSeq(notices)  BY DEF Calm
<1>2. Len(notices) \in Nat  BY <1>1 DEF IsSeq
<1>3. Len(notices) = Len(notices) + Len(s) /\ 1..Len(s) = {}  BY <1>1, <1>2
<1> HIDE DEF s
<1>4. FramesOf(notices) = s  BY <1>1, <1>3, FramesFollow
<1> QED  BY <1>4 DEF s

(* A call that meets no error tells what it released, one that does nothing.*)
LEMMA FramesReturned ==
  ASSUME NEW w, Calm(w.told), w.error = None => IsSeq(w.ready)
  PROVE  FramesOf(Returned(w)) = IF w.error = None THEN w.ready ELSE <<>>
<1>1. CASE w.error = None
  <2> DEFINE s == w.ready
             n == w.told
             r == [i \in DOMAIN s |-> [kind |-> "FrameReady", frame |-> s[i]]]
             events == n \o r
  <2>1. Returned(w) = events  BY <1>1 DEF Returned, Ready
  <2>2. PICK T : s \in Seq(T)  BY <1>1 DEF IsSeq
  <2>3. PICK U : n \in Seq(U)  BY DEF IsSeq, Calm
  <2> DEFINE F == {[kind |-> "FrameReady", frame |-> x] : x \in T}
  <2>4. r \in Seq(F) /\ Len(r) = Len(s) /\ Len(s) \in Nat
        /\ \A i \in 1..Len(s) : r[i] = [kind |-> "FrameReady", frame |-> s[i]]
    <3>1. DOMAIN s = 1..Len(s) /\ Len(s) \in Nat /\ \A i \in 1..Len(s) : s[i] \in T  BY <2>2
    <3>2. r = [i \in 1..Len(s) |-> [kind |-> "FrameReady", frame |-> s[i]]]  BY <3>1
    <3>3. \A i \in 1..Len(s) : [kind |-> "FrameReady", frame |-> s[i]] \in F  BY <3>1
    <3>4. [i \in 1..Len(s) |-> [kind |-> "FrameReady", frame |-> s[i]]] \in Seq(F)
      BY <3>1, <3>3
    <3>5. \A i \in 1..Len(s) : r[i] = [kind |-> "FrameReady", frame |-> s[i]]  BY <3>1
    <3>6. DOMAIN r = 1..Len(s)  BY <3>1
    <3> HIDE DEF r, F
    <3>7. r \in Seq(F)  BY <3>2, <3>4
    <3>8. Len(r) = Len(s)  BY <3>1, <3>6, <3>7
    <3> QED  BY <3>1, <3>5, <3>7, <3>8
  <2> HIDE DEF s, n, r, F
  <2>5. /\ IsSeq(events) /\ Len(events) = Len(n) + Len(s)
        /\ \A i \in 1..Len(n) : events[i] = n[i]
        /\ \A i \in 1..Len(s) : events[Len(n) + i] = r[i]
    <3>1. n \in Seq(U \cup F) /\ r \in Seq(U \cup F) /\ Len(n) \in Nat  BY <2>3, <2>4
    <3>2. events \in Seq(U \cup F)  BY <3>1
    <3>3. Len(events) = Len(n) + Len(s)  BY <2>4, <3>1
    <3>4. \A i \in 1..Len(n) : events[i] = n[i]  BY <2>4, <3>1
    <3>5. \A i \in 1..Len(s) : events[Len(n) + i] = r[i]  BY <2>4, <3>1
    <3> QED  BY <3>2, <3>3, <3>4, <3>5 DEF IsSeq
  <2> HIDE DEF events
  <2>6. Calm(n)  BY DEF n
  <2>7. \A i \in 1..Len(s) : events[Len(n) + i] = [kind |-> "FrameReady", frame |-> s[i]]
    BY <2>4, <2>5
  <2>8. FramesOf(events) = s  BY ONLY <2>2, <2>5, <2>6, <2>7, FramesFollow
  <2> QED  BY <1>1, <2>1, <2>8 DEF s
<1>2. CASE w.error # None
  <2>1. Returned(w) = Append(w.told, TheFault)  BY <1>2 DEF Returned
  <2>2. TheFault.kind # "FrameReady"  BY DEF TheFault
  <2>3. Calm(Append(w.told, TheFault))  BY <2>2, CalmAppend
  <2> QED  BY <1>2, <2>1, <2>3, FramesOfCalm
<1> QED  BY <1>1, <1>2
-----------------------------------------------------------------------------
(* The invariant: what holds between calls.                                 *)

Kept(r, O, L, S, t) ==
  /\ Ordered(r) /\ Waiting(r) /\ Foreseen(r) /\ Tables(r) /\ Budget(r) /\ Timely(r, t)
  /\ Joined(r, O, L, S)
  /\ SettledBut(r, {}) /\ Quiet(r) /\ Gapped(r) /\ r.lastBeat \in Option

(* After a fault nothing is kept.                                           *)
Lost(r) ==
  /\ r.pending = <<>> /\ r.frames = <<>> /\ r.priors = <<>> /\ r.high = <<>> /\ r.bytes = 0

EpochInv ==
  /\ DOMAIN self = SelfFields /\ now \in Nat /\ log \in Seq(Event) /\ IsSeq(out)
  /\ fault = NoFault  => Kept(self, out, log, seen, now)
  /\ fault # NoFault  => Lost(self)

Same(r, v) == \A x \in SelfFields : v[x] = r[x]

LEMMA SameKept ==
  ASSUME NEW r, NEW v, Same(r, v), NEW O, NEW L, NEW S, NEW t, Kept(r, O, L, S, t)
  PROVE  Kept(v, O, L, S, t)
<1>1. /\ SameFrames(v, r) /\ v.pending = r.pending /\ v.bytes = r.bytes /\ v.next = r.next
      /\ v.lastBeat = r.lastBeat /\ v.gapAt = r.gapAt
  BY DEF Same, SelfFields, SameFrames
<1>2. Joined(v, O, L, S)
  <2>1. \A g : SameFolds(L, L, g)  BY DEF SameFolds
  <2> QED  BY <1>1, <2>1, JoinedSame DEF Kept
<1>3. Ordered(v) /\ Waiting(v) /\ Tables(v) /\ Timely(v, t)
  BY ONLY <1>1, Kept(r, O, L, S, t) DEF Kept, SameFrames, Ordered, Waiting, Tables, Timely
<1>4. Foreseen(v) /\ Budget(v) /\ Gapped(v) /\ v.lastBeat \in Option
  BY ONLY <1>1, Kept(r, O, L, S, t) DEF Kept, SameFrames, Foreseen, Final, Budget, Gapped
<1>5. SettledBut(v, {}) /\ Quiet(v)
  <2>1. OldestOpen(v) = OldestOpen(r)  BY ONLY <1>1 DEF SameFrames, OldestOpen
  <2> QED  BY ONLY <1>1, <2>1, Kept(r, O, L, S, t) DEF Kept, SameFrames, SettledBut, Quiet
<1> QED  BY <1>2, <1>3, <1>4, <1>5 DEF Kept

LEMMA KeptWhenSteady ==
  ASSUME NEW w, NEW S, NEW t, Steady(w, S, t), w.error = None, Gapped(w)
  PROVE  Kept(w, OutWith(w), LogWith(w), S, t)
BY DEF Kept, Steady, Running, Sequenced

(* begin_call lets nothing overdue through.                                 *)
LEMMA Punctual ==
  ASSUME NEW t \in Times, BeginError(t) = None
  PROVE  /\ ~(t < now) /\ ~Expired(self.gapAt, t, Limits.reorderDeadline)
         /\ Overdue(t) = {} /\ ~Expired(HeartbeatBase, t, HeartbeatWindow)
BY FaultNames DEF BeginError, AssemblyFaults

LEMMA StillTimely ==
  ASSUME NEW r, NEW t \in Nat, Waiting(r), Tables(r), SettledBut(r, {}), Gapped(r),
         ~Expired(r.gapAt, t, Limits.reorderDeadline),
         \A f \in DOMAIN r.frames :
           ~r.frames[f].ready => ~Expired(r.frames[f].seenAt, t, Limits.frameDeadline)
  PROVE  Timely(r, t)
<1> DEFINE Ats == {r.pending[q].at : q \in DOMAIN r.pending}
           d == Limits.reorderDeadline
<1>1. d \in Nat /\ Limits.frameDeadline \in Nat  BY LimitsAssumption
<1>2. \A q \in DOMAIN r.pending : r.pending[q].at \in Nat  BY DEF Waiting, Entry
<1>3. ASSUME NEW q \in DOMAIN r.pending PROVE t - r.pending[q].at < d
  <2>1. Ats \in SUBSET Nat /\ Ats # {} /\ r.pending[q].at \in Ats  BY <1>2
  <2>2. r.gapAt = Min(Ats)  BY <2>1 DEF Gapped, Least
  <2>3. Min(Ats) = EventFold!Min(Ats)  BY DEF Min, EventFold!Min
  <2> HIDE DEF Ats
  <2>4. r.gapAt \in Nat /\ r.gapAt <= r.pending[q].at
    BY <2>1, <2>2, <2>3, EventFold!MinIs
  <2>5. r.gapAt # None  BY <2>4, EnvelopeAssumption
  <2>6. ~(t - r.gapAt >= d)  BY <2>5 DEF Expired
  <2> HIDE DEF d
  <2> QED  BY <1>1, <1>2, <2>4, <2>6
<1>4. ASSUME NEW f \in DOMAIN r.frames, ~IsReady(r.frames[f])
      PROVE  t - r.frames[f].seenAt < Limits.frameDeadline
  <2>1. ~r.frames[f].ready  BY <1>4 DEF SettledBut
  <2>2. r.frames[f].seenAt \in Nat /\ r.frames[f].seenAt # None
    BY EnvelopeAssumption DEF Tables
  <2>3. ~(t - r.frames[f].seenAt >= Limits.frameDeadline)  BY <2>1, <2>2 DEF Expired
  <2> QED  BY <1>1, <2>2, <2>3
<1> QED  BY <1>3, <1>4 DEF Timely

(* The fields a call begins with.                                           *)
Started == [x \in DOMAIN self \cup DOMAIN Scratch |->
              IF x \in DOMAIN self THEN self[x] ELSE Scratch[x]]

LEMMA StartedIs ==
  ASSUME DOMAIN self = SelfFields
  PROVE  /\ Work(Started) /\ Same(self, Started) /\ Started.error = None
         /\ Started.told = <<>> /\ Started.ready = <<>> /\ Started.processed = <<>>
BY DEF Started, Scratch, Work, WorkFields, SelfFields, Same

LEMMA NothingCalm == IsSeq(<<>>) /\ Calm(<<>>)
<1>1. <<>> \in Seq({})  OBVIOUS
<1> QED  BY <1>1 DEF IsSeq, Calm

LEMMA Begun ==
  ASSUME EpochInv, fault = NoFault, NEW t \in Times
  PROVE  LET v == Begin(t) IN
         /\ Steady(v, seen, t) /\ t \in Nat
         /\ v.error = None => Gapped(v) /\ t >= now
         /\ t >= now => OnClock(v, t)
<1>1. t \in Nat  BY LimitsAssumption
<1>2. /\ Work(Started) /\ Same(self, Started) /\ Started.error = None
      /\ Started.told = <<>> /\ Started.ready = <<>> /\ Started.processed = <<>>
  BY StartedIs DEF EpochInv
<1>3. CASE BeginError(t) = None
  <2>1. Begin(t) = Started  BY <1>3 DEF Begin, Started
  <2>2. Kept(Started, out, log, seen, now)  BY <1>2, SameKept DEF EpochInv
  <2>3. Started.gapAt = self.gapAt /\ Started.frames = self.frames
    BY <1>2 DEF Same, SelfFields
  <2>4. \A f \in DOMAIN Started.frames :
          ~Started.frames[f].ready => ~Expired(Started.frames[f].seenAt, t, Limits.frameDeadline)
    BY <1>3, <2>3, Punctual DEF Overdue
  <2>5. Timely(Started, t)
    BY <1>1, <1>3, <2>2, <2>3, <2>4, Punctual, StillTimely DEF Kept
  <2>6. OutWith(Started) = out /\ LogWith(Started) = log
    <3>1. PICK T : out \in Seq(T)  BY DEF EpochInv, IsSeq
    <3>2. [i \in DOMAIN <<>> |-> Started.processed[i].event] = <<>>  OBVIOUS
    <3>3. out \o <<>> = out /\ log \o <<>> = log  BY <3>1 DEF EpochInv
    <3> QED  BY <1>2, <3>2, <3>3 DEF OutWith, LogWith
  <2>7. Sequenced(Started)
    BY <1>2, <2>2, NothingCalm DEF Sequenced, EpochInv, Kept
  <2>8. Running(Started, seen, t)  BY <1>2, <2>2, <2>5, <2>6, <2>7 DEF Running, Kept
  <2>9. Steady(Started, seen, t) /\ Gapped(Started)
    BY <1>2, <2>2, <2>8, NothingCalm DEF Steady, Kept
  <2>10. t >= now  BY <1>1, <1>3, Punctual DEF EpochInv
  <2>11. OnClock(Started, t)
    <3> DEFINE b == self.lastBeat
               h == Limits.heartbeatDeadline
               i == Limits.initialHeartbeatDeadline
    <3>1. Started.lastBeat = b  BY <1>2 DEF Same, SelfFields
    <3>2. ~Expired(HeartbeatBase, t, HeartbeatWindow)  BY <1>3, Punctual
    <3>3. b \in Nat \cup {None} /\ None \notin Nat /\ 0 \in Nat /\ h \in Nat /\ i \in Nat
      BY LimitsAssumption, EnvelopeAssumption DEF EpochInv, Kept, Option
    <3>4. BeatHeard(Started, t)
      <4>1. CASE b = None
        <5>1. HeartbeatBase = 0 /\ HeartbeatWindow = i
          BY <4>1 DEF HeartbeatBase, HeartbeatWindow, StartedAt
        <5>2. 0 # None  BY <3>3
        <5>3. ~(t - 0 >= i)  BY <3>2, <5>1, <5>2 DEF Expired
        <5>4. t - 0 < i  BY <1>1, <3>3, <5>3
        <5> QED  BY <3>1, <4>1, <5>4 DEF BeatHeard, StartedAt
      <4>2. CASE b # None
        <5>1. HeartbeatBase = b /\ HeartbeatWindow = h
          BY <4>2 DEF HeartbeatBase, HeartbeatWindow
        <5>3. ~(t - b >= h)  BY <3>2, <4>2, <5>1 DEF Expired
        <5>4. t - b < h
          <6> HIDE DEF b, h
          <6> QED  BY <1>1, <3>3, <4>2, <5>3
        <5> QED  BY <3>1, <4>2, <5>4 DEF BeatHeard
      <4> QED  BY <4>1, <4>2
    <3> QED  BY <1>2, <3>4, NoneInOrder DEF OnClock, InOrder
  <2> QED  BY <1>1, <2>1, <2>9, <2>10, <2>11
<1>4. CASE BeginError(t) # None
  <2>1. PICK from : Begin(t) = Refuse(Started, BeginError(t), from)
    BY <1>4 DEF Begin, Started
  <2>2. Work(Begin(t)) /\ Begin(t).error # None /\ Begin(t).told = <<>>
    BY <1>2, <1>4, <2>1, Refused
  <2>3. t >= now => BeginError(t) # "MonotonicClockRegressed"
    BY <1>1, NoneInOrder DEF BeginError, EpochInv
  <2>4. t >= now => OnClock(Begin(t), t)
    BY <1>2, <2>1, <2>2, <2>3, RefusedInOrder DEF OnClock
  <2> QED  BY <1>1, <2>2, <2>4, NothingCalm DEF Steady
<1> QED  BY <1>3, <1>4

(* The latest of now and the time of the call.                              *)
LEMMA LatestIs ==
  ASSUME now \in Nat, NEW t \in Nat
  PROVE  Latest(t) = IF t >= now THEN t ELSE now
<1>1. {now, t} \in SUBSET Nat /\ {now, t} # {} /\ IsFiniteSet({now, t})
  <2>1. IsFiniteSet({now})  BY FS_Singleton
  <2>2. IsFiniteSet({now} \cup {t})  BY <2>1, FS_AddElement
  <2>3. {now, t} = {now} \cup {t}  OBVIOUS
  <2> QED  BY <2>2, <2>3
<1>2. Max({now, t}) = EventFold!Max({now, t})  BY DEF Max, EventFold!Max
<1>3. EventFold!IsFiniteSet({now, t})  BY <1>1, SumsAre
<1> DEFINE P == {now, t}
<1> HIDE DEF P
<1>4. EventFold!Max(P) \in P /\ \A y \in P : y <= EventFold!Max(P)
  BY ONLY <1>1, <1>3, EventFold!MaxIs DEF P
<1> QED  BY <1>2, <1>4 DEF Latest, P
LEMMA SeqConcat == \A s, r : IsSeq(s) /\ IsSeq(r) => IsSeq(s \o r)
<1> SUFFICES ASSUME NEW s, NEW r, IsSeq(s), IsSeq(r) PROVE IsSeq(s \o r)  OBVIOUS
<1>1. PICK T : s \in Seq(T)  BY DEF IsSeq
<1>2. PICK U : r \in Seq(U)  BY DEF IsSeq
<1>3. s \in Seq(T \cup U) /\ r \in Seq(T \cup U)  BY <1>1, <1>2
<1>4. s \o r \in Seq(T \cup U)  BY <1>3
<1> QED  BY <1>4 DEF IsSeq

LEMMA LogTyped ==
  ASSUME NEW w, log \in Seq(Event), w.processed \in Seq(Entry)
  PROVE  LogWith(w) \in Seq(Event)
<1> DEFINE E == [i \in DOMAIN w.processed |-> w.processed[i].event]
<1>1. DOMAIN w.processed = 1..Len(w.processed) /\ Len(w.processed) \in Nat
      /\ \A i \in 1..Len(w.processed) : w.processed[i].event \in Event
  <2>1. /\ DOMAIN w.processed = 1..Len(w.processed) /\ Len(w.processed) \in Nat
        /\ \A i \in 1..Len(w.processed) : w.processed[i] \in Entry
    OBVIOUS
  <2>2. \A p \in Entry : p.event \in Event  BY DEF Entry
  <2> QED  BY <2>1, <2>2
<1>2. E = [i \in 1..Len(w.processed) |-> w.processed[i].event]  BY <1>1
<1>3. [i \in 1..Len(w.processed) |-> w.processed[i].event] \in Seq(Event)  BY <1>1
<1> HIDE DEF E
<1>4. log \o E \in Seq(Event)  BY <1>2, <1>3
<1> QED  BY <1>4 DEF LogWith, E

(* A call that ends, with or without an error, leaves the invariant.        *)
LEMMA Ended ==
  ASSUME EpochInv, fault = NoFault, NEW t \in Nat, NEW observations, NEW w,
         Steady(w, seen \cup observations, t), w.error = None => Gapped(w) /\ t >= now,
         Finish(w, t, observations)
  PROVE  EpochInv'
<1>1. now \in Nat /\ DOMAIN self = SelfFields /\ log \in Seq(Event) /\ IsSeq(out)  BY DEF EpochInv
<1>2. now' = IF t >= now THEN t ELSE now  BY <1>1, LatestIs DEF Finish
<1>3. CASE w.error = None
  <2>1. Running(w, seen \cup observations, t)  BY <1>3 DEF Steady
  <2>2. IsSeq(w.ready) /\ w.processed \in Seq(Entry)  BY <2>1 DEF Running, Sequenced
  <2>3. /\ self' = Restrict(w, DOMAIN self) /\ log' = LogWith(w)
        /\ seen' = seen \cup observations /\ fault' = fault /\ now' = t
    BY <1>2, <1>3 DEF Finish, LogWith
  <2>4. out' = OutWith(w)
    <3>1. FramesOf(Returned(w)) = w.ready  BY <1>3, <2>2, FramesReturned DEF Steady
    <3> QED  BY <3>1 DEF Finish, OutWith
  <2>5. DOMAIN self' = SelfFields /\ Same(w, self')  BY <1>1, <2>3 DEF Restrict, Same
  <2>6. Kept(w, OutWith(w), LogWith(w), seen \cup observations, t)
    BY <1>3, KeptWhenSteady
  <2>7. Kept(self', OutWith(w), LogWith(w), seen \cup observations, t)
    BY ONLY <2>5, <2>6, SameKept
  <2>8. Kept(self, out, log, seen, now)'  BY ONLY <2>3, <2>4, <2>7
  <2>9. log' \in Seq(Event) /\ IsSeq(out)' /\ (now \in Nat)' /\ (DOMAIN self = SelfFields)'
    <3>1. LogWith(w) \in Seq(Event)  BY <1>1, <2>2, LogTyped
    <3>2. IsSeq(OutWith(w))  BY <1>1, <2>2, SeqConcat DEF OutWith
    <3>3. IsSeq(out')  BY ONLY <2>4, <3>2
    <3> QED  BY <2>3, <2>5, <3>1, <3>3
  <2>10. (fault = NoFault)'  BY <2>3 DEF NoFault
  <2> QED  BY <2>8, <2>9, <2>10 DEF EpochInv
<1>4. CASE w.error # None
  <2>1. /\ self' = Restrict(Wiped(w), DOMAIN self) /\ log' = log /\ seen' = seen
        /\ fault' = [kind |-> w.error, from |-> w.from, at |-> Latest(t)]
    BY <1>4 DEF Finish
  <2>2. out' = out
    <3>1. FramesOf(Returned(w)) = <<>>  BY <1>4, FramesReturned DEF Steady
    <3>2. out' = out \o FramesOf(Returned(w))  BY DEF Finish
    <3>3. PICK T : out \in Seq(T)  BY <1>1 DEF IsSeq
    <3>4. out \o <<>> = out  BY <3>3
    <3> QED  BY <3>1, <3>2, <3>4
  <2>3. (fault # NoFault)'
    <3>1. "at" \in DOMAIN fault' /\ "at" \notin DOMAIN NoFault  BY <2>1 DEF NoFault
    <3> QED  BY <3>1 DEF NoFault
  <2>4. DOMAIN self' = SelfFields /\ Lost(self')
    <3>1. Work(w)  BY DEF Steady
    <3>2. \A x \in SelfFields : self'[x] = Wiped(w)[x]  BY <1>1, <2>1 DEF Restrict
    <3>3. Lost(Wiped(w))  BY <3>1 DEF Lost, Wiped, Work, WorkFields, SelfFields
    <3> QED  BY <1>1, <2>1, <3>2, <3>3 DEF Lost, SelfFields, Restrict
  <2>5. Lost(self)'  BY ONLY <2>4
  <2>6. (DOMAIN self = SelfFields)' /\ (now \in Nat)' /\ (log \in Seq(Event))' /\ IsSeq(out)'
    <3>1. IsSeq(out')  BY <1>1, <2>2
    <3> QED  BY <1>1, <1>2, <2>1, <2>4, <3>1
  <2> QED  BY <2>3, <2>5, <2>6 DEF EpochInv
<1> QED  BY <1>3, <1>4

LEMMA InvInitially == New => EpochInv
<1> SUFFICES ASSUME New PROVE EpochInv  OBVIOUS
<1>1. /\ DOMAIN self = SelfFields /\ now = 0 /\ log = <<>> /\ out = <<>> /\ seen = {}
      /\ fault = NoFault
  BY DEF New, SelfFields, StartedAt
<1>2. /\ self.pending = <<>> /\ self.frames = <<>> /\ self.priors = <<>> /\ self.high = <<>>
      /\ self.bytes = 0 /\ self.next = 1 /\ self.gapAt = None /\ self.lastMonitor = None
      /\ self.lastSummary = None /\ self.lastFinalized = None /\ self.lastBeat = None
  BY DEF New
<1>3. DOMAIN <<>> = {} /\ IsFiniteSet({}) /\ Cardinality({}) = 0  BY FS_EmptySet
<1>4. /\ Limits.reorderEvents \in Nat /\ Limits.openFrames \in Nat /\ Limits.priors \in Nat
      /\ Limits.observationStreams \in Nat /\ Limits.bytes \in Nat
  BY LimitsAssumption
<1>5. DOMAIN self.pending = {} /\ DOMAIN self.frames = {} /\ DOMAIN self.priors = {}
      /\ DOMAIN self.high = {}
  BY <1>2, <1>3
<1>6. Ordered(self) /\ Foreseen(self) /\ Timely(self, now) /\ SettledBut(self, {})
  BY <1>2, <1>5 DEF Ordered, Option, Foreseen, Timely, SettledBut
<1>7. Waiting(self) /\ Tables(self)  BY <1>2, <1>3, <1>4, <1>5 DEF Waiting, Tables
<1>8. Budget(self)
  <2>1. Total(self.pending) = 0 /\ Total(self.frames) = 0  BY <1>5, TotalEmpty
  <2> QED  BY <1>2, <1>4, <2>1 DEF Budget
<1>9. Gapped(self) /\ Quiet(self)
  BY <1>2, <1>5 DEF Gapped, Quiet, OldestOpen, Least
<1>10. Joined(self, out, log, seen)
  <2>1. \A f : Untouched(log, seen, f)  BY <1>1, EmptyLog DEF Untouched, EvidenceIn
  <2>2. \A f : ~Final(self, f)  BY <1>2 DEF Final
  <2>3. DOMAIN out = {}  BY <1>1, <1>3
  <2> QED  BY <1>5, <2>1, <2>2, <2>3 DEF Joined, Done, SummedUp
<1>11. IsSeq(out) /\ log \in Seq(Event)  BY <1>1, NothingCalm
<1> QED
  BY <1>1, <1>2, <1>6, <1>7, <1>8, <1>9, <1>10, <1>11 DEF EpochInv, Kept, Option

(* A call, up to its end.                                                   *)
Call(w, t, observations) ==
  /\ fault = NoFault /\ t \in Nat
  /\ observations = {} \/ \E o : observations = {o}
  /\ Steady(w, seen \cup observations, t)
  /\ w.error = None => Gapped(w) /\ t >= now
  /\ t >= now => OnClock(w, t)
  /\ Finish(w, t, observations)

Unmoved == UNCHANGED <<self, now, fault, taken>>

LEMMA ActionsCall ==
  ASSUME EpochInv, NEW t \in Times
  PROVE  /\ \A env \in MonitorEnvelopes :
              IngestMonitor(env, t) => \E w : Call(w, t, {})
         /\ \A env \in ObservationEnvelopes :
              IngestObservation(env, t) => \E w : Call(w, t, {env.observation})
         /\ AdvanceTime(t) => \E w : Call(w, t, {})
<1>1. ASSUME NEW env \in MonitorEnvelopes, IngestMonitor(env, t)
      PROVE  \E w : Call(w, t, {})
  <2> DEFINE w == Begin(t)
             v == TakeMonitor(w, env, t)
  <2>1. fault = NoFault /\ Finish(v, t, {})  BY <1>1 DEF IngestMonitor
  <2>2. /\ Steady(w, seen, t) /\ t \in Nat /\ (w.error = None => Gapped(w) /\ t >= now)
        /\ (t >= now => OnClock(w, t))
    BY <2>1, Begun
  <2> HIDE DEF w
  <2>3. /\ Steady(v, seen, t) /\ (v.error = None => Gapped(v) /\ w.error = None)
        /\ (OnClock(w, t) => OnClock(v, t))
    <3>1. CASE w.error = None  BY <2>2, <3>1, MonitorTaken
    <3>2. CASE w.error # None
      <4>1. v = w  BY <3>2 DEF TakeMonitor
      <4> QED  BY <2>2, <3>2, <4>1
    <3> QED  BY <3>1, <3>2
  <2> HIDE DEF v
  <2>4. seen \cup {} = seen  OBVIOUS
  <2>5. Call(v, t, {})  BY <2>1, <2>2, <2>3, <2>4 DEF Call
  <2> QED  BY <2>5
<1>2. ASSUME NEW env \in ObservationEnvelopes, IngestObservation(env, t)
      PROVE  \E w : Call(w, t, {env.observation})
  <2> DEFINE w == Begin(t)
             v == TakeObservation(w, env, t)
  <2>1. fault = NoFault /\ Finish(v, t, {env.observation})  BY <1>2 DEF IngestObservation
  <2>2. /\ Steady(w, seen, t) /\ t \in Nat /\ (w.error = None => Gapped(w) /\ t >= now)
        /\ (t >= now => OnClock(w, t))
    BY <2>1, Begun
  <2> HIDE DEF w
  <2>3. /\ Steady(v, seen \cup {env.observation}, t)
        /\ v.error = None => Gapped(v) /\ w.error = None
        /\ OnClock(w, t) => OnClock(v, t)
    <3>1. CASE w.error = None  BY <2>2, <3>1, ObservationTaken
    <3>2. CASE w.error # None
      <4>1. v = w  BY <3>2 DEF TakeObservation
      <4> QED  BY <2>2, <3>2, <4>1 DEF Steady
    <3> QED  BY <3>1, <3>2
  <2> HIDE DEF v
  <2>4. Call(v, t, {env.observation})  BY <2>1, <2>2, <2>3 DEF Call
  <2> QED  BY <2>4
<1>3. ASSUME AdvanceTime(t) PROVE \E w : Call(w, t, {})
  <2> DEFINE w == Begin(t)
  <2>1. fault = NoFault /\ Finish(w, t, {})  BY <1>3 DEF AdvanceTime
  <2>2. /\ Steady(w, seen, t) /\ t \in Nat /\ (w.error = None => Gapped(w) /\ t >= now)
        /\ (t >= now => OnClock(w, t))
    BY <2>1, Begun
  <2> HIDE DEF w
  <2>3. seen \cup {} = seen  OBVIOUS
  <2>4. Call(w, t, {})  BY <2>1, <2>2, <2>3 DEF Call
  <2> QED  BY <2>4
<1> QED  BY <1>1, <1>2, <1>3

LEMMA StepIsCall ==
  ASSUME EpochInv, [EpochNext]_epoch
  PROVE  \/ \E w, t, observations : Call(w, t, observations)
         \/ Unmoved /\ told' \in {<<>>, told}
<1>1. CASE AfterFault \/ UNCHANGED epoch  BY <1>1 DEF AfterFault, epoch, Unmoved
<1> QED  BY <1>1, ActionsCall DEF EpochNext

LEMMA InvStep == EpochInv /\ [EpochNext]_epoch => EpochInv'
<1> SUFFICES ASSUME EpochInv, [EpochNext]_epoch PROVE EpochInv'  OBVIOUS
<1>1. ASSUME NEW w, NEW t, NEW observations, Call(w, t, observations) PROVE EpochInv'
  BY <1>1, Ended DEF Call
<1>2. CASE Unmoved
  <2>1. self' = self /\ now' = now /\ fault' = fault /\ log' = log /\ seen' = seen /\ out' = out
    BY <1>2 DEF Unmoved, taken
  <2>2. Kept(self, out, log, seen, now)' <=> Kept(self, out, log, seen, now)  BY ONLY <2>1
  <2>3. Lost(self)' <=> Lost(self)  BY ONLY <2>1
  <2>4. IsSeq(out)' <=> IsSeq(out)  BY ONLY <2>1
  <2> QED  BY <2>1, <2>2, <2>3, <2>4 DEF EpochInv, NoFault
<1> QED  BY <1>1, <1>2, StepIsCall

(* The invariant of the assembler: between calls every frame holds exactly  *)
(* what both routes have brought of it, bytes and tables are accounted for, *)
(* nothing that waits is overdue, and a fault leaves nothing behind         *)
(* (ingest_monitor_envelope, ingest_observation_envelope, advance_time).    *)
THEOREM Invariant == EpochSpec => []EpochInv
<1>1. New => EpochInv  BY InvInitially
<1>2. EpochInv /\ [EpochNext]_epoch => EpochInv'  BY InvStep
<1> QED  BY <1>1, <1>2, PTL DEF EpochSpec
-----------------------------------------------------------------------------
(* What follows from the invariant, between calls.                          *)

LEMMA InvAccounts == EpochInv => BuffersAccounted
<1> SUFFICES ASSUME EpochInv PROVE BuffersAccounted  OBVIOUS
<1>1. PendingBytes = Total(self.pending) /\ FrameBytes = Total(self.frames)
  BY DEF PendingBytes, FrameBytes, Total
<1>2. CASE fault = NoFault
  <2>1. Kept(self, out, log, seen, now)  BY <1>2 DEF EpochInv
  <2>2. self.bytes = PendingBytes + FrameBytes /\ self.bytes <= Limits.bytes
    BY <1>1, <2>1 DEF Kept, Budget
  <2>3. \A q \in DOMAIN self.pending : q > self.next /\ q - self.next <= Limits.reorderDistance
    BY <2>1 DEF Kept, Waiting, Gapped
  <2> QED  BY <2>1, <2>2, <2>3 DEF Kept, Waiting, Tables, BuffersAccounted
<1>3. CASE fault # NoFault
  <2>1. /\ self.pending = <<>> /\ self.frames = <<>> /\ self.priors = <<>> /\ self.high = <<>>
        /\ self.bytes = 0
    BY <1>3 DEF EpochInv, Lost
  <2>2. DOMAIN <<>> = {} /\ Cardinality({}) = 0  BY FS_EmptySet
  <2>3. Total(self.pending) = 0 /\ Total(self.frames) = 0  BY <2>1, <2>2, TotalEmpty
  <2>4. /\ Limits.reorderEvents \in Nat /\ Limits.openFrames \in Nat /\ Limits.priors \in Nat
        /\ Limits.observationStreams \in Nat /\ Limits.bytes \in Nat
    BY LimitsAssumption
  <2>5. Cardinality(DOMAIN <<>>) = 0  BY <2>2
  <2> QED  BY <1>1, <2>1, <2>2, <2>3, <2>4, <2>5 DEF BuffersAccounted
<1> QED  BY <1>2, <1>3

(* The byte budget is exactly what waits and what the open frames hold, and *)
(* no table outgrows its limit, whatever is reserved, drained, moved to a   *)
(* frame or released (ByteBudget, drain_monitor, drain_ready_frames).       *)
THEOREM BudgetExact == EpochSpec => []BuffersAccounted
BY Invariant, InvAccounts, PTL

LEMMA InvPunctual == EpochInv => DeadlinesKept
<1> SUFFICES ASSUME EpochInv, fault = NoFault
             PROVE  /\ \A q \in DOMAIN self.pending :
                         ~Expired(self.pending[q].at, now, Limits.reorderDeadline)
                    /\ Overdue(now) = {}
  BY DEF DeadlinesKept
<1>1. Kept(self, out, log, seen, now) /\ now \in Nat  BY DEF EpochInv
<1>2. Limits.reorderDeadline \in Nat /\ Limits.frameDeadline \in Nat  BY LimitsAssumption
<1>3. ASSUME NEW q \in DOMAIN self.pending
      PROVE  ~Expired(self.pending[q].at, now, Limits.reorderDeadline)
  <2>1. self.pending[q].at \in Nat /\ now - self.pending[q].at < Limits.reorderDeadline
    BY <1>1 DEF Kept, Waiting, Entry, Timely
  <2> QED  BY <1>1, <1>2, <2>1 DEF Expired
<1>4. ASSUME NEW f \in DOMAIN self.frames, ~self.frames[f].ready
      PROVE  ~Expired(self.frames[f].seenAt, now, Limits.frameDeadline)
  <2>1. self.frames[f].seenAt \in Nat /\ now - self.frames[f].seenAt < Limits.frameDeadline
    BY <1>1, <1>4 DEF Kept, Tables, Timely, SettledBut
  <2> QED  BY <1>1, <1>2, <2>1 DEF Expired
<1> QED  BY <1>3, <1>4 DEF Overdue

(* After any call that does not fault no event that waits for a gap and no  *)
(* frame that waits for evidence is past its deadline, even a frame whose   *)
(* first sight was buffered long before (begin_call).                       *)
THEOREM NothingOverdue == EpochSpec => []DeadlinesKept
BY Invariant, InvPunctual, PTL

(* The deadlines there are.                                                 *)
GapEnds == IF self.gapAt = None THEN {} ELSE {self.gapAt + Limits.reorderDeadline}
FrameEnds == {self.frames[f].seenAt + Limits.frameDeadline :
                f \in {g \in DOMAIN self.frames : ~self.frames[g].ready}}
Ends == {HeartbeatBase + HeartbeatWindow} \cup GapEnds \cup FrameEnds

LEMMA EndsAre ==
  ASSUME Kept(self, out, log, seen, now)
  PROVE  /\ Ends \in SUBSET Nat /\ Ends # {}
         /\ HeartbeatBase \in Nat /\ HeartbeatWindow \in Nat
         /\ self.gapAt \in Option
         /\ \A f \in DOMAIN self.frames : self.frames[f].seenAt \in Nat
<1>1. HeartbeatBase \in Nat /\ HeartbeatWindow \in Nat
  BY LimitsAssumption DEF Kept, Option, HeartbeatBase, HeartbeatWindow, StartedAt
<1>2. self.gapAt \in Option
  <2> DEFINE Ats == {self.pending[q].at : q \in DOMAIN self.pending}
  <2>1. Ats \in SUBSET Nat  BY DEF Kept, Waiting, Entry
  <2>2. self.gapAt = IF Ats = {} THEN None ELSE Min(Ats)  BY DEF Kept, Gapped, Least
  <2>3. Min(Ats) = EventFold!Min(Ats)  BY DEF Min, EventFold!Min
  <2> HIDE DEF Ats
  <2> QED  BY <2>1, <2>2, <2>3, EventFold!MinIs DEF Option
<1>3. \A f \in DOMAIN self.frames : self.frames[f].seenAt \in Nat  BY DEF Kept, Tables
<1>4. Limits.reorderDeadline \in Nat /\ Limits.frameDeadline \in Nat  BY LimitsAssumption
<1>5. GapEnds \in SUBSET Nat  BY <1>2, <1>4 DEF GapEnds, Option
<1>6. FrameEnds \in SUBSET Nat  BY <1>3, <1>4 DEF FrameEnds
<1> QED  BY <1>1, <1>2, <1>3, <1>5, <1>6 DEF Ends

LEMMA NextDeadlineIs ==
  ASSUME Kept(self, out, log, seen, now), NEW t \in Nat
  PROVE  t >= NextDeadlineAt <=>
           \/ Expired(self.gapAt, t, Limits.reorderDeadline)
           \/ Overdue(t) # {}
           \/ Expired(HeartbeatBase, t, HeartbeatWindow)
<1>1. NextDeadlineAt = Min(Ends)  BY DEF NextDeadlineAt, Ends, GapEnds, FrameEnds
<1>2. Min(Ends) = EventFold!Min(Ends)  BY DEF Min, EventFold!Min
<1>3. Ends \in SUBSET Nat /\ Ends # {}  BY EndsAre
<1>4. NextDeadlineAt \in Ends /\ \A y \in Ends : NextDeadlineAt <= y
  BY ONLY <1>1, <1>2, <1>3, EventFold!MinIs
<1>5. t >= NextDeadlineAt <=> \E y \in Ends : t >= y
  <2> DEFINE m == NextDeadlineAt
  <2> HIDE DEF m
  <2>1. m \in Ends /\ m \in Nat /\ \A y \in Ends : y \in Nat /\ m <= y  BY <1>3, <1>4 DEF m
  <2>2. t >= m <=> \E y \in Ends : t >= y  BY ONLY <2>1, t \in Nat
  <2> QED  BY <2>2 DEF m
<1>6. Limits.reorderDeadline \in Nat /\ Limits.frameDeadline \in Nat  BY LimitsAssumption
<1>7. (\E y \in GapEnds : t >= y) <=> Expired(self.gapAt, t, Limits.reorderDeadline)
  BY <1>6, EndsAre DEF GapEnds, Option, Expired
<1>8. (\E y \in FrameEnds : t >= y) <=> Overdue(t) # {}
  <2>1. \A f \in DOMAIN self.frames :
          self.frames[f].seenAt \in Nat /\ self.frames[f].seenAt # None
    BY EndsAre, EnvelopeAssumption
  <2>2. \A f \in DOMAIN self.frames :
          t >= self.frames[f].seenAt + Limits.frameDeadline <=>
            Expired(self.frames[f].seenAt, t, Limits.frameDeadline)
    BY <1>6, <2>1 DEF Expired
  <2> QED  BY <2>2 DEF FrameEnds, Overdue
<1>9. t >= HeartbeatBase + HeartbeatWindow <=> Expired(HeartbeatBase, t, HeartbeatWindow)
  BY EndsAre, EnvelopeAssumption DEF Expired
<1> QED  BY <1>5, <1>7, <1>8, <1>9 DEF Ends

LEMMA InvTight == EpochInv => NextDeadlineTight
<1> SUFFICES ASSUME EpochInv, fault = NoFault, NEW t \in Times, t >= now
             PROVE  BeginError(t) \in {"MonitorSequenceGap", "FrameDeadlineExpired",
                                       "HeartbeatDeadlineExpired"}
                      <=> BeginError(t) # "MonotonicDeadlineOverflow" /\ t >= NextDeadlineAt
  BY DEF NextDeadlineTight
<1>1. Kept(self, out, log, seen, now) /\ now \in Nat /\ t \in Nat
  BY LimitsAssumption DEF EpochInv
<1>2. ~(t < now)  BY <1>1
<1> DEFINE Late == \/ Expired(self.gapAt, t, Limits.reorderDeadline)
                   \/ Overdue(t) # {}
                   \/ Expired(HeartbeatBase, t, HeartbeatWindow)
           Named == BeginError(t) \in {"MonitorSequenceGap", "FrameDeadlineExpired",
                                       "HeartbeatDeadlineExpired"}
<1>3. t >= NextDeadlineAt <=> Late  BY <1>1, NextDeadlineIs
<1>4. None \notin {"MonitorSequenceGap", "FrameDeadlineExpired", "HeartbeatDeadlineExpired"}
  BY EnvelopeAssumption DEF AssemblyFaults
<1>5. CASE BeginError(t) = "MonotonicDeadlineOverflow"  BY <1>5
<1>6. CASE BeginError(t) # "MonotonicDeadlineOverflow"
  <2>1. Named => Late  BY <1>4 DEF BeginError
  <2>2. Late => Named  BY <1>2, <1>6 DEF BeginError
  <2> HIDE DEF Late, Named
  <2>3. Named <=> t >= NextDeadlineAt  BY <1>3, <2>1, <2>2
  <2> QED  BY <1>6, <2>3 DEF Named
<1> QED  BY <1>5, <1>6

(* next_deadline_at is the first instant at which advance_time reports a    *)
(* missed deadline: whoever sleeps until then neither misses one nor wakes  *)
(* for nothing (next_deadline_at against begin_call).                       *)
THEOREM DeadlineTold == EpochSpec => []NextDeadlineTight
BY Invariant, InvTight, PTL
-----------------------------------------------------------------------------
(* Time that does not go back, between calls.                               *)

Forward ==
  /\ fault = NoFault => BeatHeard(self, now)
  /\ fault # NoFault => fault.kind # "MonotonicClockRegressed"

(* A caller who waits for the deadline it was told of never calls too early.*)
LEMMA DeadlineAhead ==
  ASSUME EpochInv, fault = NoFault, BeatHeard(self, now)
  PROVE  NextDeadlineAt \in Nat /\ now < NextDeadlineAt
<1>1. Kept(self, out, log, seen, now) /\ now \in Nat  BY DEF EpochInv
<1>2. Timely(self, now) /\ Waiting(self) /\ SettledBut(self, {}) /\ Gapped(self)
  BY <1>1 DEF Kept
<1> DEFINE d == Limits.reorderDeadline
           e == Limits.frameDeadline
<1>3. d \in Nat /\ e \in Nat  BY LimitsAssumption
<1>4. ~Expired(self.gapAt, now, d)
  <2> DEFINE Ats == {self.pending[q].at : q \in DOMAIN self.pending}
  <2>1. Ats \in SUBSET Nat  BY <1>2 DEF Waiting, Entry
  <2>2. self.gapAt = IF Ats = {} THEN None ELSE Min(Ats)  BY <1>2 DEF Gapped, Least
  <2>3. Min(Ats) = EventFold!Min(Ats)  BY DEF Min, EventFold!Min
  <2>4. \A at \in Ats : now - at < d  BY <1>2 DEF Timely
  <2> HIDE DEF Ats, d
  <2>5. self.gapAt # None => self.gapAt \in Nat /\ now - self.gapAt < d
    BY <2>1, <2>2, <2>3, <2>4, EventFold!MinIs
  <2> QED  BY <1>1, <1>3, <2>5 DEF Expired
<1>5. Overdue(now) = {}
  <2> SUFFICES ASSUME NEW f \in DOMAIN self.frames, ~self.frames[f].ready
               PROVE  ~Expired(self.frames[f].seenAt, now, e)
    BY DEF Overdue
  <2>1. ~IsReady(self.frames[f])  BY <1>2 DEF SettledBut
  <2>2. now - self.frames[f].seenAt < e  BY <1>2, <2>1 DEF Timely
  <2>3. self.frames[f].seenAt \in Nat  BY <1>1, EndsAre
  <2> HIDE DEF e
  <2> QED  BY <1>1, <1>3, <2>2, <2>3 DEF Expired
<1>6. ~Expired(HeartbeatBase, now, HeartbeatWindow)
  <2>1. HeartbeatBase \in Nat /\ HeartbeatWindow \in Nat  BY <1>1, EndsAre
  <2>2. now - HeartbeatBase < HeartbeatWindow
    BY DEF BeatHeard, HeartbeatBase, HeartbeatWindow
  <2> QED  BY <1>1, <2>1, <2>2 DEF Expired
<1>7. NextDeadlineAt \in Nat
  <2>1. NextDeadlineAt = Min(Ends)  BY DEF NextDeadlineAt, Ends, GapEnds, FrameEnds
  <2>2. Min(Ends) = EventFold!Min(Ends)  BY DEF Min, EventFold!Min
  <2>3. Ends \in SUBSET Nat /\ Ends # {}  BY <1>1, EndsAre
  <2> QED  BY ONLY <2>1, <2>2, <2>3, EventFold!MinIs
<1>8. ~(now >= NextDeadlineAt)  BY <1>1, <1>4, <1>5, <1>6, NextDeadlineIs
<1> DEFINE m == NextDeadlineAt
<1> HIDE DEF m
<1>9. m \in Nat /\ ~(now >= m)  BY <1>7, <1>8 DEF m
<1>10. now < m  BY ONLY <1>1, <1>9
<1> QED  BY <1>9, <1>10 DEF m

(* A call at an instant that is not in the past keeps time going forward.   *)
LEMMA CallForward ==
  ASSUME EpochInv, Prompt, NEW t, t >= now, NEW observations, NEW w, Call(w, t, observations)
  PROVE  Forward'
<1>1. /\ fault = NoFault /\ t \in Nat /\ now \in Nat /\ OnClock(w, t)
      /\ Finish(w, t, observations) /\ DOMAIN self = SelfFields
      /\ Work(w) \/ w.error # None
  BY DEF Call, EpochInv, Steady
<1>2. now' = t  BY <1>1, LatestIs DEF Finish
<1>3. CASE w.error = None
  <2>1. self' = Restrict(w, DOMAIN self) /\ fault' = fault  BY <1>1, <1>3 DEF Finish
  <2>2. self'.lastBeat = w.lastBeat  BY <1>1, <2>1 DEF Restrict, SelfFields
  <2>3. BeatHeard(w, t)  BY <1>1, <1>3 DEF OnClock
  <2>4. fault' = NoFault  BY <1>1, <2>1
  <2> QED  BY <1>2, <2>2, <2>3, <2>4 DEF Forward, BeatHeard, NoFault
<1>4. CASE w.error # None
  <2>1. fault' = [kind |-> w.error, from |-> w.from, at |-> Latest(t)]
    BY <1>1, <1>4 DEF Finish
  <2>2. fault'.kind # "MonotonicClockRegressed"  BY <1>1, <2>1 DEF OnClock, InOrder
  <2>3. (fault # NoFault)'
    <3>1. "at" \in DOMAIN fault' /\ "at" \notin DOMAIN NoFault  BY <2>1 DEF NoFault
    <3> QED  BY <3>1 DEF NoFault
  <2> QED  BY <2>2, <2>3 DEF Forward
<1> QED  BY <1>3, <1>4
-----------------------------------------------------------------------------
(* Nothing complete is withheld.                                            *)

LEMMA PromiseIs ==
  \A f : /\ Promise!Summaries(f) = SummariesIn(log, f)
         /\ Promise!Matched(f) <=> MatchedIn(EventsIn(log, f), EvidenceIn(seen, f))
<1> SUFFICES ASSUME NEW f
             PROVE  Promise!Matched(f) <=> MatchedIn(EventsIn(log, f), EvidenceIn(seen, f))
  BY PromiseFoldsAre
<1> DEFINE events == EventsIn(log, f)
<1>1. Promise!Events(f) = events /\ Promise!Evidence(f) = EvidenceIn(seen, f)
  BY PromiseFoldsAre DEF Promise!Evidence, EvidenceIn
<1> HIDE DEF events
<1>2. \A S : Promise!Cardinality(S) = Cardinality(S)
  BY DEF Promise!Cardinality, Cardinality
<1>3. Promise!Matched(f) <=> MatchedIn(events, EvidenceIn(seen, f))
  BY <1>1, <1>2 DEF Promise!Matched, MatchedIn, Owes
<1> QED  BY <1>3 DEF events

(* The assembler knows a frame to be complete that is.                      *)
LEMMA ReadyWhenComplete ==
  ASSUME Kept(self, out, log, seen, now), NEW f \in DOMAIN self.frames \ Released, Complete(f)
  PROVE  self.frames[f].ready
<1> DEFINE frame == self.frames[f]
           summaries == SummariesIn(log, f)
<1>1. Len(summaries) = 1 /\ MatchedIn(EventsIn(log, f), EvidenceIn(seen, f))
  BY PromiseIs DEF Complete
<1>2. summaries # <<>>  BY <1>1
<1>3. f \in Nat /\ Joined(self, out, log, seen) /\ SettledBut(self, {})
  BY DEF Kept, Tables
<1>4. ~Final(self, f)  BY <1>2, <1>3 DEF Joined, SummedUp, Released
<1>5. FrameGood(self, f, log, seen)  BY <1>3 DEF Joined
<1>6. Gathered(self, f, log, seen)  BY <1>4, <1>5 DEF FrameGood
<1>7. frame.summary # None  BY <1>2, <1>6 DEF Gathered
<1>8. Balances(self, f) /\ frame.events \in Seq(Event) /\ IsFiniteSet(DOMAIN frame.observations)
  BY <1>4, <1>5, <1>7 DEF FrameGood
<1>9. /\ frame.events = EventsIn(log, f)
      /\ \A i \in DOMAIN frame.events : frame.events[i].kind \notin {"Heartbeat", "Summary"}
      /\ EvidenceIn(seen, f) = {frame.observations[p] : p \in DOMAIN frame.observations}
      /\ \A p \in DOMAIN frame.observations :
           p = <<frame.observations[p].track, frame.observations[p].modality>>
  BY <1>6 DEF Gathered, Promise!OfFrame
<1>10. LedgerError(frame.events, frame.summary) = None
       /\ frame.owed = Owed(frame.events, frame.summary)
  BY <1>8 DEF Balances
<1>11. Cardinality(Owes(frame.events)) = Cardinality(EvidenceIn(seen, f))
  BY <1>1, <1>9 DEF MatchedIn
<1> HIDE DEF frame, summaries
<1>12. Cardinality(DOMAIN frame.owed) = Cardinality(Owes(frame.events))
  BY <1>8, <1>9, <1>10, OwedSize
<1> DEFINE obs == frame.observations
<1> HIDE DEF obs
<1>13. Cardinality({obs[p] : p \in DOMAIN obs}) = Cardinality(DOMAIN obs)
  BY <1>8, <1>9, EvidenceSize DEF obs
<1>14. Cardinality(DOMAIN obs) = Cardinality(DOMAIN frame.owed)
  BY <1>9, <1>11, <1>12, <1>13 DEF obs
<1>15. IsReady(frame)  BY <1>7, <1>14 DEF IsReady, obs
<1> QED  BY <1>3, <1>15 DEF SettledBut, frame

LEMMA InvReleases == EpochInv => NothingWithheld
<1> SUFFICES ASSUME EpochInv, fault = NoFault, NEW f \in DOMAIN self.frames \ Released, Complete(f)
             PROVE  \E g \in DOMAIN self.frames : g < f /\ (~Complete(g) \/ g \in Released)
  BY DEF NothingWithheld
<1>1. Kept(self, out, log, seen, now)  BY DEF EpochInv
<1>2. self.frames[f].ready  BY <1>1, ReadyWhenComplete
<1> DEFINE g == OldestOpen(self)
<1>3. g \in DOMAIN self.frames /\ g <= f /\ g # None
  BY <1>1, OldestIs DEF Kept
<1>4. ~self.frames[g].ready  BY <1>1, <1>3 DEF Kept, Quiet
<1>5. ~Complete(g) \/ g \in Released  BY <1>1, <1>3, <1>4, ReadyWhenComplete
<1>6. g \in Nat /\ f \in Nat /\ g # f  BY <1>1, <1>2, <1>3, <1>4 DEF Kept, Tables
<1> QED  BY <1>3, <1>5, <1>6

(* A frame whose summary and owed observations have all arrived is held     *)
(* back only by an older frame that is not complete, or was released and is *)
(* claimed again, whichever route brought the last piece                    *)
(* (refresh_frame_readiness, drain_ready_frames).                           *)
THEOREM CompleteReleased == EpochSpec => []NothingWithheld
BY Invariant, InvReleases, PTL
-----------------------------------------------------------------------------
(* The assembler implements the join of the two routes.                     *)

(* What is out is what the join allows, in order and under distinct priors. *)
OutOrdered ==
  \A i, j \in DOMAIN out : i < j =>
    out[i].id.fusion < out[j].id.fusion /\ out[i].id.prior # out[j].id.prior

OutGood ==
  fault = NoFault => (\A i \in DOMAIN out : Promise!Releasable(out[i])) /\ OutOrdered

LEMMA PromiseReleasable ==
  ASSUME NEW x, ReleasableIn(x, log, seen) PROVE Promise!Releasable(x)
<1> DEFINE f == x.id.fusion
           events == EventsIn(log, f)
           summaries == SummariesIn(log, f)
           evidence == EvidenceIn(seen, f)
<1>1. /\ Len(summaries) = 1 /\ summaries[1].outcomes = Len(events)
      /\ \A i \in DOMAIN events : events[i].id = x.id
      /\ MatchedIn(events, evidence)
      /\ x = [id |-> summaries[1].id, events |-> events, observations |-> evidence,
              summary |-> summaries[1]]
  BY DEF ReleasableIn
<1>2. /\ Promise!Events(f) = events /\ Promise!Summaries(f) = summaries
      /\ Promise!Evidence(f) = evidence
  BY PromiseFoldsAre DEF Promise!Evidence, EvidenceIn
<1>3. Promise!Matched(f)  BY <1>1, PromiseIs
<1> HIDE DEF f, events, summaries, evidence
<1>4. x = Promise!Joined(f)  BY <1>1, <1>2 DEF Promise!Joined
<1>5. f = x.id.fusion  BY DEF f
<1> QED  BY <1>1, <1>2, <1>3, <1>4, <1>5 DEF Promise!Releasable

LEMMA InvOutGood == EpochInv => OutGood
<1> SUFFICES ASSUME EpochInv, fault = NoFault
             PROVE  (\A i \in DOMAIN out : Promise!Releasable(out[i])) /\ OutOrdered
  BY DEF OutGood
<1>1. Done(self, out, log, seen)  BY DEF EpochInv, Kept, Joined
<1>2. \A i \in DOMAIN out : Promise!Releasable(out[i])
  BY <1>1, PromiseReleasable DEF Done
<1>3. ASSUME NEW i \in DOMAIN out, NEW j \in DOMAIN out, i < j
      PROVE  out[i].id.fusion < out[j].id.fusion /\ out[i].id.prior # out[j].id.prior
  <2>1. out[i].id.fusion < out[j].id.fusion /\ out[i].id.fusion \in Nat
        /\ out[j].id.fusion \in Nat
    BY <1>1, <1>3 DEF Done
  <2>2. /\ self.priors[out[i].id.prior] = out[i].id.fusion
        /\ self.priors[out[j].id.prior] = out[j].id.fusion
    BY <1>1 DEF Done, KeepsId
  <2> QED  BY <2>1, <2>2
<1> QED  BY <1>2, <1>3 DEF OutOrdered

LEMMA PrefixOfConcat ==
  ASSUME NEW s, NEW r, IsSeq(s), IsSeq(r)
  PROVE  Promise!IsPrefixOf(s, s \o r)
<1>1. PICK T : s \in Seq(T)  BY DEF IsSeq
<1>2. PICK U : r \in Seq(U)  BY DEF IsSeq
<1>3. s \in Seq(T \cup U) /\ r \in Seq(T \cup U)  BY <1>1, <1>2
<1> DEFINE V == T \cup U
           z == s \o r
<1>4. z \in Seq(V) /\ Len(z) = Len(s) + Len(r) /\ Len(s) \in Nat /\ Len(r) \in Nat
  BY <1>3
<1>5. \A i \in 1..Len(s) : z[i] = s[i]  BY <1>3
<1> HIDE DEF z, V
<1>6. SubSeq(z, 1, Len(s)) = [i \in 1..Len(s) |-> z[i]]  BY <1>4
<1>7. s = [i \in 1..Len(s) |-> s[i]]  BY <1>1
<1>8. SubSeq(z, 1, Len(s)) = s  BY ONLY <1>5, <1>6, <1>7
<1> QED  BY <1>4, <1>8 DEF Promise!IsPrefixOf, z

LEMMA CallJoins ==
  ASSUME EpochInv, EpochInv', OutGood', NEW w, NEW t, NEW observations, Call(w, t, observations)
  PROVE  Promise!Next
<1>1. /\ fault = NoFault /\ Steady(w, seen \cup observations, t)
      /\ Finish(w, t, observations) /\ IsSeq(out) /\ log \in Seq(Event)
  BY DEF Call, EpochInv
<1>2. CASE w.error = None
  <2>1. Running(w, seen \cup observations, t)  BY <1>1, <1>2 DEF Steady
  <2>2. IsSeq(w.ready) /\ w.processed \in Seq(Entry)  BY <2>1 DEF Running, Sequenced
  <2> DEFINE E == [i \in DOMAIN w.processed |-> w.processed[i].event]
  <2>3. log' = log \o E /\ seen' = seen \cup observations /\ fault' = NoFault
    BY <1>1, <1>2 DEF Finish, NoFault
  <2>4. out' = out \o w.ready
    <3>1. FramesOf(Returned(w)) = w.ready  BY <1>1, <1>2, <2>2, FramesReturned DEF Steady
    <3> QED  BY <1>1, <3>1 DEF Finish
  <2>5. Promise!IsPrefixOf(out, out')  BY ONLY <1>1, <2>2, <2>4, PrefixOfConcat
  <2>6. Promise!IsPrefixOf(log, log')
    <3>1. IsSeq(E)
      <4>1. E = [i \in 1..Len(w.processed) |-> E[i]] /\ Len(w.processed) \in Nat  BY <2>2
      <4> HIDE DEF E
      <4>2. [i \in 1..Len(w.processed) |-> E[i]] \in Seq({E[i] : i \in 1..Len(w.processed)})
        BY <4>1
      <4> QED  BY <4>1, <4>2 DEF IsSeq
    <3>2. IsSeq(log)  BY <1>1 DEF IsSeq
    <3> HIDE DEF E
    <3> QED  BY ONLY <2>3, <3>1, <3>2, PrefixOfConcat
  <2>7. seen \subseteq seen' /\ Promise!Cardinality(seen' \ seen) <= 1
    <3>1. \A S : Promise!Cardinality(S) = Cardinality(S)
      BY DEF Promise!Cardinality, Cardinality
    <3>2. seen' \ seen = {} \/ \E o : seen' \ seen = {o}
      <4>1. CASE observations = {}  BY <2>3, <4>1
      <4>2. CASE \E o : observations = {o}
        <5>1. PICK o : observations = {o}  BY <4>2
        <5>2. seen' \ seen = IF o \in seen THEN {} ELSE {o}  BY <2>3, <5>1
        <5> QED  BY <5>2
      <4> QED  BY <4>1, <4>2 DEF Call
    <3>3. Cardinality({}) = 0 /\ \A o : Cardinality({o}) = 1  BY FS_EmptySet, FS_Singleton
    <3> DEFINE D == seen' \ seen
    <3> HIDE DEF D
    <3>4. Cardinality(D) <= 1
      <4>1. D = {} \/ \E o : D = {o}  BY <3>2 DEF D
      <4>2. Cardinality(D) \in {0, 1}  BY ONLY <3>3, <4>1
      <4> QED  BY <4>2
    <3> QED  BY <2>3, <3>1, <3>4 DEF D
  <2>8. (\A i \in DOMAIN out : Promise!Releasable(out[i]))' /\ OutOrdered'
    BY <2>3 DEF OutGood, NoFault
  <2>9. DOMAIN out' = 1..Len(out') /\ Len(out) \in Nat /\ Len(out') \in Nat
    <3>1. IsSeq(out')  BY <1>1, <2>2, <2>4, SeqConcat
    <3> QED  BY <1>1, <3>1 DEF IsSeq
  <2>10. \A i \in (Len(out) + 1)..Len(out') : Promise!Releasable(out[i])'
    BY <2>8, <2>9
  <2>11. \A i, j \in DOMAIN out' : i < j =>
           out'[i].id.fusion < out'[j].id.fusion /\ out'[i].id.prior # out'[j].id.prior
    BY <2>8 DEF OutOrdered
  <2>12. ~(fault # NoFault) /\ ~(fault # NoFault)'  BY <1>1, <2>3 DEF NoFault
  <2> QED
    BY <2>3, <2>5, <2>6, <2>7, <2>10, <2>11, <2>12 DEF Promise!Next, Promise!Take
<1>3. CASE w.error # None
  <2>1. log' = log /\ seen' = seen /\ fault' = [kind |-> w.error, from |-> w.from, at |-> Latest(t)]
    BY <1>1, <1>3 DEF Finish
  <2>2. out' = out
    <3>1. FramesOf(Returned(w)) = <<>>  BY <1>1, <1>3, FramesReturned DEF Steady
    <3>2. out' = out \o FramesOf(Returned(w))  BY <1>1 DEF Finish
    <3>3. PICK T : out \in Seq(T)  BY <1>1 DEF IsSeq
    <3>4. out \o <<>> = out  BY <3>3
    <3> QED  BY <3>1, <3>2, <3>4
  <2>3. (fault # NoFault)'
    <3>1. "at" \in DOMAIN fault' /\ "at" \notin DOMAIN NoFault  BY <2>1 DEF NoFault
    <3> QED  BY <3>1 DEF NoFault
  <2> QED  BY <1>1, <2>1, <2>2, <2>3 DEF Promise!Next, Promise!Die
<1> QED  BY <1>2, <1>3

(* Whatever order the events of either route arrive in, what the assembler  *)
(* releases is the sequence-order join of both, oldest frame first, each    *)
(* frame exact and no prior reused, and a failing call releases nothing     *)
(* (CrossRouteAssembler, finish_success, latch).                            *)
THEOREM JoinsRoutes == EpochSpec => ImplementsRouteJoin
<1>1. New => Promise!Init
  BY DEF New, Promise!Init
<1>2. EpochInv /\ EpochInv' /\ OutGood' /\ [EpochNext]_epoch => [Promise!Next]_(Promise!vars)
  <2> SUFFICES ASSUME EpochInv, EpochInv', OutGood', [EpochNext]_epoch PROVE [Promise!Next]_(Promise!vars)
    OBVIOUS
  <2>1. CASE Unmoved  BY <2>1 DEF Unmoved, taken, Promise!vars, NoFault
  <2>2. CASE \E w, t, observations : Call(w, t, observations)  BY <2>2, CallJoins
  <2> QED  BY <2>1, <2>2, StepIsCall
<1>3. EpochInv => OutGood  BY InvOutGood
<1>4. EpochSpec => []EpochInv  BY Invariant
<1> QED  BY <1>1, <1>2, <1>3, <1>4, PTL DEF EpochSpec, ImplementsRouteJoin, Promise!Spec
=============================================================================
