---------------------------- MODULE MonitorProofs -----------------------------
(***************************************************************************)
(* Theorems about MonitorIngress, for any numbers, capacities, distances   *)
(* and deadlines, and any defects payloads may have; the last one is about *)
(* MonitorTap, for any number of subscribers and closers.                  *)
(*                                                                         *)
(* The first part is about one IngressState s at a local time now, whoever *)
(* holds it: what Latched, Locked, Inserted, Drained and Refreshed make of *)
(* it.  The second follows the actions, and only looks at which of those   *)
(* an action leaves behind.                                                *)
(***************************************************************************)
EXTENDS MonitorIngress, MonitorTap, FiniteSetTheorems, WellFoundedInduction, TLAPS

Kinds    == IngressFaults \cup Defects
PendingT == UNION {[D -> Nat] : D \in SUBSET Nat}
IngressT == [cancelled : BOOLEAN, fault : Kinds \cup {None}, next : Nat, pending : PendingT,
             gap : Gaps \cup {None}, generation : Nat, lastOrdered : Nat, poisoned : BOOLEAN]
CommandT == [name : {"Idle", "Arm", "Stop"}, generation : Nat, deadline : Nat, unseen : BOOLEAN]
TimerT   == [pc : {"idle", "armed", "expiring", "returned", "died"},
             generation : Nat, deadline : Nat]
ConsumerT == [pc : Receiving \cup {"idle"}, waits : BOOLEAN, hand : Receipts \cup {None},
              faultUnseen : BOOLEAN, timed : BOOLEAN, told : Kinds \cup {None}]
CountsT  == [received : Nat, enqueued : Nat, discarded : Nat]
ChannelT == [queue : Seq(Receipts), open : BOOLEAN]

Live(s) == s.fault = None /\ ~s.cancelled

(* What is pending is ahead of the next number and not of the clock, and    *)
(* the gap is what the oldest of it proves.                                 *)
Ahead(s, now) ==
  \A q \in DOMAIN s.pending :
    s.next < q /\ q <= s.next + MaxReorderDistance /\ s.pending[q] <= now

Proved(s) ==
  /\ s.gap = None <=> s.pending = Nothing
  /\ s.gap # None =>
       /\ s.gap.expected = s.next
       /\ \A q \in DOMAIN s.pending : s.gap.deadline <= s.pending[q] + ReorderDeadline
       /\ \E q \in DOMAIN s.pending : s.gap.deadline = s.pending[q] + ReorderDeadline

WellPlaced(s, now) ==
  /\ s \in IngressT /\ s.lastOrdered <= now
  /\ Live(s) => Ahead(s, now) /\ Proved(s)

-----------------------------------------------------------------------------
(* Numbers.                                                                 *)

LEMMA Limits ==
  /\ MaxReorderDistance \in Nat /\ ReorderDeadline \in Nat /\ ReorderDeadline > 0
  /\ MaxClock \in Nat /\ HandoffCapacity \in Nat /\ EventSeqs \subseteq Nat
  BY IngressAssumption DEF IngressAssumption

LEMMA NoneApart ==
  /\ \A k \in Kinds : k # None
  /\ \A g \in Gaps : g # None
  /\ \A e \in Receipts : e # None
  BY IngressAssumption DEF IngressAssumption, Kinds

LEMMA DefectsApart == \A k \in Defects : k \notin IngressFaults
  BY IngressAssumption DEF IngressAssumption

LEMMA LeastNat ==
  ASSUME NEW T \in SUBSET Nat, T # {}
  PROVE  \E x \in T : \A y \in T : x <= y
<1> DEFINE R == OpToRel(<, Nat)
<1>0. IsWellFoundedOn(R, Nat)
  BY NatLessThanWellFounded DEF OpToRel
<1>2. \A x, y \in Nat : <<y, x>> \in R <=> y < x
  BY DEF OpToRel
<1> HIDE DEF R
<1>3. \A Rel, S, U : IsWellFoundedOn(Rel, S) /\ U \subseteq S /\ U # {}
          => \E x \in U : \A y \in U : ~ (<<y, x>> \in Rel)
  BY WFMin, Zenon
<1>1. \E x \in T : \A y \in T : ~ (<<y, x>> \in R)
  BY <1>0, <1>3, Zenon
<1>4. PICK x \in T : \A y \in T : ~ (<<y, x>> \in R)
  BY <1>1
<1>5. \A y \in T : ~ (y < x)
  BY <1>2, <1>4
<1> QED  BY <1>5

LEMMA LeastOf ==
  ASSUME NEW T \in SUBSET Nat, T # {}
  PROVE  Min(T) \in T /\ \A y \in T : Min(T) <= y
<1>1. \E x \in T : \A y \in T : x =< y
  BY LeastNat
<1> QED  BY <1>1 DEF Min

LEMMA GreatestOf ==
  ASSUME NEW T \in SUBSET Nat, T # {}, NEW b \in Nat, \A y \in T : y <= b
  PROVE  Max(T) \in T /\ \A y \in T : Max(T) >= y
<1> DEFINE U == {b - x : x \in T}
<1>1. \A x \in T : x \in Nat /\ x <= b
  OBVIOUS
<1>2. \A x \in T : b - x \in Nat
  BY <1>1
<1>3. PICK x \in T : TRUE
  OBVIOUS
<1>4. b - x \in U
  BY <1>3
<1>5. U \in SUBSET Nat /\ U # {}
  BY <1>2, <1>4
<1>6. PICK u \in U : \A v \in U : u <= v
  BY <1>5, LeastNat
<1>7. PICK m \in T : u = b - m
  BY <1>6
<1>8. \A y \in T : b - m <= b - y
  BY <1>6, <1>7
<1>9. ASSUME NEW y \in T
      PROVE  m >= y
  <2>1. m \in Nat /\ y \in Nat /\ b - m <= b - y
    BY <1>1, <1>8
  <2> QED  BY <2>1
<1>10. \E t \in T : \A y \in T : t >= y
  BY <1>9
<1> HIDE DEF U
<1> QED  BY <1>10 DEF Max

-----------------------------------------------------------------------------
(* What is pending.                                                         *)

LEMMA PendingIs ==
  ASSUME NEW f \in PendingT
  PROVE  /\ DOMAIN f \subseteq Nat
         /\ \A q \in DOMAIN f : f[q] \in Nat
         /\ f = [q \in DOMAIN f |-> f[q]]
  BY DEF PendingT

LEMMA PendingMade ==
  ASSUME NEW D \in SUBSET Nat, NEW f \in [D -> Nat]
  PROVE  f \in PendingT
  BY DEF PendingT

LEMMA PendingEmpty ==
  ASSUME NEW f \in PendingT
  PROVE  f = Nothing <=> DOMAIN f = {}
<1>1. DOMAIN Nothing = {}
  BY DEF Nothing
<1>2. ASSUME DOMAIN f = {}
      PROVE  f = Nothing
  BY <1>2, PendingIs DEF Nothing
<1> QED  BY <1>1, <1>2

LEMMA NothingPending == Nothing \in PendingT
<1>1. Nothing \in [{} -> Nat]
  BY DEF Nothing
<1> QED  BY <1>1, PendingMade

LEMMA IngressIs ==
  ASSUME NEW s \in IngressT
  PROVE  /\ s.fault \in Kinds \cup {None} /\ s.next \in Nat /\ s.pending \in PendingT
         /\ s.gap \in Gaps \cup {None} /\ s.generation \in Nat /\ s.lastOrdered \in Nat
         /\ s.gap # None =>
              s.gap.expected \in Nat /\ s.gap.generation \in Nat /\ s.gap.deadline \in Nat
  BY NoneApart DEF IngressT, Gaps

(* The first receipt that proves a gap.                                     *)
LEMMA OldestProofIs ==
  ASSUME NEW f \in PendingT, f # Nothing
  PROVE  /\ OldestProof(f) \in Nat
         /\ \A q \in DOMAIN f : OldestProof(f) <= f[q]
         /\ \E q \in DOMAIN f : OldestProof(f) = f[q]
<1>1. Range(f) \in SUBSET Nat /\ Range(f) # {}
  BY PendingIs, PendingEmpty DEF Range
<1>2. Min(Range(f)) \in Range(f) /\ \A y \in Range(f) : Min(Range(f)) <= y
  BY <1>1, LeastOf
<1> QED  BY <1>1, <1>2 DEF OldestProof, Range

-----------------------------------------------------------------------------
(* What becomes of one state.                                               *)

LEMMA LatchedIs ==
  ASSUME NEW s \in IngressT, NEW kind \in Kinds
  PROVE  /\ Latched(s, kind) \in IngressT
         /\ Latched(s, kind).fault = IF s.fault # None THEN s.fault ELSE kind
         /\ s.fault # None => Latched(s, kind) = s
         /\ Latched(s, kind).next = s.next
         /\ Latched(s, kind).lastOrdered = s.lastOrdered
         /\ Latched(s, kind).cancelled = s.cancelled
         /\ Latched(s, kind).poisoned = s.poisoned
<1>1. CASE s.fault # None
  BY <1>1 DEF Latched
<1>2. CASE s.fault = None
  <2>1. Latched(s, kind) = [s EXCEPT !.fault = kind, !.pending = Nothing, !.gap = None]
    BY <1>2 DEF Latched
  <2>2. [s EXCEPT !.fault = kind, !.pending = Nothing, !.gap = None] \in IngressT
    BY NothingPending DEF IngressT
  <2> QED  BY <1>2, <2>1, <2>2 DEF IngressT
<1> QED  BY <1>1, <1>2

LEMMA KeptLatched ==
  ASSUME NEW s, NEW now, WellPlaced(s, now), NEW kind \in Kinds
  PROVE  /\ WellPlaced(Latched(s, kind), now)
         /\ ~Live(Latched(s, kind))
<1>1. s \in IngressT /\ s.lastOrdered <= now
  BY DEF WellPlaced
<1>2. Latched(s, kind).fault # None
  BY <1>1, LatchedIs, NoneApart
<1> QED  BY <1>1, <1>2, LatchedIs DEF WellPlaced, Live

(* What a thread finds behind the mutex is what was left there, unless a    *)
(* panic has to be reported.                                                *)
LEMMA LockedIs ==
  ASSUME ingress \in IngressT
  PROVE  /\ Locked \in IngressT
         /\ Locked.cancelled = ingress.cancelled
         /\ Locked.lastOrdered = ingress.lastOrdered
         /\ ingress.fault # None => Locked.fault = ingress.fault
         /\ Locked.fault = None => Locked = ingress /\ ~ingress.poisoned
         /\ ingress.fault = None => Locked.fault \in {None, "InternalStatePoisoned"}
         /\ Locked.next = ingress.next
<1> DEFINE s == [ingress EXCEPT !.poisoned = FALSE]
<1>1. /\ s \in IngressT /\ s.cancelled = ingress.cancelled /\ s.fault = ingress.fault
      /\ s.lastOrdered = ingress.lastOrdered /\ s.next = ingress.next
  BY DEF IngressT
<1>2. "InternalStatePoisoned" \in Kinds
  BY DEF Kinds, IngressFaults
<1>3. "InternalStatePoisoned" # None
  BY <1>2, NoneApart
<1>4. CASE ingress.poisoned
  <2>1. Locked = Latched(s, "InternalStatePoisoned")
    BY <1>4 DEF Locked
  <2> HIDE DEF s
  <2> QED  BY <1>1, <1>2, <1>3, <2>1, LatchedIs
<1>5. CASE ~ingress.poisoned
  <2>1. Locked = ingress
    BY <1>5 DEF Locked
  <2> QED  BY <1>5, <2>1
<1> QED  BY <1>4, <1>5

LEMMA KeptLocked ==
  ASSUME WellPlaced(ingress, clock)
  PROVE  WellPlaced(Locked, clock)
<1>1. ingress \in IngressT
  BY DEF WellPlaced
<1>2. CASE Locked.fault = None
  BY <1>1, <1>2, LockedIs
<1>3. CASE Locked.fault # None
  <2>1. Locked \in IngressT /\ Locked.lastOrdered = ingress.lastOrdered
    BY <1>1, LockedIs
  <2> QED  BY <1>3, <2>1 DEF WellPlaced, Live
<1> QED  BY <1>2, <1>3

LEMMA SupervisedIs ==
  ASSUME ingress \in IngressT
  PROVE  /\ Supervised \in IngressT
         /\ Supervised.cancelled = ingress.cancelled
         /\ Supervised.lastOrdered = ingress.lastOrdered
         /\ Supervised.next = ingress.next
         /\ ingress.fault # None => Supervised.fault = ingress.fault
         /\ Supervised.fault = None => Supervised = ingress /\ ~ingress.poisoned
         /\ ingress.fault = None =>
              \/ Supervised.fault \in {None, "InternalStatePoisoned"}
              \/ Supervised.fault = "TimerTaskFailed" /\ TimerGone /\ ~ingress.cancelled
<1>1. "TimerTaskFailed" \in Kinds
  BY DEF Kinds, IngressFaults
<1>2. "TimerTaskFailed" # None
  BY <1>1, NoneApart
<1>3. CASE TimerGone /\ ~Locked.cancelled
  <2>1. Supervised = Latched(Locked, "TimerTaskFailed")
    BY <1>3 DEF Supervised
  <2> QED  BY <1>1, <1>2, <1>3, <2>1, LockedIs, LatchedIs
<1>4. CASE ~(TimerGone /\ ~Locked.cancelled)
  <2>1. Supervised = Locked
    BY <1>4 DEF Supervised
  <2> QED  BY <2>1, LockedIs
<1> QED  BY <1>3, <1>4

LEMMA KeptSupervised ==
  ASSUME WellPlaced(ingress, clock)
  PROVE  WellPlaced(Supervised, clock)
<1>1. "TimerTaskFailed" \in Kinds
  BY DEF Kinds, IngressFaults
<1> QED  BY <1>1, KeptLocked, KeptLatched DEF Supervised

LEMMA InsertedIs ==
  ASSUME NEW s \in IngressT, NEW q \in Nat, clock \in Nat
  PROVE  /\ Inserted(s, q) \in IngressT
         /\ DOMAIN Inserted(s, q).pending = DOMAIN s.pending \cup {q}
         /\ \A p \in DOMAIN s.pending \cup {q} :
              Inserted(s, q).pending[p] = IF p = q THEN clock ELSE s.pending[p]
         /\ Inserted(s, q) = [s EXCEPT !.pending = Inserted(s, q).pending]
<1> DEFINE D == DOMAIN s.pending \cup {q}
           f == [p \in D |-> IF p = q THEN clock ELSE s.pending[p]]
<1>1. s.pending \in PendingT
  BY IngressIs
<1>2. D \in SUBSET Nat /\ \A p \in D : f[p] \in Nat
  BY <1>1, PendingIs
<1>3. f \in PendingT
  BY <1>2, PendingMade
<1>4. Inserted(s, q) = [s EXCEPT !.pending = f]
  BY DEF Inserted
<1> HIDE DEF f
<1>5. [s EXCEPT !.pending = f] \in IngressT /\ [s EXCEPT !.pending = f].pending = f
  BY <1>3 DEF IngressT
<1> QED  BY <1>4, <1>5 DEF f

(* The run that q completes has an end, because numbers too far ahead are   *)
(* not pending.                                                             *)
LEMMA LastOfRunIs ==
  ASSUME NEW s \in IngressT, NEW q \in Nat, NEW b \in Nat, \A p \in DOMAIN s.pending : p <= b
  PROVE  /\ LastOfRun(s, q) \in Nat /\ LastOfRun(s, q) >= q
         /\ q + 1 .. LastOfRun(s, q) \subseteq DOMAIN s.pending
         /\ LastOfRun(s, q) + 1 \notin DOMAIN s.pending
<1> DEFINE D == DOMAIN s.pending
           T == {n \in Nat : n >= q /\ n + 1 \notin D}
<1>1. D \subseteq Nat
  BY IngressIs, PendingIs
<1>2. q + b \in T
  <2>1. q + b + 1 \notin D
    BY <1>1
  <2> QED  BY <2>1
<1>3. PICK n \in T : \A m \in T : n <= m
  BY <1>2, LeastNat
<1>4. n \in Nat /\ n >= q /\ n + 1 \notin D
  BY <1>3
<1>5. ASSUME NEW p \in q + 1 .. n
      PROVE  p \in D
  <2>1. p - 1 \in Nat /\ p - 1 >= q /\ p - 1 < n /\ (p - 1) + 1 = p
    BY <1>4
  <2>2. p - 1 \notin T
    BY <1>3, <1>4, <2>1
  <2> QED  BY <2>1, <2>2
<1>6. n = q \/ n \in q + 1 .. n
  BY <1>4
<1>7. n \in {q} \cup D
  BY <1>5, <1>6
<1>8. q + 1 .. n \subseteq D
  BY <1>5
<1> HIDE DEF D, T
<1>9. \E m \in {q} \cup D : q + 1 .. m \subseteq D /\ m + 1 \notin D /\ m >= q
  BY <1>4, <1>7, <1>8
<1>10. LastOfRun(s, q) = CHOOSE m \in {q} \cup D : q + 1 .. m \subseteq D /\ m + 1 \notin D /\ m >= q
  BY DEF LastOfRun, D
<1>11. /\ LastOfRun(s, q) \in {q} \cup D /\ q + 1 .. LastOfRun(s, q) \subseteq D
       /\ LastOfRun(s, q) + 1 \notin D /\ LastOfRun(s, q) >= q
  BY <1>9, <1>10
<1> QED  BY <1>1, <1>11 DEF D

LEMMA DrainedIs ==
  ASSUME NEW s \in IngressT, NEW q \in Nat, LastOfRun(s, q) \in Nat
  PROVE  LET n == Drained(s, q)
             D == {p \in DOMAIN s.pending : p > LastOfRun(s, q)}
         IN  /\ n \in IngressT
             /\ n.next = LastOfRun(s, q) + 1
             /\ DOMAIN n.pending = D
             /\ \A p \in D : n.pending[p] = s.pending[p]
             /\ n.fault = s.fault /\ n.cancelled = s.cancelled /\ n.poisoned = s.poisoned
             /\ n.gap = s.gap /\ n.lastOrdered = s.lastOrdered
<1> DEFINE D == {p \in DOMAIN s.pending : p > LastOfRun(s, q)}
           f == [p \in D |-> s.pending[p]]
           m == LastOfRun(s, q) + 1
<1>1. s.pending \in PendingT
  BY IngressIs
<1>2. D \in SUBSET Nat /\ \A p \in D : f[p] \in Nat
  BY <1>1, PendingIs
<1>3. f \in PendingT
  BY <1>2, PendingMade
<1>4. m \in Nat
  OBVIOUS
<1>5. DOMAIN f = D /\ \A p \in D : f[p] = s.pending[p]
  OBVIOUS
<1>6. Drained(s, q) = [s EXCEPT !.next = m, !.pending = f]
  BY DEF Drained
<1> HIDE DEF f, m
<1>7. [s EXCEPT !.next = m, !.pending = f] \in IngressT
  BY <1>3, <1>4 DEF IngressT
<1>8. LET n == [s EXCEPT !.next = m, !.pending = f] IN
        /\ n.next = m /\ n.pending = f
        /\ n.fault = s.fault /\ n.cancelled = s.cancelled /\ n.poisoned = s.poisoned
        /\ n.gap = s.gap /\ n.lastOrdered = s.lastOrdered
  BY DEF IngressT
<1> QED  BY <1>5, <1>6, <1>7, <1>8 DEF m

(* The deadline a state keeps is still that of the first proof.             *)
Timed(s) ==
  /\ \A q \in DOMAIN s.pending : s.gap.deadline <= s.pending[q] + ReorderDeadline
  /\ \E q \in DOMAIN s.pending : s.gap.deadline = s.pending[q] + ReorderDeadline

LEMMA RefreshedIs ==
  ASSUME NEW s \in IngressT,
         s.pending # Nothing /\ s.gap # None /\ s.gap.expected = s.next => Timed(s)
  PROVE  LET n == Refreshed(s) IN
         /\ n \in IngressT /\ Proved(n)
         /\ n.next = s.next /\ n.pending = s.pending
         /\ n.fault = s.fault /\ n.cancelled = s.cancelled /\ n.poisoned = s.poisoned
         /\ n.lastOrdered = s.lastOrdered
<1>1. CASE s.pending = Nothing
  <2>1. Refreshed(s) = [s EXCEPT !.gap = None]
    BY <1>1 DEF Refreshed
  <2>2. [s EXCEPT !.gap = None] \in IngressT
    BY DEF IngressT
  <2>3. LET n == [s EXCEPT !.gap = None] IN
          /\ n.gap = None /\ n.next = s.next /\ n.pending = s.pending
          /\ n.fault = s.fault /\ n.cancelled = s.cancelled /\ n.poisoned = s.poisoned
          /\ n.lastOrdered = s.lastOrdered
    BY DEF IngressT
  <2> QED  BY <1>1, <2>1, <2>2, <2>3 DEF Proved
<1>2. CASE s.pending # Nothing /\ s.gap # None /\ s.gap.expected = s.next
  BY <1>2 DEF Refreshed, Proved, Timed
<1>3. CASE s.pending # Nothing /\ ~(s.gap # None /\ s.gap.expected = s.next)
  <2> DEFINE g == s.generation + 1
             w == [expected |-> s.next, generation |-> g,
                   deadline |-> OldestProof(s.pending) + ReorderDeadline]
             n == [s EXCEPT !.generation = g, !.gap = w]
  <2>1. Refreshed(s) = n
    BY <1>3 DEF Refreshed
  <2>2. s.pending \in PendingT /\ s.next \in Nat /\ s.generation \in Nat
    BY IngressIs
  <2>3. /\ OldestProof(s.pending) \in Nat
        /\ \A q \in DOMAIN s.pending : OldestProof(s.pending) <= s.pending[q]
        /\ \E q \in DOMAIN s.pending : OldestProof(s.pending) = s.pending[q]
    BY <1>3, <2>2, OldestProofIs
  <2>4. OldestProof(s.pending) + ReorderDeadline \in Nat
    BY <2>3, Limits
  <2>5. w \in Gaps /\ w.expected = s.next /\ w.deadline = OldestProof(s.pending) + ReorderDeadline
    BY <2>2, <2>4 DEF Gaps
  <2>6. w # None
    BY <2>5, NoneApart
  <2>7. /\ \A q \in DOMAIN s.pending : w.deadline <= s.pending[q] + ReorderDeadline
        /\ \E q \in DOMAIN s.pending : w.deadline = s.pending[q] + ReorderDeadline
    BY <2>2, <2>3, <2>5, PendingIs, Limits
  <2>8. g \in Nat
    BY <2>2
  <2> HIDE DEF w, g
  <2>9. n \in IngressT
    BY <2>5, <2>8 DEF IngressT
  <2>10. /\ n.gap = w /\ n.next = s.next /\ n.pending = s.pending
         /\ n.fault = s.fault /\ n.cancelled = s.cancelled /\ n.poisoned = s.poisoned
         /\ n.lastOrdered = s.lastOrdered
    BY DEF IngressT
  <2> HIDE DEF n
  <2>11. Proved(n)
    BY <1>3, <2>5, <2>6, <2>7, <2>10 DEF Proved
  <2> QED  BY <2>1, <2>9, <2>10, <2>11
<1> QED  BY <1>1, <1>2, <1>3

LEMMA NotRefused ==
  ASSUME NEW s \in IngressT, NEW q \in Nat, AdmissionFault(s, q) = None
  PROVE  /\ s.next <= q /\ q \notin DOMAIN s.pending
         /\ q <= s.next + MaxReorderDistance
<1>1. /\ "DuplicateOrRegressedSequence" # None
      /\ "ReorderDistanceExceeded" # None /\ "ReorderCapacityExceeded" # None
  BY NoneApart DEF Kinds, IngressFaults
<1>2. ~(q < s.next \/ q \in DOMAIN s.pending)
  BY <1>1 DEF AdmissionFault
<1>3. ~(q - s.next > MaxReorderDistance)
  BY <1>1, <1>2 DEF AdmissionFault
<1> QED  BY <1>2, <1>3, IngressIs, Limits

LEMMA AdmittedIs ==
  ASSUME NEW s, WellPlaced(s, clock), Live(s), clock \in Nat,
         NEW q \in Nat, AdmissionFault(s, q) = None
  PROVE  LET n == Admitted(s, q) IN
         /\ n \in IngressT /\ Ahead(n, clock) /\ Proved(n) /\ Live(n)
         /\ n.lastOrdered = s.lastOrdered
         /\ n.poisoned = s.poisoned
         /\ n.next = IF q = s.next THEN LastOfRun(s, q) + 1 ELSE s.next
         /\ \A p \in DOMAIN n.pending :
              \/ n.pending[p] = clock
              \/ p \in DOMAIN s.pending /\ n.pending[p] = s.pending[p]
<1>1. s \in IngressT /\ Ahead(s, clock) /\ Proved(s)
  BY DEF WellPlaced
<1>2. s.next \in Nat /\ s.pending \in PendingT /\ s.gap \in Gaps \cup {None}
  BY <1>1, IngressIs
<1>3. s.next <= q /\ q \notin DOMAIN s.pending /\ q <= s.next + MaxReorderDistance
  BY <1>1, NotRefused
<1>4. DOMAIN s.pending \subseteq Nat /\ \A p \in DOMAIN s.pending : s.pending[p] \in Nat
  BY <1>2, PendingIs
<1>5. CASE q = s.next
  <2> DEFINE l == LastOfRun(s, q)
             d == Drained(s, q)
  <2>1. \A p \in DOMAIN s.pending : p <= s.next + MaxReorderDistance
    BY <1>1 DEF Ahead
  <2>2. s.next + MaxReorderDistance \in Nat
    BY <1>2, Limits
  <2>3. l \in Nat /\ l >= q /\ l + 1 \notin DOMAIN s.pending
    BY <1>1, <2>1, <2>2, LastOfRunIs
  <2>4. /\ d \in IngressT /\ d.next = l + 1
        /\ DOMAIN d.pending = {p \in DOMAIN s.pending : p > l}
        /\ \A p \in DOMAIN d.pending : d.pending[p] = s.pending[p]
        /\ d.fault = s.fault /\ d.cancelled = s.cancelled /\ d.poisoned = s.poisoned
        /\ d.gap = s.gap /\ d.lastOrdered = s.lastOrdered
    BY <1>1, <2>3, DrainedIs
  <2> HIDE DEF l, d
  <2>5. Ahead(d, clock)
    <3> SUFFICES ASSUME NEW p \in DOMAIN d.pending
                 PROVE  d.next < p /\ p <= d.next + MaxReorderDistance /\ d.pending[p] <= clock
      BY DEF Ahead
    <3>1. p \in DOMAIN s.pending /\ p > l /\ p # l + 1 /\ p \in Nat
      BY <1>4, <2>3, <2>4
    <3>2. p <= s.next + MaxReorderDistance /\ s.pending[p] <= clock
      BY <1>1, <3>1 DEF Ahead
    <3> QED  BY <1>2, <1>5, <2>3, <2>4, <3>1, <3>2, Limits
  <2>6. ~(d.gap # None /\ d.gap.expected = d.next)
    BY <1>1, <1>2, <1>5, <2>3, <2>4 DEF Proved
  <2>7. Admitted(s, q) = Refreshed(d)
    BY <1>5 DEF Admitted, d
  <2>8. LET n == Refreshed(d) IN
         /\ n \in IngressT /\ Proved(n)
         /\ n.next = d.next /\ n.pending = d.pending
         /\ n.fault = d.fault /\ n.cancelled = d.cancelled /\ n.poisoned = d.poisoned
         /\ n.lastOrdered = d.lastOrdered
    BY <2>4, <2>6, RefreshedIs
  <2>9. Ahead(Refreshed(d), clock) /\ Live(Refreshed(d))
    BY <2>4, <2>5, <2>8 DEF Ahead, Live
  <2> QED  BY <1>5, <2>4, <2>7, <2>8, <2>9 DEF l
<1>6. CASE q # s.next
  <2> DEFINE d == Inserted(s, q)
  <2>1. /\ d \in IngressT
        /\ DOMAIN d.pending = DOMAIN s.pending \cup {q}
        /\ \A p \in DOMAIN s.pending \cup {q} :
              d.pending[p] = IF p = q THEN clock ELSE s.pending[p]
        /\ d = [s EXCEPT !.pending = d.pending]
    BY <1>1, InsertedIs
  <2> HIDE DEF d
  <2>2. /\ d.next = s.next /\ d.fault = s.fault /\ d.cancelled = s.cancelled
        /\ d.poisoned = s.poisoned /\ d.gap = s.gap /\ d.lastOrdered = s.lastOrdered
    BY <1>1, <2>1 DEF IngressT
  <2>3. s.next < q
    BY <1>2, <1>3, <1>6
  <2>4. Ahead(d, clock)
    BY <1>1, <1>3, <2>1, <2>2, <2>3 DEF Ahead
  <2>5. s.gap # None => Timed(d)
    <3> SUFFICES ASSUME s.gap # None
                 PROVE  Timed(d)
      OBVIOUS
    <3>1. /\ \A p \in DOMAIN s.pending : s.gap.deadline <= s.pending[p] + ReorderDeadline
          /\ \E p \in DOMAIN s.pending : s.gap.deadline = s.pending[p] + ReorderDeadline
      BY <1>1 DEF Proved
    <3>2. PICK w \in DOMAIN s.pending : s.gap.deadline = s.pending[w] + ReorderDeadline
      BY <3>1
    <3>3. s.pending[w] <= clock /\ s.pending[w] \in Nat /\ w # q
      BY <1>1, <1>3, <1>4 DEF Ahead
    <3>4. s.gap.deadline <= clock + ReorderDeadline
      BY <3>2, <3>3, Limits
    <3>5. \A p \in DOMAIN d.pending : d.gap.deadline <= d.pending[p] + ReorderDeadline
      BY <2>1, <2>2, <3>1, <3>4
    <3>6. d.pending[w] = s.pending[w] /\ w \in DOMAIN d.pending
      BY <2>1, <3>3
    <3> QED  BY <2>2, <3>2, <3>5, <3>6 DEF Timed
  <2>6. Admitted(s, q) = Refreshed(d)
    BY <1>6 DEF Admitted, d
  <2>7. LET n == Refreshed(d) IN
         /\ n \in IngressT /\ Proved(n)
         /\ n.next = d.next /\ n.pending = d.pending
         /\ n.fault = d.fault /\ n.cancelled = d.cancelled /\ n.poisoned = d.poisoned
         /\ n.lastOrdered = d.lastOrdered
    BY <2>1, <2>2, <2>5, RefreshedIs
  <2>8. Ahead(Refreshed(d), clock) /\ Live(Refreshed(d))
    BY <2>2, <2>4, <2>7 DEF Ahead, Live
  <2> QED  BY <1>6, <2>1, <2>2, <2>6, <2>7, <2>8
<1> QED  BY <1>5, <1>6

LEMMA OrderedAtIs ==
  ASSUME NEW s, WellPlaced(s, clock), Live(s), clock \in Nat,
         NEW q \in Nat, NEW p \in Nat, q + 1 .. p \subseteq DOMAIN s.pending
  PROVE  LET S == {s.lastOrdered} \cup {ReceivedAt(s, q, r) : r \in q .. p} IN
         /\ OrderedAt(s, q, p) \in S
         /\ \A t \in S : t \in Nat /\ t <= OrderedAt(s, q, p) /\ t <= clock
<1> DEFINE S == {s.lastOrdered} \cup {ReceivedAt(s, q, r) : r \in q .. p}
<1>1. s \in IngressT /\ Ahead(s, clock) /\ s.lastOrdered <= clock
  BY DEF WellPlaced
<1>2. s.lastOrdered \in Nat /\ s.pending \in PendingT
  BY <1>1, IngressIs
<1>3. \A r \in q .. p : ReceivedAt(s, q, r) \in Nat /\ ReceivedAt(s, q, r) <= clock
  <2> SUFFICES ASSUME NEW r \in q .. p
               PROVE  ReceivedAt(s, q, r) \in Nat /\ ReceivedAt(s, q, r) <= clock
    OBVIOUS
  <2>1. CASE r = q
    BY <2>1 DEF ReceivedAt
  <2>2. CASE r # q
    <3>1. r \in q + 1 .. p
      BY <2>2
    <3>2. r \in DOMAIN s.pending
      BY <3>1
    <3>3. s.pending[r] \in Nat /\ s.pending[r] <= clock
      BY <1>1, <1>2, <3>2, PendingIs DEF Ahead
    <3> QED  BY <2>2, <3>3 DEF ReceivedAt
  <2> QED  BY <2>1, <2>2
<1>4. \A t \in S : t \in Nat /\ t <= clock
  BY <1>1, <1>2, <1>3
<1>5. S \in SUBSET Nat /\ S # {}
  BY <1>4
<1>6. Max(S) \in S /\ \A t \in S : Max(S) >= t
  BY <1>4, <1>5, GreatestOf
<1>7. OrderedAt(s, q, p) = Max(S)
  BY DEF OrderedAt
<1> HIDE DEF S
<1>8. \A t \in S : t <= Max(S)
  BY <1>4, <1>6
<1> QED  BY <1>4, <1>6, <1>7, <1>8 DEF S

(* A batch set free: numbered from q, at times that do not go back.         *)
Batch(b, q, from, to) ==
  /\ b \in Seq(Receipts)
  /\ \A i \in 1 .. Len(b) : b[i].seq = q + i - 1 /\ from <= b[i].ordered /\ b[i].ordered <= to
  /\ \A i, j \in 1 .. Len(b) : i <= j => b[i].ordered <= b[j].ordered

LEMMA ContiguousIs ==
  ASSUME NEW s, WellPlaced(s, clock), Live(s), clock \in Nat, NEW q \in Nat
  PROVE  /\ Batch(Contiguous(s, q), q, s.lastOrdered, clock)
         /\ LastOfRun(s, q) \in Nat /\ LastOfRun(s, q) >= q
         /\ Len(Contiguous(s, q)) = LastOfRun(s, q) - q + 1
<1> DEFINE l == LastOfRun(s, q)
           O(i) == OrderedAt(s, q, q + i - 1)
           n == l - q + 1
           b == [i \in 1 .. n |-> [seq |-> q + i - 1, ordered |-> O(i)]]
<1>1. s \in IngressT /\ Ahead(s, clock)
  BY DEF WellPlaced
<1>2. s.next + MaxReorderDistance \in Nat
  BY <1>1, IngressIs, Limits
<1>3. l \in Nat /\ l >= q /\ q + 1 .. l \subseteq DOMAIN s.pending
  <2>1. \A p \in DOMAIN s.pending : p <= s.next + MaxReorderDistance
    BY <1>1 DEF Ahead
  <2> QED  BY <1>1, <1>2, <2>1, LastOfRunIs
<1> HIDE DEF l
<1>4. ASSUME NEW i \in 1 .. n
      PROVE  LET S == {s.lastOrdered} \cup {ReceivedAt(s, q, r) : r \in q .. q + i - 1} IN
             O(i) \in S /\ \A t \in S : t \in Nat /\ t <= O(i) /\ t <= clock
  <2>1. q + i - 1 \in Nat /\ q + i - 1 <= l
    BY <1>3
  <2>2. q + 1 .. q + i - 1 \subseteq DOMAIN s.pending
    <3>1. q + 1 .. q + i - 1 \subseteq q + 1 .. l
      BY <1>3, <2>1
    <3> QED  BY <1>3, <3>1
  <2> QED  BY <2>1, <2>2, OrderedAtIs
<1>5. \A i \in 1 .. n : O(i) \in Nat /\ s.lastOrdered <= O(i) /\ O(i) <= clock
  BY <1>4
<1>6. ASSUME NEW i \in 1 .. n, NEW j \in 1 .. n, i <= j
      PROVE  O(i) <= O(j)
  <2>1. q .. q + i - 1 \subseteq q .. q + j - 1
    BY <1>6
  <2> HIDE DEF O
  <2> QED  BY <1>4, <2>1
<1>7. Contiguous(s, q) = b
  BY DEF Contiguous, l
<1>8. n \in Nat
  BY <1>3
<1> HIDE DEF O, n
<1>9. \A i \in 1 .. n : b[i] \in Receipts
  BY <1>5 DEF Receipts
<1>10. b \in Seq(Receipts) /\ Len(b) = n
  BY <1>8, <1>9
<1>11. \A i \in 1 .. n : b[i].seq = q + i - 1 /\ b[i].ordered = O(i)
  OBVIOUS
<1> HIDE DEF b
<1>12. Batch(b, q, s.lastOrdered, clock)
  BY <1>5, <1>6, <1>10, <1>11 DEF Batch
<1> QED  BY <1>3, <1>7, <1>10, <1>12 DEF l, n

-----------------------------------------------------------------------------
(* The states of the epoch.                                                 *)

TypeInv ==
  /\ clock \in Nat /\ clock <= MaxClock
  /\ command \in CommandT /\ timer \in TimerT /\ consumer \in ConsumerT /\ counts \in CountsT
  /\ consumer.hand # None <=> consumer.pc = "taken"

Queued == handing \in Seq(Receipts) /\ channel \in ChannelT /\ delivered \in Seq(Receipts)

(* Only the end of the epoch stops the gap timer, and a wake is not early.  *)
Stopping ==
  /\ command.name = "Stop" => ~Live(ingress)
  /\ timer.pc = "returned" => ~Live(ingress)
  /\ timer.pc = "expiring" => timer.deadline <= clock

Inv == TypeInv /\ Queued /\ WellPlaced(ingress, clock) /\ Stopping /\ ReceiptsAccounted

(* What is left behind the mutex never forgets a fault or a cancellation.   *)
Follows(s) ==
  /\ ingress.fault # None => s.fault = ingress.fault
  /\ ingress.cancelled => s.cancelled

LEMMA UnlockIs ==
  ASSUME TypeInv, Stopping, ingress \in IngressT, NEW s \in IngressT, Follows(s),
         NEW c \in ConsumerT, Unlock(s, c)
  PROVE  /\ ingress' = s /\ (~Live(ingress) => ~Live(s))
         /\ command' \in CommandT /\ (command'.name = "Stop" => ~Live(s))
         /\ consumer' \in ConsumerT /\ consumer'.pc = c.pc /\ consumer'.hand = c.hand
         /\ consumer'.told = c.told /\ consumer'.timed = c.timed
<1>1. ingress' = s /\ command' = Commanded(s) /\ consumer' = Notified(c, s)
  BY DEF Unlock
<1>2. ~Live(ingress) => ~Live(s)
  BY DEF Live, Follows
<1>3. /\ consumer' \in ConsumerT /\ consumer'.pc = c.pc /\ consumer'.hand = c.hand
      /\ consumer'.told = c.told /\ consumer'.timed = c.timed
  BY <1>1 DEF Notified, ConsumerT
<1>4. \A name \in {"Idle", "Arm", "Stop"}, g \in Gaps \cup {None} :
        Order(name, g) \in CommandT /\ Order(name, g).name = name
  BY NoneApart DEF Order, CommandT, Gaps
<1>5. s.gap \in Gaps \cup {None}
  BY IngressIs
<1>6. CASE s.fault # ingress.fault \/ s.cancelled # ingress.cancelled
  <2>1. command' = Order("Stop", None)
    BY <1>1, <1>6 DEF Commanded
  <2>2. ~Live(s)
    BY <1>6 DEF Live, Follows, IngressT
  <2> QED  BY <1>1, <1>2, <1>3, <1>4, <2>1, <2>2
<1>7. CASE ~(s.fault # ingress.fault \/ s.cancelled # ingress.cancelled)
  <2>1. \/ command' = command
        \/ command' = Order("Idle", None)
        \/ command' = Order("Arm", s.gap)
    BY <1>1, <1>7 DEF Commanded
  <2>2. command' \in CommandT /\ (command'.name = "Stop" => command.name = "Stop")
    BY <1>4, <1>5, <2>1 DEF TypeInv
  <2> QED  BY <1>1, <1>2, <1>3, <2>2 DEF Stopping
<1> QED  BY <1>6, <1>7

-----------------------------------------------------------------------------
(* What a payload leaves behind.                                            *)

(* Some receipt has waited its whole deadline behind the gap.               *)
WaitedLong == \E p \in DOMAIN ingress.pending : ingress.pending[p] + ReorderDeadline <= clock

Accepted(q) ==
  LET n == Admitted(ingress, q) IN
  [n EXCEPT !.lastOrdered =
     IF Freed(ingress, q) = <<>> THEN @ ELSE Last(Freed(ingress, q)).ordered]

LEMMA AcceptedIs ==
  ASSUME WellPlaced(ingress, clock), Live(ingress), clock \in Nat,
         NEW q \in Nat, AdmissionFault(ingress, q) = None
  PROVE  LET a == Accepted(q)
             b == Freed(ingress, q)
         IN  /\ WellPlaced(a, clock) /\ Live(a)
             /\ ingress.lastOrdered <= a.lastOrdered
             /\ a.poisoned = ingress.poisoned
             /\ Batch(b, ingress.next, ingress.lastOrdered, a.lastOrdered)
             /\ a.next = ingress.next + Len(b)
<1> DEFINE n == Admitted(ingress, q)
           b == Freed(ingress, q)
           a == Accepted(q)
<1>1. /\ n \in IngressT /\ Ahead(n, clock) /\ Proved(n) /\ Live(n)
      /\ n.lastOrdered = ingress.lastOrdered /\ n.poisoned = ingress.poisoned
      /\ n.next = IF q = ingress.next THEN LastOfRun(ingress, q) + 1 ELSE ingress.next
  BY AdmittedIs
<1>2. ingress \in IngressT /\ ingress.lastOrdered <= clock
  BY DEF WellPlaced
<1>3. ingress.next \in Nat /\ ingress.lastOrdered \in Nat
  BY <1>2, IngressIs
<1>4. /\ b \in Seq(Receipts) /\ Batch(b, ingress.next, ingress.lastOrdered, clock)
      /\ n.next = ingress.next + Len(b)
  <2>1. CASE q = ingress.next
    <3>1. b = Contiguous(ingress, q)
      BY <2>1 DEF Freed
    <3>2. /\ Batch(b, q, ingress.lastOrdered, clock)
          /\ LastOfRun(ingress, q) \in Nat /\ LastOfRun(ingress, q) >= q
          /\ Len(b) = LastOfRun(ingress, q) - q + 1
      BY <3>1, ContiguousIs
    <3>3. b \in Seq(Receipts)
      BY <3>2 DEF Batch
    <3>4. n.next = ingress.next + Len(b)
      BY <1>1, <1>3, <2>1, <3>2
    <3> QED  BY <2>1, <3>2, <3>3, <3>4
  <2>2. CASE q # ingress.next
    <3>1. b = <<>>
      BY <2>2 DEF Freed
    <3>2. Batch(b, ingress.next, ingress.lastOrdered, clock)
      BY <3>1 DEF Batch
    <3> QED  BY <1>1, <1>3, <2>2, <3>1, <3>2 DEF Batch
  <2> QED  BY <2>1, <2>2
<1> DEFINE t == IF b = <<>> THEN n.lastOrdered ELSE Last(b).ordered
<1>5. a = [n EXCEPT !.lastOrdered = t]
  BY <1>1 DEF Accepted, IngressT
<1>6. /\ t \in Nat /\ ingress.lastOrdered <= t /\ t <= clock
      /\ \A i \in 1 .. Len(b) : b[i].ordered <= t
  <2>1. CASE b = <<>>
    BY <1>1, <1>2, <1>3, <2>1
  <2>2. CASE b # <<>>
    <3>1. t = b[Len(b)].ordered
      BY <2>2 DEF Last
    <3>2. Len(b) \in 1 .. Len(b) /\ b[Len(b)] \in Receipts
      BY <1>4, <2>2
    <3>3. b[Len(b)].ordered \in Nat
      BY <3>2 DEF Receipts
    <3>4. \A i \in 1 .. Len(b) : b[i].ordered <= b[Len(b)].ordered
      BY <1>4, <3>2 DEF Batch
    <3> QED  BY <1>4, <3>1, <3>2, <3>3, <3>4 DEF Batch
  <2> QED  BY <2>1, <2>2
<1>7. Batch(b, ingress.next, ingress.lastOrdered, t)
  BY <1>4, <1>6 DEF Batch
<1> HIDE DEF n, b, t
<1>8. /\ [n EXCEPT !.lastOrdered = t] \in IngressT
      /\ [n EXCEPT !.lastOrdered = t].lastOrdered = t
      /\ [n EXCEPT !.lastOrdered = t].next = n.next
      /\ [n EXCEPT !.lastOrdered = t].fault = n.fault
      /\ [n EXCEPT !.lastOrdered = t].cancelled = n.cancelled
      /\ [n EXCEPT !.lastOrdered = t].poisoned = n.poisoned
      /\ [n EXCEPT !.lastOrdered = t].pending = n.pending
      /\ [n EXCEPT !.lastOrdered = t].gap = n.gap
  BY <1>1, <1>6 DEF IngressT
<1> HIDE DEF a
<1>9. Ahead(a, clock) /\ Proved(a) /\ Live(a)
  BY <1>1, <1>5, <1>8 DEF Ahead, Proved, Live
<1>10. WellPlaced(a, clock)
  BY <1>5, <1>6, <1>8, <1>9 DEF WellPlaced
<1> QED  BY <1>1, <1>4, <1>5, <1>6, <1>7, <1>8, <1>9, <1>10 DEF a, b

LEMMA OverdueIs ==
  ASSUME WellPlaced(ingress, clock), Live(ingress), NEW now \in Nat,
         ingress.gap # None, now >= ingress.gap.deadline, now <= clock, clock \in Nat
  PROVE  WaitedLong
<1>1. PICK p \in DOMAIN ingress.pending : ingress.gap.deadline = ingress.pending[p] + ReorderDeadline
  BY DEF WellPlaced, Proved
<1>2. ingress \in IngressT
  BY DEF WellPlaced
<1>3. ingress.gap.deadline \in Nat
  BY <1>2, IngressIs
<1> QED  BY <1>1, <1>3 DEF WaitedLong

LEMMA AdmittedOverdue ==
  ASSUME WellPlaced(ingress, clock), Live(ingress), clock \in Nat,
         NEW q \in Nat, AdmissionFault(ingress, q) = None,
         Overdue(Admitted(ingress, q), clock)
  PROVE  WaitedLong
<1> DEFINE n == Admitted(ingress, q)
<1>1. /\ n \in IngressT /\ Proved(n)
      /\ \A p \in DOMAIN n.pending :
           \/ n.pending[p] = clock
           \/ p \in DOMAIN ingress.pending /\ n.pending[p] = ingress.pending[p]
  BY AdmittedIs
<1> HIDE DEF n
<1>2. n.gap # None /\ clock >= n.gap.deadline
  BY DEF Overdue, n
<1>3. PICK p \in DOMAIN n.pending : n.gap.deadline = n.pending[p] + ReorderDeadline
  BY <1>1, <1>2 DEF Proved
<1>4. n.pending[p] # clock
  BY <1>2, <1>3, Limits
<1> QED  BY <1>1, <1>2, <1>3, <1>4 DEF WaitedLong

LEMMA AdmissionFaultIs ==
  ASSUME NEW s, NEW q
  PROVE  AdmissionFault(s, q) \in
           {None, "DuplicateOrRegressedSequence", "ReorderDistanceExceeded",
            "ReorderCapacityExceeded"}
  BY DEF AdmissionFault

(* Every way a payload ends.                                                *)
Passed    == Unlock(Locked, consumer) /\ UNCHANGED handing
RefusedAs(kind) ==
  /\ Live(Locked) /\ Unlock(Latched(Locked, kind), consumer) /\ UNCHANGED handing
  /\ kind \in Kinds /\ kind # "TimerTaskFailed"
  /\ kind = "SequenceGapDeadlineExceeded" => WaitedLong
Taken(q) ==
  /\ Live(Locked) /\ q \in Nat /\ AdmissionFault(ingress, q) = None /\ handing = <<>>
  /\ Unlock(Accepted(q), consumer) /\ handing' = Freed(ingress, q)

Numbered(q, defect) ==
  \/ q \in EventSeqs /\ defect = None
  \/ q = 0 /\ defect \in Defects

LEMMA PayloadIs ==
  ASSUME Inv, NEW q, NEW defect, Numbered(q, defect), ProcessPayload(q, defect)
  PROVE  /\ Passed \/ (\E kind \in Kinds : RefusedAs(kind)) \/ Taken(q)
         /\ counts' \in {counts, [counts EXCEPT !.received = @ + 1]}
         /\ UNCHANGED <<clock, channel, timer, delivered>>
<1> DEFINE s == Locked
           why == IF defect # None THEN defect ELSE AdmissionFault(s, q)
           n == Admitted(s, q)
<1>1. ingress \in IngressT /\ WellPlaced(ingress, clock) /\ clock \in Nat
  BY DEF Inv, TypeInv, WellPlaced
<1>2. s.fault = None => s = ingress
  BY <1>1, LockedIs
<1>3. /\ "SequenceGapDeadlineExceeded" \in Kinds /\ "DuplicateOrRegressedSequence" \in Kinds
      /\ "ReorderDistanceExceeded" \in Kinds /\ "ReorderCapacityExceeded" \in Kinds
      /\ \A k \in Defects : k \in Kinds /\ k \notin IngressFaults
  BY DefectsApart DEF Kinds, IngressFaults
<1>4. handing = <<>> /\ UNCHANGED <<clock, channel, timer, delivered>>
  BY DEF ProcessPayload
<1>5. CASE /\ s.cancelled
           /\ Unlock(s, consumer) /\ UNCHANGED <<handing, counts>>
  BY <1>4, <1>5 DEF Passed
<1>6. CASE /\ ~s.cancelled /\ s.fault # None
           /\ Unlock(s, consumer) /\ Counted /\ UNCHANGED handing
  BY <1>4, <1>6 DEF Passed, Counted
<1>7. CASE /\ ~s.cancelled /\ s.fault = None /\ Overdue(s, clock)
           /\ Refuse("SequenceGapDeadlineExceeded")
  <2>1. Live(Locked) /\ Locked = ingress
    BY <1>2, <1>7 DEF Live
  <2>2. WaitedLong
    BY <1>1, <1>7, <2>1, OverdueIs DEF Overdue
  <2>3. RefusedAs("SequenceGapDeadlineExceeded") /\ Counted
    BY <1>3, <1>7, <2>1, <2>2 DEF Refuse, RefusedAs
  <2> QED  BY <1>3, <1>4, <2>3 DEF Counted
<1>8. CASE /\ ~s.cancelled /\ s.fault = None /\ ~Overdue(s, clock) /\ why # None
           /\ Refuse(why)
  <2>1. Live(Locked) /\ Locked = ingress
    BY <1>2, <1>8 DEF Live
  <2>2. why \in Defects \/ why \in {"DuplicateOrRegressedSequence", "ReorderDistanceExceeded",
                                    "ReorderCapacityExceeded"}
    BY <1>8, AdmissionFaultIs DEF Numbered
  <2>3. why \in Kinds /\ why # "TimerTaskFailed" /\ why # "SequenceGapDeadlineExceeded"
    BY <1>3, <2>2 DEF IngressFaults
  <2>4. RefusedAs(why) /\ Counted
    BY <1>8, <2>1, <2>3 DEF Refuse, RefusedAs
  <2> QED  BY <1>4, <2>3, <2>4 DEF Counted
<1>9. ASSUME ~s.cancelled, s.fault = None, why = None
      PROVE  Live(Locked) /\ Locked = ingress /\ q \in Nat /\ AdmissionFault(ingress, q) = None
  <2>1. Live(Locked) /\ Locked = ingress
    BY <1>2, <1>9 DEF Live
  <2>2. defect = None /\ q \in EventSeqs
    BY <1>9, NoneApart DEF Numbered, Kinds
  <2> QED  BY <1>9, <2>1, <2>2, Limits
<1>10. CASE /\ ~s.cancelled /\ s.fault = None /\ ~Overdue(s, clock) /\ why = None
            /\ Overdue(n, clock)
            /\ Refuse("SequenceGapDeadlineExceeded")
  <2>1. Live(ingress) /\ Live(Locked) /\ q \in Nat /\ AdmissionFault(ingress, q) = None
    BY <1>9, <1>10
  <2>2. Overdue(Admitted(ingress, q), clock)
    BY <1>9, <1>10
  <2>3. WaitedLong
    BY <1>1, <2>1, <2>2, AdmittedOverdue
  <2>4. RefusedAs("SequenceGapDeadlineExceeded") /\ Counted
    BY <1>3, <1>10, <2>1, <2>3 DEF Refuse, RefusedAs
  <2> QED  BY <1>3, <1>4, <2>4 DEF Counted
<1>11. CASE /\ ~s.cancelled /\ s.fault = None /\ ~Overdue(s, clock) /\ why = None
            /\ ~Overdue(n, clock)
            /\ Unlock([n EXCEPT !.lastOrdered =
                         IF Freed(s, q) = <<>> THEN @ ELSE Last(Freed(s, q)).ordered], consumer)
            /\ handing' = Freed(s, q) /\ Counted
  <2>1. Live(Locked) /\ Locked = ingress /\ q \in Nat /\ AdmissionFault(ingress, q) = None
    BY <1>9, <1>11
  <2>2. Unlock(Accepted(q), consumer) /\ handing' = Freed(ingress, q)
    BY <1>11, <2>1 DEF Accepted
  <2> QED  BY <1>4, <1>11, <2>1, <2>2 DEF Taken, Counted
<1> QED  BY <1>5, <1>6, <1>7, <1>8, <1>10, <1>11 DEF ProcessPayload

-----------------------------------------------------------------------------
(* Inv is inductive.                                                        *)

LEMMA InvStart == Init => Inv
<1> SUFFICES ASSUME Init
             PROVE  Inv
  OBVIOUS
<1>1. TypeInv
  BY Limits DEF Init, TypeInv, CommandT, TimerT, ConsumerT, CountsT, Receiving, Kinds
<1>2. Queued
  BY DEF Init, Queued, ChannelT
<1>3. WellPlaced(ingress, clock)
  <2>1. /\ ingress.pending = Nothing /\ ingress.gap = None /\ ingress.lastOrdered = 0
        /\ clock = 0
    BY DEF Init
  <2>2. ingress \in IngressT
    BY NothingPending DEF Init, IngressT
  <2>3. DOMAIN ingress.pending = {}
    BY <2>1 DEF Nothing
  <2> QED  BY <2>1, <2>2, <2>3 DEF WellPlaced, Ahead, Proved
<1>4. Stopping /\ ReceiptsAccounted
  BY DEF Init, Stopping, ReceiptsAccounted
<1> QED  BY <1>1, <1>2, <1>3, <1>4 DEF Inv

LEMMA MutexStep ==
  ASSUME Inv, NEW s, WellPlaced(s, clock), Follows(s),
         NEW c \in ConsumerT, c.hand # None <=> c.pc = "taken", Unlock(s, c),
         clock' = clock, counts' \in CountsT, timer' \in TimerT,
         timer'.pc = "returned" => timer' = timer \/ ~Live(s),
         timer'.pc = "expiring" => timer' = timer
  PROVE  /\ TypeInv' /\ WellPlaced(ingress, clock)' /\ Stopping'
         /\ ingress' = s /\ consumer'.hand = c.hand
<1>1. s \in IngressT /\ ingress \in IngressT /\ TypeInv /\ Stopping
  BY DEF Inv, WellPlaced
<1>2. /\ ingress' = s /\ (~Live(ingress) => ~Live(s))
      /\ command' \in CommandT /\ (command'.name = "Stop" => ~Live(s))
      /\ consumer' \in ConsumerT /\ consumer'.pc = c.pc /\ consumer'.hand = c.hand
  BY <1>1, UnlockIs
<1>3. TypeInv'
  BY <1>1, <1>2 DEF TypeInv
<1>4. WellPlaced(ingress, clock)'
  BY <1>2
<1>5. Stopping'
  BY <1>1, <1>2 DEF Stopping
<1> QED  BY <1>2, <1>3, <1>4, <1>5

(* The mutex is left alone.                                                 *)
LEMMA OutsideStep ==
  ASSUME Inv, UNCHANGED <<clock, ingress>>, counts' \in CountsT,
         command' \in CommandT, command'.name = "Stop" => command.name = "Stop",
         timer' \in TimerT, timer'.pc = "returned" => timer.pc = "returned" \/ ~Live(ingress),
         timer'.pc = "expiring" => timer'.deadline <= clock,
         consumer' \in ConsumerT, consumer'.hand # None <=> consumer'.pc = "taken"
  PROVE  TypeInv' /\ WellPlaced(ingress, clock)' /\ Stopping'
<1>1. TypeInv'
  BY DEF Inv, TypeInv
<1>2. WellPlaced(ingress, clock)'
  BY DEF Inv
<1>3. Stopping'
  BY DEF Inv, Stopping
<1> QED  BY <1>1, <1>2, <1>3

LEMMA Parts ==
  ASSUME Inv
  PROVE  /\ clock \in Nat /\ command \in CommandT /\ timer \in TimerT
         /\ consumer \in ConsumerT /\ counts \in CountsT
         /\ consumer.hand # None <=> consumer.pc = "taken"
         /\ handing \in Seq(Receipts) /\ channel \in ChannelT /\ delivered \in Seq(Receipts)
         /\ ingress \in IngressT /\ WellPlaced(ingress, clock)
         /\ TypeInv /\ Stopping /\ Queued /\ ReceiptsAccounted
  BY DEF Inv, TypeInv, Queued, WellPlaced

LEMMA ChannelIs ==
  ASSUME channel \in ChannelT
  PROVE  channel.queue \in Seq(Receipts)
  BY DEF ChannelT

LEMMA CountsAre ==
  ASSUME counts \in CountsT
  PROVE  counts.received \in Nat /\ counts.enqueued \in Nat /\ counts.discarded \in Nat
  BY DEF CountsT

LEMMA LockedFollows ==
  ASSUME ingress \in IngressT
  PROVE  /\ Follows(Locked)
         /\ \A kind \in Kinds : Follows(Latched(Locked, kind))
         /\ Follows(Supervised)
         /\ \A kind \in Kinds : Follows(Latched(ingress, kind))
<1>1. Follows(Locked) /\ Follows(Supervised)
  BY LockedIs, SupervisedIs DEF Follows
<1>2. ASSUME NEW kind \in Kinds
      PROVE  Follows(Latched(Locked, kind)) /\ Follows(Latched(ingress, kind))
  BY LockedIs, LatchedIs DEF Follows
<1> QED  BY <1>1, <1>2

(* Nothing of what ReceiptsAccounted counts is touched.                     *)
LEMMA SameAccounts ==
  ASSUME ReceiptsAccounted, UNCHANGED <<channel, delivered>>,
         counts'.enqueued = counts.enqueued, counts'.discarded = counts.discarded,
         consumer'.hand = consumer.hand
  PROVE  ReceiptsAccounted'
  BY DEF ReceiptsAccounted

LEMMA PayloadKeeps ==
  ASSUME Inv, NEW q, NEW defect, Numbered(q, defect), ProcessPayload(q, defect)
  PROVE  Inv'
<1>1. /\ Passed \/ (\E kind \in Kinds : RefusedAs(kind)) \/ Taken(q)
      /\ counts' \in {counts, [counts EXCEPT !.received = @ + 1]}
      /\ UNCHANGED <<clock, channel, timer, delivered>>
  BY PayloadIs
<1>2. /\ counts' \in CountsT
      /\ counts'.enqueued = counts.enqueued /\ counts'.discarded = counts.discarded
  BY <1>1, Parts DEF CountsT
<1>3. PICK s : /\ Unlock(s, consumer) /\ WellPlaced(s, clock) /\ Follows(s)
               /\ handing' \in Seq(Receipts)
  <2>1. CASE Passed
    <3>1. WellPlaced(Locked, clock) /\ Follows(Locked)
      BY Parts, KeptLocked, LockedFollows
    <3> QED  BY <2>1, <3>1, Parts DEF Passed
  <2>2. ASSUME NEW kind \in Kinds, RefusedAs(kind)
        PROVE  \E s : /\ Unlock(s, consumer) /\ WellPlaced(s, clock) /\ Follows(s)
                      /\ handing' \in Seq(Receipts)
    <3>1. WellPlaced(Latched(Locked, kind), clock) /\ Follows(Latched(Locked, kind))
      BY Parts, KeptLocked, KeptLatched, LockedFollows
    <3> QED  BY <2>2, <3>1, Parts DEF RefusedAs
  <2>3. CASE Taken(q)
    <3>1. Live(ingress)
      BY <2>3, Parts, LockedIs DEF Taken, Live
    <3>2. /\ WellPlaced(Accepted(q), clock) /\ Live(Accepted(q))
          /\ Freed(ingress, q) \in Seq(Receipts)
      BY <2>3, <3>1, Parts, AcceptedIs DEF Taken, Batch
    <3>3. Follows(Accepted(q))
      BY <3>1 DEF Follows, Live
    <3> QED  BY <2>3, <3>2, <3>3 DEF Taken
  <2> QED  BY <1>1, <2>1, <2>2, <2>3
<1>4. /\ TypeInv' /\ WellPlaced(ingress, clock)' /\ Stopping' /\ consumer'.hand = consumer.hand
  BY <1>1, <1>2, <1>3, Parts, MutexStep
<1>5. Queued'
  BY <1>1, <1>3, Parts DEF Queued
<1>6. ReceiptsAccounted'
  BY <1>1, <1>2, <1>4, Parts, SameAccounts
<1> QED  BY <1>4, <1>5, <1>6 DEF Inv

LEMMA HandOverKeeps == Inv /\ HandOver => Inv'
<1> SUFFICES ASSUME Inv, HandOver
             PROVE  Inv'
  OBVIOUS
<1>1. handing # <<>> /\ UNCHANGED <<clock, timer, delivered>>
  BY DEF HandOver
<1>2. Head(handing) \in Receipts /\ Tail(handing) \in Seq(Receipts)
  BY <1>1, Parts
<1>3. CASE /\ Len(channel.queue) < HandoffCapacity
           /\ channel' = [channel EXCEPT !.queue = Append(@, Head(handing))]
           /\ counts' = [counts EXCEPT !.enqueued = @ + 1]
           /\ handing' = Tail(handing)
           /\ UNCHANGED <<ingress, command, consumer>>
  <2>1. counts' \in CountsT /\ counts'.enqueued = counts.enqueued + 1
        /\ counts'.discarded = counts.discarded
    <3>1. counts \in CountsT
      BY Parts
    <3> QED  BY <1>3, <3>1, SMTT(30) DEF CountsT
  <2>2. TypeInv' /\ WellPlaced(ingress, clock)' /\ Stopping'
    BY <1>1, <1>3, <2>1, Parts, OutsideStep DEF Stopping
  <2>3. Append(channel.queue, Head(handing)) \in Seq(Receipts)
    BY <1>2, Parts, ChannelIs
  <2>4. channel' = [channel EXCEPT !.queue = Append(channel.queue, Head(handing))]
    BY <1>3
  <2>5. channel' \in ChannelT /\ channel'.queue = Append(channel.queue, Head(handing))
    BY <2>3, <2>4, Parts DEF ChannelT
  <2>6. Queued'
    BY <1>1, <1>2, <1>3, <2>5, Parts DEF Queued
  <2>7. Len(channel'.queue) = Len(channel.queue) + 1 /\ Len(channel.queue) \in Nat
    BY <1>2, <2>5, Parts, ChannelIs
  <2>8. Len(delivered) \in Nat
    BY Parts
  <2>9. ReceiptsAccounted'
    BY <1>1, <1>3, <2>1, <2>7, <2>8, Parts, CountsAre, SMTT(60) DEF ReceiptsAccounted
  <2> QED  BY <2>2, <2>6, <2>9 DEF Inv
<1>4. CASE /\ Len(channel.queue) >= HandoffCapacity
           /\ Unlock(Latched(ingress, "HandoffFull"), consumer)
           /\ handing' = <<>>
           /\ UNCHANGED <<channel, counts>>
  <2>1. "HandoffFull" \in Kinds
    BY DEF Kinds, IngressFaults
  <2>2. /\ WellPlaced(Latched(ingress, "HandoffFull"), clock)
        /\ Follows(Latched(ingress, "HandoffFull"))
    BY <2>1, Parts, KeptLatched, LockedFollows
  <2>3. TypeInv' /\ WellPlaced(ingress, clock)' /\ Stopping' /\ consumer'.hand = consumer.hand
    BY <1>1, <1>4, <2>2, Parts, MutexStep
  <2>4. Queued'
    BY <1>1, <1>4, Parts DEF Queued
  <2>5. ReceiptsAccounted'
    BY <1>1, <1>4, <2>3, Parts, SameAccounts
  <2> QED  BY <2>3, <2>4, <2>5 DEF Inv
<1> QED  BY <1>3, <1>4 DEF HandOver

LEMMA PoisonedHolds ==
  ASSUME NEW s, NEW now, WellPlaced(s, now)
  PROVE  WellPlaced([s EXCEPT !.poisoned = TRUE], now)
<1> DEFINE p == [s EXCEPT !.poisoned = TRUE]
<1>1. /\ p \in IngressT /\ p.lastOrdered = s.lastOrdered /\ p.fault = s.fault
      /\ p.cancelled = s.cancelled /\ p.pending = s.pending /\ p.next = s.next /\ p.gap = s.gap
  BY DEF WellPlaced, IngressT
<1> HIDE DEF p
<1>2. Live(p) => Ahead(p, now) /\ Proved(p)
  BY <1>1 DEF WellPlaced, Live, Ahead, Proved
<1>3. WellPlaced(p, now)
  BY <1>1, <1>2 DEF WellPlaced
<1> QED  BY <1>3 DEF p

LEMMA PanicKeeps == Inv /\ PanicUnderLock => Inv'
<1> SUFFICES ASSUME Inv, PanicUnderLock
             PROVE  Inv'
  OBVIOUS
<1>1. /\ ingress' = [ingress EXCEPT !.poisoned = TRUE] /\ handing' = <<>>
      /\ UNCHANGED <<clock, channel, command, timer, consumer, delivered>>
      /\ counts' \in {counts, [counts EXCEPT !.received = @ + 1]}
  BY DEF PanicUnderLock, Counted
<1>2. /\ counts' \in CountsT
      /\ counts'.enqueued = counts.enqueued /\ counts'.discarded = counts.discarded
  BY <1>1, Parts DEF CountsT
<1>3. WellPlaced(ingress, clock)'
  BY <1>1, Parts, PoisonedHolds
<1>4. ingress'.fault = ingress.fault /\ ingress'.cancelled = ingress.cancelled
  BY <1>1, Parts DEF IngressT
<1>5. TypeInv'
  BY <1>1, <1>2, Parts DEF TypeInv
<1>6. Stopping'
  BY <1>1, <1>4, Parts DEF Stopping, Live
<1>7. Queued'
  BY <1>1, Parts DEF Queued
<1>8. ReceiptsAccounted'
  BY <1>1, <1>2, Parts, SameAccounts
<1> QED  BY <1>3, <1>5, <1>6, <1>7, <1>8 DEF Inv

LEMMA FollowIs ==
  ASSUME Inv, Follow
  PROVE  /\ command' \in CommandT /\ command'.name = command.name
         /\ timer' \in TimerT
         /\ timer'.pc = "returned" => ~Live(ingress)
         /\ timer'.pc # "expiring"
<1>1. command' \in CommandT /\ command'.name = command.name
  BY Parts DEF Follow, CommandT
<1>2. /\ command.name \in {"Idle", "Arm", "Stop"}
      /\ command.generation \in Nat /\ command.deadline \in Nat
  BY Parts DEF CommandT
<1>3. \/ timer' = Ended("idle")
      \/ timer' = [pc |-> "armed", generation |-> command.generation,
                   deadline |-> command.deadline]
      \/ command.name = "Stop" /\ timer' = Ended("returned")
  BY <1>2 DEF Follow
<1>4. /\ timer' \in TimerT /\ timer'.pc # "expiring"
      /\ timer'.pc = "returned" => command.name = "Stop"
  BY <1>2, <1>3 DEF Ended, TimerT
<1> QED  BY <1>1, <1>4, Parts DEF Stopping

(* A step of which the receipts know nothing.                               *)
LEMMA SameReceipts ==
  ASSUME Inv, TypeInv', WellPlaced(ingress, clock)', Stopping',
         UNCHANGED <<handing, channel, counts, delivered>>, consumer'.hand = consumer.hand
  PROVE  Inv'
<1>1. Queued'
  BY Parts DEF Queued
<1>2. ReceiptsAccounted'
  BY Parts, SameAccounts
<1> QED  BY <1>1, <1>2 DEF Inv

LEMMA WakeForCommandKeeps == Inv /\ WakeForCommand => Inv'
<1> SUFFICES ASSUME Inv, WakeForCommand
             PROVE  Inv'
  OBVIOUS
<1>1. Follow /\ UNCHANGED <<clock, ingress, handing, channel, consumer, counts, delivered>>
  BY DEF WakeForCommand
<1>2. TypeInv' /\ WellPlaced(ingress, clock)' /\ Stopping'
  BY <1>1, FollowIs, Parts, OutsideStep
<1> QED  BY <1>1, <1>2, SameReceipts

LEMMA WakeForDeadlineKeeps == Inv /\ WakeForDeadline => Inv'
<1> SUFFICES ASSUME Inv, WakeForDeadline
             PROVE  Inv'
  OBVIOUS
<1>1. /\ timer' = [timer EXCEPT !.pc = "expiring"] /\ clock >= timer.deadline
      /\ UNCHANGED <<clock, ingress, handing, channel, command, consumer, counts, delivered>>
  BY DEF WakeForDeadline
<1>2. timer' \in TimerT /\ timer'.pc = "expiring" /\ timer'.deadline = timer.deadline
      /\ timer.deadline \in Nat
  BY <1>1, Parts DEF TimerT
<1>3. TypeInv' /\ WellPlaced(ingress, clock)' /\ Stopping'
  BY <1>1, <1>2, Parts, OutsideStep
<1> QED  BY <1>1, <1>3, SameReceipts

LEMMA EndedIs ==
  ASSUME NEW how \in {"idle", "returned", "died"}
  PROVE  Ended(how) \in TimerT /\ Ended(how).pc = how
  BY DEF Ended, TimerT

LEMMA ExpireGapKeeps == Inv /\ ExpireGap => Inv'
<1> SUFFICES ASSUME Inv, ExpireGap
             PROVE  Inv'
  OBVIOUS
<1>1. UNCHANGED <<clock, handing, channel, counts, delivered>>
  BY DEF ExpireGap
<1>2. Ended("returned") \in TimerT /\ Ended("returned").pc = "returned"
  BY EndedIs
<1>3. CASE /\ Locked.cancelled \/ Locked.fault # None
           /\ Unlock(Locked, consumer) /\ timer' = Ended("returned")
  <2>1. ~Live(Locked)
    BY <1>3 DEF Live
  <2>2. WellPlaced(Locked, clock) /\ Follows(Locked)
    BY Parts, KeptLocked, LockedFollows
  <2>3. TypeInv' /\ WellPlaced(ingress, clock)' /\ Stopping' /\ consumer'.hand = consumer.hand
    BY <1>1, <1>2, <1>3, <2>1, <2>2, Parts, MutexStep
  <2> QED  BY <1>1, <2>3, SameReceipts
<1>4. CASE AfterStaleWake /\ UNCHANGED <<ingress, consumer>>
  <2>1. Follow
    BY <1>4 DEF AfterStaleWake
  <2>2. TypeInv' /\ WellPlaced(ingress, clock)' /\ Stopping'
    BY <1>1, <1>4, <2>1, FollowIs, Parts, OutsideStep
  <2> QED  BY <1>1, <1>4, <2>2, SameReceipts
<1>5. CASE /\ Unlock(Latched(Locked, "SequenceGapDeadlineExceeded"), consumer)
           /\ timer' = Ended("returned")
  <2>1. "SequenceGapDeadlineExceeded" \in Kinds
    BY DEF Kinds, IngressFaults
  <2> DEFINE s == Latched(Locked, "SequenceGapDeadlineExceeded")
  <2>2. WellPlaced(Locked, clock) /\ Follows(s)
    BY <2>1, Parts, KeptLocked, LockedFollows
  <2>3. WellPlaced(s, clock) /\ ~Live(s)
    BY <2>1, <2>2, KeptLatched
  <2>4. TypeInv' /\ WellPlaced(ingress, clock)' /\ Stopping' /\ consumer'.hand = consumer.hand
    BY <1>1, <1>2, <1>5, <2>3, <2>2, Parts, MutexStep
  <2> QED  BY <1>1, <2>4, SameReceipts
<1> QED  BY <1>3, <1>4, <1>5 DEF ExpireGap

LEMMA TimerDiesKeeps == Inv /\ TimerDies => Inv'
<1> SUFFICES ASSUME Inv, TimerDies
             PROVE  Inv'
  OBVIOUS
<1>1. /\ timer' = Ended("died")
      /\ UNCHANGED <<clock, ingress, handing, channel, command, consumer, counts, delivered>>
  BY DEF TimerDies
<1>2. Ended("died") \in TimerT /\ Ended("died").pc = "died"
  BY EndedIs
<1>3. TypeInv' /\ WellPlaced(ingress, clock)' /\ Stopping'
  BY <1>1, <1>2, Parts, OutsideStep
<1> QED  BY <1>1, <1>3, SameReceipts

LEMMA ReturnedIs ==
  ASSUME consumer \in ConsumerT, NEW told \in Kinds \cup {None}, NEW timed \in BOOLEAN
  PROVE  /\ Returned \in ConsumerT /\ Returned.pc = "idle" /\ Returned.hand = None
         /\ Returned.told = consumer.told
         /\ [Returned EXCEPT !.told = told, !.timed = timed] \in ConsumerT
         /\ [Returned EXCEPT !.told = told, !.timed = timed].pc = "idle"
         /\ [Returned EXCEPT !.told = told, !.timed = timed].hand = None
         /\ [Returned EXCEPT !.told = told, !.timed = timed].told = told
<1>1. /\ Returned \in ConsumerT /\ Returned.pc = "idle" /\ Returned.hand = None
      /\ Returned.told = consumer.told
  BY DEF Returned, ConsumerT
<1>2. [Returned EXCEPT !.told = told, !.timed = timed] \in ConsumerT
  BY <1>1 DEF ConsumerT
<1> QED  BY <1>1, <1>2 DEF ConsumerT

LEMMA AwaitedIs == consumer \in ConsumerT => consumer.timed \in BOOLEAN /\ Awaited \in BOOLEAN
  BY DEF Awaited, TimerGone, ConsumerT

(* One receipt in the hand, or none.                                        *)
InHands == IF consumer.hand = None THEN 0 ELSE 1

LEMMA QuarantineKeeps ==
  ASSUME Inv, NEW s, WellPlaced(s, clock), Follows(s), s.fault # None,
         NEW timed \in BOOLEAN, Quarantine(s, InHands, timed),
         UNCHANGED <<clock, handing, timer>>
  PROVE  Inv'
<1> DEFINE c == [Returned EXCEPT !.told = s.fault, !.timed = timed]
<1>1. s.fault \in Kinds \cup {None}
  BY IngressIs DEF WellPlaced
<1>2. /\ c \in ConsumerT /\ c.pc = "idle" /\ c.hand = None
  <2>1. consumer \in ConsumerT
    BY Parts
  <2> QED  BY <1>1, <2>1, ReturnedIs
<1>3. /\ Unlock(s, c) /\ channel' = [queue |-> <<>>, open |-> FALSE]
      /\ counts' = [counts EXCEPT !.discarded = @ + InHands + Len(channel.queue)]
      /\ UNCHANGED delivered
  BY DEF Quarantine
<1> HIDE DEF c
<1>4. Len(channel.queue) \in Nat /\ Len(delivered) \in Nat
  BY Parts, ChannelIs
<1>5. /\ counts' \in CountsT /\ counts'.enqueued = counts.enqueued
      /\ counts'.discarded = counts.discarded + InHands + Len(channel.queue)
  BY <1>3, <1>4, Parts DEF CountsT, InHands
<1>6. TypeInv' /\ WellPlaced(ingress, clock)' /\ Stopping' /\ consumer'.hand = None
  BY <1>2, <1>3, <1>5, Parts, MutexStep
<1>7. Queued'
  BY <1>3, Parts DEF Queued, ChannelT
<1>8. Len(channel'.queue) = 0
  BY <1>3
<1>9. counts.enqueued = Len(delivered) + counts.discarded + Len(channel.queue) + InHands
  BY Parts DEF ReceiptsAccounted, InHands
<1>10. Len(delivered') = Len(delivered) /\ counts.discarded \in Nat /\ InHands \in Nat
  BY <1>3, Parts, CountsAre DEF InHands
<1>11. counts'.enqueued = Len(delivered') + counts'.discarded + Len(channel'.queue) + 0
  BY <1>4, <1>5, <1>8, <1>9, <1>10
<1>12. ReceiptsAccounted'
  BY <1>6, <1>11 DEF ReceiptsAccounted
<1> QED  BY <1>6, <1>7, <1>12 DEF Inv

(* A step of the owner outside the mutex.                                   *)
LEMMA OwnerStep ==
  ASSUME Inv, UNCHANGED <<clock, ingress, handing, command, timer, channel, counts, delivered>>,
         consumer' \in ConsumerT, consumer'.hand = consumer.hand,
         consumer'.pc = "taken" <=> consumer.pc = "taken"
  PROVE  Inv'
<1>1. TypeInv' /\ WellPlaced(ingress, clock)' /\ Stopping'
  BY Parts, OutsideStep DEF Stopping
<1> QED  BY <1>1, SameReceipts

LEMMA ReceivePcs ==
  {"idle", "loop", "select", "taken"} = Receiving \cup {"idle"}
  BY DEF Receiving

LEMMA StartRecvKeeps == \A waits \in BOOLEAN : Inv /\ StartRecv(waits) => Inv'
<1> SUFFICES ASSUME NEW waits \in BOOLEAN, Inv, StartRecv(waits)
             PROVE  Inv'
  OBVIOUS
<1>1. /\ consumer.pc = "idle" /\ consumer' = [consumer EXCEPT !.pc = "loop", !.waits = waits]
      /\ UNCHANGED <<clock, ingress, handing, channel, command, timer, counts, delivered>>
  BY DEF StartRecv
<1>2. "loop" \in Receiving
  BY DEF Receiving
<1>3. consumer' \in ConsumerT /\ consumer'.hand = consumer.hand /\ consumer'.pc = "loop"
  BY <1>1, <1>2, Parts DEF ConsumerT
<1> QED  BY <1>1, <1>3, OwnerStep

LEMMA WakeForFaultKeeps == Inv /\ WakeForFault => Inv'
<1> SUFFICES ASSUME Inv, WakeForFault
             PROVE  Inv'
  OBVIOUS
<1>1. /\ consumer.pc = "select"
      /\ consumer' = [consumer EXCEPT !.pc = "loop", !.faultUnseen = FALSE]
      /\ UNCHANGED <<clock, ingress, handing, channel, command, timer, counts, delivered>>
  BY DEF WakeForFault
<1>2. "loop" \in Receiving
  BY DEF Receiving
<1>3. consumer' \in ConsumerT /\ consumer'.hand = consumer.hand /\ consumer'.pc = "loop"
  BY <1>1, <1>2, Parts DEF ConsumerT
<1> QED  BY <1>1, <1>3, OwnerStep

LEMMA GiveUpKeeps ==
  ASSUME Inv, consumer.pc = "select", consumer' = Returned,
         UNCHANGED <<clock, ingress, handing, channel, command, timer, counts, delivered>>
  PROVE  Inv'
<1>1. consumer.hand = None
  BY Parts
<1>2. /\ Returned \in ConsumerT /\ Returned.pc = "idle" /\ Returned.hand = None
  BY Parts DEF Returned, ConsumerT
<1> QED  BY <1>1, <1>2, OwnerStep

LEMMA LookForFaultKeeps == Inv /\ LookForFault => Inv'
<1> SUFFICES ASSUME Inv, LookForFault
             PROVE  Inv'
  OBVIOUS
<1>1. consumer.pc = "loop" /\ UNCHANGED <<clock, handing, timer>>
  BY DEF LookForFault
<1>2. consumer.hand = None
  BY <1>1, Parts
<1>3. WellPlaced(Supervised, clock) /\ Follows(Supervised) /\ Awaited \in BOOLEAN
  BY Parts, KeptSupervised, LockedFollows, AwaitedIs
<1>4. CASE Supervised.fault # None /\ Quarantine(Supervised, 0, Awaited)
  <2>1. InHands = 0
    BY <1>2 DEF InHands
  <2> QED  BY <1>1, <1>3, <1>4, <2>1, QuarantineKeeps
<1>5. CASE /\ Unlock(Supervised, [consumer EXCEPT !.pc = "select", !.timed = Awaited])
           /\ UNCHANGED <<channel, counts, delivered>>
  <2> DEFINE c == [consumer EXCEPT !.pc = "select", !.timed = Awaited]
  <2>1. "select" \in Receiving
    BY DEF Receiving
  <2>2. c \in ConsumerT /\ c.pc = "select" /\ c.hand = None
    BY <1>2, <1>3, <2>1, Parts DEF ConsumerT
  <2> HIDE DEF c
  <2>3. Unlock(Supervised, c)
    BY <1>5 DEF c
  <2>4. TypeInv' /\ WellPlaced(ingress, clock)' /\ Stopping' /\ consumer'.hand = None
    BY <1>1, <1>3, <1>5, <2>2, <2>3, Parts, MutexStep
  <2> QED  BY <1>1, <1>2, <1>5, <2>4, SameReceipts
<1> QED  BY <1>4, <1>5 DEF LookForFault

LEMMA TakeReceiptKeeps == Inv /\ TakeReceipt => Inv'
<1> SUFFICES ASSUME Inv, TakeReceipt
             PROVE  Inv'
  OBVIOUS
<1>1. /\ consumer.pc = "select" /\ channel.queue # <<>>
      /\ consumer' = [consumer EXCEPT !.pc = "taken", !.hand = Head(channel.queue)]
      /\ channel' = [channel EXCEPT !.queue = Tail(@)]
      /\ UNCHANGED <<clock, ingress, handing, command, timer, counts, delivered>>
  BY DEF TakeReceipt
<1>2. /\ Head(channel.queue) \in Receipts /\ Tail(channel.queue) \in Seq(Receipts)
      /\ Len(channel.queue) \in Nat /\ Len(Tail(channel.queue)) = Len(channel.queue) - 1
      /\ Len(delivered) \in Nat
  BY <1>1, Parts, ChannelIs
<1>3. consumer.hand = None /\ Head(channel.queue) # None
  BY <1>1, <1>2, Parts, NoneApart
<1>4. "taken" \in Receiving
  BY DEF Receiving
<1>5. /\ consumer' \in ConsumerT /\ consumer'.pc = "taken"
      /\ consumer'.hand = Head(channel.queue)
  BY <1>1, <1>2, <1>4, Parts DEF ConsumerT
<1>6. TypeInv' /\ WellPlaced(ingress, clock)' /\ Stopping'
  BY <1>1, <1>3, <1>5, Parts, OutsideStep DEF Stopping
<1>7. channel' \in ChannelT /\ channel'.queue = Tail(channel.queue)
  BY <1>1, <1>2, Parts DEF ChannelT
<1>8. Queued'
  BY <1>1, <1>7, Parts DEF Queued
<1>9. ReceiptsAccounted'
  BY <1>1, <1>2, <1>3, <1>5, <1>7, Parts, CountsAre, SMTT(60) DEF ReceiptsAccounted
<1> QED  BY <1>6, <1>8, <1>9 DEF Inv

LEMMA WakeForTimerKeeps == Inv /\ WakeForTimer => Inv'
<1> SUFFICES ASSUME Inv, WakeForTimer
             PROVE  Inv'
  OBVIOUS
<1> DEFINE c == [consumer EXCEPT !.pc = "loop", !.timed = FALSE]
<1>1. /\ consumer.pc = "select" /\ Unlock(Supervised, c)
      /\ UNCHANGED <<clock, handing, channel, timer, counts, delivered>>
  BY DEF WakeForTimer
<1>2. "loop" \in Receiving /\ consumer.hand = None
  BY <1>1, Parts DEF Receiving
<1>3. c \in ConsumerT /\ c.pc = "loop" /\ c.hand = None
  BY <1>2, Parts DEF ConsumerT
<1> HIDE DEF c
<1>4. WellPlaced(Supervised, clock) /\ Follows(Supervised)
  BY Parts, KeptSupervised, LockedFollows
<1>5. TypeInv' /\ WellPlaced(ingress, clock)' /\ Stopping' /\ consumer'.hand = None
  BY <1>1, <1>3, <1>4, Parts, MutexStep
<1> QED  BY <1>1, <1>2, <1>5, SameReceipts

LEMMA SettleKeeps == Inv /\ Settle => Inv'
<1> SUFFICES ASSUME Inv, Settle
             PROVE  Inv'
  OBVIOUS
<1>1. consumer.pc = "taken" /\ UNCHANGED <<clock, handing, timer>>
  BY DEF Settle
<1>2. consumer.hand \in Receipts /\ consumer.hand # None /\ consumer.timed \in BOOLEAN
  BY <1>1, Parts DEF ConsumerT
<1>3. WellPlaced(Locked, clock) /\ Follows(Locked)
  BY Parts, KeptLocked, LockedFollows
<1>4. CASE PastBoundary(Locked) /\ Quarantine(Locked, InHand, consumer.timed)
  <2>1. InHands = InHand /\ Locked.fault # None
    BY <1>2, <1>4 DEF InHands, InHand, PastBoundary
  <2> QED  BY <1>1, <1>2, <1>3, <1>4, <2>1, QuarantineKeeps
<1>5. CASE /\ Unlock(Locked, Returned)
           /\ delivered' = Append(delivered, consumer.hand)
           /\ UNCHANGED <<channel, counts>>
  <2>1. /\ Returned \in ConsumerT /\ Returned.pc = "idle" /\ Returned.hand = None
    BY Parts DEF Returned, ConsumerT
  <2>2. TypeInv' /\ WellPlaced(ingress, clock)' /\ Stopping' /\ consumer'.hand = None
    BY <1>1, <1>3, <1>5, <2>1, Parts, MutexStep
  <2>3. /\ delivered' \in Seq(Receipts) /\ Len(delivered') = Len(delivered) + 1
        /\ Len(delivered) \in Nat /\ Len(channel.queue) \in Nat
    BY <1>2, <1>5, Parts, ChannelIs
  <2>4. Queued'
    BY <1>1, <1>5, <2>3, Parts DEF Queued
  <2>5. counts.enqueued = Len(delivered) + counts.discarded + Len(channel.queue) + 1
    BY <1>2, Parts DEF ReceiptsAccounted
  <2>6. /\ counts.discarded \in Nat /\ counts'.discarded = counts.discarded
        /\ counts'.enqueued = counts.enqueued /\ channel'.queue = channel.queue
    BY <1>5, Parts, CountsAre
  <2>7. counts'.enqueued = Len(delivered') + counts'.discarded + Len(channel'.queue) + 0
    <3>1. Len(channel'.queue) = Len(channel.queue)
      BY <2>6
    <3>2. \A n, d, x, q \in Nat : n = d + x + q + 1 => n = (d + 1) + x + q + 0
      OBVIOUS
    <3>3. counts.enqueued \in Nat
      BY <2>3, <2>5, <2>6
    <3>4. counts.enqueued = (Len(delivered) + 1) + counts.discarded + Len(channel.queue) + 0
      BY <2>3, <2>5, <2>6, <3>2, <3>3, SMTT(30)
    <3> QED  BY <2>3, <2>6, <3>1, <3>4
  <2>8. ReceiptsAccounted'
    BY <2>2, <2>7 DEF ReceiptsAccounted
  <2> QED  BY <2>2, <2>4, <2>8 DEF Inv
<1> QED  BY <1>4, <1>5 DEF Settle

LEMMA CloseKeeps == Inv /\ Close => Inv'
<1> SUFFICES ASSUME Inv, Close
             PROVE  Inv'
  OBVIOUS
<1> DEFINE s == [Supervised EXCEPT !.cancelled = TRUE, !.pending = Nothing, !.gap = None]
           c == [consumer EXCEPT !.timed = FALSE]
<1>1. /\ Unlock(s, c) /\ timer' = IF Awaited THEN Ended("returned") ELSE timer
      /\ channel' = [channel EXCEPT !.open = FALSE]
      /\ UNCHANGED <<clock, handing, counts, delivered>>
  BY DEF Close
<1>2. WellPlaced(Supervised, clock) /\ Follows(Supervised) /\ Supervised \in IngressT
  BY Parts, KeptSupervised, LockedFollows, SupervisedIs
<1>3. /\ s \in IngressT /\ s.cancelled /\ s.fault = Supervised.fault
      /\ s.lastOrdered = Supervised.lastOrdered
  BY <1>2, NothingPending DEF IngressT
<1>4. /\ c \in ConsumerT /\ c.pc = consumer.pc /\ c.hand = consumer.hand
  BY Parts DEF ConsumerT
<1> HIDE DEF s, c
<1>5. WellPlaced(s, clock) /\ Follows(s) /\ ~Live(s)
  BY <1>2, <1>3 DEF WellPlaced, Follows, Live
<1>6. Ended("returned") \in TimerT /\ Ended("returned").pc = "returned"
  BY EndedIs
<1>7. TypeInv' /\ WellPlaced(ingress, clock)' /\ Stopping' /\ consumer'.hand = c.hand
  BY <1>1, <1>4, <1>5, <1>6, Parts, MutexStep
<1>8. channel' \in ChannelT /\ channel'.queue = channel.queue
  BY <1>1, Parts DEF ChannelT
<1>9. Queued'
  BY <1>1, <1>8, Parts DEF Queued
<1>10. ReceiptsAccounted'
  BY <1>1, <1>4, <1>7, <1>8, Parts DEF ReceiptsAccounted
<1> QED  BY <1>7, <1>9, <1>10 DEF Inv

LEMMA HoldsLater ==
  ASSUME NEW s, NEW now \in Nat, WellPlaced(s, now)
  PROVE  WellPlaced(s, now + 1)
<1>1. s \in IngressT /\ s.lastOrdered \in Nat /\ s.pending \in PendingT
  BY IngressIs DEF WellPlaced
<1>2. \A q \in DOMAIN s.pending : s.pending[q] \in Nat
  BY <1>1, PendingIs
<1>3. Ahead(s, now) => Ahead(s, now + 1)
  BY <1>2 DEF Ahead
<1> QED  BY <1>1, <1>3 DEF WellPlaced

LEMMA TickKeeps == Inv /\ Tick => Inv'
<1> SUFFICES ASSUME Inv, Tick
             PROVE  Inv'
  OBVIOUS
<1>1. /\ clock < MaxClock /\ clock' = clock + 1
      /\ UNCHANGED <<ingress, handing, channel, command, timer, consumer, counts, delivered>>
  BY DEF Tick
<1>2. clock' \in Nat /\ clock' <= MaxClock /\ clock \in Nat
  BY <1>1, Parts, Limits
<1>3. TypeInv'
  BY <1>1, <1>2, Parts DEF TypeInv
<1>4. WellPlaced(ingress, clock)'
  BY <1>1, <1>2, Parts, HoldsLater
<1>5. timer.deadline \in Nat
  BY Parts DEF TimerT
<1>6. Stopping'
  BY <1>1, <1>2, <1>5, Parts DEF Stopping
<1> QED  BY <1>1, <1>3, <1>4, <1>6, SameReceipts

LEMMA StutterKeeps == Inv /\ UNCHANGED vars => Inv'
<1> SUFFICES ASSUME Inv, UNCHANGED vars
             PROVE  Inv'
  OBVIOUS
<1>1. UNCHANGED <<clock, ingress, handing, channel, command, timer, consumer, counts, delivered>>
  BY DEF vars
<1>2. TypeInv' /\ WellPlaced(ingress, clock)' /\ Stopping'
  BY <1>1, Parts, OutsideStep DEF Stopping
<1> QED  BY <1>1, <1>2, SameReceipts

LEMMA InvStep == Inv /\ [Next]_vars => Inv'
<1> SUFFICES ASSUME Inv, [Next]_vars
             PROVE  Inv'
  OBVIOUS
<1>1. ASSUME NEW q \in EventSeqs, ProcessPayload(q, None)
      PROVE  Inv'
  <2>1. Numbered(q, None)
    BY <1>1 DEF Numbered
  <2> QED  BY <1>1, <2>1, PayloadKeeps
<1>2. ASSUME NEW defect \in Defects, ProcessPayload(0, defect)
      PROVE  Inv'
  <2>1. Numbered(0, defect)
    BY <1>2 DEF Numbered
  <2> QED  BY <1>2, <2>1, PayloadKeeps
<1>3. CASE HandOver  BY <1>3, HandOverKeeps
<1>4. CASE PanicUnderLock  BY <1>4, PanicKeeps
<1>5. CASE TimerStep
  BY <1>5, WakeForCommandKeeps, WakeForDeadlineKeeps, ExpireGapKeeps DEF TimerStep
<1>6. CASE TimerDies  BY <1>6, TimerDiesKeeps
<1>7. CASE \E waits \in BOOLEAN : StartRecv(waits)  BY <1>7, StartRecvKeeps
<1>8. FindNothing \/ CancelRecv => Inv'
  <2>1. FindNothing \/ CancelRecv =>
          /\ consumer.pc = "select" /\ consumer' = Returned
          /\ UNCHANGED <<clock, ingress, handing, channel, command, timer, counts, delivered>>
    BY DEF FindNothing, CancelRecv
  <2> QED  BY <2>1, GiveUpKeeps
<1>9. CASE ReceivingStep
  BY <1>8, <1>9, LookForFaultKeeps, WakeForFaultKeeps, TakeReceiptKeeps, WakeForTimerKeeps,
     SettleKeeps DEF ReceivingStep
<1>10. CASE CancelRecv  BY <1>8, <1>10
<1>11. CASE Close  BY <1>11, CloseKeeps
<1>12. CASE Tick  BY <1>12, TickKeeps
<1>13. CASE UNCHANGED vars  BY <1>13, StutterKeeps
<1> QED
  BY <1>1, <1>2, <1>3, <1>4, <1>5, <1>6, <1>7, <1>9, <1>10, <1>11, <1>12, <1>13 DEF Next

LEMMA SpecInv == Spec => []Inv
<1> QED  BY InvStart, InvStep, PTL DEF Spec

(* Every variable keeps the type its field has in monitor_live.rs, and the  *)
(* owner has a receipt in its hand exactly between taking it from the       *)
(* channel and the last look for a fault (LiveMonitorReceiver::recv).       *)
THEOREM TypeCorrect == Spec => [](TypeInv /\ Queued)
<1>1. Inv => TypeInv /\ Queued
  BY DEF Inv
<1> QED  BY <1>1, SpecInv, PTL

(* refresh_gap_deadline_locked: whatever order events come in, an open gap  *)
(* is timed from the first receipt that proved it, and there is one exactly *)
(* while something is pending behind a missing number.                      *)
THEOREM GapIsTimedFromFirstProof == Spec => []GapMatchesEvidence
<1>1. Inv => GapMatchesEvidence
  <2> SUFFICES ASSUME Inv, Healthy
               PROVE  IF ingress.pending = Nothing THEN ingress.gap = None
                      ELSE /\ ingress.gap # None
                           /\ ingress.gap.expected = ingress.next
                           /\ ingress.next \notin DOMAIN ingress.pending
                           /\ \A q \in DOMAIN ingress.pending :
                                ingress.gap.deadline <= ingress.pending[q] + ReorderDeadline
                           /\ \E q \in DOMAIN ingress.pending :
                                ingress.gap.deadline = ingress.pending[q] + ReorderDeadline
    BY DEF GapMatchesEvidence
  <2>1. Ahead(ingress, clock) /\ Proved(ingress) /\ ingress \in IngressT
    BY DEF Inv, WellPlaced, Live, Healthy
  <2>2. ingress.next \notin DOMAIN ingress.pending
    <3>1. ingress.next \in Nat
      BY <2>1, IngressIs
    <3> QED  BY <2>1, <3>1 DEF Ahead
  <2> QED  BY <2>1, <2>2 DEF Proved
<1> QED  BY <1>1, SpecInv, PTL

(* try_send, quarantine_receipts and recv between them lose no receipt and  *)
(* count none twice.                                                        *)
THEOREM ReceiptsAreAccounted == Spec => []ReceiptsAccounted
<1>1. Inv => ReceiptsAccounted
  BY DEF Inv
<1> QED  BY <1>1, SpecInv, PTL

-----------------------------------------------------------------------------
(* Why an epoch ends.                                                       *)

EndsRightly ==
  ingress.fault = None =>
    /\ ingress'.fault = "SequenceGapDeadlineExceeded" => WaitedLong
    /\ ingress'.fault = "TimerTaskFailed" => timer.pc = "died"

LEMMA NamesApart ==
  /\ None # "SequenceGapDeadlineExceeded" /\ None # "TimerTaskFailed"
  /\ None # "HandoffFull" /\ None # "InternalStatePoisoned"
  BY NoneApart DEF Kinds, IngressFaults

LEMMA LockedEndsRightly ==
  ASSUME Inv, ingress' = Locked
  PROVE  EndsRightly
  BY Parts, LockedIs, NamesApart DEF EndsRightly

LEMMA SupervisedEndsRightly ==
  ASSUME Inv, ingress'.fault = Supervised.fault
  PROVE  EndsRightly
<1> SUFFICES ASSUME ingress.fault = None
             PROVE  /\ ingress'.fault # "SequenceGapDeadlineExceeded"
                    /\ ingress'.fault = "TimerTaskFailed" => timer.pc = "died"
  BY DEF EndsRightly
<1>1. \/ Supervised.fault \in {None, "InternalStatePoisoned"}
      \/ Supervised.fault = "TimerTaskFailed" /\ TimerGone /\ ~ingress.cancelled
  BY Parts, SupervisedIs
<1>2. TimerGone /\ ~ingress.cancelled => timer.pc = "died"
  BY Parts DEF TimerGone, Stopping, Live
<1> QED  BY <1>1, <1>2, NamesApart

LEMMA SameEndsRightly ==
  ASSUME ingress'.fault = ingress.fault
  PROVE  EndsRightly
  BY NamesApart DEF EndsRightly

LEMMA PayloadEndsRightly ==
  ASSUME Inv, NEW q, NEW defect, Numbered(q, defect), ProcessPayload(q, defect)
  PROVE  EndsRightly
<1>1. Passed \/ (\E kind \in Kinds : RefusedAs(kind)) \/ Taken(q)
  BY PayloadIs
<1>2. CASE Passed
  BY <1>2, LockedEndsRightly DEF Passed, Unlock
<1>3. ASSUME NEW kind \in Kinds, RefusedAs(kind)
      PROVE  EndsRightly
  <2>1. /\ ingress' = Latched(Locked, kind) /\ Live(Locked) /\ kind # "TimerTaskFailed"
        /\ kind = "SequenceGapDeadlineExceeded" => WaitedLong
    BY <1>3 DEF RefusedAs, Unlock
  <2>2. Locked \in IngressT /\ Locked.fault = None
    BY <2>1, Parts, LockedIs DEF Live
  <2>3. ingress'.fault = kind
    BY <2>1, <2>2, LatchedIs
  <2> QED  BY <2>1, <2>3 DEF EndsRightly
<1>4. CASE Taken(q)
  <2>1. /\ ingress' = Accepted(q) /\ Live(Locked) /\ q \in Nat
        /\ AdmissionFault(ingress, q) = None
    BY <1>4 DEF Taken, Unlock
  <2>2. Live(ingress)
    BY <2>1, Parts, LockedIs DEF Live
  <2>3. Live(Accepted(q))
    BY <2>1, <2>2, Parts, AcceptedIs
  <2>4. ingress'.fault = None
    BY <2>1, <2>3 DEF Live
  <2> QED  BY <2>4, NamesApart DEF EndsRightly
<1> QED  BY <1>1, <1>2, <1>3, <1>4

LEMMA HandOverEndsRightly == Inv /\ HandOver => EndsRightly
<1> SUFFICES ASSUME Inv, HandOver
             PROVE  EndsRightly
  OBVIOUS
<1>1. ingress' = ingress \/ ingress' = Latched(ingress, "HandoffFull")
  BY DEF HandOver, Unlock
<1>2. "HandoffFull" \in Kinds
  BY DEF Kinds, IngressFaults
<1>3. CASE ingress' = Latched(ingress, "HandoffFull")
  <2>1. ingress.fault = None => ingress'.fault = "HandoffFull"
    BY <1>2, <1>3, Parts, LatchedIs
  <2> QED  BY <2>1 DEF EndsRightly
<1> QED  BY <1>1, <1>3, SameEndsRightly

LEMMA ExpireEndsRightly == Inv /\ ExpireGap => EndsRightly
<1> SUFFICES ASSUME Inv, ExpireGap
             PROVE  EndsRightly
  OBVIOUS
<1>1. \/ ingress' = Locked
      \/ ingress' = ingress
      \/ /\ ~Locked.cancelled /\ Locked.fault = None /\ Due(Locked) /\ timer.pc = "expiring"
         /\ ingress' = Latched(Locked, "SequenceGapDeadlineExceeded")
  BY DEF ExpireGap, Unlock
<1>2. CASE /\ ~Locked.cancelled /\ Locked.fault = None /\ Due(Locked) /\ timer.pc = "expiring"
           /\ ingress' = Latched(Locked, "SequenceGapDeadlineExceeded")
  <2>1. "SequenceGapDeadlineExceeded" \in Kinds
    BY DEF Kinds, IngressFaults
  <2>2. Locked \in IngressT /\ Locked = ingress
    BY <1>2, Parts, LockedIs
  <2>3. ingress'.fault = "SequenceGapDeadlineExceeded"
    BY <1>2, <2>1, <2>2, LatchedIs
  <2>4. Live(ingress) /\ ingress.gap # None /\ timer.deadline >= ingress.gap.deadline
    BY <1>2, <2>2 DEF Due, Live
  <2>5. timer.deadline <= clock /\ timer.deadline \in Nat /\ clock \in Nat
    BY <1>2, Parts DEF Stopping, TimerT
  <2>6. WaitedLong
    BY <2>4, <2>5, Parts, OverdueIs
  <2> QED  BY <2>3, <2>6 DEF EndsRightly
<1> QED  BY <1>1, <1>2, LockedEndsRightly, SameEndsRightly

LEMMA OwnerEndsRightly ==
  ASSUME Inv, ReceivingStep \/ Close
  PROVE  EndsRightly
<1>1. \/ ingress' = ingress
      \/ ingress' = Locked
      \/ ingress' = Supervised
      \/ Close
  BY DEF ReceivingStep, LookForFault, WakeForFault, TakeReceipt, WakeForTimer, FindNothing,
         Settle, Quarantine, Unlock
<1>2. CASE Close
  <2>1. ingress' = [Supervised EXCEPT !.cancelled = TRUE, !.pending = Nothing, !.gap = None]
    BY <1>2 DEF Close, Unlock
  <2>2. Supervised \in IngressT
    BY Parts, SupervisedIs
  <2>3. ingress'.fault = Supervised.fault
    BY <2>1, <2>2 DEF IngressT
  <2> QED  BY <2>3, SupervisedEndsRightly
<1>3. CASE ingress' = Supervised
  BY <1>3, SupervisedEndsRightly
<1> QED  BY <1>1, <1>2, <1>3, LockedEndsRightly, SameEndsRightly

LEMMA StepEndsRightly == Inv /\ [Next]_vars => EndsRightly
<1> SUFFICES ASSUME Inv, [Next]_vars
             PROVE  EndsRightly
  OBVIOUS
<1>1. ASSUME NEW q \in EventSeqs, ProcessPayload(q, None)
      PROVE  EndsRightly
  <2>1. Numbered(q, None)
    BY <1>1 DEF Numbered
  <2> QED  BY <1>1, <2>1, PayloadEndsRightly
<1>2. ASSUME NEW defect \in Defects, ProcessPayload(0, defect)
      PROVE  EndsRightly
  <2>1. Numbered(0, defect)
    BY <1>2 DEF Numbered
  <2> QED  BY <1>2, <2>1, PayloadEndsRightly
<1>3. CASE PanicUnderLock
  <2>1. ingress'.fault = ingress.fault
    BY <1>3, Parts DEF PanicUnderLock, IngressT
  <2> QED  BY <2>1, SameEndsRightly
<1>4. CASE \/ WakeForCommand \/ WakeForDeadline \/ TimerDies \/ CancelRecv \/ Tick
           \/ (\E waits \in BOOLEAN : StartRecv(waits)) \/ UNCHANGED vars
  <2>1. ingress' = ingress
    BY <1>4 DEF WakeForCommand, WakeForDeadline, TimerDies, CancelRecv, Tick, StartRecv, vars
  <2> QED  BY <2>1, SameEndsRightly
<1> QED
  BY <1>1, <1>2, <1>3, <1>4, HandOverEndsRightly, ExpireEndsRightly, OwnerEndsRightly
  DEF Next, TimerStep

(* expire_gap, expire_overdue_gap_locked and latch_timer_task_failure end   *)
(* an epoch for the reason they give: some receipt has waited its whole     *)
(* deadline, or the timer task has died.                                    *)
THEOREM EpochEndsForItsReason == Spec => EndsForItsReason
<1>1. Inv /\ [Next]_vars =>
        [ingress.fault = None =>
           /\ ingress'.fault = "SequenceGapDeadlineExceeded" =>
                \E q \in DOMAIN ingress.pending : ingress.pending[q] + ReorderDeadline <= clock
           /\ ingress'.fault = "TimerTaskFailed" => timer.pc = "died"]_vars
  BY StepEndsRightly DEF EndsRightly, WaitedLong
<1> QED  BY <1>1, SpecInv, PTL DEF Spec, EndsForItsReason

-----------------------------------------------------------------------------
(* The order of what is on its way.                                         *)

Unbroken == ingress.fault = None /\ ~ingress.poisoned

(* Delivered, in the hand, queued, about to be queued: numbered without a   *)
(* gap up to the next number, as long as nothing ended the epoch.           *)
Numbering ==
  /\ delivered # <<>> => delivered[Len(delivered)].seq = Len(delivered)
  /\ consumer.hand # None => consumer.hand.seq = Len(delivered) + 1
  /\ \A i \in 1 .. Len(channel.queue) : channel.queue[i].seq = Len(delivered) + InHands + i
  /\ \A i \in 1 .. Len(handing) :
       handing[i].seq = Len(delivered) + InHands + Len(channel.queue) + i
  /\ ingress.next = Len(delivered) + InHands + Len(channel.queue) + Len(handing) + 1

Elements(b) == {b[i] : i \in 1 .. Len(b)}

Underway ==
  Elements(channel.queue) \cup Elements(handing)
  \cup {e \in {consumer.hand} : e # None}
  \cup {delivered[i] : i \in {j \in {Len(delivered)} : j # 0}}

Ordering ==
  /\ \A e \in Underway : e.seq < ingress.next /\ e.ordered <= ingress.lastOrdered
  /\ \A d, e \in Underway : d.seq <= e.seq => d.ordered <= e.ordered

InOrder == Unbroken => Numbering /\ Ordering

(* What a step may do to them: nothing, put a batch behind the rest, move   *)
(* the first receipt of one place to the end of the next.                   *)
Stays  == /\ UNCHANGED <<handing, delivered>> /\ channel'.queue = channel.queue
          /\ consumer'.hand = consumer.hand
          /\ ingress'.next = ingress.next /\ ingress'.lastOrdered = ingress.lastOrdered
Grows  == /\ handing = <<>> /\ UNCHANGED delivered /\ channel'.queue = channel.queue
          /\ consumer'.hand = consumer.hand
          /\ Batch(handing', ingress.next, ingress.lastOrdered, ingress'.lastOrdered)
          /\ ingress.lastOrdered <= ingress'.lastOrdered
          /\ ingress'.next = ingress.next + Len(handing')
Queues == /\ handing # <<>> /\ handing' = Tail(handing)
          /\ channel'.queue = Append(channel.queue, Head(handing))
          /\ UNCHANGED delivered /\ consumer'.hand = consumer.hand
          /\ ingress'.next = ingress.next /\ ingress'.lastOrdered = ingress.lastOrdered
Takes  == /\ channel.queue # <<>> /\ consumer.hand = None
          /\ channel'.queue = Tail(channel.queue) /\ consumer'.hand = Head(channel.queue)
          /\ UNCHANGED <<handing, delivered>>
          /\ ingress'.next = ingress.next /\ ingress'.lastOrdered = ingress.lastOrdered
Hands  == /\ consumer.hand # None /\ consumer'.hand = None
          /\ delivered' = Append(delivered, consumer.hand)
          /\ UNCHANGED handing /\ channel'.queue = channel.queue
          /\ ingress'.next = ingress.next /\ ingress'.lastOrdered = ingress.lastOrdered

LEMMA PlacesAre ==
  ASSUME Inv
  PROVE  /\ channel.queue \in Seq(Receipts) /\ handing \in Seq(Receipts)
         /\ delivered \in Seq(Receipts)
         /\ Len(channel.queue) \in Nat /\ Len(handing) \in Nat /\ Len(delivered) \in Nat
         /\ InHands \in Nat
         /\ consumer.hand \in Receipts \cup {None}
         /\ ingress.next \in Nat /\ ingress.lastOrdered \in Nat
<1>1. /\ channel.queue \in Seq(Receipts) /\ handing \in Seq(Receipts)
      /\ delivered \in Seq(Receipts)
  BY Parts, ChannelIs
<1>2. consumer.hand \in Receipts \cup {None}
  BY Parts DEF ConsumerT
<1>3. InHands \in Nat
  BY DEF InHands
<1>4. ingress.next \in Nat /\ ingress.lastOrdered \in Nat
  BY Parts, IngressIs
<1> QED  BY <1>1, <1>2, <1>3, <1>4

LEMMA UnderwayIs ==
  ASSUME Inv, NEW e \in Underway
  PROVE  e \in Receipts /\ e.seq \in Nat /\ e.ordered \in Nat
<1>1. e \in Receipts
  BY PlacesAre DEF Underway, Elements
<1> QED  BY <1>1 DEF Receipts

LEMMA StaysInOrder ==
  ASSUME Inv, Numbering, Ordering, Stays
  PROVE  Numbering' /\ Ordering'
<1>1. Underway' = Underway
  BY DEF Stays, Underway, Elements
<1> QED  BY <1>1 DEF Numbering, Ordering, Stays, InHands

LEMMA MovesInOrder ==
  ASSUME Inv, Ordering, Underway' \subseteq Underway,
         ingress'.next = ingress.next, ingress'.lastOrdered = ingress.lastOrdered
  PROVE  Ordering'
  BY DEF Ordering

LEMMA GrowsInOrder ==
  ASSUME Inv, Inv', Numbering, Ordering, Grows
  PROVE  Numbering' /\ Ordering'
<1> DEFINE b == handing'
<1>1. /\ b \in Seq(Receipts) /\ Len(b) \in Nat
      /\ \A i \in 1 .. Len(b) : /\ b[i].seq = ingress.next + i - 1
                                /\ ingress.lastOrdered <= b[i].ordered
                                /\ b[i].ordered <= ingress'.lastOrdered
      /\ \A i, j \in 1 .. Len(b) : i <= j => b[i].ordered <= b[j].ordered
  BY DEF Grows, Batch
<1>2. /\ handing = <<>> /\ delivered' = delivered /\ channel'.queue = channel.queue
      /\ consumer'.hand = consumer.hand /\ InHands' = InHands
      /\ ingress.lastOrdered <= ingress'.lastOrdered
      /\ ingress'.next = ingress.next + Len(b)
  BY DEF Grows, InHands
<1>3. ingress.next = Len(delivered) + InHands + Len(channel.queue) + 1
  BY <1>2, PlacesAre DEF Numbering
<1>4. Numbering'
  <2>1. ASSUME NEW i \in 1 .. Len(b)
        PROVE  b[i].seq = Len(delivered) + InHands + Len(channel.queue) + i
    <3>1. b[i].seq = ingress.next + i - 1
      BY <1>1
    <3>2. /\ Len(delivered) \in Nat /\ InHands \in Nat /\ Len(channel.queue) \in Nat
          /\ ingress.next \in Int /\ i \in Int
      BY <1>1, PlacesAre
    <3> HIDE DEF b
    <3> DEFINE D == Len(delivered)  Q == Len(channel.queue)
    <3>3. D \in Nat /\ Q \in Nat /\ ingress.next = D + InHands + Q + 1
      BY <1>3, <3>2
    <3> HIDE DEF D, Q
    <3>4. ingress.next + i - 1 = D + InHands + Q + i
      BY ONLY <3>2, <3>3
    <3> QED  BY <3>1, <3>4 DEF D, Q
  <2>2. ingress'.next = Len(delivered) + InHands + Len(channel.queue) + Len(b) + 1
    BY <1>1, <1>2, <1>3, PlacesAre
  <2>3. \A i \in 1 .. Len(b) : b[i].seq = Len(delivered) + InHands + Len(channel.queue) + i
    BY <2>1
  <2> QED  BY <1>2, <2>2, <2>3 DEF Numbering
<1>5. Underway' = Underway \cup Elements(b)
  BY <1>2 DEF Underway, Elements
<1> HIDE DEF b
<1>6. \A e \in Elements(b) :
        /\ e.seq \in Nat /\ e.ordered \in Nat
        /\ ingress.next <= e.seq /\ e.seq < ingress'.next
        /\ ingress.lastOrdered <= e.ordered /\ e.ordered <= ingress'.lastOrdered
  <2> SUFFICES ASSUME NEW i \in 1 .. Len(b)
               PROVE  /\ b[i].seq \in Nat /\ b[i].ordered \in Nat
                      /\ ingress.next <= b[i].seq /\ b[i].seq < ingress'.next
                      /\ ingress.lastOrdered <= b[i].ordered
                      /\ b[i].ordered <= ingress'.lastOrdered
    BY DEF Elements
  <2>1. b[i] \in Receipts
    BY <1>1
  <2>2. b[i].seq \in Nat /\ b[i].ordered \in Nat
    BY <2>1 DEF Receipts
  <2> QED  BY <1>1, <1>2, <2>2, PlacesAre
<1>7. ingress'.next \in Int /\ ingress.next <= ingress'.next
  BY <1>1, <1>2, PlacesAre
<1>8. ASSUME NEW e \in Underway
      PROVE  /\ e.seq < ingress.next /\ e.seq < ingress'.next
             /\ e.ordered <= ingress.lastOrdered
             /\ e.seq \in Nat /\ e.ordered \in Nat
  BY <1>7, UnderwayIs, PlacesAre DEF Ordering
<1>9. ASSUME NEW d \in Elements(b), NEW e \in Elements(b), d.seq <= e.seq
      PROVE  d.ordered <= e.ordered
  <2>1. PICK i \in 1 .. Len(b) : d = b[i]
    BY DEF Elements
  <2>2. PICK j \in 1 .. Len(b) : e = b[j]
    BY DEF Elements
  <2>3. i <= j
    BY <1>1, <1>9, <2>1, <2>2, PlacesAre, SMTT(30)
  <2> QED  BY <1>1, <2>1, <2>2, <2>3
<1>10. ingress'.lastOrdered \in Nat
  <2>1. ingress' \in IngressT
    BY DEF Inv, WellPlaced
  <2> QED  BY <2>1, IngressIs
<1>11. ASSUME NEW d \in Underway', NEW e \in Underway', d.seq <= e.seq
       PROVE  d.ordered <= e.ordered
  <2>1. CASE d \in Underway /\ e \in Underway
    BY <1>11, <2>1 DEF Ordering
  <2>2. CASE d \in Underway /\ e \in Elements(b)
    BY <1>6, <1>8, <2>2, PlacesAre
  <2>3. CASE d \in Elements(b) /\ e \in Underway
    BY <1>6, <1>8, <1>11, <2>3, PlacesAre
  <2>4. CASE d \in Elements(b) /\ e \in Elements(b)
    BY <1>9, <1>11, <2>4
  <2> QED  BY <1>5, <2>1, <2>2, <2>3, <2>4
<1>12. ASSUME NEW e \in Underway'
       PROVE  e.seq < ingress'.next /\ e.ordered <= ingress'.lastOrdered
  <2>1. CASE e \in Underway
    BY <1>2, <1>8, <1>10, <2>1, PlacesAre
  <2>2. CASE e \in Elements(b)
    BY <1>6, <2>2
  <2> QED  BY <1>5, <2>1, <2>2
<1>13. Ordering'
  BY <1>11, <1>12 DEF Ordering
<1> QED  BY <1>4, <1>13

LEMMA HeadTail ==
  ASSUME NEW b \in Seq(Receipts), b # <<>>
  PROVE  /\ Head(b) = b[1] /\ Tail(b) \in Seq(Receipts) /\ Len(b) \in Nat /\ Len(b) > 0
         /\ Len(Tail(b)) = Len(b) - 1
         /\ \A i \in 1 .. Len(b) - 1 : Tail(b)[i] = b[i + 1]
         /\ Head(b) \in Elements(b) /\ Elements(Tail(b)) \subseteq Elements(b)
<1>1. /\ Head(b) = b[1] /\ Tail(b) \in Seq(Receipts) /\ Len(b) \in Nat /\ Len(b) > 0
      /\ Len(Tail(b)) = Len(b) - 1
      /\ \A i \in 1 .. Len(b) - 1 : Tail(b)[i] = b[i + 1]
  OBVIOUS
<1>2. Head(b) \in Elements(b)
  BY <1>1 DEF Elements
<1>3. ASSUME NEW i \in 1 .. Len(Tail(b))
      PROVE  Tail(b)[i] \in Elements(b)
  <2>1. i \in 1 .. Len(b) - 1 /\ i + 1 \in 1 .. Len(b)
    BY <1>1
  <2>2. Tail(b)[i] = b[i + 1]
    BY <1>1, <2>1
  <2> QED  BY <2>1, <2>2 DEF Elements
<1>4. Elements(Tail(b)) \subseteq Elements(b)
  BY <1>3 DEF Elements
<1> QED  BY <1>1, <1>2, <1>4

LEMMA Appended ==
  ASSUME NEW b \in Seq(Receipts), NEW e \in Receipts
  PROVE  /\ Append(b, e) \in Seq(Receipts) /\ Len(b) \in Nat
         /\ Len(Append(b, e)) = Len(b) + 1
         /\ \A i \in 1 .. Len(b) : Append(b, e)[i] = b[i]
         /\ Append(b, e)[Len(b) + 1] = e
         /\ Elements(Append(b, e)) \subseteq Elements(b) \cup {e}
<1>1. /\ Append(b, e) \in Seq(Receipts) /\ Len(b) \in Nat
      /\ Len(Append(b, e)) = Len(b) + 1
      /\ \A i \in 1 .. Len(b) : Append(b, e)[i] = b[i]
      /\ Append(b, e)[Len(b) + 1] = e
  OBVIOUS
<1>2. ASSUME NEW i \in 1 .. Len(Append(b, e))
      PROVE  Append(b, e)[i] \in Elements(b) \cup {e}
  <2>1. i \in 1 .. Len(b) \/ i = Len(b) + 1
    BY <1>1
  <2> QED  BY <1>1, <2>1 DEF Elements
<1>3. Elements(Append(b, e)) \subseteq Elements(b) \cup {e}
  BY <1>2 DEF Elements
<1> QED  BY <1>1, <1>3

(* The arithmetic of a receipt that moves one place, apart from sequences.  *)
LEMMA SumLast    == \A a, b, c \in Nat : a + b + c + 1 = a + b + (c + 1)
  OBVIOUS
LEMMA SumQueued  == \A p, c, i \in Nat : p + c + (i + 1) = p + (c + 1) + i
  OBVIOUS
LEMMA SumQueues  == \A p, c, d \in Nat : p + c + d + 1 = p + (c + 1) + (d - 1) + 1
  OBVIOUS
LEMMA SumTaken   == \A a, c, i \in Nat : a + c + i = a + 1 + (c - 1) + i
  OBVIOUS
LEMMA SumTakes   == \A a, c, d \in Nat : a + c + d + 1 = a + 1 + (c - 1) + d + 1
  OBVIOUS
LEMMA SumHanded  == \A p, c, i \in Nat : p + c + i = p + 0 + c + i
  OBVIOUS
LEMMA SumFirst   == \A a, i \in Nat : a + 1 + i = (a + 1) + 0 + i
  OBVIOUS
LEMMA SumHands   == \A a, c, d \in Nat : a + 1 + c + d + 1 = (a + 1) + 0 + c + d + 1
  OBVIOUS

LEMMA QueuesInOrder ==
  ASSUME Inv, Numbering, Ordering, Queues
  PROVE  Numbering' /\ Ordering'
<1> DEFINE h == handing
           u == channel.queue
<1>1. /\ h # <<>> /\ handing' = Tail(h) /\ channel'.queue = Append(u, Head(h))
      /\ delivered' = delivered /\ consumer'.hand = consumer.hand /\ InHands' = InHands
      /\ ingress'.next = ingress.next /\ ingress'.lastOrdered = ingress.lastOrdered
  BY DEF Queues, InHands
<1>2. /\ h \in Seq(Receipts) /\ u \in Seq(Receipts) /\ InHands \in Nat /\ Len(delivered) \in Nat
  BY PlacesAre
<1>3. /\ Head(h) = h[1] /\ Tail(h) \in Seq(Receipts) /\ Len(h) \in Nat /\ Len(h) > 0
      /\ Len(Tail(h)) = Len(h) - 1 /\ Head(h) \in Elements(h)
      /\ \A i \in 1 .. Len(h) - 1 : Tail(h)[i] = h[i + 1]
      /\ Elements(Tail(h)) \subseteq Elements(h) /\ Head(h) \in Receipts
  BY <1>1, <1>2, HeadTail
<1>4. /\ Len(u) \in Nat /\ Len(Append(u, Head(h))) = Len(u) + 1
      /\ \A i \in 1 .. Len(u) : Append(u, Head(h))[i] = u[i]
      /\ Append(u, Head(h))[Len(u) + 1] = Head(h)
      /\ Elements(Append(u, Head(h))) \subseteq Elements(u) \cup {Head(h)}
  BY <1>2, <1>3, Appended
<1>5. /\ \A i \in 1 .. Len(u) : u[i].seq = Len(delivered) + InHands + i
      /\ \A i \in 1 .. Len(h) : h[i].seq = Len(delivered) + InHands + Len(u) + i
      /\ ingress.next = Len(delivered) + InHands + Len(u) + Len(h) + 1
  BY DEF Numbering
<1>6. /\ Len(delivered) \in Nat /\ InHands \in Nat /\ Len(u) \in Nat /\ Len(h) \in Nat
       /\ Len(channel'.queue) = Len(u) + 1 /\ Len(handing') = Len(h) - 1
  BY <1>1, <1>2, <1>3, <1>4
<1>7. Len(delivered) + InHands \in Nat
  BY <1>6
<1>8. Underway' \subseteq Underway
  <2>1. Elements(channel.queue)' = Elements(Append(u, Head(h)))
    BY <1>1 DEF Elements
  <2>2. Elements(handing)' = Elements(Tail(h))
    BY <1>1 DEF Elements
  <2> QED  BY <1>1, <1>3, <1>4, <2>1, <2>2 DEF Underway
<1>9. Ordering'
  BY <1>1, <1>8, MovesInOrder
<1>10. \A i \in 1 .. Len(channel'.queue) : channel'.queue[i].seq = Len(delivered) + InHands + i
  <2> SUFFICES ASSUME NEW i \in 1 .. Len(u) + 1
               PROVE  Append(u, Head(h))[i].seq = Len(delivered) + InHands + i
    BY <1>1, <1>4
  <2>1. CASE i \in 1 .. Len(u)
    BY <1>4, <1>5, <2>1
  <2>2. CASE i = Len(u) + 1
    <3>1. h[1].seq = Len(delivered) + InHands + Len(u) + 1
      BY <1>3, <1>5
    <3>2. Append(u, Head(h))[i] = h[1]
      BY <1>3, <1>4, <2>2
    <3>3. Len(delivered) + InHands + Len(u) + 1 = Len(delivered) + InHands + (Len(u) + 1)
      BY <1>6, SumLast, Zenon
    <3> QED  BY <2>2, <3>1, <3>2, <3>3, Zenon
  <2> QED  BY <1>4, <2>1, <2>2
<1>11. \A i \in 1 .. Len(handing') :
        handing'[i].seq = Len(delivered) + InHands + Len(channel'.queue) + i
  <2> SUFFICES ASSUME NEW i \in 1 .. Len(h) - 1
               PROVE  Tail(h)[i].seq = Len(delivered) + InHands + (Len(u) + 1) + i
    BY <1>1, <1>3, <1>4
  <2>1. h[i + 1].seq = Len(delivered) + InHands + Len(u) + (i + 1)
    BY <1>3, <1>5
  <2>2. Tail(h)[i] = h[i + 1] /\ i \in Nat
    BY <1>3, <1>6
  <2>3. Len(delivered) + InHands + Len(u) + (i + 1) = Len(delivered) + InHands + (Len(u) + 1) + i
    BY <1>6, <1>7, <2>2, SumQueued, ZenonT(40)
  <2> QED  BY <2>1, <2>2, <2>3, Zenon
<1>12. ingress'.next = Len(delivered) + InHands + Len(channel'.queue) + Len(handing') + 1
  <2>1. ingress'.next = Len(delivered) + InHands + Len(u) + Len(h) + 1
    BY <1>1, <1>5
  <2>2. Len(delivered) + InHands + Len(u) + Len(h) + 1
          = Len(delivered) + InHands + (Len(u) + 1) + (Len(h) - 1) + 1
    BY <1>6, <1>7, SumQueues, Zenon
  <2> QED  BY <1>6, <2>1, <2>2, Zenon
<1>13. Numbering'
  BY <1>1, <1>10, <1>11, <1>12 DEF Numbering
<1> QED  BY <1>9, <1>13

LEMMA TakesInOrder ==
  ASSUME Inv, Numbering, Ordering, Takes
  PROVE  Numbering' /\ Ordering'
<1> DEFINE u == channel.queue
<1>1. /\ u # <<>> /\ consumer.hand = None
      /\ channel'.queue = Tail(u) /\ consumer'.hand = Head(u)
      /\ handing' = handing /\ delivered' = delivered
      /\ ingress'.next = ingress.next /\ ingress'.lastOrdered = ingress.lastOrdered
  BY DEF Takes
<1>2. u \in Seq(Receipts) /\ Len(handing) \in Nat /\ Len(delivered) \in Nat
  BY PlacesAre
<1>3. /\ Head(u) = u[1] /\ Len(u) \in Nat /\ Len(u) > 0 /\ Len(Tail(u)) = Len(u) - 1
      /\ \A i \in 1 .. Len(u) - 1 : Tail(u)[i] = u[i + 1]
      /\ Head(u) \in Elements(u) /\ Elements(Tail(u)) \subseteq Elements(u)
      /\ Head(u) \in Receipts
  BY <1>1, <1>2, HeadTail
<1>4. InHands = 0 /\ InHands' = 1
  BY <1>1, <1>3, NoneApart DEF InHands
<1>5. Underway' \subseteq Underway
  <2>1. Elements(channel.queue)' = Elements(Tail(u))
    BY <1>1 DEF Elements
  <2>2. Elements(handing)' = Elements(handing)
    BY <1>1 DEF Elements
  <2> QED  BY <1>1, <1>3, <2>1, <2>2 DEF Underway
<1>6. Ordering'
  BY <1>1, <1>5, MovesInOrder
<1>7. /\ \A i \in 1 .. Len(u) : u[i].seq = Len(delivered) + i
      /\ \A i \in 1 .. Len(handing) : handing[i].seq = Len(delivered) + Len(u) + i
      /\ ingress.next = Len(delivered) + Len(u) + Len(handing) + 1
  BY <1>2, <1>3, <1>4 DEF Numbering
<1>8. consumer'.hand.seq = Len(delivered) + 1
  BY <1>1, <1>3, <1>7
<1>9. \A i \in 1 .. Len(u) - 1 : Tail(u)[i].seq = Len(delivered) + 1 + i
  <2> SUFFICES ASSUME NEW i \in 1 .. Len(u) - 1
               PROVE  Tail(u)[i].seq = Len(delivered) + 1 + i
    OBVIOUS
  <2>1. u[i + 1].seq = Len(delivered) + (i + 1)
    BY <1>3, <1>7
  <2> QED  BY <1>2, <1>3, <2>1
<1>10. Len(u) \in Nat /\ Len(handing) \in Nat /\ Len(delivered) \in Nat
  BY <1>2, <1>3
<1>11. ASSUME NEW i \in 1 .. Len(handing)
       PROVE  handing[i].seq = Len(delivered) + 1 + (Len(u) - 1) + i
  <2>1. handing[i].seq = Len(delivered) + Len(u) + i /\ i \in Nat
    BY <1>7, <1>10
  <2>2. Len(delivered) + Len(u) + i = Len(delivered) + 1 + (Len(u) - 1) + i
    BY <1>10, <2>1, SumTaken, Zenon
  <2> QED  BY <2>1, <2>2, Zenon
<1>12. ingress.next = Len(delivered) + 1 + (Len(u) - 1) + Len(handing) + 1
  <2>1. ingress.next = Len(delivered) + Len(u) + Len(handing) + 1
    BY <1>7
  <2>2. Len(delivered) + Len(u) + Len(handing) + 1
          = Len(delivered) + 1 + (Len(u) - 1) + Len(handing) + 1
    BY <1>10, SumTakes, Zenon
  <2> QED  BY <2>1, <2>2, Zenon
<1>13. Numbering'
  BY <1>1, <1>3, <1>4, <1>8, <1>9, <1>11, <1>12 DEF Numbering
<1> QED  BY <1>6, <1>13

LEMMA HandsInOrder ==
  ASSUME Inv, Numbering, Ordering, Hands
  PROVE  Numbering' /\ Ordering'
<1> DEFINE e == consumer.hand
           n == Len(delivered)
<1>1. /\ e # None /\ consumer'.hand = None /\ delivered' = Append(delivered, e)
      /\ handing' = handing /\ channel'.queue = channel.queue
      /\ ingress'.next = ingress.next /\ ingress'.lastOrdered = ingress.lastOrdered
  BY DEF Hands
<1>2. /\ delivered \in Seq(Receipts) /\ e \in Receipts /\ n \in Nat
      /\ Len(channel.queue) \in Nat /\ Len(handing) \in Nat
  BY <1>1, PlacesAre
<1>3. Len(delivered') = n + 1 /\ delivered'[n + 1] = e
  BY <1>1, <1>2, Appended
<1>4. InHands = 1 /\ InHands' = 0
  BY <1>1 DEF InHands
<1>5. Underway' \subseteq Underway
  <2>1. e \in Underway
    BY <1>1 DEF Underway
  <2>2. Elements(channel.queue)' = Elements(channel.queue) /\ Elements(handing)' = Elements(handing)
    BY <1>1 DEF Elements
  <2> QED  BY <1>1, <1>3, <2>1, <2>2 DEF Underway
<1>6. Ordering'
  BY <1>1, <1>5, MovesInOrder
<1>7. /\ e.seq = n + 1
      /\ \A i \in 1 .. Len(channel.queue) : channel.queue[i].seq = n + 1 + i
      /\ \A i \in 1 .. Len(handing) : handing[i].seq = n + 1 + Len(channel.queue) + i
      /\ ingress.next = n + 1 + Len(channel.queue) + Len(handing) + 1
  BY <1>1, <1>4 DEF Numbering
<1>8. n + 1 \in Nat
  BY <1>2
<1>9. ASSUME NEW i \in 1 .. Len(channel.queue)
      PROVE  channel.queue[i].seq = (n + 1) + 0 + i
  <2>1. channel.queue[i].seq = n + 1 + i /\ i \in Nat
    BY <1>2, <1>7
  <2> QED  BY <1>2, <2>1, SumFirst, Zenon
<1>10. ASSUME NEW i \in 1 .. Len(handing)
      PROVE  handing[i].seq = (n + 1) + 0 + Len(channel.queue) + i
  <2>1. handing[i].seq = n + 1 + Len(channel.queue) + i
    BY <1>7
  <2>2. i \in Nat /\ Len(channel.queue) \in Nat
    BY <1>2
  <2> QED  BY <1>8, <2>1, <2>2, SumHanded, Zenon
<1>11. ingress.next = (n + 1) + 0 + Len(channel.queue) + Len(handing) + 1
  <2>1. ingress.next = n + 1 + Len(channel.queue) + Len(handing) + 1
    BY <1>7
  <2> QED  BY <1>2, <2>1, SumHands, Zenon
<1>12. delivered'[Len(delivered')].seq = Len(delivered')
  BY <1>3, <1>7
<1> HIDE DEF n
<1>13. Numbering'
  BY <1>1, <1>3, <1>4, <1>9, <1>10, <1>11, <1>12 DEF Numbering
<1> QED  BY <1>6, <1>13

(* A step keeps the order, or the epoch is over afterwards.                 *)
Moves == Stays \/ Grows \/ Queues \/ Takes \/ Hands

Orderly == Unbroken' => Unbroken /\ Moves

LEMMA OrderlyKeeps ==
  ASSUME Inv, Inv', InOrder, Orderly
  PROVE  InOrder'
<1> SUFFICES ASSUME Unbroken'
             PROVE  Numbering' /\ Ordering'
  BY DEF InOrder
<1>1. Numbering /\ Ordering /\ Moves
  BY DEF Orderly, InOrder
<1> QED
  BY <1>1, StaysInOrder, GrowsInOrder, QueuesInOrder, TakesInOrder, HandsInOrder DEF Moves

(* Whoever leaves the mutex without a fault found it without one.           *)
LEMMA LeftUnbroken ==
  ASSUME Inv, \/ ingress' = Locked
              \/ ingress'.fault = Supervised.fault /\ ingress'.next = Supervised.next
                 /\ ingress'.lastOrdered = Supervised.lastOrdered,
         Unbroken'
  PROVE  /\ Unbroken /\ Locked = ingress
         /\ ingress'.next = ingress.next /\ ingress'.lastOrdered = ingress.lastOrdered
<1>1. CASE ingress' = Locked
  <2>1. Locked = ingress /\ ~ingress.poisoned
    BY <1>1, Parts, LockedIs DEF Unbroken
  <2> QED  BY <1>1, <2>1 DEF Unbroken
<1>2. CASE /\ ingress'.fault = Supervised.fault /\ ingress'.next = Supervised.next
           /\ ingress'.lastOrdered = Supervised.lastOrdered
  <2>1. Supervised = ingress /\ ~ingress.poisoned
    BY <1>2, Parts, SupervisedIs DEF Unbroken
  <2>2. Unbroken
    BY <1>2, <2>1 DEF Unbroken
  <2>3. Locked = ingress
    BY <2>1 DEF Locked
  <2> QED  BY <1>2, <2>1, <2>2, <2>3
<1> QED  BY <1>1, <1>2

LEMMA PayloadOrderly ==
  ASSUME Inv, NEW q, NEW defect, Numbered(q, defect), ProcessPayload(q, defect)
  PROVE  Orderly
<1> SUFFICES ASSUME Unbroken'
             PROVE  Unbroken /\ Moves
  BY DEF Orderly
<1>1. /\ Passed \/ (\E kind \in Kinds : RefusedAs(kind)) \/ Taken(q)
      /\ UNCHANGED <<clock, channel, timer, delivered>>
  BY PayloadIs
<1>2. CASE Passed
  <2>1. ingress' = Locked /\ handing' = handing /\ consumer'.hand = consumer.hand
    BY <1>2, Parts DEF Passed, Unlock, Notified, ConsumerT
  <2> QED  BY <1>1, <2>1, LeftUnbroken DEF Stays, Moves
<1>3. ASSUME NEW kind \in Kinds, RefusedAs(kind)
      PROVE  FALSE
  <2>1. ingress' = Latched(Locked, kind) /\ Locked \in IngressT
    BY <1>3, Parts, LockedIs DEF RefusedAs, Unlock
  <2>2. ingress'.fault # None
    BY <2>1, LatchedIs, NoneApart
  <2> QED  BY <2>2 DEF Unbroken
<1>4. CASE Taken(q)
  <2>1. /\ ingress' = Accepted(q) /\ Live(Locked) /\ q \in Nat /\ handing = <<>>
        /\ AdmissionFault(ingress, q) = None /\ handing' = Freed(ingress, q)
        /\ consumer'.hand = consumer.hand
    BY <1>4, Parts DEF Taken, Unlock, Notified, ConsumerT
  <2>2. Live(ingress) /\ ~ingress.poisoned
    BY <2>1, Parts, LockedIs DEF Live
  <2>3. /\ ingress.lastOrdered <= ingress'.lastOrdered
        /\ Batch(handing', ingress.next, ingress.lastOrdered, ingress'.lastOrdered)
        /\ ingress'.next = ingress.next + Len(handing')
    BY <2>1, <2>2, Parts, AcceptedIs
  <2>4. Grows
    BY <1>1, <2>1, <2>3 DEF Grows
  <2> QED  BY <2>2, <2>4 DEF Moves, Unbroken, Live
<1> QED  BY <1>1, <1>2, <1>3, <1>4

LEMMA HandOverOrderly == Inv /\ HandOver => Orderly
<1> SUFFICES ASSUME Inv, HandOver, Unbroken'
             PROVE  Unbroken /\ Moves
  BY DEF Orderly
<1>1. handing # <<>> /\ delivered' = delivered
  BY DEF HandOver
<1>2. CASE /\ channel' = [channel EXCEPT !.queue = Append(@, Head(handing))]
           /\ handing' = Tail(handing)
           /\ UNCHANGED <<ingress, command, consumer>>
  <2>1. channel'.queue = Append(channel.queue, Head(handing))
    BY <1>2, Parts DEF ChannelT
  <2>2. Queues
    BY <1>1, <1>2, <2>1 DEF Queues
  <2> QED  BY <1>2, <2>2 DEF Moves, Unbroken
<1>3. CASE Unlock(Latched(ingress, "HandoffFull"), consumer)
  <2>1. "HandoffFull" \in Kinds
    BY DEF Kinds, IngressFaults
  <2>2. ingress' = Latched(ingress, "HandoffFull")
    BY <1>3 DEF Unlock
  <2>3. ingress'.fault # None
    BY <2>1, <2>2, Parts, LatchedIs, NoneApart
  <2> QED  BY <2>3 DEF Unbroken
<1> QED  BY <1>2, <1>3 DEF HandOver

LEMMA PanicOrderly == Inv /\ PanicUnderLock => Orderly
<1> SUFFICES ASSUME Inv, PanicUnderLock
             PROVE  ~Unbroken'
  BY DEF Orderly
<1>1. ingress'.poisoned
  BY Parts DEF PanicUnderLock, IngressT
<1> QED  BY <1>1 DEF Unbroken

LEMMA ExpireOrderly == Inv /\ ExpireGap => Orderly
<1> SUFFICES ASSUME Inv, ExpireGap, Unbroken'
             PROVE  Unbroken /\ Moves
  BY DEF Orderly
<1>1. UNCHANGED <<clock, handing, channel, counts, delivered>>
  BY DEF ExpireGap
<1>2. CASE Unlock(Locked, consumer)
  <2>1. ingress' = Locked /\ consumer'.hand = consumer.hand
    BY <1>2, Parts DEF Unlock, Notified, ConsumerT
  <2> QED  BY <1>1, <2>1, LeftUnbroken DEF Stays, Moves
<1>3. CASE UNCHANGED <<ingress, consumer>>
  BY <1>1, <1>3 DEF Stays, Moves, Unbroken
<1>4. CASE Unlock(Latched(Locked, "SequenceGapDeadlineExceeded"), consumer)
  <2>1. "SequenceGapDeadlineExceeded" \in Kinds
    BY DEF Kinds, IngressFaults
  <2>2. ingress' = Latched(Locked, "SequenceGapDeadlineExceeded") /\ Locked \in IngressT
    BY <1>4, Parts, LockedIs DEF Unlock
  <2>3. ingress'.fault # None
    BY <2>1, <2>2, LatchedIs, NoneApart
  <2> QED  BY <2>3 DEF Unbroken
<1> QED  BY <1>2, <1>3, <1>4 DEF ExpireGap

LEMMA LookForFaultOrderly == Inv /\ LookForFault => Orderly
<1> SUFFICES ASSUME Inv, LookForFault, Unbroken'
             PROVE  Unbroken /\ Moves
  BY DEF Orderly
<1>1. /\ UNCHANGED <<clock, handing, timer>> /\ ingress' = Supervised
  BY DEF LookForFault, Quarantine, Unlock
<1>2. ingress'.fault = None
  BY DEF Unbroken
<1>3. /\ Unlock(Supervised, [consumer EXCEPT !.pc = "select", !.timed = Awaited])
      /\ UNCHANGED <<channel, counts, delivered>>
  BY <1>1, <1>2 DEF LookForFault
<1>4. consumer'.hand = consumer.hand
  BY <1>3, Parts DEF Unlock, Notified, ConsumerT
<1> QED  BY <1>1, <1>3, <1>4, LeftUnbroken DEF Stays, Moves

LEMMA TakeReceiptOrderly == Inv /\ TakeReceipt => Orderly
<1> SUFFICES ASSUME Inv, TakeReceipt, Unbroken'
             PROVE  Unbroken /\ Moves
  BY DEF Orderly
<1>1. /\ consumer.pc = "select" /\ channel.queue # <<>>
      /\ consumer' = [consumer EXCEPT !.pc = "taken", !.hand = Head(channel.queue)]
      /\ channel' = [channel EXCEPT !.queue = Tail(@)]
      /\ UNCHANGED <<clock, ingress, handing, command, timer, counts, delivered>>
  BY DEF TakeReceipt
<1>2. /\ consumer.hand = None /\ consumer'.hand = Head(channel.queue)
      /\ channel'.queue = Tail(channel.queue)
  BY <1>1, Parts DEF ConsumerT, ChannelT
<1>3. Takes
  BY <1>1, <1>2 DEF Takes
<1> QED  BY <1>1, <1>3 DEF Moves, Unbroken

LEMMA SettleOrderly == Inv /\ Settle => Orderly
<1> SUFFICES ASSUME Inv, Settle, Unbroken'
             PROVE  Unbroken /\ Moves
  BY DEF Orderly
<1>1. consumer.pc = "taken" /\ ingress' = Locked /\ UNCHANGED <<clock, handing, timer>>
  BY DEF Settle, Quarantine, Unlock
<1>2. /\ Unbroken /\ ingress'.next = ingress.next /\ ingress'.lastOrdered = ingress.lastOrdered
  BY <1>1, LeftUnbroken
<1>3. ingress'.fault = None
  BY DEF Unbroken
<1>4. /\ Unlock(Locked, Returned) /\ delivered' = Append(delivered, consumer.hand)
      /\ UNCHANGED <<channel, counts>>
  BY <1>1, <1>3 DEF Settle, PastBoundary
<1>5. consumer.hand # None /\ consumer'.hand = None
  BY <1>1, <1>4, Parts DEF Unlock, Notified, Returned, ConsumerT
<1>6. Hands
  BY <1>1, <1>2, <1>4, <1>5 DEF Hands
<1> QED  BY <1>2, <1>6 DEF Moves

LEMMA CloseOrderly == Inv /\ Close => Orderly
<1> SUFFICES ASSUME Inv, Close, Unbroken'
             PROVE  Unbroken /\ Moves
  BY DEF Orderly
<1>1. /\ ingress' = [Supervised EXCEPT !.cancelled = TRUE, !.pending = Nothing, !.gap = None]
      /\ Unlock([Supervised EXCEPT !.cancelled = TRUE, !.pending = Nothing, !.gap = None],
                [consumer EXCEPT !.timed = FALSE])
      /\ channel' = [channel EXCEPT !.open = FALSE]
      /\ UNCHANGED <<clock, handing, counts, delivered>>
  BY DEF Close, Unlock
<1>2. /\ ingress'.fault = Supervised.fault /\ ingress'.next = Supervised.next
      /\ ingress'.lastOrdered = Supervised.lastOrdered
  <2>1. Supervised \in IngressT
    BY Parts, SupervisedIs
  <2> QED  BY <1>1, <2>1 DEF IngressT
<1>3. consumer'.hand = consumer.hand
  BY <1>1, Parts DEF Unlock, Notified, ConsumerT
<1>4. channel'.queue = channel.queue
  BY <1>1, Parts DEF ChannelT
<1> QED  BY <1>1, <1>2, <1>3, <1>4, LeftUnbroken DEF Stays, Moves

LEMMA WakeForTimerOrderly == Inv /\ WakeForTimer => Orderly
<1> SUFFICES ASSUME Inv, WakeForTimer, Unbroken'
             PROVE  Unbroken /\ Moves
  BY DEF Orderly
<1>1. /\ ingress' = Supervised
      /\ Unlock(Supervised, [consumer EXCEPT !.pc = "loop", !.timed = FALSE])
      /\ UNCHANGED <<clock, handing, channel, timer, counts, delivered>>
  BY DEF WakeForTimer, Unlock
<1>2. consumer'.hand = consumer.hand
  BY <1>1, Parts DEF Unlock, Notified, ConsumerT
<1> QED  BY <1>1, <1>2, LeftUnbroken DEF Stays, Moves

LEMMA QuietOrderly ==
  ASSUME Inv, UNCHANGED <<ingress, handing, channel, delivered>>, consumer'.hand = consumer.hand
  PROVE  Orderly
  BY DEF Orderly, Stays, Moves, Unbroken

LEMMA StepOrderly == Inv /\ [Next]_vars => Orderly
<1> SUFFICES ASSUME Inv, [Next]_vars
             PROVE  Orderly
  OBVIOUS
<1>1. ASSUME NEW q \in EventSeqs, ProcessPayload(q, None)
      PROVE  Orderly
  <2>1. Numbered(q, None)
    BY <1>1 DEF Numbered
  <2> QED  BY <1>1, <2>1, PayloadOrderly
<1>2. ASSUME NEW defect \in Defects, ProcessPayload(0, defect)
      PROVE  Orderly
  <2>1. Numbered(0, defect)
    BY <1>2 DEF Numbered
  <2> QED  BY <1>2, <2>1, PayloadOrderly
<1>3. CASE \/ WakeForCommand \/ WakeForDeadline \/ TimerDies \/ Tick \/ UNCHANGED vars
  <2>1. /\ UNCHANGED <<ingress, handing, channel, delivered>> /\ consumer' = consumer
    BY <1>3 DEF WakeForCommand, WakeForDeadline, TimerDies, Tick, vars
  <2> QED  BY <2>1, QuietOrderly
<1>4. CASE WakeForFault \/ FindNothing \/ CancelRecv \/ (\E waits \in BOOLEAN : StartRecv(waits))
  <2>1. UNCHANGED <<ingress, handing, channel, delivered>>
    BY <1>4 DEF WakeForFault, FindNothing, CancelRecv, StartRecv
  <2>2. consumer'.hand = consumer.hand
    <3>1. CASE FindNothing \/ CancelRecv
      <4>1. consumer.pc = "select" /\ consumer' = Returned
        BY <3>1 DEF FindNothing, CancelRecv
      <4> QED  BY <4>1, Parts DEF Returned, ConsumerT
    <3>2. CASE WakeForFault \/ (\E waits \in BOOLEAN : StartRecv(waits))
      BY <3>2, Parts DEF WakeForFault, StartRecv, ConsumerT
    <3> QED  BY <1>4, <3>1, <3>2
  <2> QED  BY <2>1, <2>2, QuietOrderly
<1> QED
  BY <1>1, <1>2, <1>3, <1>4, HandOverOrderly, PanicOrderly, ExpireOrderly, LookForFaultOrderly,
     TakeReceiptOrderly, WakeForTimerOrderly, SettleOrderly, CloseOrderly
  DEF Next, TimerStep, ReceivingStep

LEMMA OrderStart == Init => InOrder
<1> SUFFICES ASSUME Init
             PROVE  Numbering /\ Ordering
  BY DEF InOrder
<1>1. InHands = 0 /\ Underway = {}
  BY DEF Init, InHands, Underway, Elements
<1> QED  BY <1>1 DEF Init, Numbering, Ordering

LEMMA SpecInOrder == Spec => [](Inv /\ InOrder)
<1>1. Inv /\ InOrder /\ [Next]_vars => (Inv /\ InOrder)'
  <2> SUFFICES ASSUME Inv, InOrder, [Next]_vars
               PROVE  Inv' /\ InOrder'
    OBVIOUS
  <2>1. Inv' /\ Orderly
    BY InvStep, StepOrderly
  <2> QED  BY <2>1, OrderlyKeeps
<1> QED  BY <1>1, InvStart, OrderStart, PTL DEF Spec

-----------------------------------------------------------------------------
(* The consumer's side of it.                                               *)

(* A step that gives the consumer no receipt: the fault is kept, and what   *)
(* the owner is told is the fault.                                          *)
LEMMA TellsTheFault ==
  ASSUME delivered' = delivered,
         ingress.fault # None => ingress'.fault = ingress.fault,
         \/ consumer'.told = consumer.told
         \/ ingress'.fault # None /\ consumer'.told = ingress'.fault
  PROVE  [FailStop!Next]_(FailStop!vars)
<1>1. CASE ingress.fault # None
  <2>1. CASE consumer'.told = consumer.told
    BY <1>1, <2>1 DEF FailStop!vars
  <2>2. CASE consumer'.told = ingress'.fault
    BY <1>1, <2>2 DEF FailStop!Next, FailStop!Tell
  <2> QED  BY <2>1, <2>2
<1>2. CASE ingress.fault = None /\ ingress'.fault = None
  BY <1>2 DEF FailStop!vars
<1>3. CASE ingress.fault = None /\ ingress'.fault # None
  BY <1>3 DEF FailStop!Next, FailStop!Break
<1> QED  BY <1>1, <1>2, <1>3

(* Leaving the mutex with s, the owner being told as much as before.        *)
LEMMA UnlockTells ==
  ASSUME Inv, NEW s \in IngressT, Follows(s), NEW c \in ConsumerT, Unlock(s, c),
         \/ c.told = consumer.told
         \/ s.fault # None /\ c.told = s.fault,
         delivered' = delivered
  PROVE  [FailStop!Next]_(FailStop!vars)
<1>1. ingress' = s /\ consumer'.told = c.told
  BY Parts, UnlockIs
<1>2. ingress.fault # None => ingress'.fault = ingress.fault
  BY <1>1 DEF Follows
<1> QED  BY <1>1, <1>2, TellsTheFault

LEMMA QuarantineTells ==
  ASSUME Inv, NEW s \in IngressT, Follows(s), s.fault # None, NEW taken,
         NEW timed \in BOOLEAN, Quarantine(s, taken, timed)
  PROVE  [FailStop!Next]_(FailStop!vars)
<1> DEFINE c == [Returned EXCEPT !.told = s.fault, !.timed = timed]
<1>1. s.fault \in Kinds \cup {None}
  BY IngressIs
<1>2. c \in ConsumerT /\ c.told = s.fault
  BY <1>1, Parts, ReturnedIs
<1>3. Unlock(s, c) /\ delivered' = delivered
  BY DEF Quarantine
<1> HIDE DEF c
<1> QED  BY <1>2, <1>3, UnlockTells

LEMMA PayloadTells ==
  ASSUME Inv, NEW q, NEW defect, Numbered(q, defect), ProcessPayload(q, defect)
  PROVE  [FailStop!Next]_(FailStop!vars)
<1>1. /\ Passed \/ (\E kind \in Kinds : RefusedAs(kind)) \/ Taken(q)
      /\ delivered' = delivered
  BY PayloadIs
<1>2. CASE Passed
  BY <1>1, <1>2, Parts, LockedIs, LockedFollows, UnlockTells DEF Passed
<1>3. ASSUME NEW kind \in Kinds, RefusedAs(kind)
      PROVE  [FailStop!Next]_(FailStop!vars)
  <2>1. Latched(Locked, kind) \in IngressT /\ Follows(Latched(Locked, kind))
    BY Parts, LockedIs, LatchedIs, LockedFollows
  <2> QED  BY <1>1, <1>3, <2>1, Parts, UnlockTells DEF RefusedAs
<1>4. CASE Taken(q)
  <2>1. Live(ingress)
    BY <1>4, Parts, LockedIs DEF Taken, Live
  <2>2. WellPlaced(Accepted(q), clock)
    BY <1>4, <2>1, Parts, AcceptedIs DEF Taken
  <2>3. Accepted(q) \in IngressT /\ Follows(Accepted(q))
    BY <2>1, <2>2 DEF WellPlaced, Follows, Live
  <2> QED  BY <1>1, <1>4, <2>3, Parts, UnlockTells DEF Taken
<1> QED  BY <1>1, <1>2, <1>3, <1>4

LEMMA HandOverTells == Inv /\ HandOver => [FailStop!Next]_(FailStop!vars)
<1> SUFFICES ASSUME Inv, HandOver
             PROVE  [FailStop!Next]_(FailStop!vars)
  OBVIOUS
<1>1. delivered' = delivered
  BY DEF HandOver
<1>2. CASE UNCHANGED <<ingress, command, consumer>>
  BY <1>1, <1>2, TellsTheFault
<1>3. CASE Unlock(Latched(ingress, "HandoffFull"), consumer)
  <2>1. "HandoffFull" \in Kinds
    BY DEF Kinds, IngressFaults
  <2>2. /\ Latched(ingress, "HandoffFull") \in IngressT
        /\ Follows(Latched(ingress, "HandoffFull"))
    BY <2>1, Parts, LatchedIs, LockedFollows
  <2> QED  BY <1>1, <1>3, <2>2, Parts, UnlockTells
<1> QED  BY <1>2, <1>3 DEF HandOver

LEMMA ExpireTells == Inv /\ ExpireGap => [FailStop!Next]_(FailStop!vars)
<1> SUFFICES ASSUME Inv, ExpireGap
             PROVE  [FailStop!Next]_(FailStop!vars)
  OBVIOUS
<1>1. delivered' = delivered
  BY DEF ExpireGap
<1>2. CASE Unlock(Locked, consumer)
  BY <1>1, <1>2, Parts, LockedIs, LockedFollows, UnlockTells
<1>3. CASE UNCHANGED <<ingress, consumer>>
  BY <1>1, <1>3, TellsTheFault
<1>4. CASE Unlock(Latched(Locked, "SequenceGapDeadlineExceeded"), consumer)
  <2>1. "SequenceGapDeadlineExceeded" \in Kinds
    BY DEF Kinds, IngressFaults
  <2>2. /\ Latched(Locked, "SequenceGapDeadlineExceeded") \in IngressT
        /\ Follows(Latched(Locked, "SequenceGapDeadlineExceeded"))
    BY <2>1, Parts, LockedIs, LatchedIs, LockedFollows
  <2> QED  BY <1>1, <1>4, <2>2, Parts, UnlockTells
<1> QED  BY <1>2, <1>3, <1>4 DEF ExpireGap

LEMMA SupervisedTells ==
  ASSUME Inv, NEW c \in ConsumerT, c.told = consumer.told, delivered' = delivered,
         Unlock(Supervised, c)
  PROVE  [FailStop!Next]_(FailStop!vars)
  BY Parts, SupervisedIs, LockedFollows, UnlockTells

LEMMA LookForFaultTells == Inv /\ LookForFault => [FailStop!Next]_(FailStop!vars)
<1> SUFFICES ASSUME Inv, LookForFault
             PROVE  [FailStop!Next]_(FailStop!vars)
  OBVIOUS
<1>1. Supervised \in IngressT /\ Follows(Supervised) /\ Awaited \in BOOLEAN
  BY Parts, SupervisedIs, LockedFollows, AwaitedIs
<1>2. CASE Supervised.fault # None /\ Quarantine(Supervised, 0, Awaited)
  BY <1>1, <1>2, QuarantineTells
<1>3. CASE /\ Unlock(Supervised, [consumer EXCEPT !.pc = "select", !.timed = Awaited])
           /\ UNCHANGED <<channel, counts, delivered>>
  <2> DEFINE c == [consumer EXCEPT !.pc = "select", !.timed = Awaited]
  <2>1. c \in ConsumerT /\ c.told = consumer.told
    BY <1>1, Parts DEF ConsumerT, Receiving
  <2> HIDE DEF c
  <2>2. Unlock(Supervised, c) /\ delivered' = delivered
    BY <1>3 DEF c
  <2> QED  BY <2>1, <2>2, SupervisedTells
<1> QED  BY <1>2, <1>3 DEF LookForFault

LEMMA WakeForTimerTells == Inv /\ WakeForTimer => [FailStop!Next]_(FailStop!vars)
<1> SUFFICES ASSUME Inv, WakeForTimer
             PROVE  [FailStop!Next]_(FailStop!vars)
  OBVIOUS
<1> DEFINE c == [consumer EXCEPT !.pc = "loop", !.timed = FALSE]
<1>1. c \in ConsumerT /\ c.told = consumer.told
  BY Parts DEF ConsumerT, Receiving
<1>2. Unlock(Supervised, c) /\ delivered' = delivered
  BY DEF WakeForTimer
<1> HIDE DEF c
<1> QED  BY <1>1, <1>2, SupervisedTells

LEMMA CloseTells == Inv /\ Close => [FailStop!Next]_(FailStop!vars)
<1> SUFFICES ASSUME Inv, Close
             PROVE  [FailStop!Next]_(FailStop!vars)
  OBVIOUS
<1> DEFINE s == [Supervised EXCEPT !.cancelled = TRUE, !.pending = Nothing, !.gap = None]
           c == [consumer EXCEPT !.timed = FALSE]
<1>1. Supervised \in IngressT /\ Follows(Supervised)
  BY Parts, SupervisedIs, LockedFollows
<1>2. s \in IngressT /\ s.cancelled /\ s.fault = Supervised.fault
  BY <1>1, NothingPending DEF IngressT
<1>3. c \in ConsumerT /\ c.told = consumer.told
  BY Parts DEF ConsumerT
<1>4. Unlock(s, c) /\ delivered' = delivered
  BY DEF Close
<1> HIDE DEF s, c
<1>5. Follows(s)
  BY <1>1, <1>2 DEF Follows
<1> QED  BY <1>2, <1>3, <1>4, <1>5, UnlockTells

(* The receipt in the hand is the next one, and not before the last one.    *)
LEMMA SettleDelivers == Inv /\ InOrder /\ Settle => [FailStop!Next]_(FailStop!vars)
<1> SUFFICES ASSUME Inv, InOrder, Settle
             PROVE  [FailStop!Next]_(FailStop!vars)
  OBVIOUS
<1>1. Locked \in IngressT /\ Follows(Locked) /\ consumer.timed \in BOOLEAN
  BY Parts, LockedIs, LockedFollows, AwaitedIs
<1>2. CASE PastBoundary(Locked) /\ Quarantine(Locked, InHand, consumer.timed)
  <2>1. Locked.fault # None
    BY <1>2 DEF PastBoundary
  <2> QED  BY <1>1, <1>2, <2>1, QuarantineTells
<1>3. CASE /\ ~PastBoundary(Locked) /\ Unlock(Locked, Returned)
           /\ delivered' = Append(delivered, consumer.hand)
  <2> DEFINE e == consumer.hand
             n == Len(delivered)
  <2>1. Locked = ingress /\ ingress.fault = None /\ ~ingress.poisoned
    BY <1>3, Parts, LockedIs DEF PastBoundary
  <2>2. Numbering /\ Ordering
    BY <2>1 DEF InOrder, Unbroken
  <2>3. ingress' = ingress /\ consumer'.told = consumer.told
    BY <1>3, <2>1, Parts DEF Unlock, Notified, Returned, ConsumerT
  <2>4. e # None /\ e \in Underway
    BY Parts DEF Settle, Underway
  <2>5. e \in Receipts /\ e.ordered \in Nat /\ e.seq \in Nat
    BY <2>4, UnderwayIs
  <2>6. e.ordered <= MaxClock
    <3>1. e.ordered <= ingress.lastOrdered
      BY <2>2, <2>4 DEF Ordering
    <3>2. ingress.lastOrdered <= clock /\ clock <= MaxClock
      BY Parts DEF WellPlaced, TypeInv
    <3> QED  BY <2>5, <3>1, <3>2, PlacesAre, Parts, Limits
  <2>7. e.seq = n + 1
    BY <2>2, <2>4 DEF Numbering
  <2>8. n \in Nat /\ delivered \in Seq(Receipts)
    BY PlacesAre
  <2>9. delivered # <<>> => delivered[n].ordered <= e.ordered
    <3> SUFFICES ASSUME delivered # <<>>
                 PROVE  delivered[n].ordered <= e.ordered
      OBVIOUS
    <3>1. delivered[n] \in Underway
      BY <2>8 DEF Underway
    <3>2. delivered[n].seq = n
      BY <2>2 DEF Numbering
    <3>3. delivered[n].seq <= e.seq
      BY <2>7, <2>8, <3>2
    <3> QED  BY <2>2, <2>4, <3>1, <3>3 DEF Ordering
  <2>10. e = [seq |-> n + 1, ordered |-> e.ordered]
    BY <2>5, <2>7 DEF Receipts
  <2>11. e.ordered \in 0 .. MaxClock
    BY <2>5, <2>6, Limits
  <2>12. FailStop!Deliver
    <3>1. delivered' = Append(delivered, [seq |-> n + 1, ordered |-> e.ordered])
      BY <1>3, <2>10
    <3> QED  BY <2>1, <2>3, <2>9, <2>11, <3>1 DEF FailStop!Deliver
  <2> QED  BY <2>12 DEF FailStop!Next
<1> QED  BY <1>2, <1>3 DEF Settle

LEMMA StepRefines == Inv /\ InOrder /\ [Next]_vars => [FailStop!Next]_(FailStop!vars)
<1> SUFFICES ASSUME Inv, InOrder, [Next]_vars
             PROVE  [FailStop!Next]_(FailStop!vars)
  OBVIOUS
<1>1. ASSUME NEW q \in EventSeqs, ProcessPayload(q, None)
      PROVE  [FailStop!Next]_(FailStop!vars)
  <2>1. Numbered(q, None)
    BY <1>1 DEF Numbered
  <2> QED  BY <1>1, <2>1, PayloadTells
<1>2. ASSUME NEW defect \in Defects, ProcessPayload(0, defect)
      PROVE  [FailStop!Next]_(FailStop!vars)
  <2>1. Numbered(0, defect)
    BY <1>2 DEF Numbered
  <2> QED  BY <1>2, <2>1, PayloadTells
<1>3. CASE \/ PanicUnderLock \/ WakeForCommand \/ WakeForDeadline \/ TimerDies \/ Tick
           \/ TakeReceipt \/ WakeForFault \/ FindNothing \/ CancelRecv
           \/ (\E waits \in BOOLEAN : StartRecv(waits)) \/ UNCHANGED vars
  <2>1. /\ delivered' = delivered /\ ingress'.fault = ingress.fault
        /\ consumer'.told = consumer.told
    BY <1>3, Parts DEF PanicUnderLock, WakeForCommand, WakeForDeadline, TimerDies, Tick,
       TakeReceipt, WakeForFault, FindNothing, CancelRecv, StartRecv, vars, Returned,
       IngressT, ConsumerT
  <2> QED  BY <2>1, TellsTheFault
<1> QED
  BY <1>1, <1>2, <1>3, HandOverTells, ExpireTells, LookForFaultTells, WakeForTimerTells,
     SettleDelivers, CloseTells
  DEF Next, TimerStep, ReceivingStep

(* However events come, whatever fails and whoever panics, the consumer of  *)
(* recv and try_recv is served by a fail-stop channel: every event once, in *)
(* producer order, at times that do not go back, nothing after a fault, and *)
(* the fault it is told of is the first one.                                *)
THEOREM ServesFailStop == Spec => ImplementsFailStop
<1>1. Init => FailStop!Init
  BY DEF Init, FailStop!Init
<1>2. Inv /\ InOrder /\ [Next]_vars => [FailStop!Next]_(FailStop!vars)
  BY StepRefines
<1> QED  BY <1>1, <1>2, SpecInOrder, PTL DEF Spec, ImplementsFailStop, FailStop!Spec

-----------------------------------------------------------------------------
(* The tap around the subscriptions.  A close reads the count of leases, so *)
(* the invariant has to say that it is the number of subscriptions under    *)
(* way, in whatever phase.                                                  *)

TapTypes ==
  /\ lifecycle \in [active : Nat, started : BOOLEAN, complete : BOOLEAN]
  /\ holding \in [Subscribers -> {"nothing", "lease", "receiver", "undeclared"}]
  /\ closing \in [Closers -> {"idle", "bus", "closed"}]
  /\ busOpen \in BOOLEAN

Leased == {s \in Subscribers : holding[s] # "nothing"}

LeasesCounted == IsFiniteSet(Leased) /\ lifecycle.active = Cardinality(Leased)

ClosesStarted ==
  \A c \in Closers :
    /\ closing[c] # "idle" => lifecycle.started
    /\ closing[c] = "closed" => ~busOpen

TapInv == TapTypes /\ LeasesCounted /\ ClosesStarted /\ NoneStranded

(* A subscription that stays under way leaves the count alone.              *)
LEMMA SameLeases ==
  ASSUME TapInv, NEW s \in Subscribers, NEW from, NEW to, Holds(s, from, to),
         from # "nothing", to # "nothing"
  PROVE  Leased' = Leased
BY DEF TapInv, TapTypes, Holds, Leased

LEMMA OneMore ==
  ASSUME TapInv, NEW s \in Subscribers, NEW to, to # "nothing", Holds(s, "nothing", to)
  PROVE  IsFiniteSet(Leased') /\ Cardinality(Leased') = Cardinality(Leased) + 1
<1>1. Leased' = Leased \cup {s} /\ s \notin Leased
  BY DEF TapInv, TapTypes, Holds, Leased
<1>2. IsFiniteSet(Leased)
  BY DEF TapInv, LeasesCounted
<1>. QED BY <1>1, <1>2, FS_AddElement

LEMMA OneLess ==
  ASSUME TapInv, NEW s \in Subscribers, NEW from, from # "nothing", Holds(s, from, "nothing")
  PROVE  /\ IsFiniteSet(Leased') /\ Cardinality(Leased') = Cardinality(Leased) - 1
         /\ Cardinality(Leased) \in Nat \ {0}
<1>1. Leased' = Leased \ {s} /\ s \in Leased
  BY DEF TapInv, TapTypes, Holds, Leased
<1>2. IsFiniteSet(Leased)
  BY DEF TapInv, LeasesCounted
<1>3. Cardinality(Leased) \in Nat /\ Cardinality(Leased) # 0
  BY <1>1, <1>2, FS_CardinalityType, FS_EmptySet
<1>. QED BY <1>1, <1>2, <1>3, FS_RemoveElement

LEMMA TapInitial == TapInit => TapInv
<1>1. SUFFICES ASSUME TapInit PROVE TapInv
  OBVIOUS
<1>2. Leased = {}
  BY <1>1 DEF TapInit, Leased
<1>3. LeasesCounted
  BY <1>1, <1>2, FS_EmptySet DEF TapInit, LeasesCounted
<1>. QED BY <1>1, <1>3 DEF TapInit, TapInv, TapTypes, ClosesStarted, NoneStranded

LEMMA TapStep == TapInv /\ [TapNext]_tapVars => TapInv'
<1>1. SUFFICES ASSUME TapInv, [TapNext]_tapVars PROVE TapInv'
  OBVIOUS
<1> USE DEF TapInv
<1>2. CASE UNCHANGED tapVars
  <2>1. Leased' = Leased
    BY <1>2 DEF tapVars, Leased
  <2>. QED BY <1>1, <1>2, <2>1 DEF tapVars, TapTypes, LeasesCounted, ClosesStarted, NoneStranded
<1>3. ASSUME NEW s \in Subscribers, Reserve(s) PROVE TapInv'
  <2>1. LeasesCounted'
    BY <1>1, <1>3, OneMore DEF Reserve, TapTypes, LeasesCounted
  <2>. QED BY <1>1, <1>3, <2>1 DEF Reserve, Holds, TapTypes, ClosesStarted, NoneStranded
<1>4. ASSUME NEW s \in Subscribers, Declared(s) \/ Undeclare(s) PROVE TapInv'
  <2>1. Leased' = Leased
    BY <1>1, <1>4, SameLeases DEF Declared, Undeclare
  <2>2. ~lifecycle.started
    BY <1>1, <1>4 DEF Declared, Undeclare, Holds, NoneStranded
  <2>3. LeasesCounted'
    BY <1>1, <1>4, <2>1 DEF Declared, Undeclare, LeasesCounted
  <2>. QED BY <1>1, <1>4, <2>2, <2>3
           DEF Declared, Undeclare, Holds, TapTypes, ClosesStarted, NoneStranded
<1>5. ASSUME NEW s \in Subscribers, NotDeclared(s) \/ ReturnLease(s) PROVE TapInv'
  <2>1. /\ IsFiniteSet(Leased') /\ Cardinality(Leased') = Cardinality(Leased) - 1
        /\ Cardinality(Leased) \in Nat \ {0}
    BY <1>1, <1>5, OneLess DEF NotDeclared, ReturnLease
  <2>2. LeasesCounted'
    BY <1>1, <1>5, <2>1 DEF NotDeclared, ReturnLease, Released, TapTypes, LeasesCounted
  <2>3. ~lifecycle.started
    BY <1>1, <1>5 DEF NotDeclared, ReturnLease, Holds, NoneStranded
  <2>4. TapTypes'
    <3>1. /\ lifecycle'.active \in Nat
          /\ lifecycle' = [lifecycle EXCEPT !.active = lifecycle'.active]
      BY <1>1, <1>5, <2>1 DEF NotDeclared, ReturnLease, Released, TapTypes, LeasesCounted
    <3>. QED BY <1>1, <1>5, <3>1 DEF NotDeclared, ReturnLease, Holds, TapTypes
  <2>. QED BY <1>1, <1>5, <2>2, <2>3, <2>4
           DEF NotDeclared, ReturnLease, Released, Holds, TapTypes, ClosesStarted, NoneStranded
<1>6. ASSUME NEW c \in Closers, StartClose(c) PROVE TapInv'
  <2>1. Leased' = Leased
    BY <1>6 DEF StartClose, Leased
  <2>2. \A s \in Subscribers : holding[s] = "nothing"
    <3>1. CASE lifecycle.started
      BY <1>1, <3>1 DEF NoneStranded
    <3>2. CASE lifecycle.active = 0
      BY <1>1, <3>2, FS_EmptySet DEF LeasesCounted, Leased
    <3>. QED BY <1>6, <3>1, <3>2 DEF StartClose
  <2>. QED BY <1>1, <1>6, <2>1, <2>2
           DEF StartClose, Closes, TapTypes, LeasesCounted, ClosesStarted, NoneStranded
<1>7. ASSUME NEW c \in Closers, CloseBus(c) \/ CloseFails(c) PROVE TapInv'
  <2>1. Leased' = Leased
    BY <1>7 DEF CloseBus, CloseFails, Leased
  <2>2. lifecycle.started
    BY <1>1, <1>7 DEF CloseBus, CloseFails, Closes, ClosesStarted
  <2>3. busOpen' = FALSE \/ busOpen' = busOpen
    BY <1>7 DEF CloseBus, CloseFails
  <2>4. /\ closing[c] = "bus"
        /\ \/ closing' = [closing EXCEPT ![c] = "idle"]
           \/ closing' = [closing EXCEPT ![c] = "closed"] /\ busOpen' = FALSE
    BY <1>7 DEF CloseBus, CloseFails, Closes
  <2>5. closing' \in [Closers -> {"idle", "bus", "closed"}] /\ busOpen' \in BOOLEAN
    BY <1>1, <2>3, <2>4 DEF TapTypes
  <2>6. TapTypes'
    BY <1>1, <1>7, <2>5 DEF CloseBus, CloseFails, TapTypes
  <2>7. ClosesStarted'
    BY <1>1, <1>7, <2>2, <2>3, <2>4 DEF CloseBus, CloseFails, TapTypes, ClosesStarted
  <2>. QED BY <1>1, <1>7, <2>1, <2>2, <2>6, <2>7
           DEF CloseBus, CloseFails, LeasesCounted, NoneStranded
<1>8. ASSUME NEW c \in Closers, CompleteClose(c) PROVE TapInv'
  <2>1. Leased' = Leased
    BY <1>8 DEF CompleteClose, Leased
  <2>2. ~busOpen
    BY <1>1, <1>8 DEF CompleteClose, Closes, ClosesStarted
  <2>. QED BY <1>1, <1>8, <2>1, <2>2
           DEF CompleteClose, Closes, TapTypes, LeasesCounted, ClosesStarted, NoneStranded
<1>. QED BY <1>1, <1>2, <1>3, <1>4, <1>5, <1>6, <1>7, <1>8 DEF TapNext

(* However many tasks subscribe to an owned tap and close it, a close never *)
(* takes the bus from under a receiver (MonitorTap::close).                 *)
THEOREM CloseStrandsNobody == TapSpec => []NoneStranded
<1>1. TapInv => NoneStranded
  BY DEF TapInv
<1>. QED BY <1>1, TapInitial, TapStep, PTL DEF TapSpec
=============================================================================
