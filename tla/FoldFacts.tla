------------------------------ MODULE FoldFacts ------------------------------
(***************************************************************************)
(* What the proofs need of loops and folds: induction over the naturals    *)
(* and over finite sets stated with sets, the turns of a loop, folds over  *)
(* sequences, the least of a set of naturals, and sums.                    *)
(*                                                                         *)
(* The provers cannot instantiate a theorem that takes an operator.  They  *)
(* can use a theorem of an instance, so the body of the loop is a constant *)
(* of this module, and a module that proves about a loop instantiates it.  *)
(***************************************************************************)
EXTENDS Integers, SequencesExt, FiniteSetTheorems, WellFoundedInduction, TLAPS

CONSTANT Step(_, _, _)  \* the next state from the last one, an element and a context

-----------------------------------------------------------------------------
LEMMA LessThanWellFounded == IsWellFoundedOn({p \in Nat \X Nat : p[1] < p[2]}, Nat)
BY NatLessThanWellFounded DEF OpToRel

(* A non-empty set of naturals has a least element.                         *)
LEMMA LeastNat ==
  ASSUME NEW S \in SUBSET Nat, S # {}
  PROVE  \E x \in S : \A y \in S : x <= y
<1> DEFINE Less == {p \in Nat \X Nat : p[1] < p[2]}
<1>1. \A x, y \in Nat : ~(<<y, x>> \in Less) => x <= y  OBVIOUS
<1>2. IsWellFoundedOn(Less, Nat)  BY LessThanWellFounded
<1> HIDE DEF Less
<1>3. PICK x \in S : \A y \in S : ~ (<<y, x>> \in Less)
  BY <1>2, WFMin
<1> QED  BY <1>1, <1>3

(* A set of naturals that has 0 and is closed under successor has them all. *)
LEMMA Induction ==
  ASSUME NEW S, 0 \in S, \A n \in Nat : n \in S => n + 1 \in S
  PROVE  \A n \in Nat : n \in S
<1> SUFFICES ASSUME Nat \ S # {} PROVE FALSE  OBVIOUS
<1>1. PICK x \in Nat \ S : \A y \in Nat \ S : x <= y
  <2>1. Nat \ S \in SUBSET Nat  OBVIOUS
  <2> QED  BY <2>1, LeastNat
<1>2. x - 1 \in Nat /\ x - 1 < x /\ (x - 1) + 1 = x  OBVIOUS
<1>3. x - 1 \in S  BY <1>1, <1>2
<1> QED  BY <1>1, <1>2, <1>3

LEMMA MinIs ==
  ASSUME NEW S \in SUBSET Nat, S # {}
  PROVE  Min(S) \in S /\ \A y \in S : Min(S) <= y
BY LeastNat DEF Min

(* Every finite set of naturals is bounded.                                 *)
LEMMA FiniteBounded ==
  ASSUME NEW D \in SUBSET Nat, IsFiniteSet(D)
  PROVE  \E b \in Nat : \A x \in D : x <= b
<1> DEFINE Bounded == {n \in Nat : \A T \in SUBSET D :
                         Cardinality(T) = n => \E b \in Nat : \A x \in T : x <= b}
<1>1. 0 \in Bounded
  <2> SUFFICES ASSUME NEW T \in SUBSET D, Cardinality(T) = 0
               PROVE  \E b \in Nat : \A x \in T : x <= b
    OBVIOUS
  <2>1. T = {}  BY FS_Subset, FS_EmptySet
  <2> QED  BY <2>1
<1>2. ASSUME NEW n \in Nat, n \in Bounded PROVE n + 1 \in Bounded
  <2> SUFFICES ASSUME NEW T \in SUBSET D, Cardinality(T) = n + 1
               PROVE  \E b \in Nat : \A x \in T : x <= b
    OBVIOUS
  <2>0. IsFiniteSet(T)  BY FS_Subset
  <2>1. T # {}
    <3>1. n + 1 # 0  OBVIOUS
    <3> QED  BY <3>1, FS_EmptySet
  <2>2. PICK m \in T : TRUE  BY <2>1
  <2>3. Cardinality(T \ {m}) = n
    <3>1. Cardinality(T \ {m}) = Cardinality(T) - 1  BY <2>0, <2>2, FS_RemoveElement
    <3> QED  BY <3>1
  <2>4. PICK b \in Nat : \A x \in T \ {m} : x <= b  BY <1>2, <2>3
  <2>t. m \in Nat /\ \A x \in T : x \in Nat /\ (x = m \/ x \in T \ {m})  OBVIOUS
  <2>5. CASE m <= b
    <3>1. \A x \in T : x <= b  BY <2>4, <2>5, <2>t
    <3> QED  BY <3>1
  <2>6. CASE ~(m <= b)
    <3>2. \A x \in T : x <= m  BY <2>4, <2>6, <2>t
    <3> QED  BY <2>t, <3>2
  <2> QED  BY <2>5, <2>6
<1> HIDE DEF Bounded
<1>3. Cardinality(D) \in Bounded  BY <1>1, <1>2, Induction, FS_CardinalityType
<1> QED  BY <1>3 DEF Bounded

LEMMA MaxIs ==
  ASSUME NEW S \in SUBSET Nat, S # {}, IsFiniteSet(S)
  PROVE  Max(S) \in S /\ \A y \in S : y <= Max(S)
<1>1. PICK b \in Nat : \A x \in S : x <= b  BY FiniteBounded
<1> DEFINE Gaps == {b - x : x \in S}
<1>2. Gaps \in SUBSET Nat /\ Gaps # {}
  <2>1. \A x \in S : b - x \in Nat  BY <1>1
  <2> QED  BY <2>1
<1>3. PICK g \in Gaps : \A h \in Gaps : g <= h  BY <1>2, LeastNat
<1>4. PICK m \in S : g = b - m  BY <1>3
<1>5. \A y \in S : b - m <= b - y  BY <1>3, <1>4
<1>6. \A y \in S : y <= m  BY <1>5
<1> QED  BY <1>6 DEF Max

-----------------------------------------------------------------------------
(* The turns of a loop: after n of them, and so what n + 1 lead to.         *)

Loop(base, turns, c) ==
  LET after[n \in 0..turns] == IF n = 0 THEN base ELSE Step(after[n - 1], n, c) IN after

LEMMA LoopExists ==
  ASSUME NEW base, NEW c
  PROVE  \A n \in Nat : \E h :
           h = [i \in 0..n |-> IF i = 0 THEN base ELSE Step(h[i - 1], i, c)]
<1> DEFINE Body(h, i) == IF i = 0 THEN base ELSE Step(h[i - 1], i, c)
           Has == {n \in Nat : \E h : h = [i \in 0..n |-> Body(h, i)]}
<1>1. 0 \in Has
  <2> DEFINE h == [i \in 0..0 |-> base]
  <2>1. h = [i \in 0..0 |-> Body(h, i)]  OBVIOUS
  <2> QED  BY <2>1
<1>2. ASSUME NEW n \in Nat, n \in Has PROVE n + 1 \in Has
  <2>1. PICK g : g = [i \in 0..n |-> Body(g, i)]  BY <1>2
  <2> DEFINE h == [i \in 0..(n + 1) |-> Body(g, i)]
  <2>2. \A i \in 0..n : h[i] = g[i]  BY <2>1
  <2>3. ASSUME NEW i \in 0..(n + 1) PROVE Body(g, i) = Body(h, i)
    <3>1. CASE i = 0  BY <3>1
    <3>2. CASE i # 0
      <4>1. i - 1 \in 0..n  BY <3>2
      <4>2. g[i - 1] = h[i - 1]  BY <2>2, <4>1
      <4> HIDE DEF h
      <4> QED  BY <4>2
    <3> QED  BY <3>1, <3>2
  <2>4. h = [i \in 0..(n + 1) |-> Body(h, i)]
    <3> HIDE DEF Body
    <3> QED  BY <2>3
  <2> HIDE DEF h, Body
  <2> QED  BY <2>4
<1> HIDE DEF Has
<1>3. \A n \in Nat : n \in Has  BY <1>1, <1>2, Induction
<1> QED  BY <1>3 DEF Has

LEMMA LoopIs ==
  ASSUME NEW base, NEW c, NEW turns \in Nat
  PROVE  /\ Loop(base, turns, c)[0] = base
         /\ \A n \in 1..turns :
              Loop(base, turns, c)[n] = Step(Loop(base, turns, c)[n - 1], n, c)
<1>1. Loop(base, turns, c) =
        CHOOSE h : h = [i \in 0..turns |-> IF i = 0 THEN base ELSE Step(h[i - 1], i, c)]
  BY DEF Loop
<1>2. Loop(base, turns, c) =
        [i \in 0..turns |-> IF i = 0 THEN base ELSE Step(Loop(base, turns, c)[i - 1], i, c)]
  BY <1>1, LoopExists
<1> QED  BY <1>2

-----------------------------------------------------------------------------
(* Folds over a sequence, from the left.                                    *)

Fold(base, s, c) == FoldLeft(LAMBDA acc, e : Step(acc, e, c), base, s)

(* What FoldLeft computes: a value for every set of indices up to n.        *)
IsIter(g, base, s, c, n) ==
  g = [S \in SUBSET (1..n) |->
         IF S = {} THEN base ELSE Step(g[S \ {Max(S)}], s[Max(S)], c)]

(* And the values along the prefixes of s.                                  *)
IsRun(h, base, s, c) ==
  h[0] = base /\ \A i \in 1..Len(s) : h[i] = Step(h[i - 1], s[i], c)

LEMMA IterExists ==
  ASSUME NEW base, NEW s, NEW c
  PROVE  \A n \in Nat : \E g : IsIter(g, base, s, c, n)
<1> DEFINE Body(g, S) == IF S = {} THEN base ELSE Step(g[S \ {Max(S)}], s[Max(S)], c)
           Has == {n \in Nat : \E g : g = [S \in SUBSET (1..n) |-> Body(g, S)]}
<1>1. 0 \in Has
  <2> DEFINE g == [S \in SUBSET (1..0) |-> base]
  <2>1. \A S \in SUBSET (1..0) : S = {}  OBVIOUS
  <2>2. g = [S \in SUBSET (1..0) |-> Body(g, S)]  BY <2>1
  <2> QED  BY <2>2
<1>2. ASSUME NEW n \in Nat, n \in Has PROVE n + 1 \in Has
  <2>1. PICK g : g = [S \in SUBSET (1..n) |-> Body(g, S)]  BY <1>2
  <2> DEFINE h == [S \in SUBSET (1..(n + 1)) |-> Body(g, S)]
  <2>2. \A S \in SUBSET (1..n) : h[S] = g[S]
    <3>1. SUBSET (1..n) \subseteq SUBSET (1..(n + 1))  OBVIOUS
    <3> QED  BY <2>1, <3>1
  <2>3. ASSUME NEW S \in SUBSET (1..(n + 1)) PROVE Body(g, S) = Body(h, S)
    <3>1. CASE S = {}  BY <3>1
    <3>2. CASE S # {}
      <4>1. Max(S) \in S /\ \A y \in S : y <= Max(S)
        <5>1. S \in SUBSET Nat  OBVIOUS
        <5>2. IsFiniteSet(S)
          <6>1. IsFiniteSet(1..(n + 1))  BY FS_Interval
          <6> QED  BY <6>1, FS_Subset
        <5> QED  BY <3>2, <5>1, <5>2, MaxIs
      <4>2. S \ {Max(S)} \in SUBSET (1..n)
        <5>1. Max(S) \in 1..(n + 1)  BY <4>1
        <5>2. ASSUME NEW y \in S, y # Max(S) PROVE y \in 1..n
          <6>1. y \in 1..(n + 1) /\ y <= Max(S)  BY <4>1, <5>2
          <6> QED  BY <5>1, <5>2, <6>1
        <5> QED  BY <5>2
      <4>3. g[S \ {Max(S)}] = h[S \ {Max(S)}]  BY <2>2, <4>2
      <4> HIDE DEF h
      <4> QED  BY <4>3
    <3> QED  BY <3>1, <3>2
  <2>4. h = [S \in SUBSET (1..(n + 1)) |-> Body(h, S)]
    <3> HIDE DEF Body
    <3> QED  BY <2>3
  <2> HIDE DEF h, Body
  <2> QED  BY <2>4
<1> HIDE DEF Has
<1>3. \A n \in Nat : n \in Has  BY <1>1, <1>2, Induction
<1> QED  BY <1>3 DEF Has, IsIter

(* A fold is the last of the values its prefixes take.                      *)
LEMMA FoldRuns ==
  ASSUME NEW base, NEW c, NEW T, NEW s \in Seq(T)
  PROVE  \E h : IsRun(h, base, s, c) /\ Fold(base, s, c) = h[Len(s)]
<1>2. DOMAIN s = 1..Len(s) /\ Len(s) \in Nat  OBVIOUS
<1> DEFINE g == CHOOSE f : IsIter(f, base, s, c, Len(s))
           h == [i \in 0..Len(s) |-> g[1..i]]
<1>1. Fold(base, s, c) = g[1..Len(s)]
  BY <1>2 DEF Fold, FoldLeft, MapThenFoldSet, IsIter
<1>3. IsIter(g, base, s, c, Len(s))  BY <1>2, IterExists
<1> HIDE DEF g
<1>4. h[0] = base
  <2>1. 1..0 = {} /\ {} \in SUBSET (1..Len(s))  OBVIOUS
  <2>2. g[{}] = base  BY <1>3, <2>1 DEF IsIter
  <2> QED  BY <1>2, <2>1, <2>2
<1>5. ASSUME NEW i \in 1..Len(s) PROVE h[i] = Step(h[i - 1], s[i], c)
  <2>1. 1..i \in SUBSET (1..Len(s)) /\ 1..i # {} /\ i \in 1..i
    <3>1. i \in 1..i /\ \A j \in 1..i : j \in 1..Len(s)  BY <1>2
    <3> QED  BY <1>2, <3>1
  <2>2. Max(1..i) = i  BY <2>1 DEF Max
  <2>3. (1..i) \ {i} = 1..(i - 1)  OBVIOUS
  <2>4. g[1..i] = Step(g[1..(i - 1)], s[i], c)  BY <1>3, <2>1, <2>2, <2>3 DEF IsIter
  <2> QED  BY <1>2, <2>4
<1>6. Fold(base, s, c) = h[Len(s)]  BY <1>1, <1>2
<1> HIDE DEF h
<1> QED  BY <1>4, <1>5, <1>6 DEF IsRun

LEMMA FoldEmpty == \A base, c : Fold(base, <<>>, c) = base
<1> SUFFICES ASSUME NEW base, NEW c PROVE Fold(base, <<>>, c) = base  OBVIOUS
<1> DEFINE s == <<>>
<1>1. s \in Seq({}) /\ Len(s) = 0  OBVIOUS
<1> HIDE DEF s
<1>2. PICK h : IsRun(h, base, s, c) /\ Fold(base, s, c) = h[Len(s)]  BY <1>1, FoldRuns
<1>3. Fold(base, s, c) = base  BY <1>1, <1>2 DEF IsRun
<1> QED  BY <1>3 DEF s

LEMMA FoldAppend ==
  ASSUME NEW base, NEW c, NEW T, NEW s \in Seq(T), NEW e \in T
  PROVE  Fold(base, Append(s, e), c) = Step(Fold(base, s, c), e, c)
<1> DEFINE t == Append(s, e)
<1>1. /\ t \in Seq(T) /\ Len(t) = Len(s) + 1 /\ Len(s) \in Nat /\ t[Len(s) + 1] = e
      /\ \A i \in 1..Len(s) : t[i] = s[i]
  OBVIOUS
<1> HIDE DEF t
<1>2. PICK g : IsRun(g, base, s, c) /\ Fold(base, s, c) = g[Len(s)]  BY FoldRuns
<1>3. PICK h : IsRun(h, base, t, c) /\ Fold(base, t, c) = h[Len(t)]  BY <1>1, FoldRuns
<1> USE DEF IsRun
<1> DEFINE Same == {i \in Nat : i <= Len(s) => h[i] = g[i]}
<1>4. 0 \in Same  BY <1>2, <1>3
<1>5. ASSUME NEW i \in Nat, i \in Same PROVE i + 1 \in Same
  <2> SUFFICES ASSUME i + 1 <= Len(s) PROVE h[i + 1] = g[i + 1]  OBVIOUS
  <2>1. i + 1 \in 1..Len(s) /\ i + 1 \in 1..Len(t) /\ (i + 1) - 1 = i /\ i <= Len(s)
    BY <1>1
  <2>2. h[i] = g[i]  BY <1>5, <2>1
  <2>3. h[i + 1] = Step(h[i], t[i + 1], c)  BY <1>3, <2>1
  <2>4. g[i + 1] = Step(g[i], s[i + 1], c)  BY <1>2, <2>1
  <2> QED  BY <1>1, <2>1, <2>2, <2>3, <2>4
<1>6. h[Len(s)] = g[Len(s)]
  <2> HIDE DEF Same
  <2>1. Len(s) \in Same  BY <1>1, <1>4, <1>5, Induction
  <2> QED  BY <1>1, <2>1 DEF Same
<1>7. Len(s) + 1 \in 1..Len(t) /\ (Len(s) + 1) - 1 = Len(s)  BY <1>1
<1>8. Fold(base, t, c) = Step(Fold(base, s, c), e, c)  BY <1>1, <1>2, <1>3, <1>6, <1>7
<1> QED  BY <1>8 DEF t

-----------------------------------------------------------------------------
(* Sums of a function over a finite set.                                    *)

Chosen(T) == CHOOSE x \in T : TRUE

(* What SumFunctionOnSet computes: a value for every set in D.              *)
IsSumIter(g, f, D) ==
  g = [T \in D |-> IF T = {} THEN 0 ELSE f[Chosen(T)] + g[T \ {Chosen(T)}]]

LEMMA SumIterExists ==
  ASSUME NEW f, NEW S, IsFiniteSet(S)
  PROVE  \E g : IsSumIter(g, f, SUBSET S)
<1> DEFINE Small(n) == {T \in SUBSET S : Cardinality(T) <= n}
           Body(g, T) == IF T = {} THEN 0 ELSE f[Chosen(T)] + g[T \ {Chosen(T)}]
           Has == {n \in Nat : \E g : IsSumIter(g, f, Small(n))}
<1>t. \A T \in SUBSET S : IsFiniteSet(T) /\ Cardinality(T) \in Nat
  BY FS_Subset, FS_CardinalityType
<1>1. 0 \in Has
  <2> DEFINE g == [T \in Small(0) |-> 0]
  <2>1. \A T \in Small(0) : T = {}  BY <1>t, FS_EmptySet
  <2>2. IsSumIter(g, f, Small(0))  BY <2>1 DEF IsSumIter
  <2> QED  BY <2>2
<1>2. ASSUME NEW n \in Nat, n \in Has PROVE n + 1 \in Has
  <2>1. PICK g : g = [T \in Small(n) |-> Body(g, T)]  BY <1>2 DEF IsSumIter
  <2> DEFINE h == [T \in Small(n + 1) |-> Body(g, T)]
  <2>2. \A T \in Small(n) : h[T] = g[T]
    <3>1. Small(n) \subseteq Small(n + 1)  BY <1>t
    <3> QED  BY <2>1, <3>1
  <2>3. ASSUME NEW T \in Small(n + 1) PROVE Body(g, T) = Body(h, T)
    <3>1. CASE T = {}  BY <3>1
    <3>2. CASE T # {}
      <4>1. Chosen(T) \in T  BY <3>2 DEF Chosen
      <4>2. Cardinality(T \ {Chosen(T)}) = Cardinality(T) - 1
        BY <1>t, <4>1, FS_RemoveElement
      <4>3. T \ {Chosen(T)} \in Small(n)  BY <1>t, <4>2
      <4>4. g[T \ {Chosen(T)}] = h[T \ {Chosen(T)}]  BY <2>2, <4>3
      <4> HIDE DEF h
      <4> QED  BY <4>4
    <3> QED  BY <3>1, <3>2
  <2>4. h = [T \in Small(n + 1) |-> Body(h, T)]
    <3> HIDE DEF Body, Small
    <3> QED  BY <2>3
  <2>5. IsSumIter(h, f, Small(n + 1))
    <3> HIDE DEF h
    <3> QED  BY <2>4 DEF IsSumIter
  <2> HIDE DEF h, Body, Small
  <2> QED  BY <2>5
<1>3. SUBSET S = Small(Cardinality(S))  BY <1>t, FS_Subset
<1> HIDE DEF Has, Small
<1>4. Cardinality(S) \in Has  BY <1>1, <1>2, Induction, FS_CardinalityType
<1> QED  BY <1>3, <1>4 DEF Has

(* Two sums agree when their functions do.                                  *)
LEMMA SumIterAgree ==
  ASSUME NEW f, NEW g, NEW S, NEW U, IsFiniteSet(S), IsFiniteSet(U),
         NEW a, NEW b, IsSumIter(a, f, SUBSET S), IsSumIter(b, g, SUBSET U),
         NEW T, T \subseteq S, T \subseteq U, \A x \in T : f[x] = g[x]
  PROVE  a[T] = b[T]
<1> DEFINE Agrees == {n \in Nat : \A V \in SUBSET T : Cardinality(V) = n => a[V] = b[V]}
<1>t. \A V \in SUBSET T : /\ IsFiniteSet(V) /\ Cardinality(V) \in Nat
                          /\ V \in SUBSET S /\ V \in SUBSET U
  BY FS_Subset, FS_CardinalityType
<1>1. 0 \in Agrees
  <2> SUFFICES ASSUME NEW V \in SUBSET T, Cardinality(V) = 0 PROVE a[V] = b[V]  OBVIOUS
  <2>1. V = {}  BY <1>t, FS_EmptySet
  <2> QED  BY <1>t, <2>1 DEF IsSumIter
<1>2. ASSUME NEW n \in Nat, n \in Agrees PROVE n + 1 \in Agrees
  <2> SUFFICES ASSUME NEW V \in SUBSET T, Cardinality(V) = n + 1 PROVE a[V] = b[V]  OBVIOUS
  <2>1. V # {}
    <3>1. n + 1 # 0  OBVIOUS
    <3> QED  BY <3>1, FS_EmptySet
  <2>2. Chosen(V) \in V  BY <2>1 DEF Chosen
  <2>3. Cardinality(V \ {Chosen(V)}) = n
    <3>1. Cardinality(V \ {Chosen(V)}) = Cardinality(V) - 1  BY <1>t, <2>2, FS_RemoveElement
    <3> QED  BY <3>1
  <2>4. a[V \ {Chosen(V)}] = b[V \ {Chosen(V)}]  BY <1>2, <2>3
  <2>5. a[V] = f[Chosen(V)] + a[V \ {Chosen(V)}]  BY <1>t, <2>1 DEF IsSumIter
  <2>6. b[V] = g[Chosen(V)] + b[V \ {Chosen(V)}]  BY <1>t, <2>1 DEF IsSumIter
  <2> QED  BY <2>2, <2>4, <2>5, <2>6
<1> HIDE DEF Agrees
<1>3. Cardinality(T) \in Agrees  BY <1>1, <1>2, <1>t, Induction
<1> QED  BY <1>3 DEF Agrees

LEMMA SumIs ==
  ASSUME NEW f, NEW S, IsFiniteSet(S)
  PROVE  \E g : IsSumIter(g, f, SUBSET S) /\ SumFunctionOnSet(f, S) = g[S]
<1> DEFINE g == CHOOSE h : IsSumIter(h, f, SUBSET S)
<1>1. SumFunctionOnSet(f, S) = g[S]
  BY DEF SumFunctionOnSet, FoldFunctionOnSet, MapThenFoldSet, IsSumIter, Chosen
<1>2. IsSumIter(g, f, SUBSET S)  BY SumIterExists
<1> HIDE DEF g
<1> QED  BY <1>1, <1>2

LEMMA SumSame ==
  ASSUME NEW f, NEW g, NEW S, IsFiniteSet(S), \A x \in S : f[x] = g[x]
  PROVE  SumFunctionOnSet(f, S) = SumFunctionOnSet(g, S)
<1>1. PICK a : IsSumIter(a, f, SUBSET S) /\ SumFunctionOnSet(f, S) = a[S]  BY SumIs
<1>2. PICK b : IsSumIter(b, g, SUBSET S) /\ SumFunctionOnSet(g, S) = b[S]  BY SumIs
<1> QED  BY <1>1, <1>2, SumIterAgree

LEMMA SumEmpty == \A f : SumFunctionOnSet(f, {}) = 0
<1> SUFFICES ASSUME NEW f PROVE SumFunctionOnSet(f, {}) = 0  OBVIOUS
<1>1. PICK a : IsSumIter(a, f, SUBSET {}) /\ SumFunctionOnSet(f, {}) = a[{}]
  BY SumIs, FS_EmptySet
<1> QED  BY <1>1 DEF IsSumIter

LEMMA SumChosen ==
  ASSUME NEW f, NEW S, IsFiniteSet(S), S # {}
  PROVE  SumFunctionOnSet(f, S) = f[Chosen(S)] + SumFunctionOnSet(f, S \ {Chosen(S)})
<1> DEFINE R == S \ {Chosen(S)}
<1>0. IsFiniteSet(R) /\ R \subseteq S  BY FS_RemoveElement
<1>1. PICK a : IsSumIter(a, f, SUBSET S) /\ SumFunctionOnSet(f, S) = a[S]  BY SumIs
<1> HIDE DEF R
<1>2. PICK b : IsSumIter(b, f, SUBSET R) /\ SumFunctionOnSet(f, R) = b[R]  BY <1>0, SumIs
<1>3. a[R] = b[R]  BY <1>0, <1>1, <1>2, SumIterAgree
<1>4. a[S] = f[Chosen(S)] + a[R]  BY <1>1 DEF IsSumIter, R
<1> QED  BY <1>1, <1>2, <1>3, <1>4 DEF R

(* A sum of naturals is one, and any element may be taken out first.        *)
LEMMA SumRemove ==
  ASSUME NEW f, NEW S, IsFiniteSet(S), \A x \in S : f[x] \in Nat
  PROVE  /\ SumFunctionOnSet(f, S) \in Nat
         /\ \A x \in S : SumFunctionOnSet(f, S) = f[x] + SumFunctionOnSet(f, S \ {x})
<1> DEFINE Sum(V) == SumFunctionOnSet(f, V)
           Good(V) == Sum(V) \in Nat /\ \A x \in V : Sum(V) = f[x] + Sum(V \ {x})
           Goods == {n \in Nat : \A V \in SUBSET S : Cardinality(V) <= n => Good(V)}
<1>t. \A V \in SUBSET S : IsFiniteSet(V) /\ Cardinality(V) \in Nat
  BY FS_Subset, FS_CardinalityType
<1>0. Good({})  BY SumEmpty
<1>1. 0 \in Goods
  <2> SUFFICES ASSUME NEW V \in SUBSET S, Cardinality(V) <= 0 PROVE V = {}  BY <1>0
  <2>1. Cardinality(V) = 0  BY <1>t
  <2> QED  BY <1>t, <2>1, FS_EmptySet
<1>2. ASSUME NEW n \in Nat, n \in Goods PROVE n + 1 \in Goods
  <2> HIDE DEF Good
  <2> SUFFICES ASSUME NEW V \in SUBSET S, Cardinality(V) <= n + 1, V # {} PROVE Good(V)
    BY <1>0
  <2> DEFINE c == Chosen(V)
  <2>2. c \in V  BY DEF Chosen
  <2>3. Sum(V) = f[c] + Sum(V \ {c})  BY <1>t, SumChosen
  <2> HIDE DEF c, Sum
  <2>4. ASSUME NEW x \in V, NEW W \in SUBSET (V \ {x}) PROVE Good(W)
    <3>1. Cardinality(V \ {x}) = Cardinality(V) - 1  BY <1>t, FS_RemoveElement
    <3>2. Cardinality(W) <= Cardinality(V \ {x}) /\ W \in SUBSET S  BY <1>t, FS_Subset
    <3>3. Cardinality(W) <= n  BY <1>t, <3>1, <3>2
    <3> QED  BY <1>2, <3>2, <3>3
  <2>5. Sum(V) \in Nat
    <3>1. Good(V \ {c})  BY <2>2, <2>4
    <3> QED  BY <2>2, <2>3, <3>1 DEF Good
  <2>6. ASSUME NEW x \in V PROVE Sum(V) = f[x] + Sum(V \ {x})
    <3>1. CASE x = c  BY <2>3, <3>1
    <3>2. CASE x # c
      <4> DEFINE R == (V \ {x}) \ {c}
      <4>1. (V \ {c}) \ {x} = R  OBVIOUS
      <4>2. x \in V \ {c} /\ c \in V \ {x}  BY <2>2, <3>2
      <4>3. Good(V \ {c}) /\ Good(V \ {x}) /\ Good(R)  BY <2>2, <2>4
      <4>4. Sum(V \ {c}) = f[x] + Sum(R)  BY <4>1, <4>2, <4>3 DEF Good
      <4>5. Sum(V \ {x}) = f[c] + Sum(R)  BY <4>2, <4>3 DEF Good
      <4>6. Sum(R) \in Nat /\ f[x] \in Nat /\ f[c] \in Nat  BY <2>2, <4>3 DEF Good
      <4> HIDE DEF R
      <4> QED  BY <2>3, <4>4, <4>5, <4>6
    <3> QED  BY <3>1, <3>2
  <2> QED  BY <2>5, <2>6 DEF Good
<1> HIDE DEF Goods
<1>3. Cardinality(S) \in Goods  BY <1>1, <1>2, <1>t, Induction
<1> QED  BY <1>3 DEF Goods
=============================================================================
