---------------------------- MODULE EngineProofs ----------------------------
(***************************************************************************)
(* Proofs about Engine, for replies of any length, any codes the model may *)
(* make up and any windows.                                                *)
(*                                                                         *)
(* The score is a fold over a sequence, so most of it is induction over    *)
(* data: Induct derives it from the least number of a set of numbers.      *)
(***************************************************************************)
EXTENDS Engine, FiniteSetTheorems, SequenceTheorems, WellFoundedInduction, TLAPS

-----------------------------------------------------------------------------
(* Induction and folds.                                                      *)

LEMMA Induct ==
  ASSUME NEW S, 0 \in S, \A n \in Nat : n \in S => n + 1 \in S
  PROVE  \A n \in Nat : n \in S
<1> DEFINE T == Nat \ S
<1> SUFFICES ASSUME T # {} PROVE FALSE
  OBVIOUS
<1>1. PICK x \in T : \A y \in T : ~ (<<y, x>> \in OpToRel(<, Nat))
  BY NatLessThanWellFounded, WFMin, Zenon
<1>2. x - 1 \in Nat /\ x - 1 \notin S
  BY SMT
<1>3. <<x - 1, x>> \in OpToRel(<, Nat)
  BY <1>2 DEF OpToRel
<1>4. QED
  BY <1>1, <1>2, <1>3

\* A set of positions that is not empty has a greatest one.
LEMMA Greatest ==
  \A n \in Nat : \A T \in SUBSET (1 .. n) : T # {} => Max(T) \in T /\ \A i \in T : i <= Max(T)
<1> DEFINE P == {k \in Nat : \A R \in SUBSET (1 .. k) : R # {} => \E x \in R : \A y \in R : x >= y}
<1>1. 0 \in P
  <2>1. \A R \in SUBSET (1 .. 0) : R = {}
    OBVIOUS
  <2>2. QED
    BY <2>1
<1>2. ASSUME NEW k \in Nat, k \in P PROVE k + 1 \in P
  <2> SUFFICES ASSUME NEW R \in SUBSET (1 .. k + 1), R # {}
               PROVE  \E x \in R : \A y \in R : x >= y
    OBVIOUS
  <2>1. CASE k + 1 \in R
    BY <2>1
  <2>2. CASE k + 1 \notin R
    <3>1. R \in SUBSET (1 .. k)
      BY <2>2
    <3>2. QED
      BY <1>2, <3>1
  <2>3. QED
    BY <2>1, <2>2
<1> HIDE DEF P
<1>3. \A n \in Nat : n \in P
  BY <1>1, <1>2, Induct, Zenon
<1>4. SUFFICES ASSUME NEW n \in Nat, NEW T \in SUBSET (1 .. n), T # {}
               PROVE  Max(T) \in T /\ \A i \in T : i <= Max(T)
  OBVIOUS
<1>5. \E x \in T : \A y \in T : x >= y
  BY <1>3, <1>4, Zenon DEF P
<1>6. Max(T) \in T /\ \A y \in T : Max(T) >= y
  BY <1>5 DEF Max
<1>7. QED
  BY <1>6

LEMMA GreatestIs ==
  \A n \in Nat : \A T \in SUBSET (1 .. n) : n \in T => Max(T) = n
<1> SUFFICES ASSUME NEW n \in Nat, NEW T \in SUBSET (1 .. n), n \in T
             PROVE  Max(T) = n
  OBVIOUS
<1>1. PICK m \in T : m = Max(T) /\ n <= m
  BY Greatest
<1>2. m \in Nat /\ m <= n
  OBVIOUS
<1>3. QED
  BY <1>1, <1>2

LEMMA LastOfPrefix ==
  ASSUME NEW k \in Nat, k > 0
  PROVE  Max(1 .. k) = k /\ (1 .. k) \ {k} = 1 .. k - 1 /\ 1 .. k # {}
<1>1. k \in 1 .. k /\ 1 .. k \in SUBSET (1 .. k)
  OBVIOUS
<1>2. Max(1 .. k) = k
  BY <1>1, GreatestIs
<1>3. QED
  BY <1>1, <1>2

\* What the recursive function of a fold over the positions 1 .. k satisfies.
Folds(f, k, V, base, Step) ==
  /\ f \in [SUBSET (1 .. k) -> V]
  /\ \A T \in SUBSET (1 .. k) :
       f[T] = IF T = {} THEN base ELSE Step[<<f[T \ {Max(T)}], Max(T)>>]

LEMMA FoldExists ==
  ASSUME NEW n \in Nat, NEW V, NEW base \in V, NEW Step \in [V \X (1 .. n) -> V]
  PROVE  \E f : Folds(f, n, V, base, Step)
<1> DEFINE P == {k \in Nat : k <= n => \E f : Folds(f, k, V, base, Step)}
<1>1. 0 \in P
  <2>1. SUBSET (1 .. 0) = {{}}
    OBVIOUS
  <2>2. Folds([T \in SUBSET (1 .. 0) |-> base], 0, V, base, Step)
    BY <2>1 DEF Folds
  <2>3. QED
    BY <2>2
<1>2. ASSUME NEW k \in Nat, k \in P PROVE k + 1 \in P
  <2>1. CASE ~ (k + 1 <= n)
    BY <2>1
  <2>2. CASE k + 1 <= n
    <3>1. \E f : Folds(f, k, V, base, Step)
      <4>1. k <= n
        BY <2>2
      <4>2. QED
        BY <1>2, <4>1
    <3>2. PICK f : Folds(f, k, V, base, Step)
      BY <3>1, Zenon
    <3> DEFINE g == [T \in SUBSET (1 .. k + 1) |->
                       IF k + 1 \in T THEN Step[<<f[T \ {k + 1}], k + 1>>] ELSE f[T]]
    <3>3. ASSUME NEW T \in SUBSET (1 .. k + 1)
          PROVE  /\ T \ {k + 1} \in SUBSET (1 .. k)
                 /\ k + 1 \notin T => T \in SUBSET (1 .. k)
      OBVIOUS
    <3>4. g \in [SUBSET (1 .. k + 1) -> V]
      BY <2>2, <3>2, <3>3 DEF Folds
    <3>5. ASSUME NEW T \in SUBSET (1 .. k + 1)
          PROVE  g[T] = IF T = {} THEN base ELSE Step[<<g[T \ {Max(T)}], Max(T)>>]
      <4>1. CASE k + 1 \in T
        <5>1. k + 1 \in Nat /\ T # {}
          BY <4>1
        <5>2. Max(T) = k + 1
          BY <3>5, <4>1, <5>1, GreatestIs, Zenon
        <5>3. g[T \ {k + 1}] = f[T \ {k + 1}]
          BY <3>3
        <5>4. QED
          BY <4>1, <5>2, <5>3
      <4>2. CASE k + 1 \notin T
        <5>1. T \in SUBSET (1 .. k) /\ g[T] = f[T]
          BY <3>3, <4>2
        <5>2. CASE T = {}
          BY <3>2, <5>1, <5>2 DEF Folds
        <5>3. CASE T # {}
          <6>1. Max(T) \in T
            BY <5>1, <5>3, Greatest
          <6>2. T \ {Max(T)} \in SUBSET (1 .. k + 1) /\ k + 1 \notin T \ {Max(T)}
            BY <4>2
          <6>3. g[T \ {Max(T)}] = f[T \ {Max(T)}]
            BY <6>2
          <6>4. QED
            BY <3>2, <5>1, <5>3, <6>3 DEF Folds
        <5>4. QED
          BY <5>2, <5>3
      <4>3. QED
        BY <4>1, <4>2
    <3>6. Folds(g, k + 1, V, base, Step)
      BY <3>4, <3>5, Zenon DEF Folds
    <3>7. QED
      BY <3>6
  <2>3. QED
    BY <2>1, <2>2
<1> HIDE DEF P
<1>3. n \in P
  BY <1>1, <1>2, Induct, Zenon
<1>4. n <= n
  OBVIOUS
<1>5. QED
  BY <1>3, <1>4, Zenon DEF P

-----------------------------------------------------------------------------
(* The sum of a breakdown.                                                   *)

\* t lists the sums of the first weights of a sequence of components.
Sums(t, s) ==
  /\ t \in [0 .. Len(s) -> Nat]
  /\ t[0] = 0
  /\ \A k \in 1 .. Len(s) : t[k] = t[k - 1] + s[k].weight

\* The names a component may have.
Names == Codes \cup OracleStates
           \cup {"tight_challenge_window", "rule_mismatch", "source_of_truth_mismatch"}

Weighed == [factor : Names, weight : Nat]

LEMMA SumsExist ==
  ASSUME NEW s \in Seq(Weighed)
  PROVE  \E t : Sums(t, s) /\ WeightOf(s) = t[Len(s)]
<1> DEFINE n == Len(s)
           Step == [x \in Nat \X (1 .. n) |-> x[1] + s[x[2]].weight]
           Iter(f) == f = [T \in SUBSET (DOMAIN s) |->
                             IF T = {} THEN 0 ELSE f[T \ {Max(T)}] + s[Max(T)].weight]
<1>1. n \in Nat /\ DOMAIN s = 1 .. n /\ \A i \in 1 .. n : s[i].weight \in Nat
  <2>1. \A i \in 1 .. Len(s) : s[i] \in Weighed
    BY ElementOfSeq
  <2>2. QED
    BY <2>1 DEF Weighed
<1>2. Step \in [Nat \X (1 .. n) -> Nat]
  BY <1>1
<1>3. WeightOf(s) = (CHOOSE f : Iter(f))[1 .. n]
  BY <1>1 DEF WeightOf, FoldLeft, MapThenFoldSet
<1> HIDE DEF n
<1>4. \A f : Folds(f, n, Nat, 0, Step) => Iter(f)
  BY <1>1, Greatest DEF Folds
<1>5. PICK h : Folds(h, n, Nat, 0, Step)
  BY <1>1, <1>2, FoldExists, Zenon
<1>6. Iter(CHOOSE f : Iter(f))
  BY <1>4, <1>5, Zenon
<1>7. PICK g : Iter(g) /\ WeightOf(s) = g[1 .. n]
  BY <1>3, <1>6, Zenon
<1> DEFINE t == [k \in 0 .. n |-> g[1 .. k]]
<1>8. \A k \in 0 .. n : 1 .. k \in SUBSET (1 .. n)
  BY <1>1
<1>9. t[0] = 0
  <2>1. 1 .. 0 = {}
    OBVIOUS
  <2>2. g[{}] = 0
    BY <1>7
  <2>3. QED
    BY <1>1, <2>1, <2>2
<1>10. ASSUME NEW k \in 1 .. n
       PROVE  t[k] = t[k - 1] + s[k].weight
  <2>1. k \in Nat /\ k > 0 /\ k \in 0 .. n /\ k - 1 \in 0 .. n
    BY <1>1
  <2>2. Max(1 .. k) = k /\ (1 .. k) \ {k} = 1 .. k - 1 /\ 1 .. k # {}
    BY <2>1, LastOfPrefix
  <2>3. g[1 .. k] = g[(1 .. k) \ {Max(1 .. k)}] + s[Max(1 .. k)].weight
    BY <1>1, <1>7, <1>8, <2>1, <2>2
  <2>4. g[1 .. k] = g[1 .. k - 1] + s[k].weight
    BY <2>2, <2>3
  <2>5. QED
    BY <2>1, <2>4
<1> DEFINE P == {k \in Nat : k <= n => t[k] \in Nat}
<1>11. \A k \in Nat : k \in P
  <2> HIDE DEF t
  <2>1. 0 \in P
    BY <1>9
  <2>2. ASSUME NEW k \in Nat, k \in P PROVE k + 1 \in P
    <3>1. CASE k + 1 <= n
      <4>1. k + 1 \in 1 .. n /\ (k + 1) - 1 = k /\ t[k] \in Nat /\ s[k + 1].weight \in Nat
        BY <1>1, <2>2, <3>1
      <4>2. t[k + 1] = t[k] + s[k + 1].weight
        BY <1>10, <4>1
      <4>3. QED
        BY <4>1, <4>2
    <3>2. QED
      BY <3>1
  <2> HIDE DEF P
  <2>3. QED
    BY <2>1, <2>2, Induct, Zenon
<1>12. t \in [0 .. n -> Nat]
  <2>1. \A k \in 0 .. n : k \in Nat /\ k <= n
    BY <1>1
  <2>2. \A k \in 0 .. n : t[k] \in Nat
    BY <1>11, <2>1, Zenon
  <2>3. QED
    BY <2>2
<1>13. n \in 0 .. n /\ WeightOf(s) = t[n]
  BY <1>1, <1>7
<1> HIDE DEF t
<1>14. QED
  BY <1>9, <1>10, <1>12, <1>13 DEF Sums, n

LEMMA SumsUnique ==
  ASSUME NEW s \in Seq(Weighed), NEW t, Sums(t, s)
  PROVE  WeightOf(s) = t[Len(s)]
<1>1. PICK u : Sums(u, s) /\ WeightOf(s) = u[Len(s)]
  BY SumsExist, Zenon
<1> DEFINE P == {k \in Nat : k <= Len(s) => t[k] = u[k]}
<1>2. 0 \in P
  BY <1>1 DEF Sums
<1>3. ASSUME NEW k \in Nat, k \in P PROVE k + 1 \in P
  <2>1. CASE k + 1 <= Len(s)
    <3>1. k + 1 \in 1 .. Len(s) /\ (k + 1) - 1 = k /\ t[k] = u[k]
      BY <1>3, <2>1
    <3>2. t[k + 1] = t[k] + s[k + 1].weight /\ u[k + 1] = u[k] + s[k + 1].weight
      BY <1>1, <3>1, Zenon DEF Sums
    <3>3. QED
      BY <3>1, <3>2
  <2>2. QED
    BY <2>1
<1> HIDE DEF P
<1>4. Len(s) \in P
  BY <1>2, <1>3, Induct
<1>5. QED
  BY <1>1, <1>4 DEF P

LEMMA WeightNat ==
  ASSUME NEW s \in Seq(Weighed)
  PROVE  WeightOf(s) \in Nat
<1>1. PICK t : Sums(t, s) /\ WeightOf(s) = t[Len(s)]
  BY SumsExist, Zenon
<1>2. Len(s) \in 0 .. Len(s)
  OBVIOUS
<1>3. QED
  BY <1>1, <1>2 DEF Sums

LEMMA WeightOfNone == WeightOf(<< >>) = 0
<1> DEFINE t == [k \in 0 .. 0 |-> 0]
<1>1. << >> \in Seq(Weighed) /\ Len(<< >>) = 0
  OBVIOUS
<1>2. t \in [0 .. 0 -> Nat] /\ t[0] = 0 /\ 1 .. 0 = {}
  OBVIOUS
<1> HIDE DEF t
<1>3. Sums(t, << >>)
  BY <1>1, <1>2 DEF Sums
<1>4. QED
  BY <1>1, <1>2, <1>3, SumsUnique

\* A breakdown in two parts weighs what its parts weigh.
LEMMA WeightOfConcat ==
  ASSUME NEW s \in Seq(Weighed), NEW u \in Seq(Weighed)
  PROVE  WeightOf(s \o u) = WeightOf(s) + WeightOf(u)
<1>1. PICK a : Sums(a, s) /\ WeightOf(s) = a[Len(s)]
  BY SumsExist, Zenon
<1>2. PICK b : Sums(b, u) /\ WeightOf(u) = b[Len(u)]
  BY SumsExist, Zenon
<1>3. /\ s \o u \in Seq(Weighed) /\ Len(s \o u) = Len(s) + Len(u)
      /\ Len(s) \in Nat /\ Len(u) \in Nat
      /\ \A k \in 1 .. Len(s) + Len(u) :
           (s \o u)[k] = IF k <= Len(s) THEN s[k] ELSE u[k - Len(s)]
  BY ConcatProperties
<1> DEFINE m == Len(s)
           n == Len(u)
           t == [k \in 0 .. m + n |-> IF k <= m THEN a[k] ELSE a[m] + b[k - m]]
<1>4. a[m] \in Nat /\ b[n] \in Nat
  BY <1>1, <1>2, <1>3 DEF Sums
<1>5. ASSUME NEW k \in 0 .. m + n PROVE t[k] \in Nat
  <2>1. CASE k <= m
    BY <1>1, <2>1, <1>3 DEF Sums
  <2>2. CASE k > m
    <3>1. k - m \in 0 .. n
      BY <1>3, <2>2
    <3>2. b[k - m] \in Nat
      BY <1>2, <3>1 DEF Sums
    <3>3. QED
      BY <1>3, <1>4, <2>2, <3>2
  <2>3. QED
    BY <1>3, <2>1, <2>2
<1>6. t[0] = 0
  BY <1>1, <1>3 DEF Sums
<1>7. ASSUME NEW k \in 1 .. m + n PROVE t[k] = t[k - 1] + (s \o u)[k].weight
  <2>1. CASE k <= m
    <3>1. k \in 1 .. m /\ k - 1 <= m /\ k \in 0 .. m + n /\ k - 1 \in 0 .. m + n
      BY <1>3, <2>1
    <3>2. a[k] = a[k - 1] + s[k].weight
      BY <1>1, <3>1 DEF Sums
    <3>3. QED
      BY <1>3, <3>1, <3>2
  <2>2. CASE k > m
    <3>1. k - m \in 1 .. n /\ k \in 0 .. m + n /\ k - 1 \in 0 .. m + n /\ (k - 1) - m = (k - m) - 1
      BY <1>3, <2>2
    <3>2. b[k - m] = b[(k - m) - 1] + u[k - m].weight /\ b[0] = 0
      BY <1>2, <3>1 DEF Sums
    <3>3. t[k - 1] = a[m] + b[(k - m) - 1]
      <4>1. CASE k - 1 = m
        <5>1. (k - m) - 1 = 0
          BY <1>3, <4>1
        <5>2. QED
          BY <1>4, <3>1, <3>2, <4>1, <5>1
      <4>2. CASE k - 1 > m
        BY <1>3, <3>1, <4>2
      <4>3. QED
        BY <1>3, <2>2, <4>1, <4>2
    <3>4. (s \o u)[k] = u[k - m]
      BY <1>3, <2>2
    <3>5. b[(k - m) - 1] \in Nat /\ u[k - m].weight \in Nat
      <4>1. u[k - m] \in Weighed /\ (k - m) - 1 \in 0 .. n
        BY <3>1, ElementOfSeq
      <4>2. QED
        BY <1>2, <4>1 DEF Sums, Weighed
    <3>6. t[k] = a[m] + b[k - m]
      BY <1>3, <2>2, <3>1
    <3> HIDE DEF t, m, n
    <3>7. QED
      BY <1>4, <3>2, <3>3, <3>4, <3>5, <3>6
  <2>3. QED
    BY <1>3, <2>1, <2>2
<1>8. m + n \in 0 .. m + n /\ t[m + n] = a[m] + b[n]
  <2>1. m + n \in 0 .. m + n /\ (m + n) - m = n
    BY <1>3
  <2>2. CASE n = 0
    BY <1>2, <1>3, <1>4, <2>1, <2>2 DEF Sums
  <2>3. CASE n > 0
    BY <1>3, <2>1, <2>3
  <2>4. QED
    BY <1>3, <2>1, <2>2, <2>3
<1>9. t \in [0 .. m + n -> Nat]
  BY <1>5
<1> HIDE DEF t
<1>10. Sums(t, s \o u)
  BY <1>3, <1>6, <1>7, <1>9 DEF Sums
<1>11. QED
  BY <1>1, <1>2, <1>3, <1>8, <1>10, SumsUnique

LEMMA WeightOfOne ==
  ASSUME NEW c \in Weighed
  PROVE  <<c>> \in Seq(Weighed) /\ WeightOf(<<c>>) = c.weight
<1> DEFINE t == [k \in 0 .. 1 |-> IF k = 0 THEN 0 ELSE c.weight]
<1>1. <<c>> \in Seq(Weighed) /\ Len(<<c>>) = 1 /\ <<c>>[1] = c /\ c.weight \in Nat
  BY DEF Weighed
<1>2. t \in [0 .. 1 -> Nat] /\ t[0] = 0 /\ t[1] = t[1 - 1] + c.weight
  BY <1>1
<1>3. \A k \in 1 .. 1 : t[k] = t[k - 1] + <<c>>[k].weight
  BY <1>1, <1>2
<1> HIDE DEF t
<1>4. Sums(t, <<c>>)
  BY <1>1, <1>2, <1>3 DEF Sums
<1>5. t[1] = c.weight
  BY DEF t
<1>6. QED
  BY <1>1, <1>4, <1>5, SumsUnique

-----------------------------------------------------------------------------
(* What is kept of the model's list.                                         *)

\* t lists what is kept of the first codes of the list.
Kept(t, codes) ==
  /\ t \in [0 .. Len(codes) -> Seq(Codes)]
  /\ t[0] = << >>
  /\ \A k \in 1 .. Len(codes) :
       t[k] = IF codes[k] \in Codes THEN Append(t[k - 1], codes[k]) ELSE t[k - 1]

LEMMA KeptExists ==
  ASSUME NEW S, NEW codes \in Seq(S)
  PROVE  \E t : Kept(t, codes) /\ Known(codes) = t[Len(codes)]
<1> DEFINE n == Len(codes)
           V == Seq(Codes)
           Step == [x \in V \X (1 .. n) |->
                      IF codes[x[2]] \in Codes THEN Append(x[1], codes[x[2]]) ELSE x[1]]
           Iter(f) == f = [T \in SUBSET (DOMAIN codes) |->
                             IF T = {} THEN << >>
                             ELSE IF codes[Max(T)] \in Codes
                                    THEN Append(f[T \ {Max(T)}], codes[Max(T)])
                                    ELSE f[T \ {Max(T)}]]
<1>1. n \in Nat /\ DOMAIN codes = 1 .. n
  OBVIOUS
<1>2. Known(codes) = (CHOOSE f : Iter(f))[1 .. n]
  BY <1>1 DEF Known, FoldLeft, MapThenFoldSet
<1> HIDE DEF n
<1>3. Step \in [V \X (1 .. n) -> V] /\ << >> \in V
  OBVIOUS
<1>4. \A f : Folds(f, n, V, << >>, Step) => Iter(f)
  <2> SUFFICES ASSUME NEW f, Folds(f, n, V, << >>, Step) PROVE Iter(f)
    OBVIOUS
  <2>1. ASSUME NEW T \in SUBSET (1 .. n), T # {}
        PROVE  f[T] = IF codes[Max(T)] \in Codes
                        THEN Append(f[T \ {Max(T)}], codes[Max(T)])
                        ELSE f[T \ {Max(T)}]
    <3>1. Max(T) \in 1 .. n
      BY <1>1, <2>1, Greatest
    <3>2. f[T \ {Max(T)}] \in V
      BY DEF Folds
    <3>3. f[T] = Step[<<f[T \ {Max(T)}], Max(T)>>]
      BY <2>1 DEF Folds
    <3> HIDE DEF V
    <3>4. QED
      BY <3>1, <3>2, <3>3
  <2>2. f = [T \in SUBSET (1 .. n) |-> f[T]] /\ f[{}] = << >>
    BY DEF Folds
  <2>3. QED
    BY <1>1, <2>1, <2>2
<1>5. PICK h : Folds(h, n, V, << >>, Step)
  BY <1>1, <1>3, FoldExists, Zenon
<1>6. Iter(CHOOSE f : Iter(f))
  BY <1>4, <1>5, Zenon
<1>7. PICK g : Iter(g) /\ Known(codes) = g[1 .. n]
  BY <1>2, <1>6, Zenon
<1> DEFINE t == [k \in 0 .. n |-> g[1 .. k]]
<1>8. \A k \in 0 .. n : 1 .. k \in SUBSET (1 .. n)
  BY <1>1
<1>9. t[0] = << >>
  <2>1. 1 .. 0 = {}
    OBVIOUS
  <2>2. g[{}] = << >>
    BY <1>7
  <2>3. QED
    BY <1>1, <2>1, <2>2
<1>10. ASSUME NEW k \in 1 .. n
       PROVE  t[k] = IF codes[k] \in Codes THEN Append(t[k - 1], codes[k]) ELSE t[k - 1]
  <2>1. k \in Nat /\ k > 0 /\ k \in 0 .. n /\ k - 1 \in 0 .. n
    BY <1>1
  <2>2. Max(1 .. k) = k /\ (1 .. k) \ {k} = 1 .. k - 1 /\ 1 .. k # {}
    BY <2>1, LastOfPrefix
  <2>3. g[1 .. k] = IF codes[Max(1 .. k)] \in Codes
                      THEN Append(g[(1 .. k) \ {Max(1 .. k)}], codes[Max(1 .. k)])
                      ELSE g[(1 .. k) \ {Max(1 .. k)}]
    BY <1>1, <1>7, <1>8, <2>1, <2>2
  <2>4. t[k] = g[1 .. k] /\ t[k - 1] = g[1 .. k - 1]
    BY <2>1
  <2>5. QED
    BY <2>2, <2>3, <2>4
<1> DEFINE P == {k \in Nat : k <= n => t[k] \in V}
<1>11. \A k \in Nat : k \in P
  <2>0. << >> \in V /\ \A x \in V, f \in Codes : Append(x, f) \in V
    OBVIOUS
  <2> HIDE DEF t, V
  <2>1. 0 \in P
    BY <1>9, <2>0
  <2>2. ASSUME NEW k \in Nat, k \in P PROVE k + 1 \in P
    <3>1. CASE k + 1 <= n
      <4>1. k + 1 \in 1 .. n /\ (k + 1) - 1 = k /\ t[k] \in V
        BY <1>1, <2>2, <3>1
      <4>2. t[k + 1] = IF codes[k + 1] \in Codes THEN Append(t[k], codes[k + 1]) ELSE t[k]
        BY <1>10, <4>1
      <4>3. t[k + 1] \in V
        BY <2>0, <4>1, <4>2
      <4>4. QED
        BY <4>3
    <3>2. QED
      BY <3>1
  <2> HIDE DEF P
  <2>3. QED
    BY <2>1, <2>2, Induct, Zenon
<1>12. t \in [0 .. n -> V]
  <2>1. \A k \in 0 .. n : k \in Nat /\ k <= n
    BY <1>1
  <2>2. \A k \in 0 .. n : t[k] \in V
    BY <1>11, <2>1, Zenon
  <2>3. QED
    BY <2>2
<1>13. n \in 0 .. n /\ Known(codes) = t[n]
  BY <1>1, <1>7
<1> HIDE DEF t
<1>14. QED
  BY <1>9, <1>10, <1>12, <1>13 DEF Kept, n

LEMMA KeptType ==
  ASSUME NEW S, NEW codes \in Seq(S)
  PROVE  Known(codes) \in Seq(Codes)
<1>1. PICK t : Kept(t, codes) /\ Known(codes) = t[Len(codes)]
  BY KeptExists, Zenon
<1>2. Len(codes) \in 0 .. Len(codes)
  OBVIOUS
<1>3. QED
  BY <1>1, <1>2 DEF Kept

\* Nothing is kept of a list exactly when none of its codes is in the vocabulary.
LEMMA KeptNone ==
  ASSUME NEW S, NEW codes \in Seq(S)
  PROVE  Known(codes) = << >> <=> ToSet(codes) \cap Codes = {}
<1>1. PICK t : Kept(t, codes) /\ Known(codes) = t[Len(codes)]
  BY KeptExists, Zenon
<1> DEFINE P == {k \in Nat : k <= Len(codes) =>
                   (t[k] = << >> <=> \A i \in 1 .. k : codes[i] \notin Codes)}
<1>2. 0 \in P
  BY <1>1 DEF Kept
<1>3. ASSUME NEW k \in Nat, k \in P PROVE k + 1 \in P
  <2>1. CASE k + 1 <= Len(codes)
    <3>1. k + 1 \in 1 .. Len(codes) /\ (k + 1) - 1 = k /\ k \in 0 .. Len(codes)
      BY <2>1
    <3>2. t[k] = << >> <=> \A i \in 1 .. k : codes[i] \notin Codes
      BY <1>3, <2>1
    <3>3. /\ t[k + 1] = IF codes[k + 1] \in Codes THEN Append(t[k], codes[k + 1]) ELSE t[k]
          /\ t[k] \in Seq(Codes)
      BY <1>1, <3>1, Zenon DEF Kept
    <3>4. 1 .. k + 1 = (1 .. k) \cup {k + 1}
      OBVIOUS
    <3>5. codes[k + 1] \in Codes => Append(t[k], codes[k + 1]) # << >>
      BY <3>3, AppendProperties
    <3>6. t[k + 1] = << >> <=> \A i \in 1 .. k + 1 : codes[i] \notin Codes
      BY <3>2, <3>3, <3>4, <3>5
    <3>7. QED
      BY <3>6
  <2>2. QED
    BY <2>1
<1> HIDE DEF P
<1>4. Len(codes) \in P
  BY <1>2, <1>3, Induct
<1>5. t[Len(codes)] = << >> <=> \A i \in 1 .. Len(codes) : codes[i] \notin Codes
  BY <1>4 DEF P
<1>6. ToSet(codes) = {codes[i] : i \in 1 .. Len(codes)}
  BY DEF ToSet
<1>7. QED
  BY <1>1, <1>5, <1>6

-----------------------------------------------------------------------------
(* What the kept codes weigh.                                                *)

LEMMA ContentWeights ==
  /\ Codes = {"requires_official_source", "requires_multiple_sources",
              "subjective_or_consensus", "strict_deadline",
              "exact_entity_match", "conditional_resolution"}
  /\ Content["requires_official_source"] = 22 /\ Content["requires_multiple_sources"] = 22
  /\ Content["subjective_or_consensus"] = 25 /\ Content["strict_deadline"] = 15
  /\ Content["exact_entity_match"] = 15 /\ Content["conditional_resolution"] = 12
  /\ \A f \in Codes : Content[f] \in 12 .. 25
<1>1. Codes = {"requires_official_source", "requires_multiple_sources",
               "subjective_or_consensus", "strict_deadline",
               "exact_entity_match", "conditional_resolution"}
  BY DEF Codes, Content
<1>2. /\ Content["requires_official_source"] = 22 /\ Content["requires_multiple_sources"] = 22
      /\ Content["subjective_or_consensus"] = 25 /\ Content["strict_deadline"] = 15
      /\ Content["exact_entity_match"] = 15 /\ Content["conditional_resolution"] = 12
  BY DEF Content
<1>3. \A f \in Codes : Content[f] \in 12 .. 25
  BY <1>1, <1>2
<1>4. QED
  BY <1>1, <1>2, <1>3

\* The components of a list of codes.
Weigh(s) == [i \in 1 .. Len(s) |-> Component(s[i], Content[s[i]])]

LEMMA WeighType ==
  ASSUME NEW s \in Seq(Codes)
  PROVE  Weigh(s) \in Seq(Weighed) /\ Len(Weigh(s)) = Len(s)
<1>1. ASSUME NEW i \in 1 .. Len(s) PROVE Component(s[i], Content[s[i]]) \in Weighed
  <2>1. s[i] \in Codes
    BY ElementOfSeq
  <2>2. s[i] \in Names /\ Content[s[i]] \in Nat
    BY <2>1, ContentWeights DEF Names
  <2>3. QED
    BY <2>2 DEF Component, Weighed
<1>2. Len(s) \in Nat
  OBVIOUS
<1>3. QED
  BY <1>1, <1>2 DEF Weigh

LEMMA WeighAppend ==
  ASSUME NEW s \in Seq(Codes), NEW f \in Codes
  PROVE  WeightOf(Weigh(Append(s, f))) = WeightOf(Weigh(s)) + Content[f]
<1> DEFINE c == Component(f, Content[f])
<1>1. c \in Weighed /\ c.weight = Content[f]
  BY ContentWeights DEF Component, Weighed, Names
<1>2. Weigh(s) \in Seq(Weighed) /\ Len(Weigh(s)) = Len(s) /\ Len(s) \in Nat
  BY WeighType
<1>3. /\ Append(s, f) \in Seq(Codes) /\ Len(Append(s, f)) = Len(s) + 1
      /\ \A i \in 1 .. Len(s) : Append(s, f)[i] = s[i]
      /\ Append(s, f)[Len(s) + 1] = f
  BY AppendProperties
<1>4. Weigh(Append(s, f)) = Weigh(s) \o <<c>>
  <2> HIDE DEF c
  <2>1. <<c>> \in Seq(Weighed) /\ Len(<<c>>) = 1 /\ <<c>>[1] = c
    BY <1>1
  <2>2. /\ Weigh(s) \o <<c>> \in Seq(Weighed)
        /\ Len(Weigh(s) \o <<c>>) = Len(s) + 1
        /\ \A i \in 1 .. Len(s) + 1 :
             (Weigh(s) \o <<c>>)[i] = IF i <= Len(s) THEN Weigh(s)[i] ELSE <<c>>[i - Len(s)]
    BY <1>2, <2>1, ConcatProperties
  <2>3. Weigh(Append(s, f)) \in Seq(Weighed) /\ Len(Weigh(Append(s, f))) = Len(s) + 1
    BY <1>3, WeighType
  <2>4. ASSUME NEW i \in 1 .. Len(s) + 1
        PROVE  Weigh(Append(s, f))[i] = (Weigh(s) \o <<c>>)[i]
    <3>1. Weigh(Append(s, f))[i] = Component(Append(s, f)[i], Content[Append(s, f)[i]])
      BY <1>3 DEF Weigh
    <3>2. CASE i <= Len(s)
      <4>1. i \in 1 .. Len(s)
        BY <3>2
      <4>2. Weigh(s)[i] = Component(s[i], Content[s[i]])
        BY <4>1 DEF Weigh
      <4>3. QED
        BY <1>3, <2>2, <3>1, <4>1, <4>2
    <3>3. CASE i = Len(s) + 1
      <4>1. (Weigh(s) \o <<c>>)[i] = c
        BY <1>2, <2>1, <2>2, <3>3
      <4>2. QED
        BY <1>3, <3>1, <3>3, <4>1 DEF c
    <3>4. QED
      BY <1>2, <3>2, <3>3
  <2>5. QED
    BY <2>2, <2>3, <2>4, SeqEqual
<1>5. WeightOf(<<c>>) = Content[f] /\ <<c>> \in Seq(Weighed)
  BY <1>1, WeightOfOne
<1>6. QED
  BY <1>2, <1>4, <1>5, WeightOfConcat

\* How often the first k codes of the list name f.
Times(codes, f, k) == Cardinality({i \in 1 .. k : codes[i] = f})

LEMMA TimesNone ==
  ASSUME NEW codes, NEW f
  PROVE  Times(codes, f, 0) = 0
<1>1. {i \in 1 .. 0 : codes[i] = f} = {}
  OBVIOUS
<1>2. QED
  BY <1>1, FS_EmptySet DEF Times

LEMMA TimesNat ==
  ASSUME NEW codes, NEW f, NEW k \in Nat
  PROVE  Times(codes, f, k) \in Nat
<1>1. IsFiniteSet({i \in 1 .. k : codes[i] = f})
  <2>1. IsFiniteSet(1 .. k)
    BY FS_Interval
  <2>2. QED
    BY <2>1, FS_Subset
<1>2. QED
  BY <1>1, FS_CardinalityType DEF Times

LEMMA TimesNext ==
  ASSUME NEW codes, NEW f, NEW k \in Nat
  PROVE  Times(codes, f, k + 1) = Times(codes, f, k) + (IF codes[k + 1] = f THEN 1 ELSE 0)
<1> DEFINE A == {i \in 1 .. k : codes[i] = f}
           B == {i \in 1 .. k + 1 : codes[i] = f}
<1>1. IsFiniteSet(A)
  <2>1. IsFiniteSet(1 .. k)
    BY FS_Interval
  <2>2. QED
    BY <2>1, FS_Subset
<1>2. k + 1 \notin A
  OBVIOUS
<1>3. CASE codes[k + 1] = f
  <2>1. B = A \cup {k + 1}
    BY <1>3
  <2> HIDE DEF A, B
  <2>2. Cardinality(B) = Cardinality(A) + 1
    BY <1>1, <1>2, <2>1, FS_AddElement
  <2>3. QED
    BY <1>3, <2>2 DEF Times, A, B
<1>4. CASE codes[k + 1] # f
  <2>1. B = A
    BY <1>4
  <2>2. Cardinality(A) \in Nat
    BY <1>1, FS_CardinalityType
  <2>3. QED
    BY <1>4, <2>1, <2>2 DEF Times
<1>5. QED
  BY <1>3, <1>4

\* What the first k codes of the list weigh, by how often they name each code.
Total(codes, k) ==
  22 * Times(codes, "requires_official_source", k)
  + 22 * Times(codes, "requires_multiple_sources", k)
  + 25 * Times(codes, "subjective_or_consensus", k)
  + 15 * Times(codes, "strict_deadline", k)
  + 15 * Times(codes, "exact_entity_match", k)
  + 12 * Times(codes, "conditional_resolution", k)

LEMMA TotalNext ==
  ASSUME NEW codes, NEW k \in Nat
  PROVE  Total(codes, k + 1) =
           Total(codes, k) + (IF codes[k + 1] \in Codes THEN Content[codes[k + 1]] ELSE 0)
<1> DEFINE c == codes[k + 1]
<1>1. \A f \in Codes :
        /\ Times(codes, f, k) \in Nat
        /\ Times(codes, f, k + 1) = Times(codes, f, k) + (IF c = f THEN 1 ELSE 0)
  BY TimesNat, TimesNext
<1> HIDE DEF c
<1>2. CASE c \in Codes
  BY <1>1, <1>2, ContentWeights DEF Total, c
<1>3. CASE c \notin Codes
  BY <1>1, <1>3, ContentWeights DEF Total, c
<1>4. QED
  BY <1>2, <1>3

LEMMA WeightOfKept ==
  ASSUME NEW S, NEW codes \in Seq(S)
  PROVE  WeightOf(Weigh(Known(codes))) = Total(codes, Len(codes))
<1>1. PICK t : Kept(t, codes) /\ Known(codes) = t[Len(codes)]
  BY KeptExists, Zenon
<1> DEFINE P == {k \in Nat : k <= Len(codes) => WeightOf(Weigh(t[k])) = Total(codes, k)}
<1>2. 0 \in P
  <2>1. Weigh(<< >>) = << >>
    BY DEF Weigh
  <2>2. Total(codes, 0) = 0
    BY TimesNone DEF Total
  <2>3. t[0] = << >>
    BY <1>1 DEF Kept
  <2>4. QED
    BY <2>1, <2>2, <2>3, WeightOfNone
<1>3. ASSUME NEW k \in Nat, k \in P PROVE k + 1 \in P
  <2>1. CASE k + 1 <= Len(codes)
    <3>1. k + 1 \in 1 .. Len(codes) /\ (k + 1) - 1 = k /\ k \in 0 .. Len(codes)
      BY <2>1
    <3>2. WeightOf(Weigh(t[k])) = Total(codes, k)
      BY <1>3, <2>1
    <3>3. /\ t[k + 1] = IF codes[k + 1] \in Codes THEN Append(t[k], codes[k + 1]) ELSE t[k]
          /\ t[k] \in Seq(Codes)
      BY <1>1, <3>1, Zenon DEF Kept
    <3>4. WeightOf(Weigh(t[k])) \in Nat
      BY <3>3, WeighType, WeightNat
    <3>5. WeightOf(Weigh(t[k + 1])) =
            WeightOf(Weigh(t[k])) + (IF codes[k + 1] \in Codes THEN Content[codes[k + 1]] ELSE 0)
      <4>1. CASE codes[k + 1] \in Codes
        BY <3>3, <4>1, WeighAppend
      <4>2. CASE codes[k + 1] \notin Codes
        BY <3>3, <3>4, <4>2
      <4>3. QED
        BY <4>1, <4>2
    <3>6. WeightOf(Weigh(t[k + 1])) = Total(codes, k + 1)
      BY <3>2, <3>5, TotalNext
    <3>7. QED
      BY <3>6
  <2>2. QED
    BY <2>1
<1> HIDE DEF P
<1>4. Len(codes) \in P
  BY <1>2, <1>3, Induct
<1>5. QED
  BY <1>1, <1>4 DEF P

\* Sums may be regrouped.
LEMMA TwoSums ==
  \A a, b, c, d \in Nat : (a + c) + (b + d) = (a + b) + (c + d)
  OBVIOUS

LEMMA ThreeSums ==
  \A a, b, c, d, e, f \in Nat :
     (a + d) + (b + e) + (c + f) = (d + e + f) + (a + b + c)
  OBVIOUS

\* The sum over the vocabulary in BagDetermined.
LEMMA SumOverCodes ==
  ASSUME NEW S, NEW codes \in Seq(S)
  PROVE  MapThenSumSet(LAMBDA f : Cardinality({i \in DOMAIN codes : codes[i] = f}) * Content[f],
                       Codes)
           = Total(codes, Len(codes))
<1> DEFINE v(f) == Cardinality({i \in DOMAIN codes : codes[i] = f}) * Content[f]
           pick(T) == CHOOSE x \in T : TRUE
           Iter(g) == g = [T \in SUBSET Codes |->
                             IF T = {} THEN 0 ELSE v(pick(T)) + g[T \ {pick(T)}]]
           part(T, f) == IF f \in T THEN v(f) ELSE 0
           two(T, f, g) == part(T, f) + part(T, g)
           sum == [T \in SUBSET Codes |->
                     two(T, "requires_official_source", "requires_multiple_sources")
                     + two(T, "subjective_or_consensus", "strict_deadline")
                     + two(T, "exact_entity_match", "conditional_resolution")]
<1>1. MapThenSumSet(LAMBDA f : Cardinality({i \in DOMAIN codes : codes[i] = f}) * Content[f],
                    Codes)
        = (CHOOSE g : Iter(g))[Codes]
  BY DEF MapThenSumSet, MapThenFoldSet
<1>2. \A f \in Codes : v(f) \in Nat /\ v(f) = Times(codes, f, Len(codes)) * Content[f]
  <2> SUFFICES ASSUME NEW f \in Codes
               PROVE  v(f) \in Nat /\ v(f) = Times(codes, f, Len(codes)) * Content[f]
    OBVIOUS
  <2>1. Len(codes) \in Nat /\ DOMAIN codes = 1 .. Len(codes)
    OBVIOUS
  <2>2. v(f) = Times(codes, f, Len(codes)) * Content[f]
    BY <2>1 DEF Times
  <2>3. Times(codes, f, Len(codes)) \in Nat /\ Content[f] \in Nat
    BY <2>1, TimesNat, ContentWeights
  <2> HIDE DEF v
  <2>4. QED
    BY <2>2, <2>3
<1> HIDE DEF v
<1>3. ASSUME NEW T \in SUBSET Codes, NEW x \in T
      PROVE  sum[T] = v(x) + sum[T \ {x}]
  <2>1. \A f \in Codes : part(T, f) \in Nat /\ part(T \ {x}, f) \in Nat
    BY <1>2
  <2>2. \A f \in Codes : part(T, f) = part(T \ {x}, f) + (IF f = x THEN v(x) ELSE 0)
    BY <1>2
  <2>3. T \ {x} \in SUBSET Codes /\ x \in Codes /\ v(x) \in Nat
    BY <1>2
  <2> DEFINE d(f) == IF f = x THEN v(x) ELSE 0
             both(f, g) == d(f) + d(g)
             all == both("requires_official_source", "requires_multiple_sources")
                    + both("subjective_or_consensus", "strict_deadline")
                    + both("exact_entity_match", "conditional_resolution")
  <2>4. \A f, g \in Codes :
          /\ two(T, f, g) = two(T \ {x}, f, g) + both(f, g)
          /\ two(T \ {x}, f, g) \in Nat /\ both(f, g) \in Nat
    <3> SUFFICES ASSUME NEW f \in Codes, NEW g \in Codes
                 PROVE  /\ two(T, f, g) = two(T \ {x}, f, g) + both(f, g)
                        /\ two(T \ {x}, f, g) \in Nat /\ both(f, g) \in Nat
      OBVIOUS
    <3>1. d(f) \in Nat /\ d(g) \in Nat
      BY <2>3
    <3>2. /\ part(T, f) = part(T \ {x}, f) + d(f) /\ part(T, g) = part(T \ {x}, g) + d(g)
          /\ part(T \ {x}, f) \in Nat /\ part(T \ {x}, g) \in Nat
      BY <2>1, <2>2
    <3> HIDE DEF part, d
    <3>3. two(T, f, g) = two(T \ {x}, f, g) + both(f, g)
      <4>1. (part(T \ {x}, f) + d(f)) + (part(T \ {x}, g) + d(g))
              = two(T \ {x}, f, g) + both(f, g)
        BY <3>1, <3>2, TwoSums
      <4>2. QED
        BY <3>2, <4>1
    <3>4. QED
      BY <3>1, <3>2, <3>3
  <2>5. all = v(x)
    BY <2>3, ContentWeights
  <2> HIDE DEF two, both
  <2>6. /\ sum[T] = two(T, "requires_official_source", "requires_multiple_sources")
                     + two(T, "subjective_or_consensus", "strict_deadline")
                     + two(T, "exact_entity_match", "conditional_resolution")
        /\ sum[T \ {x}] = two(T \ {x}, "requires_official_source", "requires_multiple_sources")
                           + two(T \ {x}, "subjective_or_consensus", "strict_deadline")
                           + two(T \ {x}, "exact_entity_match", "conditional_resolution")
    BY <2>3
  <2> HIDE DEF sum
  <2>7. sum[T] = all + sum[T \ {x}]
    <3>1. /\ "requires_official_source" \in Codes /\ "requires_multiple_sources" \in Codes
          /\ "subjective_or_consensus" \in Codes /\ "strict_deadline" \in Codes
          /\ "exact_entity_match" \in Codes /\ "conditional_resolution" \in Codes
      BY ContentWeights
    <3> DEFINE a == two(T \ {x}, "requires_official_source", "requires_multiple_sources")
               b == two(T \ {x}, "subjective_or_consensus", "strict_deadline")
               c == two(T \ {x}, "exact_entity_match", "conditional_resolution")
               a1 == both("requires_official_source", "requires_multiple_sources")
               b1 == both("subjective_or_consensus", "strict_deadline")
               c1 == both("exact_entity_match", "conditional_resolution")
    <3>2. a \in Nat /\ b \in Nat /\ c \in Nat /\ a1 \in Nat /\ b1 \in Nat /\ c1 \in Nat
      BY <2>4, <3>1
    <3>3. (a + a1) + (b + b1) + (c + c1) = (a1 + b1 + c1) + (a + b + c)
      <4> HIDE DEF a, b, c, a1, b1, c1
      <4>1. QED
        BY <3>2, ThreeSums
    <3>4. sum[T] = (a + a1) + (b + b1) + (c + c1)
      BY <2>4, <2>6, <3>1
    <3>5. sum[T \ {x}] = a + b + c
      BY <2>6
    <3>6. QED
      BY <3>3, <3>4, <3>5, Zenon
  <2>8. QED
    BY <2>5, <2>7
<1>4. \A T \in SUBSET Codes : T # {} => pick(T) \in T
  OBVIOUS
<1>5. sum[{}] = 0
  OBVIOUS
<1> HIDE DEF pick
<1>6. Iter(sum)
  <2>1. sum = [T \in SUBSET Codes |-> sum[T]]
    OBVIOUS
  <2> HIDE DEF sum
  <2>2. \A T \in SUBSET Codes : sum[T] = IF T = {} THEN 0 ELSE v(pick(T)) + sum[T \ {pick(T)}]
    BY <1>3, <1>4, <1>5
  <2>3. QED
    BY <2>1, <2>2
<1>7. PICK g : Iter(g) /\ g = CHOOSE h : Iter(h)
  BY <1>6, Zenon
<1>8. IsFiniteSet(Codes)
  <2>1. \A A : IsFiniteSet(A) => \A x : IsFiniteSet(A \cup {x})
    BY FS_AddElement
  <2>2. /\ Codes = ((((({} \cup {"requires_official_source"}) \cup {"requires_multiple_sources"})
                       \cup {"subjective_or_consensus"}) \cup {"strict_deadline"})
                       \cup {"exact_entity_match"}) \cup {"conditional_resolution"}
        /\ IsFiniteSet({})
    BY ContentWeights, FS_EmptySet
  <2>3. QED
    BY <2>1, <2>2, Zenon
<1> DEFINE P == {n \in Nat : \A T \in SUBSET Codes : Cardinality(T) = n => g[T] = sum[T]}
<1>9. 0 \in P
  <2>1. \A T \in SUBSET Codes : Cardinality(T) = 0 => T = {}
    BY <1>8, FS_Subset, FS_EmptySet
  <2>2. g[{}] = 0
    BY <1>7
  <2> HIDE DEF sum
  <2>3. QED
    BY <1>5, <2>1, <2>2
<1>10. ASSUME NEW n \in Nat, n \in P PROVE n + 1 \in P
  <2> HIDE DEF sum, Iter
  <2> SUFFICES ASSUME NEW T \in SUBSET Codes, Cardinality(T) = n + 1
               PROVE  g[T] = sum[T]
    OBVIOUS
  <2>1. IsFiniteSet(T) /\ T # {}
    BY <1>8, FS_Subset, FS_EmptySet
  <2> DEFINE x == pick(T)
  <2>2. x \in T /\ T \ {x} \in SUBSET Codes
    BY <1>4, <2>1
  <2> HIDE DEF x
  <2>3. Cardinality(T \ {x}) = n
    <3>1. Cardinality(T \ {x}) = Cardinality(T) - 1
      BY <2>1, <2>2, FS_RemoveElement
    <3>2. QED
      BY <3>1
  <2>4. g[T \ {x}] = sum[T \ {x}]
    BY <1>10, <2>2, <2>3
  <2>5. g[T] = v(x) + g[T \ {x}]
    BY <1>7, <2>1 DEF x, Iter
  <2>6. QED
    BY <1>3, <2>2, <2>4, <2>5
<1> HIDE DEF P
<1>11. Cardinality(Codes) \in P
  BY <1>8, <1>9, <1>10, Induct, FS_CardinalityType
<1>12. g[Codes] = sum[Codes]
  BY <1>11 DEF P
<1>13. sum[Codes] = Total(codes, Len(codes))
  <2>1. sum[Codes] = v("requires_official_source") + v("requires_multiple_sources")
                     + v("subjective_or_consensus") + v("strict_deadline")
                     + v("exact_entity_match") + v("conditional_resolution")
    <3>1. \A f \in Codes : part(Codes, f) = v(f) /\ v(f) \in Nat
      BY <1>2
    <3>2. /\ "requires_official_source" \in Codes /\ "requires_multiple_sources" \in Codes
          /\ "subjective_or_consensus" \in Codes /\ "strict_deadline" \in Codes
          /\ "exact_entity_match" \in Codes /\ "conditional_resolution" \in Codes
      BY ContentWeights
    <3> HIDE DEF part
    <3>3. QED
      BY <3>1, <3>2
  <2>2. \A f \in Codes : Times(codes, f, Len(codes)) \in Nat
    BY TimesNat
  <2> HIDE DEF sum
  <2>3. /\ v("requires_official_source") = 22 * Times(codes, "requires_official_source", Len(codes))
        /\ v("requires_multiple_sources") = 22 * Times(codes, "requires_multiple_sources", Len(codes))
        /\ v("subjective_or_consensus") = 25 * Times(codes, "subjective_or_consensus", Len(codes))
        /\ v("strict_deadline") = 15 * Times(codes, "strict_deadline", Len(codes))
        /\ v("exact_entity_match") = 15 * Times(codes, "exact_entity_match", Len(codes))
        /\ v("conditional_resolution") = 12 * Times(codes, "conditional_resolution", Len(codes))
    <3>1. \A f \in Codes : v(f) = Content[f] * Times(codes, f, Len(codes))
      <4>1. \A m, n \in Nat : m * n = n * m
        OBVIOUS
      <4>2. \A f \in Codes : Content[f] \in Nat
        BY ContentWeights
      <4>3. QED
        BY <1>2, <2>2, <4>1, <4>2, Zenon
    <3>2. QED
      BY <3>1, ContentWeights, Zenon
  <2>4. QED
    BY <2>1, <2>3 DEF Total
<1>14. QED
  BY <1>1, <1>7, <1>12, <1>13

-----------------------------------------------------------------------------
(* What a verdict weighs.                                                    *)

WindowWeight(m) == IF ChallengeWindow(m) \in 0 .. 400 THEN 8 ELSE 0

StageWeight(state) == IF state \in DOMAIN StateWeight THEN StateWeight[state] ELSE 0

LEMMA Stages ==
  /\ DOMAIN StateWeight = {"DISPUTED", "UNDISPUTED", "PROPOSED"}
  /\ StageWeight("DISPUTED") = 30 /\ StageWeight("UNDISPUTED") = 22
  /\ StageWeight("PROPOSED") = 15 /\ StageWeight("UNRESOLVED") = 0
  /\ \A state : StageWeight(state) \in {0, 15, 22, 30}
  BY DEF StateWeight, StageWeight

LEMMA StructuralWeight ==
  ASSUME NEW m
  PROVE  /\ Structural(m) \in Seq(Weighed)
         /\ WeightOf(Structural(m)) = WindowWeight(m) + StageWeight(m.state)
<1> DEFINE w == IF ChallengeWindow(m) \in 0 .. 400
                  THEN <<Component("tight_challenge_window", 8)>> ELSE << >>
           o == IF m.state \in DOMAIN StateWeight
                  THEN <<Component(m.state, StateWeight[m.state])>> ELSE << >>
<1>1. << >> \in Seq(Weighed)
  OBVIOUS
<1>2. w \in Seq(Weighed) /\ WeightOf(w) = WindowWeight(m)
  <2> DEFINE c == Component("tight_challenge_window", 8)
  <2>1. c \in Weighed /\ c.weight = 8
    BY DEF Component, Weighed, Names
  <2> HIDE DEF c
  <2>2. <<c>> \in Seq(Weighed) /\ WeightOf(<<c>>) = 8
    BY <2>1, WeightOfOne
  <2>3. w = IF ChallengeWindow(m) \in 0 .. 400 THEN <<c>> ELSE << >>
    BY DEF c
  <2> HIDE DEF w
  <2>4. QED
    BY <1>1, <2>2, <2>3, WeightOfNone DEF WindowWeight
<1>3. o \in Seq(Weighed) /\ WeightOf(o) = StageWeight(m.state)
  <2> DEFINE c == Component(m.state, StateWeight[m.state])
  <2>1. CASE m.state \in DOMAIN StateWeight
    <3>1. m.state \in OracleStates /\ StateWeight[m.state] \in Nat
      BY <2>1 DEF StateWeight, OracleStates
    <3>2. c \in Weighed /\ c.weight = StateWeight[m.state]
      BY <3>1 DEF Component, Weighed, Names
    <3> HIDE DEF c
    <3>3. <<c>> \in Seq(Weighed) /\ WeightOf(<<c>>) = StateWeight[m.state]
      BY <3>2, WeightOfOne
    <3>4. o = <<c>>
      BY <2>1 DEF c
    <3>5. QED
      BY <2>1, <3>3, <3>4 DEF StageWeight
  <2>2. CASE m.state \notin DOMAIN StateWeight
    <3>1. o = << >> /\ StageWeight(m.state) = 0
      BY <2>2 DEF StageWeight
    <3>2. QED
      BY <1>1, <3>1, WeightOfNone
  <2>3. QED
    BY <2>1, <2>2
<1>4. Structural(m) = w \o o
  BY DEF Structural
<1> HIDE DEF w, o
<1>5. QED
  BY <1>2, <1>3, <1>4, WeightOfConcat, ConcatProperties

LEMMA FallbackWeight ==
  ASSUME NEW m
  PROVE  /\ Fallback(m) \in Seq(Weighed)
         /\ WeightOf(Fallback(m)) = IF m.source THEN 55 ELSE 0
<1> DEFINE c == Component("source_of_truth_mismatch", 55)
<1>1. c \in Weighed /\ c.weight = 55
  BY DEF Component, Weighed, Names
<1>2. Fallback(m) = IF m.source THEN <<c>> ELSE << >>
  BY DEF Fallback
<1> HIDE DEF c
<1>3. <<c>> \in Seq(Weighed) /\ WeightOf(<<c>>) = 55
  BY <1>1, WeightOfOne
<1>4. << >> \in Seq(Weighed)
  OBVIOUS
<1>5. QED
  BY <1>2, <1>3, <1>4, WeightOfNone

LEMMA ClausesWeight ==
  ASSUME NEW S, NEW r, r.factors \in Seq(S)
  PROVE  /\ Clauses(r) \in Seq(Weighed)
         /\ ToSet(r.factors) \cap Codes # {} =>
              WeightOf(Clauses(r)) = Total(r.factors, Len(r.factors))
         /\ ToSet(r.factors) \cap Codes = {} =>
              WeightOf(Clauses(r)) = IF r.mismatches THEN 15 ELSE 0
<1> DEFINE c == Component("rule_mismatch", 15)
           known == Known(r.factors)
<1>1. c \in Weighed /\ c.weight = 15
  BY DEF Component, Weighed, Names
<1>2. Clauses(r) = IF known = << >> /\ r.mismatches THEN <<c>> ELSE Weigh(known)
  BY DEF Clauses, Weigh
<1> HIDE DEF c
<1>3. <<c>> \in Seq(Weighed) /\ WeightOf(<<c>>) = 15
  BY <1>1, WeightOfOne
<1>4. known \in Seq(Codes)
  BY KeptType
<1>5. known = << >> <=> ToSet(r.factors) \cap Codes = {}
  BY KeptNone
<1>6. WeightOf(Weigh(known)) = Total(r.factors, Len(r.factors))
  BY WeightOfKept
<1>7. Weigh(<< >>) = << >>
  BY DEF Weigh
<1> HIDE DEF known
<1>8. Weigh(known) \in Seq(Weighed)
  BY <1>4, WeighType
<1>9. QED
  BY <1>2, <1>3, <1>5, <1>6, <1>7, <1>8, WeightOfNone

LEMMA OneNamed ==
  ASSUME NEW T \in [Codes -> Nat], NEW q \in Codes, T[q] > 0
  PROVE  22 * T["requires_official_source"] + 22 * T["requires_multiple_sources"]
           + 25 * T["subjective_or_consensus"] + 15 * T["strict_deadline"]
           + 15 * T["exact_entity_match"] + 12 * T["conditional_resolution"] >= 12
<1>1. /\ "requires_official_source" \in Codes /\ "requires_multiple_sources" \in Codes
      /\ "subjective_or_consensus" \in Codes /\ "strict_deadline" \in Codes
      /\ "exact_entity_match" \in Codes /\ "conditional_resolution" \in Codes
      /\ q \in {"requires_official_source", "requires_multiple_sources",
                "subjective_or_consensus", "strict_deadline",
                "exact_entity_match", "conditional_resolution"}
  BY ContentWeights
<1>2. QED
  BY <1>1

\* A list with a code of the vocabulary weighs at least the lightest.
LEMMA TotalHasOne ==
  ASSUME NEW S, NEW codes \in Seq(S), ToSet(codes) \cap Codes # {}
  PROVE  Total(codes, Len(codes)) >= 12
<1> DEFINE n == Len(codes)
<1>1. PICK i \in 1 .. n : codes[i] \in Codes
  BY DEF ToSet
<1>2. n \in Nat
  OBVIOUS
<1> HIDE DEF n
<1>3. \A f \in Codes : Times(codes, f, n) \in Nat
  BY <1>2, TimesNat
<1>4. Times(codes, codes[i], n) > 0
  <2> DEFINE A == {j \in 1 .. n : codes[j] = codes[i]}
  <2>1. i \in A
    OBVIOUS
  <2>2. IsFiniteSet(A)
    <3>1. IsFiniteSet(1 .. n)
      BY <1>2, FS_Interval
    <3>2. QED
      BY <3>1, FS_Subset
  <2> HIDE DEF A
  <2>3. Cardinality(A) \in Nat /\ Cardinality(A) # 0
    BY <2>1, <2>2, FS_CardinalityType, FS_EmptySet
  <2>4. QED
    BY <2>3 DEF Times, A
<1> DEFINE T == [f \in Codes |-> Times(codes, f, n)]
<1>5. T \in [Codes -> Nat] /\ codes[i] \in Codes /\ T[codes[i]] > 0
  BY <1>1, <1>3, <1>4
<1>6. Total(codes, n) = 22 * T["requires_official_source"] + 22 * T["requires_multiple_sources"]
                        + 25 * T["subjective_or_consensus"] + 15 * T["strict_deadline"]
                        + 15 * T["exact_entity_match"] + 12 * T["conditional_resolution"]
  BY ContentWeights DEF Total
<1> HIDE DEF T
<1>7. Total(codes, n) >= 12
  BY <1>5, <1>6, OneNamed
<1>8. QED
  BY <1>7 DEF n

LEMMA ReplyType ==
  ASSUME NEW r \in Reply \cup {NoReply}
  PROVE  /\ r.factors \in Seq(Codes \cup {Foreign}) /\ Len(r.factors) <= MaxFactors
         /\ r.given \in BOOLEAN /\ r.mismatches \in BOOLEAN
         /\ r.mismatches => r.given
<1>1. CASE r = NoReply
  BY <1>1, EngineAssumption DEF NoReply
<1>2. CASE r \in Reply
  <2>1. r.given = TRUE /\ r.mismatches \in BOOLEAN
    BY <1>2 DEF Reply
  <2>2. PICK k \in 0 .. MaxFactors : r.factors \in [1 .. k -> Codes \cup {Foreign}]
    BY <1>2 DEF Reply, SeqOf
  <2>3. k \in Nat /\ k <= MaxFactors
    BY <2>2, EngineAssumption
  <2>4. r.factors \in Seq(Codes \cup {Foreign}) /\ Len(r.factors) = k
    BY <2>2, <2>3
  <2>5. QED
    BY <2>1, <2>3, <2>4
<1>3. QED
  BY <1>1, <1>2

\* What a verdict says, by the weights of its parts.
LEMMA VerdictOf ==
  ASSUME NEW m \in Market, NEW r \in Reply \cup {NoReply}
  PROVE  LET weight == WeightOf(Breakdown(m, r))
             v == Verdict(m, r)
         IN  /\ weight \in Nat
             /\ weight = WeightOf(IF r.given THEN Clauses(r) ELSE Fallback(m))
                         + WindowWeight(m) + StageWeight(m.state)
             /\ v.score = IF weight > 100 THEN 100 ELSE weight
             /\ v.action = IF weight >= 70 THEN "ABORT_TRADE"
                           ELSE IF weight >= 35 THEN "CAUTION" ELSE "PROCEED"
<1> DEFINE weight == WeightOf(Breakdown(m, r))
           head == IF r.given THEN Clauses(r) ELSE Fallback(m)
<1>1. r.factors \in Seq(Codes \cup {Foreign}) /\ Len(r.factors) <= MaxFactors
  BY ReplyType
<1>2. head \in Seq(Weighed)
  BY <1>1, ClausesWeight, FallbackWeight
<1>3. Structural(m) \in Seq(Weighed)
      /\ WeightOf(Structural(m)) = WindowWeight(m) + StageWeight(m.state)
  BY StructuralWeight
<1>4. Breakdown(m, r) = head \o Structural(m)
  BY DEF Breakdown
<1> HIDE DEF head
<1>5. weight = WeightOf(head) + WeightOf(Structural(m))
  BY <1>2, <1>3, <1>4, WeightOfConcat
<1>6. WeightOf(head) \in Nat /\ WindowWeight(m) \in {0, 8} /\ StageWeight(m.state) \in {0, 15, 22, 30}
  BY <1>2, WeightNat, Stages DEF WindowWeight
<1>7. weight \in Nat /\ weight = WeightOf(head) + WindowWeight(m) + StageWeight(m.state)
  BY <1>3, <1>5, <1>6
<1>8. LET v == Verdict(m, r) IN
        /\ v.score = IF weight > 100 THEN 100 ELSE weight
        /\ v.action = ActionFor(v.score)
  BY DEF Verdict, ScoreOf
<1> HIDE DEF weight
<1>9. Verdict(m, r).action = IF weight >= 70 THEN "ABORT_TRADE"
                             ELSE IF weight >= 35 THEN "CAUTION" ELSE "PROCEED"
  BY <1>7, <1>8 DEF ActionFor
<1>10. QED
  BY <1>7, <1>8, <1>9 DEF head, weight

-----------------------------------------------------------------------------
(* The invariant: an audit's verdict is that of its market and its reply.    *)

Inv ==
  /\ market \in Market
  /\ reply \in Reply \cup {NoReply}
  /\ Idle \/ verdict = Verdict(market, reply)

LEMMA Invariance == Spec => []Inv
<1>1. Init => Inv
  <2>1. NoMarket \in Market
    BY EngineAssumption DEF Market, NoMarket, OracleStates
  <2>2. QED
    BY <2>1 DEF Init, Idle, Inv
<1>2. Inv /\ [Next]_vars => Inv'
  <2> SUFFICES ASSUME Inv, [Next]_vars PROVE Inv'
    OBVIOUS
  <2>1. CASE Audit
    BY <2>1 DEF Audit, Inv
  <2>2. CASE Respond
    <3>1. Idle'
      BY <2>2 DEF Respond, Idle
    <3>2. market' \in Market /\ reply' = NoReply
      BY <2>2, EngineAssumption DEF Respond, Market, NoMarket, OracleStates
    <3>3. QED
      BY <3>1, <3>2 DEF Inv
  <2>3. CASE UNCHANGED vars
    BY <2>3 DEF Inv, Idle, vars
  <2>4. QED
    BY <2>1, <2>2, <2>3 DEF Next
<1>3. QED
  BY <1>1, <1>2, PTL DEF Spec

-----------------------------------------------------------------------------
(* The theorems.                                                             *)

\* The score the engine answers with is in 0 .. 100 and its action is one of the
\* three, as schemas.py declares, for replies of any length.
THEOREM TypeOKHolds == Spec => []TypeOK
<1>1. Inv => TypeOK
  <2> SUFFICES ASSUME Inv PROVE TypeOK
    OBVIOUS
  <2>1. reply.factors \in Seq(Codes \cup {Foreign}) /\ Len(reply.factors) <= MaxFactors
    BY ReplyType DEF Inv
  <2>2. verdict.score \in 0 .. 100 /\ verdict.action \in {"PROCEED", "CAUTION", "ABORT_TRADE"}
    <3>1. CASE Idle
      BY <3>1 DEF Idle, NoVerdict
    <3>2. CASE verdict = Verdict(market, reply)
      <4> DEFINE weight == WeightOf(Breakdown(market, reply))
      <4>1. /\ weight \in Nat
            /\ verdict.score = IF weight > 100 THEN 100 ELSE weight
            /\ verdict.action = IF weight >= 70 THEN "ABORT_TRADE"
                               ELSE IF weight >= 35 THEN "CAUTION" ELSE "PROCEED"
        BY <3>2, VerdictOf DEF Inv
      <4> HIDE DEF weight
      <4>2. QED
        BY <4>1
    <3>3. QED
      BY <3>1, <3>2 DEF Inv
  <2>3. QED
    BY <2>1, <2>2 DEF Inv, TypeOK
<1>2. QED
  BY <1>1, Invariance, PTL

\* The order in which the model names the factors, and the codes it makes up in
\* between, change nothing: the score is the capped sum of each code's weight
\* times the number of times it is named, for a list of any length.
THEOREM BagDeterminedHolds == Spec => []BagDetermined
<1>1. Inv => BagDetermined
  <2> DEFINE codes == reply.factors
             sum == MapThenSumSet(
                      LAMBDA f : Cardinality({i \in DOMAIN codes : codes[i] = f}) * Content[f],
                      Codes)
             weight == WeightOf(Breakdown(market, reply))
  <2> SUFFICES ASSUME Inv, ToSet(codes) \cap Codes # {}
               PROVE  verdict.score = IF sum + WeightOf(Structural(market)) > 100
                                        THEN 100 ELSE sum + WeightOf(Structural(market))
    BY Zenon DEF BagDetermined
  <2>1. codes \in Seq(Codes \cup {Foreign})
    BY ReplyType DEF Inv
  <2>2. codes # << >> /\ reply # NoReply
    BY DEF ToSet, NoReply
  <2>3. reply.given
    BY <2>2 DEF Inv, Reply
  <2>4. verdict = Verdict(market, reply)
    BY <2>2 DEF Inv, Idle
  <2>5. sum = Total(codes, Len(codes))
    BY <2>1, SumOverCodes
  <2>6. WeightOf(Clauses(reply)) = Total(codes, Len(codes))
    BY <2>1, ClausesWeight
  <2>7. /\ weight = WeightOf(Clauses(reply)) + WindowWeight(market) + StageWeight(market.state)
        /\ verdict.score = IF weight > 100 THEN 100 ELSE weight
    BY <2>3, <2>4, VerdictOf DEF Inv
  <2>8. WeightOf(Clauses(reply)) \in Nat
    BY <2>1, ClausesWeight, WeightNat
  <2>9. WindowWeight(market) \in {0, 8} /\ StageWeight(market.state) \in {0, 15, 22, 30}
    BY Stages DEF WindowWeight
  <2>10. WeightOf(Structural(market)) = WindowWeight(market) + StageWeight(market.state)
    BY StructuralWeight
  <2> HIDE DEF sum, weight, codes
  <2>11. weight = sum + WeightOf(Structural(market))
    BY <2>5, <2>6, <2>7, <2>8, <2>9, <2>10
  <2>12. QED
    BY <2>7, <2>11
<1>2. QED
  BY <1>1, Invariance, PTL

\* A reply that lists mismatches costs the market at least the lightest factor,
\* whatever codes it names with them.
THEOREM MismatchRegistersHolds == Spec => []MismatchRegisters
<1>1. Inv => MismatchRegisters
  <2> DEFINE weight == WeightOf(Breakdown(market, reply))
  <2> SUFFICES ASSUME Inv, reply.mismatches PROVE verdict.score >= 12
    BY DEF MismatchRegisters
  <2>1. /\ reply.factors \in Seq(Codes \cup {Foreign})
        /\ reply.given
    BY ReplyType DEF Inv
  <2>2. verdict = Verdict(market, reply)
    BY <2>1 DEF Inv, Idle, NoReply
  <2>3. WeightOf(Clauses(reply)) \in Nat /\ WeightOf(Clauses(reply)) >= 12
    <3>1. WeightOf(Clauses(reply)) \in Nat
      BY <2>1, ClausesWeight, WeightNat
    <3>2. CASE ToSet(reply.factors) \cap Codes = {}
      BY <2>1, <3>2, ClausesWeight
    <3>3. CASE ToSet(reply.factors) \cap Codes # {}
      <4>1. WeightOf(Clauses(reply)) = Total(reply.factors, Len(reply.factors))
        BY <2>1, <3>3, ClausesWeight
      <4>2. Total(reply.factors, Len(reply.factors)) >= 12
        BY <2>1, <3>3, TotalHasOne
      <4>3. QED
        BY <3>1, <4>1, <4>2
    <3>4. QED
      BY <3>1, <3>2, <3>3
  <2>4. /\ weight = WeightOf(Clauses(reply)) + WindowWeight(market) + StageWeight(market.state)
        /\ verdict.score = IF weight > 100 THEN 100 ELSE weight
    BY <2>1, <2>2, VerdictOf DEF Inv
  <2>5. WindowWeight(market) \in {0, 8} /\ StageWeight(market.state) \in {0, 15, 22, 30}
    BY Stages DEF WindowWeight
  <2> HIDE DEF weight
  <2>6. QED
    BY <2>3, <2>4, <2>5
<1>2. QED
  BY <1>1, Invariance, PTL

\* Without the model an audit aborts exactly when the market names a source and a
\* proposal is open or settling, and a named source alone is never a PROCEED.
THEOREM FallbackAbortsHolds == Spec => []FallbackAborts
<1>1. Inv => FallbackAborts
  <2> DEFINE weight == WeightOf(Breakdown(market, reply))
  <2> SUFFICES ASSUME Inv, ~reply.given
               PROVE  /\ verdict.action = "ABORT_TRADE"
                           <=> market.source /\ market.state \in DOMAIN StateWeight
                      /\ market.source => verdict.action # "PROCEED"
    BY DEF FallbackAborts
  <2>1. CASE Idle
    BY <2>1 DEF Idle, NoVerdict, NoMarket, StateWeight
  <2>2. CASE verdict = Verdict(market, reply)
    <3>1. /\ weight = WeightOf(Fallback(market)) + WindowWeight(market)
                       + StageWeight(market.state)
          /\ verdict.action = IF weight >= 70 THEN "ABORT_TRADE"
                             ELSE IF weight >= 35 THEN "CAUTION" ELSE "PROCEED"
      BY <2>2, VerdictOf DEF Inv
    <3>2. WeightOf(Fallback(market)) = IF market.source THEN 55 ELSE 0
      BY FallbackWeight
    <3>3. WindowWeight(market) \in {0, 8} /\ StageWeight(market.state) \in {0, 15, 22, 30}
      BY Stages DEF WindowWeight
    <3>4. market.state \in DOMAIN StateWeight <=> StageWeight(market.state) # 0
      BY Stages DEF StageWeight
    <3>5. market.source \in BOOLEAN
      BY DEF Inv, Market
    <3> HIDE DEF weight
    <3>6. QED
      BY <3>1, <3>2, <3>3, <3>4, <3>5
  <2>3. QED
    BY <2>1, <2>2 DEF Inv
<1>2. QED
  BY <1>1, Invariance, PTL

\* Oracle metadata alone never blocks a trade: of a market whose clauses the model
\* finds clean the most the engine says is CAUTION, and only of a disputed one whose
\* window is known.
THEOREM MetadataNeverBlocksHolds == Spec => []MetadataNeverBlocks
<1>1. Inv => MetadataNeverBlocks
  <2> DEFINE weight == WeightOf(Breakdown(market, reply))
  <2> SUFFICES ASSUME Inv, reply.given, ToSet(reply.factors) \cap Codes = {}, ~reply.mismatches
               PROVE  /\ verdict.action # "ABORT_TRADE"
                      /\ verdict.action = "CAUTION" =>
                           market.state = "DISPUTED" /\ (market.uma \/ market.liveness > 0)
    BY DEF MetadataNeverBlocks
  <2>1. verdict = Verdict(market, reply)
    BY DEF Inv, Idle, NoReply
  <2>2. WeightOf(Clauses(reply)) = 0
    BY ReplyType, ClausesWeight DEF Inv
  <2>3. /\ weight = WeightOf(Clauses(reply)) + WindowWeight(market) + StageWeight(market.state)
        /\ verdict.action = IF weight >= 70 THEN "ABORT_TRADE"
                           ELSE IF weight >= 35 THEN "CAUTION" ELSE "PROCEED"
    BY <2>1, VerdictOf DEF Inv
  <2>4. WindowWeight(market) \in {0, 8} /\ StageWeight(market.state) \in {0, 15, 22, 30}
    BY Stages DEF WindowWeight
  <2>5. WindowWeight(market) = 8 => market.uma \/ market.liveness > 0
    BY DEF WindowWeight, ChallengeWindow, NoWindow
  <2>6. StageWeight(market.state) = 30 => market.state = "DISPUTED"
    BY Stages DEF StageWeight
  <2> HIDE DEF weight
  <2>7. QED
    BY <2>2, <2>3, <2>4, <2>5, <2>6
<1>2. QED
  BY <1>1, Invariance, PTL

\* As a market goes from open to proposed to its last hours to disputed, the same
\* reading of its rules never scores lower.
THEOREM EscalationNeverLowersHolds == Spec => []EscalationNeverLowers
<1>1. Inv => EscalationNeverLowers
  <2> SUFFICES ASSUME Inv, NEW i \in 1 .. 4, NEW j \in 1 .. 4, i < j,
                      market.state = Escalation[j]
               PROVE  Verdict([market EXCEPT !.state = Escalation[i]], reply).score
                        <= verdict.score
    <3>1. DOMAIN Escalation = 1 .. 4
      BY DEF Escalation
    <3>2. QED
      BY <3>1 DEF EscalationNeverLowers
  <2> DEFINE before == [market EXCEPT !.state = Escalation[i]]
             w0 == WeightOf(Breakdown(before, reply))
             w1 == WeightOf(Breakdown(market, reply))
             head == WeightOf(IF reply.given THEN Clauses(reply) ELSE Fallback(market))
  <2>1. Escalation[i] \in OracleStates /\ StageWeight(Escalation[i]) <= StageWeight(Escalation[j])
    <3>1. i \in {1, 2, 3, 4} /\ j \in {1, 2, 3, 4}
      OBVIOUS
    <3>2. Escalation[1] = "UNRESOLVED" /\ Escalation[2] = "PROPOSED"
          /\ Escalation[3] = "UNDISPUTED" /\ Escalation[4] = "DISPUTED"
      BY DEF Escalation
    <3>3. QED
      BY <3>1, <3>2, Stages DEF OracleStates
  <2>2. /\ before \in Market /\ before.state = Escalation[i]
        /\ before.source = market.source /\ before.uma = market.uma
        /\ before.liveness = market.liveness
    BY <2>1 DEF Inv, Market
  <2>3. verdict = Verdict(market, reply)
    <3>1. \A k \in 1 .. 4 : Escalation[k] # "UNKNOWN"
      BY DEF Escalation
    <3>2. QED
      BY <3>1 DEF Inv, Idle, NoMarket
  <2> HIDE DEF before
  <2>4. WindowWeight(before) = WindowWeight(market) /\ Fallback(before) = Fallback(market)
    BY <2>2 DEF WindowWeight, ChallengeWindow, Fallback
  <2>5. /\ w0 \in Nat /\ w0 = head + WindowWeight(market) + StageWeight(before.state)
        /\ Verdict(before, reply).score = IF w0 > 100 THEN 100 ELSE w0
    BY <2>2, <2>4, VerdictOf DEF Inv
  <2>6. /\ w1 \in Nat /\ w1 = head + WindowWeight(market) + StageWeight(market.state)
        /\ verdict.score = IF w1 > 100 THEN 100 ELSE w1
    BY <2>3, VerdictOf DEF Inv
  <2>7. head \in Nat
    BY ReplyType, ClausesWeight, FallbackWeight, WeightNat DEF Inv
  <2>8. WindowWeight(market) \in {0, 8}
    BY DEF WindowWeight
  <2>9. /\ StageWeight(before.state) \in Nat /\ StageWeight(market.state) \in Nat
        /\ StageWeight(before.state) <= StageWeight(market.state)
    BY <2>1, <2>2, Stages
  <2> HIDE DEF w0, w1, head
  <2>10. w0 <= w1
    BY <2>5, <2>6, <2>7, <2>8, <2>9
  <2>11. QED
    BY <2>5, <2>6, <2>10 DEF before
<1>2. QED
  BY <1>1, Invariance, PTL
=============================================================================
