----------------------------- MODULE FoldLemmas -----------------------------
(***************************************************************************)
(* What FoldLeft and FoldRight of SequencesExt do, step by step, for any   *)
(* operator: a module that folds instantiates this one with what it folds. *)
(* Both are defined by recursion over the sets of positions that are left; *)
(* that this recursion has a solution is proved from the least length for  *)
(* which it would have none.                                               *)
(***************************************************************************)
EXTENDS SequencesExt, WellFoundedInduction, TLAPS

CONSTANTS Op(_, _), Base

FromLeft(seq) == FoldLeft(Op, Base, seq)
FromRight(seq) == FoldRight(Op, seq, Base)

-----------------------------------------------------------------------------
Less == {r \in Nat \X Nat : r[1] < r[2]}

\* Induction over the natural numbers, as the least number that is an exception.
LEMMA LeastNatural ==
  ASSUME NEW S \in SUBSET Nat, S # {} PROVE \E m \in S : \A n \in S : m <= n
<1>1. OpToRel(<, Nat) = Less
  BY DEF OpToRel, Less
<1>2. IsWellFoundedOn(Less, Nat)
  BY <1>1, NatLessThanWellFounded, Zenon
<1>3. PICK m \in S : \A n \in S : ~(<<n, m>> \in Less)
  BY <1>2, WFMin
<1>4. ASSUME NEW n \in S PROVE m <= n
  <2>1. m \in Nat /\ n \in Nat
    OBVIOUS
  <2>2. <<n, m>> \notin Less
    BY <1>3
  <2>3. n < m => <<n, m>> \in Less
    BY <2>1 DEF Less
  <2> QED
    BY <2>1, <2>2, <2>3
<1> QED
  BY <1>4

LEMMA MaxIsLast ==
  ASSUME NEW n \in Nat, NEW S \in SUBSET (1 .. n), S # {}
  PROVE  Max(S) \in S /\ \A i \in S : i <= Max(S)
<1> DEFINE Back == {n - i : i \in S}
<1>1. Back \in SUBSET Nat /\ Back # {}
  <2>1. \A i \in S : i \in Nat /\ i <= n /\ n - i \in Nat
    OBVIOUS
  <2> QED
    BY <2>1
<1>2. PICK m \in Back : \A k \in Back : m <= k
  BY <1>1, LeastNatural
<1>3. PICK e \in S : m = n - e
  BY <1>2
<1>4. ASSUME NEW i \in S PROVE e >= i
  <2>1. n - e <= n - i
    BY <1>2, <1>3
  <2> QED
    BY <2>1
<1>5. Max(S) \in S /\ \A i \in S : Max(S) >= i
  BY <1>4, Zenon DEF Max
<1> QED
  BY <1>5

LEMMA MinIsFirst ==
  ASSUME NEW n \in Nat, NEW S \in SUBSET (1 .. n), S # {}
  PROVE  Min(S) \in S /\ \A i \in S : Min(S) <= i
<1>1. PICK m \in S : \A k \in S : m <= k
  BY LeastNatural
<1> QED
  BY <1>1, Zenon DEF Min

LEMMA MaxIs ==
  ASSUME NEW n \in Nat, NEW S \in SUBSET (1 .. n), NEW e \in S, \A i \in S : i <= e
  PROVE  Max(S) = e
<1>1. PICK m : m = Max(S)
  OBVIOUS
<1>2. m \in S /\ e <= m
  BY <1>1, MaxIsLast
<1>3. m \in Nat /\ e \in Nat /\ m <= e
  BY <1>2
<1> QED
  BY <1>1, <1>2, <1>3

LEMMA MinIs ==
  ASSUME NEW n \in Nat, NEW S \in SUBSET (1 .. n), NEW e \in S, \A i \in S : e <= i
  PROVE  Min(S) = e
<1>1. PICK m : m = Min(S)
  OBVIOUS
<1>2. m \in S /\ m <= e
  BY <1>1, MinIsFirst
<1>3. m \in Nat /\ e \in Nat /\ e <= m
  BY <1>2
<1> QED
  BY <1>1, <1>2, <1>3

-----------------------------------------------------------------------------
\* What the recursion of FoldLeft has to satisfy, on the first n positions.
Left(g, n, seq) ==
  g = [s \in SUBSET (1 .. n) |->
         IF s = {} THEN Base ELSE Op(g[s \ {Max(s)}], seq[Max(s)])]

LEMMA LeftExists ==
  ASSUME NEW seq, NEW n \in Nat PROVE \E g : Left(g, n, seq)
<1> DEFINE Bad == {k \in Nat : ~\E g : Left(g, k, seq)}
<1> SUFFICES ASSUME Bad # {} PROVE FALSE
  OBVIOUS
<1>1. PICK m \in Bad : \A k \in Bad : m <= k
  BY LeastNatural
<1>2. CASE m = 0
  <2> DEFINE h == [s \in SUBSET (1 .. 0) |-> Base]
  <2>1. \A s \in SUBSET (1 .. 0) : s = {}
    OBVIOUS
  <2>2. h = [s \in SUBSET (1 .. 0) |-> IF s = {} THEN Base ELSE Op(h[s \ {Max(s)}], seq[Max(s)])]
    BY <2>1
  <2> QED
    BY <1>1, <1>2, <2>2 DEF Left
<1>3. CASE m # 0
  <2>1. m \in Nat /\ m - 1 \in Nat /\ m - 1 \notin Bad
    BY <1>1, <1>3
  <2>2. PICK g : Left(g, m - 1, seq)
    BY <2>1
  <2> DEFINE h == [s \in SUBSET (1 .. m) |-> IF m \in s THEN Op(g[s \ {m}], seq[m]) ELSE g[s]]
  <2>3. ASSUME NEW s \in SUBSET (1 .. m)
        PROVE  h[s] = IF s = {} THEN Base ELSE Op(h[s \ {Max(s)}], seq[Max(s)])
    <3>1. CASE m \in s
      <4>1. Max(s) = m
        <5>1. \A i \in s : i <= m
          BY <2>1
        <5> QED
          BY <2>1, <3>1, <5>1, MaxIs
      <4>2. s \ {m} \in SUBSET (1 .. m) /\ m \notin s \ {m}
        OBVIOUS
      <4>3. h[s \ {m}] = g[s \ {m}] /\ h[s] = Op(g[s \ {m}], seq[m])
        BY <3>1, <4>2
      <4> HIDE DEF h
      <4> QED
        BY <3>1, <4>1, <4>3
    <3>2. CASE m \notin s
      <4>1. s \in SUBSET (1 .. m - 1) /\ h[s] = g[s]
        BY <2>1, <3>2
      <4>2. s # {} => /\ s \ {Max(s)} \in SUBSET (1 .. m - 1)
                      /\ h[s \ {Max(s)}] = g[s \ {Max(s)}]
        <5>1. s \ {Max(s)} \in SUBSET (1 .. m) /\ m \notin s \ {Max(s)}
          BY <3>2
        <5> QED
          BY <4>1, <5>1
      <4> HIDE DEF h
      <4>3. g[s] = IF s = {} THEN Base ELSE Op(g[s \ {Max(s)}], seq[Max(s)])
        BY <2>2, <4>1 DEF Left
      <4> QED
        BY <4>1, <4>2, <4>3
    <3> QED
      BY <3>1, <3>2
  <2>4. h = [s \in SUBSET (1 .. m) |->
               IF s = {} THEN Base ELSE Op(h[s \ {Max(s)}], seq[Max(s)])]
    <3>1. h = [s \in SUBSET (1 .. m) |-> h[s]]
      OBVIOUS
    <3> HIDE DEF h
    <3> QED
      BY <2>3, <3>1
  <2> QED
    BY <1>1, <2>4 DEF Left
<1> QED
  BY <1>2, <1>3

\* FoldLeft starts with the base and takes one element after another.
LEMMA FoldLeftSteps ==
  ASSUME NEW S, NEW seq \in Seq(S)
  PROVE  \E acc : /\ acc[0] = Base /\ FromLeft(seq) = acc[Len(seq)]
                  /\ \A k \in 1 .. Len(seq) : acc[k] = Op(acc[k - 1], seq[k])
<1> DEFINE n == Len(seq)
<1>1. n \in Nat /\ DOMAIN seq = 1 .. n
  OBVIOUS
<1>2. FromLeft(seq) = (CHOOSE g : Left(g, n, seq))[1 .. n]
  BY <1>1, Zenon DEF FromLeft, FoldLeft, MapThenFoldSet, Left
<1>3. PICK g : g = (CHOOSE f : Left(f, n, seq))
  OBVIOUS
<1> HIDE DEF n
<1>4. Left(g, n, seq) /\ FromLeft(seq) = g[1 .. n]
  BY <1>1, <1>2, <1>3, LeftExists
<1> DEFINE acc == [k \in 0 .. n |-> g[1 .. k]]
<1>5. ASSUME NEW k \in 1 .. n PROVE acc[k] = Op(acc[k - 1], seq[k])
  <2>1. 1 .. k \in SUBSET (1 .. n) /\ 1 .. k # {} /\ k \in 1 .. k
    BY <1>1
  <2>2. Max(1 .. k) = k
    <3>1. \A i \in 1 .. k : i <= k
      BY <1>1
    <3> QED
      BY <1>1, <2>1, <3>1, MaxIs
  <2>3. (1 .. k) \ {k} = 1 .. k - 1
    BY <1>1
  <2>4. g[1 .. k] = Op(g[(1 .. k) \ {Max(1 .. k)}], seq[Max(1 .. k)])
    BY <1>4, <2>1 DEF Left
  <2> QED
    BY <1>1, <2>2, <2>3, <2>4
<1>6. acc[0] = Base
  <2>1. 1 .. 0 = {} /\ {} \in SUBSET (1 .. n)
    OBVIOUS
  <2>2. g[{}] = Base
    BY <1>4, <2>1 DEF Left
  <2> QED
    BY <1>1, <2>1, <2>2
<1>7. acc[n] = g[1 .. n]
  BY <1>1
<1> HIDE DEF acc
<1> QED
  BY <1>4, <1>5, <1>6, <1>7 DEF n

\* What holds of the base, and is kept by each element, holds of what FoldLeft returns;
\* I[k] is the set of what may be there after k elements.
LEMMA FoldLeftHolds ==
  ASSUME NEW S, NEW seq \in Seq(S), NEW I, Base \in I[0],
         \A k \in 1 .. Len(seq) : \A a \in I[k - 1] : Op(a, seq[k]) \in I[k]
  PROVE  FromLeft(seq) \in I[Len(seq)]
<1>1. PICK acc : /\ acc[0] = Base /\ FromLeft(seq) = acc[Len(seq)]
                 /\ \A k \in 1 .. Len(seq) : acc[k] = Op(acc[k - 1], seq[k])
  BY FoldLeftSteps
<1> DEFINE Bad == {k \in 0 .. Len(seq) : acc[k] \notin I[k]}
<1>2. Len(seq) \in Nat /\ Bad \in SUBSET Nat
  OBVIOUS
<1>3. ASSUME Bad # {} PROVE FALSE
  <2>1. PICK m \in Bad : \A k \in Bad : m <= k
    BY <1>2, <1>3, LeastNatural
  <2>2. m \in 1 .. Len(seq) /\ m - 1 \in 0 .. Len(seq) /\ m - 1 \notin Bad
    BY <1>1, <1>2, <2>1
  <2> QED
    BY <1>1, <2>1, <2>2
<1> QED
  BY <1>1, <1>2, <1>3

-----------------------------------------------------------------------------
\* What the recursion of FoldRight has to satisfy, on the last k of n positions.
Right(g, k, n, seq) ==
  g = [s \in SUBSET (n - k + 1 .. n) |->
         IF s = {} THEN Base ELSE Op(seq[Min(s)], g[s \ {Min(s)}])]

LEMMA RightExists ==
  ASSUME NEW seq, NEW n \in Nat PROVE \E g : Right(g, n, n, seq)
<1> DEFINE Bad == {k \in 0 .. n : ~\E g : Right(g, k, n, seq)}
<1> SUFFICES ASSUME Bad # {} PROVE FALSE
  <2>1. n \in 0 .. n
    OBVIOUS
  <2> QED
    BY <2>1
<1>0. Bad \in SUBSET Nat
  OBVIOUS
<1>1. PICK m \in Bad : \A k \in Bad : m <= k
  BY <1>0, LeastNatural
<1> DEFINE Rest(k) == n - k + 1 .. n
<1>2. CASE m = 0
  <2> DEFINE h == [s \in SUBSET Rest(0) |-> Base]
  <2>1. \A s \in SUBSET Rest(0) : s = {}
    OBVIOUS
  <2>2. h = [s \in SUBSET Rest(0) |-> IF s = {} THEN Base ELSE Op(seq[Min(s)], h[s \ {Min(s)}])]
    BY <2>1
  <2> QED
    BY <1>1, <1>2, <2>2 DEF Right
<1>3. CASE m # 0
  <2>1. m \in 1 .. n /\ m - 1 \in 0 .. n /\ m - 1 \notin Bad
    BY <1>1, <1>3
  <2>2. PICK g : Right(g, m - 1, n, seq)
    BY <2>1
  <2> DEFINE i == n - m + 1
  <2>3. i \in 1 .. n /\ Rest(m) = i .. n /\ Rest(m - 1) = i + 1 .. n
    BY <2>1
  <2> HIDE DEF i, Rest
  <2> DEFINE h == [s \in SUBSET (i .. n) |-> IF i \in s THEN Op(seq[i], g[s \ {i}]) ELSE g[s]]
  <2>4. g = [s \in SUBSET (i + 1 .. n) |->
               IF s = {} THEN Base ELSE Op(seq[Min(s)], g[s \ {Min(s)}])]
    BY <2>2, <2>3 DEF Right, Rest
  <2>5. ASSUME NEW s \in SUBSET (i .. n)
        PROVE  h[s] = IF s = {} THEN Base ELSE Op(seq[Min(s)], h[s \ {Min(s)}])
    <3>0. s \in SUBSET (1 .. n) /\ \A k \in s : k \in Nat /\ i <= k
      BY <2>3
    <3>1. CASE i \in s
      <4>1. Min(s) = i
        BY <3>0, <3>1, MinIs
      <4>2. s \ {i} \in SUBSET (i .. n) /\ i \notin s \ {i}
        OBVIOUS
      <4>3. h[s \ {i}] = g[s \ {i}] /\ h[s] = Op(seq[i], g[s \ {i}])
        BY <3>1, <4>2
      <4> HIDE DEF h
      <4> QED
        BY <3>1, <4>1, <4>3
    <3>2. CASE i \notin s
      <4>1. s \in SUBSET (i + 1 .. n) /\ h[s] = g[s]
        BY <2>3, <3>0, <3>2
      <4>2. s # {} => /\ s \ {Min(s)} \in SUBSET (i + 1 .. n)
                      /\ h[s \ {Min(s)}] = g[s \ {Min(s)}]
        <5>1. s \ {Min(s)} \in SUBSET (i .. n) /\ i \notin s \ {Min(s)}
          BY <3>2
        <5> QED
          BY <4>1, <5>1
      <4> HIDE DEF h
      <4>3. g[s] = IF s = {} THEN Base ELSE Op(seq[Min(s)], g[s \ {Min(s)}])
        BY <2>4, <4>1
      <4> QED
        BY <4>1, <4>2, <4>3
    <3> QED
      BY <3>1, <3>2
  <2>6. h = [s \in SUBSET (i .. n) |->
               IF s = {} THEN Base ELSE Op(seq[Min(s)], h[s \ {Min(s)}])]
    <3>1. h = [s \in SUBSET (i .. n) |-> h[s]]
      OBVIOUS
    <3> HIDE DEF h
    <3> QED
      BY <2>5, <3>1
  <2>7. Right(h, m, n, seq)
    <3> HIDE DEF h
    <3> QED
      BY <2>3, <2>6 DEF Right, Rest
  <2> QED
    BY <1>1, <2>7
<1> QED
  BY <1>2, <1>3

\* FoldRight starts with the base and takes one element after another, the last first.
LEMMA FoldRightSteps ==
  ASSUME NEW S, NEW seq \in Seq(S)
  PROVE  \E acc : /\ acc[0] = Base /\ FromRight(seq) = acc[Len(seq)]
                  /\ \A k \in 1 .. Len(seq) : acc[k] = Op(seq[Len(seq) - k + 1], acc[k - 1])
<1> DEFINE n == Len(seq)
<1>1. n \in Nat /\ DOMAIN seq = 1 .. n
  OBVIOUS
<1> DEFINE Whole(g) == g = [s \in SUBSET DOMAIN seq |->
                              IF s = {} THEN Base ELSE Op(seq[Min(s)], g[s \ {Min(s)}])]
<1>2. FromRight(seq) = (CHOOSE g : Whole(g))[1 .. n]
  BY <1>1, Zenon DEF FromRight, FoldRight, MapThenFoldSet
<1>3. PICK f : Right(f, n, n, seq)
  BY <1>1, RightExists
<1>4. n - n + 1 = 1
  BY <1>1
<1>5. Whole(f)
  BY <1>1, <1>3, <1>4 DEF Right
<1>6. PICK g : g = (CHOOSE x : Whole(x))
  OBVIOUS
<1>7. Whole(g)
  <2> HIDE DEF Whole
  <2> QED
    BY <1>5, <1>6
<1> HIDE DEF n
<1>8. /\ g = [s \in SUBSET (1 .. n) |-> IF s = {} THEN Base ELSE Op(seq[Min(s)], g[s \ {Min(s)}])]
      /\ FromRight(seq) = g[1 .. n]
  BY <1>1, <1>2, <1>6, <1>7
<1> DEFINE acc == [k \in 0 .. n |-> g[n - k + 1 .. n]]
<1>9. ASSUME NEW k \in 1 .. n PROVE acc[k] = Op(seq[n - k + 1], acc[k - 1])
  <2> DEFINE i == n - k + 1
  <2>0. i \in 1 .. n
    BY <1>1
  <2>1. i \in 1 .. n /\ i .. n \in SUBSET (1 .. n) /\ i .. n # {} /\ i \in i .. n
    <3> HIDE DEF i
    <3>1. n \in Nat /\ i \in Nat /\ 1 <= i /\ i <= n
      BY <1>1, <2>0
    <3>2. i .. n \subseteq 1 .. n
      BY <3>1
    <3>3. i \in i .. n
      BY <3>1
    <3> QED
      BY <2>0, <3>2, <3>3
  <2>2. Min(i .. n) = i
    <3> HIDE DEF i
    <3>1. \A j \in i .. n : i <= j
      BY <1>1, <2>0
    <3> QED
      BY <1>1, <2>1, <3>1, MinIs
  <2>3. (i .. n) \ {i} = n - (k - 1) + 1 .. n /\ k - 1 \in 0 .. n
    BY <1>1, <2>1
  <2> HIDE DEF i
  <2>4. g[i .. n] = Op(seq[Min(i .. n)], g[(i .. n) \ {Min(i .. n)}])
    BY <1>8, <2>1
  <2>5. acc[k] = g[i .. n] /\ acc[k - 1] = g[n - (k - 1) + 1 .. n]
    BY <1>1, <2>3 DEF i
  <2> HIDE DEF acc
  <2> QED
    BY <2>2, <2>3, <2>4, <2>5 DEF i
<1>10. acc[0] = Base
  <2>1. n - 0 + 1 .. n = {} /\ {} \in SUBSET (1 .. n) /\ 0 \in 0 .. n
    BY <1>1
  <2>2. g[{}] = Base
    BY <1>8, <2>1
  <2> QED
    BY <2>1, <2>2
<1>11. acc[n] = g[1 .. n]
  <2>1. n - n + 1 = 1 /\ n \in 0 .. n
    BY <1>1
  <2> QED
    BY <2>1
<1> HIDE DEF acc
<1> QED
  BY <1>8, <1>9, <1>10, <1>11 DEF n

\* What holds of the base, and is kept by each element, holds of what FoldRight returns.
LEMMA FoldRightHolds ==
  ASSUME NEW S, NEW seq \in Seq(S), NEW I, Base \in I[0],
         \A k \in 1 .. Len(seq) : \A a \in I[k - 1] : Op(seq[Len(seq) - k + 1], a) \in I[k]
  PROVE  FromRight(seq) \in I[Len(seq)]
<1>1. PICK acc : /\ acc[0] = Base /\ FromRight(seq) = acc[Len(seq)]
                 /\ \A k \in 1 .. Len(seq) : acc[k] = Op(seq[Len(seq) - k + 1], acc[k - 1])
  BY FoldRightSteps
<1> DEFINE Bad == {k \in 0 .. Len(seq) : acc[k] \notin I[k]}
<1>2. Len(seq) \in Nat /\ Bad \in SUBSET Nat
  OBVIOUS
<1>3. ASSUME Bad # {} PROVE FALSE
  <2>1. PICK m \in Bad : \A k \in Bad : m <= k
    BY <1>2, <1>3, LeastNatural
  <2>2. m \in 1 .. Len(seq) /\ m - 1 \in 0 .. Len(seq) /\ m - 1 \notin Bad
    BY <1>1, <1>2, <2>1
  <2> QED
    BY <1>1, <2>1, <2>2
<1> QED
  BY <1>1, <1>2, <1>3
=============================================================================
