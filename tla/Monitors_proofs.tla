-------------------------- MODULE Monitors_proofs --------------------------
(***************************************************************************)
(* Proofs about Monitors, for every window, limit and number of events:    *)
(* what each summary keeps is told by the whole history (RunawayInv and    *)
(* its kin), and from that, that it answers as the whole history would     *)
(* (RunawayAnswers and its kin).                                           *)
(***************************************************************************)
EXTENDS Monitors, FiniteSetTheorems, SequenceTheorems, WellFoundedInduction, TLAPS

-----------------------------------------------------------------------------
(* Induction over the naturals, for sets. *)
LEMMA Least ==
  ASSUME NEW T \in SUBSET Nat, T # {}
  PROVE  \E x \in T : \A y \in T : x <= y
<1>1. \E x \in T : \A y \in T : ~(<<y, x>> \in OpToRel(<, Nat))
  BY NatLessThanWellFounded, WFMin
<1>2. PICK x \in T : \A y \in T : ~(<<y, x>> \in OpToRel(<, Nat))
  BY <1>1
<1>3. \A y \in T : x <= y
  <2>1. \A y \in T : ~(y < x)
    BY <1>2 DEF OpToRel
  <2> QED BY <2>1
<1> QED BY <1>3

LEMMA Induct ==
  ASSUME NEW T \in SUBSET Nat, 0 \in T, \A n \in T : n + 1 \in T
  PROVE  T = Nat
<1> SUFFICES ASSUME T # Nat PROVE FALSE
  OBVIOUS
<1>1. Nat \ T # {}
  OBVIOUS
<1>2. PICK x \in Nat \ T : \A y \in Nat \ T : x <= y
  BY <1>1, Least
<1>3. x # 0
  BY <1>2
<1>4. x - 1 \in T
  BY <1>2, <1>3
<1> QED BY <1>2, <1>4

-----------------------------------------------------------------------------
(* A loop over 1..n, with its steps given as functions, and two loops that *)
(* do the same.                                                            *)
Loops(f, S, c, n, step) == f \in [0..n -> S] /\ f[0] = c /\ \A i \in 1..n : f[i] = step[i][f[i - 1]]

LEMMA LoopExists ==
  ASSUME NEW S, NEW c \in S, NEW n \in Nat, NEW step \in [1..n -> [S -> S]]
  PROVE  \E f : Loops(f, S, c, n, step)
<1> USE DEF Loops
<1> DEFINE Upto(f, k) == f \in [0..k -> S] /\ f[0] = c /\ \A i \in 1..k : f[i] = step[i][f[i - 1]]
           T == {k \in Nat : k <= n => \E f : Upto(f, k)}
<1>1. 0 \in T
  <2>1. Upto([i \in 0..0 |-> c], 0)
    OBVIOUS
  <2> QED
    BY <2>1
<1>2. ASSUME NEW k \in T PROVE k + 1 \in T
  <2>10. k \in Nat /\ k + 1 \in Nat
    OBVIOUS
  <2> SUFFICES ASSUME k + 1 <= n PROVE \E f : Upto(f, k + 1)
    BY <2>10
  <2>1. k \in Nat /\ k <= n /\ k + 1 \in 1..n
    OBVIOUS
  <2>2. PICK f : Upto(f, k)
    BY <1>2, <2>1
  <2>3. f \in [0..k -> S] /\ f[0] = c /\ \A i \in 1..k : f[i] = step[i][f[i - 1]]
    BY <2>2
  <2> DEFINE v == step[k + 1][f[k]]
             g == [i \in 0..(k + 1) |-> IF i <= k THEN f[i] ELSE v]
  <2>4. f[k] \in S /\ v \in S
    BY <2>1, <2>3
  <2> HIDE DEF v
  <2>5. g \in [0..(k + 1) -> S]
    BY <2>1, <2>3, <2>4
  <2>6. \A i \in 0..k : g[i] = f[i]
    BY <2>1
  <2>7. g[k + 1] = v
    BY <2>1
  <2> HIDE DEF g
  <2>8. g[0] = c
    BY <2>1, <2>3, <2>6
  <2>9. ASSUME NEW i \in 1..(k + 1) PROVE g[i] = step[i][g[i - 1]]
    <3>1. CASE i <= k
      <4>1. i \in 1..k /\ i \in 0..k /\ i - 1 \in 0..k
        BY <2>1, <3>1
      <4> QED
        BY <2>3, <2>6, <4>1
    <3>2. CASE i = k + 1
      <4>1. k \in 0..k /\ (k + 1) - 1 = k
        BY <2>1
      <4> QED
        BY <2>6, <2>7, <3>2, <4>1 DEF v
    <3> QED
      BY <2>1, <3>1, <3>2
  <2> QED
    BY <2>5, <2>8, <2>9
<1>3. T = Nat
  <2>1. T \in SUBSET Nat
    OBVIOUS
  <2> HIDE DEF T
  <2> QED
    BY <1>1, <1>2, <2>1, Induct
<1>4. n \in T
  BY <1>3
<1> QED
  BY <1>4

SameSteps(f, g, n) == \A i \in 1..n : g[i - 1] = f[i - 1] => g[i] = f[i]

LEMMA SameLoop ==
  ASSUME NEW f, NEW g, NEW n \in Nat, f[0] = g[0], SameSteps(f, g, n)
  PROVE  \A i \in 0..n : g[i] = f[i]
<1> USE DEF SameSteps
<1> DEFINE T == {k \in Nat : k <= n => g[k] = f[k]}
<1>1. 0 \in T
  OBVIOUS
<1>2. ASSUME NEW k \in T PROVE k + 1 \in T
  <2> SUFFICES ASSUME k + 1 <= n PROVE g[k + 1] = f[k + 1]
    OBVIOUS
  <2>1. k + 1 \in 1..n /\ (k + 1) - 1 = k /\ g[k] = f[k]
    BY <1>2
  <2> QED
    BY <2>1
<1>3. T = Nat
  <2>1. T \in SUBSET Nat
    OBVIOUS
  <2> HIDE DEF T
  <2> QED
    BY <1>1, <1>2, <2>1, Induct
<1> QED
  BY <1>3

-----------------------------------------------------------------------------
(* Sums, and what is left of a sequence. *)
Sums(f, s) == f \in [0..Len(s) -> Int] /\ f[0] = 0 /\ \A i \in 1..Len(s) : f[i] = f[i - 1] + s[i]

LEMMA SumIs ==
  ASSUME NEW s \in Seq(Int)
  PROVE  \E f : Sums(f, s) /\ SumOf(s) = f[Len(s)]
<1> DEFINE n == Len(s)
           add(i, a) == a + s[i]
           step == [i \in 1..n |-> [a \in Int |-> add(i, a)]]
           Is(g) == g = [i \in 0..n |-> IF i = 0 THEN 0 ELSE g[i - 1] + s[i]]
<1>1. n \in Nat /\ 0 \in Int
  OBVIOUS
<1>2. \A i \in 1..n, a \in Int : add(i, a) \in Int
  OBVIOUS
<1>3. \A i \in 1..n, a \in Int : step[i][a] = a + s[i]
  OBVIOUS
<1>3a. step \in [1..n -> [Int -> Int]]
  BY <1>2
<1> HIDE DEF step, n
<1>4. PICK f \in [0..n -> Int] : f[0] = 0 /\ \A i \in 1..n : f[i] = step[i][f[i - 1]]
  <2>1. \E f : Loops(f, Int, 0, n, step)
    BY <1>1, <1>3a, LoopExists
  <2> QED
    BY <2>1 DEF Loops
<1>5. \A i \in 1..n : f[i] = f[i - 1] + s[i]
  <2> TAKE i \in 1..n
  <2>1. f[i - 1] \in Int
    BY <1>1, <1>4
  <2> QED
    BY <1>3, <1>4, <2>1
<1>6. Is(f)
  <2>1. \A i \in 0..n : f[i] = IF i = 0 THEN 0 ELSE f[i - 1] + s[i]
    <3> TAKE i \in 0..n
    <3>1. CASE i = 0
      BY <1>4, <3>1
    <3>2. CASE i # 0
      <4>1. i \in 1..n
        BY <1>1, <3>2
      <4> QED
        BY <1>5, <3>2, <4>1
    <3> QED
      BY <3>1, <3>2
  <2> QED
    BY <1>4, <2>1
<1>7. ASSUME NEW g, Is(g) PROVE g[n] = f[n]
  <2>1. g[0] = f[0]
    BY <1>1, <1>4, <1>7
  <2>2. ASSUME NEW i \in 1..n, g[i - 1] = f[i - 1] PROVE g[i] = f[i]
    <3>1. i \in 0..n /\ i # 0
      BY <1>1
    <3>2. g[i] = g[i - 1] + s[i]
      BY <1>7, <3>1
    <3> QED
      BY <1>5, <2>2, <3>2
  <2>3. \A i \in 0..n : g[i] = f[i]
    BY <1>1, <2>1, <2>2, SameLoop DEF SameSteps
  <2> QED
    BY <1>1, <2>3
<1>8. SumOf(s) = f[n]
  <2>1. SumOf(s) = (CHOOSE g : Is(g))[n]
    BY Zenon DEF SumOf, n
  <2>2. Is(CHOOSE g : Is(g))
    BY <1>6, Zenon
  <2> HIDE DEF Is
  <2> QED
    BY <1>7, <2>1, <2>2
<1> QED
  BY <1>4, <1>5, <1>8 DEF Sums, n

LEMMA SumOfEmpty == SumOf(<< >>) = 0
<1>1. << >> \in Seq(Int) /\ Len(<< >>) = 0
  OBVIOUS
<1> QED
  BY <1>1, SumIs DEF Sums

LEMMA SumOfAppend ==
  ASSUME NEW s \in Seq(Int), NEW x \in Int
  PROVE  SumOf(s) \in Int /\ SumOf(Append(s, x)) = SumOf(s) + x
<1> DEFINE t == Append(s, x)
<1>1. t \in Seq(Int) /\ Len(t) = Len(s) + 1 /\ t[Len(s) + 1] = x /\ \A i \in 1..Len(s) : t[i] = s[i]
  OBVIOUS
<1> HIDE DEF t
<1>2. PICK f : Sums(f, s) /\ SumOf(s) = f[Len(s)]
  BY SumIs
<1>3. PICK g : Sums(g, t) /\ SumOf(t) = g[Len(t)]
  BY <1>1, SumIs
<1>4. Len(s) \in Nat /\ f[0] = g[0]
  BY <1>2, <1>3 DEF Sums
<1>5. SameSteps(f, g, Len(s))
  <2>1. ASSUME NEW i \in 1..Len(s), g[i - 1] = f[i - 1] PROVE g[i] = f[i]
    <3>1. i \in 1..Len(t)
      BY <1>1, <1>4
    <3> QED
      BY <1>1, <1>2, <1>3, <2>1, <3>1 DEF Sums
  <2> QED
    BY <2>1 DEF SameSteps
<1>6. g[Len(s)] = f[Len(s)]
  <2>1. \A i \in 0..Len(s) : g[i] = f[i]
    BY <1>4, <1>5, SameLoop
  <2> QED
    BY <1>4, <2>1
<1>7. g[Len(s) + 1] = g[Len(s)] + x
  <2>1. Len(s) + 1 \in 1..Len(t) /\ (Len(s) + 1) - 1 = Len(s)
    BY <1>1, <1>4
  <2> QED
    BY <1>1, <1>3, <2>1 DEF Sums
<1>8. SumOf(t) = SumOf(s) + x
  BY <1>1, <1>2, <1>3, <1>6, <1>7
<1>9. SumOf(s) \in Int
  BY <1>2, <1>4 DEF Sums
<1> QED
  BY <1>8, <1>9 DEF t

(* Induction over sequences. *)
LEMMA SeqInduct ==
  ASSUME NEW X, NEW T \in SUBSET Seq(X), << >> \in T, \A s \in T : \A x \in X : Append(s, x) \in T
  PROVE  T = Seq(X)
<1> DEFINE N == {n \in Nat : \A s \in Seq(X) : Len(s) = n => s \in T}
<1>1. 0 \in N
  <2>1. \A s \in Seq(X) : Len(s) = 0 => s = << >>
    BY EmptySeq
  <2> QED
    BY <2>1
<1>2. \A n \in N : n + 1 \in N
  <2>1. ASSUME NEW n \in Nat, \A s \in Seq(X) : Len(s) = n => s \in T, NEW s \in Seq(X), Len(s) = n + 1
        PROVE  s \in T
    <3> HIDE DEF N
    <3> DEFINE t == SubSeq(s, 1, n)
               x == s[n + 1]
    <3>1. t \in Seq(X) /\ Len(t) = n /\ \A i \in 1..n : t[i] = s[i]
      BY <2>1
    <3>2. x \in X
      BY <2>1
    <3>2a. x = s[n + 1]
      OBVIOUS
    <3> HIDE DEF t, x
    <3>3. Append(t, x) = s
      <4>1. Append(t, x) \in Seq(X) /\ Len(Append(t, x)) = n + 1
        BY <3>1, <3>2, AppendProperties
      <4>2. \A i \in 1..(n + 1) : Append(t, x)[i] = s[i]
        <5>1. Append(t, x)[n + 1] = x /\ \A i \in 1..n : Append(t, x)[i] = t[i]
          BY <3>1, <3>2, AppendProperties
        <5>2. \A i \in 1..(n + 1) : i \in 1..n \/ i = n + 1
          BY <2>1
        <5> QED
          BY <3>1, <3>2a, <5>1, <5>2
      <4> QED
        BY <2>1, <4>1, <4>2, SeqEqual
    <3>4. t \in T
      BY <2>1, <3>1
    <3> QED
      BY <3>2, <3>3, <3>4
  <2> TAKE n \in N
  <2>2. n \in Nat /\ n + 1 \in Nat /\ \A s \in Seq(X) : Len(s) = n => s \in T
    OBVIOUS
  <2>3. \A s \in Seq(X) : Len(s) = n + 1 => s \in T
    BY <2>1, <2>2
  <2> QED
    BY <2>2, <2>3
<1>3. N = Nat
  <2>1. N \in SUBSET Nat
    OBVIOUS
  <2> HIDE DEF N
  <2> QED
    BY <1>1, <1>2, <2>1, Induct
<1>4. \A s \in Seq(X) : s \in T
  <2> TAKE s \in Seq(X)
  <2>1. Len(s) \in N
    BY <1>3
  <2> QED
    BY <2>1
<1> QED
  BY <1>4

-----------------------------------------------------------------------------
Pick(s, K, i, a) == IF i \in K THEN Append(a, s[i]) ELSE a
Picks(f, s, K) == f[0] = << >> /\ \A i \in 1..Len(s) : f[i] = Pick(s, K, i, f[i - 1])

LEMMA OnlyIs ==
  ASSUME NEW X, NEW s \in Seq(X), NEW K
  PROVE  \E f : f \in [0..Len(s) -> Seq(X)] /\ Picks(f, s, K) /\ Only(s, K) = f[Len(s)]
<1> DEFINE n == Len(s)
           S == Seq(X)
           step == [i \in 1..n |-> [a \in S |-> Pick(s, K, i, a)]]
           Is(g) == g = [i \in 0..n |-> IF i = 0 THEN << >> ELSE Pick(s, K, i, g[i - 1])]
           e == << >>
<1>1. n \in Nat /\ e \in S
  OBVIOUS
<1>2. \A i \in 1..n, a \in S : Pick(s, K, i, a) \in S
  BY DEF Pick
<1>3. \A i \in 1..n, a \in S : step[i][a] = Pick(s, K, i, a)
  OBVIOUS
<1>3a. step \in [1..n -> [S -> S]]
  BY <1>2
<1> HIDE DEF step, n, S, e
<1>4. PICK f \in [0..n -> S] : f[0] = e /\ \A i \in 1..n : f[i] = step[i][f[i - 1]]
  <2>1. \E f : Loops(f, S, e, n, step)
    BY <1>1, <1>3a, LoopExists
  <2> QED
    BY <2>1 DEF Loops
<1>5. \A i \in 1..n : f[i] = Pick(s, K, i, f[i - 1])
  <2> TAKE i \in 1..n
  <2>1. f[i - 1] \in S
    BY <1>1, <1>4
  <2> QED
    BY <1>3, <1>4, <2>1
<1>6. Is(f)
  <2>1. \A i \in 0..n : f[i] = IF i = 0 THEN << >> ELSE Pick(s, K, i, f[i - 1])
    <3> TAKE i \in 0..n
    <3>1. CASE i = 0
      BY <1>4, <3>1 DEF e
    <3>2. CASE i # 0
      <4>1. i \in 1..n
        BY <1>1, <3>2
      <4> QED
        BY <1>5, <3>2, <4>1
    <3> QED
      BY <3>1, <3>2
  <2> QED
    BY <1>4, <2>1
<1>7. ASSUME NEW g, Is(g) PROVE g[n] = f[n]
  <2>1. g[0] = f[0]
    BY <1>1, <1>4, <1>7 DEF e
  <2>2. ASSUME NEW i \in 1..n, g[i - 1] = f[i - 1] PROVE g[i] = f[i]
    <3>1. i \in 0..n /\ i # 0
      BY <1>1
    <3>2. g[i] = Pick(s, K, i, g[i - 1])
      BY <1>7, <3>1
    <3> QED
      BY <1>5, <2>2, <3>2
  <2>3. \A i \in 0..n : g[i] = f[i]
    BY <1>1, <2>1, <2>2, SameLoop DEF SameSteps
  <2> QED
    BY <1>1, <2>3
<1>8. Only(s, K) = f[n]
  <2>1. Only(s, K) = (CHOOSE g : Is(g))[n]
    BY Zenon DEF Only, Pick, n
  <2>2. Is(CHOOSE g : Is(g))
    BY <1>6, Zenon
  <2> HIDE DEF Is
  <2> QED
    BY <1>7, <2>1, <2>2
<1> QED
  BY <1>4, <1>5, <1>8 DEF Picks, n, S, e

LEMMA OnlyEmpty == \A K : Only(<< >>, K) = << >>
<1> TAKE K
<1>1. << >> \in Seq({}) /\ Len(<< >>) = 0
  OBVIOUS
<1>2. PICK f : Picks(f, << >>, K) /\ Only(<< >>, K) = f[Len(<< >>)]
  BY <1>1, OnlyIs
<1> QED
  BY <1>1, <1>2 DEF Picks

LEMMA OnlyType ==
  ASSUME NEW X, NEW s \in Seq(X), NEW K
  PROVE  Only(s, K) \in Seq(X)
<1>1. PICK f : f \in [0..Len(s) -> Seq(X)] /\ Only(s, K) = f[Len(s)]
  BY OnlyIs
<1>2. Len(s) \in 0..Len(s)
  OBVIOUS
<1> QED
  BY <1>1, <1>2

(* Two picks that agree as far as one of them goes. *)
SamePick(s, K, t, L) == \A i \in 1..Len(s) : s[i] = t[i] /\ (i \in K <=> i \in L)

LEMMA PicksAgree ==
  ASSUME NEW X, NEW s \in Seq(X), NEW t \in Seq(X), Len(s) <= Len(t), NEW K, NEW L,
         SamePick(s, K, t, L), NEW f, NEW g, Picks(f, s, K), Picks(g, t, L)
  PROVE  g[Len(s)] = f[Len(s)]
<1>1. Len(s) \in Nat /\ Len(t) \in Nat
  OBVIOUS
<1>2. SameSteps(f, g, Len(s))
  <2>1. ASSUME NEW i \in 1..Len(s), g[i - 1] = f[i - 1] PROVE g[i] = f[i]
    <3>1. i \in 1..Len(t)
      BY <1>1
    <3>2. Pick(t, L, i, f[i - 1]) = Pick(s, K, i, f[i - 1])
      BY DEF Pick, SamePick
    <3>3. g[i] = Pick(t, L, i, g[i - 1])
      BY <3>1 DEF Picks
    <3> QED
      BY <2>1, <3>2, <3>3 DEF Picks
  <2> QED
    BY <2>1 DEF SameSteps
<1>3. f[0] = g[0]
  BY DEF Picks
<1>4. \A i \in 0..Len(s) : g[i] = f[i]
  BY <1>1, <1>2, <1>3, SameLoop
<1> QED
  BY <1>1, <1>4

LEMMA OnlySame ==
  ASSUME NEW X, NEW s \in Seq(X), NEW K, NEW L, \A i \in 1..Len(s) : i \in K <=> i \in L
  PROVE  Only(s, K) = Only(s, L)
<1>1. PICK f : Picks(f, s, K) /\ Only(s, K) = f[Len(s)]
  BY OnlyIs
<1>2. PICK g : Picks(g, s, L) /\ Only(s, L) = g[Len(s)]
  BY OnlyIs
<1>3. SamePick(s, K, s, L) /\ Len(s) <= Len(s)
  BY DEF SamePick
<1> QED
  BY <1>1, <1>2, <1>3, PicksAgree

LEMMA OnlyAppend ==
  ASSUME NEW X, NEW s \in Seq(X), NEW x \in X, NEW K
  PROVE  Only(Append(s, x), K) = IF Len(s) + 1 \in K THEN Append(Only(s, K), x) ELSE Only(s, K)
<1> DEFINE t == Append(s, x)
           n == Len(s) + 1
<1>1. /\ t \in Seq(X) /\ Len(t) = n /\ t[n] = x /\ Len(s) \in Nat /\ n \in Nat
      /\ \A i \in 1..Len(s) : t[i] = s[i]
  BY AppendProperties
<1>1a. n = Len(s) + 1
  OBVIOUS
<1> HIDE DEF t, n
<1>2. PICK f : Picks(f, s, K) /\ Only(s, K) = f[Len(s)]
  BY OnlyIs
<1>3. PICK g : Picks(g, t, K) /\ Only(t, K) = g[Len(t)]
  BY <1>1, OnlyIs
<1>4. SamePick(s, K, t, K) /\ Len(s) <= Len(t)
  BY <1>1, <1>1a DEF SamePick
<1>5. g[Len(s)] = f[Len(s)]
  BY <1>1, <1>2, <1>3, <1>4, PicksAgree
<1>6. n \in 1..Len(t) /\ n - 1 = Len(s)
  BY <1>1, <1>1a
<1>7. g[n] = Pick(t, K, n, f[Len(s)])
  BY <1>3, <1>5, <1>6 DEF Picks
<1> QED
  BY <1>1, <1>1a, <1>2, <1>3, <1>7 DEF Pick, t

LEMMA OnlyCount ==
  ASSUME NEW X, NEW s \in Seq(X), NEW K
  PROVE  /\ IsFiniteSet(K \cap 1..Len(s))
         /\ Len(Only(s, K)) = Cardinality(K \cap 1..Len(s))
<1> DEFINE T == {u \in Seq(X) : /\ IsFiniteSet(K \cap 1..Len(u))
                                /\ Len(Only(u, K)) = Cardinality(K \cap 1..Len(u))}
<1>1. << >> \in T
  <2>1. K \cap 1..Len(<< >>) = {}
    OBVIOUS
  <2> QED
    BY <2>1, OnlyEmpty, FS_EmptySet
<1>2. ASSUME NEW u \in T, NEW x \in X PROVE Append(u, x) \in T
  <2> DEFINE v == Append(u, x)
             n == Len(u)
             C == K \cap 1..n
  <2>1. u \in Seq(X) /\ v \in Seq(X) /\ Len(v) = n + 1 /\ n \in Nat
    BY AppendProperties
  <2>2. IsFiniteSet(C) /\ Len(Only(u, K)) = Cardinality(C)
    BY <1>2
  <2>3. Only(u, K) \in Seq(X)
    BY <2>1, OnlyType
  <2> HIDE DEF T
  <2>4. CASE n + 1 \in K
    <3>1. Only(v, K) = Append(Only(u, K), x)
      BY <2>1, <2>4, OnlyAppend
    <3>2. Len(Only(v, K)) = Len(Only(u, K)) + 1
      BY <2>3, <3>1, AppendProperties
    <3>3. K \cap 1..(n + 1) = C \cup {n + 1}
      BY <2>1, <2>4
    <3>4. n + 1 \notin C
      BY <2>1
    <3>5. IsFiniteSet(C \cup {n + 1}) /\ Cardinality(C \cup {n + 1}) = Cardinality(C) + 1
      BY <2>2, <3>4, FS_AddElement
    <3> QED
      BY <2>1, <2>2, <3>2, <3>3, <3>5 DEF T
  <2>5. CASE n + 1 \notin K
    <3>1. Only(v, K) = Only(u, K)
      BY <2>1, <2>5, OnlyAppend
    <3>2. K \cap 1..(n + 1) = C
      BY <2>1, <2>5
    <3> QED
      BY <2>1, <2>2, <3>1, <3>2 DEF T
  <2> QED
    BY <2>4, <2>5
<1>3. T = Seq(X)
  <2>1. T \in SUBSET Seq(X)
    OBVIOUS
  <2> HIDE DEF T
  <2> QED
    BY <1>1, <1>2, <2>1, SeqInduct
<1> QED
  BY <1>3

-----------------------------------------------------------------------------
(* What is trimmed. *)
Near(e, now) == now - e.t <= Window

LEMMA TrimIs ==
  ASSUME NEW X, NEW q \in Seq(X), NEW now
  PROVE  /\ (\A k \in DOMAIN q : ~Near(q[k], now)) => Trim(q, now) = << >>
         /\ (\E k \in DOMAIN q : Near(q[k], now)) =>
              \E m \in DOMAIN q : /\ Near(q[m], now) /\ \A j \in DOMAIN q : j < m => ~Near(q[j], now)
                                  /\ Trim(q, now) = SubSeq(q, m, Len(q))
<1> DEFINE stays == {k \in DOMAIN q : Near(q[k], now)}
           First(x) == x \in stays /\ \A j \in stays : x <= j
<1>1. Trim(q, now) = IF stays = {} THEN << >> ELSE SubSeq(q, CHOOSE x \in stays : \A j \in stays : x <= j, Len(q))
  BY Zenon DEF Trim, Near
<1>2. ASSUME NEW k \in DOMAIN q, Near(q[k], now)
      PROVE  \E m \in DOMAIN q : /\ Near(q[m], now) /\ \A j \in DOMAIN q : j < m => ~Near(q[j], now)
                                 /\ Trim(q, now) = SubSeq(q, m, Len(q))
  <2>1. stays \in SUBSET Nat /\ stays # {}
    BY <1>2
  <2> DEFINE m == CHOOSE x \in stays : \A j \in stays : x <= j
  <2>2. m \in stays /\ \A j \in stays : m <= j
    <3> HIDE DEF stays
    <3>1. \E x \in stays : \A j \in stays : x <= j
      BY <2>1, Least
    <3> QED
      BY <3>1, Zenon
  <2>3. Trim(q, now) = SubSeq(q, m, Len(q))
    BY <1>1, <2>1
  <2> HIDE DEF m
  <2>4. \A j \in DOMAIN q : j < m => ~Near(q[j], now)
    BY <2>1, <2>2
  <2> QED
    BY <2>2, <2>3, <2>4
<1>3. (\A k \in DOMAIN q : ~Near(q[k], now)) => Trim(q, now) = << >>
  BY <1>1
<1> QED
  BY <1>2, <1>3

LEMMA TrimAppend ==
  ASSUME NEW X, NEW q \in Seq(X), NEW e \in X, NEW now
  PROVE  Trim(Append(q, e), now) =
           IF Near(e, now) \/ \E k \in DOMAIN q : Near(q[k], now) THEN Append(Trim(q, now), e) ELSE << >>
<1> DEFINE r == Append(q, e)
           n == Len(q)
<1>1. r \in Seq(X) /\ Len(r) = n + 1 /\ r[n + 1] = e /\ n \in Nat /\ \A k \in 1..n : r[k] = q[k]
  BY AppendProperties
<1>2. DOMAIN q = 1..n /\ DOMAIN r = 1..(n + 1)
  BY <1>1
<1>2a. r = Append(q, e)
  OBVIOUS
<1> HIDE DEF r, n
<1>3. CASE \E k \in DOMAIN q : Near(q[k], now)
  <2>1. PICK m \in DOMAIN q : /\ Near(q[m], now) /\ \A j \in DOMAIN q : j < m => ~Near(q[j], now)
                              /\ Trim(q, now) = SubSeq(q, m, Len(q))
    BY <1>3, TrimIs
  <2>2. \E k \in DOMAIN r : Near(r[k], now)
    BY <1>1, <1>2, <2>1
  <2>3. PICK l \in DOMAIN r : /\ Near(r[l], now) /\ \A j \in DOMAIN r : j < l => ~Near(r[j], now)
                              /\ Trim(r, now) = SubSeq(r, l, Len(r))
    BY <1>1, <2>2, TrimIs
  <2>4. l = m
    <3>1. m \in 1..n /\ m \in DOMAIN r /\ r[m] = q[m] /\ l \in 1..(n + 1)
      BY <1>1, <1>2, <2>1, <2>3
    <3>2. ~(m < l)
      BY <2>1, <2>3, <3>1
    <3>3. l \in 1..n
      BY <1>1, <3>1, <3>2
    <3>4. l \in DOMAIN q /\ r[l] = q[l]
      BY <1>1, <1>2, <3>3
    <3>5. ~(l < m)
      BY <2>1, <2>3, <3>4
    <3> QED
      BY <1>1, <3>1, <3>2, <3>5
  <2>5. SubSeq(r, m, n + 1) = Append(SubSeq(q, m, n), e)
    <3>1. m \in 1..n
      BY <1>2, <2>1
    <3> DEFINE u == SubSeq(r, m, n + 1)
               w == SubSeq(q, m, n)
               v == Append(w, e)
    <3>2. u \in Seq(X) /\ Len(u) = (n + 1) - m + 1 /\ \A i \in 1..((n + 1) - m + 1) : u[i] = r[m + i - 1]
      BY <1>1, <3>1
    <3>3. w \in Seq(X) /\ Len(w) = n - m + 1 /\ \A i \in 1..(n - m + 1) : w[i] = q[m + i - 1]
      BY <1>1, <3>1 DEF n
    <3> HIDE DEF w, u
    <3>4. v \in Seq(X) /\ Len(v) = Len(w) + 1 /\ v[Len(w) + 1] = e /\ \A i \in 1..Len(w) : v[i] = w[i]
      BY <3>3, AppendProperties
    <3> HIDE DEF v
    <3>5. Len(u) = Len(v)
      BY <1>1, <3>1, <3>2, <3>3, <3>4
    <3>5a. Len(u) = (n + 1) - m + 1 /\ Len(w) = n - m + 1 /\ m \in 1..n /\ n \in Nat
      BY <1>1, <3>1, <3>2, <3>3
    <3>6. ASSUME NEW i \in 1..Len(u) PROVE u[i] = v[i]
      <4>1. CASE i <= Len(w)
        <5>1. i \in 1..Len(w) /\ i \in 1..(n - m + 1) /\ i \in 1..((n + 1) - m + 1) /\ m + i - 1 \in 1..n
          BY <3>5a, <4>1
        <5> QED
          BY <1>1, <3>2, <3>3, <3>4, <5>1
      <4>2. CASE i > Len(w)
        <5>1. i = Len(w) + 1 /\ m + i - 1 = n + 1 /\ i \in 1..((n + 1) - m + 1)
          BY <3>5a, <4>2
        <5> QED
          BY <1>1, <3>2, <3>4, <5>1
      <4> QED
        BY <3>5a, <4>1, <4>2
    <3>7. u = v
      BY <3>2, <3>4, <3>5, <3>6, SeqEqual
    <3> QED
      BY <3>7 DEF u, v, w
  <2> QED
    BY <1>1, <1>2a, <1>3, <2>1, <2>3, <2>4, <2>5 DEF n
<1>4. CASE ~(\E k \in DOMAIN q : Near(q[k], now)) /\ Near(e, now)
  <2>1. Trim(q, now) = << >>
    BY <1>4, TrimIs
  <2>2. \E k \in DOMAIN r : Near(r[k], now)
    BY <1>1, <1>2, <1>4
  <2>3. PICK l \in DOMAIN r : /\ Near(r[l], now) /\ \A j \in DOMAIN r : j < l => ~Near(r[j], now)
                              /\ Trim(r, now) = SubSeq(r, l, Len(r))
    BY <1>1, <2>2, TrimIs
  <2>4. l = n + 1
    BY <1>1, <1>2, <1>4, <2>3
  <2>5. SubSeq(r, n + 1, n + 1) = Append(<< >>, e)
    <3> DEFINE u == SubSeq(r, n + 1, n + 1)
               v == Append(<< >>, e)
    <3>1. u \in Seq(X) /\ Len(u) = 1 /\ u[1] = r[n + 1]
      BY <1>1
    <3>2. v \in Seq(X) /\ Len(v) = 1 /\ v[1] = e
      OBVIOUS
    <3> HIDE DEF u, v
    <3>3. u = v
      BY <1>1, <3>1, <3>2, SeqEqual
    <3> QED
      BY <3>3 DEF u, v
  <2> QED
    BY <1>1, <1>2a, <1>4, <2>1, <2>3, <2>4, <2>5
<1>5. CASE ~(\E k \in DOMAIN q : Near(q[k], now)) /\ ~Near(e, now)
  <2>1. \A k \in DOMAIN r : ~Near(r[k], now)
    BY <1>1, <1>2, <1>5
  <2>2. Trim(r, now) = << >>
    BY <1>1, <2>1, TrimIs
  <2> QED
    BY <1>2a, <1>5, <2>2
<1> QED
  BY <1>3, <1>4, <1>5

LEMMA TrimNothing ==
  ASSUME NEW X, NEW q \in Seq(X), NEW now
  PROVE  /\ Trim(q, now) \in Seq(X)
         /\ Trim(q, now) = << >> <=> \A k \in DOMAIN q : ~Near(q[k], now)
<1>1. CASE \A k \in DOMAIN q : ~Near(q[k], now)
  <2>1. Trim(q, now) = << >>
    BY <1>1, TrimIs
  <2> QED
    BY <1>1, <2>1
<1>2. CASE \E k \in DOMAIN q : Near(q[k], now)
  <2>1. PICK m \in DOMAIN q : Trim(q, now) = SubSeq(q, m, Len(q))
    BY <1>2, TrimIs
  <2> DEFINE u == SubSeq(q, m, Len(q))
  <2>2. u \in Seq(X) /\ Len(u) > 0
    OBVIOUS
  <2> QED
    BY <1>2, <2>1, <2>2
<1> QED
  BY <1>1, <1>2

(* A trimmed pick is a pick of what comes after some point.               *)
Beyond(K, d) == {k \in K : k > d}
Cuts(s, K, now, d) ==
  /\ Trim(Only(s, K), now) = Only(s, Beyond(K, d))
  /\ \A k \in K : k <= Len(s) /\ k <= d => ~Near(s[k], now)
  /\ \A k \in K : k <= Len(s) /\ k > d => \E j \in K : j > d /\ j <= k /\ Near(s[j], now)

LEMMA OnlyHas ==
  ASSUME NEW X, NEW s \in Seq(X), NEW K \in SUBSET (Nat \ {0})
  PROVE  Only(s, K) = << >> <=> \A k \in K : ~(k <= Len(s))
<1> DEFINE C == K \cap 1..Len(s)
<1>1. IsFiniteSet(C) /\ Len(Only(s, K)) = Cardinality(C) /\ Only(s, K) \in Seq(X)
  BY OnlyCount, OnlyType
<1>2. C = {} <=> \A k \in K : ~(k <= Len(s))
  OBVIOUS
<1> HIDE DEF C
<1>3. C = {} <=> Cardinality(C) = 0
  BY <1>1, FS_EmptySet
<1>4. Only(s, K) = << >> <=> Len(Only(s, K)) = 0
  BY <1>1, EmptySeq
<1> QED
  BY <1>1, <1>2, <1>3, <1>4

LEMMA OnlyCut ==
  ASSUME NEW X, NEW s \in Seq(X), NEW K \in SUBSET (Nat \ {0}), NEW now
  PROVE  \E d \in Nat : Cuts(s, K, now, d)
<1> DEFINE T == {u \in Seq(X) : \E d \in Nat : Cuts(u, K, now, d)}
<1>1. << >> \in T
  <2>1. << >> \in Seq(X) /\ Len(<< >>) = 0
    OBVIOUS
  <2>2. Only(<< >>, K) = << >> /\ Only(<< >>, Beyond(K, 0)) = << >>
    BY OnlyEmpty
  <2>3. Trim(<< >>, now) = << >>
    <3>1. DOMAIN << >> = {}
      OBVIOUS
    <3>2. \A k \in DOMAIN << >> : ~Near(<< >>[k], now)
      BY <3>1
    <3> QED
      BY <2>1, <3>2, TrimIs
  <2>4. Cuts(<< >>, K, now, 0)
    BY <2>1, <2>2, <2>3 DEF Cuts
  <2> QED
    BY <2>1, <2>4
<1>2. ASSUME NEW u \in T, NEW x \in X PROVE Append(u, x) \in T
  <2> DEFINE v == Append(u, x)
             n == Len(u)
             q == Only(u, K)
  <2>1. u \in Seq(X) /\ v \in Seq(X) /\ Len(v) = n + 1 /\ n \in Nat /\ v[n + 1] = x /\ \A k \in 1..n : v[k] = u[k]
    BY AppendProperties
  <2>2. PICK d \in Nat : Cuts(u, K, now, d)
    OBVIOUS
  <2>2a. v = Append(u, x)
    OBVIOUS
  <2>3. q \in Seq(X)
    BY <2>1, OnlyType
  <2>4. Only(v, K) = IF n + 1 \in K THEN Append(q, x) ELSE q
    BY <2>1, OnlyAppend
  <2>5. \A e \in Nat : Only(v, Beyond(K, e)) = IF n + 1 \in K /\ n + 1 > e THEN Append(Only(u, Beyond(K, e)), x)
                                              ELSE Only(u, Beyond(K, e))
    <3> TAKE e \in Nat
    <3>1. n + 1 \in Beyond(K, e) <=> n + 1 \in K /\ n + 1 > e
      BY DEF Beyond
    <3> QED
      BY <2>1, <3>1, OnlyAppend
  <2> SUFFICES \E e \in Nat : Cuts(v, K, now, e)
    BY <2>1
  <2>6. \A k \in K : k \in Nat /\ k # 0 /\ (k <= n => v[k] = u[k]) /\ (k <= Len(v) <=> k <= n \/ k = n + 1)
    BY <2>1
  <2>6a. \A k \in K : k <= n => (k <= d => ~Near(v[k], now))
                                 /\ (k > d => \E j \in K : j > d /\ j <= k /\ Near(v[j], now))
    <3> TAKE k \in K
    <3> SUFFICES ASSUME k <= n PROVE /\ k <= d => ~Near(v[k], now)
                                     /\ k > d => \E j \in K : j > d /\ j <= k /\ Near(v[j], now)
      OBVIOUS
    <3>1. k <= d => ~Near(v[k], now)
      BY <2>2, <2>6 DEF Cuts
    <3>2. ASSUME k > d PROVE \E j \in K : j > d /\ j <= k /\ Near(v[j], now)
      <4>1. PICK j \in K : j > d /\ j <= k /\ Near(u[j], now)
        BY <2>2, <3>2 DEF Cuts
      <4>2. j <= n
        <5>1. j \in Nat /\ k \in Nat /\ n \in Nat /\ j <= k /\ k <= n
          BY <2>1, <2>6, <4>1
        <5> HIDE DEF n
        <5> QED
          BY <5>1
      <4> QED
        BY <2>6, <4>1, <4>2
    <3> QED
      BY <3>1, <3>2
  <2> HIDE DEF v, n, q
  <2>7. CASE n + 1 \notin K
    <3>1. Only(v, K) = q /\ Only(v, Beyond(K, d)) = Only(u, Beyond(K, d))
      BY <2>4, <2>5, <2>7
    <3>2. \A k \in K : k <= Len(v) => k <= n
      BY <2>6, <2>7
    <3>3. Cuts(v, K, now, d)
      BY <2>2, <2>6a, <3>1, <3>2 DEF Cuts, q
    <3> QED
      BY <3>3
  <2>8. CASE n + 1 \in K /\ Trim(q, now) = << >> /\ ~Near(x, now)
    <3>1. Trim(Append(q, x), now) = << >>
      <4>1. \A k \in DOMAIN q : ~Near(q[k], now)
        BY <2>3, <2>8, TrimNothing
      <4> QED
        BY <2>3, <2>8, <4>1, TrimAppend
    <3>2. \A k \in K : k <= n => k <= d
      <4>1. Beyond(K, d) \in SUBSET (Nat \ {0})
        BY DEF Beyond
      <4>2. Only(u, Beyond(K, d)) = << >>
        BY <2>2, <2>8 DEF Cuts, q
      <4>3. \A k \in Beyond(K, d) : ~(k <= n)
        BY <2>1, <4>1, <4>2, OnlyHas DEF n
      <4> QED
        BY <4>3, <2>6 DEF Beyond
    <3>3. \A k \in K : k <= Len(v) => ~Near(v[k], now)
      BY <2>1, <2>6, <2>6a, <2>8, <3>2
    <3>4. Only(v, Beyond(K, n + 1)) = << >>
      <4>1. Beyond(K, n + 1) \in SUBSET (Nat \ {0})
        BY DEF Beyond
      <4>2. \A k \in Beyond(K, n + 1) : ~(k <= Len(v))
        BY <2>1, <2>6 DEF Beyond
      <4> QED
        BY <2>1, <4>1, <4>2, OnlyHas
    <3>5. \A k \in K : k <= Len(v) => ~(k > n + 1)
      BY <2>1, <2>6
    <3>6. Cuts(v, K, now, n + 1)
      BY <2>4, <2>8, <3>1, <3>3, <3>4, <3>5 DEF Cuts
    <3> QED
      BY <2>1, <3>6
  <2>9. CASE n + 1 \in K /\ Trim(q, now) = << >> /\ Near(x, now)
    <3>1. Trim(Append(q, x), now) = Append(Trim(q, now), x)
      BY <2>3, <2>9, TrimAppend
    <3>2. \A k \in K : k <= n => k <= d
      <4>1. Beyond(K, d) \in SUBSET (Nat \ {0})
        BY DEF Beyond
      <4>2. Only(u, Beyond(K, d)) = << >>
        BY <2>2, <2>9 DEF Cuts, q
      <4>3. \A k \in Beyond(K, d) : ~(k <= n)
        BY <2>1, <4>1, <4>2, OnlyHas DEF n
      <4> QED
        BY <4>3, <2>6 DEF Beyond
    <3>3. \A k \in K : k <= n => ~Near(v[k], now)
      BY <2>6a, <3>2
    <3>4. Only(u, Beyond(K, n)) = << >>
      <4>1. Beyond(K, n) \in SUBSET (Nat \ {0})
        BY DEF Beyond
      <4>2. \A k \in Beyond(K, n) : ~(k <= n)
        BY <2>1, <2>6 DEF Beyond
      <4> QED
        BY <2>1, <4>1, <4>2, OnlyHas DEF n
    <3>5. Only(v, Beyond(K, n)) = Append(<< >>, x)
      <4>1. n \in Nat /\ n + 1 > n
        BY <2>1
      <4>2. Only(v, Beyond(K, n)) = Append(Only(u, Beyond(K, n)), x)
        BY <2>5, <2>9, <4>1
      <4> QED
        BY <3>4, <4>2
    <3>6. \A k \in K : k <= Len(v) => (k <= n => ~Near(v[k], now))
                                       /\ (k > n => \E j \in K : j > n /\ j <= k /\ Near(v[j], now))
      <4> TAKE k \in K
      <4>1. n + 1 > n /\ n + 1 <= n + 1 /\ Near(v[n + 1], now)
        BY <2>1, <2>9
      <4> QED
        BY <2>1, <2>6, <2>9, <3>3, <4>1
    <3>7. Cuts(v, K, now, n)
      BY <2>4, <2>9, <3>1, <3>5, <3>6 DEF Cuts
    <3> QED
      BY <2>1, <3>7
  <2>10. CASE n + 1 \in K /\ Trim(q, now) # << >>
    <3>1. Trim(Append(q, x), now) = Append(Trim(q, now), x)
      <4>1. \E k \in DOMAIN q : Near(q[k], now)
        BY <2>3, <2>10, TrimNothing
      <4> QED
        BY <2>3, <2>10, <4>1, TrimAppend
    <3>2. \E k \in K : k > d /\ k <= n
      <4>1. Beyond(K, d) \in SUBSET (Nat \ {0})
        BY DEF Beyond
      <4>2. Only(u, Beyond(K, d)) # << >>
        BY <2>2, <2>10 DEF Cuts, q
      <4>3. \E k \in Beyond(K, d) : k <= n
        BY <2>1, <4>1, <4>2, OnlyHas DEF n
      <4> QED
        BY <4>3 DEF Beyond
    <3>3. d < n + 1
      BY <2>1, <2>6, <3>2
    <3>4. Only(v, Beyond(K, d)) = Append(Only(u, Beyond(K, d)), x)
      BY <2>5, <2>10, <3>3
    <3>5. PICK i \in K : i > d /\ i <= n /\ Near(v[i], now)
      <4>1. PICK k \in K : k > d /\ k <= n
        BY <3>2
      <4>2. PICK j \in K : j > d /\ j <= k /\ Near(v[j], now)
        BY <2>6a, <4>1
      <4> QED
        BY <2>1, <2>6, <4>1, <4>2
    <3>6. i <= n + 1 /\ i > d /\ Near(v[i], now)
      BY <2>1, <2>6, <3>5
    <3>7. \A k \in K : k <= Len(v) => (k <= d => ~Near(v[k], now))
                                       /\ (k > d => \E j \in K : j > d /\ j <= k /\ Near(v[j], now))
      <4> TAKE k \in K
      <4>1. CASE k <= n
        BY <2>6a, <4>1
      <4>2. CASE k = n + 1
        <5>1. k > d
          BY <3>3, <4>2
        <5>2. i \in K /\ i > d /\ i <= k /\ Near(v[i], now)
          BY <3>5, <3>6, <4>2
        <5> QED
          BY <5>1, <5>2
      <4> QED
        BY <2>6, <4>1, <4>2
    <3>8. Trim(Only(v, K), now) = Only(v, Beyond(K, d))
      BY <2>2, <2>4, <2>10, <3>1, <3>4 DEF Cuts, q
    <3>9. Cuts(v, K, now, d)
      BY <3>7, <3>8 DEF Cuts
    <3> QED
      BY <3>9
  <2> QED
    BY <2>7, <2>8, <2>9, <2>10
<1>3. T = Seq(X)
  <2>1. T \in SUBSET Seq(X)
    OBVIOUS
  <2> HIDE DEF T
  <2> QED
    BY <1>1, <1>2, <2>1, SeqInduct
<1> QED
  BY <1>3

-----------------------------------------------------------------------------
(* The latest stamp. *)
LatestIn(h) ==
  LET stamps == {h[k].t : k \in DOMAIN h}
  IN IF h = << >> THEN 0 ELSE CHOOSE t \in stamps : \A u \in stamps : u <= t

LEMMA LatestIs ==
  ASSUME NEW X, \A x \in X : x.t \in Nat, NEW h \in Seq(X)
  PROVE  /\ LatestIn(h) \in Nat
         /\ \A k \in 1..Len(h) : h[k].t <= LatestIn(h)
         /\ h # << >> => \E k \in 1..Len(h) : h[k].t = LatestIn(h)
<1>1. Len(h) \in Nat /\ DOMAIN h = 1..Len(h) /\ \A k \in 1..Len(h) : h[k].t \in Nat
  OBVIOUS
<1>2. CASE h = << >>
  <2>1. LatestIn(h) = 0 /\ Len(h) = 0
    BY <1>2 DEF LatestIn
  <2> QED
    BY <1>2, <2>1
<1>3. CASE h # << >>
  <2> DEFINE Top(n) == \E m \in 1..n : \A k \in 1..n : h[k].t <= h[m].t
             T == {n \in Nat : n \in 1..Len(h) => Top(n)}
  <2>1. 0 \in T
    OBVIOUS
  <2>2. ASSUME NEW n \in T PROVE n + 1 \in T
    <3>1. n \in Nat /\ (n \in 1..Len(h) => Top(n))
      OBVIOUS
    <3> HIDE DEF T
    <3>2. ASSUME n + 1 \in 1..Len(h) PROVE Top(n + 1)
      <4>1. CASE n = 0
        <5>1. h[1].t <= h[1].t
          BY <1>1, <3>2, <4>1
        <5> QED
          BY <4>1, <5>1
      <4>2. CASE n # 0
        <5>1. PICK m \in 1..n : \A k \in 1..n : h[k].t <= h[m].t
          BY <1>1, <3>1, <3>2, <4>2
        <5>2. \A k \in 1..(n + 1) : k \in 1..n \/ k = n + 1
          BY <3>1
        <5>3. \A k \in 1..(n + 1) : h[k].t \in Nat
          BY <1>1, <3>1, <3>2
        <5>4. m \in 1..(n + 1) /\ n + 1 \in 1..(n + 1)
          BY <3>1
        <5>5. CASE h[n + 1].t <= h[m].t
          BY <5>1, <5>2, <5>4, <5>5
        <5>6. CASE h[m].t < h[n + 1].t
          <6>1. \A k \in 1..(n + 1) : h[k].t <= h[n + 1].t
            BY <5>1, <5>2, <5>3, <5>4, <5>6
          <6> QED
            BY <5>4, <6>1
        <5>7. h[n + 1].t <= h[m].t \/ h[m].t < h[n + 1].t
          BY <5>3, <5>4
        <5> HIDE DEF Top
        <5> QED
          BY <5>5, <5>6, <5>7
      <4> QED
        BY <4>1, <4>2
    <3> QED
      BY <3>1, <3>2 DEF T
  <2>3. T = Nat
    <3>1. T \in SUBSET Nat
      OBVIOUS
    <3> HIDE DEF T
    <3> QED
      BY <2>1, <2>2, <3>1, Induct
  <2>4. Len(h) # 0 /\ Len(h) \in 1..Len(h)
    BY <1>1, <1>3, EmptySeq
  <2>5. PICK m \in 1..Len(h) : \A k \in 1..Len(h) : h[k].t <= h[m].t
    <3>1. Len(h) \in T
      BY <1>1, <2>3
    <3> QED
      BY <2>4, <3>1
  <2> DEFINE S == {h[k].t : k \in DOMAIN h}
             t == CHOOSE x \in S : \A u \in S : u <= x
  <2>6. LatestIn(h) = t
    BY <1>3 DEF LatestIn
  <2>7. t \in S /\ \A u \in S : u <= t
    <3>1. h[m].t \in S /\ \A u \in S : u <= h[m].t
      BY <1>1, <2>5
    <3> HIDE DEF S
    <3> QED
      BY <3>1, Zenon
  <2> HIDE DEF t
  <2>8. PICK k \in 1..Len(h) : t = h[k].t
    BY <1>1, <2>7
  <2> QED
    BY <1>1, <2>6, <2>7, <2>8
<1> QED
  BY <1>2, <1>3

LEMMA LatestIsOf == Latest = LatestIn(seen)
  BY DEF Latest, LatestIn, Stamps

-----------------------------------------------------------------------------
(* The runaway detector: the queue holds the orders of a set, and what it  *)
(* left out is too old for a stamp that was seen.                          *)
Orderly(h) == \A j, k \in 1..Len(h) : j < k => h[j].t <= h[k].t + Jitter
RunEvents == [what : {"order", "reject", "ack"}, t : Nat]
OrdersIn(h) == {k \in 1..Len(h) : h[k].what = "order"}
RejectsIn(h) ==
  {k \in 1..Len(h) : h[k].what = "reject" /\ \A a \in 1..Len(h) : h[a].what = "ack" => a < k}
Holding(h, q, K) ==
  /\ q = Only(h, K) /\ K \subseteq OrdersIn(h)
  /\ \A k \in OrdersIn(h) \ K : \E j \in 1..Len(h) : ~Near(h[k], h[j].t)
OrderMemory(h, m) ==
  /\ m = [orders |-> m.orders, rejects |-> m.rejects]
  /\ \E K : Holding(h, m.orders, K)
  /\ m.rejects = Cardinality(RejectsIn(h)) /\ IsFiniteSet(RejectsIn(h))
Close(h, now, far) == {k \in 1..Len(h) : h[k].what = "order" /\ now - h[k].t <= far}
RunawayIs(h, r) ==
  /\ h[Len(h)].what = "order" =>
       /\ Cardinality(Close(h, LatestIn(h), Window)) > MaxOrders => r = {"orders"}
       /\ r # {} => Cardinality(Close(h, h[Len(h)].t, Window + Jitter)) > MaxOrders
  /\ h[Len(h)].what = "reject" => (r = {"rejects"} <=> Cardinality(RejectsIn(h)) >= MaxRej)
RunawayInv ==
  /\ seen \in Seq(RunEvents) /\ Orderly(seen) /\ OrderMemory(seen, memory)
  /\ seen # << >> => RunawayIs(seen, raised)

LEMMA RunawayStarts ==
  ASSUME seen = << >>, memory = Fresh("runaway")
  PROVE  RunawayInv
<1>1. memory = [orders |-> << >>, rejects |-> 0]
  BY DEF Fresh
<1>2. seen \in Seq(RunEvents) /\ Len(seen) = 0
  OBVIOUS
<1>3. RejectsIn(seen) = {} /\ OrdersIn(seen) = {}
  BY <1>2 DEF RejectsIn, OrdersIn
<1>4. Holding(seen, << >>, {})
  BY <1>2, <1>3, OnlyEmpty DEF Holding
<1>5. OrderMemory(seen, memory)
  BY <1>1, <1>3, <1>4, FS_EmptySet DEF OrderMemory
<1> QED
  BY <1>2, <1>5 DEF RunawayInv, Orderly

LEMMA RunawayEventIs ==
  ASSUME seen \in Seq(RunEvents), Orderly(seen), NEW e \in RunawayEvent
  PROVE  /\ e \in RunEvents /\ Append(seen, e) \in Seq(RunEvents)
         /\ Len(Append(seen, e)) = Len(seen) + 1
         /\ Append(seen, e)[Len(seen) + 1] = e
         /\ \A k \in 1..Len(seen) : Append(seen, e)[k] = seen[k]
         /\ Orderly(Append(seen, e))
<1>1. /\ Latest \in Nat
      /\ \A k \in 1..Len(seen) : seen[k].t <= Latest
  <2>1. \A x \in RunEvents : x.t \in Nat
    BY DEF RunEvents
  <2> QED
    BY <2>1, LatestIs, LatestIsOf
<1>2. Jitter \in Nat
  BY MonAssumption
<1>3. e \in RunEvents /\ Latest <= e.t + Jitter
  BY <1>1, <1>2 DEF RunawayEvent, RunEvents
<1> DEFINE h == Append(seen, e)
           n == Len(seen)
<1>4. /\ h \in Seq(RunEvents) /\ Len(h) = n + 1 /\ n \in Nat /\ h[n + 1] = e
      /\ \A k \in 1..n : h[k] = seen[k]
  BY <1>3, AppendProperties
<1> HIDE DEF h, n
<1>5. Orderly(h)
  <2> SUFFICES ASSUME NEW j \in 1..(n + 1), NEW k \in 1..(n + 1), j < k
               PROVE  h[j].t <= h[k].t + Jitter
    BY <1>4 DEF Orderly
  <2>1. j \in 1..n
    BY <1>4
  <2>2. CASE k \in 1..n
    BY <1>4, <2>1, <2>2 DEF Orderly, n
  <2>3. CASE k = n + 1
    <3>0. seen[j] \in RunEvents /\ j \in 1..Len(seen)
      BY <2>1 DEF n
    <3>1. seen[j].t <= Latest /\ seen[j].t \in Nat /\ e.t \in Nat
      BY <1>1, <1>3, <3>0 DEF RunEvents
    <3> QED
      BY <1>1, <1>2, <1>3, <1>4, <2>1, <2>3, <3>1
  <2> QED
    BY <1>4, <2>2, <2>3
<1> QED
  BY <1>3, <1>4, <1>5 DEF h, n

LEMMA FarFrom ==
  ASSUME NEW X, \A x \in X : x.t \in Nat, NEW h \in Seq(X), NEW j \in 1..Len(h), NEW k \in 1..Len(h),
         ~Near(h[k], h[j].t)
  PROVE  ~(LatestIn(h) - h[k].t <= Window)
<1>1. h[j].t \in Nat /\ h[k].t \in Nat /\ h[j].t <= LatestIn(h) /\ LatestIn(h) \in Nat
  BY LatestIs
<1>2. ~(h[j].t - h[k].t <= Window)
  BY DEF Near
<1> QED
  BY <1>1, <1>2, MonAssumption

(* An order: what is held, and whether it raises. *)
LEMMA OrderKept ==
  ASSUME NEW h \in Seq(RunEvents), NEW e \in RunEvents, e.what = "order", Orderly(Append(h, e)),
         NEW q, NEW K, Holding(h, q, K)
  PROVE  LET g == Append(h, e)
             p == Trim(Append(q, e), e.t)
         IN /\ \E L : Holding(g, p, L)
            /\ Cardinality(Close(g, LatestIn(g), Window)) > MaxOrders => Len(p) > MaxOrders
            /\ Len(p) > MaxOrders => Cardinality(Close(g, e.t, Window + Jitter)) > MaxOrders
<1> DEFINE g == Append(h, e)
           p == Trim(Append(q, e), e.t)
           n == Len(h)
           M == K \cup {n + 1}
<1>1. g \in Seq(RunEvents) /\ Len(g) = n + 1 /\ n \in Nat /\ g[n + 1] = e /\ \A k \in 1..n : g[k] = h[k]
  BY AppendProperties
<1>1a. Window \in Nat /\ MaxOrders \in Nat /\ Jitter \in Nat
  BY MonAssumption
<1>1b. \A x \in RunEvents : x.t \in Nat
  BY DEF RunEvents
<1>1c. \A k \in 1..(n + 1) : g[k].t \in Nat
  BY <1>1, <1>1b
<1>2. q = Only(h, K) /\ K \in SUBSET (1..n) /\ K \subseteq OrdersIn(h)
  BY DEF Holding, OrdersIn
<1>3. Append(q, e) = Only(g, M)
  <2>1. n + 1 \in M
    OBVIOUS
  <2>2. Only(g, M) = Append(Only(h, M), e)
    BY <2>1, OnlyAppend
  <2>3. \A i \in 1..n : i \in M <=> i \in K
    BY <1>1
  <2>4. Only(h, M) = Only(h, K)
    BY <2>3, OnlySame
  <2> QED
    BY <1>2, <2>2, <2>4
<1>3a. K \subseteq {k \in 1..n : h[k].what = "order"}
  BY <1>2 DEF OrdersIn
<1> HIDE DEF g, n
<1>4. M \in SUBSET (Nat \ {0})
  BY <1>1, <1>2
<1>4a. M \subseteq OrdersIn(g)
  <2> SUFFICES ASSUME NEW k \in M PROVE k \in 1..(n + 1) /\ g[k].what = "order"
    BY <1>1 DEF OrdersIn
  <2>1. CASE k \in K
    BY <1>1, <1>3a, <2>1
  <2>2. CASE k = n + 1
    BY <1>1, <2>2
  <2> QED
    BY <2>1, <2>2
<1> HIDE DEF M
<1>5. PICK d \in Nat : Cuts(g, M, e.t, d)
  BY <1>1, <1>4, OnlyCut
<1> DEFINE L == Beyond(M, d)
<1>6. p = Only(g, L)
  BY <1>3, <1>5 DEF Cuts
<1>7. L \subseteq OrdersIn(g) /\ L \subseteq 1..Len(g)
  BY <1>4a DEF Beyond, OrdersIn
<1>8. \A k \in OrdersIn(g) \ L : \E j \in 1..Len(g) : ~Near(g[k], g[j].t)
  <2> TAKE k \in OrdersIn(g) \ L
  <2>1. k \in 1..(n + 1) /\ g[k].what = "order"
    BY <1>1 DEF OrdersIn
  <2>2. CASE k \in M
    <3>1. k <= d /\ k <= Len(g)
      BY <1>1, <2>1, <2>2 DEF Beyond
    <3>2. ~Near(g[k], g[n + 1].t)
      BY <1>1, <1>5, <2>2, <3>1 DEF Cuts
    <3> QED
      BY <1>1, <3>2
  <2>3. CASE k \notin M
    <3>1. k \in 1..n /\ k \notin K
      BY <1>1, <2>1, <2>3 DEF M
    <3>2. k \in OrdersIn(h) \ K
      BY <1>1, <2>1, <3>1 DEF OrdersIn, n
    <3>3. PICK j \in 1..n : ~Near(h[k], h[j].t)
      BY <3>2 DEF Holding, n
    <3> QED
      BY <1>1, <3>1, <3>3
  <2> QED
    BY <2>2, <2>3
<1>9. Holding(g, p, L)
  BY <1>6, <1>7, <1>8 DEF Holding
<1>10. IsFiniteSet(L) /\ Len(p) = Cardinality(L)
  <2>1. L \cap 1..Len(g) = L
    BY <1>7
  <2> QED
    BY <1>1, <1>6, <2>1, OnlyCount
<1>11. \A now, far : IsFiniteSet(Close(g, now, far)) /\ Cardinality(Close(g, now, far)) \in Nat
  <2> TAKE now, far
  <2>1. Close(g, now, far) \subseteq 1..(n + 1)
    BY <1>1 DEF Close
  <2>2. IsFiniteSet(1..(n + 1))
    BY <1>1, FS_Interval
  <2>3. IsFiniteSet(Close(g, now, far))
    BY <2>1, <2>2, FS_Subset
  <2> QED
    BY <2>3, FS_CardinalityType
<1>12. Cardinality(L) \in Nat
  BY <1>10, FS_CardinalityType
<1>13. Cardinality(Close(g, LatestIn(g), Window)) <= Cardinality(L)
  <2>1. Close(g, LatestIn(g), Window) \subseteq L
    <3> SUFFICES ASSUME NEW k \in Close(g, LatestIn(g), Window), k \notin L PROVE FALSE
      OBVIOUS
    <3>1. k \in 1..Len(g) /\ k \in OrdersIn(g) \ L /\ LatestIn(g) - g[k].t <= Window
      BY DEF Close, OrdersIn
    <3>2. PICK j \in 1..Len(g) : ~Near(g[k], g[j].t)
      BY <1>8, <3>1
    <3> HIDE DEF L
    <3> QED
      BY <1>1, <1>1b, <3>1, <3>2, FarFrom
  <2> QED
    BY <1>10, <2>1, FS_Subset
<1>14. Cardinality(L) <= Cardinality(Close(g, e.t, Window + Jitter))
  <2>1. ASSUME NEW k \in L PROVE k \in Close(g, e.t, Window + Jitter)
    <3>1. k \in M /\ k > d /\ k <= Len(g) /\ k \in 1..(n + 1) /\ g[k].what = "order"
      BY <1>1, <1>7 DEF Beyond, OrdersIn
    <3>2. PICK j \in M : j > d /\ j <= k /\ Near(g[j], e.t)
      BY <1>5, <3>1 DEF Cuts
    <3>3. j \in 1..(n + 1) /\ j \in 1..Len(g)
      BY <1>1, <1>4a DEF OrdersIn
    <3>4. e.t \in Nat /\ g[j].t \in Nat /\ g[k].t \in Nat
      BY <1>1, <1>1c, <3>1, <3>3, <1>1b
    <3>5. e.t - g[j].t <= Window
      BY <3>2 DEF Near
    <3>6. g[j].t <= g[k].t + Jitter
      <4>1. CASE j = k
        BY <1>1a, <3>4, <4>1
      <4>2. CASE j # k
        <5>1. j < k /\ k \in 1..Len(g)
          BY <1>1, <3>1, <3>2, <3>3, <4>2
        <5> QED
          BY <3>3, <5>1 DEF Orderly, g
      <4> QED
        BY <4>1, <4>2
    <3>7. e.t - g[k].t <= Window + Jitter
      BY <1>1a, <3>4, <3>5, <3>6
    <3> QED
      BY <1>1, <3>1, <3>7 DEF Close
  <2> QED
    BY <1>11, <2>1, FS_Subset
<1>15. /\ Cardinality(Close(g, LatestIn(g), Window)) > MaxOrders => Len(p) > MaxOrders
       /\ Len(p) > MaxOrders => Cardinality(Close(g, e.t, Window + Jitter)) > MaxOrders
  BY <1>1a, <1>10, <1>11, <1>12, <1>13, <1>14
<1> QED
  BY <1>9, <1>15 DEF g

LEMMA RejectsKept ==
  ASSUME NEW h \in Seq(RunEvents), NEW e \in RunEvents, IsFiniteSet(RejectsIn(h))
  PROVE  LET g == Append(h, e)
             c == Cardinality(RejectsIn(h))
         IN /\ IsFiniteSet(RejectsIn(g)) /\ c \in Nat
            /\ e.what = "order" => Cardinality(RejectsIn(g)) = c
            /\ e.what = "reject" => Cardinality(RejectsIn(g)) = c + 1
            /\ e.what = "ack" => Cardinality(RejectsIn(g)) = 0
<1> DEFINE g == Append(h, e)
           n == Len(h)
           C == RejectsIn(h)
<1>1. g \in Seq(RunEvents) /\ Len(g) = n + 1 /\ n \in Nat /\ g[n + 1] = e /\ \A k \in 1..n : g[k] = h[k]
  BY AppendProperties
<1>1a. \A k \in 1..(n + 1) : k \in 1..n \/ k = n + 1
  BY <1>1
<1>1b. C = {k \in 1..n : h[k].what = "reject" /\ \A a \in 1..n : h[a].what = "ack" => a < k}
  BY DEF RejectsIn
<1> HIDE DEF g, n, C
<1>2. RejectsIn(g) = {k \in 1..(n + 1) : g[k].what = "reject" /\ \A a \in 1..(n + 1) : g[a].what = "ack" => a < k}
  BY <1>1 DEF RejectsIn
<1>1c. \A k \in 1..n : k \in 1..(n + 1) /\ k < n + 1
  BY <1>1
<1>3. CASE e.what = "order"
  <2>1. g[n + 1].what # "reject" /\ g[n + 1].what # "ack"
    BY <1>1, <1>3
  <2>2. RejectsIn(g) \subseteq C
    BY <1>1, <1>1a, <1>1b, <1>1c, <1>2, <2>1
  <2>3. C \subseteq RejectsIn(g)
    BY <1>1, <1>1a, <1>1b, <1>1c, <1>2, <2>1
  <2>4. RejectsIn(g) = C
    BY <2>2, <2>3
  <2> QED
    BY <1>3, <2>4, FS_CardinalityType DEF C, g
<1>4. CASE e.what = "reject"
  <2>0. g[n + 1].what = "reject"
    BY <1>1, <1>4
  <2>0a. RejectsIn(g) \subseteq C \cup {n + 1}
    BY <1>1, <1>1a, <1>1b, <1>1c, <1>2
  <2>0b. \A k \in 1..(n + 1) : g[k].what = "ack" => k \in 1..n
    BY <1>1a, <2>0
  <2>0c. C \cup {n + 1} \subseteq RejectsIn(g)
    BY <1>1, <1>1b, <1>1c, <1>2, <2>0, <2>0b
  <2>1. RejectsIn(g) = C \cup {n + 1}
    BY <2>0a, <2>0c
  <2>2. n + 1 \notin C
    BY <1>1, <1>1b
  <2>3. IsFiniteSet(C \cup {n + 1}) /\ Cardinality(C \cup {n + 1}) = Cardinality(C) + 1
    BY <2>2, FS_AddElement DEF C
  <2> QED
    BY <1>4, <2>1, <2>3, FS_CardinalityType DEF C, g
<1>5. CASE e.what = "ack"
  <2>1. RejectsIn(g) = {}
    BY <1>1, <1>1a, <1>2, <1>5
  <2> QED
    BY <1>5, <2>1, FS_EmptySet, FS_CardinalityType DEF g
<1> QED
  BY <1>3, <1>4, <1>5 DEF RunEvents

LEMMA RunawaySteps == RunawayInv /\ TellRunaway => RunawayInv'
<1> SUFFICES ASSUME RunawayInv, TellRunaway PROVE RunawayInv'
  OBVIOUS
<1>1. PICK e \in RunawayEvent : Tell("runaway", e, OnRunaway(memory, e), RunawayRaises(OnRunaway(memory, e), e))
  BY DEF TellRunaway
<1> DEFINE n == Len(seen)
<1>2. /\ seen' = Append(seen, e) /\ memory' = OnRunaway(memory, e)
      /\ raised' = RunawayRaises(OnRunaway(memory, e), e)
  BY <1>1 DEF Tell
<1>3. seen \in Seq(RunEvents) /\ Orderly(seen) /\ OrderMemory(seen, memory)
  BY DEF RunawayInv
<1>4. /\ e \in RunEvents /\ seen' \in Seq(RunEvents) /\ Len(seen') = n + 1 /\ n \in Nat
      /\ seen'[n + 1] = e /\ Orderly(seen') /\ \A k \in 1..n : seen'[k] = seen[k]
  BY <1>2, <1>3, RunawayEventIs
<1>5. PICK K : Holding(seen, memory.orders, K)
  BY <1>3 DEF OrderMemory
<1>6. /\ memory = [orders |-> memory.orders, rejects |-> memory.rejects]
      /\ memory.rejects = Cardinality(RejectsIn(seen)) /\ IsFiniteSet(RejectsIn(seen))
  BY <1>3 DEF OrderMemory
<1>7. /\ IsFiniteSet(RejectsIn(seen')) /\ Cardinality(RejectsIn(seen)) \in Nat
      /\ e.what = "order" => Cardinality(RejectsIn(seen')) = Cardinality(RejectsIn(seen))
      /\ e.what = "reject" => Cardinality(RejectsIn(seen')) = Cardinality(RejectsIn(seen)) + 1
      /\ e.what = "ack" => Cardinality(RejectsIn(seen')) = 0
  BY <1>2, <1>3, <1>4, <1>6, RejectsKept
<1> DEFINE p == Trim(Append(memory.orders, e), e.t)
<1>8. /\ e.what = "order" => memory' = [orders |-> p, rejects |-> memory.rejects]
      /\ e.what = "reject" => memory' = [orders |-> memory.orders, rejects |-> memory.rejects + 1]
      /\ e.what = "ack" => memory' = [orders |-> memory.orders, rejects |-> 0]
  BY <1>2, <1>6 DEF OnRunaway
<1>8a. /\ e.what = "order" => raised' = IF Len(p) > MaxOrders THEN {"orders"} ELSE {}
       /\ e.what = "reject" => raised' = IF memory.rejects + 1 >= MaxRej THEN {"rejects"} ELSE {}
  BY <1>2, <1>6 DEF OnRunaway, RunawayRaises
<1>9. e.what \in {"order", "reject", "ack"}
  BY <1>4 DEF RunEvents
<1> HIDE DEF n, p
<1>10. e.what # "order" => Holding(seen', memory.orders, K)
  <2> SUFFICES ASSUME e.what # "order" PROVE Holding(seen', memory.orders, K)
    OBVIOUS
  <2>1. OrdersIn(seen') = OrdersIn(seen)
    <3>1. \A k \in 1..(n + 1) : k \in 1..n \/ k = n + 1
      BY <1>4
    <3>2. OrdersIn(seen) = {k \in 1..n : seen[k].what = "order"}
      BY DEF OrdersIn, n
    <3>3. OrdersIn(seen') = {k \in 1..(n + 1) : seen'[k].what = "order"}
      BY <1>4 DEF OrdersIn
    <3> QED
      BY <1>4, <3>1, <3>2, <3>3
  <2>2. Only(seen', K) = Only(seen, K)
    <3>1. n + 1 \notin K
      BY <1>4, <1>5, <2>1 DEF Holding, OrdersIn
    <3> QED
      BY <1>2, <1>3, <1>4, <3>1, OnlyAppend DEF n
  <2>3. ASSUME NEW k \in OrdersIn(seen') \ K PROVE \E j \in 1..Len(seen') : ~Near(seen'[k], seen'[j].t)
    <3>1. k \in OrdersIn(seen) \ K /\ k \in 1..n
      BY <2>1 DEF OrdersIn, n
    <3>2. PICK j \in 1..n : ~Near(seen[k], seen[j].t)
      BY <1>5, <3>1 DEF Holding, n
    <3> QED
      BY <1>4, <3>1, <3>2
  <2> QED
    BY <1>5, <2>1, <2>2, <2>3 DEF Holding
<1>11. ASSUME e.what = "order" PROVE OrderMemory(seen', memory') /\ RunawayIs(seen', raised')
  <2>1. /\ \E L : Holding(seen', p, L)
        /\ Cardinality(Close(seen', LatestIn(seen'), Window)) > MaxOrders => Len(p) > MaxOrders
        /\ Len(p) > MaxOrders => Cardinality(Close(seen', e.t, Window + Jitter)) > MaxOrders
    BY <1>2, <1>3, <1>4, <1>5, <1>11, OrderKept DEF p
  <2>2. memory'.orders = p /\ memory'.rejects = memory.rejects
        /\ memory' = [orders |-> memory'.orders, rejects |-> memory'.rejects]
    BY <1>8, <1>11
  <2>3. OrderMemory(seen', memory')
    BY <1>6, <1>7, <1>11, <2>1, <2>2 DEF OrderMemory
  <2>4. RunawayIs(seen', raised')
    BY <1>4, <1>8a, <1>11, <2>1 DEF RunawayIs
  <2> QED
    BY <2>3, <2>4
<1>12. ASSUME e.what = "reject" PROVE OrderMemory(seen', memory') /\ RunawayIs(seen', raised')
  <2>2. memory'.orders = memory.orders /\ memory'.rejects = memory.rejects + 1
        /\ memory' = [orders |-> memory'.orders, rejects |-> memory'.rejects]
    BY <1>8, <1>12
  <2>3. OrderMemory(seen', memory')
    BY <1>6, <1>7, <1>10, <1>12, <2>2 DEF OrderMemory
  <2>4. RunawayIs(seen', raised')
    BY <1>4, <1>6, <1>7, <1>8a, <1>12 DEF RunawayIs
  <2> QED
    BY <2>3, <2>4
<1>13. ASSUME e.what = "ack" PROVE OrderMemory(seen', memory') /\ RunawayIs(seen', raised')
  <2>2. memory'.orders = memory.orders /\ memory'.rejects = 0
        /\ memory' = [orders |-> memory'.orders, rejects |-> memory'.rejects]
    BY <1>8, <1>13
  <2>3. OrderMemory(seen', memory')
    BY <1>6, <1>7, <1>10, <1>13, <2>2 DEF OrderMemory
  <2>4. RunawayIs(seen', raised')
    BY <1>4, <1>13 DEF RunawayIs
  <2> QED
    BY <2>3, <2>4
<1>14. OrderMemory(seen', memory') /\ RunawayIs(seen', raised')
  BY <1>9, <1>11, <1>12, <1>13
<1> QED
  BY <1>4, <1>14 DEF RunawayInv

LEMMA RunawayAnswers == RunawayInv /\ seen # << >> => RunawayExact
<1> SUFFICES ASSUME RunawayInv, seen # << >> PROVE RunawayExact
  OBVIOUS
<1>1. DOMAIN seen = 1..Len(seen) /\ RunawayIs(seen, raised)
  BY DEF RunawayInv
<1>2. Latest = LatestIn(seen)
  BY LatestIsOf
<1>3. /\ Close(seen, Latest, Window)
           = {k \in DOMAIN seen : seen[k].what = "order" /\ Latest - seen[k].t <= Window}
      /\ Close(seen, seen[Len(seen)].t, Window + Jitter)
           = {k \in DOMAIN seen : seen[k].what = "order" /\ seen[Len(seen)].t - seen[k].t <= Window + Jitter}
  BY <1>1 DEF Close
<1>4. RejectsIn(seen) = {k \in DOMAIN seen : seen[k].what = "reject"
                           /\ \A a \in {j \in DOMAIN seen : seen[j].what = "ack"} : a < k}
  BY <1>1 DEF RejectsIn
<1> QED
  BY <1>1, <1>2, <1>3, <1>4 DEF RunawayExact, RunawayIs

-----------------------------------------------------------------------------
(* The breaker: its memory is that of the run of trades of one day that    *)
(* the history ends with.                                                  *)
BreakEvents == [day : {0, 1}, net : Int, mode : {"alarm", "enforce"}]
BreaksIn(h) == {k \in 1..(Len(h) - 1) : h[k].day # h[k + 1].day}
FirstIn(h) ==
  1 + (IF BreaksIn(h) = {} THEN 0 ELSE CHOOSE k \in BreaksIn(h) : \A j \in BreaksIn(h) : j <= k)
NetsIn(h, a, k) == [i \in 1..(k - a + 1) |-> h[a + i - 1].net]
LostIn(h, a, k) == {j \in a..k : \A i \in j..k : h[i].net < 0}
RulesIn(h, a, k) == Rules(SumOf(NetsIn(h, a, k)), Cardinality(LostIn(h, a, k)))
HeldIn(h, a, k) == UNION {RulesIn(h, a, j) : j \in a..k}
BreakMemory(h, m) ==
  IF h = << >> THEN m = Fresh("breaker")
  ELSE m = [day |-> h[Len(h)].day, net |-> SumOf(NetsIn(h, FirstIn(h), Len(h))),
            losses |-> Cardinality(LostIn(h, FirstIn(h), Len(h))),
            tripped |-> HeldIn(h, FirstIn(h), Len(h))]
BreakIs(h, r) == r = HeldIn(h, FirstIn(h), Len(h)) \ HeldIn(h, FirstIn(h), Len(h) - 1)
BreakerInv ==
  /\ seen \in Seq(BreakEvents) /\ BreakMemory(seen, memory)
  /\ seen # << >> => BreakIs(seen, raised)

LEMMA Greatest ==
  ASSUME NEW b \in Nat, NEW S \in SUBSET (0..b), S # {}
  PROVE  \E k \in S : \A j \in S : j <= k
<1> DEFINE T == {b - y : y \in S}
<1>1. \A y \in S : y \in Nat /\ b - y \in Nat
  OBVIOUS
<1>2. T \in SUBSET Nat /\ T # {}
  BY <1>1
<1>3. PICK t \in T : \A u \in T : t <= u
  BY <1>2, Least
<1>4. PICK k \in S : t = b - k
  BY <1>3
<1>5. \A j \in S : j <= k
  <2> TAKE j \in S
  <2>1. b - j \in T
    OBVIOUS
  <2>2. b - k <= b - j
    BY <1>3, <1>4, <2>1
  <2>3. k \in Nat /\ j \in Nat
    BY <1>1
  <2> QED
    BY <2>2, <2>3
<1> QED
  BY <1>5

LEMMA FirstIs ==
  ASSUME NEW h \in Seq(BreakEvents), h # << >>
  PROVE  FirstIn(h) \in 1..Len(h)
<1>1. Len(h) \in Nat \ {0}
  BY EmptySeq
<1>2. CASE BreaksIn(h) = {}
  BY <1>1, <1>2 DEF FirstIn
<1>3. CASE BreaksIn(h) # {}
  <2> DEFINE k == CHOOSE k \in BreaksIn(h) : \A j \in BreaksIn(h) : j <= k
  <2>1. BreaksIn(h) \in SUBSET (0..Len(h))
    BY <1>1 DEF BreaksIn
  <2>2. k \in BreaksIn(h)
    <3>1. \E x \in BreaksIn(h) : \A j \in BreaksIn(h) : j <= x
      BY <1>1, <1>3, <2>1, Greatest
    <3> QED
      BY <3>1, Zenon
  <2>3. FirstIn(h) = 1 + k
    BY <1>3 DEF FirstIn
  <2> HIDE DEF k
  <2>4. k \in 1..(Len(h) - 1)
    BY <2>2 DEF BreaksIn
  <2> QED
    BY <1>1, <2>3, <2>4
<1> QED
  BY <1>2, <1>3

LEMMA FirstAppend ==
  ASSUME NEW h \in Seq(BreakEvents), NEW e \in BreakEvents
  PROVE  /\ h # << >> /\ h[Len(h)].day = e.day => FirstIn(Append(h, e)) = FirstIn(h)
         /\ h = << >> \/ h[Len(h)].day # e.day => FirstIn(Append(h, e)) = Len(h) + 1
<1> DEFINE g == Append(h, e)
           n == Len(h)
<1>1. g \in Seq(BreakEvents) /\ Len(g) = n + 1 /\ n \in Nat /\ g[n + 1] = e /\ \A k \in 1..n : g[k] = h[k]
  BY AppendProperties
<1>2. h = << >> <=> n = 0
  BY EmptySeq
<1> HIDE DEF g, n
<1>3. BreaksIn(h) = {k \in 1..(n - 1) : h[k].day # h[k + 1].day}
  BY DEF BreaksIn, n
<1>4. BreaksIn(g) = {k \in 1..n : g[k].day # g[k + 1].day}
  <2>1. Len(g) - 1 = n
    BY <1>1
  <2> QED
    BY <2>1 DEF BreaksIn
<1>5. \A k \in 1..(n - 1) : g[k] = h[k] /\ g[k + 1] = h[k + 1] /\ k \in 1..n
  BY <1>1
<1>6. \A k \in 1..n : k \in 1..(n - 1) \/ k = n
  BY <1>1
<1>7. CASE h # << >> /\ h[n].day = e.day
  <2>1. n \in 1..n /\ g[n].day = g[n + 1].day
    BY <1>1, <1>2, <1>7
  <2>2. BreaksIn(g) = BreaksIn(h)
    BY <1>3, <1>4, <1>5, <1>6, <2>1
  <2> QED
    BY <1>7, <2>2 DEF FirstIn, g, n
<1>8. CASE h = << >>
  <2>1. BreaksIn(g) = {}
    BY <1>1, <1>2, <1>4, <1>8
  <2>2. FirstIn(g) = 1 + n
    BY <1>1, <1>2, <1>8, <2>1 DEF FirstIn
  <2> QED
    BY <1>1, <1>8, <2>2 DEF g, n
<1>9. CASE h # << >> /\ h[n].day # e.day
  <2>1. n \in BreaksIn(g) /\ \A j \in BreaksIn(g) : j <= n /\ j \in Nat
    BY <1>1, <1>2, <1>4, <1>9
  <2> DEFINE k == CHOOSE k \in BreaksIn(g) : \A j \in BreaksIn(g) : j <= k
  <2>2. k \in BreaksIn(g) /\ \A j \in BreaksIn(g) : j <= k
    BY <2>1, Zenon
  <2>3. FirstIn(g) = 1 + k
    BY <2>1 DEF FirstIn
  <2> HIDE DEF k
  <2>4. k = n
    BY <1>1, <2>1, <2>2
  <2> QED
    BY <1>1, <1>9, <2>3, <2>4 DEF g, n
<1> QED
  BY <1>7, <1>8, <1>9 DEF n

LEMMA NetsType ==
  ASSUME NEW h \in Seq(BreakEvents), NEW a \in 1..(Len(h) + 1), NEW k \in (a - 1)..Len(h)
  PROVE  /\ NetsIn(h, a, k) \in Seq(Int) /\ Len(NetsIn(h, a, k)) = k - a + 1
         /\ \A i \in 1..(k - a + 1) : NetsIn(h, a, k)[i] = h[a + i - 1].net
<1>1. Len(h) \in Nat /\ k - a + 1 \in Nat
  OBVIOUS
<1>2. \A i \in 1..(k - a + 1) : h[a + i - 1].net \in Int
  <2> TAKE i \in 1..(k - a + 1)
  <2>1. a + i - 1 \in 1..Len(h)
    BY <1>1
  <2>2. h[a + i - 1] \in BreakEvents
    BY <2>1
  <2> QED
    BY <2>2 DEF BreakEvents
<1> QED
  BY <1>1, <1>2 DEF NetsIn

(* What a trade adds to a run. *)
LEMMA RunGrows ==
  ASSUME NEW h \in Seq(BreakEvents), NEW e \in BreakEvents, NEW a \in 1..(Len(h) + 1)
  PROVE  LET g == Append(h, e)
             n == Len(h)
             drops == LostIn(h, a, n)
         IN /\ SumOf(NetsIn(g, a, n + 1)) = SumOf(NetsIn(h, a, n)) + e.net
            /\ IsFiniteSet(drops) /\ Cardinality(drops) \in Nat
            /\ Cardinality(LostIn(g, a, n + 1)) = IF e.net < 0 THEN Cardinality(drops) + 1 ELSE 0
            /\ HeldIn(g, a, n) = HeldIn(h, a, n)
            /\ HeldIn(g, a, n + 1) = HeldIn(h, a, n) \cup RulesIn(g, a, n + 1)
<1> DEFINE g == Append(h, e)
           n == Len(h)
           drops == LostIn(h, a, n)
<1>1. g \in Seq(BreakEvents) /\ Len(g) = n + 1 /\ n \in Nat /\ g[n + 1] = e /\ \A k \in 1..n : g[k] = h[k]
  BY AppendProperties
<1>1a. a \in Nat /\ a >= 1 /\ a <= n + 1
  BY <1>1
<1> HIDE DEF g
<1>2. SumOf(NetsIn(g, a, n + 1)) = SumOf(NetsIn(h, a, n)) + e.net
  <2> DEFINE s == NetsIn(h, a, n)
             t == NetsIn(g, a, n + 1)
             u == Append(s, e.net)
             l == n - a + 1
  <2>0. e.net \in Int
    BY DEF BreakEvents
  <2>1. s \in Seq(Int) /\ Len(s) = l /\ l \in Nat /\ \A i \in 1..l : s[i] = h[a + i - 1].net
    <3>1. n \in (a - 1)..Len(h)
      BY <1>1, <1>1a
    <3> QED
      BY <1>1, <1>1a, <3>1, NetsType
  <2>2. t \in Seq(Int) /\ Len(t) = l + 1 /\ \A i \in 1..(l + 1) : t[i] = g[a + i - 1].net
    <3>1. n + 1 \in (a - 1)..Len(g) /\ a \in 1..(Len(g) + 1) /\ (n + 1) - a + 1 = l + 1
      BY <1>1, <1>1a
    <3> QED
      BY <1>1, <3>1, NetsType
  <2> HIDE DEF s, t
  <2>3. u \in Seq(Int) /\ Len(u) = l + 1 /\ u[l + 1] = e.net /\ \A i \in 1..l : u[i] = s[i]
    BY <2>0, <2>1, AppendProperties
  <2> HIDE DEF u
  <2>4. ASSUME NEW i \in 1..(l + 1) PROVE t[i] = u[i]
    <3>1. CASE i \in 1..l
      <4>1. a + i - 1 \in 1..n
        BY <1>1, <1>1a, <3>1
      <4>2. g[a + i - 1] = h[a + i - 1]
        BY <1>1, <4>1
      <4> QED
        BY <2>1, <2>2, <2>3, <3>1, <4>2
    <3>2. CASE i = l + 1
      <4>1. a + i - 1 = n + 1
        BY <1>1, <1>1a, <3>2
      <4> QED
        BY <1>1, <2>2, <2>3, <3>2, <4>1
    <3> QED
      BY <2>1, <3>1, <3>2
  <2>5. t = u
    BY <2>2, <2>3, <2>4, SeqEqual
  <2> QED
    BY <2>0, <2>1, <2>5, SumOfAppend DEF s, t, u
<1> HIDE DEF n
<1>3. IsFiniteSet(drops) /\ Cardinality(drops) \in Nat
  <2>1. drops \subseteq a..n /\ IsFiniteSet(a..n)
    BY <1>1, <1>1a, FS_Interval DEF LostIn
  <2> QED
    BY <2>1, FS_Subset, FS_CardinalityType
<1>3a. \A j \in a..n : \A i \in j..n : i \in 1..n
  BY <1>1, <1>1a
<1>3b. \A j \in a..(n + 1) : j \in a..n \/ j = n + 1
  BY <1>1, <1>1a
<1>4. Cardinality(LostIn(g, a, n + 1)) = IF e.net < 0 THEN Cardinality(drops) + 1 ELSE 0
  <2>1. CASE e.net < 0
    <3>1. LostIn(g, a, n + 1) \subseteq drops \cup {n + 1}
      <4> SUFFICES ASSUME NEW j \in LostIn(g, a, n + 1), j # n + 1 PROVE j \in drops
        OBVIOUS
      <4>1. j \in a..n /\ \A i \in j..(n + 1) : g[i].net < 0
        BY <1>3b DEF LostIn
      <4>2. \A i \in j..n : i \in j..(n + 1) /\ g[i] = h[i]
        BY <1>1, <1>1a, <1>3a, <4>1
      <4> QED
        BY <4>1, <4>2 DEF LostIn
    <3>2. drops \cup {n + 1} \subseteq LostIn(g, a, n + 1)
      <4>1. ASSUME NEW j \in drops PROVE j \in LostIn(g, a, n + 1)
        <5>1. j \in a..n /\ \A i \in j..n : h[i].net < 0
          BY DEF LostIn
        <5>2. \A i \in j..(n + 1) : i \in j..n \/ i = n + 1
          BY <1>1, <1>1a, <5>1
        <5>3. \A i \in j..(n + 1) : g[i].net < 0
          BY <1>1, <1>3a, <2>1, <5>1, <5>2
        <5>4. j \in a..(n + 1)
          BY <1>1, <1>1a, <5>1
        <5> QED
          BY <5>3, <5>4 DEF LostIn
      <4>2. n + 1 \in LostIn(g, a, n + 1)
        <5>1. \A i \in (n + 1)..(n + 1) : i = n + 1
          BY <1>1
        <5>2. n + 1 \in a..(n + 1)
          BY <1>1, <1>1a
        <5> QED
          BY <1>1, <2>1, <5>1, <5>2 DEF LostIn
      <4> QED
        BY <4>1, <4>2
    <3>3. n + 1 \notin drops
      BY <1>1, <1>1a DEF LostIn
    <3>4. LostIn(g, a, n + 1) = drops \cup {n + 1}
      BY <3>1, <3>2
    <3> HIDE DEF drops
    <3> QED
      BY <1>3, <2>1, <3>3, <3>4, FS_AddElement
  <2>2. CASE ~(e.net < 0)
    <3>1. LostIn(g, a, n + 1) = {}
      <4>1. \A j \in a..(n + 1) : n + 1 \in j..(n + 1)
        BY <1>1, <1>1a
      <4> QED
        BY <1>1, <2>2, <4>1 DEF LostIn
    <3> QED
      BY <2>2, <3>1, FS_EmptySet
  <2> QED
    BY <2>1, <2>2
<1>5. \A j \in a..n : RulesIn(g, a, j) = RulesIn(h, a, j)
  <2> TAKE j \in a..n
  <2>1. NetsIn(g, a, j) = NetsIn(h, a, j)
    <3>1. \A i \in 1..(j - a + 1) : g[a + i - 1] = h[a + i - 1]
      BY <1>1, <1>1a
    <3> QED
      BY <3>1 DEF NetsIn
  <2>2. LostIn(g, a, j) = LostIn(h, a, j)
    <3>1. \A l \in a..j : \A i \in l..j : g[i] = h[i]
      BY <1>1, <1>1a
    <3> QED
      BY <3>1 DEF LostIn
  <2> QED
    BY <2>1, <2>2 DEF RulesIn
<1>6. HeldIn(g, a, n) = HeldIn(h, a, n)
  BY <1>5 DEF HeldIn
<1>7. HeldIn(g, a, n + 1) = HeldIn(h, a, n) \cup RulesIn(g, a, n + 1)
  <2>1. a..(n + 1) = a..n \cup {n + 1}
    BY <1>1, <1>1a
  <2>2. HeldIn(g, a, n + 1) = HeldIn(g, a, n) \cup RulesIn(g, a, n + 1)
    BY <2>1 DEF HeldIn
  <2> QED
    BY <1>6, <2>2
<1> QED
  BY <1>2, <1>3, <1>4, <1>6, <1>7 DEF g, n

LEMMA BreakerStarts ==
  ASSUME seen = << >>, memory = Fresh("breaker")
  PROVE  BreakerInv
  BY DEF BreakerInv, BreakMemory

LEMMA BreakerSteps == BreakerInv /\ TellBreaker => BreakerInv'
<1> SUFFICES ASSUME BreakerInv, TellBreaker PROVE BreakerInv'
  OBVIOUS
<1>1. PICK e \in BreakerEvent : Tell("breaker", e, OnBreaker(memory, e), BreakerRaises(memory, OnBreaker(memory, e)))
  BY DEF TellBreaker
<1> DEFINE n == Len(seen)
           new == OnBreaker(memory, e)
<1>2. /\ seen' = Append(seen, e) /\ memory' = new
      /\ raised' = BreakerRaises(memory, new)
  BY <1>1 DEF Tell
<1>3. seen \in Seq(BreakEvents) /\ BreakMemory(seen, memory)
  BY DEF BreakerInv
<1>3a. e \in BreakEvents
  <2>1. e.day \in {0, 1} /\ e.net \in Int /\ e = [day |-> e.day, net |-> e.net, mode |-> e.mode]
    BY DEF BreakerEvent
  <2>2. e.mode \in {"alarm", "enforce"}
    <3>1. CASE seen = << >>
      BY <3>1 DEF BreakerEvent
    <3>2. CASE seen # << >>
      <4>1. 1 \in 1..Len(seen)
        BY <1>3, <3>2, EmptySeq
      <4>2. seen[1] \in BreakEvents
        BY <1>3, <4>1
      <4>3. e.mode = seen[1].mode
        BY <3>2 DEF BreakerEvent
      <4> QED
        BY <4>2, <4>3 DEF BreakEvents
    <3> QED
      BY <3>1, <3>2
  <2> QED
    BY <2>1, <2>2 DEF BreakEvents
<1>4. /\ seen' \in Seq(BreakEvents) /\ Len(seen') = n + 1 /\ n \in Nat
      /\ seen'[n + 1] = e /\ \A k \in 1..n : seen'[k] = seen[k] /\ seen' # << >>
  BY <1>2, <1>3, <1>3a, AppendProperties
<1>4a. seen = << >> <=> n = 0
  BY <1>3, EmptySeq
<1> DEFINE a == FirstIn(seen')
<1>5. a \in 1..(n + 1)
  BY <1>4, FirstIs
<1>6. /\ SumOf(NetsIn(seen', a, n + 1)) = SumOf(NetsIn(seen, a, n)) + e.net
      /\ Cardinality(LostIn(seen', a, n + 1)) = IF e.net < 0 THEN Cardinality(LostIn(seen, a, n)) + 1 ELSE 0
      /\ HeldIn(seen', a, n) = HeldIn(seen, a, n)
      /\ HeldIn(seen', a, n + 1) = HeldIn(seen, a, n) \cup RulesIn(seen', a, n + 1)
  BY <1>2, <1>3, <1>3a, <1>5, RunGrows
<1>7. n # 0 => /\ memory = [day |-> memory.day, net |-> memory.net, losses |-> memory.losses, tripped |-> memory.tripped]
               /\ memory.day = seen[n].day
               /\ memory.net = SumOf(NetsIn(seen, FirstIn(seen), n))
               /\ memory.losses = Cardinality(LostIn(seen, FirstIn(seen), n))
               /\ memory.tripped = HeldIn(seen, FirstIn(seen), n)
  BY <1>3, <1>4a DEF BreakMemory
<1>8. n = 0 => memory = [day |-> Unset, net |-> 0, losses |-> 0, tripped |-> {}]
  BY <1>3, <1>4a DEF BreakMemory, Fresh
<1>9. e.day \in {0, 1} /\ e.day # Unset
  BY <1>3a DEF BreakEvents, Unset
<1>9a. FirstIn(seen') = IF n # 0 /\ seen[n].day = e.day THEN FirstIn(seen) ELSE n + 1
  BY <1>2, <1>3, <1>3a, <1>4a, FirstAppend
(* The result of a trade is the same in both cases. *)
<1> DEFINE same == n # 0 /\ seen[n].day = e.day
<1>10. memory.day = e.day <=> same
  <2>1. CASE n = 0
    BY <1>8, <1>9, <2>1
  <2>2. CASE n # 0
    BY <1>7, <2>2
  <2> QED
    BY <2>1, <2>2
<1> HIDE DEF n, a, new
<1>11. new.day = e.day /\ new = [day |-> e.day, net |-> SumOf(NetsIn(seen', a, n + 1)),
                                 losses |-> Cardinality(LostIn(seen', a, n + 1)),
                                 tripped |-> HeldIn(seen', a, n + 1)]
       /\ HeldIn(seen', a, n) = IF memory.day = e.day THEN memory.tripped ELSE {}
  <2>1. CASE same
    <3>1. a = FirstIn(seen) /\ n # 0
      BY <1>9a, <2>1 DEF a
    <3>2. memory.day = e.day
      BY <1>10, <2>1
    <3>3. new = LET losses == IF e.net < 0 THEN memory.losses + 1 ELSE 0
                IN [day |-> e.day, net |-> memory.net + e.net, losses |-> losses,
                    tripped |-> memory.tripped \cup Rules(memory.net + e.net, losses)]
      BY <3>2 DEF OnBreaker, new
    <3>4. memory.net + e.net = SumOf(NetsIn(seen', a, n + 1))
      BY <1>6, <1>7, <3>1
    <3>5. (IF e.net < 0 THEN memory.losses + 1 ELSE 0) = Cardinality(LostIn(seen', a, n + 1))
      BY <1>6, <1>7, <3>1
    <3>6. memory.tripped \cup RulesIn(seen', a, n + 1) = HeldIn(seen', a, n + 1)
      BY <1>6, <1>7, <3>1
    <3>7. HeldIn(seen', a, n) = memory.tripped
      BY <1>6, <1>7, <3>1
    <3>8. new = [day |-> e.day, net |-> SumOf(NetsIn(seen', a, n + 1)), losses |-> Cardinality(LostIn(seen', a, n + 1)),
                 tripped |-> HeldIn(seen', a, n + 1)]
      BY <3>3, <3>4, <3>5, <3>6, Zenon DEF RulesIn
    <3> QED
      BY <3>2, <3>7, <3>8
  <2>2. CASE ~same
    <3>1. a = n + 1
      BY <1>9a, <2>2 DEF a
    <3>2. memory.day # e.day
      BY <1>10, <2>2
    <3>3. new = LET losses == IF e.net < 0 THEN 0 + 1 ELSE 0
                IN [day |-> e.day, net |-> 0 + e.net, losses |-> losses,
                    tripped |-> {} \cup Rules(0 + e.net, losses)]
      BY <3>2 DEF OnBreaker, new
    <3>4. NetsIn(seen, a, n) = << >>
      <4>1. 1..(n - a + 1) = {}
        BY <1>4, <3>1
      <4> QED
        BY <4>1 DEF NetsIn
    <3>5. LostIn(seen, a, n) = {} /\ HeldIn(seen, a, n) = {}
      <4>1. a..n = {}
        BY <1>4, <3>1
      <4> QED
        BY <4>1 DEF LostIn, HeldIn
    <3>6. 0 + e.net = SumOf(NetsIn(seen', a, n + 1))
      BY <1>6, <3>4, SumOfEmpty
    <3>7. (IF e.net < 0 THEN 0 + 1 ELSE 0) = Cardinality(LostIn(seen', a, n + 1))
      BY <1>6, <3>5, FS_EmptySet
    <3>8. {} \cup RulesIn(seen', a, n + 1) = HeldIn(seen', a, n + 1) /\ HeldIn(seen', a, n) = {}
      BY <1>6, <3>5
    <3>9. new = [day |-> e.day, net |-> SumOf(NetsIn(seen', a, n + 1)), losses |-> Cardinality(LostIn(seen', a, n + 1)),
                 tripped |-> HeldIn(seen', a, n + 1)]
      BY <3>3, <3>6, <3>7, <3>8, Zenon DEF RulesIn
    <3> QED
      BY <3>2, <3>8, <3>9
  <2> QED
    BY <2>1, <2>2
<1>12. BreakMemory(seen', memory')
  BY <1>2, <1>4, <1>11 DEF BreakMemory, a
<1>13. raised' = HeldIn(seen', a, n + 1) \ HeldIn(seen', a, n)
  <2>1. raised' = IF memory.day = new.day THEN new.tripped \ memory.tripped ELSE new.tripped
    BY <1>2 DEF BreakerRaises
  <2> QED
    BY <1>11, <2>1
<1>14. BreakIs(seen', raised')
  <2>1. Len(seen') = n + 1 /\ (n + 1) - 1 = n
    BY <1>4
  <2> QED
    BY <1>13, <2>1 DEF BreakIs, a
<1> QED
  BY <1>4, <1>12, <1>14 DEF BreakerInv

LEMMA BreakerAnswers == BreakerInv /\ seen # << >> => BreakerExact
<1> SUFFICES ASSUME BreakerInv, seen # << >> PROVE BreakerExact
  OBVIOUS
<1> DEFINE breaks == {k \in 1..(Len(seen) - 1) : seen[k].day # seen[k + 1].day}
           first  == 1 + (IF breaks = {} THEN 0 ELSE CHOOSE k \in breaks : \A j \in breaks : j <= k)
           Held(k) == UNION {Rules(SumOf([i \in 1..(j - first + 1) |-> seen[first + i - 1].net]),
                                   Cardinality({l \in first..j : \A i \in l..j : seen[i].net < 0})) : j \in first..k}
<1>1. first = FirstIn(seen)
  BY Zenon DEF FirstIn, BreaksIn
<1> HIDE DEF first
<1>2. \A k : Held(k) = HeldIn(seen, first, k)
  BY Zenon DEF HeldIn, RulesIn, NetsIn, LostIn
<1>3. BreakMemory(seen, memory) /\ BreakIs(seen, raised)
  BY DEF BreakerInv
<1>4. raised = Held(Len(seen)) \ Held(Len(seen) - 1)
  BY <1>1, <1>2, <1>3 DEF BreakIs
<1>4a. memory = [day |-> seen[Len(seen)].day, net |-> SumOf(NetsIn(seen, FirstIn(seen), Len(seen))),
                 losses |-> Cardinality(LostIn(seen, FirstIn(seen), Len(seen))),
                 tripped |-> HeldIn(seen, FirstIn(seen), Len(seen))]
  BY <1>3, Zenon DEF BreakMemory, BreakerInv
<1>4b. memory.tripped = HeldIn(seen, FirstIn(seen), Len(seen))
  BY <1>4a
<1>5. memory.tripped = Held(Len(seen))
  BY <1>1, <1>2, <1>4b, Zenon
<1>6. EntryBlocked(memory, seen[Len(seen)].mode) <=> (seen[Len(seen)].mode = "enforce" /\ Held(Len(seen)) # {})
  BY <1>5 DEF EntryBlocked
<1> HIDE DEF Held
<1> QED
  BY <1>4, <1>6, Zenon DEF BreakerExact, Held, first

-----------------------------------------------------------------------------
(* The cost drift monitor: the trades it holds are those of the window of  *)
(* the last position that was new.                                         *)
DriftEvents == [pid : Nat, t : Nat, net : Int, fee : Int]
Rising(h) == \A j, k \in 1..Len(h) : j <= k => h[j].t <= h[k].t
NewIn(h) == {k \in 1..Len(h) : \A j \in 1..(k - 1) : h[j].pid # h[k].pid}
WindowAt(h, k) == {j \in NewIn(h) : j <= k /\ h[k].t - h[j].t <= Window}
DriftMemory(h, m, trades, breached, fed) ==
  /\ fed = {h[k].pid : k \in 1..Len(h)}
  /\ \/ m = 0 /\ NewIn(h) = {} /\ trades = << >> /\ breached = {}
     \/ /\ m \in NewIn(h) /\ \A j \in NewIn(h) : j <= m
        /\ trades = Only(h, WindowAt(h, m)) /\ breached = Breaches(trades)
DriftIs(h, r) ==
  LET before  == {j \in NewIn(h) : j < Len(h) /\ NewIn(h) \cap (j + 1)..(Len(h) - 1) = {}}
      Ends(k) == Breaches(Only(h, WindowAt(h, k)))
  IN r = IF Len(h) \in NewIn(h) THEN Ends(Len(h)) \ UNION {Ends(k) : k \in before} ELSE {}
DriftInv ==
  /\ seen \in Seq(DriftEvents) /\ Rising(seen)
  /\ memory = [trades |-> memory.trades, breached |-> memory.breached, fed |-> memory.fed]
  /\ \E m \in Nat : DriftMemory(seen, m, memory.trades, memory.breached, memory.fed)
  /\ seen # << >> => DriftIs(seen, raised)

LEMMA DriftStarts ==
  ASSUME seen = << >>, memory = Fresh("drift")
  PROVE  DriftInv
<1>1. memory = [trades |-> << >>, breached |-> {}, fed |-> {}]
  BY DEF Fresh
<1>2. seen \in Seq(DriftEvents) /\ Len(seen) = 0
  OBVIOUS
<1>3. NewIn(seen) = {} /\ {seen[k].pid : k \in 1..Len(seen)} = {}
  BY <1>2 DEF NewIn
<1>4. DriftMemory(seen, 0, << >>, {}, {})
  BY <1>3 DEF DriftMemory
<1>5. Rising(seen)
  BY <1>2 DEF Rising
<1> QED
  BY <1>1, <1>2, <1>4, <1>5 DEF DriftInv

LEMMA DriftEventIs ==
  ASSUME seen \in Seq(DriftEvents), Rising(seen), NEW e \in DriftEvent
  PROVE  /\ e \in DriftEvents /\ Append(seen, e) \in Seq(DriftEvents)
         /\ Rising(Append(seen, e))
<1>0. \A x \in DriftEvents : x.t \in Nat
  BY DEF DriftEvents
<1>1. /\ Latest \in Nat
      /\ \A k \in 1..Len(seen) : seen[k].t <= Latest
  BY <1>0, LatestIs, LatestIsOf
<1>2. e.pid \in Nat /\ e.t \in {Latest, Latest + 2} /\ e.net \in Int /\ e.fee \in Int
      /\ e = [pid |-> e.pid, t |-> e.t, net |-> e.net, fee |-> e.fee]
  <2>1. PICK p \in (IF seen = << >> THEN {1} ELSE {seen[Len(seen)].pid, seen[Len(seen)].pid + 1}),
             t \in {Latest, Latest + 2}, x \in {<<4, 1>>, <<-3, 1>>, <<1, 4>>} :
             e = [pid |-> p, t |-> t, net |-> x[1], fee |-> x[2]]
    BY DEF DriftEvent
  <2>2. p \in Nat
    <3>1. CASE seen = << >>
      BY <3>1
    <3>2. CASE seen # << >>
      <4>1. Len(seen) \in 1..Len(seen)
        BY <3>2, EmptySeq
      <4>2. seen[Len(seen)] \in DriftEvents
        BY <4>1
      <4> QED
        BY <3>2, <4>2 DEF DriftEvents
    <3> QED
      BY <3>1, <3>2
  <2>3. x[1] \in Int /\ x[2] \in Int
    OBVIOUS
  <2> QED
    BY <2>1, <2>2, <2>3
<1>3. e \in DriftEvents /\ e.t \in Nat /\ Latest <= e.t
  BY <1>1, <1>2 DEF DriftEvents
<1> DEFINE h == Append(seen, e)
           n == Len(seen)
<1>4. /\ h \in Seq(DriftEvents) /\ Len(h) = n + 1 /\ n \in Nat /\ h[n + 1] = e
      /\ \A k \in 1..n : h[k] = seen[k]
  BY <1>3, AppendProperties
<1>4a. \A k \in 1..n : seen[k].t <= Latest /\ seen[k].t \in Nat
  <2> TAKE k \in 1..n
  <2>1. seen[k] \in DriftEvents
    OBVIOUS
  <2> QED
    BY <1>0, <1>1, <2>1
<1>4b. \A j, k \in 1..n : j <= k => seen[j].t <= seen[k].t
  BY DEF Rising
<1> HIDE DEF h, n
<1>5. Rising(h)
  <2> SUFFICES ASSUME NEW j \in 1..(n + 1), NEW k \in 1..(n + 1), j <= k
               PROVE  h[j].t <= h[k].t
    BY <1>4 DEF Rising
  <2>1. CASE k \in 1..n
    <3>1. j \in 1..n
      BY <1>4, <2>1
    <3> QED
      BY <1>4, <1>4b, <2>1, <3>1
  <2>2. CASE k = n + 1
    <3>1. CASE j \in 1..n
      BY <1>1, <1>3, <1>4, <1>4a, <2>2, <3>1
    <3>2. CASE j = n + 1
      BY <1>3, <1>4, <2>2, <3>2
    <3> QED
      BY <1>4, <3>1, <3>2
  <2> QED
    BY <1>4, <2>1, <2>2
<1> QED
  BY <1>3, <1>4, <1>5 DEF h, n

(* A position that was not handed over before. *)
LEMMA NewPosition ==
  ASSUME NEW h \in Seq(DriftEvents), NEW e \in DriftEvents, Rising(Append(h, e)),
         NEW m \in Nat, NEW trades, NEW breached, NEW fed, DriftMemory(h, m, trades, breached, fed),
         e.pid \notin fed
  PROVE  LET g == Append(h, e)
             n == Len(h)
             p == Trim(Append(trades, e), e.t)
         IN /\ DriftMemory(g, n + 1, p, Breaches(p), fed \cup {e.pid})
            /\ breached = UNION {Breaches(Only(g, WindowAt(g, k))) :
                                   k \in {j \in NewIn(g) : j < n + 1 /\ NewIn(g) \cap (j + 1)..n = {}}}
<1> DEFINE g == Append(h, e)
           n == Len(h)
           p == Trim(Append(trades, e), e.t)
           K == IF m = 0 THEN {} ELSE WindowAt(h, m)
           M == K \cup {n + 1}
<1>0. \A x \in DriftEvents : x.t \in Nat
  BY DEF DriftEvents
<1>1. g \in Seq(DriftEvents) /\ Len(g) = n + 1 /\ n \in Nat /\ g[n + 1] = e /\ \A k \in 1..n : g[k] = h[k]
  BY AppendProperties
<1>1a. \A k \in 1..(n + 1) : k \in 1..n \/ k = n + 1
  BY <1>1
<1>1b. Window \in Nat
  BY MonAssumption
<1>1c. \A k \in 1..(n + 1) : g[k].t \in Nat
  <2> TAKE k \in 1..(n + 1)
  <2>1. g[k] \in DriftEvents
    <3>1. k \in 1..Len(g)
      BY <1>1
    <3> HIDE DEF g, n
    <3> QED
      BY <1>1, <3>1
  <2> HIDE DEF g
  <2> QED
    BY <1>0, <2>1
<1>2. fed = {h[k].pid : k \in 1..n} /\ NewIn(h) \subseteq 1..n
  BY DEF DriftMemory, NewIn
<1>3. \/ m = 0 /\ NewIn(h) = {} /\ trades = << >> /\ breached = {}
      \/ /\ m \in NewIn(h) /\ \A j \in NewIn(h) : j <= m
         /\ trades = Only(h, WindowAt(h, m)) /\ breached = Breaches(trades)
  BY DEF DriftMemory
<1>3a. NewIn(h) = {k \in 1..n : \A j \in 1..(k - 1) : h[j].pid # h[k].pid}
  BY DEF NewIn
<1>3b. NewIn(g) = {k \in 1..(n + 1) : \A j \in 1..(k - 1) : g[j].pid # g[k].pid}
  BY <1>1 DEF NewIn
<1>3c. g = Append(h, e)
  OBVIOUS
<1> HIDE DEF g, n
<1>4. NewIn(g) = NewIn(h) \cup {n + 1}
  <2>1. \A k \in 1..n : \A j \in 1..(k - 1) : j \in 1..n /\ g[j] = h[j] /\ g[k] = h[k]
    BY <1>1
  <2>2. \A k \in 1..n : k \in NewIn(g) <=> k \in NewIn(h)
    <3> TAKE k \in 1..n
    <3>1. k \in 1..(n + 1)
      BY <1>1
    <3>2. (\A j \in 1..(k - 1) : g[j].pid # g[k].pid) <=> (\A j \in 1..(k - 1) : h[j].pid # h[k].pid)
      BY <2>1
    <3>3. k \in NewIn(g) <=> (\A j \in 1..(k - 1) : g[j].pid # g[k].pid)
      BY <1>3b, <3>1
    <3>4. k \in NewIn(h) <=> (\A j \in 1..(k - 1) : h[j].pid # h[k].pid)
      BY <1>3a
    <3> QED
      BY <3>2, <3>3, <3>4
  <2>3. n + 1 \in NewIn(g)
    <3>1. \A j \in 1..((n + 1) - 1) : g[j].pid # g[n + 1].pid
      BY <1>1, <1>2
    <3> QED
      BY <1>1, <1>3b, <3>1
  <2> QED
    BY <1>1a, <1>2, <1>3b, <2>2, <2>3
<1>5. K \subseteq NewIn(h) /\ K \in SUBSET (1..n) /\ trades = Only(h, K)
  <2>1. CASE m = 0
    <3>1. trades = << >> /\ K = {}
      <4>1. 0 \notin NewIn(h)
        BY <1>2
      <4> QED
        BY <1>3, <2>1, <4>1
    <3>2. Only(h, {}) = << >>
      <4>1. {} \in SUBSET (Nat \ {0})
        OBVIOUS
      <4> QED
        BY <4>1, OnlyHas
    <3> QED
      BY <3>1, <3>2
  <2>2. CASE m # 0
    BY <1>2, <1>3, <2>2 DEF WindowAt
  <2> QED
    BY <2>1, <2>2
<1>5a. \A k \in NewIn(h) : k \in K <=> (m # 0 /\ h[m].t - h[k].t <= Window)
  <2> TAKE k \in NewIn(h)
  <2>1. CASE m = 0
    BY <1>2, <1>3, <2>1
  <2>2. CASE m # 0
    BY <1>3, <2>2 DEF WindowAt
  <2> QED
    BY <2>1, <2>2
<1> HIDE DEF K
<1>6. Append(trades, e) = Only(g, M)
  <2>1. n + 1 \in M
    OBVIOUS
  <2>2. Only(g, M) = Append(Only(h, M), e)
    BY <1>3c, <2>1, OnlyAppend DEF n
  <2>3. \A i \in 1..Len(h) : i \in M <=> i \in K
    BY <1>1 DEF n
  <2>4. Only(h, M) = Only(h, K)
    BY <2>3, OnlySame
  <2> QED
    BY <1>5, <2>2, <2>4
<1>7. M \in SUBSET (Nat \ {0})
  BY <1>1, <1>5
<1>8. PICK d \in Nat : Cuts(g, M, e.t, d)
  BY <1>1, <1>7, OnlyCut
<1>9. \A k \in 1..Len(g) : k \in Beyond(M, d) <=> k \in WindowAt(g, n + 1)
  <2> TAKE k \in 1..Len(g)
  <2>0. k \in 1..(n + 1) /\ g[k].t \in Nat /\ e.t \in Nat /\ k <= n + 1 /\ n + 1 \in 1..(n + 1) /\ k <= Len(g)
    BY <1>1, <1>1c
  <2>1. ASSUME k \in Beyond(M, d) PROVE k \in WindowAt(g, n + 1)
    <3>1. k \in M /\ k > d /\ k \in NewIn(g)
      BY <1>4, <1>5, <2>1 DEF Beyond
    <3>2. PICK j \in M : j > d /\ j <= k /\ Near(g[j], e.t)
      BY <1>8, <2>0, <3>1 DEF Cuts
    <3>3. j \in 1..(n + 1)
      BY <1>1, <1>5
    <3>4. g[j].t <= g[k].t /\ g[j].t \in Nat
      BY <1>1, <1>1c, <1>3c, <2>0, <3>2, <3>3 DEF Rising
    <3>5. e.t - g[k].t <= Window
      BY <1>1b, <2>0, <3>2, <3>4 DEF Near
    <3> QED
      BY <1>1, <2>0, <3>1, <3>5 DEF WindowAt
  <2>2. ASSUME k \in WindowAt(g, n + 1) PROVE k \in Beyond(M, d)
    <3>1. k \in NewIn(g) /\ e.t - g[k].t <= Window
      BY <1>1, <2>2 DEF WindowAt
    <3>2. k \in M
      <4>1. CASE k = n + 1
        BY <4>1
      <4>2. CASE k # n + 1
        <5>1. k \in NewIn(h) /\ k \in 1..n /\ g[k] = h[k]
          BY <1>1, <1>2, <1>4, <3>1, <4>2
        <5>2. m \in NewIn(h) /\ m \in 1..n /\ m # 0 /\ g[m] = h[m] /\ m \in 1..(n + 1)
          BY <1>1, <1>2, <1>3, <5>1
        <5>3. g[m].t <= e.t /\ g[m].t \in Nat
          BY <1>1, <1>1c, <1>3c, <2>0, <5>2 DEF Rising
        <5>4. h[m].t - h[k].t <= Window
          BY <1>1b, <2>0, <3>1, <5>1, <5>2, <5>3
        <5> QED
          BY <1>5a, <5>1, <5>2, <5>4
      <4> QED
        BY <4>1, <4>2
    <3>3. k > d
      <4>1. Near(g[k], e.t)
        BY <3>1 DEF Near
      <4>2. ~(k <= d)
        BY <1>8, <2>0, <3>2, <4>1 DEF Cuts
      <4> QED
        BY <2>0, <4>2
    <3> QED
      BY <3>2, <3>3 DEF Beyond
  <2> QED
    BY <2>1, <2>2
<1>10. p = Only(g, WindowAt(g, n + 1))
  <2>1. p = Only(g, Beyond(M, d))
    BY <1>6, <1>8 DEF Cuts
  <2> HIDE DEF p, M
  <2> QED
    BY <1>1, <1>9, <2>1, OnlySame
<1> HIDE DEF p, M
<1>11. fed \cup {e.pid} = {g[k].pid : k \in 1..Len(g)}
  <2>1. ASSUME NEW x \in fed PROVE x \in {g[k].pid : k \in 1..Len(g)}
    <3>1. PICK k \in 1..n : x = h[k].pid
      BY <1>2, <2>1
    <3>2. k \in 1..Len(g) /\ g[k].pid = x
      BY <1>1, <3>1
    <3> QED
      BY <3>2
  <2>2. e.pid \in {g[k].pid : k \in 1..Len(g)}
    <3>1. n + 1 \in 1..Len(g) /\ g[n + 1].pid = e.pid
      BY <1>1
    <3> QED
      BY <3>1
  <2>3. ASSUME NEW x \in {g[k].pid : k \in 1..Len(g)} PROVE x \in fed \cup {e.pid}
    <3>1. PICK k \in 1..Len(g) : x = g[k].pid
      BY <2>3
    <3>2. k \in 1..n \/ k = n + 1
      BY <1>1, <1>1a, <3>1
    <3>3. CASE k \in 1..n
      BY <1>1, <1>2, <3>1, <3>3
    <3>4. CASE k = n + 1
      BY <1>1, <3>1, <3>4
    <3> QED
      BY <3>2, <3>3, <3>4
  <2> QED
    BY <2>1, <2>2, <2>3
<1>12. n + 1 \in NewIn(g) /\ \A j \in NewIn(g) : j <= n + 1
  BY <1>1, <1>2, <1>4
<1>13. DriftMemory(g, n + 1, p, Breaches(p), fed \cup {e.pid})
  BY <1>10, <1>11, <1>12 DEF DriftMemory
<1> DEFINE before == {j \in NewIn(g) : j < n + 1 /\ NewIn(g) \cap (j + 1)..n = {}}
<1>14. breached = UNION {Breaches(Only(g, WindowAt(g, k))) : k \in before}
  <2>1. CASE m = 0
    <3>1. NewIn(h) = {} /\ breached = {}
      BY <1>2, <1>3, <2>1
    <3>2. before = {}
      BY <1>1, <1>4, <3>1
    <3> QED
      BY <3>1, <3>2
  <2>2. CASE m # 0
    <3>1. m \in NewIn(h) /\ (\A j \in NewIn(h) : j <= m) /\ trades = Only(h, K) /\ breached = Breaches(trades)
      BY <1>3, <1>5, <2>2
    <3>1a. m \in 1..n
      BY <1>2, <3>1
    <3>2. before = {m}
      <4>1. m \in before
        BY <1>1, <1>2, <1>4, <3>1, <3>1a
      <4>2. ASSUME NEW j \in before PROVE j = m
        <5>1. j \in NewIn(h) /\ j \in 1..n
          BY <1>1, <1>2, <1>4
        <5>2. m \notin (j + 1)..n
          BY <1>4, <3>1
        <5> QED
          BY <1>1, <3>1, <3>1a, <5>1, <5>2
      <4> HIDE DEF before
      <4> QED
        BY <4>1, <4>2
    <3>3. Only(g, WindowAt(g, m)) = Only(h, K)
      <4>1. n + 1 \notin WindowAt(g, m)
        BY <1>1, <3>1a DEF WindowAt
      <4>2. Only(g, WindowAt(g, m)) = Only(h, WindowAt(g, m))
        BY <1>1, <1>3c, <4>1, OnlyAppend DEF n
      <4>3. \A k \in 1..Len(h) : k \in WindowAt(g, m) <=> k \in K
        <5> TAKE k \in 1..Len(h)
        <5>1. k \in 1..n /\ k # n + 1 /\ g[k] = h[k] /\ g[m] = h[m]
          BY <1>1, <3>1a DEF n
        <5>2. k \in NewIn(g) <=> k \in NewIn(h)
          BY <1>4, <5>1
        <5>3. CASE k \in NewIn(h)
          BY <1>5a, <2>2, <3>1, <5>1, <5>2, <5>3 DEF WindowAt
        <5>4. CASE k \notin NewIn(h)
          BY <1>5, <5>2, <5>4 DEF WindowAt
        <5> QED
          BY <5>3, <5>4
      <4> QED
        BY <4>2, <4>3, OnlySame
    <3> HIDE DEF before
    <3> QED
      BY <3>1, <3>2, <3>3
  <2> QED
    BY <2>1, <2>2
<1> QED
  BY <1>13, <1>14 DEF g, n, p

(* A position that was: nothing is kept of it. *)
LEMMA KnownPosition ==
  ASSUME NEW h \in Seq(DriftEvents), NEW e \in DriftEvents,
         NEW m \in Nat, NEW trades, NEW breached, NEW fed, DriftMemory(h, m, trades, breached, fed),
         e.pid \in fed
  PROVE  LET g == Append(h, e)
         IN /\ DriftMemory(g, m, trades, breached, fed)
            /\ Len(h) + 1 \notin NewIn(g)
<1> DEFINE g == Append(h, e)
           n == Len(h)
<1>1. g \in Seq(DriftEvents) /\ Len(g) = n + 1 /\ n \in Nat /\ g[n + 1] = e /\ \A k \in 1..n : g[k] = h[k]
  BY AppendProperties
<1>1a. \A k \in 1..(n + 1) : k \in 1..n \/ k = n + 1
  BY <1>1
<1>2. fed = {h[k].pid : k \in 1..n} /\ NewIn(h) \subseteq 1..n
  BY DEF DriftMemory, NewIn
<1>3. \/ m = 0 /\ NewIn(h) = {} /\ trades = << >> /\ breached = {}
      \/ /\ m \in NewIn(h) /\ \A j \in NewIn(h) : j <= m
         /\ trades = Only(h, WindowAt(h, m)) /\ breached = Breaches(trades)
  BY DEF DriftMemory
<1>3a. NewIn(h) = {k \in 1..n : \A j \in 1..(k - 1) : h[j].pid # h[k].pid}
  BY DEF NewIn
<1>3b. NewIn(g) = {k \in 1..(n + 1) : \A j \in 1..(k - 1) : g[j].pid # g[k].pid}
  BY <1>1 DEF NewIn
<1>3c. g = Append(h, e)
  OBVIOUS
<1> HIDE DEF g, n
<1>4. NewIn(g) = NewIn(h) /\ n + 1 \notin NewIn(g)
  <2>1. \A k \in 1..n : \A j \in 1..(k - 1) : j \in 1..n /\ g[j] = h[j] /\ g[k] = h[k]
    BY <1>1
  <2>2. \A k \in 1..n : k \in NewIn(g) <=> k \in NewIn(h)
    <3> TAKE k \in 1..n
    <3>1. k \in 1..(n + 1)
      BY <1>1
    <3>2. (\A j \in 1..(k - 1) : g[j].pid # g[k].pid) <=> (\A j \in 1..(k - 1) : h[j].pid # h[k].pid)
      BY <2>1
    <3>3. k \in NewIn(g) <=> (\A j \in 1..(k - 1) : g[j].pid # g[k].pid)
      BY <1>3b, <3>1
    <3>4. k \in NewIn(h) <=> (\A j \in 1..(k - 1) : h[j].pid # h[k].pid)
      BY <1>3a
    <3> QED
      BY <3>2, <3>3, <3>4
  <2>3. n + 1 \notin NewIn(g)
    <3>1. PICK j \in 1..n : e.pid = h[j].pid
      BY <1>2
    <3>2. j \in 1..((n + 1) - 1) /\ g[j].pid = g[n + 1].pid
      BY <1>1, <3>1
    <3> QED
      BY <1>3b, <3>2
  <2> QED
    BY <1>1a, <1>2, <1>3b, <2>2, <2>3
<1>5. {g[k].pid : k \in 1..Len(g)} = fed
  <2>1. ASSUME NEW x \in fed PROVE x \in {g[k].pid : k \in 1..Len(g)}
    <3>1. PICK k \in 1..n : x = h[k].pid
      BY <1>2, <2>1
    <3>2. k \in 1..Len(g) /\ g[k].pid = x
      BY <1>1, <3>1
    <3> QED
      BY <3>2
  <2>3. ASSUME NEW x \in {g[k].pid : k \in 1..Len(g)} PROVE x \in fed
    <3>1. PICK k \in 1..Len(g) : x = g[k].pid
      BY <2>3
    <3>2. k \in 1..n \/ k = n + 1
      BY <1>1, <1>1a, <3>1
    <3>3. CASE k \in 1..n
      BY <1>1, <1>2, <3>1, <3>3
    <3>4. CASE k = n + 1
      BY <1>1, <3>1, <3>4
    <3> QED
      BY <3>2, <3>3, <3>4
  <2> QED
    BY <2>1, <2>3
<1>6. m \in NewIn(h) => Only(g, WindowAt(g, m)) = Only(h, WindowAt(h, m))
  <2> SUFFICES ASSUME m \in NewIn(h) PROVE Only(g, WindowAt(g, m)) = Only(h, WindowAt(h, m))
    OBVIOUS
  <2>1. n + 1 \notin WindowAt(g, m)
    BY <1>4 DEF WindowAt
  <2>2. Only(g, WindowAt(g, m)) = Only(h, WindowAt(g, m))
    BY <1>1, <1>3c, <2>1, OnlyAppend DEF n
  <2>3. \A k \in 1..Len(h) : k \in WindowAt(g, m) <=> k \in WindowAt(h, m)
    <3> TAKE k \in 1..Len(h)
    <3>1. g[k] = h[k] /\ g[m] = h[m]
      BY <1>1, <1>2 DEF n
    <3> QED
      BY <1>4, <3>1 DEF WindowAt
  <2> QED
    BY <2>2, <2>3, OnlySame
<1> QED
  BY <1>3, <1>4, <1>5, <1>6 DEF DriftMemory, g, n

LEMMA DriftSteps == DriftInv /\ TellDrift => DriftInv'
<1> SUFFICES ASSUME DriftInv, TellDrift PROVE DriftInv'
  OBVIOUS
<1>1. PICK e \in DriftEvent : Tell("drift", e, OnDrift(memory, e), DriftRaises(memory, OnDrift(memory, e)))
  BY DEF TellDrift
<1> DEFINE n == Len(seen)
           p == Trim(Append(memory.trades, e), e.t)
<1>2. /\ seen' = Append(seen, e) /\ memory' = OnDrift(memory, e)
      /\ raised' = DriftRaises(memory, OnDrift(memory, e))
  BY <1>1 DEF Tell
<1>3. /\ seen \in Seq(DriftEvents) /\ Rising(seen)
      /\ memory = [trades |-> memory.trades, breached |-> memory.breached, fed |-> memory.fed]
  BY DEF DriftInv
<1>3a. PICK m \in Nat : DriftMemory(seen, m, memory.trades, memory.breached, memory.fed)
  BY DEF DriftInv
<1>4. e \in DriftEvents /\ seen' \in Seq(DriftEvents) /\ Rising(seen')
  BY <1>2, <1>3, DriftEventIs
<1>5. Len(seen') = n + 1 /\ n \in Nat /\ DOMAIN seen' = 1..(n + 1)
  BY <1>2, <1>3, <1>4, AppendProperties
<1> DEFINE before == {j \in NewIn(seen') : j < n + 1 /\ NewIn(seen') \cap (j + 1)..n = {}}
           Ends(k) == Breaches(Only(seen', WindowAt(seen', k)))
           what == IF n + 1 \in NewIn(seen') THEN Ends(n + 1) \ UNION {Ends(k) : k \in before} ELSE {}
<1>6. ASSUME e.pid \notin memory.fed PROVE
       /\ memory' = [trades |-> memory'.trades, breached |-> memory'.breached, fed |-> memory'.fed]
       /\ \E k \in Nat : DriftMemory(seen', k, memory'.trades, memory'.breached, memory'.fed)
       /\ raised' = what
  <2>1. /\ DriftMemory(seen', n + 1, p, Breaches(p), memory.fed \cup {e.pid})
        /\ memory.breached = UNION {Ends(k) : k \in before}
    <3>1. /\ DriftMemory(Append(seen, e), Len(seen) + 1, p, Breaches(p), memory.fed \cup {e.pid})
          /\ memory.breached = UNION {Breaches(Only(Append(seen, e), WindowAt(Append(seen, e), k))) :
                                   k \in {j \in NewIn(Append(seen, e)) : j < Len(seen) + 1 /\ NewIn(Append(seen, e)) \cap (j + 1)..Len(seen) = {}}}
      <4>1. Rising(Append(seen, e))
        BY <1>2, <1>4
      <4> QED
        BY <1>3, <1>3a, <1>4, <1>6, <4>1, NewPosition, Zenon
    <3> QED
      BY <1>2, <3>1, Zenon
  <2> HIDE DEF p
  <2>2. n + 1 \in NewIn(seen') /\ p = Only(seen', WindowAt(seen', n + 1))
    BY <1>5, <2>1 DEF DriftMemory
  <2>3. memory' = [trades |-> p, breached |-> Breaches(p), fed |-> memory.fed \cup {e.pid}]
    BY <1>2, <1>6 DEF OnDrift, p
  <2>4. /\ memory' = [trades |-> memory'.trades, breached |-> memory'.breached, fed |-> memory'.fed]
        /\ memory'.trades = p /\ memory'.breached = Breaches(p) /\ memory'.fed = memory.fed \cup {e.pid}
    BY <2>3
  <2>5. raised' = Breaches(p) \ memory.breached
    <3>1. raised' = memory'.breached \ memory.breached
      BY <1>2 DEF DriftRaises
    <3> QED
      BY <2>4, <3>1
  <2>6. raised' = what
    BY <2>1, <2>2, <2>5
  <2> HIDE DEF what
  <2>7. n + 1 \in Nat
    BY <1>5
  <2> QED
    BY <2>1, <2>4, <2>6, <2>7
<1>7. ASSUME e.pid \in memory.fed PROVE
       /\ memory' = [trades |-> memory'.trades, breached |-> memory'.breached, fed |-> memory'.fed]
       /\ \E k \in Nat : DriftMemory(seen', k, memory'.trades, memory'.breached, memory'.fed)
       /\ raised' = what
  <2>1. /\ DriftMemory(seen', m, memory.trades, memory.breached, memory.fed)
        /\ n + 1 \notin NewIn(seen')
    BY <1>2, <1>3, <1>3a, <1>4, <1>7, KnownPosition
  <2>2. memory' = memory
    BY <1>2, <1>7 DEF OnDrift
  <2>3. raised' = {}
    <3>1. raised' = memory'.breached \ memory.breached
      BY <1>2 DEF DriftRaises
    <3> QED
      BY <2>2, <3>1
  <2> QED
    BY <1>3, <2>1, <2>2, <2>3
<1> HIDE DEF what, p
<1>8.
       /\ memory' = [trades |-> memory'.trades, breached |-> memory'.breached, fed |-> memory'.fed]
       /\ \E k \in Nat : DriftMemory(seen', k, memory'.trades, memory'.breached, memory'.fed)
       /\ raised' = what
  BY <1>6, <1>7
<1> USE DEF what, p
<1>9. DriftIs(seen', raised')
  <2>1. (n + 1) - 1 = n /\ Len(seen') = n + 1
    BY <1>5
  <2> QED
    BY <1>8, <2>1 DEF DriftIs
<1> HIDE DEF what, p, n
<1> QED
  BY <1>4, <1>8, <1>9 DEF DriftInv

LEMMA DriftAnswers == DriftInv /\ seen # << >> => DriftExact
<1> SUFFICES ASSUME DriftInv, seen # << >> PROVE DriftExact
  OBVIOUS
<1>1. DriftIs(seen, raised) /\ DOMAIN seen = 1..Len(seen)
  BY DEF DriftInv
<1> DEFINE new == {k \in DOMAIN seen : \A j \in 1..(k - 1) : seen[j].pid # seen[k].pid}
<1>2. new = NewIn(seen)
  BY <1>1 DEF NewIn
<1> HIDE DEF new
<1> DEFINE before  == {j \in new : j < Len(seen) /\ new \cap (j + 1)..(Len(seen) - 1) = {}}
           Ends(k) == Breaches(Only(seen, {j \in new : j <= k /\ seen[k].t - seen[j].t <= Window}))
<1>3. raised = IF Len(seen) \in new THEN Ends(Len(seen)) \ UNION {Ends(k) : k \in before} ELSE {}
  BY <1>1, <1>2 DEF DriftIs, WindowAt
<1> HIDE DEF before, Ends
<1> QED
  BY <1>3, Zenon DEF DriftExact, before, Ends, new

(* The stream checker: what it keeps of a stream is the last event of the  *)
(* open connection (the greatest, for bookTicker), and how many were bad.  *)
Categories == {"market", "public"}
StreamEvents == {e \in [s : StreamName \cup Categories, id : Int, lo : Int] :
                   IF e.s \in Categories THEN e.id = Unset ELSE e.id \in Nat}
BeforeIn(h, s, k) == {j \in 1..(k - 1) : h[j].s = s /\ ~\E r \in j..k : h[r].s = CategoryOf(s)}
PrevIn(h, s, k)   == CHOOSE j \in BeforeIn(h, s, k) : \A i \in BeforeIn(h, s, k) : i <= j
Follows(h, s, k)  ==
  CASE s = "aggTrade"   -> h[k].id # h[PrevIn(h, s, k)].id + 1
    [] s = "bookTicker" -> \E j \in BeforeIn(h, s, k) : h[j].id > h[k].id
    [] s = "depth"      -> h[k].lo # h[PrevIn(h, s, k)].id
BadIn(h, s, k)    == h[k].s = s /\ BeforeIn(h, s, k) # {} /\ Follows(h, s, k)
BadOnes(h, s)     == {k \in 1..Len(h) : BadIn(h, s, k)}
OpenIn(h, s)      == {j \in 1..Len(h) : h[j].s = s /\ ~\E r \in j..Len(h) : h[r].s = CategoryOf(s)}
LastOne(h, s, l) ==
  \/ OpenIn(h, s) = {} /\ l = Unset
  \/ \E m \in OpenIn(h, s) :
       /\ l = h[m].id
       /\ \A j \in OpenIn(h, s) : IF s = "bookTicker" THEN h[j].id <= l ELSE j <= m
Counted(h, s, b) == IsFiniteSet(BadOnes(h, s)) /\ b = Cardinality(BadOnes(h, s))
StreamMemory(h, ends, breaks) ==
  /\ ends \in [StreamName -> Int] /\ breaks \in [StreamName -> Nat]
  /\ \A s \in StreamName : LastOne(h, s, ends[s]) /\ Counted(h, s, breaks[s])
StreamInv ==
  /\ seen \in Seq(StreamEvents)
  /\ memory = [last |-> memory.last, breaks |-> memory.breaks]
  /\ StreamMemory(seen, memory.last, memory.breaks)

LEMMA StreamStarts ==
  ASSUME seen = << >>, memory = Fresh("stream")
  PROVE  StreamInv
<1>1. memory = [last |-> [s \in StreamName |-> Unset], breaks |-> [s \in StreamName |-> 0]]
  BY DEF Fresh
<1>2. seen \in Seq(StreamEvents) /\ Len(seen) = 0
  OBVIOUS
<1>3. ASSUME NEW s \in StreamName PROVE LastOne(seen, s, Unset) /\ Counted(seen, s, 0)
  <2>1. OpenIn(seen, s) = {} /\ BadOnes(seen, s) = {}
    BY <1>2 DEF OpenIn, BadOnes
  <2> QED
    BY <2>1, FS_EmptySet DEF LastOne, Counted
<1>4. memory.last \in [StreamName -> Int] /\ memory.breaks \in [StreamName -> Nat]
      /\ \A s \in StreamName : memory.last[s] = Unset /\ memory.breaks[s] = 0
  BY <1>1 DEF Unset
<1>5. StreamMemory(seen, memory.last, memory.breaks)
  BY <1>3, <1>4 DEF StreamMemory
<1> QED
  BY <1>1, <1>2, <1>5 DEF StreamInv

LEMMA StreamEventIs == \A e \in StreamEvent : e \in StreamEvents
<1> TAKE e \in StreamEvent
<1>1. CASE e \in {[s |-> c, id |-> Unset, lo |-> Unset] : c \in {"market", "public"}}
  BY <1>1 DEF StreamEvents, Categories, Unset
<1>2. CASE e \in [s : {"aggTrade", "bookTicker"}, id : 1..3, lo : {Unset}]
  BY <1>2 DEF StreamEvents, Categories, StreamName, Unset
<1>3. CASE e \in {[s |-> "depth", id |-> x[2], lo |-> x[1]] : x \in {<<0, 1>>, <<1, 2>>, <<2, 3>>, <<1, 3>>}}
  <2>1. PICK x \in {<<0, 1>>, <<1, 2>>, <<2, 3>>, <<1, 3>>} : e = [s |-> "depth", id |-> x[2], lo |-> x[1]]
    BY <1>3
  <2>2. x[2] \in Nat /\ x[1] \in Int
    OBVIOUS
  <2> QED
    BY <2>1, <2>2 DEF StreamEvents, Categories, StreamName
<1> QED
  BY <1>1, <1>2, <1>3 DEF StreamEvent

(* One more event, as one stream sees it. *)
LEMMA StreamAppend ==
  ASSUME NEW h \in Seq(StreamEvents), NEW e \in StreamEvents, NEW s \in StreamName
  PROVE  LET g == Append(h, e)
             n == Len(h)
         IN /\ \A k \in 1..n : k \in BadOnes(g, s) <=> k \in BadOnes(h, s)
            /\ BeforeIn(g, s, n + 1) = IF e.s = CategoryOf(s) THEN {} ELSE OpenIn(h, s)
            /\ OpenIn(g, s) = IF e.s = CategoryOf(s) THEN {}
                              ELSE OpenIn(h, s) \cup (IF e.s = s THEN {n + 1} ELSE {})
<1> DEFINE g == Append(h, e)
           n == Len(h)
           c == CategoryOf(s)
<1>1. g \in Seq(StreamEvents) /\ Len(g) = n + 1 /\ n \in Nat /\ g[n + 1] = e /\ \A k \in 1..n : g[k] = h[k]
  BY AppendProperties
<1>1a. \A k \in 1..(n + 1) : k \in 1..n \/ k = n + 1
  BY <1>1
<1>1b. OpenIn(h, s) = {j \in 1..n : h[j].s = s /\ ~\E r \in j..n : h[r].s = c}
  BY DEF OpenIn
<1>1c. OpenIn(g, s) = {j \in 1..(n + 1) : g[j].s = s /\ ~\E r \in j..(n + 1) : g[r].s = c}
  BY <1>1 DEF OpenIn
<1>1d. c # s
  BY DEF CategoryOf, StreamName
<1>1e. BadOnes(h, s) = {k \in 1..n : BadIn(h, s, k)} /\ BadOnes(g, s) = {k \in 1..(n + 1) : BadIn(g, s, k)}
  BY <1>1 DEF BadOnes
<1> HIDE DEF g, n
<1>2. \A k \in 1..n : k \in BadOnes(g, s) <=> k \in BadOnes(h, s)
  <2> TAKE k \in 1..n
  <2>1. \A j \in 1..k : g[j] = h[j]
    BY <1>1
  <2>2. BeforeIn(g, s, k) = BeforeIn(h, s, k)
    <3>1. \A j \in 1..(k - 1) : g[j] = h[j] /\ \A r \in j..k : g[r] = h[r]
      BY <2>1
    <3> QED
      BY <3>1 DEF BeforeIn
  <2>3. PrevIn(g, s, k) = PrevIn(h, s, k)
    BY <2>2 DEF PrevIn
  <2>4. BeforeIn(h, s, k) # {} /\ s # "bookTicker" => g[PrevIn(h, s, k)] = h[PrevIn(h, s, k)]
    <3> SUFFICES ASSUME BeforeIn(h, s, k) # {} PROVE g[PrevIn(h, s, k)] = h[PrevIn(h, s, k)]
      OBVIOUS
    <3>0. BeforeIn(h, s, k) # {}
      OBVIOUS
    <3>1. BeforeIn(h, s, k) \subseteq 1..(k - 1)
      BY DEF BeforeIn
    <3>2. PrevIn(h, s, k) \in BeforeIn(h, s, k)
      <4>1. BeforeIn(h, s, k) \in SUBSET (0..k) /\ k \in Nat
        BY <3>1
      <4>3. \E j \in BeforeIn(h, s, k) : \A i \in BeforeIn(h, s, k) : i <= j
        BY <3>0, <4>1, Greatest
      <4> QED
        BY <4>3 DEF PrevIn
    <3> QED
      BY <2>1, <3>1, <3>2
  <2>5. \A j \in BeforeIn(h, s, k) : g[j] = h[j]
    BY <2>1 DEF BeforeIn
  <2>6. g[k] = h[k]
    BY <2>1
  <2>7. BadIn(g, s, k) <=> BadIn(h, s, k)
    <3>1. BeforeIn(h, s, k) # {} => (Follows(g, s, k) <=> Follows(h, s, k))
      BY <2>2, <2>3, <2>4, <2>5, <2>6 DEF Follows
    <3> QED
      BY <2>2, <2>6, <3>1 DEF BadIn
  <2>8. k \in 1..(n + 1)
    BY <1>1
  <2> QED
    BY <1>1e, <2>7, <2>8
<1>3. BeforeIn(g, s, n + 1) = IF e.s = c THEN {} ELSE OpenIn(h, s)
  <2>1. BeforeIn(g, s, n + 1) = {j \in 1..n : g[j].s = s /\ ~\E r \in j..(n + 1) : g[r].s = c}
    <3>1. (n + 1) - 1 = n
      BY <1>1
    <3> QED
      BY <3>1 DEF BeforeIn
  <2>2. \A j \in 1..n : (\E r \in j..(n + 1) : g[r].s = c) <=> (e.s = c \/ \E r \in j..n : h[r].s = c)
    <3> TAKE j \in 1..n
    <3>1. j..(n + 1) = j..n \cup {n + 1} /\ \A r \in j..n : g[r] = h[r]
      BY <1>1
    <3> QED
      BY <1>1, <3>1
  <2> QED
    BY <1>1, <1>1b, <2>1, <2>2
<1>4. OpenIn(g, s) = IF e.s = c THEN {} ELSE OpenIn(h, s) \cup (IF e.s = s THEN {n + 1} ELSE {})
  <2>1. \A j \in 1..n : (\E r \in j..(n + 1) : g[r].s = c) <=> (e.s = c \/ \E r \in j..n : h[r].s = c)
    <3> TAKE j \in 1..n
    <3>1. j..(n + 1) = j..n \cup {n + 1} /\ \A r \in j..n : g[r] = h[r]
      BY <1>1
    <3> QED
      BY <1>1, <3>1
  <2>2. (\E r \in (n + 1)..(n + 1) : g[r].s = c) <=> e.s = c
    BY <1>1
  <2>3. \A j \in 1..n : j \in OpenIn(g, s) <=> (e.s # c /\ j \in OpenIn(h, s))
    <3> TAKE j \in 1..n
    <3>1. j \in 1..(n + 1) /\ g[j] = h[j]
      BY <1>1
    <3> QED
      BY <1>1b, <1>1c, <2>1, <3>1
  <2>4. n + 1 \in OpenIn(g, s) <=> (e.s = s /\ e.s # c)
    <3>1. n + 1 \in 1..(n + 1)
      BY <1>1
    <3> QED
      BY <1>1, <1>1c, <2>2, <3>1
  <2>5. OpenIn(g, s) \subseteq 1..(n + 1) /\ OpenIn(h, s) \subseteq 1..n
    BY <1>1b, <1>1c
  <2> QED
    BY <1>1a, <2>3, <2>4, <2>5
<1> QED
  BY <1>2, <1>3, <1>4 DEF g, n

(* What the checker does with an event of a stream, and with the others. *)
LEMMA StreamBad ==
  ASSUME NEW h \in Seq(StreamEvents), NEW e \in StreamEvents, NEW s \in StreamName, e.s = s,
         NEW l \in Int, LastOne(h, s, l)
  PROVE  /\ BadIn(Append(h, e), s, Len(h) + 1) <=> Breaks(l, e)
         /\ l = Unset <=> OpenIn(h, s) = {}
<1> DEFINE g == Append(h, e)
           n == Len(h)
<1>1. g \in Seq(StreamEvents) /\ Len(g) = n + 1 /\ n \in Nat /\ g[n + 1] = e /\ \A k \in 1..n : g[k] = h[k]
  BY AppendProperties
<1>2. s # CategoryOf(s) /\ s \notin Categories
  BY DEF CategoryOf, StreamName, Categories
<1>3. BeforeIn(g, s, n + 1) = OpenIn(h, s)
  BY <1>2, StreamAppend
<1>4. OpenIn(h, s) \subseteq 1..n /\ \A j \in OpenIn(h, s) : h[j] \in StreamEvents /\ h[j].s = s
  BY DEF OpenIn
<1>5. \A j \in OpenIn(h, s) : h[j].id \in Nat
  BY <1>2, <1>4 DEF StreamEvents
<1>5a. e.id \in Nat /\ e.lo \in Int
  BY <1>2 DEF StreamEvents
<1> HIDE DEF g, n
<1>6. CASE OpenIn(h, s) = {}
  <2>1. l = Unset
    BY <1>6 DEF LastOne
  <2> QED
    BY <1>3, <1>6, <2>1 DEF BadIn, Breaks, g, n
<1>7. CASE OpenIn(h, s) # {}
  <2>1. PICK m \in OpenIn(h, s) : /\ l = h[m].id
                                  /\ \A j \in OpenIn(h, s) : IF s = "bookTicker" THEN h[j].id <= l ELSE j <= m
    BY <1>7 DEF LastOne
  <2>2. l \in Nat /\ l # Unset
    BY <1>5, <2>1 DEF Unset
  <2>3. g[m] = h[m]
    BY <1>1, <1>4, <2>1
  <2>4. s # "bookTicker" => PrevIn(g, s, n + 1) = m
    <3> SUFFICES ASSUME s # "bookTicker" PROVE PrevIn(g, s, n + 1) = m
      OBVIOUS
    <3>1. \A j \in OpenIn(h, s) : j <= m
      BY <2>1
    <3>2. \A j \in OpenIn(h, s) : (\A i \in OpenIn(h, s) : i <= j) => j = m
      BY <1>4, <3>1
    <3> QED
      BY <1>3, <3>1, <3>2 DEF PrevIn
  <2>5. Follows(g, s, n + 1) <=> Breaks(l, e)
    <3>1. CASE s = "aggTrade"
      BY <1>1, <2>1, <2>2, <2>3, <2>4, <3>1 DEF Follows, Breaks
    <3>2. CASE s = "depth"
      BY <1>1, <2>1, <2>2, <2>3, <2>4, <3>2 DEF Follows, Breaks
    <3>3. CASE s = "bookTicker"
      <4>1. Follows(g, s, n + 1) <=> \E j \in OpenIn(h, s) : g[j].id > g[n + 1].id
        BY <1>3, <3>3 DEF Follows
      <4>2. Breaks(l, e) <=> e.id < l
        BY <2>2, <3>3 DEF Breaks
      <4>3. \A j \in OpenIn(h, s) : g[j].id = h[j].id /\ h[j].id \in Nat /\ h[j].id <= l
        BY <1>1, <1>4, <1>5, <2>1, <3>3
      <4>4. g[n + 1].id = e.id
        BY <1>1
      <4>5. ASSUME e.id < l PROVE \E j \in OpenIn(h, s) : g[j].id > g[n + 1].id
        BY <1>5a, <2>1, <2>2, <2>3, <4>4, <4>5
      <4>6. ASSUME NEW j \in OpenIn(h, s), g[j].id > g[n + 1].id PROVE e.id < l
        BY <1>5a, <2>2, <4>3, <4>4, <4>6
      <4> QED
        BY <4>1, <4>2, <4>5, <4>6
    <3> QED
      BY <3>1, <3>2, <3>3 DEF StreamName
  <2> QED
    BY <1>1, <1>3, <1>7, <2>2, <2>5 DEF BadIn, g, n
<1> QED
  BY <1>6, <1>7

LEMMA StreamCounts ==
  ASSUME NEW h \in Seq(StreamEvents), NEW e \in StreamEvents, NEW s \in StreamName,
         NEW b \in Nat, Counted(h, s, b)
  PROVE  Counted(Append(h, e), s, b + IF BadIn(Append(h, e), s, Len(h) + 1) THEN 1 ELSE 0)
<1> DEFINE g == Append(h, e)
           n == Len(h)
           bad == BadIn(g, s, n + 1)
<1>1. Len(g) = n + 1 /\ n \in Nat
  BY AppendProperties
<1>2. \A k \in 1..n : k \in BadOnes(g, s) <=> k \in BadOnes(h, s)
  BY StreamAppend
<1>3. n + 1 \in BadOnes(g, s) <=> bad
  <2>1. n + 1 \in 1..Len(g)
    BY <1>1
  <2> QED
    BY <2>1 DEF BadOnes
<1>4. BadOnes(h, s) \subseteq 1..n /\ BadOnes(g, s) \subseteq 1..(n + 1)
  BY <1>1 DEF BadOnes
<1>4a. \A k \in 1..(n + 1) : k \in 1..n \/ k = n + 1
  BY <1>1
<1>5. IsFiniteSet(BadOnes(h, s)) /\ b = Cardinality(BadOnes(h, s))
  BY DEF Counted
<1> HIDE DEF g, n, bad
<1>6. BadOnes(g, s) = IF bad THEN BadOnes(h, s) \cup {n + 1} ELSE BadOnes(h, s)
  <2>1. \A k \in BadOnes(g, s) : k \in BadOnes(h, s) \/ (bad /\ k = n + 1)
    BY <1>2, <1>3, <1>4, <1>4a
  <2>2. \A k \in BadOnes(h, s) : k \in BadOnes(g, s)
    BY <1>2, <1>4
  <2> QED
    BY <1>3, <2>1, <2>2
<1>7. n + 1 \notin BadOnes(h, s)
  BY <1>1, <1>4
<1>8. IsFiniteSet(BadOnes(g, s)) /\ Cardinality(BadOnes(g, s)) = b + IF bad THEN 1 ELSE 0
  <2>1. CASE bad
    BY <1>5, <1>6, <1>7, <2>1, FS_AddElement
  <2>2. CASE ~bad
    BY <1>5, <1>6, <2>2
  <2> QED
    BY <2>1, <2>2
<1> QED
  BY <1>8 DEF Counted, g, n, bad

LEMMA StreamMine ==
  ASSUME NEW h \in Seq(StreamEvents), NEW e \in StreamEvents, NEW s \in StreamName, e.s = s,
         NEW l \in Int, LastOne(h, s, l)
  PROVE  LastOne(Append(h, e), s, NextId(l, e)) /\ NextId(l, e) \in Int
<1> DEFINE g == Append(h, e)
           n == Len(h)
           l2 == NextId(l, e)
<1>1. g \in Seq(StreamEvents) /\ Len(g) = n + 1 /\ n \in Nat /\ g[n + 1] = e /\ \A k \in 1..n : g[k] = h[k]
  BY AppendProperties
<1>2. s # CategoryOf(s) /\ s \notin Categories
  BY DEF CategoryOf, StreamName, Categories
<1>3. OpenIn(g, s) = OpenIn(h, s) \cup {n + 1}
  BY <1>2, StreamAppend
<1>4. OpenIn(h, s) \subseteq 1..n /\ \A j \in OpenIn(h, s) : h[j] \in StreamEvents /\ h[j].s = s
  BY DEF OpenIn
<1>5. \A j \in OpenIn(h, s) : h[j].id \in Nat /\ g[j] = h[j] /\ j <= n
  BY <1>1, <1>2, <1>4 DEF StreamEvents
<1>5a. e.id \in Nat
  BY <1>2 DEF StreamEvents
<1>6. l = Unset <=> OpenIn(h, s) = {}
  BY StreamBad
<1>7. l2 \in Int
  BY <1>5a DEF NextId
<1> HIDE DEF g, n, l2
<1>8. CASE s = "bookTicker" /\ l # Unset /\ e.id < l
  <2>1. PICK m \in OpenIn(h, s) : l = h[m].id /\ \A j \in OpenIn(h, s) : h[j].id <= l
    BY <1>6, <1>8 DEF LastOne
  <2>2. l2 = l
    BY <1>8 DEF NextId, l2
  <2>3. m \in OpenIn(g, s) /\ l2 = g[m].id
    BY <1>3, <1>5, <2>1, <2>2
  <2>4. \A j \in OpenIn(g, s) : g[j].id <= l2
    BY <1>1, <1>3, <1>5, <1>5a, <1>8, <2>1, <2>2
  <2>5. LastOne(g, s, l2)
    BY <1>8, <2>3, <2>4 DEF LastOne
  <2> QED
    BY <1>7, <2>5 DEF g, l2
<1>9. CASE ~(s = "bookTicker" /\ l # Unset /\ e.id < l)
  <2>2. l2 = e.id
    BY <1>9 DEF NextId, l2
  <2>3. n + 1 \in OpenIn(g, s) /\ l2 = g[n + 1].id
    BY <1>1, <1>3, <2>2
  <2>4. ASSUME s = "bookTicker" PROVE \A j \in OpenIn(h, s) : h[j].id <= e.id
    <3>1. CASE l = Unset
      BY <1>6, <3>1
    <3>2. CASE l # Unset
      <4>1. \A j \in OpenIn(h, s) : h[j].id <= l
        BY <1>6, <2>4, <3>2 DEF LastOne
      <4>2. l <= e.id
        BY <1>5a, <1>9, <2>4, <3>2
      <4> QED
        BY <1>5, <1>5a, <4>1, <4>2
    <3> QED
      BY <3>1, <3>2
  <2>5. \A j \in OpenIn(g, s) : IF s = "bookTicker" THEN g[j].id <= l2 ELSE j <= n + 1
    <3> TAKE j \in OpenIn(g, s)
    <3>1. CASE j = n + 1
      BY <1>1, <1>5a, <2>2, <3>1
    <3>2. CASE j \in OpenIn(h, s)
      <4>1. h[j].id \in Nat /\ g[j] = h[j] /\ j <= n /\ j \in Nat
        BY <1>1, <1>4, <1>5, <3>2
      <4>2. j <= n + 1
        BY <1>1, <4>1
      <4> QED
        BY <2>2, <2>4, <3>2, <4>1, <4>2
    <3> QED
      BY <1>3, <3>1, <3>2
  <2>6. LastOne(g, s, l2)
    BY <2>3, <2>5 DEF LastOne
  <2> QED
    BY <1>7, <2>6 DEF g, l2
<1> QED
  BY <1>8, <1>9

LEMMA StreamOther ==
  ASSUME NEW h \in Seq(StreamEvents), NEW e \in StreamEvents, NEW s \in StreamName, e.s # s,
         NEW l \in Int, LastOne(h, s, l)
  PROVE  LastOne(Append(h, e), s, IF CategoryOf(s) = e.s THEN Unset ELSE l)
<1> DEFINE g == Append(h, e)
           n == Len(h)
<1>1. Len(g) = n + 1 /\ n \in Nat /\ \A k \in 1..n : g[k] = h[k]
  BY AppendProperties
<1>3. OpenIn(g, s) = IF e.s = CategoryOf(s) THEN {} ELSE OpenIn(h, s)
  <2>1. ASSUME e.s = CategoryOf(s) PROVE OpenIn(g, s) = {}
    BY <2>1, StreamAppend
  <2>2. ASSUME e.s # CategoryOf(s) PROVE OpenIn(g, s) = OpenIn(h, s) \cup {}
    <3>1. OpenIn(g, s) = OpenIn(h, s) \cup (IF e.s = s THEN {n + 1} ELSE {})
      BY <2>2, StreamAppend
    <3> HIDE DEF g, n
    <3> QED
      BY <3>1
  <2> HIDE DEF g, n
  <2> QED
    BY <2>1, <2>2
<1>4. OpenIn(h, s) \subseteq 1..n
  BY DEF OpenIn
<1> HIDE DEF g, n
<1>5. \A j \in OpenIn(h, s) : g[j] = h[j]
  BY <1>1, <1>4
<1>6. CASE e.s = CategoryOf(s)
  <2>1. LastOne(g, s, Unset)
    BY <1>3, <1>6 DEF LastOne
  <2> QED
    BY <1>6, <2>1 DEF g
<1>7. CASE e.s # CategoryOf(s)
  <2>1. LastOne(g, s, l)
    BY <1>3, <1>5, <1>7 DEF LastOne
  <2> QED
    BY <1>7, <2>1 DEF g
<1> QED
  BY <1>6, <1>7

LEMMA StreamSteps == StreamInv /\ TellStream => StreamInv'
<1> SUFFICES ASSUME StreamInv, TellStream PROVE StreamInv'
  OBVIOUS
<1>1. PICK e \in StreamEvent : Tell("stream", e, OnStream(memory, e), {})
  BY DEF TellStream
<1>2. seen' = Append(seen, e) /\ memory' = OnStream(memory, e)
  BY <1>1 DEF Tell
<1>3. /\ seen \in Seq(StreamEvents) /\ memory = [last |-> memory.last, breaks |-> memory.breaks]
      /\ StreamMemory(seen, memory.last, memory.breaks)
  BY DEF StreamInv
<1>4. e \in StreamEvents
  BY StreamEventIs
<1>5. seen' \in Seq(StreamEvents) /\ DOMAIN seen' = 1..Len(seen')
  BY <1>2, <1>3, <1>4, AppendProperties
<1> DEFINE n == Len(seen)
           ends == memory.last
           breaks == memory.breaks
           last2 == [s \in StreamName |-> IF e.s = s THEN NextId(ends[s], e) ELSE IF CategoryOf(s) = e.s THEN Unset ELSE ends[s]]
           breaks2 == [s \in StreamName |-> breaks[s] + IF BadIn(seen', s, n + 1) THEN 1 ELSE 0]
<1>6. ends \in [StreamName -> Int] /\ breaks \in [StreamName -> Nat]
      /\ \A s \in StreamName : LastOne(seen, s, ends[s]) /\ Counted(seen, s, breaks[s])
  BY <1>3 DEF StreamMemory
<1>7. \A s \in StreamName : BadIn(seen', s, n + 1) <=> (e.s = s /\ Breaks(ends[s], e))
  <2> TAKE s \in StreamName
  <2>1. CASE e.s = s
    BY <1>2, <1>3, <1>4, <1>6, <2>1, StreamBad
  <2>2. CASE e.s # s
    <3>1. seen'[n + 1] = e
      BY <1>2, <1>3, <1>4, AppendProperties
    <3> QED
      BY <2>2, <3>1 DEF BadIn
  <2> QED
    BY <2>1, <2>2
<1>8. e.id = Unset <=> e.s \notin StreamName
  BY <1>4 DEF StreamEvents, StreamName, Categories, Unset
<1>9. memory' = [last |-> last2, breaks |-> breaks2]
  <2> HIDE DEF ends, breaks, n
  <2>1. CASE e.id = Unset
    <3>1. memory' = [memory EXCEPT !.last = [s \in StreamName |-> IF CategoryOf(s) = e.s THEN Unset ELSE ends[s]]]
      BY <1>2, <2>1 DEF OnStream, ends
    <3>2. memory' = [last |-> [s \in StreamName |-> IF CategoryOf(s) = e.s THEN Unset ELSE ends[s]], breaks |-> breaks]
      BY <1>3, <3>1 DEF ends, breaks
    <3>3. last2 = [s \in StreamName |-> IF CategoryOf(s) = e.s THEN Unset ELSE ends[s]]
      BY <1>8, <2>1
    <3>4. breaks2 = breaks
      <4>1. \A s \in StreamName : breaks2[s] = breaks[s]
        BY <1>6, <1>7, <1>8, <2>1
      <4> QED
        BY <1>6, <4>1
    <3> QED
      BY <3>2, <3>3, <3>4
  <2>2. CASE e.id # Unset
    <3>1. memory' = [last |-> [ends EXCEPT ![e.s] = NextId(ends[e.s], e)],
                     breaks |-> [breaks EXCEPT ![e.s] = @ + (IF Breaks(ends[e.s], e) THEN 1 ELSE 0)]]
      BY <1>2, <2>2 DEF OnStream, ends, breaks
    <3>2. e.s \in StreamName
      BY <1>8, <2>2
    <3>3. \A s \in StreamName : CategoryOf(s) # e.s
      BY <3>2 DEF StreamName, CategoryOf
    <3>4. last2 = [ends EXCEPT ![e.s] = NextId(ends[e.s], e)]
      BY <1>6, <3>2, <3>3
    <3>5. breaks2 = [breaks EXCEPT ![e.s] = @ + (IF Breaks(ends[e.s], e) THEN 1 ELSE 0)]
      <4>1. ASSUME NEW s \in StreamName, s # e.s PROVE breaks2[s] = breaks[s]
        BY <1>6, <1>7, <4>1
      <4>2. breaks2[e.s] = breaks[e.s] + (IF Breaks(ends[e.s], e) THEN 1 ELSE 0)
        BY <1>6, <1>7, <3>2
      <4>3. DOMAIN breaks = StreamName /\ DOMAIN breaks2 = StreamName
        BY <1>6
      <4>4. breaks2 \in [StreamName -> Int] /\ breaks \in [StreamName -> Int]
        BY <1>6
      <4> HIDE DEF breaks2, breaks
      <4> DEFINE b == breaks[e.s] + (IF Breaks(ends[e.s], e) THEN 1 ELSE 0)
      <4>5. breaks2[e.s] = b
        BY <4>2
      <4> HIDE DEF b
      <4>6. breaks2 = [breaks EXCEPT ![e.s] = b]
        BY <3>2, <4>1, <4>4, <4>5
      <4> USE DEF b
      <4> QED
        BY <4>6, Zenon
    <3> QED
      BY <3>1, <3>4, <3>5
  <2> QED
    BY <2>1, <2>2
<1>10. last2 \in [StreamName -> Int] /\ \A s \in StreamName : LastOne(seen', s, last2[s])
  <2>1. ASSUME NEW s \in StreamName PROVE last2[s] \in Int /\ LastOne(seen', s, last2[s])
    <3>1. CASE e.s = s
      <4>1. last2[s] = NextId(ends[s], e)
        BY <3>1
      <4> HIDE DEF last2
      <4> QED
        BY <1>2, <1>3, <1>4, <1>6, <3>1, <4>1, StreamMine
    <3>2. CASE e.s # s
      <4>1. last2[s] = IF CategoryOf(s) = e.s THEN Unset ELSE ends[s]
        BY <3>2
      <4> HIDE DEF last2
      <4>2. last2[s] \in Int
        BY <1>6, <4>1 DEF Unset
      <4> QED
        BY <1>2, <1>3, <1>4, <1>6, <3>2, <4>1, <4>2, StreamOther
    <3> QED
      BY <3>1, <3>2
  <2> QED
    BY <2>1
<1>11. breaks2 \in [StreamName -> Nat] /\ \A s \in StreamName : Counted(seen', s, breaks2[s])
  <2>1. ASSUME NEW s \in StreamName PROVE breaks2[s] \in Nat /\ Counted(seen', s, breaks2[s])
    <3>1. breaks2[s] = breaks[s] + IF BadIn(seen', s, n + 1) THEN 1 ELSE 0
      OBVIOUS
    <3> HIDE DEF breaks2
    <3>2. breaks2[s] \in Nat
      BY <1>6, <3>1
    <3> QED
      BY <1>2, <1>3, <1>4, <1>6, <3>1, <3>2, StreamCounts
  <2> QED
    BY <2>1
<1> HIDE DEF last2, breaks2
<1>12. memory' = [last |-> memory'.last, breaks |-> memory'.breaks] /\ memory'.last = last2 /\ memory'.breaks = breaks2
  BY <1>9
<1>13. StreamMemory(seen', memory'.last, memory'.breaks)
  BY <1>10, <1>11, <1>12 DEF StreamMemory
<1> QED
  BY <1>5, <1>12, <1>13 DEF StreamInv

LEMMA StreamAnswers == StreamInv => StreamExact
<1> SUFFICES ASSUME StreamInv PROVE StreamExact
  OBVIOUS
<1>1. DOMAIN seen = 1..Len(seen) /\ StreamMemory(seen, memory.last, memory.breaks)
  BY DEF StreamInv
<1>2. \A s \in StreamName : memory.breaks[s] = Cardinality({k \in DOMAIN seen : BadIn(seen, s, k)})
  BY <1>1 DEF StreamMemory, Counted, BadOnes
<1> QED
  BY <1>2, Zenon DEF StreamExact, BadIn, BeforeIn, Follows, PrevIn

(* The beta tracker: what it keeps of a coin is a growing sequence, the    *)
(* end of the minutes the coin has a return of.                            *)
Values(q)  == {q[k] : k \in DOMAIN q}
Growing(q) == q \in Seq(Nat) /\ \A i, j \in 1..Len(q) : i < j => q[i] < q[j]
Tailing(q, R) ==
  /\ Growing(q) /\ Len(q) <= Window /\ Values(q) \subseteq R
  /\ \A r \in R \ Values(q) : Len(q) = Window /\ \A v \in Values(q) : r < v

LEMMA GrowingCounts ==
  ASSUME NEW q, Growing(q)
  PROVE  /\ Values(q) \in SUBSET Nat /\ IsFiniteSet(Values(q))
         /\ Cardinality(Values(q)) = Len(q) /\ Len(q) \in Nat
<1> DEFINE n == Len(q)
<1>1. q \in Seq(Nat) /\ n \in Nat /\ DOMAIN q = 1..n /\ q \in [1..n -> Nat]
  BY DEF Growing
<1>2. \A i, j \in 1..n : i < j => q[i] < q[j]
  BY DEF Growing
<1>3. Values(q) = {q[k] : k \in 1..n}
  BY <1>1 DEF Values
<1> HIDE DEF n
<1>4. q \in Bijection(1..n, Values(q))
  <2>1. q \in [1..n -> Values(q)]
    BY <1>1, <1>3
  <2>2. \A i, j \in 1..n : q[i] = q[j] => i = j
    <3> TAKE i, j \in 1..n
    <3>1. q[i] \in Nat /\ q[j] \in Nat /\ i \in Nat /\ j \in Nat
      BY <1>1
    <3>2. (i < j => q[i] < q[j]) /\ (j < i => q[j] < q[i])
      BY <1>2
    <3> QED
      BY <3>1, <3>2
  <2>3. \A v \in Values(q) : \E i \in 1..n : q[i] = v
    BY <1>3
  <2> QED
    BY <1>1, <2>1, <2>2, <2>3 DEF Bijection, Injection, Surjection, IsInjective
<1>5. ExistsBijection(1..n, Values(q))
  BY <1>4 DEF ExistsBijection
<1>6. IsFiniteSet(Values(q)) /\ Cardinality(Values(q)) = n
  BY <1>1, <1>5, FS_NatBijection, FS_CountingElements
<1> QED
  BY <1>1, <1>3, <1>6 DEF n

(* One more return. *)
LEMMA TailingMore ==
  ASSUME NEW q, NEW R \in SUBSET Nat, Tailing(q, R), NEW x \in Nat, \A r \in R : r < x
  PROVE  Tailing(LastFew(Append(q, x)), R \cup {x})
<1> DEFINE n == Len(q)
           p == Append(q, x)
<1>1. q \in Seq(Nat) /\ n \in Nat /\ n <= Window /\ Values(q) \subseteq R
      /\ \A r \in R \ Values(q) : n = Window /\ \A v \in Values(q) : r < v
  BY DEF Tailing, Growing
<1>2. \A i, j \in 1..n : i < j => q[i] < q[j]
  BY DEF Tailing, Growing
<1>3. p \in Seq(Nat) /\ Len(p) = n + 1 /\ DOMAIN p = 1..(n + 1) /\ p[n + 1] = x /\ \A k \in 1..n : p[k] = q[k]
  BY <1>1, AppendProperties
<1>4. Values(q) = {q[k] : k \in 1..n}
  BY <1>1 DEF Values
<1>4a. \A k \in 1..(n + 1) : k \in 1..n \/ k = n + 1
  BY <1>1
<1>4b. \A k \in 1..n : q[k] \in Nat
  BY <1>1
<1>4c. Window \in Nat
  BY MonAssumption
<1> HIDE DEF n, p
<1>5. Growing(p)
  <2>1. ASSUME NEW i \in 1..(n + 1), NEW j \in 1..(n + 1), i < j PROVE p[i] < p[j]
    <3>1. i \in 1..n
      BY <1>1, <2>1
    <3>2. CASE j \in 1..n
      BY <1>2, <1>3, <2>1, <3>1, <3>2
    <3>3. CASE j = n + 1
      BY <1>1, <1>3, <1>4, <3>1, <3>3
    <3> QED
      BY <1>4a, <3>2, <3>3
  <2> QED
    BY <1>3, <2>1 DEF Growing
<1>6. Values(p) = Values(q) \cup {x}
  <2>1. Values(p) = {p[k] : k \in 1..(n + 1)}
    BY <1>3 DEF Values
  <2>2. \A k \in 1..n : k \in 1..(n + 1)
    BY <1>1
  <2>3. n + 1 \in 1..(n + 1)
    BY <1>1
  <2> QED
    BY <1>3, <1>4, <1>4a, <2>1, <2>2, <2>3
<1>7. CASE n + 1 <= Window
  <2>1. LastFew(p) = p
    BY <1>1, <1>3, <1>4c, <1>7 DEF LastFew
  <2>2. \A r \in (R \cup {x}) \ Values(p) : r \in R \ Values(q)
    BY <1>6
  <2>3. n # Window
    BY <1>1, <1>4c, <1>7
  <2>4. Values(p) \subseteq R \cup {x}
    BY <1>1, <1>6
  <2>5. \A r \in (R \cup {x}) \ Values(p) : FALSE
    BY <1>1, <2>2, <2>3
  <2> QED
    BY <1>3, <1>5, <1>7, <2>1, <2>4, <2>5 DEF Tailing, p
<1>8. CASE ~(n + 1 <= Window)
  <2>0. n = Window
    BY <1>1, <1>4c, <1>8
  <2>1. LastFew(p) = Tail(p)
    BY <1>1, <1>3, <2>0 DEF LastFew
  <2> DEFINE t == Tail(p)
  <2>2. t \in Seq(Nat) /\ Len(t) = n /\ DOMAIN t = 1..n /\ \A k \in 1..n : t[k] = p[k + 1]
    BY <1>1, <1>3
  <2> HIDE DEF t
  <2>3. Growing(t)
    <3>1. ASSUME NEW i \in 1..n, NEW j \in 1..n, i < j PROVE t[i] < t[j]
      <4>1. i + 1 \in 1..(n + 1) /\ j + 1 \in 1..(n + 1) /\ i + 1 < j + 1
        BY <1>1, <3>1
      <4>2. p[i + 1] < p[j + 1]
        BY <1>3, <1>5, <4>1 DEF Growing
      <4> QED
        BY <2>2, <4>2
    <3> QED
      BY <2>2, <3>1 DEF Growing
  <2>4. Values(t) = {p[k + 1] : k \in 1..n}
    BY <2>2 DEF Values
  <2>5. Values(p) = {p[k] : k \in 1..(n + 1)}
    BY <1>3 DEF Values
  <2>6. Values(t) \subseteq Values(p) /\ Values(t) \in SUBSET Nat
    <3>1. \A k \in 1..n : k + 1 \in 1..(n + 1)
      BY <1>1
    <3>2. \A k \in 1..(n + 1) : p[k] \in Nat
      BY <1>3
    <3> QED
      BY <2>4, <2>5, <3>1, <3>2
  <2>7. \A u \in Values(p) \ Values(t) : u = p[1]
    <3> TAKE u \in Values(p) \ Values(t)
    <3>1. PICK k \in 1..(n + 1) : u = p[k]
      BY <2>5
    <3>2. CASE k = 1
      BY <3>1, <3>2
    <3>3. CASE k # 1
      <4>1. k - 1 \in 1..n /\ (k - 1) + 1 = k
        BY <1>1, <3>3
      <4>2. t[k - 1] = u /\ k - 1 \in DOMAIN t
        BY <2>2, <3>1, <4>1
      <4> QED
        BY <4>2 DEF Values
    <3> QED
      BY <3>2, <3>3
  <2>8. \A v \in Values(t) : p[1] < v
    <3> TAKE v \in Values(t)
    <3>1. PICK k \in 1..n : v = p[k + 1]
      BY <2>4
    <3>2. 1 \in 1..(n + 1) /\ k + 1 \in 1..(n + 1) /\ 1 < k + 1
      BY <1>1
    <3> QED
      BY <1>3, <1>5, <3>1, <3>2 DEF Growing
  <2>9. ASSUME NEW r \in (R \cup {x}) \ Values(t), NEW v \in Values(t) PROVE r < v
    <3>1. CASE r \in Values(p)
      BY <2>7, <2>8, <3>1
    <3>2. CASE r \notin Values(p)
      <4>1. r \in R \ Values(q)
        BY <1>6, <3>2
      <4>2. v \in Values(q) \/ v = x
        BY <1>6, <2>6
      <4> QED
        BY <1>1, <4>1, <4>2
    <3> QED
      BY <3>1, <3>2
  <2>10. Values(t) \subseteq R \cup {x}
    BY <1>1, <1>6, <2>6
  <2>11. Tailing(t, R \cup {x})
    BY <1>1, <2>0, <2>2, <2>3, <2>9, <2>10 DEF Tailing
  <2> QED
    BY <2>1, <2>11 DEF t, p
<1> QED
  BY <1>7, <1>8

(* What is kept of two coins, against the research's series. *)
LEMMA LastOfFew ==
  ASSUME NEW C \in SUBSET Nat, IsFiniteSet(C)
  PROVE  /\ IsFiniteSet(LastOf(C)) /\ LastOf(C) \subseteq C
         /\ Cardinality(LastOf(C)) \in Nat /\ Cardinality(LastOf(C)) <= Window
<1> DEFINE S == LastOf(C)
<1>0. Window \in Nat
  BY MonAssumption
<1>1. S \subseteq C /\ IsFiniteSet(S) /\ Cardinality(S) \in Nat
  BY FS_Subset, FS_CardinalityType DEF LastOf
<1>1a. \A t \in S : Cardinality({u \in C : t < u}) < Window
  BY DEF LastOf
<1> HIDE DEF S
<1>2. CASE S = {}
  BY <1>0, <1>1, <1>2, FS_EmptySet DEF S
<1>3. CASE S # {}
  <2>1. PICK t \in S : \A u \in S : t <= u
    <3>1. S \in SUBSET Nat
      BY <1>1
    <3> QED
      BY <1>3, <3>1, Least
  <2> DEFINE U == {u \in C : t < u}
  <2>2. S \ {t} \subseteq U
    BY <1>1, <2>1
  <2>3. IsFiniteSet(U) /\ Cardinality(U) \in Nat /\ Cardinality(U) < Window
    <3>1. IsFiniteSet(U)
      BY FS_Subset
    <3> QED
      BY <1>1a, <3>1, FS_CardinalityType
  <2> HIDE DEF U
  <2>4. Cardinality(S \ {t}) <= Cardinality(U) /\ IsFiniteSet(S \ {t})
    BY <2>2, <2>3, FS_Subset
  <2>5. Cardinality(S \ {t}) = Cardinality(S) - 1
    BY <1>1, FS_RemoveElement
  <2>6. Cardinality(S) <= Window
    BY <1>0, <1>1, <2>3, <2>4, <2>5
  <2> QED
    BY <1>1, <2>6 DEF S
<1> QED
  BY <1>2, <1>3

LEMMA TailingKeeps ==
  ASSUME NEW q, NEW R \in SUBSET Nat, IsFiniteSet(R), Tailing(q, R), NEW C \in SUBSET R
  PROVE  /\ Values(q) \cap C \subseteq LastOf(C)
         /\ \A t \in LastOf(C), v \in Values(q) : v < t => t \in Values(q)
         /\ IsFiniteSet(LastOf(C) \ Values(q))
         /\ Cardinality(LastOf(C) \ Values(q)) <= Cardinality(R \ C)
<1> DEFINE V == Values(q)
           S == LastOf(C)
<1>0. Window \in Nat
  BY MonAssumption
<1>1. /\ V \in SUBSET Nat /\ IsFiniteSet(V) /\ Cardinality(V) = Len(q) /\ Len(q) \in Nat
      /\ Len(q) <= Window /\ V \subseteq R
      /\ \A r \in R \ V : Len(q) = Window /\ \A v \in V : r < v
  BY GrowingCounts DEF Tailing
<1>2. /\ IsFiniteSet(C) /\ IsFiniteSet(S) /\ S \subseteq C
      /\ Cardinality(S) \in Nat /\ Cardinality(S) <= Window
  BY FS_Subset, LastOfFew
<1>2a. S = {t \in C : Cardinality({u \in C : t < u}) < Window}
  BY DEF LastOf
<1> HIDE DEF V, S
<1>3. V \cap C \subseteq S
  <2> SUFFICES ASSUME NEW t \in V \cap C PROVE Cardinality({u \in C : t < u}) < Window
    BY <1>2a
  <2> DEFINE U == {u \in C : t < u}
  <2>1. \A u \in U : u \in V \ {t}
    <3> TAKE u \in U
    <3>1. u \in R /\ t < u /\ t \in Nat /\ u \in Nat
      BY <1>1
    <3>2. CASE u \in V
      BY <3>1, <3>2
    <3>3. CASE u \notin V
      BY <1>1, <3>1, <3>3
    <3> QED
      BY <3>2, <3>3
  <2> HIDE DEF U
  <2>2. Cardinality(U) <= Cardinality(V \ {t}) /\ IsFiniteSet(V \ {t})
    <3>1. IsFiniteSet(V \ {t})
      BY <1>1, FS_Subset
    <3> QED
      BY <2>1, <3>1, FS_Subset
  <2>3. Cardinality(V \ {t}) = Cardinality(V) - 1
    BY <1>1, FS_RemoveElement
  <2>4. Cardinality(U) \in Nat
    <3>1. IsFiniteSet(U)
      BY <2>1, <2>2, FS_Subset
    <3> QED
      BY <3>1, FS_CardinalityType
  <2> QED
    BY <1>0, <1>1, <2>2, <2>3, <2>4 DEF U
<1>4. \A t \in S, v \in V : v < t => t \in V
  <2> SUFFICES ASSUME NEW t \in S, NEW v \in V, v < t, t \notin V PROVE FALSE
    OBVIOUS
  <2>1. t \in R /\ t \in Nat /\ v \in Nat
    BY <1>1, <1>2
  <2>2. t < v
    BY <1>1, <2>1
  <2> QED
    BY <2>1, <2>2
<1>5. IsFiniteSet(S \ V) /\ Cardinality(S \ V) <= Cardinality(R \ C)
  <2>0. IsFiniteSet(S \ V) /\ IsFiniteSet(R \ C) /\ Cardinality(R \ C) \in Nat
    BY <1>2, FS_Subset, FS_CardinalityType
  <2>1. CASE S \ V = {}
    <3>1. Cardinality(S \ V) = 0
      BY <2>1, FS_EmptySet
    <3> QED
      BY <2>0, <3>1
  <2>2. CASE S \ V # {}
    <3>1. Len(q) = Window
      BY <1>1, <1>2, <2>2
    <3>2. S = (S \ V) \cup (V \cap C) /\ (S \ V) \cap (V \cap C) = {}
      BY <1>2, <1>3
    <3>3. V = (V \ C) \cup (V \cap C) /\ (V \ C) \cap (V \cap C) = {}
      OBVIOUS
    <3>4. IsFiniteSet(V \ C) /\ IsFiniteSet(V \cap C) /\ V \ C \subseteq R \ C
      BY <1>1, FS_Subset
    <3> DEFINE a == Cardinality(S \ V)
               b == Cardinality(V \cap C)
               c == Cardinality(V \ C)
    <3>5. Cardinality(S) = a + b
      <4>1. Cardinality((S \ V) \cup (V \cap C)) = a + b - Cardinality((S \ V) \cap (V \cap C))
        BY <2>0, <3>4, FS_Union
      <4>2. Cardinality((S \ V) \cap (V \cap C)) = 0 /\ a \in Nat /\ b \in Nat
        BY <2>0, <3>2, <3>4, FS_EmptySet, FS_CardinalityType
      <4> HIDE DEF a, b
      <4>3. Cardinality(S) = Cardinality((S \ V) \cup (V \cap C))
        BY <3>2
      <4> QED
        BY <4>1, <4>2, <4>3
    <3>6. Cardinality(V) = c + b
      <4>1. Cardinality((V \ C) \cup (V \cap C)) = c + b - Cardinality((V \ C) \cap (V \cap C))
        BY <3>4, FS_Union
      <4>2. Cardinality((V \ C) \cap (V \cap C)) = 0 /\ c \in Nat /\ b \in Nat
        BY <3>3, <3>4, FS_EmptySet, FS_CardinalityType
      <4> HIDE DEF b, c
      <4>3. Cardinality(V) = Cardinality((V \ C) \cup (V \cap C))
        BY <3>3
      <4> QED
        BY <4>1, <4>2, <4>3
    <3>7. c <= Cardinality(R \ C)
      BY <2>0, <3>4, FS_Subset
    <3>8. a \in Nat /\ b \in Nat /\ c \in Nat
      BY <2>0, <3>4, FS_CardinalityType
    <3> HIDE DEF a, b, c
    <3>9. a <= c
      BY <1>0, <1>1, <1>2, <3>1, <3>5, <3>6, <3>8
    <3>10. a <= Cardinality(R \ C)
      BY <2>0, <3>7, <3>8, <3>9
    <3> QED
      BY <2>0, <3>10 DEF a
  <2> QED
    BY <2>1, <2>2
<1> QED
  BY <1>3, <1>4, <1>5 DEF V, S

Coins == {"ref", "alt"}
BetaEvents == [s : Coins, t : Nat]
MinutesIn(h, s)  == {h[k].t : k \in {j \in DOMAIN h : h[j].s = s}}
ReturnsIn(h, s)  == {t \in MinutesIn(h, s) : t - 1 \in MinutesIn(h, s)}
LateIn(h, s) ==
  {k \in DOMAIN h : h[k].s = s /\ \E j \in 1..(k - 1) : h[j].s = s /\ h[j].t >= h[k].t}
Newest(M, l) == IF M = {} THEN l = Unset ELSE l \in M /\ \A u \in M : u <= l
(* What holds of a coin none of whose bars came late, and of any coin. *)
CoinOK(h, s, l, q) ==
  /\ l \in Int /\ MinutesIn(h, s) \in SUBSET Nat /\ IsFiniteSet(MinutesIn(h, s))
  /\ Newest(MinutesIn(h, s), l) /\ Tailing(q, ReturnsIn(h, s))
FewTwice(h, s, q) ==
  /\ q \in Seq(Nat) /\ Values(q) \subseteq ReturnsIn(h, s)
  /\ Len(q) - Cardinality(Values(q)) <= Cardinality(LateIn(h, s))
CoinAny(h, s, l, q) ==
  /\ l \in Int /\ MinutesIn(h, s) \in SUBSET Nat /\ IsFiniteSet(MinutesIn(h, s))
  /\ l = Unset \/ l \in MinutesIn(h, s)
  /\ FewTwice(h, s, q)
  /\ LateIn(h, s) = {} => CoinOK(h, s, l, q)
BetaMemory(h, ends, rets) ==
  /\ ends \in [Coins -> Int] /\ rets \in [Coins -> Seq(Nat)]
  /\ \A s \in Coins : CoinAny(h, s, ends[s], rets[s])
BetaInv ==
  /\ seen \in Seq(BetaEvents)
  /\ memory = [last |-> memory.last, rets |-> memory.rets]
  /\ BetaMemory(seen, memory.last, memory.rets)

LEMMA UnsetIs == Unset \in Int /\ Unset \notin Nat
BY DEF Unset

LEMMA MinutesAppend ==
  ASSUME NEW h \in Seq(BetaEvents), NEW e \in BetaEvents, NEW s \in Coins
  PROVE  MinutesIn(Append(h, e), s) = IF e.s = s THEN MinutesIn(h, s) \cup {e.t} ELSE MinutesIn(h, s)
<1> DEFINE g == Append(h, e)
           n == Len(h)
           J == {j \in DOMAIN h : h[j].s = s}
           K == {j \in DOMAIN g : g[j].s = s}
<1>1. /\ Len(g) = n + 1 /\ n \in Nat /\ g[n + 1] = e /\ DOMAIN h = 1..n /\ DOMAIN g = 1..(n + 1)
      /\ \A k \in 1..n : g[k] = h[k]
  BY AppendProperties
<1>1a. \A k \in 1..(n + 1) : k \in 1..n \/ k = n + 1
  BY <1>1
<1>1b. \A k \in 1..n : k \in 1..(n + 1)
  BY <1>1
<1>2. J \subseteq 1..n /\ n + 1 \notin J
  BY <1>1
<1>2a. J = {j \in 1..n : h[j].s = s} /\ K = {j \in 1..(n + 1) : g[j].s = s}
  BY <1>1
<1> HIDE DEF g, n, J, K
<1>2b. n + 1 \in K <=> e.s = s
  BY <1>1, <1>2a
<1>2c. \A j \in 1..n : j \in K <=> j \in J
  BY <1>1, <1>1b, <1>2a
<1>3. K = IF e.s = s THEN J \cup {n + 1} ELSE J
  <2>1. \A j \in K : j \in J \/ (j = n + 1 /\ e.s = s)
    BY <1>1a, <1>2a, <1>2b, <1>2c
  <2>2. \A j \in J : j \in K
    BY <1>2, <1>2c
  <2> QED
    BY <1>2b, <2>1, <2>2
<1>4. \A j \in J : g[j].t = h[j].t
  BY <1>1, <1>2
<1>5. {g[k].t : k \in K} = IF e.s = s THEN {h[k].t : k \in J} \cup {e.t} ELSE {h[k].t : k \in J}
  BY <1>1, <1>3, <1>4
<1> QED
  BY <1>5 DEF MinutesIn, g, J, K

(* A bar that is no later than one its coin had is a late one, and no      *)
(* other bar becomes one by it.                                            *)
LEMMA LateAppend ==
  ASSUME NEW h \in Seq(BetaEvents), NEW e \in BetaEvents, NEW s \in Coins
  PROVE  /\ LateIn(h, s) \in SUBSET (1..Len(h))
         /\ LateIn(Append(h, e), s) =
              IF e.s = s /\ \E u \in MinutesIn(h, s) : u >= e.t
              THEN LateIn(h, s) \cup {Len(h) + 1} ELSE LateIn(h, s)
<1> DEFINE g == Append(h, e)
           n == Len(h)
           In(f, k) == f[k].s = s /\ \E j \in 1..(k - 1) : f[j].s = s /\ f[j].t >= f[k].t
           L == {k \in 1..n : In(h, k)}
           G == {k \in 1..(n + 1) : In(g, k)}
<1>1. /\ Len(g) = n + 1 /\ n \in Nat /\ g[n + 1] = e /\ DOMAIN h = 1..n /\ DOMAIN g = 1..(n + 1)
      /\ \A k \in 1..n : g[k] = h[k]
  BY AppendProperties
<1>2. LateIn(h, s) = L /\ LateIn(g, s) = G
  BY <1>1 DEF LateIn
<1> HIDE DEF g, n
<1>3. \A k \in 1..n : In(g, k) <=> In(h, k)
  <2> TAKE k \in 1..n
  <2>1. \A j \in 1..(k - 1) : g[j] = h[j]
    BY <1>1
  <2> QED
    BY <1>1, <2>1
<1>4. In(g, n + 1) <=> (e.s = s /\ \E u \in MinutesIn(h, s) : u >= e.t)
  <2>1. In(g, n + 1) <=> (e.s = s /\ \E j \in 1..n : h[j].s = s /\ h[j].t >= e.t)
    <3>1. (n + 1) - 1 = n
      BY <1>1
    <3> QED
      BY <1>1, <3>1
  <2>2. (\E j \in 1..n : h[j].s = s /\ h[j].t >= e.t) <=> \E u \in MinutesIn(h, s) : u >= e.t
    <3>1. MinutesIn(h, s) = {h[k].t : k \in {j \in 1..n : h[j].s = s}}
      BY <1>1 DEF MinutesIn
    <3> QED
      BY <3>1
  <2> QED
    BY <2>1, <2>2
<1>5. (\A k \in 1..(n + 1) : k \in 1..n \/ k = n + 1) /\ n + 1 \in 1..(n + 1) /\ \A k \in 1..n : k \in 1..(n + 1)
  BY <1>1
<1> DEFINE late == In(g, n + 1)
<1>6. G = IF late THEN L \cup {n + 1} ELSE L
  <2> HIDE DEF In
  <2>1. CASE late
    BY <1>3, <1>5, <2>1
  <2>2. CASE ~late
    BY <1>3, <1>5, <2>2
  <2> QED
    BY <2>1, <2>2
<1>7. L \in SUBSET (1..n)
  OBVIOUS
<1> HIDE DEF L, G, In
<1> QED
  BY <1>2, <1>4, <1>6, <1>7 DEF g, n

LEMMA AddCounts ==
  ASSUME NEW S, IsFiniteSet(S), NEW x
  PROVE  /\ IsFiniteSet(S \cup {x}) /\ Cardinality(S \cup {x}) \in Nat /\ Cardinality(S) \in Nat
         /\ Cardinality(S \cup {x}) = IF x \in S THEN Cardinality(S) ELSE Cardinality(S) + 1
         /\ Cardinality(S \cup {x}) <= Cardinality(S) + 1
<1>1. IsFiniteSet(S \cup {x}) /\ Cardinality(S \cup {x}) = IF x \in S THEN Cardinality(S) ELSE Cardinality(S) + 1
  BY FS_AddElement
<1>2. Cardinality(S) \in Nat /\ Cardinality(S \cup {x}) \in Nat
  BY <1>1, FS_CardinalityType
<1>3. Cardinality(S \cup {x}) <= Cardinality(S) + 1
  BY <1>1, <1>2
<1> QED
  BY <1>1, <1>2, <1>3

(* One more return, and the window full: at most one value is repeated     *)
(* more than before, and only if it was there.                             *)
LEMMA FewMore ==
  ASSUME NEW q \in Seq(Nat), NEW x \in Nat
  PROVE  LET w == LastFew(Append(q, x))
         IN /\ w \in Seq(Nat) /\ Values(w) \subseteq Values(q) \cup {x}
            /\ Len(w) - Cardinality(Values(w)) <=
                 Len(q) - Cardinality(Values(q)) + (IF x \in Values(q) THEN 1 ELSE 0)
<1> DEFINE n == Len(q)
           p == Append(q, x)
<1>1. p \in Seq(Nat) /\ n \in Nat /\ Len(p) = n + 1 /\ DOMAIN p = 1..(n + 1) /\ DOMAIN q = 1..n
      /\ p[n + 1] = x /\ \A k \in 1..n : p[k] = q[k]
  BY AppendProperties
<1>2. Values(q) = {q[k] : k \in 1..n} /\ Values(p) = {p[k] : k \in 1..(n + 1)}
  BY <1>1 DEF Values
<1>3. /\ \A k \in 1..(n + 1) : k \in 1..n \/ k = n + 1
      /\ \A k \in 1..n : k \in 1..(n + 1)
      /\ n + 1 \in 1..(n + 1)
  BY <1>1
<1>4. IsFiniteSet(Values(q)) /\ Cardinality(Values(q)) \in Nat
  <2>1. IsFiniteSet(1..n)
    BY <1>1, FS_Interval
  <2> DEFINE f == [k \in 1..n |-> q[k]]
  <2>2. f \in Surjection(1..n, Values(q))
    BY <1>2 DEF Surjection
  <2> HIDE DEF f
  <2> QED
    BY <2>1, <2>2, FS_Surjection, FS_CardinalityType
<1> HIDE DEF n, p
<1>5. Values(p) = Values(q) \cup {x}
  BY <1>1, <1>2, <1>3
<1>6. /\ IsFiniteSet(Values(p)) /\ Cardinality(Values(p)) \in Nat
      /\ Cardinality(Values(p)) = IF x \in Values(q) THEN Cardinality(Values(q)) ELSE Cardinality(Values(q)) + 1
  <2> DEFINE S == Values(q)
  <2>1. IsFiniteSet(S) /\ Values(p) = S \cup {x}
    BY <1>4, <1>5
  <2> HIDE DEF S
  <2>2. /\ IsFiniteSet(S \cup {x}) /\ Cardinality(S \cup {x}) \in Nat
        /\ Cardinality(S \cup {x}) = IF x \in S THEN Cardinality(S) ELSE Cardinality(S) + 1
    BY <2>1, AddCounts
  <2> QED
    BY <2>1, <2>2 DEF S
<1> DEFINE Few(w) == /\ w \in Seq(Nat) /\ Values(w) \subseteq Values(q) \cup {x}
                     /\ Len(w) - Cardinality(Values(w)) <=
                          Len(q) - Cardinality(Values(q)) + (IF x \in Values(q) THEN 1 ELSE 0)
<1>7. Few(p)
  BY <1>1, <1>4, <1>5, <1>6 DEF n
<1>8. Few(Tail(p))
  <2> DEFINE t == Tail(p)
  <2>1. t \in Seq(Nat) /\ Len(t) = n /\ DOMAIN t = 1..n /\ \A k \in 1..n : t[k] = p[k + 1]
    BY <1>1
  <2> HIDE DEF t
  <2>2. Values(t) = {p[k + 1] : k \in 1..n}
    BY <2>1 DEF Values
  <2>3. Values(t) \subseteq Values(p)
    <3>1. \A k \in 1..n : k + 1 \in 1..(n + 1)
      BY <1>1
    <3> QED
      BY <1>2, <2>2, <3>1
  <2>4. Values(p) \subseteq Values(t) \cup {p[1]}
    <3> SUFFICES ASSUME NEW k \in 1..(n + 1), k # 1 PROVE p[k] \in Values(t)
      BY <1>2
    <3>1. k - 1 \in 1..n /\ (k - 1) + 1 = k
      BY <1>1
    <3> QED
      BY <2>2, <3>1
  <2>5. IsFiniteSet(Values(t)) /\ Cardinality(Values(t)) \in Nat
    BY <1>6, <2>3, FS_Subset, FS_CardinalityType
  <2>6. Cardinality(Values(p)) <= Cardinality(Values(t)) + 1
    <3> DEFINE S == Values(t)
               y == p[1]
    <3>0. IsFiniteSet(S)
      BY <2>5
    <3> HIDE DEF S, y
    <3>1. IsFiniteSet(S \cup {y}) /\ Cardinality(S \cup {y}) \in Nat /\ Cardinality(S) \in Nat
      BY <3>0, AddCounts
    <3>2. Cardinality(S \cup {y}) <= Cardinality(S) + 1
      BY <3>0, AddCounts
    <3>3. Cardinality(Values(p)) <= Cardinality(S \cup {y})
      <4>1. Values(p) \subseteq S \cup {y}
        BY <2>4 DEF S, y
      <4> QED
        BY <3>1, <4>1, FS_Subset
    <3>4. Cardinality(Values(p)) <= Cardinality(S) + 1
      BY <1>6, <3>1, <3>2, <3>3
    <3> QED
      BY <3>4 DEF S
  <2>7. Len(t) - Cardinality(Values(t)) <= Len(p) - Cardinality(Values(p))
    BY <1>1, <1>6, <2>1, <2>5, <2>6
  <2>8. Len(t) - Cardinality(Values(t)) <= Len(q) - Cardinality(Values(q)) + (IF x \in Values(q) THEN 1 ELSE 0)
    <3> DEFINE a == Cardinality(Values(q))
               b == Cardinality(Values(p))
               c == Cardinality(Values(t))
    <3>1. a \in Nat /\ b \in Nat /\ c \in Nat /\ n - c <= (n + 1) - b /\ b = IF x \in Values(q) THEN a ELSE a + 1
      BY <1>1, <1>4, <1>6, <2>1, <2>5, <2>7
    <3> HIDE DEF a, b, c
    <3>2. n - c <= n - a + (IF x \in Values(q) THEN 1 ELSE 0)
      BY <1>1, <3>1
    <3> QED
      BY <2>1, <3>2 DEF a, c, n
  <2>9. Values(t) \subseteq Values(q) \cup {x}
    BY <1>5, <2>3
  <2> QED
    BY <2>1, <2>8, <2>9 DEF t
<1>9. LastFew(p) = p \/ LastFew(p) = Tail(p)
  BY DEF LastFew
<1>10. Few(LastFew(p))
  BY <1>7, <1>8, <1>9
<1> QED
  BY <1>10 DEF p

(* A bar of the other coin changes nothing; one of this coin may bring a   *)
(* return.                                                                 *)
LEMMA CoinOther ==
  ASSUME NEW h \in Seq(BetaEvents), NEW e \in BetaEvents, NEW s \in Coins, NEW l, NEW q,
         CoinOK(h, s, l, q), e.s # s
  PROVE  CoinOK(Append(h, e), s, l, q)
<1>1. MinutesIn(Append(h, e), s) = MinutesIn(h, s)
  BY MinutesAppend
<1> QED
  BY <1>1 DEF CoinOK, ReturnsIn

LEMMA CoinMine ==
  ASSUME NEW h \in Seq(BetaEvents), NEW e \in BetaEvents, NEW s \in Coins, NEW l, NEW q,
         CoinOK(h, s, l, q), e.s = s, \A u \in MinutesIn(h, s) : u < e.t
  PROVE  CoinOK(Append(h, e), s, e.t, IF l # Unset /\ e.t = l + 1 THEN LastFew(Append(q, e.t)) ELSE q)
<1> DEFINE M == MinutesIn(h, s)
           R == ReturnsIn(h, s)
           N == MinutesIn(Append(h, e), s)
           Q == ReturnsIn(Append(h, e), s)
           t == e.t
           r == IF l # Unset /\ t = l + 1 THEN LastFew(Append(q, t)) ELSE q
<1>1. N = M \cup {t} /\ t \in Nat
  BY MinutesAppend DEF BetaEvents
<1>2. /\ l \in Int /\ M \in SUBSET Nat /\ IsFiniteSet(M) /\ Newest(M, l) /\ Tailing(q, R)
  BY DEF CoinOK
<1>3. R = {u \in M : u - 1 \in M} /\ Q = {u \in N : u - 1 \in N}
  BY DEF ReturnsIn
<1>4. \A u \in M : u < t
  OBVIOUS
<1> HIDE DEF M, R, N, Q, t, r
<1>5. (M = {} <=> l = Unset) /\ (M # {} => l \in M /\ \A u \in M : u <= l)
  <2>1. CASE M = {}
    BY <1>2, <2>1 DEF Newest
  <2>2. CASE M # {}
    BY <1>2, <2>2, UnsetIs DEF Newest
  <2> QED
    BY <2>1, <2>2
<1>6. \A u \in M : u < t /\ u \in Nat
  BY <1>2, <1>4
<1>7. N \in SUBSET Nat /\ IsFiniteSet(N) /\ Newest(N, t)
  <2>1. IsFiniteSet(N)
    BY <1>1, <1>2, FS_AddElement
  <2>2. \A u \in N : u <= t
    BY <1>1, <1>6
  <2> QED
    BY <1>1, <1>2, <2>1, <2>2 DEF Newest
<1>8. t - 1 \in N <=> (l # Unset /\ t = l + 1)
  <2>1. t - 1 # t
    BY <1>1
  <2>2. CASE M = {}
    BY <1>1, <1>5, <2>1, <2>2
  <2>3. CASE M # {}
    <3>1. l \in M /\ l \in Nat /\ l # Unset /\ \A u \in M : u <= l
      BY <1>2, <1>5, <2>3
    <3>2. CASE t = l + 1
      <4>1. t - 1 = l
        BY <3>1, <3>2
      <4> QED
        BY <1>1, <3>1, <3>2, <4>1
    <3>3. CASE t # l + 1
      <4>1. l < t
        BY <1>6, <3>1
      <4>2. ~(t - 1 <= l)
        BY <1>1, <3>1, <3>3, <4>1
      <4>3. t - 1 \notin M
        BY <3>1, <4>2
      <4> QED
        BY <1>1, <2>1, <3>3, <4>3
    <3> QED
      BY <3>2, <3>3
  <2> QED
    BY <2>2, <2>3
<1>9. \A u \in M : u - 1 # t
  <2> TAKE u \in M
  <2>1. u < t /\ u \in Nat
    BY <1>6
  <2> QED
    BY <1>1, <2>1
<1>10. Q = IF l # Unset /\ t = l + 1 THEN R \cup {t} ELSE R
  <2>1. \A u \in M : u \in Q <=> u \in R
    BY <1>1, <1>3, <1>9
  <2>2. t \in Q <=> (l # Unset /\ t = l + 1)
    BY <1>1, <1>3, <1>8
  <2>3. (\A u \in Q : u \in M \/ u = t) /\ \A u \in R : u \in M
    BY <1>1, <1>3
  <2>4. \A u \in Q : u \in R \/ (u = t /\ l # Unset /\ t = l + 1)
    BY <2>1, <2>2, <2>3
  <2>5. \A u \in R : u \in Q
    BY <2>1, <2>3
  <2>6. CASE l # Unset /\ t = l + 1
    BY <2>2, <2>4, <2>5, <2>6
  <2>7. CASE ~(l # Unset /\ t = l + 1)
    BY <2>4, <2>5, <2>7
  <2> QED
    BY <2>6, <2>7
<1>11. Tailing(r, Q)
  <2>1. CASE l # Unset /\ t = l + 1
    <3>1. R \in SUBSET Nat /\ \A u \in R : u < t
      BY <1>2, <1>3, <1>6
    <3>2. Tailing(LastFew(Append(q, t)), R \cup {t})
      BY <1>1, <1>2, <3>1, TailingMore
    <3> QED
      BY <1>10, <2>1, <3>2 DEF r
  <2>2. CASE ~(l # Unset /\ t = l + 1)
    BY <1>2, <1>10, <2>2 DEF r
  <2> QED
    BY <2>1, <2>2
<1>12. t \in Int
  BY <1>1
<1>13. CoinOK(Append(h, e), s, t, r)
  BY <1>7, <1>11, <1>12 DEF CoinOK, N, Q
<1> QED
  BY <1>13 DEF t, r

(* However late the bars come. *)
LEMMA AnyOther ==
  ASSUME NEW h \in Seq(BetaEvents), NEW e \in BetaEvents, NEW s \in Coins, NEW l, NEW q,
         CoinAny(h, s, l, q), e.s # s
  PROVE  CoinAny(Append(h, e), s, l, q)
<1>1. MinutesIn(Append(h, e), s) = MinutesIn(h, s) /\ LateIn(Append(h, e), s) = LateIn(h, s)
  BY MinutesAppend, LateAppend
<1>2. ReturnsIn(Append(h, e), s) = ReturnsIn(h, s)
  BY <1>1 DEF ReturnsIn
<1>3. LateIn(h, s) = {} => CoinOK(Append(h, e), s, l, q)
  BY CoinOther DEF CoinAny
<1> QED
  BY <1>1, <1>2, <1>3 DEF CoinAny, FewTwice

LEMMA AnyMine ==
  ASSUME NEW h \in Seq(BetaEvents), NEW e \in BetaEvents, NEW s \in Coins, NEW l, NEW q,
         CoinAny(h, s, l, q), e.s = s
  PROVE  CoinAny(Append(h, e), s, e.t, IF l # Unset /\ e.t = l + 1 THEN LastFew(Append(q, e.t)) ELSE q)
<1> DEFINE M == MinutesIn(h, s)
           R == ReturnsIn(h, s)
           L == LateIn(h, s)
           N == MinutesIn(Append(h, e), s)
           Q == ReturnsIn(Append(h, e), s)
           K == LateIn(Append(h, e), s)
           t == e.t
           follows == l # Unset /\ t = l + 1
           late == \E u \in M : u >= t
           w == LastFew(Append(q, t))
           n == Len(h)
<1>1. N = M \cup {t} /\ t \in Nat /\ n \in Nat
  <2>1. N = M \cup {t}
    BY MinutesAppend
  <2>2. t \in Nat
    BY DEF BetaEvents
  <2> QED
    BY <2>1, <2>2
<1>2. L \in SUBSET (1..n) /\ K = IF late THEN L \cup {n + 1} ELSE L
  BY LateAppend
<1>3. /\ l \in Int /\ M \in SUBSET Nat /\ IsFiniteSet(M) /\ (l = Unset \/ l \in M)
      /\ q \in Seq(Nat) /\ Values(q) \subseteq R /\ Len(q) - Cardinality(Values(q)) <= Cardinality(L)
      /\ L = {} => CoinOK(h, s, l, q)
  BY DEF CoinAny, FewTwice
<1>4. R = {u \in M : u - 1 \in M} /\ Q = {u \in N : u - 1 \in N}
  BY DEF ReturnsIn
<1>5. (\A u \in M : u < t) => CoinOK(Append(h, e), s, t, IF follows THEN w ELSE q) \/ L # {}
  BY <1>3, CoinMine
<1>6. /\ w \in Seq(Nat) /\ Values(w) \subseteq Values(q) \cup {t}
      /\ Len(w) - Cardinality(Values(w)) <= Len(q) - Cardinality(Values(q)) + (IF t \in Values(q) THEN 1 ELSE 0)
  BY <1>1, <1>3, FewMore
<1>6a. CoinAny(Append(h, e), s, t, IF follows THEN w ELSE q)
         <=> /\ t \in Int /\ N \in SUBSET Nat /\ IsFiniteSet(N) /\ (t = Unset \/ t \in N)
             /\ (IF follows THEN w ELSE q) \in Seq(Nat) /\ Values(IF follows THEN w ELSE q) \subseteq Q
             /\ Len(IF follows THEN w ELSE q) - Cardinality(Values(IF follows THEN w ELSE q)) <= Cardinality(K)
             /\ K = {} => CoinOK(Append(h, e), s, t, IF follows THEN w ELSE q)
  BY DEF CoinAny, FewTwice
<1> HIDE DEF M, R, L, N, Q, K, t, w, n
<1>7. IsFiniteSet(L) /\ IsFiniteSet(K) /\ Cardinality(L) \in Nat /\ Cardinality(K) \in Nat
      /\ Cardinality(L) <= Cardinality(K) /\ (late => Cardinality(K) = Cardinality(L) + 1)
  <2>1. IsFiniteSet(1..n) /\ n + 1 \notin L
    BY <1>1, <1>2, FS_Interval
  <2>2. IsFiniteSet(L) /\ Cardinality(L) \in Nat
    BY <1>2, <2>1, FS_Subset, FS_CardinalityType
  <2>3. CASE late
    <3>1. K = L \cup {n + 1}
      BY <1>2, <2>3
    <3>2. IsFiniteSet(K) /\ Cardinality(K) = Cardinality(L) + 1
      BY <2>1, <2>2, <3>1, FS_AddElement
    <3> QED
      BY <2>2, <3>2
  <2>4. CASE ~late
    BY <1>2, <2>2, <2>4
  <2> QED
    BY <2>3, <2>4
<1>8. t \in Int /\ N \in SUBSET Nat /\ IsFiniteSet(N) /\ t \in N
  BY <1>1, <1>3, FS_AddElement
<1>9. R \subseteq Q /\ (follows => t \in Q)
  <2>1. R \subseteq Q
    BY <1>1, <1>4
  <2>2. ASSUME follows PROVE t \in Q
    <3>1. t - 1 = l /\ l \in M
      BY <1>3, <2>2
    <3> QED
      BY <1>1, <1>4, <3>1
  <2> QED
    BY <2>1, <2>2
<1>10. K = {} => CoinOK(Append(h, e), s, t, IF follows THEN w ELSE q)
  <2> SUFFICES ASSUME K = {} PROVE CoinOK(Append(h, e), s, t, IF follows THEN w ELSE q)
    OBVIOUS
  <2>1. ~late /\ L = {}
    BY <1>2
  <2>2. \A u \in M : u < t
    <3> TAKE u \in M
    <3>1. ~(u >= t) /\ u \in Nat
      BY <1>3, <2>1
    <3> QED
      BY <1>1, <3>1
  <2> QED
    BY <1>5, <2>1, <2>2
<1>11. CASE follows
  <2>1. Values(w) \subseteq Q
    BY <1>3, <1>6, <1>9, <1>11
  <2>2. t \in Values(q) => late
    <3> SUFFICES ASSUME t \in Values(q) PROVE t >= t /\ t \in M
      OBVIOUS
    <3> QED
      BY <1>1, <1>3, <1>4
  <2> DEFINE x == Len(w) - Cardinality(Values(w))
             y == Len(q) - Cardinality(Values(q))
             a == Cardinality(L)
             b == Cardinality(K)
  <2>3. x \in Int /\ y \in Int
    <3>1. Cardinality(Values(q)) \in Nat /\ Cardinality(Values(w)) \in Nat
      <4>1. IsFiniteSet(N)
        BY <1>8
      <4>2. Q \subseteq N /\ Values(q) \subseteq N /\ Values(w) \subseteq N
        BY <1>3, <1>4, <1>9, <2>1
      <4> QED
        BY <4>1, <4>2, FS_Subset, FS_CardinalityType
    <3>2. Len(q) \in Nat /\ Len(w) \in Nat
      BY <1>3, <1>6
    <3> QED
      BY <3>1, <3>2
  <2>4. x <= y + (IF t \in Values(q) THEN 1 ELSE 0) /\ y <= a /\ a \in Nat /\ b \in Nat /\ a <= b /\ (late => b = a + 1)
    BY <1>3, <1>6, <1>7
  <2> HIDE DEF x, y, a, b, late
  <2>5. x <= b
    <3>1. CASE t \in Values(q)
      BY <2>2, <2>3, <2>4, <3>1
    <3>2. CASE t \notin Values(q)
      BY <2>3, <2>4, <3>2
    <3> QED
      BY <3>1, <3>2
  <2>6. Len(w) - Cardinality(Values(w)) <= Cardinality(K)
    BY <2>5 DEF x, b
  <2>7. (IF follows THEN w ELSE q) = w
    BY <1>11
  <2>8. CoinAny(Append(h, e), s, t, IF follows THEN w ELSE q)
    BY <1>6, <1>6a, <1>8, <1>10, <2>1, <2>6, <2>7
  <2> QED
    BY <2>8 DEF t, w
<1>12. CASE ~follows
  <2>1. (IF follows THEN w ELSE q) = q
    BY <1>12
  <2>2. Len(q) - Cardinality(Values(q)) <= Cardinality(K)
    <3>1. Cardinality(Values(q)) \in Nat
      <4>1. Values(q) \subseteq M
        BY <1>3, <1>4
      <4> QED
        BY <1>3, <4>1, FS_Subset, FS_CardinalityType
    <3>2. Len(q) \in Nat
      BY <1>3
    <3> QED
      BY <1>3, <1>7, <3>1, <3>2
  <2>3. CoinAny(Append(h, e), s, t, IF follows THEN w ELSE q)
    BY <1>3, <1>6a, <1>8, <1>9, <1>10, <2>1, <2>2
  <2> QED
    BY <2>3 DEF t, w
<1> QED
  BY <1>11, <1>12

LEMMA BetaStarts ==
  ASSUME seen = << >>, memory = Fresh("beta")
  PROVE  BetaInv
<1>1. memory = [last |-> [s \in Coins |-> Unset], rets |-> [s \in Coins |-> << >>]]
  BY DEF Fresh, Coins
<1>2. seen \in Seq(BetaEvents) /\ DOMAIN seen = {}
  OBVIOUS
<1>3. ASSUME NEW s \in Coins PROVE CoinAny(seen, s, Unset, << >>)
  <2>1. MinutesIn(seen, s) = {} /\ ReturnsIn(seen, s) = {}
    BY <1>2 DEF MinutesIn, ReturnsIn
  <2>2. Tailing(<< >>, {})
    <3>1. Growing(<< >>) /\ Values(<< >>) = {} /\ Len(<< >>) = 0
      BY DEF Growing, Values
    <3> QED
      BY <3>1, MonAssumption DEF Tailing
  <2>3. CoinOK(seen, s, Unset, << >>)
    BY <2>1, <2>2, FS_EmptySet, UnsetIs DEF CoinOK, Newest
  <2>4. LateIn(seen, s) = {} /\ Values(<< >>) = {} /\ Len(<< >>) = 0
    BY <1>2 DEF LateIn, Values
  <2>5. FewTwice(seen, s, << >>)
    <3>1. Values(<< >>) \subseteq ReturnsIn(seen, s) /\ << >> \in Seq(Nat)
      BY <2>4
    <3>2. Cardinality(Values(<< >>)) = 0 /\ Cardinality(LateIn(seen, s)) = 0
      BY <2>4, FS_EmptySet
    <3>3. Len(<< >>) - Cardinality(Values(<< >>)) <= Cardinality(LateIn(seen, s))
      BY <2>4, <3>2
    <3> QED
      BY <3>1, <3>3 DEF FewTwice
  <2> QED
    BY <2>1, <2>3, <2>5, FS_EmptySet, UnsetIs DEF CoinAny
<1>4. memory.last \in [Coins -> Int] /\ memory.rets \in [Coins -> Seq(Nat)]
      /\ \A s \in Coins : memory.last[s] = Unset /\ memory.rets[s] = << >>
  <2>1. memory.last = [s \in Coins |-> Unset] /\ memory.rets = [s \in Coins |-> << >>]
    BY <1>1
  <2>2. << >> \in Seq(Nat)
    OBVIOUS
  <2> DEFINE f == memory.last
             q == memory.rets
  <2>3. f = [s \in Coins |-> Unset] /\ q = [s \in Coins |-> << >>]
    BY <2>1
  <2> HIDE DEF f, q
  <2>4. f \in [Coins -> Int] /\ \A s \in Coins : f[s] = Unset
    BY <2>3, UnsetIs
  <2>5. q \in [Coins -> Seq(Nat)]
    BY <2>2, <2>3
  <2>6. \A s \in Coins : q[s] = << >>
    BY <2>3
  <2> QED
    BY <2>4, <2>5, <2>6 DEF f, q
<1>5. BetaMemory(seen, memory.last, memory.rets)
  BY <1>3, <1>4 DEF BetaMemory
<1> QED
  BY <1>1, <1>2, <1>5 DEF BetaInv

LEMMA BetaSays ==
  ASSUME NEW h, NEW ends, NEW rets, BetaMemory(h, ends, rets), \A s \in Coins : LateIn(h, s) = {}
  PROVE  LET A == Values(rets["ref"])
             B == Values(rets["alt"])
             RA == ReturnsIn(h, "ref")
             RB == ReturnsIn(h, "alt")
             S == LastOf(RA \cap RB)
         IN /\ A \cap B \subseteq S
            /\ \A t \in S : (\E p \in A \cap B : p < t) => t \in A \cap B
            /\ Cardinality(S) - Cardinality(A \cap B) <= Cardinality(RA \ RB) + Cardinality(RB \ RA)
<1> DEFINE A == Values(rets["ref"])
           B == Values(rets["alt"])
           RA == ReturnsIn(h, "ref")
           RB == ReturnsIn(h, "alt")
           S == LastOf(RA \cap RB)
<1>1. /\ RA \in SUBSET Nat /\ IsFiniteSet(RA) /\ Tailing(rets["ref"], RA)
      /\ RB \in SUBSET Nat /\ IsFiniteSet(RB) /\ Tailing(rets["alt"], RB)
  <2>1. ASSUME NEW s \in Coins
        PROVE  ReturnsIn(h, s) \in SUBSET Nat /\ IsFiniteSet(ReturnsIn(h, s)) /\ Tailing(rets[s], ReturnsIn(h, s))
    <3>1. CoinOK(h, s, ends[s], rets[s])
      BY DEF BetaMemory, CoinAny
    <3>2. ReturnsIn(h, s) \subseteq MinutesIn(h, s)
      BY DEF ReturnsIn
    <3> QED
      BY <3>1, <3>2, FS_Subset DEF CoinOK
  <2> QED
    BY <2>1 DEF Coins
<1>2. A \subseteq RA /\ B \subseteq RB
  BY <1>1 DEF Tailing
<1> HIDE DEF A, B, RA, RB
<1>3. /\ A \cap (RA \cap RB) \subseteq S
      /\ \A t \in S, v \in A : v < t => t \in A
      /\ IsFiniteSet(S \ A) /\ Cardinality(S \ A) <= Cardinality(RA \ (RA \cap RB))
  BY <1>1, TailingKeeps DEF A
<1>4. /\ B \cap (RA \cap RB) \subseteq S
      /\ \A t \in S, v \in B : v < t => t \in B
      /\ IsFiniteSet(S \ B) /\ Cardinality(S \ B) <= Cardinality(RB \ (RA \cap RB))
  BY <1>1, TailingKeeps DEF B
<1>5. IsFiniteSet(S) /\ S \subseteq RA \cap RB
  <2>1. RA \cap RB \in SUBSET Nat /\ IsFiniteSet(RA \cap RB)
    BY <1>1, FS_Subset
  <2> QED
    BY <2>1, LastOfFew
<1>6. RA \ (RA \cap RB) = RA \ RB /\ RB \ (RA \cap RB) = RB \ RA
  OBVIOUS
<1> HIDE DEF S
<1> DEFINE P == A \cap B
<1>7. P \subseteq S
  BY <1>2, <1>3
<1>8. \A t \in S : (\E p \in P : p < t) => t \in P
  BY <1>3, <1>4
<1>9. S \ P = (S \ A) \cup (S \ B)
  OBVIOUS
<1>10. IsFiniteSet(S \ P) /\ Cardinality(S \ P) <= Cardinality(S \ A) + Cardinality(S \ B)
  <2>1. IsFiniteSet((S \ A) \cap (S \ B))
    BY <1>3, FS_Subset
  <2>2. Cardinality((S \ A) \cap (S \ B)) \in Nat /\ Cardinality(S \ A) \in Nat /\ Cardinality(S \ B) \in Nat
    BY <1>3, <1>4, <2>1, FS_CardinalityType
  <2>3. Cardinality((S \ A) \cup (S \ B)) = Cardinality(S \ A) + Cardinality(S \ B) - Cardinality((S \ A) \cap (S \ B))
        /\ IsFiniteSet((S \ A) \cup (S \ B))
    BY <1>3, <1>4, FS_Union
  <2> DEFINE a == Cardinality(S \ A)
             b == Cardinality(S \ B)
             c == Cardinality((S \ A) \cap (S \ B))
  <2>4. IsFiniteSet(S \ P) /\ Cardinality(S \ P) = a + b - c /\ a \in Nat /\ b \in Nat /\ c \in Nat
    BY <1>9, <2>2, <2>3
  <2> HIDE DEF a, b, c
  <2>5. Cardinality(S \ P) <= a + b
    BY <2>4
  <2> QED
    BY <2>4, <2>5 DEF a, b
<1> HIDE DEF P
<1>11. Cardinality(S) = Cardinality(P) + Cardinality(S \ P) /\ Cardinality(P) \in Nat
  <2>1. S = P \cup (S \ P) /\ P \cap (S \ P) = {}
    BY <1>7
  <2>2. IsFiniteSet(P)
    BY <1>5, <1>7, FS_Subset
  <2>3. Cardinality(P \cup (S \ P)) = Cardinality(P) + Cardinality(S \ P) - Cardinality(P \cap (S \ P))
    BY <1>10, <2>2, FS_Union
  <2>4. Cardinality(P \cap (S \ P)) = 0 /\ Cardinality(P) \in Nat /\ Cardinality(S \ P) \in Nat
    BY <1>10, <2>1, <2>2, FS_EmptySet, FS_CardinalityType
  <2>5. Cardinality(S) = Cardinality(P \cup (S \ P))
    BY <2>1
  <2> QED
    BY <2>3, <2>4, <2>5
<1>12. Cardinality(S) - Cardinality(P) <= Cardinality(RA \ RB) + Cardinality(RB \ RA)
  <2>1. /\ Cardinality(S \ P) \in Nat /\ Cardinality(S \ A) \in Nat /\ Cardinality(S \ B) \in Nat
        /\ Cardinality(RA \ RB) \in Nat /\ Cardinality(RB \ RA) \in Nat
    BY <1>1, <1>3, <1>4, <1>10, FS_Subset, FS_CardinalityType
  <2>2. Cardinality(S \ A) <= Cardinality(RA \ RB) /\ Cardinality(S \ B) <= Cardinality(RB \ RA)
    BY <1>3, <1>4, <1>6
  <2> QED
    BY <1>10, <1>11, <2>1, <2>2
<1> QED
  BY <1>7, <1>8, <1>12 DEF A, B, RA, RB, S, P

LEMMA LastBarIs ==
  ASSUME seen \in Seq(BetaEvents), NEW s \in Coins
  PROVE  LastBar(s) \in Nat
<1> DEFINE M == MinutesOf(s)
<1>1. LastBar(s) = IF M = {} THEN 0 ELSE CHOOSE t \in M : \A u \in M : u <= t
  BY Zenon DEF LastBar
<1>2. LatestIn(seen) \in Nat /\ \A k \in 1..Len(seen) : seen[k].t <= LatestIn(seen) /\ seen[k].t \in Nat
  <2>1. \A x \in BetaEvents : x.t \in Nat
    BY DEF BetaEvents
  <2>2. \A k \in 1..Len(seen) : seen[k] \in BetaEvents
    OBVIOUS
  <2> QED
    BY <2>1, <2>2, LatestIs
<1>3. M \in SUBSET (0..LatestIn(seen))
  <2>1. DOMAIN seen = 1..Len(seen)
    OBVIOUS
  <2>2. \A u \in M : \E k \in 1..Len(seen) : u = seen[k].t
    BY <2>1 DEF MinutesOf
  <2> QED
    BY <1>2, <2>2
<1> HIDE DEF M
<1>4. CASE M = {}
  BY <1>1, <1>4
<1>5. CASE M # {}
  <2>1. \E t \in M : \A u \in M : u <= t
    BY <1>2, <1>3, <1>5, Greatest
  <2>2. LastBar(s) \in M
    BY <1>1, <1>5, <2>1
  <2>3. \A u \in M : u \in Nat
    BY <1>2, <1>3
  <2> QED
    BY <2>2, <2>3
<1> QED
  BY <1>4, <1>5

LEMMA BetaSteps == BetaInv /\ TellBeta => BetaInv'
<1> SUFFICES ASSUME BetaInv, TellBeta PROVE BetaInv'
  OBVIOUS
<1>1. PICK e \in BetaEvent : Tell("beta", e, OnBeta(memory, e), {})
  BY DEF TellBeta
<1>2. seen' = Append(seen, e) /\ memory' = OnBeta(memory, e)
  BY <1>1 DEF Tell
<1>3. /\ seen \in Seq(BetaEvents) /\ memory = [last |-> memory.last, rets |-> memory.rets]
      /\ BetaMemory(seen, memory.last, memory.rets)
  BY DEF BetaInv
<1> DEFINE ends == memory.last
           rets == memory.rets
           r == IF ends[e.s] # Unset /\ e.t = ends[e.s] + 1 THEN LastFew(Append(rets[e.s], e.t)) ELSE rets[e.s]
           last2 == [ends EXCEPT ![e.s] = e.t]
           rets2 == [rets EXCEPT ![e.s] = r]
<1>4. /\ ends \in [Coins -> Int] /\ rets \in [Coins -> Seq(Nat)]
      /\ \A s \in Coins : CoinAny(seen, s, ends[s], rets[s])
  BY <1>3 DEF BetaMemory
<1>5. PICK c \in Coins : \E t \in BarsOf(c) : e = [s |-> c, t |-> t]
  BY DEF BetaEvent, Coins
<1>5a. PICK t \in BarsOf(c) : e = [s |-> c, t |-> t]
  BY <1>5
<1>6. e.t \in Nat /\ e.s \in Coins /\ e \in BetaEvents
  <2>1. LastBar(c) \in Nat
    BY <1>3, LastBarIs
  <2>2. t \in Nat
    BY <2>1, MonAssumption DEF BarsOf
  <2> QED
    BY <1>5a, <2>2 DEF BetaEvents
<1>7. seen' \in Seq(BetaEvents)
  BY <1>2, <1>3, <1>6, AppendProperties
<1>8. memory' = [last |-> last2, rets |-> rets2]
  <2>1. memory' = [last |-> last2,
                   rets |-> IF ends[e.s] # Unset /\ e.t = ends[e.s] + 1
                            THEN [rets EXCEPT ![e.s] = LastFew(Append(@, e.t))] ELSE rets]
    BY <1>2 DEF OnBeta
  <2>2. rets2 = IF ends[e.s] # Unset /\ e.t = ends[e.s] + 1
                THEN [rets EXCEPT ![e.s] = LastFew(Append(@, e.t))] ELSE rets
    <3> HIDE DEF ends, rets
    <3>1. CASE ends[e.s] # Unset /\ e.t = ends[e.s] + 1
      BY <3>1
    <3>2. CASE ~(ends[e.s] # Unset /\ e.t = ends[e.s] + 1)
      BY <1>4, <3>2
    <3> QED
      BY <3>1, <3>2
  <2> QED
    BY <2>1, <2>2
<1> HIDE DEF ends, rets
<1>9. \A s \in Coins : CoinAny(seen', s, last2[s], rets2[s])
  <2> TAKE s \in Coins
  <2>0. CoinAny(seen, s, ends[s], rets[s])
    BY <1>4
  <2>1. CASE e.s = s
    <3>1. last2[s] = e.t /\ rets2[s] = IF ends[s] # Unset /\ e.t = ends[s] + 1 THEN LastFew(Append(rets[s], e.t)) ELSE rets[s]
      BY <1>4, <2>1
    <3>2. CoinAny(Append(seen, e), s, e.t, IF ends[s] # Unset /\ e.t = ends[s] + 1 THEN LastFew(Append(rets[s], e.t)) ELSE rets[s])
      BY <1>3, <1>6, <2>0, <2>1, AnyMine
    <3> QED
      BY <1>2, <3>1, <3>2
  <2>2. CASE e.s # s
    <3>1. last2[s] = ends[s] /\ rets2[s] = rets[s]
      BY <1>4, <2>2
    <3> QED
      BY <1>2, <1>3, <1>6, <2>0, <2>2, <3>1, AnyOther
  <2> QED
    BY <2>1, <2>2
<1>10. last2 \in [Coins -> Int] /\ rets2 \in [Coins -> Seq(Nat)]
  <2>1. \A s \in Coins : rets2[s] \in Seq(Nat)
    BY <1>9 DEF CoinAny, FewTwice
  <2>2. DOMAIN rets2 = Coins /\ rets2 = [s \in Coins |-> rets2[s]]
    BY <1>4
  <2> HIDE DEF rets2
  <2>3. rets2 \in [Coins -> Seq(Nat)]
    BY <2>1, <2>2
  <2>4. last2 \in [Coins -> Int]
    BY <1>4, <1>6
  <2> QED
    BY <2>3, <2>4
<1> HIDE DEF last2, rets2
<1>11. /\ memory' = [last |-> memory'.last, rets |-> memory'.rets]
       /\ memory'.last = last2 /\ memory'.rets = rets2
  BY <1>8
<1>12. BetaMemory(seen', memory'.last, memory'.rets)
  BY <1>9, <1>10, <1>11 DEF BetaMemory
<1> QED
  BY <1>7, <1>11, <1>12 DEF BetaInv

LEMMA BetaAnswers == BetaInv => BetaExact
<1> SUFFICES ASSUME BetaInv PROVE BetaExact
  OBVIOUS
<1>1. BetaMemory(seen, memory.last, memory.rets)
  BY DEF BetaInv
<1>2. /\ Kept(memory, "ref") = Values(memory.rets["ref"]) /\ Kept(memory, "alt") = Values(memory.rets["alt"])
      /\ Returned("ref") = ReturnsIn(seen, "ref") /\ Returned("alt") = ReturnsIn(seen, "alt")
  BY Zenon DEF Kept, Values, Returned, ReturnsIn, MinutesOf, MinutesIn
<1>3. /\ Pairs(memory) = Values(memory.rets["ref"]) \cap Values(memory.rets["alt"])
      /\ Series = LastOf(ReturnsIn(seen, "ref") \cap ReturnsIn(seen, "alt"))
  BY <1>2, Zenon DEF Pairs, Series
<1>4. ASSUME NEW s \in {"ref", "alt"}
      PROVE  /\ Kept(memory, s) \subseteq Returned(s)
             /\ Len(memory.rets[s]) - Cardinality(Kept(memory, s)) <= Cardinality(LateBars(s))
  <2>1. CoinAny(seen, s, memory.last[s], memory.rets[s])
    BY <1>1 DEF BetaMemory, Coins
  <2>2. /\ Kept(memory, s) = Values(memory.rets[s]) /\ Returned(s) = ReturnsIn(seen, s)
        /\ LateBars(s) = LateIn(seen, s)
    BY Zenon DEF Kept, Values, Returned, ReturnsIn, MinutesOf, MinutesIn, LateBars, LateIn
  <2> QED
    BY <2>1, <2>2 DEF CoinAny, FewTwice
<1>5. ASSUME LateBars("ref") \cup LateBars("alt") = {}
      PROVE  /\ Pairs(memory) \subseteq Series
             /\ \A t \in Series : (\E p \in Pairs(memory) : p < t) => t \in Pairs(memory)
             /\ Cardinality(Series) - Cardinality(Pairs(memory)) <=
                  Cardinality(Returned("ref") \ Returned("alt")) + Cardinality(Returned("alt") \ Returned("ref"))
  <2>1. LateBars("ref") = {} /\ LateBars("alt") = {}
    BY <1>5
  <2>2. LateBars("ref") = LateIn(seen, "ref") /\ LateBars("alt") = LateIn(seen, "alt")
    BY Zenon DEF LateBars, LateIn
  <2>3. \A s \in Coins : LateIn(seen, s) = {}
    BY <2>1, <2>2 DEF Coins
  <2> QED
    BY <1>1, <1>2, <1>3, <2>3, BetaSays, Zenon
<1> QED
  BY <1>4, <1>5, Zenon DEF BetaExact

(* The histogram: the counts of the first buckets add up to the values     *)
(* these buckets are large enough for.                                     *)
HistEvents == [v : 0..6]
Slot(v) == IF v <= 1 THEN 1 ELSE IF v <= 2 THEN 2 ELSE IF v <= 4 THEN 3 ELSE 4
AtMostIn(h, x) == Cardinality({k \in DOMAIN h : h[k].v <= x})
Enough(h, q, x) == 100 * AtMostIn(h, x) >= q * Len(h)
TooFew(h, q, x) == 100 * AtMostIn(h, x) < q * Len(h)


LEMMA SearchIs ==
  ASSUME NEW v \in Int
  PROVE  Search(v) = Slot(v)
<1> DEFINE Edges == (1..4) \X (1..4)
           F(lo, hi) == IF lo >= hi THEN lo
                        ELSE IF lo <= 1 /\ hi > 1 /\ v <= 1 THEN 1
                        ELSE IF lo <= 2 /\ hi > 2 /\ v <= 2 THEN 2
                        ELSE IF lo <= 3 /\ hi > 3 /\ v <= 4 THEN 3 ELSE hi
           f == [w \in Edges |-> F(w[1], w[2])]
           Half(g, lo, hi, mid) == IF lo >= hi THEN lo
                                   ELSE IF v <= Bucket[mid] THEN g[<<lo, mid>>] ELSE g[<<mid + 1, hi>>]
           Is(g) == g = [w \in Edges |->
                           LET mid == (w[1] + w[2]) \div 2
                           IN IF w[1] >= w[2] THEN w[1]
                              ELSE IF v <= Bucket[mid] THEN g[<<w[1], mid>>] ELSE g[<<mid + 1, w[2]>>]]
<1>1. Bucket[1] = 1 /\ Bucket[2] = 2 /\ Bucket[3] = 4
  BY DEF Bucket
<1>1a. \A lo, hi \in 1..4 : <<lo, hi>> \in Edges
  OBVIOUS
<1>1b. \A w \in Edges : w[1] \in 1..4 /\ w[2] \in 1..4 /\ w = <<w[1], w[2]>>
  OBVIOUS
<1>1c. \A lo, hi \in 1..4 : f[<<lo, hi>>] = F(lo, hi)
  OBVIOUS
<1>2. ASSUME NEW g PROVE Is(g) <=> (g = [w \in Edges |-> Half(g, w[1], w[2], (w[1] + w[2]) \div 2)])
  OBVIOUS
<1>3. \A lo, hi \in 1..4 : F(lo, hi) = Half(f, lo, hi, (lo + hi) \div 2)
  <2> TAKE lo, hi \in 1..4
  <2> HIDE DEF f, Edges
  <2>1. lo \in {1, 2, 3, 4} /\ hi \in {1, 2, 3, 4}
    OBVIOUS
  <2>1a. (1 + 2) \div 2 = 1 /\ (1 + 3) \div 2 = 2 /\ (1 + 4) \div 2 = 2
         /\ (2 + 3) \div 2 = 2 /\ (2 + 4) \div 2 = 3 /\ (3 + 4) \div 2 = 3
    OBVIOUS
  <2>2. CASE lo >= hi
    BY <2>2
  <2>3. CASE lo = 1 /\ hi = 2
    <3>1. Half(f, 1, 2, 1) = IF v <= 1 THEN F(1, 1) ELSE F(2, 2)
      BY <1>1, <1>1c
    <3> QED
      BY <2>1a, <2>3, <3>1
  <2>4. CASE lo = 1 /\ hi = 3
    <3>1. Half(f, 1, 3, 2) = IF v <= 2 THEN F(1, 2) ELSE F(3, 3)
      BY <1>1, <1>1c
    <3> QED
      BY <2>1a, <2>4, <3>1
  <2>5. CASE lo = 1 /\ hi = 4
    <3>1. Half(f, 1, 4, 2) = IF v <= 2 THEN F(1, 2) ELSE F(3, 4)
      BY <1>1, <1>1c
    <3> QED
      BY <2>1a, <2>5, <3>1
  <2>6. CASE lo = 2 /\ hi = 3
    <3>1. Half(f, 2, 3, 2) = IF v <= 2 THEN F(2, 2) ELSE F(3, 3)
      BY <1>1, <1>1c
    <3> QED
      BY <2>1a, <2>6, <3>1
  <2>7. CASE lo = 2 /\ hi = 4
    <3>1. Half(f, 2, 4, 3) = IF v <= 4 THEN F(2, 3) ELSE F(4, 4)
      BY <1>1, <1>1c
    <3> QED
      BY <2>1a, <2>7, <3>1
  <2>8. CASE lo = 3 /\ hi = 4
    <3>1. Half(f, 3, 4, 3) = IF v <= 4 THEN F(3, 3) ELSE F(4, 4)
      BY <1>1, <1>1c
    <3> QED
      BY <2>1a, <2>8, <3>1
  <2> QED
    BY <2>1, <2>2, <2>3, <2>4, <2>5, <2>6, <2>7, <2>8
<1>4. Is(f)
  <2>1. \A w \in Edges : F(w[1], w[2]) = Half(f, w[1], w[2], (w[1] + w[2]) \div 2)
    BY <1>1b, <1>3
  <2> HIDE DEF F, Half
  <2>2. f = [w \in Edges |-> Half(f, w[1], w[2], (w[1] + w[2]) \div 2)]
    BY <2>1
  <2> USE DEF Half
  <2> QED
    BY <1>2, <2>2
<1>5. ASSUME NEW g, Is(g) PROVE g[<<1, 4>>] = Slot(v)
  <2>1. \A lo, hi \in 1..4 : g[<<lo, hi>>] = Half(g, lo, hi, (lo + hi) \div 2)
    <3> TAKE lo, hi \in 1..4
    <3>1. g = [w \in Edges |-> Half(g, w[1], w[2], (w[1] + w[2]) \div 2)]
      BY <1>2, <1>5
    <3> DEFINE G(w) == Half(g, w[1], w[2], (w[1] + w[2]) \div 2)
    <3>2. g[<<lo, hi>>] = G(<<lo, hi>>)
      <4>1. g = [w \in Edges |-> G(w)]
        BY <3>1
      <4> HIDE DEF G
      <4> QED
        BY <1>1a, <4>1
    <3> QED
      BY <3>2
  <2> HIDE DEF Is, f, Edges
  <2>2. g[<<1, 1>>] = 1 /\ g[<<2, 2>>] = 2 /\ g[<<3, 3>>] = 3 /\ g[<<4, 4>>] = 4
    BY <2>1
  <2>3. (1 + 2) \div 2 = 1 /\ (1 + 4) \div 2 = 2 /\ (3 + 4) \div 2 = 3
    OBVIOUS
  <2>4. /\ g[<<1, 2>>] = Half(g, 1, 2, (1 + 2) \div 2) /\ g[<<3, 4>>] = Half(g, 3, 4, (3 + 4) \div 2)
        /\ g[<<1, 4>>] = Half(g, 1, 4, (1 + 4) \div 2)
    BY <2>1
  <2>5. g[<<1, 2>>] = IF v <= 1 THEN 1 ELSE 2
    BY <1>1, <2>2, <2>3, <2>4
  <2>6. g[<<3, 4>>] = IF v <= 4 THEN 3 ELSE 4
    BY <1>1, <2>2, <2>3, <2>4
  <2>7. g[<<1, 4>>] = IF v <= 2 THEN g[<<1, 2>>] ELSE g[<<3, 4>>]
    BY <1>1, <2>3, <2>4
  <2> QED
    BY <2>5, <2>6, <2>7 DEF Slot
<1>6. Search(v) = (CHOOSE g : Is(g))[<<1, 4>>]
  BY Zenon DEF Search
<1> HIDE DEF Is
<1>7. Is(CHOOSE g : Is(g))
  BY <1>4, Zenon
<1> QED
  BY <1>5, <1>6, <1>7

LEMMA AtMostAppend ==
  ASSUME NEW h \in Seq(HistEvents), NEW e \in HistEvents, NEW x \in Int
  PROVE  /\ AtMostIn(h, x) \in Nat
         /\ AtMostIn(Append(h, e), x) = AtMostIn(h, x) + IF e.v <= x THEN 1 ELSE 0
<1> DEFINE g == Append(h, e)
           n == Len(h)
           S == {k \in DOMAIN h : h[k].v <= x}
           T == {k \in DOMAIN g : g[k].v <= x}
<1>1. /\ Len(g) = n + 1 /\ n \in Nat /\ g[n + 1] = e /\ DOMAIN h = 1..n /\ DOMAIN g = 1..(n + 1)
      /\ \A k \in 1..n : g[k] = h[k]
  BY AppendProperties
<1>2. S = {k \in 1..n : h[k].v <= x} /\ T = {k \in 1..(n + 1) : g[k].v <= x}
  BY <1>1
<1>3. \A k \in 1..(n + 1) : k \in 1..n \/ k = n + 1
  BY <1>1
<1>4. \A k \in 1..n : k \in 1..(n + 1) /\ k # n + 1
  BY <1>1
<1> HIDE DEF g, n, S, T
<1>5. IsFiniteSet(S) /\ Cardinality(S) \in Nat /\ n + 1 \notin S
  <2>1. IsFiniteSet(1..n)
    BY <1>1, FS_Interval
  <2>2. S \subseteq 1..n
    BY <1>2
  <2> QED
    BY <1>4, <2>1, <2>2, FS_Subset, FS_CardinalityType
<1>6. CASE e.v <= x
  <2>1. \A k \in T : k \in S \cup {n + 1}
    BY <1>1, <1>2, <1>3
  <2>2. \A k \in S \cup {n + 1} : k \in T
    <3>1. n + 1 \in 1..(n + 1)
      BY <1>1
    <3> QED
      BY <1>1, <1>2, <1>4, <1>6, <3>1
  <2>3. T = S \cup {n + 1}
    BY <2>1, <2>2
  <2>4. Cardinality(T) = Cardinality(S) + 1
    BY <1>5, <2>3, FS_AddElement
  <2> QED
    BY <1>5, <1>6, <2>4 DEF AtMostIn, S, T, g
<1>7. CASE ~(e.v <= x)
  <2>1. \A k \in T : k \in S
    BY <1>1, <1>2, <1>3, <1>7
  <2>2. \A k \in S : k \in T
    BY <1>1, <1>2, <1>4
  <2>3. T = S
    BY <2>1, <2>2
  <2>4. Cardinality(S) + 0 = Cardinality(S)
    BY <1>5
  <2> QED
    BY <1>5, <1>7, <2>3, <2>4 DEF AtMostIn, S, T, g
<1> QED
  BY <1>6, <1>7

LEMMA AtMostGrows ==
  ASSUME NEW h \in Seq(HistEvents), NEW x \in Int, NEW y \in Int, x <= y
  PROVE  AtMostIn(h, x) \in Nat /\ AtMostIn(h, y) \in Nat /\ AtMostIn(h, x) <= AtMostIn(h, y)
<1> DEFINE S == {k \in DOMAIN h : h[k].v <= x}
           T == {k \in DOMAIN h : h[k].v <= y}
<1>1. DOMAIN h = 1..Len(h) /\ Len(h) \in Nat /\ IsFiniteSet(1..Len(h))
  BY FS_Interval
<1>2. IsFiniteSet(T)
  BY <1>1, FS_Subset
<1>3. S \subseteq T
  <2> SUFFICES ASSUME NEW k \in S PROVE h[k].v <= y
    OBVIOUS
  <2>1. h[k] \in HistEvents
    BY <1>1
  <2>2. h[k].v \in Int /\ h[k].v <= x
    BY <2>1 DEF HistEvents
  <2> QED
    BY <2>2
<1> HIDE DEF S, T
<1>4. IsFiniteSet(S) /\ Cardinality(S) <= Cardinality(T) /\ Cardinality(S) \in Nat /\ Cardinality(T) \in Nat
  BY <1>2, <1>3, FS_Subset, FS_CardinalityType
<1> QED
  BY <1>4 DEF AtMostIn, S, T

(* The sums of the first counts. *)
LEMMA FirstSums ==
  ASSUME NEW c \in Seq(Nat), Len(c) = 4
  PROVE  /\ SumOf(SubSeq(c, 1, 1)) = c[1]
         /\ SumOf(SubSeq(c, 1, 2)) = c[1] + c[2]
         /\ SumOf(SubSeq(c, 1, 3)) = c[1] + c[2] + c[3]
         /\ SumOf(SubSeq(c, 1, 4)) = c[1] + c[2] + c[3] + c[4]
<1>1. c[1] \in Nat /\ c[2] \in Nat /\ c[3] \in Nat /\ c[4] \in Nat
  <2>1. \A k \in 1..4 : c[k] \in Nat
    BY ElementOfSeq
  <2> QED
    BY <2>1
<1>2. ASSUME NEW k \in 1..4
      PROVE  /\ SubSeq(c, 1, k) \in Seq(Int) /\ Len(SubSeq(c, 1, k)) = k
             /\ \A i \in 1..k : SubSeq(c, 1, k)[i] = c[i]
  <2>1. /\ SubSeq(c, 1, k) \in Seq(Nat) /\ Len(SubSeq(c, 1, k)) = k
        /\ \A i \in 1..k : SubSeq(c, 1, k)[i] = c[1 + i - 1]
    <3>1. 1 \in Int /\ k \in Int /\ 1 <= k /\ k - 1 + 1 = k
      OBVIOUS
    <3>2. \A i \in 1..k : c[i] \in Nat
      <4> TAKE i \in 1..k
      <4>1. i \in 1..Len(c)
        OBVIOUS
      <4> QED
        BY <4>1, ElementOfSeq
    <3> QED
      BY <3>1, <3>2, SubSeqProperties
  <2>2. \A i \in 1..k : 1 + i - 1 = i
    OBVIOUS
  <2>3. SubSeq(c, 1, k) \in Seq(Int)
    BY <2>1
  <2> QED
    BY <2>1, <2>2, <2>3
<1>3. ASSUME NEW k \in 1..4
      PROVE  \E f : f[0] = 0 /\ (\A i \in 1..k : f[i] = f[i - 1] + c[i]) /\ SumOf(SubSeq(c, 1, k)) = f[k]
  <2>1. PICK f : Sums(f, SubSeq(c, 1, k)) /\ SumOf(SubSeq(c, 1, k)) = f[Len(SubSeq(c, 1, k))]
    BY <1>2, SumIs
  <2>2. f[0] = 0 /\ \A i \in 1..k : f[i] = f[i - 1] + SubSeq(c, 1, k)[i]
    BY <1>2, <2>1 DEF Sums
  <2>3. \A i \in 1..k : f[i] = f[i - 1] + c[i]
    BY <1>2, <2>2
  <2> QED
    BY <1>2, <2>1, <2>2, <2>3
<1>4. SumOf(SubSeq(c, 1, 1)) = c[1]
  <2>1. PICK f : f[0] = 0 /\ (\A i \in 1..1 : f[i] = f[i - 1] + c[i]) /\ SumOf(SubSeq(c, 1, 1)) = f[1]
    BY <1>3
  <2>2. f[1] = f[0] + c[1]
    BY <2>1
  <2> QED
    BY <1>1, <2>1, <2>2
<1>5. SumOf(SubSeq(c, 1, 2)) = c[1] + c[2]
  <2>1. PICK f : f[0] = 0 /\ (\A i \in 1..2 : f[i] = f[i - 1] + c[i]) /\ SumOf(SubSeq(c, 1, 2)) = f[2]
    BY <1>3
  <2>2. f[1] = f[0] + c[1] /\ f[2] = f[1] + c[2]
    BY <2>1
  <2> QED
    BY <1>1, <2>1, <2>2
<1>6. SumOf(SubSeq(c, 1, 3)) = c[1] + c[2] + c[3]
  <2>1. PICK f : f[0] = 0 /\ (\A i \in 1..3 : f[i] = f[i - 1] + c[i]) /\ SumOf(SubSeq(c, 1, 3)) = f[3]
    BY <1>3
  <2>2. f[1] = f[0] + c[1] /\ f[2] = f[1] + c[2] /\ f[3] = f[2] + c[3]
    BY <2>1
  <2> QED
    BY <1>1, <2>1, <2>2
<1>7. SumOf(SubSeq(c, 1, 4)) = c[1] + c[2] + c[3] + c[4]
  <2>1. PICK f : f[0] = 0 /\ (\A i \in 1..4 : f[i] = f[i - 1] + c[i]) /\ SumOf(SubSeq(c, 1, 4)) = f[4]
    BY <1>3
  <2>2. f[1] = f[0] + c[1] /\ f[2] = f[1] + c[2] /\ f[3] = f[2] + c[3] /\ f[4] = f[3] + c[4]
    BY <2>1
  <2> QED
    BY <1>1, <2>1, <2>2
<1> QED
  BY <1>4, <1>5, <1>6, <1>7

HistMemory(h, c, n, x) ==
  /\ c \in Seq(Nat) /\ Len(c) = 4 /\ n = Len(h) /\ x \in Nat
  /\ c[1] = AtMostIn(h, 1) /\ c[1] + c[2] = AtMostIn(h, 2)
  /\ c[1] + c[2] + c[3] = AtMostIn(h, 4) /\ c[1] + c[2] + c[3] + c[4] = Len(h)
  /\ \A k \in DOMAIN h : h[k].v <= x
  /\ IF h = << >> THEN x = 0 ELSE \E k \in DOMAIN h : h[k].v = x
HistogramInv ==
  /\ seen \in Seq(HistEvents)
  /\ memory = [counts |-> memory.counts, n |-> memory.n, max |-> memory.max]
  /\ HistMemory(seen, memory.counts, memory.n, memory.max)

LEMMA HistogramStarts ==
  ASSUME seen = << >>, memory = Fresh("histogram")
  PROVE  HistogramInv
<1>1. memory = [counts |-> <<0, 0, 0, 0>>, n |-> 0, max |-> 0]
  BY DEF Fresh
<1>2. seen \in Seq(HistEvents) /\ DOMAIN seen = {} /\ Len(seen) = 0
  OBVIOUS
<1>3. \A x : AtMostIn(seen, x) = 0
  <2> TAKE x
  <2>1. {k \in DOMAIN seen : seen[k].v <= x} = {}
    BY <1>2
  <2> QED
    BY <2>1, FS_EmptySet DEF AtMostIn
<1>4. HistMemory(seen, <<0, 0, 0, 0>>, 0, 0)
  BY <1>2, <1>3 DEF HistMemory
<1> QED
  BY <1>1, <1>2, <1>4 DEF HistogramInv

TrueIn(h, q) == CHOOSE v \in 0..6 : /\ Enough(h, q, v) /\ \A w \in 0..(v - 1) : TooFew(h, q, w)

LEMMA TrueIs ==
  ASSUME NEW h \in Seq(HistEvents), NEW q \in {50, 95, 99}
  PROVE  /\ TrueIn(h, q) \in 0..6
         /\ \A b \in {1, 2, 4} : TrueIn(h, q) <= b <=> Enough(h, q, b)
<1> DEFINE T == {v \in 0..6 : Enough(h, q, v)}
<1>0. Len(h) \in Nat /\ DOMAIN h = 1..Len(h)
  OBVIOUS
<1>1. \A x \in Int : AtMostIn(h, x) \in Nat
  BY AtMostGrows
<1>2. \A x \in Int : TooFew(h, q, x) <=> ~Enough(h, q, x)
  <2> TAKE x \in Int
  <2> DEFINE a == 100 * AtMostIn(h, x)
             b == q * Len(h)
  <2>1. a \in Int /\ b \in Int
    BY <1>0, <1>1
  <2> HIDE DEF a, b
  <2>2. (a < b) <=> ~(a >= b)
    BY <2>1
  <2> QED
    BY <2>2 DEF TooFew, Enough, a, b
<1>3. \A x, y \in Int : x <= y /\ Enough(h, q, x) => Enough(h, q, y)
  <2> SUFFICES ASSUME NEW x \in Int, NEW y \in Int, x <= y, Enough(h, q, x) PROVE Enough(h, q, y)
    OBVIOUS
  <2>1. AtMostIn(h, x) \in Nat /\ AtMostIn(h, y) \in Nat /\ AtMostIn(h, x) <= AtMostIn(h, y)
    BY AtMostGrows
  <2> DEFINE b == q * Len(h)
  <2>2. b \in Int /\ 100 * AtMostIn(h, x) >= b
    BY <1>0 DEF Enough
  <2> HIDE DEF b
  <2>3. 100 * AtMostIn(h, y) >= b
    BY <2>1, <2>2
  <2> QED
    BY <2>3 DEF Enough, b
<1>4. Enough(h, q, 6)
  <2>1. {k \in DOMAIN h : h[k].v <= 6} = 1..Len(h)
    <3>1. \A k \in 1..Len(h) : h[k].v <= 6
      <4> TAKE k \in 1..Len(h)
      <4>1. h[k] \in HistEvents
        OBVIOUS
      <4> QED
        BY <4>1 DEF HistEvents
    <3> QED
      BY <1>0, <3>1
  <2>2. Cardinality(1..Len(h)) = Len(h)
    BY <1>0, FS_Interval
  <2>3. AtMostIn(h, 6) = Len(h)
    BY <2>1, <2>2 DEF AtMostIn
  <2>4. \A n \in Nat : 100 * n >= q * n
    OBVIOUS
  <2> QED
    BY <1>0, <2>3, <2>4 DEF Enough
<1>5. PICK t \in T : \A v \in T : t <= v
  <2>1. T \in SUBSET Nat /\ 6 \in T
    BY <1>4
  <2> HIDE DEF T
  <2> QED
    BY <2>1, Least
<1>6. t \in 0..6 /\ Enough(h, q, t) /\ \A w \in 0..(t - 1) : TooFew(h, q, w)
  <2>1. t \in 0..6 /\ Enough(h, q, t)
    OBVIOUS
  <2>2. ASSUME NEW w \in 0..(t - 1) PROVE TooFew(h, q, w)
    <3>1. w \in 0..6 /\ w \in Int /\ ~(t <= w)
      BY <2>1
    <3>2. w \notin T
      BY <1>5, <3>1
    <3> QED
      BY <1>2, <3>1, <3>2
  <2> QED
    BY <2>1, <2>2
<1> DEFINE s == TrueIn(h, q)
<1>7. s \in 0..6 /\ Enough(h, q, s) /\ \A w \in 0..(s - 1) : TooFew(h, q, w)
  BY <1>6 DEF TrueIn
<1> HIDE DEF s
<1>8. ASSUME NEW b \in {1, 2, 4} PROVE s <= b <=> Enough(h, q, b)
  <2>1. CASE s <= b
    BY <1>3, <1>7, <2>1
  <2>2. CASE ~(s <= b)
    <3>1. b \in 0..(s - 1) /\ b \in Int
      BY <1>7, <2>2
    <3> QED
      BY <1>2, <1>7, <2>2, <3>1
  <2> QED
    BY <2>1, <2>2
<1> QED
  BY <1>7, <1>8 DEF s

Answers(h, q, a) ==
  LET fits == {b \in {1, 2, 4} : TrueIn(h, q) <= b}
      Over(x) == \A k \in DOMAIN h : h[k].v <= x
  IN IF fits = {} THEN Over(a) /\ \E k \in DOMAIN h : h[k].v = a
     ELSE a \in fits /\ \A c \in fits : a <= c

LEMMA HistogramSays ==
  ASSUME NEW h \in Seq(HistEvents), h # << >>, NEW m, HistMemory(h, m.counts, m.n, m.max),
         NEW q \in {50, 95, 99}
  PROVE  Answers(h, q, Quantile(m, q))
<1> DEFINE c == m.counts
           Many(k) == 100 * SumOf(SubSeq(c, 1, k)) >= q * m.n
           enough == {k \in 1..4 : Many(k)}
           least == CHOOSE k \in enough : \A j \in enough : k <= j
           fits == {b \in {1, 2, 4} : TrueIn(h, q) <= b}
           a == Quantile(m, q)
<1>1. /\ c \in Seq(Nat) /\ Len(c) = 4 /\ m.n = Len(h) /\ m.max \in Nat
      /\ c[1] = AtMostIn(h, 1) /\ c[1] + c[2] = AtMostIn(h, 2)
      /\ c[1] + c[2] + c[3] = AtMostIn(h, 4) /\ c[1] + c[2] + c[3] + c[4] = Len(h)
      /\ \A k \in DOMAIN h : h[k].v <= m.max
      /\ \E k \in DOMAIN h : h[k].v = m.max
  BY DEF HistMemory
<1>2. a = IF least = 4 THEN m.max ELSE Bucket[least]
  BY Zenon DEF Quantile
<1>3. Bucket[1] = 1 /\ Bucket[2] = 2 /\ Bucket[3] = 4
  BY DEF Bucket
<1> HIDE DEF c
<1>4. /\ Many(1) <=> Enough(h, q, 1)
      /\ Many(2) <=> Enough(h, q, 2)
      /\ Many(3) <=> Enough(h, q, 4)
      /\ Many(4)
  <2>1. /\ SumOf(SubSeq(c, 1, 1)) = AtMostIn(h, 1) /\ SumOf(SubSeq(c, 1, 2)) = AtMostIn(h, 2)
        /\ SumOf(SubSeq(c, 1, 3)) = AtMostIn(h, 4) /\ SumOf(SubSeq(c, 1, 4)) = Len(h)
    BY <1>1, FirstSums
  <2>2. \A n \in Nat : 100 * n >= q * n
    OBVIOUS
  <2>3. Len(h) \in Nat
    OBVIOUS
  <2> QED
    BY <1>1, <2>1, <2>2, <2>3 DEF Enough
<1> HIDE DEF Many, a
<1>5. \A b \in {1, 2, 4} : b \in fits <=> Enough(h, q, b)
  BY TrueIs
<1>5a. fits \subseteq {1, 2, 4}
  OBVIOUS
<1> HIDE DEF fits
<1>5b. \A k \in 1..4 : k \in enough <=> Many(k)
  OBVIOUS
<1>5c. enough \subseteq {1, 2, 3, 4}
  OBVIOUS
<1> HIDE DEF enough
<1>5d. 1 \in 1..4 /\ 2 \in 1..4 /\ 3 \in 1..4 /\ 4 \in 1..4
  OBVIOUS
<1>6. ASSUME NEW k \in enough, \A j \in enough : k <= j PROVE least = k
  <2>1. \A j \in enough : (\A i \in enough : j <= i) => j = k
    BY <1>5c, <1>6
  <2> QED
    BY <1>6, <2>1
<1> HIDE DEF least
<1>7. TrueIn(h, q) \in 0..6
  BY TrueIs
<1>8. \A b, d \in {1, 2, 4} : b <= d /\ b \in fits => d \in fits
  BY <1>7 DEF fits
<1>9. IF fits = {} THEN (\A k \in DOMAIN h : h[k].v <= a) /\ \E k \in DOMAIN h : h[k].v = a
      ELSE a \in fits /\ \A x \in fits : a <= x
  <2>1. CASE Many(1)
    <3>1. 1 \in enough /\ \A j \in enough : 1 <= j
      BY <1>5b, <1>5c, <1>5d, <2>1
    <3>2. least = 1 /\ a = 1
      BY <1>2, <1>3, <1>6, <3>1
    <3>3. 1 \in fits /\ \A x \in fits : 1 <= x
      BY <1>4, <1>5, <1>5a, <2>1
    <3> QED
      BY <3>2, <3>3
  <2>2. CASE ~Many(1) /\ Many(2)
    <3>1. 2 \in enough /\ \A j \in enough : 2 <= j
      BY <1>5b, <1>5c, <1>5d, <2>2
    <3>2. least = 2 /\ a = 2
      BY <1>2, <1>3, <1>6, <3>1
    <3>3. 2 \in fits /\ \A x \in fits : 2 <= x
      BY <1>4, <1>5, <1>5a, <2>2
    <3> QED
      BY <3>2, <3>3
  <2>3. CASE ~Many(1) /\ ~Many(2) /\ Many(3)
    <3>1. 3 \in enough /\ \A j \in enough : 3 <= j
      BY <1>5b, <1>5c, <1>5d, <2>3
    <3>2. least = 3 /\ a = 4
      BY <1>2, <1>3, <1>6, <3>1
    <3>3. 4 \in fits /\ \A x \in fits : 4 <= x
      BY <1>4, <1>5, <1>5a, <2>3
    <3> QED
      BY <3>2, <3>3
  <2>4. CASE ~Many(1) /\ ~Many(2) /\ ~Many(3)
    <3>1. 4 \in enough /\ \A j \in enough : 4 <= j
      BY <1>4, <1>5b, <1>5c, <1>5d, <2>4
    <3>2. least = 4 /\ a = m.max
      BY <1>2, <1>6, <3>1
    <3>3. fits = {}
      BY <1>4, <1>5, <1>5a, <2>4
    <3> QED
      BY <1>1, <3>2, <3>3
  <2> QED
    BY <2>1, <2>2, <2>3, <2>4
<1> QED
  BY <1>9 DEF Answers, fits, a

LEMMA HistogramSteps == HistogramInv /\ TellHistogram => HistogramInv'
<1> SUFFICES ASSUME HistogramInv, TellHistogram PROVE HistogramInv'
  OBVIOUS
<1>1. PICK e \in HistogramEvent : Tell("histogram", e, OnHistogram(memory, e), {})
  BY DEF TellHistogram
<1>2. seen' = Append(seen, e) /\ memory' = OnHistogram(memory, e)
  BY <1>1 DEF Tell
<1>3. /\ seen \in Seq(HistEvents) /\ memory = [counts |-> memory.counts, n |-> memory.n, max |-> memory.max]
      /\ HistMemory(seen, memory.counts, memory.n, memory.max)
  BY DEF HistogramInv
<1>4. e \in HistEvents /\ e.v \in 0..6
  BY DEF HistEvents, HistogramEvent
<1> DEFINE c == memory.counts
           b == Search(e.v)
           d == [c EXCEPT ![b] = @ + 1]
           x == memory.max
           y == IF e.v > x THEN e.v ELSE x
           N == Len(seen)
<1>5. /\ c \in Seq(Nat) /\ Len(c) = 4 /\ memory.n = N /\ x \in Nat
      /\ c[1] = AtMostIn(seen, 1) /\ c[1] + c[2] = AtMostIn(seen, 2)
      /\ c[1] + c[2] + c[3] = AtMostIn(seen, 4) /\ c[1] + c[2] + c[3] + c[4] = N
      /\ \A k \in DOMAIN seen : seen[k].v <= x
      /\ IF seen = << >> THEN x = 0 ELSE \E k \in DOMAIN seen : seen[k].v = x
  BY <1>3 DEF HistMemory
<1>6. /\ seen' \in Seq(HistEvents) /\ Len(seen') = N + 1 /\ N \in Nat /\ seen'[N + 1] = e /\ DOMAIN seen' = 1..(N + 1)
      /\ DOMAIN seen = 1..N /\ \A k \in 1..N : seen'[k] = seen[k]
  BY <1>2, <1>3, <1>4, AppendProperties
<1>7. b = Slot(e.v)
  BY <1>4, SearchIs
<1>8. memory' = [counts |-> d, n |-> N + 1, max |-> y]
  BY <1>2, <1>5 DEF OnHistogram
<1>8a. c[1] \in Nat /\ c[2] \in Nat /\ c[3] \in Nat /\ c[4] \in Nat
  <2>1. \A k \in 1..4 : c[k] \in Nat
    <3> HIDE DEF c
    <3> QED
      BY <1>5, ElementOfSeq
  <2> QED
    BY <2>1
<1> HIDE DEF c, b, N, x
<1>9. /\ AtMostIn(seen', 1) = AtMostIn(seen, 1) + IF e.v <= 1 THEN 1 ELSE 0
      /\ AtMostIn(seen', 2) = AtMostIn(seen, 2) + IF e.v <= 2 THEN 1 ELSE 0
      /\ AtMostIn(seen', 4) = AtMostIn(seen, 4) + IF e.v <= 4 THEN 1 ELSE 0
  BY <1>2, <1>3, <1>4, AtMostAppend
<1>10. b \in 1..4 /\ d \in Seq(Nat) /\ Len(d) = 4 /\ \A j \in 1..4 : d[j] = IF j = b THEN c[j] + 1 ELSE c[j]
  <2>1. b \in 1..4
    BY <1>7 DEF Slot
  <2>2. c[b] + 1 \in Nat
    BY <1>5, <2>1, ElementOfSeq
  <2> DEFINE z == c[b] + 1
  <2>3. d = [c EXCEPT ![b] = z]
    OBVIOUS
  <2> HIDE DEF d
  <2>4. \A j \in 1..4 : d[j] = IF j = b THEN z ELSE c[j]
    <3> HIDE DEF z
    <3> QED
      BY <1>5, <2>1, <2>2, <2>3, ExceptSeq DEF z
  <2>5. d \in Seq(Nat) /\ Len(d) = 4
    <3> HIDE DEF z
    <3> QED
      BY <1>5, <2>1, <2>2, <2>3, ExceptSeq DEF z
  <2>6. \A j \in 1..4 : d[j] = IF j = b THEN c[j] + 1 ELSE c[j]
    BY <2>4
  <2> QED
    BY <2>1, <2>5, <2>6
<1> HIDE DEF d
<1>11. /\ d[1] = IF b = 1 THEN c[1] + 1 ELSE c[1]
       /\ d[2] = IF b = 2 THEN c[2] + 1 ELSE c[2]
       /\ d[3] = IF b = 3 THEN c[3] + 1 ELSE c[3]
       /\ d[4] = IF b = 4 THEN c[4] + 1 ELSE c[4]
  BY <1>10
<1>12. /\ d[1] = AtMostIn(seen', 1) /\ d[1] + d[2] = AtMostIn(seen', 2)
       /\ d[1] + d[2] + d[3] = AtMostIn(seen', 4) /\ d[1] + d[2] + d[3] + d[4] = N + 1
  <2> DEFINE A == AtMostIn(seen, 1)
             B == AtMostIn(seen, 2)
             D == AtMostIn(seen, 4)
             A2 == AtMostIn(seen', 1)
             B2 == AtMostIn(seen', 2)
             D2 == AtMostIn(seen', 4)
  <2>0. /\ c[1] = A /\ c[1] + c[2] = B /\ c[1] + c[2] + c[3] = D /\ c[1] + c[2] + c[3] + c[4] = N
        /\ A2 = A + (IF e.v <= 1 THEN 1 ELSE 0) /\ B2 = B + (IF e.v <= 2 THEN 1 ELSE 0)
        /\ D2 = D + (IF e.v <= 4 THEN 1 ELSE 0)
    BY <1>5, <1>9
  <2> HIDE DEF A, B, D, A2, B2, D2
  <2>9. d[1] = A2 /\ d[1] + d[2] = B2 /\ d[1] + d[2] + d[3] = D2 /\ d[1] + d[2] + d[3] + d[4] = N + 1
    <3>1. CASE e.v <= 1
      <4>1. b = 1 /\ e.v <= 2 /\ e.v <= 4
        BY <1>4, <1>7, <3>1 DEF Slot
      <4>2. d[1] = c[1] + 1 /\ d[2] = c[2] /\ d[3] = c[3] /\ d[4] = c[4]
        BY <1>11, <4>1
      <4>3. A2 = A + 1 /\ B2 = B + 1 /\ D2 = D + 1
        BY <2>0, <4>1, <3>1
      <4> QED
        BY <1>8a, <2>0, <4>2, <4>3
    <3>2. CASE ~(e.v <= 1) /\ e.v <= 2
      <4>1. b = 2 /\ e.v <= 4 /\ ~(e.v <= 1)
        BY <1>4, <1>7, <3>2 DEF Slot
      <4>2. d[1] = c[1] /\ d[2] = c[2] + 1 /\ d[3] = c[3] /\ d[4] = c[4]
        BY <1>11, <4>1
      <4>3. A2 = A + 0 /\ B2 = B + 1 /\ D2 = D + 1
        BY <2>0, <4>1, <3>2
      <4> QED
        BY <1>8a, <2>0, <4>2, <4>3
    <3>3. CASE ~(e.v <= 2) /\ e.v <= 4
      <4>1. b = 3 /\ ~(e.v <= 1) /\ ~(e.v <= 2)
        BY <1>4, <1>7, <3>3 DEF Slot
      <4>2. d[1] = c[1] /\ d[2] = c[2] /\ d[3] = c[3] + 1 /\ d[4] = c[4]
        BY <1>11, <4>1
      <4>3. A2 = A + 0 /\ B2 = B + 0 /\ D2 = D + 1
        BY <2>0, <4>1, <3>3
      <4> QED
        BY <1>8a, <2>0, <4>2, <4>3
    <3>4. CASE ~(e.v <= 4)
      <4>1. b = 4 /\ ~(e.v <= 1) /\ ~(e.v <= 2) /\ ~(e.v <= 4)
        BY <1>4, <1>7, <3>4 DEF Slot
      <4>2. d[1] = c[1] /\ d[2] = c[2] /\ d[3] = c[3] /\ d[4] = c[4] + 1
        BY <1>11, <4>1
      <4>3. A2 = A + 0 /\ B2 = B + 0 /\ D2 = D + 0
        BY <2>0, <4>1, <3>4
      <4> QED
        BY <1>8a, <2>0, <4>2, <4>3
    <3> QED
      BY <1>4, <3>1, <3>2, <3>3, <3>4
  <2> QED
    BY <2>9 DEF A2, B2, D2
<1>13. y \in Nat /\ (\A k \in DOMAIN seen' : seen'[k].v <= y) /\ \E k \in DOMAIN seen' : seen'[k].v = y
  <2>0. y \in Nat /\ x <= y /\ e.v <= y
    BY <1>4, <1>5
  <2>0a. \A k \in 1..(N + 1) : k \in 1..N \/ k = N + 1
    BY <1>6
  <2>0b. \A k \in 1..N : seen[k].v \in Nat /\ seen[k].v <= x
    <3> TAKE k \in 1..N
    <3>1. seen[k] \in HistEvents /\ seen[k].v <= x
      BY <1>3, <1>5, <1>6
    <3> QED
      BY <3>1 DEF HistEvents
  <2>1. CASE e.v > x
    <3>1. y = e.v /\ N + 1 \in 1..(N + 1)
      BY <1>6, <2>1 DEF y
    <3>2. \A k \in 1..N : seen'[k].v <= y
      BY <1>5, <1>6, <2>0, <2>0b
    <3>3. seen'[N + 1].v = y
      BY <1>6, <3>1
    <3>4. \A k \in 1..(N + 1) : seen'[k].v <= y
      BY <2>0, <2>0a, <3>2, <3>3
    <3> QED
      BY <1>6, <2>0, <3>1, <3>3, <3>4
  <2>2. CASE ~(e.v > x)
    <3>1. y = x
      BY <2>2
    <3>2. \E k \in 1..(N + 1) : seen'[k].v = x
      <4>1. CASE seen # << >>
        BY <1>5, <1>6, <4>1
      <4>2. CASE seen = << >>
        <5>1. x = 0 /\ N = 0
          BY <1>3, <1>5, <4>2 DEF N
        <5>2. e.v = x /\ N + 1 \in 1..(N + 1)
          BY <1>4, <1>6, <2>2, <5>1
        <5> QED
          BY <1>6, <5>2
      <4> QED
        BY <4>1, <4>2
    <3>3. \A k \in 1..(N + 1) : seen'[k].v <= y
      BY <1>5, <1>6, <2>0, <2>0a, <2>0b
    <3> QED
      BY <1>6, <2>0, <3>1, <3>2, <3>3
  <2> QED
    BY <2>1, <2>2
<1> HIDE DEF y
<1>14. HistMemory(seen', d, N + 1, y)
  BY <1>6, <1>10, <1>12, <1>13 DEF HistMemory
<1>15. /\ memory' = [counts |-> memory'.counts, n |-> memory'.n, max |-> memory'.max]
       /\ memory'.counts = d /\ memory'.n = N + 1 /\ memory'.max = y
  BY <1>8
<1>16. HistMemory(seen', memory'.counts, memory'.n, memory'.max)
  BY <1>14, <1>15
<1> QED
  BY <1>6, <1>15, <1>16 DEF HistogramInv

LEMMA HistogramAnswers == HistogramInv /\ seen # << >> => HistogramExact
<1> SUFFICES ASSUME HistogramInv, seen # << >> PROVE HistogramExact
  OBVIOUS
<1>1. \A q \in {50, 95, 99} : Answers(seen, q, Quantile(memory, q))
  BY HistogramSays DEF HistogramInv
<1> QED
  BY <1>1, Zenon DEF HistogramExact, Answers, TrueIn, Enough, TooFew, AtMostIn

-----------------------------------------------------------------------------
(* All of them. *)
MonInv ==
  \/ watch = "runaway" /\ RunawayInv
  \/ watch = "breaker" /\ BreakerInv
  \/ watch = "drift" /\ DriftInv
  \/ watch = "stream" /\ StreamInv
  \/ watch = "beta" /\ BetaInv
  \/ watch = "histogram" /\ HistogramInv

LEMMA MonitorsStart == MonInit => MonInv
<1> SUFFICES ASSUME MonInit PROVE MonInv
  OBVIOUS
<1>1. watch \in Monitor /\ seen = << >> /\ memory = Fresh(watch)
  BY DEF MonInit, Monitor
<1> QED
  BY <1>1, RunawayStarts, BreakerStarts, DriftStarts, StreamStarts, BetaStarts, HistogramStarts
     DEF MonInv, Monitor

LEMMA MonitorsStep == MonInv /\ [MonNext]_monVars => MonInv'
<1> SUFFICES ASSUME MonInv, [MonNext]_monVars PROVE MonInv'
  OBVIOUS
<1>1. CASE UNCHANGED monVars
  <2>1. seen' = seen /\ memory' = memory /\ raised' = raised /\ watch' = watch
    BY <1>1 DEF monVars
  <2>2. RunawayInv => RunawayInv'
    BY <2>1 DEF RunawayInv
  <2>3. BreakerInv => BreakerInv'
    BY <2>1 DEF BreakerInv
  <2>4. DriftInv => DriftInv'
    BY <2>1 DEF DriftInv
  <2>5. StreamInv => StreamInv'
    BY <2>1 DEF StreamInv
  <2>6. BetaInv => BetaInv'
    BY <2>1 DEF BetaInv
  <2>7. HistogramInv => HistogramInv'
    BY <2>1 DEF HistogramInv
  <2> QED
    BY <2>1, <2>2, <2>3, <2>4, <2>5, <2>6, <2>7 DEF MonInv
<1>2. CASE MonNext
  <2>1. CASE TellRunaway
    <3>1. watch = "runaway" /\ watch' = watch
      BY <2>1 DEF TellRunaway, Tell
    <3> QED
      BY <2>1, <3>1, RunawaySteps DEF MonInv
  <2>2. CASE TellBreaker
    <3>1. watch = "breaker" /\ watch' = watch
      BY <2>2 DEF TellBreaker, Tell
    <3> QED
      BY <2>2, <3>1, BreakerSteps DEF MonInv
  <2>3. CASE TellDrift
    <3>1. watch = "drift" /\ watch' = watch
      BY <2>3 DEF TellDrift, Tell
    <3> QED
      BY <2>3, <3>1, DriftSteps DEF MonInv
  <2>4. CASE TellStream
    <3>1. watch = "stream" /\ watch' = watch
      BY <2>4 DEF TellStream, Tell
    <3> QED
      BY <2>4, <3>1, StreamSteps DEF MonInv
  <2>5. CASE TellBeta
    <3>1. watch = "beta" /\ watch' = watch
      BY <2>5 DEF TellBeta, Tell
    <3> QED
      BY <2>5, <3>1, BetaSteps DEF MonInv
  <2>6. CASE TellHistogram
    <3>1. watch = "histogram" /\ watch' = watch
      BY <2>6 DEF TellHistogram, Tell
    <3> QED
      BY <2>6, <3>1, HistogramSteps DEF MonInv
  <2> QED
    BY <1>2, <2>1, <2>2, <2>3, <2>4, <2>5, <2>6 DEF MonNext
<1> QED
  BY <1>1, <1>2

LEMMA MonitorsAnswer == MonInv => MonitorsExact
<1> SUFFICES ASSUME MonInv, seen # << >>
             PROVE  CASE watch = "runaway" -> RunawayExact [] watch = "breaker" -> BreakerExact
                      [] watch = "drift"   -> DriftExact   [] watch = "stream"  -> StreamExact
                      [] watch = "beta"    -> BetaExact    [] watch = "histogram" -> HistogramExact
  BY Zenon DEF MonitorsExact
<1> QED
  BY RunawayAnswers, BreakerAnswers, DriftAnswers, StreamAnswers, BetaAnswers, HistogramAnswers DEF MonInv
=============================================================================
