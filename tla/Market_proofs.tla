---------------------------- MODULE Market_proofs ----------------------------
(***************************************************************************)
(* Theorems about Market.                                                  *)
(***************************************************************************)
EXTENDS Market, Monitors_proofs, FunctionTheorems, FiniteSetTheorems, SequenceTheorems,
        WellFoundedInduction, TLAPS

-----------------------------------------------------------------------------
(* The maximum of a set of integers. *)
LEMMA MaxIs ==
  ASSUME NEW S \in SUBSET Int, NEW m \in S, \A y \in S : y <= m
  PROVE  Max(S) = m
<1>1. \A x \in S : (\A y \in S : x >= y) => x = m
  OBVIOUS
<1>2. \A y \in S : m >= y
  OBVIOUS
<1> QED BY <1>1, <1>2, Zenon DEF Max

LEMMA MaxInRange ==
  ASSUME NEW a \in Nat, NEW b \in Nat, NEW S \in SUBSET (a..b), S # {}
  PROVE  Max(S) \in S /\ \A y \in S : y <= Max(S)
<1> DEFINE T == {b - y : y \in S}
<1>1. \A y \in S : y \in Nat /\ b - y \in Nat
  OBVIOUS
<1>1a. T \in SUBSET Nat /\ T # {}
  BY <1>1
<1>2. PICK t \in T : \A u \in T : t <= u
  BY <1>1a, Least
<1>3. PICK m \in S : t = b - m
  BY <1>2
<1>4. \A y \in S : y <= m
  <2> TAKE y \in S
  <2>1. b - y \in T
    OBVIOUS
  <2>2. t <= b - y
    BY <1>2, <2>1
  <2> QED BY <1>3, <2>2
<1>5. S \in SUBSET Int
  OBVIOUS
<1>6. Max(S) = m
  BY <1>4, <1>5, MaxIs
<1> QED BY <1>4, <1>6

-----------------------------------------------------------------------------
(* The local book. *)
At(l, a, b) == {i \in a..b : i % Levels = l}

LEMMA BookAtLevel ==
  ASSUME NEW n \in Nat, NEW l \in PriceLevel
  PROVE  /\ At(l, 1, n) = {} => BookAt(n)[l] = 0
         /\ At(l, 1, n) # {} => BookAt(n)[l] = Max(At(l, 1, n))
BY DEF BookAt, At

LEMMA BookAtType ==
  ASSUME NEW n \in 0..MaxId
  PROVE  BookAt(n) \in [PriceLevel -> 0..MaxId]
<1>1. \A l \in PriceLevel : BookAt(n)[l] \in 0..MaxId
  <2> TAKE l \in PriceLevel
  <2>1. CASE At(l, 1, n) = {}
    BY <2>1, BookAtLevel, DBAssumption
  <2>2. CASE At(l, 1, n) # {}
    <3>1. At(l, 1, n) \in SUBSET (1..n)
      BY DEF At
    <3>2. Max(At(l, 1, n)) \in 1..n
      BY <2>2, <3>1, MaxInRange, DBAssumption
    <3> QED BY <2>2, <3>2, BookAtLevel, DBAssumption
  <2> QED BY <2>1, <2>2
<1> QED BY <1>1 DEF BookAt

(* A publication: its changes follow on the one before. *)
Publication == {d \in DepthEvent : d.U <= d.u /\ d.pu = d.U - 1}

(* Writing a publication over a book that it begins at or before, and ends *)
(* at or after, makes the book of its end.                                 *)
LEMMA WrittenIsBookAt ==
  ASSUME NEW d \in Publication, NEW n \in 0..MaxId, d.U <= n + 1, n <= d.u
  PROVE  Written(BookAt(n), d) = BookAt(d.u)
<1> DEFINE old(l) == At(l, 1, n)
           new(l) == At(l, d.U, d.u)
           all(l) == At(l, 1, d.u)
<1>0. d.U \in Nat /\ d.u \in Nat /\ d.U \in 1..MaxId /\ d.u \in 1..MaxId /\ MaxId \in Nat /\ n \in Nat
  BY DBAssumption DEF Publication, DepthEvent
<1>1. ASSUME NEW l \in PriceLevel
      PROVE  Written(BookAt(n), d)[l] = BookAt(d.u)[l]
  <2>1. Written(BookAt(n), d)[l] = IF new(l) = {} THEN BookAt(n)[l] ELSE Max(new(l))
    BY DEF Written, At
  <2>2. CASE new(l) = {}
    <3>1. old(l) = all(l)
      BY <1>0, <2>2 DEF At
    <3> QED BY <1>0, <2>1, <2>2, <3>1, BookAtLevel
  <2>3. CASE new(l) # {}
    <3>1. new(l) \in SUBSET (d.U..d.u) /\ all(l) \in SUBSET Int /\ new(l) \subseteq all(l)
      BY <1>0 DEF At
    <3>2. Max(new(l)) \in new(l) /\ \A y \in new(l) : y <= Max(new(l))
      <4> HIDE DEF new
      <4>1. new(l) \in SUBSET (d.U..d.u)
        BY <3>1
      <4> QED BY <1>0, <2>3, <4>1, MaxInRange
    <3>3. \A y \in all(l) : y \in new(l) \/ y < d.U
      BY <1>0 DEF At
    <3>4. \A y \in all(l) : y <= Max(new(l))
      <4> HIDE DEF new, all
      <4> QED BY <1>0, <3>1, <3>2, <3>3
    <3>5. Max(all(l)) = Max(new(l))
      <4> HIDE DEF new, all
      <4> QED BY <3>1, <3>2, <3>4, MaxIs
    <3>6. all(l) # {}
      BY <3>1, <3>2
    <3> QED BY <1>0, <2>1, <2>3, <3>5, <3>6, BookAtLevel
  <2> QED BY <2>2, <2>3
<1> QED BY <1>1 DEF Written, BookAt

(* What is left of a buffer after its first i events, and that there is    *)
(* such a function: apply_snapshot's loop.                                 *)
IsRun(f, s, L) ==
  f = [i \in 0..Len(s) |-> IF i = 0 THEN Taken(L) ELSE Pending(f[i - 1], s[i])]

LEMMA RunExists ==
  ASSUME NEW s \in Seq(Publication), NEW L
  PROVE  \E f : IsRun(f, s, L)
<1> DEFINE Upto(f, n) == f = [i \in 0..n |-> IF i = 0 THEN Taken(L) ELSE Pending(f[i - 1], s[i])]
           T == {n \in Nat : \E f : Upto(f, n)}
<1>1. 0 \in T
  <2> DEFINE f0 == [i \in 0..0 |-> Taken(L)]
  <2>1. Upto(f0, 0)
    <3> HIDE DEF Taken, Pending
    <3> QED OBVIOUS
  <2> QED BY <2>1
<1>2. ASSUME NEW n \in T PROVE n + 1 \in T
  <2>1. PICK f : Upto(f, n)
    BY <1>2
  <2> DEFINE g == [i \in 0..(n + 1) |-> IF i <= n THEN f[i] ELSE Pending(f[n], s[n + 1])]
  <2>2. \A i \in 0..(n + 1) : g[i] = IF i = 0 THEN Taken(L) ELSE Pending(g[i - 1], s[i])
    <3> TAKE i \in 0..(n + 1)
    <3>1. n \in Nat
      OBVIOUS
    <3>2. CASE i = 0
      BY <2>1, <3>1, <3>2
    <3>3. CASE i # 0 /\ i <= n
      <4>1. i - 1 \in 0..n /\ i \in 0..n
        BY <3>1, <3>3
      <4>2. f[i] = Pending(f[i - 1], s[i])
        BY <2>1, <3>3, <4>1
      <4>3. g[i] = f[i] /\ g[i - 1] = f[i - 1]
        BY <3>1, <3>3, <4>1
      <4> QED BY <3>3, <4>2, <4>3
    <3>4. CASE i = n + 1
      <4>1. g[i] = Pending(f[n], s[n + 1]) /\ g[i - 1] = f[n] /\ i # 0
        BY <3>1, <3>4
      <4> QED BY <3>4, <4>1
    <3> QED BY <3>1, <3>2, <3>3, <3>4
  <2>3. Upto(g, n + 1)
    <3> HIDE DEF Taken, Pending
    <3> QED BY <2>2
  <2>4. \E h : Upto(h, n + 1)
    BY <2>3
  <2>5. n + 1 \in Nat
    OBVIOUS
  <2> QED BY <2>4, <2>5
<1>3. T = Nat
  <2> HIDE DEF T
  <2>1. T \in SUBSET Nat
    BY DEF T
  <2> QED BY <1>1, <1>2, <2>1, Induct
<1>4. Len(s) \in T
  BY <1>3
<1>5. PICK f : Upto(f, Len(s))
  BY <1>4
<1> QED BY <1>5, Zenon DEF IsRun

LEMMA RunOfSnapshot ==
  ASSUME NEW b, b.buffer \in Seq(Publication), NEW L
  PROVE  \E f : IsRun(f, b.buffer, L) /\ ApplySnapshot(b, L) = f[Len(b.buffer)]
<1> DEFINE f == CHOOSE f : IsRun(f, b.buffer, L)
<1>1. IsRun(f, b.buffer, L)
  <2>1. \E g : IsRun(g, b.buffer, L)
    BY RunExists
  <2> QED BY <2>1, Zenon
<1>2. ApplySnapshot(b, L) = f[Len(b.buffer)]
  BY Zenon DEF ApplySnapshot, IsRun
<1> QED BY <1>1, <1>2, Zenon

(* A book that says it is synchronised is the exchange's: at the snapshot, *)
(* and from the first event on at the last one.                            *)
AtEvent(b)  == IF b.lastU = NoU THEN b.id ELSE b.lastU
TrueBook(b) ==
  /\ b \in LocalBook /\ b.buffer \in Seq(Publication)
  /\ b.synced => b.buffer = << >> /\ b.book = BookAt(AtEvent(b))

LEMMA PublicationIsEvent ==
  /\ Publication \subseteq DepthEvent
  /\ \A d \in Publication : /\ d.U \in 1..MaxId /\ d.u \in 1..MaxId /\ d.pu = d.U - 1
                            /\ d.U <= d.u /\ d.u # NoU
BY DBAssumption DEF Publication, DepthEvent, NoU

LEMMA TakenIsTrue ==
  ASSUME NEW L \in 0..MaxId
  PROVE  /\ TrueBook(Taken(L)) /\ Taken(L).buffer = << >>
         /\ Taken(L).synced /\ Taken(L).lastU = NoU /\ Taken(L).id = L
<1>1. BookAt(L) \in [PriceLevel -> 0..MaxId]
  BY BookAtType
<1>2. Taken(L) \in LocalBook
  BY <1>1, DBAssumption DEF Taken, LocalBook, NoU
<1> QED BY <1>2 DEF Taken, TrueBook, AtEvent

LEMMA ResyncIsTrue ==
  ASSUME NEW b, TrueBook(b)
  PROVE  /\ TrueBook(Resync(b)) /\ Resync(b).buffer = b.buffer
         /\ ~Resync(b).synced
<1>0. b \in LocalBook /\ 0 \in 0..MaxId
  BY DBAssumption DEF TrueBook
<1>1. Resync(b) \in LocalBook
  BY <1>0 DEF LocalBook, Resync, NoU
<1> QED BY <1>1 DEF TrueBook, LocalBook, Resync

(* An event that begins no later than behind the book, and ends no earlier.*)
LEMMA ApplyIsTrue ==
  ASSUME NEW b, TrueBook(b), b.synced, NEW d \in Publication,
         d.U <= AtEvent(b) + 1, AtEvent(b) <= d.u
  PROVE  /\ TrueBook(Apply(b, d)) /\ Apply(b, d).buffer = b.buffer
         /\ Apply(b, d).synced /\ Apply(b, d).lastU = d.u
<1>1. AtEvent(b) \in 0..MaxId /\ b.book = BookAt(AtEvent(b))
  BY DEF TrueBook, LocalBook, AtEvent
<1>2. Written(b.book, d) = BookAt(d.u)
  BY <1>1, WrittenIsBookAt
<1>3. d.u \in 0..MaxId /\ d.u # NoU
  BY PublicationIsEvent, DBAssumption
<1>4. BookAt(d.u) \in [PriceLevel -> 0..MaxId]
  BY <1>3, BookAtType
<1>5. Apply(b, d) \in LocalBook
  BY <1>2, <1>3, <1>4 DEF TrueBook, LocalBook, Apply
<1>6. /\ Apply(b, d).book = BookAt(d.u) /\ Apply(b, d).lastU = d.u
      /\ Apply(b, d).buffer = b.buffer /\ Apply(b, d).synced
  BY <1>2 DEF TrueBook, LocalBook, Apply
<1>7. AtEvent(Apply(b, d)) = d.u
  BY <1>3, <1>6 DEF AtEvent
<1> QED BY <1>5, <1>6, <1>7 DEF TrueBook

LEMMA ProcessIsTrue ==
  ASSUME NEW b, TrueBook(b), b.synced, NEW d \in Publication
  PROVE  TrueBook(Process(b, d)) /\ Process(b, d).buffer = b.buffer
<1>1. b.id \in 0..MaxId /\ b.lastU \in 0..MaxId /\ MaxId \in Nat
  BY DBAssumption DEF TrueBook, LocalBook
<1>2. d.U \in 1..MaxId /\ d.u \in 1..MaxId /\ d.pu = d.U - 1 /\ d.U <= d.u
  BY PublicationIsEvent
<1>3. CASE b.lastU = NoU /\ d.u < b.id
  BY <1>3 DEF Process
<1>4. CASE b.lastU = NoU /\ ~(d.u < b.id) /\ d.U <= b.id /\ b.id <= d.u
  <2>1. d.U <= AtEvent(b) + 1 /\ AtEvent(b) <= d.u
    BY <1>1, <1>2, <1>4 DEF AtEvent
  <2>2. Process(b, d) = Apply(b, d)
    BY <1>4 DEF Process
  <2> QED BY <2>1, <2>2, ApplyIsTrue
<1>5. CASE b.lastU = NoU /\ ~(d.u < b.id) /\ ~(d.U <= b.id /\ b.id <= d.u)
  <2>1. Process(b, d) = Resync(b)
    BY <1>5 DEF Process
  <2> QED BY <2>1, ResyncIsTrue
<1>6. CASE b.lastU # NoU /\ d.pu = b.lastU
  <2>1. d.U <= AtEvent(b) + 1 /\ AtEvent(b) <= d.u
    BY <1>1, <1>2, <1>6 DEF AtEvent
  <2>2. Process(b, d) = Apply(b, d)
    BY <1>6 DEF Process
  <2> QED BY <2>1, <2>2, ApplyIsTrue
<1>7. CASE b.lastU # NoU /\ d.pu # b.lastU
  <2>1. Process(b, d) = Resync(b)
    BY <1>7 DEF Process
  <2> QED BY <2>1, ResyncIsTrue
<1> QED BY <1>3, <1>4, <1>5, <1>6, <1>7

LEMMA RunIsTrue ==
  ASSUME NEW s \in Seq(Publication), NEW L \in 0..MaxId, NEW f, IsRun(f, s, L)
  PROVE  \A i \in 0..Len(s) : TrueBook(f[i]) /\ f[i].buffer = << >>
<1> DEFINE P(i) == TrueBook(f[i]) /\ f[i].buffer = << >>
           T == {n \in Nat : n <= Len(s) => P(n)}
<1>0. Len(s) \in Nat /\ \A i \in 1..Len(s) : s[i] \in Publication
  OBVIOUS
<1>1. /\ f[0] = Taken(L)
      /\ \A i \in 1..Len(s) : f[i] = Pending(f[i - 1], s[i])
  BY <1>0 DEF IsRun
<1>2. 0 \in T
  BY <1>1, TakenIsTrue
<1>3. ASSUME NEW n \in T PROVE n + 1 \in T
  <2> SUFFICES ASSUME n + 1 <= Len(s) PROVE P(n + 1)
    OBVIOUS
  <2>1. n \in Nat /\ n + 1 \in 1..Len(s) /\ (n + 1) - 1 = n
    BY <1>0
  <2>2. P(n)
    BY <1>0, <2>1
  <2>3. f[n + 1] = Pending(f[n], s[n + 1]) /\ s[n + 1] \in Publication
    BY <1>0, <1>1, <2>1
  <2>4. CASE f[n].synced
    <3>1. f[n + 1] = Process(f[n], s[n + 1])
      BY <2>3, <2>4 DEF Pending
    <3> QED BY <2>2, <2>3, <2>4, <3>1, ProcessIsTrue
  <2>5. CASE ~f[n].synced
    BY <2>2, <2>3, <2>5 DEF Pending
  <2> QED BY <2>4, <2>5
<1>4. T = Nat
  <2> HIDE DEF T
  <2>1. T \in SUBSET Nat
    BY DEF T
  <2> QED BY <1>2, <1>3, <2>1, Induct
<1> QED BY <1>0, <1>4

(* The events of an unbroken buffer follow one another. *)
LEMMA ChainedIsOrdered ==
  ASSUME NEW s \in Seq(Publication), Chained(s)
  PROVE  \A k \in 1..Len(s) : \A j \in 1..Len(s) : j < k => s[j].u < s[k].U
<1> DEFINE P(k) == \A j \in 1..Len(s) : j < k => s[j].u < s[k].U
           T == {n \in Nat : \A k \in 1..Len(s) : k <= n => P(k)}
<1>0. /\ Len(s) \in Nat
      /\ \A i \in 1..Len(s) : s[i] \in Publication
  OBVIOUS
<1>00. \A i \in 1..Len(s) : s[i].U \in Nat /\ s[i].u \in Nat /\ s[i].pu = s[i].U - 1 /\ s[i].U <= s[i].u
  BY <1>0, PublicationIsEvent
<1>1. 0 \in T
  BY <1>0
<1>2. ASSUME NEW n \in T PROVE n + 1 \in T
  <2> SUFFICES ASSUME NEW k \in 1..Len(s), k <= n + 1 PROVE P(k)
    OBVIOUS
  <2>0. n \in Nat /\ k \in Nat
    BY <1>0
  <2>1. CASE k <= n
    BY <2>1
  <2>2. CASE k = n + 1
    <3> SUFFICES ASSUME NEW j \in 1..Len(s), j < k PROVE s[j].u < s[k].U
      OBVIOUS
    <3>0. j \in Nat
      BY <1>0
    <3>1. k \in 2..Len(s) /\ k - 1 \in 1..Len(s) /\ k - 1 = n
      BY <1>0, <2>0, <2>2, <3>0
    <3>2. s[k].pu = s[k - 1].u
      BY <3>1 DEF Chained
    <3>3. s[k - 1].u < s[k].U
      BY <1>00, <3>1, <3>2
    <3>4. CASE j = k - 1
      BY <3>3, <3>4
    <3>5. CASE j < k - 1
      <4>1. P(k - 1)
        BY <3>1, <2>0
      <4>2. s[j].u < s[k - 1].U
        BY <4>1, <3>5
      <4>3. /\ s[j].u \in Nat /\ s[k - 1].U \in Nat /\ s[k - 1].u \in Nat /\ s[k].U \in Nat
            /\ s[k - 1].U <= s[k - 1].u
        BY <1>00, <3>1
      <4> HIDE <1>00
      <4> QED BY <3>3, <4>2, <4>3
    <3> QED BY <2>0, <3>0, <3>4, <3>5
  <2> QED BY <2>0, <2>1, <2>2
<1>3. T = Nat
  <2> HIDE DEF T
  <2>1. T \in SUBSET Nat
    BY DEF T
  <2> QED BY <1>1, <1>2, <2>1, Induct
<1>4. Len(s) \in T
  BY <1>0, <1>3
<1> QED BY <1>0, <1>4

(* With an event the snapshot falls into, the loop drops what is before it,*)
(* and takes it and everything behind it.                                  *)
LEMMA RunOfChained ==
  ASSUME NEW s \in Seq(Publication), NEW L \in 0..MaxId, NEW f, IsRun(f, s, L), Chained(s),
         NEW k \in 1..Len(s), s[k].U <= L, L <= s[k].u
  PROVE  f[Len(s)].synced /\ f[Len(s)].lastU = s[Len(s)].u
<1> DEFINE P(i) == IF i < k THEN f[i] = Taken(L)
                   ELSE f[i].synced /\ f[i].lastU = s[i].u
           T == {n \in Nat : n <= Len(s) => P(n)}
<1>0. /\ Len(s) \in Nat /\ k \in Nat /\ L \in Nat
      /\ \A i \in 1..Len(s) : s[i] \in Publication
  BY DBAssumption
<1>00. \A i \in 1..Len(s) : /\ s[i].U \in Nat /\ s[i].u \in Nat /\ s[i].pu = s[i].U - 1
                            /\ s[i].U <= s[i].u /\ s[i].u # NoU
  BY <1>0, PublicationIsEvent
<1>1. /\ f[0] = Taken(L)
      /\ \A i \in 1..Len(s) : f[i] = Pending(f[i - 1], s[i])
  BY <1>0 DEF IsRun
<1>2. 0 \in T
  BY <1>1
<1>3. ASSUME NEW n \in T PROVE n + 1 \in T
  <2> SUFFICES ASSUME n + 1 <= Len(s) PROVE P(n + 1)
    OBVIOUS
  <2>1. n \in Nat /\ n + 1 \in 1..Len(s) /\ (n + 1) - 1 = n /\ n <= Len(s)
    BY <1>0
  <2>2. P(n)
    BY <2>1
  <2>3. f[n + 1] = Pending(f[n], s[n + 1]) /\ s[n + 1] \in Publication
    BY <1>0, <1>1, <2>1
  <2>4. TrueBook(f[n])
    BY <2>1, <1>0, RunIsTrue
  <2>5. Taken(L).synced /\ Taken(L).lastU = NoU /\ Taken(L).id = L
    BY TakenIsTrue
  <2>6. CASE n + 1 < k
    <3>1. f[n] = Taken(L)
      BY <2>1, <2>2, <2>6, <1>0
    <3>2. s[n + 1].u < s[k].U
      BY <1>0, <2>1, <2>6, ChainedIsOrdered
    <3>3. s[n + 1].u < L
      BY <1>0, <1>00, <2>1, <3>2
    <3>4. f[n + 1] = Taken(L)
      BY <2>3, <2>5, <3>1, <3>3 DEF Pending, Process
    <3> QED BY <2>6, <3>4
  <2>7. CASE n + 1 = k
    <3>1. f[n] = Taken(L)
      BY <2>1, <2>2, <2>7, <1>0
    <3>2. f[n + 1] = Apply(Taken(L), s[k])
      <4>1. ~(s[k].u < L)
        BY <1>0, <1>00
      <4> QED BY <2>3, <2>5, <2>7, <3>1, <4>1 DEF Pending, Process
    <3>3. AtEvent(Taken(L)) = L
      BY <2>5 DEF AtEvent
    <3>4. s[k].U <= AtEvent(Taken(L)) + 1 /\ AtEvent(Taken(L)) <= s[k].u
      BY <1>0, <1>00, <3>3
    <3>5. f[n + 1].synced /\ f[n + 1].lastU = s[k].u
      BY <2>3, <2>5, <2>7, <3>2, <3>4, TakenIsTrue, ApplyIsTrue
    <3> QED BY <1>0, <2>7, <3>5
  <2>8. CASE n + 1 > k
    <3>1. f[n].synced /\ f[n].lastU = s[n].u
      BY <1>0, <2>1, <2>2, <2>8
    <3>2. n \in 1..Len(s) /\ n + 1 \in 2..Len(s)
      BY <1>0, <2>1, <2>8
    <3>3. s[n + 1].pu = s[n].u /\ s[n].u # NoU
      BY <1>00, <2>1, <3>2 DEF Chained
    <3>4. f[n + 1] = Apply(f[n], s[n + 1])
      BY <2>3, <3>1, <3>3 DEF Pending, Process
    <3>5. s[n + 1].U <= AtEvent(f[n]) + 1 /\ AtEvent(f[n]) <= s[n + 1].u
      BY <1>00, <2>1, <3>1, <3>2, <3>3 DEF AtEvent
    <3>6. f[n + 1].synced /\ f[n + 1].lastU = s[n + 1].u
      BY <2>3, <2>4, <3>1, <3>4, <3>5, ApplyIsTrue
    <3> QED BY <1>0, <2>1, <2>8, <3>6
  <2> QED BY <1>0, <2>1, <2>6, <2>7, <2>8
<1>4. T = Nat
  <2> HIDE DEF T
  <2>1. T \in SUBSET Nat
    BY DEF T
  <2> QED BY <1>2, <1>3, <2>1, Induct
<1>5. Len(s) \in T
  BY <1>0, <1>4
<1> QED BY <1>0, <1>5

-----------------------------------------------------------------------------
(* The book's part of a behaviour. *)
BookInv ==
  /\ BookTypeOK /\ chan \in Seq(Publication) /\ TrueBook(ob)

(* BookFollows, for a step. *)
SnapshotSyncs ==
  LET s == ob.buffer
  IN OnSnapshot /\ Chained(s) /\ (\E i \in 1..Len(s) : s[i].U <= snap /\ snap <= s[i].u)
     => ob'.synced /\ ob'.lastU = s[Len(s)].u

LEMMA BookStarts == BookInit => BookInv
<1> SUFFICES ASSUME BookInit PROVE BookInv
  OBVIOUS
<1>1. ob = [book |-> BookAt(0), id |-> 0, lastU |-> NoU, synced |-> FALSE, buffer |-> << >>]
  BY DEF BookInit
<1>2. BookAt(0) \in [PriceLevel -> 0..MaxId]
  BY BookAtType, DBAssumption
<1>3. ob \in LocalBook
  BY <1>1, <1>2, DBAssumption DEF LocalBook, NoU
<1>4. TrueBook(ob)
  BY <1>1, <1>3 DEF TrueBook
<1>5. /\ chan = << >> /\ snap \in 0..Absent /\ last \in 0..MaxId
      /\ lost \in 0..MaxLost /\ snaps \in 0..MaxSnaps
  BY DBAssumption DEF BookInit, Absent
<1> QED BY <1>1, <1>3, <1>4, <1>5 DEF BookInv, BookTypeOK

LEMMA BookSteps ==
  ASSUME BookInv, BookNext
  PROVE  BookInv'
<1> USE DBAssumption
<1>0. /\ chan \in Seq(DepthEvent) /\ chan \in Seq(Publication)
      /\ snap \in 0..Absent /\ last \in 0..MaxId /\ lost \in 0..MaxLost /\ snaps \in 0..MaxSnaps
      /\ TrueBook(ob)
  BY DEF BookInv, BookTypeOK
<1>1. ASSUME TrueBook(ob'), chan' \in Seq(Publication), snap' \in 0..Absent, last' \in 0..MaxId,
             lost' \in 0..MaxLost, snaps' \in 0..MaxSnaps
      PROVE  BookInv'
  <2>1. chan' \in Seq(DepthEvent)
    BY <1>1, PublicationIsEvent
  <2> QED BY <1>1, <2>1 DEF BookInv, BookTypeOK, TrueBook, LocalBook, AtEvent, Absent
<1>2. CASE Publish
  <2>1. PICK w \in Widths :
          /\ last + w <= MaxId
          /\ last' = last + w
          /\ \/ chan' = Append(chan, [U |-> last + 1, u |-> last + w, pu |-> last]) /\ UNCHANGED lost
             \/ lost < MaxLost /\ lost' = lost + 1 /\ UNCHANGED chan
    BY <1>2 DEF Publish
  <2>2. w \in Nat \ {0} /\ last \in Nat /\ lost \in Nat
    BY <1>0
  <2>3. [U |-> last + 1, u |-> last + w, pu |-> last] \in Publication
    <3>1. last + 1 \in 1..MaxId /\ last + w \in 1..MaxId /\ last + 1 <= last + w
      BY <1>0, <2>1, <2>2
    <3>2. last = (last + 1) - 1
      BY <2>2
    <3> QED BY <1>0, <3>1, <3>2 DEF Publication, DepthEvent
  <2>4. chan' \in Seq(Publication)
    BY <1>0, <2>1, <2>3
  <2>5. last' \in 0..MaxId /\ lost' \in 0..MaxLost
    BY <1>0, <2>1, <2>2
  <2>6. ob' = ob /\ snap' = snap /\ snaps' = snaps
    BY <1>2 DEF Publish
  <2> QED BY <1>0, <1>1, <2>4, <2>5, <2>6
<1>3. CASE RequestSnapshot
  <2>1. PICK k \in 0..MaxId : last + k <= MaxId /\ snap' = last + k
    BY <1>3 DEF RequestSnapshot
  <2>2. snap' \in 0..Absent
    BY <1>0, <2>1 DEF Absent
  <2>3. snaps' \in 0..MaxSnaps
    BY <1>0, <1>3 DEF RequestSnapshot
  <2>4. ob' = ob /\ chan' = chan /\ last' = last /\ lost' = lost
    BY <1>3 DEF RequestSnapshot
  <2> QED BY <1>0, <1>1, <2>2, <2>3, <2>4
<1>4. CASE OnSnapshot
  <2>1. snap \in 0..MaxId
    BY <1>0, <1>4 DEF OnSnapshot, Absent
  <2>2. ob.buffer \in Seq(Publication)
    BY <1>0 DEF TrueBook
  <2>3. PICK f : IsRun(f, ob.buffer, snap) /\ ApplySnapshot(ob, snap) = f[Len(ob.buffer)]
    BY <2>2, RunOfSnapshot
  <2>4. TrueBook(f[Len(ob.buffer)])
    BY <2>1, <2>2, <2>3, RunIsTrue
  <2>5. ob' = f[Len(ob.buffer)] /\ snap' = Absent
    BY <1>4, <2>3 DEF OnSnapshot
  <2>6. chan' = chan /\ last' = last /\ lost' = lost /\ snaps' = snaps
    BY <1>4 DEF OnSnapshot
  <2>7. snap' \in 0..Absent
    BY <2>5 DEF Absent
  <2> QED BY <1>0, <1>1, <2>4, <2>5, <2>6, <2>7
<1>5. CASE OnDepth
  <2>1. chan # << >> /\ ob' = Feed(ob, Head(chan)) /\ chan' = Tail(chan)
    BY <1>5 DEF OnDepth
  <2>2. Head(chan) \in Publication /\ Tail(chan) \in Seq(Publication)
    BY <1>0, <2>1
  <2>3. TrueBook(ob')
    <3>1. CASE ob.synced
      <4>1. ob' = Process(ob, Head(chan))
        BY <2>1, <3>1 DEF Feed
      <4> QED BY <1>0, <2>2, <3>1, <4>1, ProcessIsTrue
    <3>2. CASE ~ob.synced
      <4>1. ob' = [ob EXCEPT !.buffer = Append(@, Head(chan))]
        BY <2>1, <3>2 DEF Feed
      <4>2. ob.buffer \in Seq(Publication) /\ ob \in LocalBook
        BY <1>0 DEF TrueBook
      <4>3. Append(ob.buffer, Head(chan)) \in Seq(Publication)
        BY <2>2, <4>2
      <4>4. Append(ob.buffer, Head(chan)) \in Seq(DepthEvent)
        BY <4>3, PublicationIsEvent
      <4>5. ob' \in LocalBook
        BY <4>1, <4>2, <4>4 DEF LocalBook
      <4>6. ob'.buffer \in Seq(Publication) /\ ~ob'.synced
        BY <3>2, <4>1, <4>2, <4>3 DEF LocalBook
      <4> QED BY <4>5, <4>6 DEF TrueBook
    <3> QED BY <3>1, <3>2
  <2>4. snap' = snap /\ last' = last /\ lost' = lost /\ snaps' = snaps
    BY <1>5 DEF OnDepth
  <2> QED BY <1>0, <1>1, <2>1, <2>2, <2>3, <2>4
<1> QED BY <1>2, <1>3, <1>4, <1>5 DEF BookNext

LEMMA SnapshotStep ==
  ASSUME BookInv
  PROVE  SnapshotSyncs
<1> DEFINE s == ob.buffer
<1> SUFFICES ASSUME OnSnapshot, Chained(s), NEW k \in 1..Len(s), s[k].U <= snap, snap <= s[k].u
             PROVE  ob'.synced /\ ob'.lastU = s[Len(s)].u
  BY Zenon DEF SnapshotSyncs
<1>1. snap \in 0..MaxId
  BY DBAssumption DEF BookInv, BookTypeOK, OnSnapshot, Absent
<1>2. s \in Seq(Publication)
  BY DEF BookInv, TrueBook
<1>3. PICK f : IsRun(f, s, snap) /\ ApplySnapshot(ob, snap) = f[Len(s)]
  BY <1>2, RunOfSnapshot
<1>4. f[Len(s)].synced /\ f[Len(s)].lastU = s[Len(s)].u
  <2> HIDE DEF s
  <2> QED BY <1>1, <1>2, <1>3, RunOfChained
<1> QED BY <1>3, <1>4 DEF OnSnapshot

LEMMA BookStutters ==
  ASSUME BookInv, UNCHANGED depthVars
  PROVE  BookInv'
BY DEF BookInv, BookTypeOK, depthVars

LEMMA BookInvariant == AllSpec => []BookInv
<1>1. AllInit => BookInv
  BY BookStarts DEF AllInit
<1>2. BookInv /\ [AllNext]_allVars => BookInv'
  <2> SUFFICES ASSUME BookInv, [AllNext]_allVars PROVE BookInv'
    OBVIOUS
  <2>1. BookNext \/ UNCHANGED depthVars
    BY Zenon DEF AllNext, allVars
  <2> QED BY <2>1, BookSteps, BookStutters
<1> QED BY <1>1, <1>2, PTL DEF AllSpec

(* The local order book (orderbook.py) is the exchange's whenever it says  *)
(* that it is synchronised, and a snapshot that a buffered event reaches   *)
(* over makes it say so, for books and buffers of any size.                *)
THEOREM BookIsTrue == AllSpec => BookFollows
<1>1. BookInv => BookTypeOK /\ BookExact
  BY DEF BookInv, TrueBook, BookExact, AtEvent
<1>2. BookInv => [SnapshotSyncs]_depthVars
  BY SnapshotStep
<1>3. [][SnapshotSyncs]_depthVars <=> CoveredSnapshotSyncs
  BY DEF SnapshotSyncs, CoveredSnapshotSyncs
<1> QED BY <1>1, <1>2, <1>3, BookInvariant, PTL DEF BookFollows

-----------------------------------------------------------------------------
(* The risk engine.  What is not refused has no reason but soft ones. *)
LEMMA InWhen == \A b, r, e : e \in When(b, r) <=> b /\ e = r
BY DEF When

AllReasons(i, x, c) ==
  HealthReasons(x, c) \cup SlotReasons(x, c) \cup CapReasons(i, x, c)
    \cup AccountReasons(x, c, Capped(i, x, c)) \cup MarketReasons(x, c)
    \cup DepthReasons(x, c, Capped(i, x, c)) \cup PauseReasons(x, c)
    \cup FilterReasons(x, Capped(i, x, c), i.price)
    \cup FilterReasons(x, FittedDepth(x, c, Capped(i, x, c)), i.price)

LEMMA AssessIs ==
  ASSUME NEW i, NEW x, NEW c, ~i.reduceOnly
  PROVE  Assess(i, x, c) = Verdict(AllReasons(i, x, c),
                                   Qty(FittedDepth(x, c, Capped(i, x, c)), i.price, x.filters))
BY Zenon DEF Assess, AllReasons

LEMMA NotRefused ==
  ASSUME NEW i, NEW x, NEW c, ~i.reduceOnly, Assess(i, x, c).kind # "REJECT"
  PROVE  /\ AllReasons(i, x, c) \subseteq Soft
         /\ Assess(i, x, c).qty = Qty(FittedDepth(x, c, Capped(i, x, c)), i.price, x.filters)
         /\ Assess(i, x, c).kind = "APPROVE" => AllReasons(i, x, c) = {}
<1> DEFINE R == AllReasons(i, x, c)
           q == Qty(FittedDepth(x, c, Capped(i, x, c)), i.price, x.filters)
<1>1. Assess(i, x, c) = Verdict(R, q)
  BY AssessIs
<1> HIDE DEF R, q
<1>2. /\ Verdict(R, q).kind = IF R \ Soft # {} THEN "REJECT" ELSE IF R # {} THEN "RESIZE" ELSE "APPROVE"
      /\ Verdict(R, q).qty = IF R \ Soft # {} THEN NA ELSE q
  BY DEF Verdict
<1>3. R \ Soft = {}
  BY <1>1, <1>2
<1>4. R \subseteq Soft
  BY <1>3
<1>5. Assess(i, x, c).qty = q
  BY <1>1, <1>2, <1>3
<1>6. Assess(i, x, c).kind = "APPROVE" => R = {}
  BY <1>1, <1>2, <1>3
<1> QED BY <1>4, <1>5, <1>6 DEF R, q

LEMMA GatesOpen ==
  ASSUME NEW i, NEW x, NEW c, ~i.reduceOnly, Assess(i, x, c).kind # "REJECT"
  PROVE  /\ ~x.kill /\ x.reconciled /\ ~(x.warm < c.warmup) /\ x.stale = {}
         /\ ~(c.skewMax # NA /\ (x.skew = NA \/ Size(x.skew) > c.skewMax))
         /\ ~(x.open + x.pending >= c.maxPositions) /\ ~x.busy /\ ~x.leased
         /\ ~(x.stratMax # NA /\ x.stratOpen >= x.stratMax)
<1> DEFINE R == AllReasons(i, x, c)
<1>1. R \subseteq Soft
  BY NotRefused
<1>2. HealthReasons(x, c) \subseteq R /\ SlotReasons(x, c) \subseteq R
  BY DEF AllReasons
<1> HIDE DEF R
<1>3. \A r \in {"K1", "K2", "K3", "K4", "K5", "K6", "K7", "K19_max"} : r \notin Soft
  BY DEF Soft
<1>4. "K1" \notin HealthReasons(x, c) /\ "K2" \notin HealthReasons(x, c)
      /\ "K3" \notin HealthReasons(x, c) /\ "K4" \notin HealthReasons(x, c)
      /\ "K5" \notin HealthReasons(x, c) /\ "K6" \notin SlotReasons(x, c)
      /\ "K7" \notin SlotReasons(x, c) /\ "K19_max" \notin SlotReasons(x, c)
  BY <1>1, <1>2, <1>3
<1>5. /\ ~x.kill /\ ~(~x.reconciled) /\ ~(x.warm < c.warmup) /\ ~(x.stale # {})
      /\ ~(c.skewMax # NA /\ (x.skew = NA \/ Size(x.skew) > c.skewMax))
  BY <1>4, Zenon DEF HealthReasons, When
<1>6. /\ ~(x.open + x.pending >= c.maxPositions) /\ ~(x.busy \/ x.leased)
      /\ ~(x.stratMax # NA /\ x.stratOpen >= x.stratMax)
  BY <1>4, Zenon DEF SlotReasons, When
<1> QED BY <1>5, <1>6, Zenon

-----------------------------------------------------------------------------
(* The market's view.  When the flags were last looked at, a category that *)
(* is not stale was within its limit, and that is no longer ago than the   *)
(* pause between two checks and the time since the last tick.              *)
Looked ==
  /\ checked <= clock /\ tickAt <= clock /\ clock <= tickAt + TickEvery
  /\ checked # 0 => tickAt - checked < CheckEvery
  /\ \A c \in Category :
       /\ recv[c] <= clock /\ (recv[c] = NA => ~stale[c])
       /\ recv[c] # NA => checked # 0
       /\ recv[c] # NA /\ ~stale[c] => checked - recv[c] <= Limit[c]

(* The open bar is not in the future, the state no older than the bars it  *)
(* was seen in, and entries have the names of bars that are closed.        *)
Named ==
  /\ bar # NA => bar <= Now /\ age <= bar + 2 * late
  /\ bar = NA => age = 0 /\ sent = {}
  /\ \A e \in sent : e[1] \in Nat
  /\ late = 0 => ~again /\ \A e \in sent : e[1] < bar

ViewInv == MarketTypeOK /\ Looked /\ Named /\ EntriesAreFresh
LEMMA NowGrows ==
  ASSUME NEW a \in Nat, NEW b \in Nat, a <= b, NEW d \in Nat \ {0}
  PROVE  a \div d \in Nat /\ a \div d <= b \div d /\ a \div d <= a
<1> DEFINE qa == a \div d
           qb == b \div d
<1>1. /\ qa \in Int /\ qb \in Int
      /\ d * qa <= a /\ a < d * qa + d /\ d * qb <= b /\ b < d * qb + d
  OBVIOUS
<1>2. qa >= 0
  <2> HIDE DEF qa, qb
  <2>1. ASSUME qa <= -1 PROVE FALSE
    <3>1. d * qa <= d * (-1)
      BY <1>1, <2>1
    <3> QED BY <1>1, <3>1
  <2> QED BY <1>1, <2>1
<1>3. qa <= qb
  <2> HIDE DEF qa, qb
  <2>1. ASSUME qb + 1 <= qa PROVE FALSE
    <3>1. d * (qb + 1) <= d * qa
      BY <1>1, <2>1
    <3>2. d * (qb + 1) = d * qb + d
      BY <1>1
    <3> QED BY <1>1, <3>1, <3>2
  <2> QED BY <1>1, <2>1
<1>4. qa <= a
  <2> HIDE DEF qa, qb
  <2>1. qa <= d * qa
    BY <1>1, <1>2
  <2> QED BY <1>1, <2>1
<1> QED BY <1>1, <1>2, <1>3, <1>4

(* What a step has to keep, apart from who is told what. *)
Times == clock \in 1..MaxTime /\ tickAt \in 1..MaxTime
Heard ==
  /\ checked \in 0..MaxTime /\ recv \in [Category -> {NA} \cup 1..MaxTime]
  /\ stale \in [Category -> BOOLEAN]

LEMMA CategoryLimit ==
  /\ \A c \in Category : Limit[c] \in Nat
  /\ CheckEvery \in Nat /\ CheckEvery > 0 /\ TickEvery \in Nat /\ MaxTime \in Nat /\ NA = -99
BY MVAssumption DEF NA

(* The ages are looked at, with what was heard until now. *)
LEMMA CheckLooks ==
  ASSUME MarketTypeOK, Looked, NEW r \in [Category -> {NA} \cup 1..MaxTime],
         \A c \in Category : r[c] = recv[c] \/ r[c] = clock,
         Check(r), recv' = r, clock' = clock
  PROVE  /\ Heard'
         /\ (Due => checked' = clock) /\ (~Due => checked' = checked)
         /\ checked' <= clock /\ checked' # 0
         /\ \A c \in Category :
              /\ r[c] <= clock /\ (r[c] = NA => ~stale'[c])
              /\ r[c] # NA /\ ~stale'[c] => checked' - r[c] <= Limit[c]
<1>0. /\ clock \in 1..MaxTime /\ tickAt \in 1..MaxTime /\ checked \in 0..MaxTime
      /\ recv \in [Category -> {NA} \cup 1..MaxTime] /\ stale \in [Category -> BOOLEAN]
  BY DEF MarketTypeOK
<1>1. /\ stale' = IF Due THEN Judged(r) ELSE stale
      /\ checked' = IF Due THEN clock ELSE checked
  BY Zenon DEF Check
<1>2. checked <= clock
  BY DEF Looked
<1>3. \A c \in Category : r[c] <= clock
  BY CategoryLimit, <1>0 DEF Looked
<1>4. CASE Due
  <2>1. stale' = Judged(r) /\ checked' = clock
    BY <1>1, <1>4
  <2>2. \A c \in Category : stale'[c] = IF r[c] = NA THEN stale[c] ELSE clock - r[c] > Limit[c]
    BY <2>1 DEF Judged
  <2>3. \A c \in Category : stale'[c] \in BOOLEAN
    <3> TAKE c \in Category
    <3>1. CASE r[c] = NA
      BY <1>0, <2>2, <3>1
    <3>2. CASE r[c] # NA
      <4>1. stale'[c] = (clock - r[c] > Limit[c])
        BY <2>2, <3>2, Zenon
      <4>2. (clock - r[c] > Limit[c]) \in BOOLEAN
        OBVIOUS
      <4> QED BY <4>1, <4>2, Zenon
    <3> QED BY <3>1, <3>2
  <2>4. stale' \in [Category -> BOOLEAN]
    BY <2>1, <2>3, Zenon DEF Judged
  <2>5. \A c \in Category : r[c] = NA => ~stale'[c]
    <3> TAKE c \in Category
    <3>1. r[c] = NA => recv[c] = NA
      BY <1>0, CategoryLimit
    <3> QED BY <2>2, <3>1 DEF Looked
  <2>6. \A c \in Category : r[c] # NA /\ ~stale'[c] => checked' - r[c] <= Limit[c]
    <3> SUFFICES ASSUME NEW c \in Category, r[c] # NA, ~stale'[c]
                 PROVE  checked' - r[c] <= Limit[c]
      OBVIOUS
    <3>1. ~(clock - r[c] > Limit[c])
      BY <2>2, Zenon
    <3>2. r[c] \in 1..MaxTime /\ clock \in Nat /\ Limit[c] \in Nat
      BY <1>0, CategoryLimit
    <3> QED BY <2>1, <3>1, <3>2, CategoryLimit
  <2> QED BY <1>0, <1>3, <1>4, <2>1, <2>4, <2>5, <2>6, CategoryLimit DEF Heard
<1>5. CASE ~Due
  <2>1. stale' = stale /\ checked' = checked /\ checked # 0
    BY <1>1, <1>5 DEF Due
  <2>2. \A c \in Category : r[c] = NA => ~stale'[c]
    <3> TAKE c \in Category
    <3>1. r[c] = NA => recv[c] = NA
      BY <1>0, CategoryLimit
    <3> QED BY <2>1, <3>1 DEF Looked
  <2>3. \A c \in Category : r[c] # NA /\ ~stale'[c] => checked' - r[c] <= Limit[c]
    <3> TAKE c \in Category
    <3>1. CASE r[c] = recv[c]
      BY <2>1, <3>1 DEF Looked
    <3>2. CASE r[c] = clock
      BY <1>0, <1>2, <2>1, <3>2, CategoryLimit
    <3> QED BY <3>1, <3>2
  <2> QED BY <1>0, <1>2, <1>3, <1>5, <2>1, <2>2, <2>3 DEF Heard
<1> QED BY <1>4, <1>5

LEMMA CheckKeeps ==
  ASSUME MarketTypeOK, Looked, NEW r \in [Category -> {NA} \cup 1..MaxTime],
         \A c \in Category : r[c] = recv[c] \/ r[c] = clock,
         Check(r), recv' = r, clock' = clock, tickAt' = tickAt \/ tickAt' = clock
  PROVE  Looked'
<1>0. clock \in 1..MaxTime /\ tickAt \in 1..MaxTime /\ checked \in 0..MaxTime
  BY DEF MarketTypeOK
<1>1. /\ (Due => checked' = clock) /\ (~Due => checked' = checked)
      /\ checked' <= clock /\ checked' # 0
      /\ \A c \in Category :
           /\ r[c] <= clock /\ (r[c] = NA => ~stale'[c])
           /\ r[c] # NA /\ ~stale'[c] => checked' - r[c] <= Limit[c]
  BY CheckLooks
<1>2. tickAt' <= clock' /\ clock' <= tickAt' + TickEvery
  BY <1>0, CategoryLimit DEF Looked
<1>3. tickAt' - checked' < CheckEvery
  <2>1. CASE Due
    BY <1>0, <1>1, <1>2, <2>1, CategoryLimit
  <2>2. CASE ~Due
    <3>1. checked # 0 /\ clock - checked < CheckEvery /\ checked' = checked
      BY <1>0, <1>1, <2>2, CategoryLimit DEF Due
    <3> QED BY <1>0, <1>2, <3>1, CategoryLimit
  <2> QED BY <2>1, <2>2
<1> QED BY <1>1, <1>2, <1>3 DEF Looked

BarType ==
  /\ bar \in {NA} \cup 0..MaxTime /\ bars \in 0..WarmUp
  /\ late \in 0..MaxLate /\ age \in 0..(MaxTime + 2 * late)
PosType ==
  /\ lease \in {NA, Bound} \cup 1..(MaxTime + Ttl) /\ waiting \in {NA} \cup 1..(MaxTime + Ttl)
  /\ (open => lease = Bound) /\ (waiting # NA => lease = waiting)
OtherType == book \in {"none", "tight", "wide"} /\ mode \in ViewMode

LEMMA TypeParts ==
  /\ MarketTypeOK => Times /\ Heard /\ BarType /\ PosType /\ OtherType
  /\ Times' /\ Heard' /\ BarType' /\ PosType' /\ OtherType' => MarketTypeOK'
BY Zenon DEF MarketTypeOK, Times, Heard, BarType, PosType, OtherType

(* A step in which something is heard, whatever else it does. *)
LEMMA HearKeeps ==
  ASSUME MarketTypeOK, Looked, NEW c \in Category, Hear(c), clock' = clock, tickAt' = tickAt
  PROVE  /\ Heard' /\ Looked' /\ Times'
         /\ recv' = [recv EXCEPT ![c] = clock]
<1> DEFINE r == [recv EXCEPT ![c] = clock]
<1>1. /\ clock \in 1..MaxTime /\ tickAt \in 1..MaxTime
      /\ recv \in [Category -> {NA} \cup 1..MaxTime]
  BY DEF MarketTypeOK
<1>2. r \in [Category -> {NA} \cup 1..MaxTime]
  BY <1>1
<1>3. \A d \in Category : r[d] = recv[d] \/ r[d] = clock
  BY <1>1
<1>4. recv' = r /\ Check(r)
  BY Zenon DEF Hear
<1> HIDE DEF r
<1>5. Heard'
  BY <1>2, <1>3, <1>4, CheckLooks
<1>6. Looked'
  BY <1>2, <1>3, <1>4, CheckKeeps
<1> QED BY <1>1, <1>4, <1>5, <1>6 DEF Times, r

LEMMA LookKeeps ==
  ASSUME MarketTypeOK, Looked, Check(recv), recv' = recv, clock' = clock,
         tickAt' = tickAt \/ tickAt' = clock
  PROVE  Heard' /\ Looked' /\ Times'
<1>1. /\ clock \in 1..MaxTime /\ tickAt \in 1..MaxTime
      /\ recv \in [Category -> {NA} \cup 1..MaxTime]
  BY DEF MarketTypeOK
<1>2. \A d \in Category : recv[d] = recv[d] \/ recv[d] = clock
  OBVIOUS
<1>3. Heard'
  BY <1>1, <1>2, CheckLooks
<1>4. Looked'
  BY <1>1, <1>2, CheckKeeps
<1> QED BY <1>1, <1>3, <1>4 DEF Times

(* Bars and positions stay as they are. *)
LEMMA RestStays ==
  ASSUME BarType, PosType, Named, UNCHANGED <<barVars, posVars>>, clock' = clock, slack' = NA
  PROVE  BarType' /\ PosType' /\ Named' /\ EntriesAreFresh'
<1>1. /\ bar' = bar /\ bars' = bars /\ label' = label /\ age' = age /\ late' = late
      /\ waiting' = waiting /\ lease' = lease /\ open' = open /\ sent' = sent /\ again' = again
  BY DEF barVars, posVars
<1>2. Now' = Now
  BY DEF Now
<1>3. BarType' /\ PosType'
  BY <1>1 DEF BarType, PosType
<1>4. Named'
  BY <1>1, <1>2 DEF Named
<1> QED BY <1>3, <1>4 DEF EntriesAreFresh

LEMMA QuietKeeps ==
  ASSUME ViewInv, NEW c \in Category, Hear(c), Quiet, book' \in {"none", "tight", "wide"}
  PROVE  ViewInv'
<1>1. /\ clock' = clock /\ tickAt' = tickAt /\ UNCHANGED <<barVars, posVars>>
      /\ slack' = NA /\ mode' = "none"
  BY DEF Quiet, Plain
<1>2. Heard' /\ Looked' /\ Times'
  BY <1>1, HearKeeps DEF ViewInv
<1>3. BarType' /\ PosType' /\ Named' /\ EntriesAreFresh'
  BY <1>1, TypeParts, RestStays DEF ViewInv
<1>4. OtherType'
  BY <1>1 DEF OtherType, ViewMode
<1> QED BY <1>2, <1>3, <1>4, TypeParts DEF ViewInv

LEMMA TickKeeps ==
  ASSUME ViewInv, Tick
  PROVE  ViewInv'
<1>1. /\ waiting' = Swept(waiting) /\ lease' = Swept(lease) /\ Check(recv) /\ recv' = recv
      /\ tickAt' = clock /\ slack' = NA /\ clock' = clock /\ book' = book
      /\ bar' = bar /\ bars' = bars /\ label' = label /\ age' = age /\ late' = late
      /\ open' = open /\ sent' = sent /\ again' = again /\ reconciled' = reconciled
      /\ mode' = ExitMode(reconciled, stale')
  BY DEF Tick, barVars
<1>2. Heard' /\ Looked' /\ Times'
  BY <1>1, LookKeeps DEF ViewInv
<1>3. Times /\ BarType /\ PosType /\ OtherType /\ Named
  BY TypeParts DEF ViewInv
<1>4. BarType'
  BY <1>1, <1>3 DEF BarType
<1>5. PosType'
  <2>1. Bound \notin 1..(MaxTime + Ttl) /\ NA # Bound /\ NA \notin 1..(MaxTime + Ttl)
        /\ \A d \in 1..MaxTime : ~(Bound <= d)
    BY MVAssumption DEF Bound, NA
  <2>2. Bound' = Bound /\ NA' = NA
    OBVIOUS
  <2>3. lease' \in {NA, Bound} \cup 1..(MaxTime + Ttl)
    BY <1>1, <1>3 DEF PosType, Swept
  <2>4. waiting' \in {NA} \cup 1..(MaxTime + Ttl)
    BY <1>1, <1>3, <2>1 DEF PosType, Swept
  <2>5. open' => lease' = Bound
    BY <1>1, <1>3, <2>1 DEF PosType, Swept, Expired
  <2>6. waiting' # NA => lease' = waiting'
    BY <1>1, <1>3 DEF PosType, Swept
  <2> QED BY <2>3, <2>4, <2>5, <2>6 DEF PosType
<1>6. OtherType'
  BY <1>1, <1>3 DEF OtherType, ExitMode, ViewMode
<1>7. Named' /\ EntriesAreFresh'
  BY <1>1, <1>3 DEF Named, Now, EntriesAreFresh
<1> QED BY <1>2, <1>4, <1>5, <1>6, <1>7, TypeParts DEF ViewInv

(* A fill, a refusal and a close. *)
LEMMA PositionKeeps ==
  ASSUME ViewInv, Fill \/ Refused \/ PositionCloses
  PROVE  ViewInv'
<1>1. /\ Check(recv) /\ recv' = recv /\ clock' = clock /\ tickAt' = tickAt
      /\ slack' = NA /\ mode' = "none" /\ book' = book
      /\ bar' = bar /\ bars' = bars /\ label' = label /\ age' = age /\ late' = late
      /\ sent' = sent /\ again' = again
  BY DEF Fill, Refused, PositionCloses, Plain, barVars
<1>2. Heard' /\ Looked' /\ Times'
  BY <1>1, LookKeeps DEF ViewInv
<1>3. Times /\ BarType /\ PosType /\ OtherType /\ Named
  BY TypeParts DEF ViewInv
<1>4. BarType'
  BY <1>1, <1>3 DEF BarType
<1>5. PosType'
  <2>1. Bound \notin 1..(MaxTime + Ttl) /\ NA # Bound
    BY MVAssumption DEF Bound, NA
  <2>2. CASE Fill
    BY <1>3, <2>2 DEF Fill, PosType
  <2>3. CASE Refused
    BY <1>3, <2>3 DEF Refused, PosType
  <2>4. CASE PositionCloses
    BY <1>3, <2>4 DEF PositionCloses, PosType
  <2> QED BY <2>2, <2>3, <2>4
<1>6. OtherType'
  BY <1>1, <1>3 DEF OtherType, ViewMode
<1>7. Named' /\ EntriesAreFresh'
  BY <1>1, <1>3 DEF Named, Now, EntriesAreFresh
<1> QED BY <1>2, <1>4, <1>5, <1>6, <1>7, TypeParts DEF ViewInv

LEMMA PassKeeps ==
  ASSUME ViewInv, Pass
  PROVE  ViewInv'
<1>1. /\ clock < MaxTime /\ clock < tickAt + TickEvery /\ clock' = clock + 1
      /\ slack' = NA /\ mode' = "none" /\ tickAt' = tickAt
      /\ recv' = recv /\ stale' = stale /\ checked' = checked /\ book' = book
      /\ bar' = bar /\ bars' = bars /\ label' = label /\ age' = age /\ late' = late
      /\ waiting' = waiting /\ lease' = lease /\ open' = open /\ sent' = sent /\ again' = again
  BY DEF Pass, Plain, feedVars, barVars, posVars
<1>2. Times /\ Heard /\ BarType /\ PosType /\ OtherType /\ Named /\ Looked
  BY TypeParts DEF ViewInv
<1>3. Times' /\ Heard' /\ BarType' /\ PosType' /\ OtherType' /\ EntriesAreFresh'
  <2>1. Times'
    BY <1>1, <1>2, CategoryLimit DEF Times
  <2>2. Heard' /\ BarType' /\ PosType'
    BY <1>1, <1>2 DEF Heard, BarType, PosType
  <2>3. OtherType' /\ EntriesAreFresh'
    BY <1>1, <1>2 DEF OtherType, ViewMode, EntriesAreFresh
  <2> QED BY <2>1, <2>2, <2>3
<1>4. Looked'
  <2>1. checked' <= clock' /\ tickAt' <= clock' /\ clock' <= tickAt' + TickEvery
    BY <1>1, <1>2, CategoryLimit DEF Looked, Times, Heard
  <2>2. \A c \in Category : recv[c] <= clock'
    BY <1>1, <1>2, CategoryLimit DEF Looked, Times, Heard
  <2> QED BY <1>1, <1>2, <2>1, <2>2 DEF Looked
<1>5. Named'
  <2>1. Now \in Nat /\ Now <= Now'
    <3>1. clock \in Nat /\ clock' \in Nat /\ clock <= clock' /\ BarLen \in Nat \ {0}
      BY <1>1, <1>2, MVAssumption DEF Times
    <3> QED BY <3>1, NowGrows DEF Now
  <2>2. Now' \in Int /\ (bar # NA => bar \in Nat)
    <3>1. clock' \in Nat /\ BarLen \in Nat \ {0}
      BY <1>1, <1>2, MVAssumption DEF Times
    <3> QED BY <1>2, <3>1, NowGrows DEF Now, BarType
  <2>3. bar # NA => bar <= Now'
    <3> HIDE DEF Now
    <3> QED BY <1>2, <2>1, <2>2 DEF Named
  <2> QED BY <1>1, <1>2, <2>3 DEF Named
<1> QED BY <1>2, <1>3, <1>4, <1>5, TypeParts DEF ViewInv

(* What is sent was decided with the flags of the step before. *)
LEMMA ApprovedMeans ==
  ASSUME NEW side, NEW n, Approved(side, n), MarketTypeOK
  PROVE  /\ \A c \in Category : ~stale[c]
         /\ ~open /\ waiting = NA /\ lease = NA
<1> DEFINE i == [side |-> side, notional |-> 8, price |-> 1, reduceOnly |-> FALSE]
           x == Inputs(n)
<1>1. Assess(i, x, Config).kind # "REJECT"
  BY Zenon DEF Approved
<1>2. ~i.reduceOnly
  OBVIOUS
<1> HIDE DEF i, x
<1>3. x.stale = {} /\ ~x.busy /\ ~x.leased
  BY <1>1, <1>2, GatesOpen
<1> USE DEF x
<1>4. /\ x.stale = {c \in Category : stale[c]}
      /\ x.busy = (open \/ waiting # NA) /\ x.leased = (lease # NA)
  BY Zenon DEF Inputs
<1> HIDE DEF x
<1>5. {c \in Category : stale[c]} = {}
  BY <1>3, <1>4
<1>6. ~(open \/ waiting # NA) /\ ~(lease # NA)
  BY <1>3, <1>4, Zenon
<1> QED BY <1>5, <1>6, Zenon

LEMMA ExcessBounded ==
  ASSUME NEW r \in [Category -> {NA} \cup 1..MaxTime], r["market"] # NA, clock \in 1..MaxTime,
         NEW K \in Int,
         \A c \in Category : r[c] # NA => clock - r[c] - Limit[c] <= K
  PROVE  Excess(r) <= K
<1> DEFINE e(c) == clock - r[c] - Limit[c]
           over == {clock - r[c] - Limit[c] : c \in {d \in Category : r[d] # NA}}
<1>1. \A c \in Category : r[c] \in Int /\ Limit[c] \in Int /\ e(c) \in Int
  BY CategoryLimit
<1>2. e("market") \in over /\ "market" \in Category /\ "public" \in Category
  BY DEF Category
<1>2a. \A o \in over : \E c \in Category : r[c] # NA /\ o = e(c)
  OBVIOUS
<1>2b. \A c \in Category : r[c] # NA => e(c) <= K
  OBVIOUS
<1>3. \A o \in over : o <= K /\ o \in Int /\ (o = e("market") \/ (o = e("public") /\ r["public"] # NA))
  <2> HIDE DEF e, over
  <2> TAKE o \in over
  <2>1. PICK c \in Category : r[c] # NA /\ o = e(c)
    BY <1>2a
  <2>2. o <= K /\ o \in Int
    BY <1>1, <1>2b, <2>1
  <2>3. c = "market" => o = e("market")
    BY <2>1
  <2>4. c = "public" => o = e("public") /\ r["public"] # NA
    BY <2>1
  <2>5. c = "market" \/ c = "public"
    BY DEF Category
  <2> QED BY <2>2, <2>3, <2>4, <2>5, Zenon
<1>4. r["public"] # NA => e("public") \in over
  BY <1>2
<1>5. \E m \in over : \A o \in over : o <= m
  <2>1. e("market") \in Int /\ e("public") \in Int
    BY <1>1, <1>2
  <2> HIDE DEF over, e
  <2>2. CASE r["public"] # NA /\ e("market") <= e("public")
    BY <1>3, <1>4, <2>1, <2>2
  <2>3. CASE r["public"] = NA \/ ~(e("market") <= e("public"))
    BY <1>2, <1>3, <2>1, <2>3
  <2> QED BY <2>2, <2>3
<1>6. Excess(r) = CHOOSE m \in over : \A o \in over : o <= m
  BY Zenon DEF Excess
<1>7. Excess(r) \in over
  <2> HIDE DEF over
  <2> QED BY <1>5, <1>6, Zenon
<1> QED BY <1>3, <1>7

(* A step in which a bar may close and an entry be sent. *)
LEMMA OnBarKeeps ==
  ASSUME ViewInv, Hear("market"), clock' = clock, tickAt' = tickAt,
         NEW b, NEW f, OnBar(b, f)
  PROVE  /\ PosType' /\ EntriesAreFresh'
         /\ bars' \in 0..WarmUp /\ (age' = 0 \/ age' = age + 1)
         /\ \/ sent' = sent /\ again' = again
            \/ \E side : sent' = sent \cup {<<b, side>>} /\ again' = (again \/ <<b, side>> \in sent)
<1> DEFINE n == Lesser(bars + 1, WarmUp)
           l == LabelOf(f)
<1>1. Times /\ Heard /\ BarType /\ PosType /\ Looked /\ MarketTypeOK
  BY TypeParts DEF ViewInv
<1>2. bars' = n /\ age' = Older(l)
  BY Zenon DEF OnBar
<1>3. bars' \in 0..WarmUp
  BY <1>1, <1>2, MVAssumption DEF BarType, Lesser
<1>4. age' = 0 \/ age' = age + 1
  BY <1>2, Zenon DEF Older
<1> HIDE DEF n, l
<1>5. CASE \E side \in Intents(l, Older(l), f) : Approved(side, n) /\ Send(b, side)
  <2>1. PICK side : Approved(side, n) /\ Send(b, side)
    BY <1>5
  <2>2. (\A c \in Category : ~stale[c]) /\ ~open /\ waiting = NA /\ lease = NA
    BY <1>1, <2>1, ApprovedMeans
  <2>3. /\ waiting' = clock + Ttl /\ lease' = clock + Ttl /\ open' = open
        /\ again' = (again \/ <<b, side>> \in sent) /\ sent' = sent \cup {<<b, side>>}
        /\ slack' = Excess(recv')
    BY <2>1, Zenon DEF Send
  <2>4. PosType'
    <3>1. clock + Ttl \in 1..(MaxTime + Ttl)
      BY <1>1, MVAssumption DEF Times
    <3> QED BY <2>2, <2>3, <3>1 DEF PosType
  <2>5. slack' <= TickEvery + CheckEvery - 1
    <3>1. recv' = [recv EXCEPT !["market"] = clock]
      BY Zenon DEF Hear
    <3>2. "market" \in Category
      BY DEF Category
    <3>3. recv' \in [Category -> {NA} \cup 1..MaxTime] /\ recv'["market"] = clock /\ clock \in 1..MaxTime
      BY <1>1, <3>1, <3>2 DEF Times, Heard
    <3>4. recv'["market"] # NA
      BY <3>3, CategoryLimit
    <3>5. ASSUME NEW c \in Category, recv'[c] # NA
          PROVE  clock - recv'[c] - Limit[c] <= TickEvery + CheckEvery - 1
      <4>1. CASE c = "market"
        BY <3>3, <4>1, CategoryLimit
      <4>2. CASE c # "market"
        <5>1. recv'[c] = recv[c] /\ recv[c] # NA
          BY <1>1, <3>1, <3>5, <4>2 DEF Heard
        <5>2. checked # 0 /\ checked - recv[c] <= Limit[c]
          BY <1>1, <2>2, <5>1 DEF Looked
        <5>3. tickAt - checked < CheckEvery /\ clock <= tickAt + TickEvery
          BY <1>1, <5>2 DEF Looked
        <5>4. clock \in Int /\ tickAt \in Int /\ checked \in Int /\ recv[c] \in Int
          BY <1>1, CategoryLimit DEF Times, Heard
        <5> QED BY <5>1, <5>2, <5>3, <5>4, CategoryLimit
      <4> QED BY <4>1, <4>2
    <3>6. TickEvery + CheckEvery - 1 \in Int
      BY CategoryLimit
    <3>7. Excess(recv') <= TickEvery + CheckEvery - 1
      BY <3>3, <3>4, <3>5, <3>6, ExcessBounded
    <3> QED BY <2>3, <3>7
  <2>6. EntriesAreFresh'
    BY <2>5 DEF EntriesAreFresh
  <2> QED BY <1>3, <1>4, <2>3, <2>4, <2>6
<1>6. CASE slack' = NA /\ UNCHANGED posVars
  <2>1. waiting' = waiting /\ lease' = lease /\ open' = open /\ sent' = sent /\ again' = again
    BY <1>6 DEF posVars
  <2>2. PosType'
    BY <1>1, <2>1 DEF PosType
  <2>3. EntriesAreFresh'
    BY <1>6 DEF EntriesAreFresh
  <2> QED BY <1>3, <1>4, <2>1, <2>2, <2>3
<1> QED BY <1>5, <1>6, Zenon DEF OnBar, n, l

LEMMA AgeFits ==
  ASSUME NEW a \in Nat, NEW m \in Nat, m <= MaxTime, NEW k \in Nat, a <= m + 2 * k
  PROVE  a \in 0..(MaxTime + 2 * k)
BY CategoryLimit

LEMMA AgeGrows ==
  ASSUME NEW a \in Nat, NEW m \in Nat, NEW k \in Nat, NEW j \in Nat, k <= j, a <= m + 2 * k
  PROVE  a <= m + 2 * j
OBVIOUS

LEMMA TradeKeeps ==
  ASSUME ViewInv, OnTrade
  PROVE  ViewInv'
<1>1. Times /\ Heard /\ BarType /\ PosType /\ OtherType /\ Looked /\ Named
  BY TypeParts DEF ViewInv
<1>2. PICK m : /\ Trade(m)
               /\ \/ m = Now /\ late' = late
                  \/ m = Now - 1 /\ Now > 0 /\ late < MaxLate /\ late' = late + 1
  BY Zenon DEF OnTrade
<1>3. /\ Hear("market") /\ book' = book /\ bar' = m /\ clock' = clock /\ tickAt' = tickAt
      /\ mode' = "none"
  BY <1>2, Zenon DEF OnTrade, Trade
<1>4. Heard' /\ Looked' /\ Times'
  <2>1. "market" \in Category
    BY DEF Category
  <2> QED BY <1>3, <2>1, HearKeeps DEF ViewInv
<1>5. OtherType'
  BY <1>1, <1>3 DEF OtherType, ViewMode
<1>6. Now \in Nat /\ Now <= clock /\ Now' = Now /\ MaxLate \in Nat
  <2>1. clock \in Nat /\ BarLen \in Nat \ {0}
    BY <1>1, MVAssumption DEF Times
  <2> QED BY <1>3, <2>1, NowGrows, MVAssumption DEF Now
<1>7. m \in 0..MaxTime /\ m <= Now /\ late' \in 0..MaxLate
  BY <1>1, <1>2, <1>6, CategoryLimit DEF Times, BarType
<1>7a. /\ bar' \in {NA} \cup 0..MaxTime /\ bar' # NA /\ bar' <= Now' /\ bar' = m
       /\ m \in Nat /\ late' \in Nat /\ MaxTime \in Nat /\ m <= MaxTime
  BY <1>3, <1>6, <1>7, CategoryLimit
<1>7b. ASSUME age' \in Nat, age' <= m + 2 * late'
       PROVE  age' \in 0..(MaxTime + 2 * late')
  BY <1>7a, <1>7b, AgeFits
<1>8. CASE bar # NA /\ m # bar
  <2>1. PICK f : OnBar(bar, f)
    BY <1>2, <1>8, Zenon DEF Trade
  <2>2. /\ PosType' /\ EntriesAreFresh'
        /\ bars' \in 0..WarmUp /\ (age' = 0 \/ age' = age + 1)
        /\ \/ sent' = sent /\ again' = again
           \/ \E side : sent' = sent \cup {<<bar, side>>} /\ again' = (again \/ <<bar, side>> \in sent)
    BY <1>3, <2>1, OnBarKeeps
  <2>3. bar \in Nat /\ bar <= Now /\ age \in Nat /\ age <= bar + 2 * late /\ late \in Nat
    BY <1>1, <1>8, CategoryLimit DEF Named, BarType
  <2>4. age' \in Nat /\ age' <= m + 2 * late'
    <3>1. CASE m = Now /\ late' = late
      <4>1. age' <= age + 1 /\ age' \in Nat /\ bar + 1 <= m
        BY <1>6, <1>8, <2>2, <2>3, <3>1
      <4> QED BY <1>3, <1>6, <2>3, <3>1, <4>1
    <3>2. CASE m = Now - 1 /\ late' = late + 1
      <4>1. age' <= age + 1 /\ age' \in Nat /\ bar <= m + 1
        BY <1>6, <2>2, <2>3, <3>2
      <4> QED BY <1>3, <1>6, <2>3, <3>2, <4>1
    <3> QED BY <1>2, <3>1, <3>2
  <2>5. BarType'
    BY <1>7, <1>7a, <1>7b, <2>2, <2>4 DEF BarType
  <2>6. Named'
    <3>1. bar' # NA /\ bar' <= Now' /\ age' <= bar' + 2 * late'
      BY <1>7a, <2>4
    <3>0. \A e \in sent' : e[1] \in Nat
      <4>1. \A e \in sent : e[1] \in Nat
        BY <1>1 DEF Named
      <4>2. CASE sent' = sent
        BY <4>1, <4>2
      <4>3. CASE \E side : sent' = sent \cup {<<bar, side>>}
        <5>1. PICK side : sent' = sent \cup {<<bar, side>>}
          BY <4>3
        <5>2. <<bar, side>>[1] \in Nat
          BY <2>3
        <5> QED BY <4>1, <5>1, <5>2
      <4> QED BY <2>2, <4>2, <4>3
    <3>2. ASSUME late' = 0 PROVE ~again' /\ \A e \in sent' : e[1] < bar'
      <4>1. late = 0 /\ m = Now /\ bar < m
        BY <1>2, <1>6, <1>7, <1>8, <2>3, <3>2
      <4>2. ~again /\ \A e \in sent : e[1] < bar
        BY <1>1, <4>1 DEF Named
      <4>2a. \A e \in sent : e[1] < m
        <5>1. \A e \in sent : e[1] \in Nat
          BY <1>1 DEF Named
        <5> QED BY <1>7a, <2>3, <4>1, <4>2, <5>1
      <4>3. CASE sent' = sent /\ again' = again
        BY <1>3, <4>2, <4>2a, <4>3
      <4>4. CASE \E side : sent' = sent \cup {<<bar, side>>} /\ again' = (again \/ <<bar, side>> \in sent)
        <5>1. PICK side : sent' = sent \cup {<<bar, side>>} /\ again' = (again \/ <<bar, side>> \in sent)
          BY <4>4
        <5>2. <<bar, side>> \notin sent
          BY <2>3, <4>2
        <5>3. ~again'
          BY <4>2, <5>1, <5>2, Zenon
        <5>4. \A e \in sent' : e[1] < m
          BY <4>1, <4>2a, <5>1
        <5> QED BY <1>3, <5>3, <5>4
      <4> QED BY <2>2, <4>3, <4>4
    <3> QED BY <3>0, <3>1, <3>2 DEF Named
  <2> QED BY <1>4, <1>5, <2>2, <2>5, <2>6, TypeParts DEF ViewInv
<1>9. CASE ~(bar # NA /\ m # bar)
  <2>1. slack' = NA /\ UNCHANGED <<posVars, bars, label, age>>
    BY <1>2, <1>9, Zenon DEF Trade, NoBar
  <2>2. /\ waiting' = waiting /\ lease' = lease /\ open' = open /\ sent' = sent /\ again' = again
        /\ bars' = bars /\ age' = age
    BY <2>1 DEF posVars
  <2>3. PosType' /\ EntriesAreFresh'
    BY <1>1, <2>1, <2>2 DEF PosType, EntriesAreFresh
  <2>4. late \in Nat /\ late <= late' /\ late' \in Nat /\ age \in Nat
    BY <1>1, <1>2, <1>7 DEF BarType
  <2>5. age <= m + 2 * late
    <3>1. CASE bar = NA
      BY <1>1, <1>7, <2>4, <3>1 DEF Named
    <3>2. CASE m = bar /\ bar # NA
      BY <1>1, <3>2 DEF Named
    <3> QED BY <1>9, <3>1, <3>2
  <2>5a. age' \in Nat /\ age' <= m + 2 * late'
    <3>1. age <= m + 2 * late'
      BY <1>7a, <2>4, <2>5, AgeGrows
    <3> QED BY <2>2, <2>4, <3>1
  <2>6. BarType'
    BY <1>1, <1>7, <1>7a, <1>7b, <2>2, <2>5a DEF BarType
  <2>7. Named'
    <3>1. bar' # NA /\ bar' <= Now' /\ age' <= bar' + 2 * late'
      BY <1>7a, <2>5a
    <3>2. ASSUME late' = 0 PROVE ~again' /\ \A e \in sent' : e[1] < bar'
      <4>1. late = 0
        BY <2>4, <3>2
      <4>2. ~again /\ (\A e \in sent : e[1] < bar) /\ (bar = NA => sent = {})
        BY <1>1, <4>1 DEF Named
      <4> QED BY <1>3, <1>9, <2>2, <4>2
    <3>3. \A e \in sent' : e[1] \in Nat
      BY <1>1, <2>2 DEF Named
    <3> QED BY <3>1, <3>2, <3>3 DEF Named
  <2> QED BY <1>4, <1>5, <2>3, <2>6, <2>7, TypeParts DEF ViewInv
<1> QED BY <1>8, <1>9

LEMMA ReconciliationKeeps ==
  ASSUME ViewInv, Reconciliation \/ UNCHANGED marketVars
  PROVE  ViewInv'
<1>1. Times /\ Heard /\ BarType /\ PosType /\ OtherType /\ Looked /\ Named /\ EntriesAreFresh
  BY TypeParts DEF ViewInv
<1>2. /\ clock' = clock /\ tickAt' = tickAt /\ recv' = recv /\ stale' = stale /\ checked' = checked
      /\ bar' = bar /\ bars' = bars /\ age' = age /\ late' = late /\ book' = book
      /\ waiting' = waiting /\ lease' = lease /\ open' = open /\ sent' = sent /\ again' = again
      /\ (slack' = NA \/ slack' = slack) /\ (mode' = "none" \/ mode' = mode)
  BY DEF Reconciliation, Plain, marketVars, feedVars, barVars, posVars
<1>3. Times' /\ Heard' /\ BarType' /\ PosType'
  BY <1>1, <1>2 DEF Times, Heard, BarType, PosType
<1>4. OtherType' /\ Looked' /\ EntriesAreFresh'
  BY <1>1, <1>2 DEF OtherType, ViewMode, Looked, EntriesAreFresh
<1>5. Named'
  <2>1. Now' = Now
    BY <1>2 DEF Now
  <2> QED BY <1>1, <1>2, <2>1 DEF Named
<1> QED BY <1>3, <1>4, <1>5, TypeParts DEF ViewInv

LEMMA ViewStarts == MarketInit => ViewInv
<1> SUFFICES ASSUME MarketInit PROVE ViewInv
  OBVIOUS
<1>1. /\ clock = 1 /\ tickAt = 1
      /\ recv = [c \in Category |-> NA] /\ stale = [c \in Category |-> FALSE] /\ checked = 0
      /\ bar = NA /\ bars = 0 /\ age = 0
      /\ book = "none" /\ waiting = NA /\ lease = NA /\ open = FALSE
      /\ mode = "none" /\ sent = {} /\ again = FALSE /\ late = 0 /\ slack = NA
  BY DEF MarketInit
<1>2. MarketTypeOK
  BY <1>1, MVAssumption DEF MarketTypeOK, ViewMode
<1>3. Looked
  BY <1>1, CategoryLimit DEF Looked
<1>4. Named
  BY <1>1 DEF Named
<1> QED BY <1>1, <1>2, <1>3, <1>4 DEF ViewInv, EntriesAreFresh

LEMMA ViewSteps ==
  ASSUME ViewInv, MarketNext \/ UNCHANGED marketVars
  PROVE  ViewInv'
<1>1. CASE OnTrade
  BY <1>1, TradeKeeps
<1>2. CASE OnBook
  <2>1. Hear("public") /\ Quiet /\ book' \in {"tight", "wide"} /\ "public" \in Category
    BY <1>2 DEF OnBook, Category
  <2>2. book' \in {"none", "tight", "wide"}
    BY <2>1
  <2> QED BY <2>1, <2>2, QuietKeeps
<1>3. CASE OnMark
  <2>1. Hear("market") /\ Quiet /\ book' = book /\ "market" \in Category
    BY <1>3 DEF OnMark, Category
  <2>2. book' \in {"none", "tight", "wide"}
    BY <2>1 DEF ViewInv, MarketTypeOK
  <2> QED BY <2>1, <2>2, QuietKeeps
<1>4. CASE OnConnect
  <2>1. PICK c \in Category : Hear(c) /\ Quiet /\ book' = book
    BY <1>4 DEF OnConnect
  <2>2. book' \in {"none", "tight", "wide"}
    BY <2>1 DEF ViewInv, MarketTypeOK
  <2> QED BY <2>1, <2>2, QuietKeeps
<1>5. CASE Tick
  BY <1>5, TickKeeps
<1>6. CASE Fill \/ Refused \/ PositionCloses
  BY <1>6, PositionKeeps
<1>7. CASE Reconciliation \/ UNCHANGED marketVars
  BY <1>7, ReconciliationKeeps
<1>8. CASE Pass
  BY <1>8, PassKeeps
<1> QED BY <1>1, <1>2, <1>3, <1>4, <1>5, <1>6, <1>7, <1>8, Zenon DEF MarketNext

(* What a tick finds. *)
TickIsTrue ==
  Tick => /\ mode' = "HALTED" <=> ~reconciled
          /\ mode' = "FULL" =>
               \A c \in Category : recv[c] # NA => clock - recv[c] <= Limit[c] + CheckEvery - 1
          /\ mode' = "PROTECTION_ONLY" =>
               \E c \in Category : recv[c] # NA /\ clock - recv[c] > Limit[c]

LEMMA TickFinds ==
  ASSUME ViewInv
  PROVE  TickIsTrue
<1> SUFFICES ASSUME Tick
             PROVE  /\ mode' = "HALTED" <=> ~reconciled
                    /\ mode' = "FULL" =>
                         \A c \in Category : recv[c] # NA => clock - recv[c] <= Limit[c] + CheckEvery - 1
                    /\ mode' = "PROTECTION_ONLY" =>
                         \E c \in Category : recv[c] # NA /\ clock - recv[c] > Limit[c]
  BY Zenon DEF TickIsTrue
<1>1. Check(recv) /\ mode' = ExitMode(reconciled, stale')
  BY DEF Tick
<1>2. /\ Times /\ Heard /\ Looked /\ MarketTypeOK
  BY TypeParts DEF ViewInv
<1>3. /\ stale' = IF Due THEN Judged(recv) ELSE stale
  BY <1>1, Zenon DEF Check
<1>4. \A c \in Category : /\ clock \in Int /\ checked \in Int /\ Limit[c] \in Int /\ CheckEvery \in Int
                          /\ recv[c] \in Int /\ CheckEvery > 0
  BY <1>2, CategoryLimit DEF Times, Heard
<1>5. ASSUME NEW c \in Category, ~stale'[c], recv[c] # NA
      PROVE  clock - recv[c] <= Limit[c] + CheckEvery - 1
  <2>1. CASE Due
    <3>1. ~(clock - recv[c] > Limit[c])
      BY <1>3, <1>5, <2>1, Zenon DEF Judged
    <3> QED BY <1>4, <3>1
  <2>2. CASE ~Due
    <3>1. ~stale[c] /\ clock - checked < CheckEvery
      BY <1>3, <1>4, <1>5, <2>2 DEF Due
    <3>2. checked - recv[c] <= Limit[c]
      BY <1>2, <1>5, <3>1 DEF Looked
    <3> QED BY <1>4, <3>1, <3>2
  <2> QED BY <2>1, <2>2
<1>6. ASSUME NEW c \in Category, stale'[c]
      PROVE  recv[c] # NA /\ clock - recv[c] > Limit[c]
  <2>1. CASE ~Due
    BY <1>3, <1>6, <2>1 DEF Due
  <2>2. CASE Due
    <3>1. CASE recv[c] = NA
      <4>1. stale[c]
        BY <1>3, <1>6, <2>2, <3>1, Zenon DEF Judged
      <4> QED BY <1>2, <3>1, <4>1 DEF Looked
    <3>2. CASE recv[c] # NA
      BY <1>3, <1>6, <2>2, <3>2, Zenon DEF Judged
    <3> QED BY <3>1, <3>2
  <2> QED BY <2>1, <2>2
<1>7. CASE ~reconciled
  <2>1. mode' = "HALTED"
    BY <1>1, <1>7, Zenon DEF ExitMode
  <2> QED BY <1>7, <2>1
<1>8. CASE reconciled /\ \E c \in Category : stale'[c]
  <2>1. mode' = "PROTECTION_ONLY"
    BY <1>1, <1>8, Zenon DEF ExitMode
  <2> QED BY <1>6, <1>8, <2>1
<1>9. CASE reconciled /\ ~\E c \in Category : stale'[c]
  <2>1. mode' = "FULL"
    BY <1>1, <1>9, Zenon DEF ExitMode
  <2> QED BY <1>5, <1>9, <2>1
<1> QED BY <1>7, <1>8, <1>9

LEMMA ViewInvariant == AllSpec => []ViewInv
<1>1. AllInit => ViewInv
  BY ViewStarts DEF AllInit
<1>2. ViewInv /\ [AllNext]_allVars => ViewInv'
  <2> SUFFICES ASSUME ViewInv, [AllNext]_allVars PROVE ViewInv'
    OBVIOUS
  <2>1. MarketNext \/ UNCHANGED marketVars
    BY Zenon DEF AllNext, allVars
  <2> QED BY <2>1, ViewSteps
<1> QED BY <1>1, <1>2, PTL DEF AllSpec

(* The engine (engine.py, health.py) decides entries, and holds exits      *)
(* back, on data whose age is known, and no entry takes the name of an     *)
(* earlier one, for all limits, pauses and bar lengths.                    *)
THEOREM FreshIsTrue == AllSpec => ActsOnFresh
<1>1. ViewInv => MarketTypeOK /\ EntriesAreFresh /\ NamesAreNew
  BY DEF ViewInv, Named, NamesAreNew
<1>2. ViewInv => [TickIsTrue]_marketVars
  BY TickFinds
<1>3. [][TickIsTrue]_marketVars <=> ExitModeTrue
  BY DEF TickIsTrue, ExitModeTrue
<1> QED BY <1>1, <1>2, <1>3, ViewInvariant, PTL DEF ActsOnFresh

-----------------------------------------------------------------------------
(* The risk engine with every check on, for any amounts: prices, steps and *)
(* minimal quantities are positive, everything else an integer.            *)
AnyIntent == [side : {"long", "short"}, notional : Nat, price : Nat \ {0}, reduceOnly : {FALSE}]

AnyInputs(x) ==
  /\ x.warm \in Int /\ x.skew \in Int /\ x.open \in Int /\ x.pending \in Int
  /\ x.stratMax \in Int /\ x.stratOpen \in Int /\ x.stratCap \in Int /\ x.stratGross \in Int
  /\ x.gross \in Int /\ x.exposure \in Int /\ x.beta \in Int /\ x.balance \in Int
  /\ x.spread \in Int /\ x.depth \in Int /\ x.slippage \in Int
  /\ x.sinceExit \in Int /\ x.sinceStp \in Int
  /\ x.left10 \in Int /\ x.left1m \in Int /\ x.since429 \in Int
  /\ \/ x.filters = NoFilters
     \/ x.filters.step \in Nat \ {0} /\ x.filters.minQty \in Nat \ {0} /\ x.filters.minNotional \in Int

Checked == Int \ {NA}
AnyConfig(c) ==
  /\ c.maxPositions \in Int /\ c.grossCap \in Checked /\ c.betaCap \in Nat
  /\ c.leverage \in Int /\ c.buffer \in Nat /\ c.spreadMax \in Checked
  /\ c.participation \in Checked /\ c.slippageMax \in Checked
  /\ c.cooldown \in Checked /\ c.cooldownLoss \in Checked /\ c.cooldownStp \in Checked
  /\ c.reserve \in Int /\ c.backoff \in Int /\ c.skewMax \in Checked /\ c.warmup \in Int

(* Rounding a quantity down to the step. *)
LEMMA StepDown ==
  ASSUME NEW n \in Int, NEW p \in Nat \ {0}, NEW s \in Nat \ {0}
  PROVE  LET q == (n \div (p * s)) * s
         IN q \in Int /\ q * p <= n /\ q % s = 0
<1> DEFINE t == p * s
           k == n \div t
           q == k * s
<1>1. t \in Nat /\ t > 0
  <2>1. p \in Int /\ s \in Int /\ p >= 1 /\ s >= 1
    OBVIOUS
  <2>2. p * s >= 1
    BY <2>1
  <2> QED BY <2>1, <2>2
<1>2. k \in Int /\ t * k <= n
  <2> HIDE DEF t
  <2> QED BY <1>1
<1>3. q * p = t * k
  <2> HIDE DEF k
  <2> QED BY <1>2
<1>4. q % s = 0
  <2>1. q \in Int
    <3> HIDE DEF k
    <3> QED BY <1>2
  <2> DEFINE d == q \div s
             r == q % s
  <2>2. d \in Int /\ r \in Int /\ q = s * d + r /\ 0 <= r /\ r < s
    <3> HIDE DEF q
    <3> QED BY <2>1
  <2>3. s * (k - d) = r
    <3> HIDE DEF k, d, r
    <3> QED BY <1>2, <2>2
  <2> HIDE DEF k, d, r, q
  <2>4. ASSUME k - d >= 1 PROVE FALSE
    <3>1. s * (k - d) >= s
      BY <1>2, <2>2, <2>4
    <3> QED BY <2>2, <2>3, <3>1
  <2>5. ASSUME k - d <= -1 PROVE FALSE
    <3>1. s * (k - d) <= -s
      BY <1>2, <2>2, <2>5
    <3> QED BY <2>2, <2>3, <3>1
  <2>6. k - d = 0
    BY <1>2, <2>2, <2>4, <2>5
  <2>7. r = 0
    BY <2>3, <2>6
  <2> QED BY <2>7 DEF r
<1>5. q \in Int
  <2> HIDE DEF k
  <2> QED BY <1>2
<1> QED BY <1>2, <1>3, <1>4, <1>5

(* What an entry that passes has had: every gate open. *)
LEMMA PassedIsOpen ==
  ASSUME NEW i \in AnyIntent, NEW x, AnyInputs(x), NEW c, AnyConfig(c),
         Assess(i, x, c).kind # "REJECT"
  PROVE  Open(x, c)
<1> DEFINE R == AllReasons(i, x, c)
<1>0. ~i.reduceOnly
  BY DEF AnyIntent
<1>1. R \subseteq Soft
  BY <1>0, NotRefused
<1>2. /\ CapReasons(i, x, c) \subseteq R /\ AccountReasons(x, c, Capped(i, x, c)) \subseteq R
      /\ MarketReasons(x, c) \subseteq R /\ DepthReasons(x, c, Capped(i, x, c)) \subseteq R
      /\ PauseReasons(x, c) \subseteq R /\ FilterReasons(x, Capped(i, x, c), i.price) \subseteq R
  BY DEF AllReasons
<1> HIDE DEF R
<1>3. \A r \in {"K9_unknown", "K10", "K11", "K13", "K15", "K14_unknown", "K16", "K16_stp", "K17",
                "K18", "K12"} : r \notin R
  BY <1>1 DEF Soft
<1>4. ~(c.betaCap # NA /\ x.beta = NA)
  <2>1. "K9_unknown" \notin CapReasons(i, x, c)
    BY <1>2, <1>3
  <2> QED BY <2>1, Zenon DEF CapReasons, When
<1>5. /\ ~(x.leverage # c.leverage) /\ x.balance # NA
      /\ ~(x.balance * c.leverage * 100 < Capped(i, x, c) * (100 + c.buffer))
  <2>1. "K10" \notin AccountReasons(x, c, Capped(i, x, c)) /\ "K11" \notin AccountReasons(x, c, Capped(i, x, c))
    BY <1>2, <1>3
  <2> QED BY <2>1, Zenon DEF AccountReasons, When
<1>6. /\ ~(c.spreadMax # NA /\ (x.spread = NA \/ x.spread > c.spreadMax))
      /\ ~(c.slippageMax # NA /\ (x.slippage = NA \/ x.slippage > c.slippageMax))
  <2>1. "K13" \notin MarketReasons(x, c) /\ "K15" \notin MarketReasons(x, c)
    BY <1>2, <1>3
  <2> QED BY <2>1, Zenon DEF MarketReasons, When
<1>7. ~(c.participation # NA /\ x.depth = NA)
  <2>1. "K14_unknown" \notin DepthReasons(x, c, Capped(i, x, c))
    BY <1>2, <1>3
  <2> QED BY <2>1, Zenon DEF DepthReasons, When
<1>8. /\ ~(x.sinceExit # NA /\ CoolDown(x, c) # NA /\ x.sinceExit < CoolDown(x, c))
      /\ ~(x.sinceStp # NA /\ c.cooldownStp # NA /\ x.sinceStp < c.cooldownStp)
      /\ ~(x.left10 = NA \/ x.left1m = NA \/ Lesser(x.left10, x.left1m) < c.reserve)
      /\ ~x.banned /\ ~(~x.banned /\ x.since429 # NA /\ x.since429 < c.backoff)
  <2>1. "K16" \notin PauseReasons(x, c) /\ "K16_stp" \notin PauseReasons(x, c)
        /\ "K17" \notin PauseReasons(x, c) /\ "K18" \notin PauseReasons(x, c)
    BY <1>2, <1>3
  <2> QED BY <2>1, Zenon DEF PauseReasons, When
<1>9. x.filters # NoFilters
  <2>1. "K12" \notin FilterReasons(x, Capped(i, x, c), i.price)
    BY <1>2, <1>3
  <2> QED BY <2>1, Zenon DEF FilterReasons, When
<1>10. /\ ~x.kill /\ x.reconciled /\ ~(x.warm < c.warmup) /\ x.stale = {}
       /\ ~(c.skewMax # NA /\ (x.skew = NA \/ Size(x.skew) > c.skewMax))
       /\ ~(x.open + x.pending >= c.maxPositions) /\ ~x.busy /\ ~x.leased
       /\ ~(x.stratMax # NA /\ x.stratOpen >= x.stratMax)
  BY <1>0, GatesOpen
<1>11. Size(x.skew) \in Int
  BY DEF AnyInputs, Size
<1>12. /\ x.warm >= c.warmup /\ x.skew # NA /\ Size(x.skew) <= c.skewMax
       /\ x.open + x.pending < c.maxPositions
       /\ (x.stratMax # NA => x.stratOpen < x.stratMax)
  BY <1>10, <1>11 DEF AnyInputs, AnyConfig, Checked
<1>13. NA \notin {x.beta, x.balance, x.depth, x.spread, x.slippage, x.left10, x.left1m}
  <2>1. c.betaCap # NA /\ c.participation # NA /\ c.spreadMax # NA /\ c.slippageMax # NA
    BY DEF AnyConfig, Checked, NA
  <2> QED BY <1>4, <1>5, <1>6, <1>7, <1>8, <2>1
<1>14. x.spread <= c.spreadMax /\ x.slippage <= c.slippageMax
  BY <1>6 DEF AnyInputs, AnyConfig, Checked
<1>15. x.left10 >= c.reserve /\ x.left1m >= c.reserve
  BY <1>8 DEF AnyInputs, AnyConfig, Lesser
<1>16. x.sinceExit # NA => x.sinceExit >= (IF x.lossExit THEN c.cooldownLoss ELSE c.cooldown)
  <2>1. CoolDown(x, c) = IF x.lossExit THEN c.cooldownLoss ELSE c.cooldown
    BY DEF CoolDown, AnyConfig, Checked
  <2>2. CoolDown(x, c) \in Int \ {NA}
    BY <2>1 DEF AnyConfig, Checked
  <2> QED BY <1>8, <2>1, <2>2 DEF AnyInputs
<1>17. /\ x.sinceStp # NA => x.sinceStp >= c.cooldownStp
       /\ ~x.banned /\ (x.since429 # NA => x.since429 >= c.backoff)
  BY <1>8 DEF AnyInputs, AnyConfig, Checked
<1> QED BY <1>5, <1>9, <1>10, <1>12, <1>13, <1>14, <1>15, <1>16, <1>17, Zenon DEF Open

(* What a soft check leaves is no more than was asked, and leaves room:    *)
(* anything positive that fits into it fits under the cap.                 *)
LEMMA FittedFits ==
  ASSUME NEW n \in Nat, NEW cap \in Int, NEW used \in Int
  PROVE  /\ Fitted(n, cap, used) \in Nat /\ Fitted(n, cap, used) <= n
         /\ \A v \in Nat \ {0} : v <= Fitted(n, cap, used) /\ cap # NA => used + v <= cap
BY DEF Fitted, Tight, NonNeg

(* Between an exposure and one that would be within the limits, all are.   *)
LEMMA BetweenFits ==
  ASSUME NEW e \in Int, NEW P \in Int, NEW Q \in Int, NEW cap \in Nat,
         (0 <= P /\ P <= Q) \/ (Q <= P /\ P <= 0),
         Size(e + Q) <= cap \/ Size(e + Q) <= Size(e)
  PROVE  Size(e + P) <= cap \/ Size(e + P) <= Size(e)
BY DEF Size

LEMMA Scaled ==
  ASSUME NEW b \in Int, NEW v \in Nat, NEW n \in Nat, v <= n
  PROVE  (0 <= v * b /\ v * b <= n * b) \/ (n * b <= v * b /\ v * b <= 0)
<1>1. CASE b >= 0
  <2>1. 0 <= v * b /\ v * b <= n * b
    BY <1>1
  <2> QED BY <2>1
<1>2. CASE b < 0
  <2>1. n * b <= v * b /\ v * b <= 0
    BY <1>2
  <2> QED BY <2>1
<1> QED BY <1>1, <1>2

(* The room under the cap of the exposure e, taken on the entry's side. *)
LEMMA RoomFits ==
  ASSUME NEW e \in Int, NEW b \in Int, NEW cap \in Nat, NEW v \in Nat \ {0},
         v <= Ratio(cap - e, b)
  PROVE  Size(e + v * b) <= cap \/ Size(e + v * b) <= Size(e)
<1>0. v * b \in Int
  OBVIOUS
<1>1. CASE b > 0
  <2> DEFINE k == (cap - e) \div b
  <2>1. v <= k
    BY <1>1 DEF Ratio
  <2>2. k \in Int /\ b * k <= cap - e
    BY <1>1
  <2> HIDE DEF k
  <2>3. v * b <= b * k /\ v * b >= 0
    BY <1>1, <2>1, <2>2
  <2>4. 0 <= v * b /\ e + v * b <= cap
    BY <1>0, <2>2, <2>3
  <2> HIDE <1>1
  <2> QED BY <1>0, <2>4 DEF Size
<1>2. CASE b < 0
  <2> DEFINE k == (-(cap - e)) \div (-b)
  <2>1. v <= k
    BY <1>2 DEF Ratio
  <2>2. k \in Int /\ (-b) * k <= e - cap
    <3>1. -b \in Nat \ {0} /\ -(cap - e) = e - cap /\ e - cap \in Int
      BY <1>2
    <3> QED BY <3>1
  <2> HIDE DEF k
  <2>3. (-b) * v <= (-b) * k
    BY <1>2, <2>1, <2>2
  <2>4. (-b) * v = -(v * b) /\ v * b <= 0
    BY <1>2
  <2>5. e + v * b >= cap /\ v * b <= 0
    <3>1. (-b) * v \in Int /\ (-b) * k \in Int
      BY <1>2, <2>2
    <3> QED BY <1>0, <2>2, <2>3, <2>4, <3>1
  <2> QED BY <1>0, <2>5 DEF Size
<1>3. CASE b = 0
  <2>1. v <= 0
    BY <1>3 DEF Ratio
  <2> QED BY <2>1
<1> QED BY <1>1, <1>2, <1>3

LEMMA SizeOfNegative == \A a \in Int : Size(-a) = Size(a) /\ Size(a) \in Nat
BY DEF Size

LEMMA FittedBetaFits ==
  ASSUME NEW i \in AnyIntent, NEW x, AnyInputs(x), NEW c, AnyConfig(c), NEW n \in Nat, x.beta # NA
  PROVE  /\ FittedBeta(i, x, c, n) \in Nat /\ FittedBeta(i, x, c, n) <= n
         /\ \A v \in Nat \ {0} : v <= FittedBeta(i, x, c, n) =>
              \/ Size(x.exposure + Sign(i) * v * x.beta) <= c.betaCap
              \/ Size(x.exposure + Sign(i) * v * x.beta) <= Size(x.exposure)
<1> DEFINE g == Sign(i)
           e == g * x.exposure
           b == x.beta
           room == BetaRoom(i, x, c)
<1>0. /\ x.exposure \in Int /\ b \in Int /\ c.betaCap \in Nat /\ c.betaCap # NA
      /\ (g = 1 \/ g = -1)
  BY DEF AnyInputs, AnyConfig, Sign, NA
<1>1. e \in Int /\ room = Ratio(c.betaCap - e, b)
  BY <1>0 DEF BetaRoom
<1>2. room \in Int
  <2>1. CASE b = 0
    BY <1>1, <2>1 DEF Ratio
  <2>2. CASE b > 0
    <3>1. b \in Nat \ {0} /\ c.betaCap - e \in Int
      BY <1>0, <1>1, <2>2
    <3>2. (c.betaCap - e) \div b \in Int
      BY <3>1
    <3> QED BY <1>1, <2>2, <3>2 DEF Ratio
  <2>3. CASE b < 0
    <3>1. -b \in Nat \ {0} /\ -(c.betaCap - e) \in Int
      BY <1>0, <1>1, <2>3
    <3>2. (-(c.betaCap - e)) \div (-b) \in Int
      BY <3>1
    <3> QED BY <1>0, <1>1, <2>3, <3>2 DEF Ratio
  <2> QED BY <1>0, <2>1, <2>2, <2>3
(* On the side of the entry. *)
<1>3. ASSUME NEW v \in Nat
      PROVE  /\ Size(x.exposure + g * v * b) = Size(e + v * b)
             /\ v * b \in Int
  <2>1. v * b \in Int
    BY <1>0
  <2>2. CASE g = 1
    <3>1. g * v * b = v * b /\ e = x.exposure
      BY <1>0, <2>1, <2>2
    <3> QED BY <2>1, <3>1
  <2>3. CASE g = -1
    <3>1. g * v * b = -(v * b) /\ e = -x.exposure
      BY <1>0, <2>1, <2>3
    <3>2. x.exposure + g * v * b = -(e + v * b) /\ e + v * b \in Int
      BY <1>0, <1>1, <2>1, <3>1
    <3> QED BY <2>1, <3>2, SizeOfNegative
  <2> QED BY <1>0, <2>2, <2>3
<1>4. Size(x.exposure) = Size(e)
  <2>1. CASE g = 1
    BY <1>0, <2>1
  <2>2. CASE g = -1
    <3>1. e = -x.exposure
      BY <1>0, <2>2
    <3> QED BY <1>0, <3>1, SizeOfNegative
  <2> QED BY <1>0, <2>1, <2>2
<1> HIDE DEF e, room
<1>5. OverBeta(i, x, c, n) <=> Size(e + n * b) > c.betaCap /\ Size(e + n * b) > Size(e)
  <2>1. After(i, x, n) = x.exposure + g * n * b
    BY Zenon DEF After
  <2>2. Size(After(i, x, n)) = Size(e + n * b)
    BY <1>3, <2>1
  <2> HIDE DEF b, g
  <2> QED BY <1>0, <1>4, <2>2 DEF OverBeta, b
<1>6. CASE OverBeta(i, x, c, n)
  <2>1. FittedBeta(i, x, c, n) = NonNeg(Lesser(n, room))
    BY <1>6, Zenon DEF FittedBeta, room
  <2>2. FittedBeta(i, x, c, n) \in Nat /\ FittedBeta(i, x, c, n) <= n
    BY <1>2, <2>1 DEF NonNeg, Lesser
  <2>3. ASSUME NEW v \in Nat \ {0}, v <= FittedBeta(i, x, c, n)
        PROVE  Size(e + v * b) <= c.betaCap \/ Size(e + v * b) <= Size(e)
    <3>1. v <= room
      BY <1>2, <2>1, <2>3 DEF NonNeg, Lesser
    <3>2. v <= Ratio(c.betaCap - e, b)
      BY <1>1, <3>1
    <3> HIDE DEF b
    <3> QED BY <1>0, <1>1, <3>2, RoomFits
  <2> QED BY <1>3, <1>4, <2>2, <2>3
<1>7. CASE ~OverBeta(i, x, c, n)
  <2>1. FittedBeta(i, x, c, n) = n
    BY <1>7, Zenon DEF FittedBeta
  <2>2. Size(e + n * b) <= c.betaCap \/ Size(e + n * b) <= Size(e)
    <3>1. n * b \in Int
      BY <1>3
    <3>2. Size(e + n * b) \in Nat /\ Size(e) \in Nat
      BY <1>1, <3>1, SizeOfNegative
    <3> HIDE DEF b
    <3> QED BY <1>0, <1>5, <1>7, <3>2
  <2>3. ASSUME NEW v \in Nat \ {0}, v <= n
        PROVE  Size(e + v * b) <= c.betaCap \/ Size(e + v * b) <= Size(e)
    <3>1. (0 <= v * b /\ v * b <= n * b) \/ (n * b <= v * b /\ v * b <= 0)
      BY <1>0, <2>3, Scaled
    <3>2. v * b \in Int /\ n * b \in Int
      BY <1>3
    <3> HIDE DEF b
    <3> QED BY <1>0, <1>1, <2>2, <3>1, <3>2, BetweenFits
  <2> QED BY <1>3, <1>4, <2>1, <2>3
<1> QED BY <1>6, <1>7

(* The notional after each check. *)
LEMMA NotionalFits ==
  ASSUME NEW i \in AnyIntent, NEW x, AnyInputs(x), NEW c, AnyConfig(c), x.beta # NA
  PROVE  LET n == Capped(i, x, c)
         IN /\ n \in Nat /\ n <= i.notional
            /\ \A v \in Nat \ {0} : v <= n =>
                 /\ x.gross + v <= c.grossCap
                 /\ x.stratCap # NA => x.stratGross + v <= x.stratCap
                 /\ \/ Size(x.exposure + Sign(i) * v * x.beta) <= c.betaCap
                    \/ Size(x.exposure + Sign(i) * v * x.beta) <= Size(x.exposure)
<1> DEFINE n1 == Fitted(i.notional, x.stratCap, x.stratGross)
           n2 == Fitted(n1, c.grossCap, x.gross)
           n3 == FittedBeta(i, x, c, n2)
<1>0. /\ i.notional \in Nat /\ x.stratCap \in Int /\ x.stratGross \in Int
      /\ c.grossCap \in Int /\ c.grossCap # NA /\ x.gross \in Int
  BY DEF AnyIntent, AnyInputs, AnyConfig, Checked
<1>1. /\ n1 \in Nat /\ n1 <= i.notional
      /\ \A v \in Nat \ {0} : v <= n1 /\ x.stratCap # NA => x.stratGross + v <= x.stratCap
  BY <1>0, FittedFits
<1> HIDE DEF n1
<1>2. /\ n2 \in Nat /\ n2 <= n1
      /\ \A v \in Nat \ {0} : v <= n2 /\ c.grossCap # NA => x.gross + v <= c.grossCap
  BY <1>0, <1>1, FittedFits
<1> HIDE DEF n2
<1>3. /\ n3 \in Nat /\ n3 <= n2
      /\ \A v \in Nat \ {0} : v <= n3 =>
           \/ Size(x.exposure + Sign(i) * v * x.beta) <= c.betaCap
           \/ Size(x.exposure + Sign(i) * v * x.beta) <= Size(x.exposure)
  BY <1>2, FittedBetaFits
<1> HIDE DEF n3
<1>4. Capped(i, x, c) = n3
  BY Zenon DEF Capped, n1, n2, n3
<1>5. n3 <= i.notional
  BY <1>0, <1>1, <1>2, <1>3
<1>6. ASSUME NEW v \in Nat \ {0}, v <= n3
      PROVE  /\ x.gross + v <= c.grossCap
             /\ x.stratCap # NA => x.stratGross + v <= x.stratCap
  <2>1. v <= n2 /\ v <= n1
    BY <1>1, <1>2, <1>3, <1>6
  <2> QED BY <1>0, <1>1, <1>2, <2>1
<1> QED BY <1>3, <1>4, <1>5, <1>6

LEMMA DepthFits ==
  ASSUME NEW x, AnyInputs(x), NEW c, AnyConfig(c), NEW n \in Nat, x.depth # NA
  PROVE  /\ FittedDepth(x, c, n) \in Int /\ FittedDepth(x, c, n) <= n
         /\ \A v \in Nat : v <= FittedDepth(x, c, n) => v * 100 <= c.participation * x.depth
<1> DEFINE S == c.participation * x.depth
           m == S \div 100
<1>1. c.participation \in Int /\ c.participation # NA /\ x.depth \in Int /\ S \in Int
  BY DEF AnyInputs, AnyConfig, Checked
<1>2. Thick(x, c, n) <=> n * 100 > S
  BY <1>1 DEF Thick
<1>3. FittedDepth(x, c, n) = IF Thick(x, c, n) THEN m ELSE n
  BY Zenon DEF FittedDepth
<1> HIDE DEF S
<1>4. m \in Int /\ 100 * m <= S
  BY <1>1
<1> HIDE DEF m
<1>5. CASE Thick(x, c, n)
  BY <1>1, <1>2, <1>3, <1>4, <1>5 DEF S
<1>6. CASE ~Thick(x, c, n)
  BY <1>1, <1>2, <1>3, <1>6 DEF S
<1> QED BY <1>5, <1>6

(* What the engine lets through is within every limit. *)
LEMMA PassedIsWithin ==
  ASSUME NEW i \in AnyIntent, NEW x, AnyInputs(x), NEW c, AnyConfig(c),
         Assess(i, x, c).kind # "REJECT"
  PROVE  Within(i, x, c, Assess(i, x, c).qty)
<1> DEFINE n == Capped(i, x, c)
           m == FittedDepth(x, c, n)
           q == Qty(m, i.price, x.filters)
           v == q * i.price
           R == AllReasons(i, x, c)
<1>0. ~i.reduceOnly /\ i.price \in Nat \ {0} /\ i.notional \in Nat
  BY DEF AnyIntent
<1>1. R \subseteq Soft /\ Assess(i, x, c).qty = q
  BY <1>0, NotRefused
<1>2. FilterReasons(x, m, i.price) \subseteq R /\ AccountReasons(x, c, n) \subseteq R
  BY DEF AllReasons
<1>3. Open(x, c)
  BY PassedIsOpen
<1>4. x.beta # NA /\ x.depth # NA /\ x.filters # NoFilters
  BY <1>3 DEF Open
<1>5. /\ x.filters.step \in Nat \ {0} /\ x.filters.minQty \in Nat \ {0} /\ x.filters.minNotional \in Int
  BY <1>4 DEF AnyInputs
<1>6. /\ n \in Nat /\ n <= i.notional
      /\ \A w \in Nat \ {0} : w <= n =>
           /\ x.gross + w <= c.grossCap
           /\ x.stratCap # NA => x.stratGross + w <= x.stratCap
           /\ \/ Size(x.exposure + Sign(i) * w * x.beta) <= c.betaCap
              \/ Size(x.exposure + Sign(i) * w * x.beta) <= Size(x.exposure)
  BY <1>4, NotionalFits
<1>7. /\ m \in Int /\ m <= n
      /\ \A w \in Nat : w <= m => w * 100 <= c.participation * x.depth
  <2> HIDE DEF n
  <2> QED BY <1>4, <1>6, DepthFits
<1> HIDE DEF n, R
<1>8. ~BelowMinimum(q, i.price, x.filters)
  <2>1. "K12" \notin FilterReasons(x, m, i.price)
    BY <1>1, <1>2 DEF Soft
  <2> QED BY <2>1, Zenon DEF FilterReasons, When
<1>9. ~(x.balance = NA \/ x.balance * c.leverage * 100 < n * (100 + c.buffer))
  <2>1. "K11" \notin AccountReasons(x, c, n)
    BY <1>1, <1>2 DEF Soft
  <2> QED BY <2>1, Zenon DEF AccountReasons, When
<1> HIDE DEF m
<1>10. q \in Int /\ v <= m /\ q % x.filters.step = 0
  BY <1>0, <1>5, <1>7, StepDown DEF Qty
<1> HIDE DEF q
<1>11. q >= x.filters.minQty /\ v >= x.filters.minNotional /\ q >= 1
  BY <1>0, <1>5, <1>8, <1>10 DEF BelowMinimum
<1>12. v \in Nat \ {0}
  <2>1. v >= 1
    BY <1>0, <1>10, <1>11
  <2> QED BY <1>0, <1>10, <2>1
<1> HIDE DEF v
<1>13. v <= n /\ v <= i.notional
  BY <1>0, <1>6, <1>7, <1>10, <1>12
<1>14. /\ x.gross + v <= c.grossCap
       /\ x.stratCap # NA => x.stratGross + v <= x.stratCap
       /\ \/ Size(x.exposure + Sign(i) * v * x.beta) <= c.betaCap
          \/ Size(x.exposure + Sign(i) * v * x.beta) <= Size(x.exposure)
  BY <1>6, <1>12, <1>13
<1>15. v * 100 <= c.participation * x.depth
  BY <1>7, <1>10, <1>12
<1>16. x.balance * c.leverage * 100 >= v * (100 + c.buffer)
  <2>1. x.balance * c.leverage * 100 \in Int /\ n * (100 + c.buffer) \in Int /\ v * (100 + c.buffer) \in Int
        /\ 100 + c.buffer \in Nat
    BY <1>6, <1>12 DEF AnyInputs, AnyConfig
  <2>2. v * (100 + c.buffer) <= n * (100 + c.buffer)
    BY <1>6, <1>12, <1>13, <2>1, Scaled
  <2> QED BY <1>9, <2>1, <2>2
<1>17. /\ v <= i.notional /\ q % x.filters.step = 0
       /\ q >= x.filters.minQty /\ v >= x.filters.minNotional
  BY <1>10, <1>11, <1>13
<1> QED BY <1>1, <1>14, <1>15, <1>16, <1>17, Zenon DEF Within, v

(* Nothing is cut when no soft check has a reason. *)
LEMMA NothingCut ==
  ASSUME NEW i \in AnyIntent, NEW x, AnyInputs(x), NEW c, AnyConfig(c),
         ~Tight(i.notional, x.stratCap, x.stratGross), ~Tight(i.notional, c.grossCap, x.gross),
         ~OverBeta(i, x, c, i.notional), ~Thick(x, c, i.notional)
  PROVE  /\ Fitted(i.notional, x.stratCap, x.stratGross) = i.notional
         /\ Fitted(i.notional, c.grossCap, x.gross) = i.notional
         /\ Capped(i, x, c) = i.notional /\ FittedDepth(x, c, i.notional) = i.notional
<1>1. Fitted(i.notional, x.stratCap, x.stratGross) = i.notional
  BY Zenon DEF Fitted
<1>2. Fitted(i.notional, c.grossCap, x.gross) = i.notional
  BY Zenon DEF Fitted
<1>3. FittedBeta(i, x, c, i.notional) = i.notional
  BY Zenon DEF FittedBeta
<1>4. Capped(i, x, c) = i.notional
  BY <1>1, <1>2, <1>3, Zenon DEF Capped
<1>5. FittedDepth(x, c, i.notional) = i.notional
  BY Zenon DEF FittedDepth
<1> QED BY <1>1, <1>2, <1>4, <1>5

LEMMA ApprovedIsWhole ==
  ASSUME NEW i \in AnyIntent, NEW x, AnyInputs(x), NEW c, AnyConfig(c),
         Assess(i, x, c).kind = "APPROVE"
  PROVE  Assess(i, x, c).qty = Qty(i.notional, i.price, x.filters)
<1> DEFINE n1 == Fitted(i.notional, x.stratCap, x.stratGross)
           n2 == Fitted(n1, c.grossCap, x.gross)
<1>0. ~i.reduceOnly /\ Assess(i, x, c).kind # "REJECT"
  BY DEF AnyIntent
<1>1. /\ AllReasons(i, x, c) = {}
      /\ Assess(i, x, c).qty = Qty(FittedDepth(x, c, Capped(i, x, c)), i.price, x.filters)
  BY <1>0, NotRefused
<1>2. CapReasons(i, x, c) = {} /\ DepthReasons(x, c, Capped(i, x, c)) = {}
  BY <1>1 DEF AllReasons
<1>3. /\ ~Tight(i.notional, x.stratCap, x.stratGross) /\ ~Tight(n1, c.grossCap, x.gross)
      /\ ~OverBeta(i, x, c, n2)
  <2>1. "K19_gross" \notin CapReasons(i, x, c) /\ "K8" \notin CapReasons(i, x, c)
        /\ "K9" \notin CapReasons(i, x, c)
    BY <1>2
  <2> QED BY <2>1, Zenon DEF CapReasons, When
<1>4. ~Thick(x, c, Capped(i, x, c))
  <2>1. "K14" \notin DepthReasons(x, c, Capped(i, x, c))
    BY <1>2
  <2> QED BY <2>1, Zenon DEF DepthReasons, When
<1>5. n1 = i.notional
  BY <1>3, Zenon DEF Fitted
<1>6. n2 = i.notional
  BY <1>3, <1>5, Zenon DEF Fitted
<1>7. Capped(i, x, c) = i.notional
  BY <1>3, <1>6, Zenon DEF Capped, FittedBeta
<1>8. FittedDepth(x, c, Capped(i, x, c)) = i.notional
  BY <1>4, <1>7, Zenon DEF FittedDepth
<1> QED BY <1>1, <1>8

LEMMA WholeIsApproved ==
  ASSUME NEW i \in AnyIntent, NEW x, AnyInputs(x), NEW c, AnyConfig(c), Open(x, c),
         Qty(i.notional, i.price, x.filters) * i.price = i.notional,
         Within(i, x, c, Qty(i.notional, i.price, x.filters))
  PROVE  Assess(i, x, c).kind = "APPROVE"
<1> DEFINE q == Qty(i.notional, i.price, x.filters)
           n == i.notional
<1>0. /\ ~i.reduceOnly /\ i.price \in Nat \ {0} /\ n \in Nat /\ q * i.price = n
  BY DEF AnyIntent
<1>1. /\ x.gross + n <= c.grossCap /\ (x.stratCap # NA => x.stratGross + n <= x.stratCap)
      /\ \/ Size(x.exposure + Sign(i) * n * x.beta) <= c.betaCap
         \/ Size(x.exposure + Sign(i) * n * x.beta) <= Size(x.exposure)
      /\ x.balance * c.leverage * 100 >= n * (100 + c.buffer)
      /\ n * 100 <= c.participation * x.depth
      /\ q >= x.filters.minQty /\ n >= x.filters.minNotional
  BY <1>0, Zenon DEF Within
<1>2. /\ ~x.kill /\ x.reconciled /\ x.warm >= c.warmup /\ x.stale = {}
      /\ x.skew # NA /\ Size(x.skew) <= c.skewMax
      /\ x.open + x.pending < c.maxPositions /\ ~x.busy /\ ~x.leased
      /\ NA \notin {x.beta, x.balance, x.depth, x.spread, x.slippage, x.left10, x.left1m}
      /\ x.spread <= c.spreadMax /\ x.slippage <= c.slippageMax /\ x.left10 >= c.reserve
      /\ x.left1m >= c.reserve /\ x.leverage = c.leverage /\ x.filters # NoFilters
      /\ (x.stratMax # NA => x.stratOpen < x.stratMax)
      /\ (x.sinceExit # NA => x.sinceExit >= (IF x.lossExit THEN c.cooldownLoss ELSE c.cooldown))
      /\ (x.sinceStp # NA => x.sinceStp >= c.cooldownStp)
      /\ ~x.banned /\ (x.since429 # NA => x.since429 >= c.backoff)
  BY Zenon DEF Open
<1>3. Size(x.skew) \in Int
  BY DEF AnyInputs, Size
<1>4. HealthReasons(x, c) = {}
  <2>1. ~(x.warm < c.warmup) /\ ~(x.skew = NA \/ Size(x.skew) > c.skewMax)
    BY <1>2, <1>3 DEF AnyInputs, AnyConfig, Checked
  <2> QED BY <1>2, <2>1 DEF HealthReasons, When
<1>5. SlotReasons(x, c) = {}
  <2>1. ~(x.open + x.pending >= c.maxPositions) /\ ~(x.stratMax # NA /\ x.stratOpen >= x.stratMax)
    BY <1>2 DEF AnyInputs, AnyConfig
  <2> QED BY <1>2, <2>1 DEF SlotReasons, When
<1>6. /\ ~Tight(n, x.stratCap, x.stratGross) /\ ~Tight(n, c.grossCap, x.gross)
  BY <1>0, <1>1 DEF Tight, AnyInputs, AnyConfig, Checked
<1>7. ~OverBeta(i, x, c, n)
  <2> DEFINE a == Size(x.exposure + Sign(i) * n * x.beta)
  <2>1. a \in Int /\ Size(x.exposure) \in Int /\ c.betaCap \in Int
    <3>1. Sign(i) \in Int /\ x.beta \in Int /\ x.exposure \in Int
      BY DEF Sign, AnyInputs
    <3>2. x.exposure + Sign(i) * n * x.beta \in Int
      <4>1. Sign(i) * n \in Int
        BY <1>0, <3>1
      <4>2. (Sign(i) * n) * x.beta \in Int
        BY <3>1, <4>1
      <4> QED BY <3>1, <4>2
    <3> QED BY <3>1, <3>2, SizeOfNegative DEF AnyConfig
  <2>2. Size(After(i, x, n)) = a
    BY Zenon DEF After
  <2> HIDE DEF a
  <2>3. a <= c.betaCap \/ a <= Size(x.exposure)
    BY <1>1 DEF a
  <2> QED BY <2>1, <2>2, <2>3 DEF OverBeta
<1>8. ~Thick(x, c, n)
  <2>1. n * 100 \in Int /\ c.participation * x.depth \in Int
    BY <1>0 DEF AnyInputs, AnyConfig, Checked
  <2> QED BY <1>1, <2>1 DEF Thick
<1>9. /\ Fitted(n, x.stratCap, x.stratGross) = n /\ Fitted(n, c.grossCap, x.gross) = n
      /\ Capped(i, x, c) = n /\ FittedDepth(x, c, n) = n
  BY <1>6, <1>7, <1>8, NothingCut
<1> HIDE DEF n, q
<1>10. CapReasons(i, x, c) = {}
  <2>1. x.beta # NA
    BY <1>2
  <2> QED BY <1>6, <1>7, <1>9, <2>1 DEF CapReasons, When, n
<1>11. AccountReasons(x, c, n) = {}
  <2>1. ~(x.balance * c.leverage * 100 < n * (100 + c.buffer))
    <3>1. x.balance * c.leverage * 100 \in Int /\ n * (100 + c.buffer) \in Int
      BY <1>0 DEF AnyInputs, AnyConfig
    <3> QED BY <1>1, <3>1
  <2> QED BY <1>2, <2>1 DEF AccountReasons, When
<1>12. MarketReasons(x, c) = {}
  <2>1. /\ ~(x.spread = NA \/ x.spread > c.spreadMax)
        /\ ~(x.slippage = NA \/ x.slippage > c.slippageMax)
    BY <1>2 DEF AnyInputs, AnyConfig, Checked
  <2> QED BY <2>1 DEF MarketReasons, When
<1>13. DepthReasons(x, c, n) = {}
  BY <1>2, <1>8 DEF DepthReasons, When
<1>14. PauseReasons(x, c) = {}
  <2>1. CoolDown(x, c) = (IF x.lossExit THEN c.cooldownLoss ELSE c.cooldown) /\ CoolDown(x, c) \in Int
    BY DEF CoolDown, AnyConfig, Checked
  <2>2. ~(x.sinceExit # NA /\ x.sinceExit < CoolDown(x, c))
    <3>1. x.sinceExit \in Int
      BY DEF AnyInputs
    <3>2. x.sinceExit # NA => x.sinceExit >= CoolDown(x, c)
      BY <1>2, <2>1
    <3> QED BY <2>1, <3>1, <3>2
  <2>3. ~(x.sinceStp # NA /\ x.sinceStp < c.cooldownStp) /\ ~(x.since429 # NA /\ x.since429 < c.backoff)
        /\ ~(x.left10 = NA \/ x.left1m = NA \/ Lesser(x.left10, x.left1m) < c.reserve)
    BY <1>2 DEF AnyInputs, AnyConfig, Checked, Lesser
  <2> QED BY <1>2, <2>2, <2>3 DEF PauseReasons, When
<1>15. FilterReasons(x, n, i.price) = {}
  <2>0. x.filters.step \in Nat \ {0} /\ x.filters.minQty \in Nat \ {0} /\ x.filters.minNotional \in Int
    BY <1>2 DEF AnyInputs
  <2>1. q \in Int
    BY <1>0, <2>0, StepDown DEF Qty, q, n
  <2>2. ~BelowMinimum(q, i.price, x.filters)
    BY <1>0, <1>1, <2>0, <2>1 DEF BelowMinimum
  <2> QED BY <1>2, <2>2 DEF FilterReasons, When, q, n
<1>16. AllReasons(i, x, c) = {}
  BY <1>4, <1>5, <1>9, <1>10, <1>11, <1>12, <1>13, <1>14, <1>15, Zenon DEF AllReasons, n
<1>17. Assess(i, x, c) = Verdict({}, Qty(FittedDepth(x, c, Capped(i, x, c)), i.price, x.filters))
  BY <1>0, <1>16, AssessIs
<1> QED BY <1>17 DEF Verdict

(* The risk engine (risk.py), for every intent, every input and every      *)
(* configuration with all checks on: what it lets through has every gate   *)
(* open and is within every limit, and what is within them for the whole   *)
(* notional is let through as it is.                                       *)
THEOREM RiskIsExact ==
  ASSUME NEW i \in AnyIntent, NEW x, AnyInputs(x), NEW c, AnyConfig(c)
  PROVE  LET a     == Assess(i, x, c)
             whole == Qty(i.notional, i.price, x.filters)
         IN /\ a.kind # "REJECT" => Open(x, c) /\ Within(i, x, c, a.qty)
            /\ a.kind = "APPROVE" => a.qty = whole
            /\ Open(x, c) /\ whole * i.price = i.notional /\ Within(i, x, c, whole)
                 => a.kind = "APPROVE"
BY PassedIsOpen, PassedIsWithin, ApprovedIsWhole, WholeIsApproved

-----------------------------------------------------------------------------
(* The questions that are put, and the answers. *)
RiskQuestion(u) == u.intent \in AnyIntent /\ AnyInputs(u.inputs)

LEMMA ConfigIsAny == AnyConfig(AllChecks)
BY DEF AnyConfig, AllChecks, Checked, NA

LEMMA HealthyIsAny == AnyInputs(Healthy)
BY DEF AnyInputs, Healthy, NA

LEMMA CapInputsAreAny == \A x \in CapInputs : AnyInputs(x)
<1> DEFINE With(g, s, e, b, m, d, t) ==
             [Healthy EXCEPT !.gross = g, !.stratCap = s, !.stratGross = 3, !.exposure = e, !.beta = b,
                             !.balance = m, !.depth = d, !.filters.step = t]
<1>1. CapInputs = {With(g, s, e, b, m, d, t) :
                     g \in {0, 5, 12}, s \in {NA, 9}, e \in {-9, -3, 0, 3, 9}, b \in {NA, -1, 0, 1, 2},
                     m \in {NA, 1, 2, 100}, d \in {NA, 9, 100}, t \in {1, 2}}
  BY DEF CapInputs
<1>2. ASSUME NEW g \in Int, NEW s \in Int, NEW e \in Int, NEW b \in Int, NEW m \in Int, NEW d \in Int,
             NEW t \in Nat \ {0}
      PROVE  AnyInputs(With(g, s, e, b, m, d, t))
  BY DEF AnyInputs, Healthy, NA
<1>3. \A g \in {0, 5, 12}, s \in {NA, 9}, e \in {-9, -3, 0, 3, 9}, b \in {NA, -1, 0, 1, 2},
         m \in {NA, 1, 2, 100}, d \in {NA, 9, 100}, t \in {1, 2} : AnyInputs(With(g, s, e, b, m, d, t))
  <2> HIDE DEF With
  <2> TAKE g \in {0, 5, 12}, s \in {NA, 9}, e \in {-9, -3, 0, 3, 9}, b \in {NA, -1, 0, 1, 2},
           m \in {NA, 1, 2, 100}, d \in {NA, 9, 100}, t \in {1, 2}
  <2>1. /\ g \in Int /\ s \in Int /\ e \in Int /\ b \in Int /\ m \in Int /\ d \in Int /\ t \in Nat \ {0}
    BY DEF NA
  <2> QED BY <1>2, <2>1
<1> DEFINE G == {0, 5, 12}
           S == {NA, 9}
           E == {-9, -3, 0, 3, 9}
           B == {NA, -1, 0, 1, 2}
           M == {NA, 1, 2, 100}
           D == {NA, 9, 100}
           T == {1, 2}
<1> HIDE DEF With
<1>4. CapInputs = {With(g, s, e, b, m, d, t) : g \in G, s \in S, e \in E, b \in B, m \in M, d \in D, t \in T}
  BY <1>1
<1>5. \A g \in G, s \in S, e \in E, b \in B, m \in M, d \in D, t \in T : AnyInputs(With(g, s, e, b, m, d, t))
  BY <1>3
<1> HIDE DEF G, S, E, B, M, D, T
<1> QED BY <1>4, <1>5

LEMMA GateInputsAreAny == \A x \in GateInputs : AnyInputs(x)
<1> DEFINE With(w, k, o, y, s, l, t, x, z) ==
             [Healthy EXCEPT !.warm = w, !.skew = k, !.open = o, !.busy = y, !.spread = s,
                             !.slippage = l, !.left10 = t, !.sinceExit = x, !.lossExit = z]
<1>1. GateInputs = {With(w, k, o, y, s, l, t, x, z) :
                      w \in {4, 5}, k \in {NA, 1, -2}, o \in {1, 2}, y \in BOOLEAN, s \in {NA, 5, 6},
                      l \in {NA, 3}, t \in {NA, 2, 3}, x \in {NA, 1, 3}, z \in BOOLEAN}
  BY DEF GateInputs
<1>2. ASSUME NEW w \in Int, NEW k \in Int, NEW o \in Int, NEW y, NEW s \in Int, NEW l \in Int,
             NEW t \in Int, NEW x \in Int, NEW z
      PROVE  AnyInputs(With(w, k, o, y, s, l, t, x, z))
  BY DEF AnyInputs, Healthy, NA
<1>3. \A w \in {4, 5}, k \in {NA, 1, -2}, o \in {1, 2}, y \in BOOLEAN, s \in {NA, 5, 6},
         l \in {NA, 3}, t \in {NA, 2, 3}, x \in {NA, 1, 3}, z \in BOOLEAN :
           AnyInputs(With(w, k, o, y, s, l, t, x, z))
  <2> HIDE DEF With
  <2> TAKE w \in {4, 5}, k \in {NA, 1, -2}, o \in {1, 2}, y \in BOOLEAN, s \in {NA, 5, 6},
           l \in {NA, 3}, t \in {NA, 2, 3}, x \in {NA, 1, 3}, z \in BOOLEAN
  <2>1. /\ w \in Int /\ k \in Int /\ o \in Int /\ s \in Int /\ l \in Int /\ t \in Int /\ x \in Int
    BY DEF NA
  <2> QED BY <1>2, <2>1
<1> DEFINE U == {4, 5}
           K == {NA, 1, -2}
           O == {1, 2}
           S == {NA, 5, 6}
           L == {NA, 3}
           T == {NA, 2, 3}
           X == {NA, 1, 3}
<1> HIDE DEF With
<1>4. GateInputs = {With(w, k, o, y, s, l, t, x, z) : w \in U, k \in K, o \in O, y \in BOOLEAN,
                                                      s \in S, l \in L, t \in T, x \in X, z \in BOOLEAN}
  BY <1>1
<1>5. \A w \in U, k \in K, o \in O, y \in BOOLEAN, s \in S, l \in L, t \in T, x \in X, z \in BOOLEAN :
        AnyInputs(With(w, k, o, y, s, l, t, x, z))
  BY <1>3
<1> HIDE DEF U, K, O, S, L, T, X
<1> QED BY <1>4, <1>5

LEMMA OddInputsAreAny == \A x \in OddInputs : AnyInputs(x)
<1> DEFINE few   == {[Healthy EXCEPT !.kill = TRUE], [Healthy EXCEPT !.reconciled = FALSE],
                     [Healthy EXCEPT !.stale = {"public"}], [Healthy EXCEPT !.leased = TRUE],
                     [Healthy EXCEPT !.pending = 2], [Healthy EXCEPT !.leverage = 10],
                     [Healthy EXCEPT !.filters = NoFilters],
                     [Healthy EXCEPT !.filters.minNotional = 8]}
           slots == {[Healthy EXCEPT !.stratMax = 1, !.stratOpen = n] : n \in {0, 1}}
           left  == {[Healthy EXCEPT !.left10 = a, !.left1m = b] : a, b \in {NA, 2, 3}}
           ban   == {[Healthy EXCEPT !.since429 = a, !.banned = b] : a \in {NA, 1, 2}, b \in BOOLEAN}
           stp   == {[Healthy EXCEPT !.sinceStp = a] : a \in {1, 2}}
<1>1. \A x \in few : AnyInputs(x)
  BY DEF AnyInputs, Healthy, NA
<1>2. \A x \in slots : AnyInputs(x)
  <2>1. ASSUME NEW n \in {0, 1} PROVE AnyInputs([Healthy EXCEPT !.stratMax = 1, !.stratOpen = n])
    BY DEF AnyInputs, Healthy, NA
  <2> QED BY <2>1
<1>3. \A x \in left : AnyInputs(x)
  <2> DEFINE With(a, b) == [Healthy EXCEPT !.left10 = a, !.left1m = b]
  <2>1. ASSUME NEW a \in {NA, 2, 3}, NEW b \in {NA, 2, 3} PROVE AnyInputs(With(a, b))
    BY DEF AnyInputs, Healthy, NA
  <2>2. left = {With(a, b) : a, b \in {NA, 2, 3}}
    OBVIOUS
  <2> HIDE DEF With, left
  <2> QED BY <2>1, <2>2
<1>4. \A x \in ban : AnyInputs(x)
  <2> DEFINE With(a, b) == [Healthy EXCEPT !.since429 = a, !.banned = b]
  <2>1. ASSUME NEW a \in {NA, 1, 2}, NEW b PROVE AnyInputs(With(a, b))
    BY DEF AnyInputs, Healthy, NA
  <2>2. ban = {With(a, b) : a \in {NA, 1, 2}, b \in BOOLEAN}
    OBVIOUS
  <2> HIDE DEF With, ban
  <2> QED BY <2>1, <2>2
<1>5. \A x \in stp : AnyInputs(x)
  BY DEF AnyInputs, Healthy, NA
<1>6. OddInputs = few \cup slots \cup left \cup ban \cup stp
  BY DEF OddInputs
<1> HIDE DEF few, slots, left, ban, stp
<1> QED BY <1>1, <1>2, <1>3, <1>4, <1>5, <1>6

LEMMA IntentsAreAny == Intent \subseteq AnyIntent
<1>1. {7, 10} \subseteq Nat /\ {1, 2} \subseteq Nat \ {0}
  OBVIOUS
<1> QED BY <1>1, Zenon DEF Intent, AnyIntent

LEMMA QuestionsAre == \A u \in Questions : RiskQuestion(u)
<1> DEFINE Posed(i, x) == [intent |-> i, inputs |-> x]
<1>1. ASSUME NEW i \in Intent, NEW x \in CapInputs \cup GateInputs \cup OddInputs
      PROVE  RiskQuestion(Posed(i, x))
  <2>1. AnyInputs(x)
    BY CapInputsAreAny, GateInputsAreAny, OddInputsAreAny
  <2>2. i \in AnyIntent
    BY IntentsAreAny
  <2> QED BY <2>1, <2>2 DEF RiskQuestion
<1>2. Questions = {Posed(i, x) : i \in Intent, x \in CapInputs \cup GateInputs \cup OddInputs}
  BY DEF Questions
<1> HIDE DEF Posed
<1> QED BY <1>1, <1>2

(* Whoever asks the risk engine has put a question, and the answer is what *)
(* it says to it; who follows the account asks nothing.                    *)
AnswerInv ==
  /\ question = Unanswered \/ RiskQuestion(question)
  /\ \/ answer = Unanswered
     \/ RiskQuestion(question) /\ answer = Assess(question.intent, question.inputs, AllChecks)

LEMMA AnswerStarts == AllInit => AnswerInv
<1> SUFFICES ASSUME AllInit PROVE AnswerInv
  OBVIOUS
<1>1. AccInit \/ AccRest
  BY Zenon DEF AllInit
<1>2. question \in Questions \cup {Unanswered} /\ answer = Unanswered
  BY <1>1, Zenon DEF AccInit, AccRest, AccEmpty
<1> QED BY <1>2, QuestionsAre DEF AnswerInv

LEMMA AnswerSteps ==
  ASSUME AnswerInv, [AllNext]_allVars
  PROVE  AnswerInv'
<1>1. CASE AnswerRisk
  <2>1. /\ question # Unanswered /\ question' = question
        /\ answer' = Assess(question.intent, question.inputs, AllChecks)
    BY <1>1, Zenon DEF AnswerRisk
  <2> QED BY <2>1, Zenon DEF AnswerInv
<1>2. CASE AccountStep
  <2>1. question' = question /\ answer' = answer
    BY <1>2, Zenon DEF AccountStep, LetIn, FillIn, GivenUp, TimeUp, SellPart, askVars
  <2> QED BY <2>1, Zenon DEF AnswerInv
<1>3. CASE UNCHANGED riskVars
  <2>1. question' = question /\ answer' = answer
    BY <1>3, Zenon DEF riskVars, askVars
  <2> QED BY <2>1, Zenon DEF AnswerInv
<1> QED BY <1>1, <1>2, <1>3, Zenon DEF AllNext, allVars, AccNext

LEMMA AnswerInvariant == AllSpec => []AnswerInv
<1> QED BY AnswerStarts, AnswerSteps, PTL DEF AllSpec

LEMMA KindsOfAnswers ==
  ASSUME AnswerInv, answer.kind \in {"APPROVE", "RESIZE", "REJECT"}
  PROVE  RiskQuestion(question) /\ answer = Assess(question.intent, question.inputs, AllChecks)
<1>1. answer # Unanswered
  BY DEF Unanswered
<1> QED BY <1>1, Zenon DEF AnswerInv

(* Every answer of the risk engine (risk.py: assess) that a behaviour sees *)
(* is sound in that sense: an entry that passes has every gate open and is *)
(* within every limit, and none that is within them is refused or cut.     *)
THEOREM RiskHolds == AllSpec => []RiskSound
<1>1. AnswerInv => RiskSound
  <2> SUFFICES ASSUME AnswerInv, answer.kind \in {"APPROVE", "RESIZE", "REJECT"}
               PROVE  RiskSound
    BY Zenon DEF RiskSound
  <2>1. /\ RiskQuestion(question)
        /\ answer = Assess(question.intent, question.inputs, AllChecks)
    BY KindsOfAnswers
  <2>2. question.intent \in AnyIntent /\ AnyInputs(question.inputs)
    BY <2>1 DEF RiskQuestion
  <2> QED BY <2>1, <2>2, ConfigIsAny, RiskIsExact, Zenon DEF RiskSound
<1> QED BY <1>1, AnswerInvariant, PTL

-----------------------------------------------------------------------------
(* A set of numbers shifted by d. *)
Shifted(S, d) == {x + d : x \in S}

LEMMA ShiftedCount ==
  ASSUME NEW S \in SUBSET Int, IsFiniteSet(S), NEW d \in Int
  PROVE  Cardinality(Shifted(S, d)) = Cardinality(S)
<1> DEFINE f == [x \in S |-> x + d]
<1>1. f \in Bijection(S, Shifted(S, d))
  <2>1. f \in [S -> Shifted(S, d)]
    BY DEF Shifted
  <2>2. \A x, y \in S : f[x] = f[y] => x = y
    OBVIOUS
  <2>3. \A t \in Shifted(S, d) : \E x \in S : f[x] = t
    BY DEF Shifted
  <2> QED
    BY <2>1, <2>2, <2>3 DEF Bijection, Injection, IsInjective, Surjection
<1>2. ExistsBijection(S, Shifted(S, d))
  BY <1>1 DEF ExistsBijection
<1> QED
  BY <1>2, FS_Bijection

(* The percentile of the last value of a series depends on the last W + 1. *)
LEMMA RollingShifts ==
  ASSUME NEW f, NEW g, NEW m \in Nat, NEW d \in Nat, m > W,
         \A j \in (m - W)..m : f[j] = g[j + d]
  PROVE  RollingPct(f, m) = RollingPct(g, m + d)
<1> DEFINE n == m + d
           wf == (m - W)..(m - 1)
           wg == (n - W)..(n - 1)
           sf == {j \in wf : f[j] <= f[m]}
           sg == {j \in wg : g[j] <= g[n]}
<1>1. W \in Nat \ {0} /\ n \in Nat /\ n > W /\ m - W \in Nat
  BY ResAssumption
<1>2. f[m] = g[n] /\ m \in (m - W)..m
  BY <1>1
<1>3. \A j \in wf : j + d \in wg /\ f[j] = g[j + d] /\ j \in Int
  BY <1>1
<1>4. \A j \in wg : j - d \in wf /\ (j - d) + d = j /\ f[j - d] = g[j]
  BY <1>1
<1>5. sg = Shifted(sf, d)
  <2>1. ASSUME NEW j \in sf PROVE j + d \in sg
    BY <1>2, <1>3
  <2>2. ASSUME NEW j \in sg PROVE j - d \in sf /\ (j - d) + d = j
    BY <1>2, <1>4
  <2>3. sg \subseteq Shifted(sf, d)
    BY <2>2 DEF Shifted
  <2>4. Shifted(sf, d) \subseteq sg
    BY <2>1 DEF Shifted
  <2> QED
    BY <2>3, <2>4
<1>6. Cardinality(sg) = Cardinality(sf)
  <2>1. IsFiniteSet(wf)
    BY <1>1, FS_Interval
  <2>2. sf \in SUBSET Int /\ IsFiniteSet(sf)
    BY <1>1, <2>1, FS_Subset
  <2> HIDE DEF sf, sg
  <2> QED
    BY <1>5, <2>2, ShiftedCount
<1>7. (\E j \in wf : f[j] = NA) <=> (\E j \in wg : g[j] = NA)
  BY <1>3, <1>4
<1>8. (\A j \in wf : f[j] = f[m]) <=> (\A j \in wg : g[j] = g[n])
  BY <1>2, <1>3, <1>4
<1>9. ~(m <= W) /\ ~(n <= W)
  BY <1>1
<1> DEFINE Pct(r) == IF r * 100 < PLo * W THEN "lo" ELSE IF r * 100 > PHi * W THEN "hi" ELSE "mid"
<1>10. RollingPct(f, m) = IF f[m] = NA \/ (\E j \in wf : f[j] = NA) \/ (\A j \in wf : f[j] = f[m])
                          THEN "none" ELSE Pct(Cardinality(sf))
  BY <1>9, Zenon DEF RollingPct
<1>11. RollingPct(g, n) = IF g[n] = NA \/ (\E j \in wg : g[j] = NA) \/ (\A j \in wg : g[j] = g[n])
                          THEN "none" ELSE Pct(Cardinality(sg))
  BY <1>9, Zenon DEF RollingPct
<1> HIDE DEF wf, wg, sf, sg, Pct
<1> QED
  BY <1>2, <1>6, <1>7, <1>8, <1>10, <1>11

(* What the engine kept is the end of the recording. *)
LabelBars == [close : {1, 2}, vol : {1, 2}]
KeptIsEnd ==
  /\ tape \in Seq(LabelBars) /\ kept \in Seq(LabelBars)
  /\ Len(kept) = Lesser(Keep, Len(tape))
  /\ \A k \in 1..Len(kept) : kept[k] = tape[k + (Len(tape) - Len(kept))]

LEMMA KeepIs == Keep \in Nat \ {0} /\ Keep = 2 * W + NLong + 2
BY ResAssumption DEF Keep

LEMMA KeptStays ==
  ASSUME KeptIsEnd, NEW b \in LabelBars, tape' = Append(tape, b), OnBarKept(b)
  PROVE  KeptIsEnd'
<1> DEFINE all == Append(kept, b)
           n == Len(tape)
           m == Len(kept)
<1>1. /\ n \in Nat /\ m \in Nat /\ m <= n /\ m = IF Keep < n THEN Keep ELSE n
      /\ tape \in Seq(LabelBars) /\ kept \in Seq(LabelBars)
      /\ \A k \in 1..m : kept[k] = tape[k + (n - m)]
  BY KeepIs DEF KeptIsEnd, Lesser
<1>2. /\ tape' \in Seq(LabelBars) /\ Len(tape') = n + 1 /\ tape'[n + 1] = b
      /\ \A k \in 1..n : tape'[k] = tape[k]
  BY <1>1
<1>3. /\ all \in Seq(LabelBars) /\ Len(all) = m + 1
      /\ \A k \in 1..(m + 1) : all[k] = tape'[k + (n - m)]
  <2>1. all \in Seq(LabelBars) /\ Len(all) = m + 1 /\ all[m + 1] = b /\ \A k \in 1..m : all[k] = kept[k]
    BY <1>1
  <2>2. ASSUME NEW k \in 1..(m + 1) PROVE all[k] = tape'[k + (n - m)]
    <3>1. CASE k = m + 1
      BY <1>1, <1>2, <2>1, <3>1
    <3>2. CASE k # m + 1
      <4>1. k \in 1..m /\ k + (n - m) \in 1..n
        BY <1>1, <3>2
      <4> QED
        BY <1>1, <1>2, <2>1, <4>1
    <3> QED
      BY <3>1, <3>2
  <2> QED
    BY <2>1, <2>2
<1>4. kept' = IF Len(all) > Keep THEN SubSeq(all, Len(all) - Keep + 1, Len(all)) ELSE all
  BY DEF OnBarKept
<1> HIDE DEF all, n, m
<1>5. CASE m + 1 > Keep
  <2>0. m = Keep /\ Keep \in Nat \ {0}
    BY <1>1, <1>5, KeepIs
  <2>1. kept' = SubSeq(all, 2, m + 1)
    <3>2. Len(all) = Keep + 1
      BY <1>3, <2>0
    <3>1. Len(all) - Keep + 1 = 2 /\ Len(all) > Keep
      BY <2>0, <3>2
    <3> QED
      BY <1>3, <1>4, <3>1
  <2>2. /\ kept' \in Seq(LabelBars) /\ Len(kept') = m
        /\ \A k \in 1..m : kept'[k] = all[k + 1]
    BY <1>1, <1>3, <2>1
  <2>3. Lesser(Keep, n + 1) = m
    BY <1>1, <2>0 DEF Lesser
  <2>4. \A k \in 1..m : kept'[k] = tape'[k + ((n + 1) - m)]
    <3> TAKE k \in 1..m
    <3>1. k + 1 \in 1..(m + 1) /\ (k + 1) + (n - m) = k + ((n + 1) - m)
      <4>1. k \in Nat /\ m \in Nat /\ n \in Nat /\ 1 <= k /\ k <= m
        BY <1>1
      <4> QED
        BY <4>1
    <3>2. all[k + 1] = tape'[(k + 1) + (n - m)]
      BY <1>3, <3>1
    <3> QED
      BY <2>2, <3>1, <3>2
  <2> QED
    BY <1>2, <2>2, <2>3, <2>4, KeepIs DEF KeptIsEnd
<1>6. CASE ~(m + 1 > Keep)
  <2>1. kept' = all /\ m = n /\ Lesser(Keep, n + 1) = n + 1
    BY <1>1, <1>3, <1>4, <1>6, KeepIs DEF Lesser
  <2>2. \A k \in 1..(m + 1) : kept'[k] = tape'[k + ((n + 1) - (m + 1))]
    <3> TAKE k \in 1..(m + 1)
    <3>1. k + ((n + 1) - (m + 1)) = k + (n - m)
      BY <1>1
    <3> QED
      BY <1>3, <2>1, <3>1
  <2> QED
    BY <1>1, <1>2, <1>3, <2>1, <2>2, KeepIs DEF KeptIsEnd
<1> QED
  BY <1>5, <1>6

-----------------------------------------------------------------------------
(* The features of a bar depend on the bars of their windows. *)
Moves(b, c, k, j, d, e) == e = j + d /\ \A i \in (j - k)..j : b[i] = c[i + d]

LEMMA RvShifts ==
  ASSUME NEW b, NEW c, NEW j \in Nat, NEW d \in Nat, NEW n \in Nat \ {0}, j > n,
         NEW e, Moves(b, c, n, j, d, e)
  PROVE  Rv(b, j, n) = Rv(c, e, n)
<1>0. e = j + d /\ \A i \in (j - n)..j : b[i] = c[i + d]
  BY DEF Moves
<1> DEFINE wb == (j - n + 1)..j
           wc == (j + d - n + 1)..(j + d)
           sb == {i \in wb : b[i].close # b[i - 1].close}
           sc == {i \in wc : c[i].close # c[i - 1].close}
<1>1. ~(j <= n) /\ ~(j + d <= n)
  OBVIOUS
<1>2. Rv(b, j, n) = Cardinality(sb) /\ Rv(c, j + d, n) = Cardinality(sc)
  BY <1>1 DEF Rv
<1>3. \A i \in wb : i + d \in wc /\ b[i] = c[i + d] /\ b[i - 1] = c[(i + d) - 1]
  <2> TAKE i \in wb
  <2>1. i \in (j - n)..j /\ i - 1 \in (j - n)..j /\ (i - 1) + d = (i + d) - 1
    OBVIOUS
  <2>2. b[i - 1] = c[(i - 1) + d] /\ b[i] = c[i + d]
    BY <1>0, <2>1
  <2> QED
    BY <2>1, <2>2
<1>4. \A i \in wc : i - d \in wb /\ (i - d) + d = i
  OBVIOUS
<1>5. sc = Shifted(sb, d)
  <2>1. ASSUME NEW i \in sb PROVE i + d \in sc
    BY <1>3
  <2>2. ASSUME NEW i \in sc PROVE i - d \in sb /\ (i - d) + d = i
    BY <1>3, <1>4
  <2> HIDE DEF sb, sc
  <2> QED
    BY <2>1, <2>2 DEF Shifted
<1>6. sb \in SUBSET Int /\ IsFiniteSet(sb)
  <2>1. IsFiniteSet(wb)
    BY FS_Interval
  <2> QED
    BY <2>1, FS_Subset
<1> HIDE DEF sb, sc
<1>7. Cardinality(sb) = Cardinality(sc)
  BY <1>5, <1>6, ShiftedCount
<1> QED
  BY <1>0, <1>2, <1>7

LEMMA VolShifts ==
  ASSUME NEW b, NEW c, NEW j \in Nat, NEW d \in Nat, j > W,
         NEW e, Moves(b, c, W, j, d, e)
  PROVE  VolRatio(b, j) = VolRatio(c, e)
<1>0. e = j + d /\ \A i \in (j - W)..j : b[i] = c[i + d]
  BY DEF Moves
<1> DEFINE vb == [i \in 1..W |-> b[j - i].vol]
           vc == [i \in 1..W |-> c[(j + d) - i].vol]
<1>1. W \in Nat \ {0} /\ ~(j <= W) /\ ~(j + d <= W)
  BY ResAssumption
<1>2. \A i \in 1..W : b[j - i] = c[(j + d) - i]
  <2> TAKE i \in 1..W
  <2>1. j - i \in (j - W)..j /\ (j - i) + d = (j + d) - i
    BY <1>1
  <2>2. b[j - i] = c[(j - i) + d]
    BY <1>0, <2>1
  <2> QED
    BY <2>1, <2>2
<1>3. vb = vc
  BY <1>2
<1>4. b[j] = c[j + d]
  BY <1>0, <1>1
<1>5. VolRatio(b, j) = (12 * W * b[j].vol) \div TotalOf(vb)
  BY <1>1 DEF VolRatio
<1>6. VolRatio(c, j + d) = (12 * W * c[j + d].vol) \div TotalOf(vc)
  BY <1>1 DEF VolRatio
<1> HIDE DEF vb, vc
<1> QED
  BY <1>0, <1>3, <1>4, <1>5, <1>6

LEMMA FeaturesShift ==
  ASSUME NEW b, NEW c, NEW m \in Nat, NEW d \in Nat, m >= 2 * W + NLong + 2,
         NEW n, NEW l, l = m - 1, Moves(b, c, l, m, d, n)
  PROVE  FeaturesAt(b, m) = FeaturesAt(c, n)
<1>0. n = m + d /\ \A j \in 1..m : b[j] = c[j + d]
  BY DEF Moves
<1> DEFINE SameEnds(f, g) == \A j \in (m - W)..m : f[j] = g[j + d]
<1>1. /\ W \in Nat \ {0} /\ NLong \in Nat \ {0} /\ NShort \in Nat \ {0} /\ NShort <= W + NLong + 1
      /\ m > W /\ \A j \in (m - W)..m : j \in Nat /\ j \in 1..m /\ j > NLong /\ j > NShort /\ j > W /\ j + d \in 1..n
  BY <1>0, ResAssumption
<1>2. ASSUME NEW f, NEW g, SameEnds(f, g)
      PROVE  RollingPct(f, m) = RollingPct(g, n)
  BY <1>0, <1>1, <1>2, RollingShifts
<1>3. SameEnds([j \in 1..m |-> Ret(b, j, NLong)], [j \in 1..n |-> Ret(c, j, NLong)])
  <2> SUFFICES ASSUME NEW j \in (m - W)..m PROVE Ret(b, j, NLong) = Ret(c, j + d, NLong)
    BY <1>1
  <2>1. j - NLong \in 1..m /\ (j - NLong) + d = (j + d) - NLong /\ ~(j <= NLong) /\ ~(j + d <= NLong)
        /\ j \in 1..m
    BY <1>1
  <2>2. b[j] = c[j + d] /\ b[j - NLong] = c[(j + d) - NLong]
    BY <1>0, <2>1
  <2> QED
    BY <2>1, <2>2 DEF Ret
<1>4. ASSUME NEW k \in Nat \ {0}, k <= W + NLong + 1
      PROVE  SameEnds([j \in 1..m |-> Rv(b, j, k)], [j \in 1..n |-> Rv(c, j, k)])
  <2> SUFFICES ASSUME NEW j \in (m - W)..m PROVE Rv(b, j, k) = Rv(c, j + d, k)
    BY <1>1
  <2>1. j \in Nat /\ j > k /\ \A i \in (j - k)..j : i \in 1..m
    BY <1>1, <1>4
  <2> DEFINE e == j + d
  <2>2. Moves(b, c, k, j, d, e)
    BY <1>0, <2>1 DEF Moves
  <2> HIDE DEF e
  <2>3. Rv(b, j, k) = Rv(c, e, k)
    BY <2>1, <2>2, RvShifts
  <2> QED
    BY <2>3 DEF e
<1>5. SameEnds([j \in 1..m |-> VolRatio(b, j)], [j \in 1..n |-> VolRatio(c, j)])
  <2> SUFFICES ASSUME NEW j \in (m - W)..m PROVE VolRatio(b, j) = VolRatio(c, j + d)
    BY <1>1
  <2>1. j \in Nat /\ j > W /\ \A i \in (j - W)..j : i \in 1..m
    BY <1>1
  <2> DEFINE e == j + d
  <2>2. Moves(b, c, W, j, d, e)
    BY <1>0, <2>1 DEF Moves
  <2> HIDE DEF e
  <2>3. VolRatio(b, j) = VolRatio(c, e)
    BY <2>1, <2>2, VolShifts
  <2> QED
    BY <2>3 DEF e
<1> HIDE DEF SameEnds
<1>7. RollingPct([j \in 1..m |-> Ret(b, j, NLong)], m) = RollingPct([j \in 1..n |-> Ret(c, j, NLong)], n)
  BY <1>2, <1>3
<1>8. RollingPct([j \in 1..m |-> Rv(b, j, NLong)], m) = RollingPct([j \in 1..n |-> Rv(c, j, NLong)], n)
  <2>1. SameEnds([j \in 1..m |-> Rv(b, j, NLong)], [j \in 1..n |-> Rv(c, j, NLong)])
    BY <1>1, <1>4
  <2> QED
    BY <1>2, <2>1
<1>9. RollingPct([j \in 1..m |-> Rv(b, j, NShort)], m) = RollingPct([j \in 1..n |-> Rv(c, j, NShort)], n)
  <2>1. SameEnds([j \in 1..m |-> Rv(b, j, NShort)], [j \in 1..n |-> Rv(c, j, NShort)])
    BY <1>1, <1>4
  <2> QED
    BY <1>2, <2>1
<1>10. RollingPct([j \in 1..m |-> VolRatio(b, j)], m) = RollingPct([j \in 1..n |-> VolRatio(c, j)], n)
  BY <1>2, <1>5
<1> QED
  BY <1>7, <1>8, <1>9, <1>10 DEF FeaturesAt

(* The engine labels a bar as the study labels it. *)
LEMMA LabelsAreTheSame == KeptIsEnd => LabelsAgree
<1> SUFFICES ASSUME KeptIsEnd PROVE LabelsAgree
  OBVIOUS
<1> DEFINE n == Len(tape)
           m == Len(kept)
           d == n - m
<1>1. /\ n \in Nat /\ m \in Nat /\ m <= n /\ d \in Nat /\ m = IF Keep < n THEN Keep ELSE n
      /\ tape \in Seq(LabelBars) /\ kept \in Seq(LabelBars)
      /\ \A k \in 1..m : kept[k] = tape[k + d]
  BY KeepIs DEF KeptIsEnd, Lesser
<1> HIDE DEF n, m, d
<1>2. n = Len(tape) /\ m = Len(kept) /\ d = n - m /\ m + d = n
  BY <1>1 DEF n, m, d
<1>3. CASE d = 0
  <2>1. \A k \in 1..m : kept[k] = tape[k]
    BY <1>1, <1>3
  <2>2. kept = tape
    BY <1>1, <1>2, <1>3, <2>1, SeqEqual
  <2> QED
    BY <2>2 DEF LabelsAgree
<1>4. CASE d # 0
  <2>1. m >= 2 * W + NLong + 2
    BY <1>1, <1>2, <1>4, KeepIs
  <2> DEFINE l == m - 1
  <2>2. Moves(kept, tape, l, m, d, n) /\ l = m - 1
    BY <1>1, <1>2 DEF Moves
  <2>3. FeaturesAt(kept, m) = FeaturesAt(tape, n)
    BY <1>1, <2>1, <2>2, FeaturesShift
  <2> QED
    BY <1>2, <2>3, Zenon DEF LabelsAgree
<1> QED
  BY <1>3, <1>4

(* The beginnings of the recording. *)
LEMMA BeginningIs ==
  ASSUME NEW X, tape \in Seq(X), NEW b \in Beginnings
  PROVE  \E l \in 1..Len(tape) : /\ b = SubSeq(tape, 1, l) /\ b \in Seq(X) /\ Len(b) = l
                                 /\ \A k \in 1..l : b[k] = tape[k]
<1>1. PICK l \in 0..Len(tape) : b = SubSeq(tape, 1, l)
  BY DEF Beginnings, Prefixes
<1>2. b # << >>
  BY DEF Beginnings
<1>3. b \in Seq(X) /\ Len(b) = l /\ \A k \in 1..l : b[k] = tape[k]
  BY <1>1
<1>4. l # 0
  BY <1>2, <1>3
<1> QED
  BY <1>1, <1>3, <1>4

-----------------------------------------------------------------------------
(* forward_samples. *)
Take(b, h, a, i) ==
  IF i \in Candidates(b, h) /\ \A j \in a : i >= j + h THEN a \cup {i} ELSE a
Takes(f, b, h) ==
  /\ f \in [0..Len(b) -> SUBSET (1..Len(b))] /\ f[0] = {}
  /\ \A i \in 1..Len(b) : f[i] = Take(b, h, f[i - 1], i)

LEMMA SamplesAre ==
  ASSUME NEW X, NEW b \in Seq(X), NEW h
  PROVE  \E f : Takes(f, b, h) /\ ForwardSamples(b, h) = f[Len(b)]
<1> DEFINE n == Len(b)
           S == SUBSET (1..n)
           step == [i \in 1..n |-> [a \in S |-> Take(b, h, a, i)]]
           Is(g) == g = [i \in 0..n |-> IF i = 0 THEN {} ELSE Take(b, h, g[i - 1], i)]
           e == {}
<1>1. /\ e \in S
      /\ n \in Nat
  OBVIOUS
<1>2. \A i \in 1..n, a \in S : Take(b, h, a, i) \in S
  BY DEF Take
<1>3. \A i \in 1..n, a \in S : step[i][a] = Take(b, h, a, i)
  OBVIOUS
<1>3a. step \in [1..n -> [S -> S]]
  BY <1>2
<1> HIDE DEF step, S, e, n
<1>4. PICK f \in [0..n -> S] : f[0] = e /\ \A i \in 1..n : f[i] = step[i][f[i - 1]]
  <2>1. \E f : Loops(f, S, e, n, step)
    BY <1>1, <1>3a, LoopExists
  <2> QED
    BY <2>1 DEF Loops
<1>5. \A i \in 1..n : f[i] = Take(b, h, f[i - 1], i)
  <2> TAKE i \in 1..n
  <2>1. f[i - 1] \in S
    BY <1>1, <1>4
  <2> QED
    BY <1>3, <1>4, <2>1
<1>6. Is(f)
  <2>1. \A i \in 0..n : f[i] = IF i = 0 THEN {} ELSE Take(b, h, f[i - 1], i)
    <3> TAKE i \in 0..n
    <3>1. CASE i = 0
      BY <1>4, <3>1 DEF e
    <3>2. CASE i # 0
      <4>1. i \in 1..n
        BY <1>1, <3>2
      <4> QED
        BY <1>5, <3>2, <4>1
    <3> QED
      BY <3>1, <3>2
  <2> QED
    BY <1>4, <2>1
<1>7. ASSUME NEW g, Is(g) PROVE g[n] = f[n]
  <2>1. g[0] = f[0]
    BY <1>1, <1>4, <1>7 DEF e
  <2>2. ASSUME NEW i \in 1..n, g[i - 1] = f[i - 1] PROVE g[i] = f[i]
    <3>1. i \in 0..n /\ i # 0
      BY <1>1
    <3>2. g[i] = Take(b, h, g[i - 1], i)
      BY <1>7, <3>1
    <3> QED
      BY <1>5, <2>2, <3>2
  <2>3. \A i \in 0..n : g[i] = f[i]
    BY <1>1, <2>1, <2>2, SameLoop DEF SameSteps
  <2> QED
    BY <1>1, <2>3
<1>8. ForwardSamples(b, h) = f[n]
  <2>1. ForwardSamples(b, h) = (CHOOSE g : Is(g))[n]
    BY Zenon DEF ForwardSamples, Take, n
  <2>2. Is(CHOOSE g : Is(g))
    BY <1>6, Zenon
  <2> HIDE DEF Is
  <2> QED
    BY <1>7, <2>1, <2>2
<1> QED
  BY <1>4, <1>5, <1>8 DEF Takes, n, S, e

(* What is taken of the first i bars. *)
TakenOK(b, h, a, i) ==
  /\ \A j \in a : j \in 1..i /\ j \in Candidates(b, h)
  /\ \A j, k \in a : j # k => (j >= k + h \/ k >= j + h)
  /\ \A j \in Candidates(b, h) : j <= i /\ j \notin a => \E k \in a : k < j /\ j < k + h

LEMMA TakesOK ==
  ASSUME NEW X, NEW b \in Seq(X), NEW h \in Nat \ {0}, NEW f, Takes(f, b, h)
  PROVE  /\ \A i \in 0..Len(b) : TakenOK(b, h, f[i], i)
         /\ \A i \in 0..Len(b), k \in 0..Len(b) : k <= i => f[k] = {j \in f[i] : j <= k}
<1> DEFINE n == Len(b)
           T == {i \in Nat : i <= n => /\ TakenOK(b, h, f[i], i)
                                       /\ \A k \in 0..i : f[k] = {j \in f[i] : j <= k}}
<1>0. Candidates(b, h) \subseteq Int /\ \A i \in Candidates(b, h) : i \in 1..Len(b)
  BY DEF Candidates
<1>1. 0 \in T
  <2>1. f[0] = {} /\ \A j \in Candidates(b, h) : ~(j <= 0)
    BY <1>0 DEF Takes
  <2>2. TakenOK(b, h, f[0], 0)
    BY <2>1 DEF TakenOK
  <2>3. \A k \in 0..0 : k = 0 /\ f[k] = {j \in f[0] : j <= k}
    BY <2>1
  <2> QED
    BY <2>2, <2>3
<1>2. ASSUME NEW i \in T PROVE i + 1 \in T
  <2>1. i \in Nat
    OBVIOUS
  <2> SUFFICES ASSUME i + 1 <= n
               PROVE  /\ TakenOK(b, h, f[i + 1], i + 1)
                      /\ \A k \in 0..(i + 1) : f[k] = {j \in f[i + 1] : j <= k}
    OBVIOUS
  <2>2. i + 1 \in 1..n /\ (i + 1) - 1 = i
    BY <2>1
  <2>3. TakenOK(b, h, f[i], i) /\ \A k \in 0..i : f[k] = {j \in f[i] : j <= k}
    BY <2>1
  <2>4. f[i + 1] = Take(b, h, f[i], i + 1)
    BY <2>2 DEF Takes
  <2>5. \A j \in f[i] : j \in 1..i /\ j \in Candidates(b, h)
    BY <2>3 DEF TakenOK
  <2>6. CASE i + 1 \in Candidates(b, h) /\ \A j \in f[i] : i + 1 >= j + h
    <3>1. f[i + 1] = f[i] \cup {i + 1}
      BY <2>4, <2>6 DEF Take
    <3>2. TakenOK(b, h, f[i + 1], i + 1)
      <4>1. \A j \in f[i + 1] : j \in 1..(i + 1) /\ j \in Candidates(b, h)
        BY <2>1, <2>5, <2>6, <3>1
      <4>2. ASSUME NEW j \in f[i + 1], NEW k \in f[i + 1], j # k PROVE j >= k + h \/ k >= j + h
        BY <2>3, <2>5, <2>6, <3>1, <4>2 DEF TakenOK
      <4>3. ASSUME NEW j \in Candidates(b, h), j <= i + 1, j \notin f[i + 1]
            PROVE  \E k \in f[i + 1] : k < j /\ j < k + h
        <5>1. j \in Int /\ j # i + 1 /\ j \notin f[i]
          BY <1>0, <3>1, <4>3
        <5>2. j <= i
          BY <2>1, <4>3, <5>1
        <5> QED
          BY <2>3, <3>1, <5>1, <5>2 DEF TakenOK
      <4> QED
        BY <4>1, <4>2, <4>3 DEF TakenOK
    <3>3. ASSUME NEW k \in 0..(i + 1) PROVE f[k] = {j \in f[i + 1] : j <= k}
      <4>1. CASE k = i + 1
        BY <2>1, <2>5, <3>1, <4>1
      <4>2. CASE k # i + 1
        <5>1. k \in 0..i /\ ~(i + 1 <= k)
          BY <2>1, <4>2
        <5> QED
          BY <2>3, <3>1, <5>1
      <4> QED
        BY <4>1, <4>2
    <3> QED
      BY <3>2, <3>3
  <2>7. CASE ~(i + 1 \in Candidates(b, h) /\ \A j \in f[i] : i + 1 >= j + h)
    <3>1. f[i + 1] = f[i]
      BY <2>4, <2>7 DEF Take
    <3>2. TakenOK(b, h, f[i + 1], i + 1)
      <4>1. \A j \in f[i + 1] : j \in 1..(i + 1) /\ j \in Candidates(b, h)
        BY <2>1, <2>5, <3>1
      <4>3. ASSUME NEW j \in Candidates(b, h), j <= i + 1, j \notin f[i + 1]
            PROVE  \E k \in f[i + 1] : k < j /\ j < k + h
        <5>1. j \in Int
          BY <1>0
        <5>2. CASE j <= i
          BY <2>3, <3>1, <4>3, <5>2 DEF TakenOK
        <5>3. CASE j = i + 1
          <6>1. PICK k \in f[i] : ~(i + 1 >= k + h)
            BY <2>7, <5>3
          <6> QED
            BY <2>1, <2>5, <3>1, <5>3, <6>1
        <5> QED
          BY <2>1, <4>3, <5>1, <5>2, <5>3
      <4> QED
        BY <2>3, <3>1, <4>1, <4>3 DEF TakenOK
    <3>3. ASSUME NEW k \in 0..(i + 1) PROVE f[k] = {j \in f[i + 1] : j <= k}
      <4>1. CASE k = i + 1
        BY <2>1, <2>5, <3>1, <4>1
      <4>2. CASE k # i + 1
        <5>1. k \in 0..i
          BY <2>1, <4>2
        <5> QED
          BY <2>3, <3>1, <5>1
      <4> QED
        BY <4>1, <4>2
    <3> QED
      BY <3>2, <3>3
  <2> QED
    BY <2>6, <2>7
<1>3. T = Nat
  <2>1. T \in SUBSET Nat
    OBVIOUS
  <2> HIDE DEF T
  <2> QED
    BY <1>1, <1>2, <2>1, Induct
<1> QED
  BY <1>3

LEMMA SamplesAreExact ==
  ASSUME NEW X, tape \in Seq(X)
  PROVE  SamplesExact
<1> SUFFICES ASSUME NEW h \in Horizons
             PROVE  LET taken == ForwardSamples(tape, h)
                    IN /\ \A i, j \in taken : i # j => (i >= j + h \/ j >= i + h)
                       /\ \A i \in Candidates(tape, h) \ taken : \E j \in taken : j < i /\ i < j + h
                       /\ \A b \in Beginnings : ForwardSamples(b, h) = {i \in taken : i + h <= Len(b)}
  BY DEF SamplesExact
<1> DEFINE n == Len(tape)
<1>1. n \in Nat /\ h \in Nat \ {0}
  BY ResAssumption
<1>2. PICK f : Takes(f, tape, h) /\ ForwardSamples(tape, h) = f[n]
  BY <1>1, SamplesAre
<1>3. /\ \A i \in 0..n : TakenOK(tape, h, f[i], i)
      /\ \A i \in 0..n, k \in 0..n : k <= i => f[k] = {j \in f[i] : j <= k}
  BY <1>1, <1>2, TakesOK
<1>4. TakenOK(tape, h, f[n], n)
  BY <1>1, <1>3
<1>5. \A i \in Candidates(tape, h) : i \in 1..n /\ i + h <= n
  BY DEF Candidates
<1>6. ASSUME NEW b \in Beginnings
      PROVE  ForwardSamples(b, h) = {i \in f[n] : i + h <= Len(b)}
  <2>1. PICK l \in 1..n : b \in Seq(X) /\ Len(b) = l /\ \A k \in 1..l : b[k] = tape[k]
    BY BeginningIs
  <2>2. PICK g : Takes(g, b, h) /\ ForwardSamples(b, h) = g[l]
    BY <2>1, SamplesAre
  <2>3. \A i \in Candidates(b, h) : i \in 1..l /\ i + h <= l /\ i \in Candidates(tape, h)
    <3> TAKE i \in Candidates(b, h)
    <3>1. i \in 1..l /\ i + h <= l /\ b[i].label = "S1" /\ b[i + h].t - b[i].t = h
      BY <2>1 DEF Candidates
    <3>2. i + h \in 1..l /\ i \in DOMAIN tape /\ i + h <= n
      BY <1>1, <3>1
    <3> QED
      BY <2>1, <3>1, <3>2 DEF Candidates
  <2>4. \A i \in Candidates(tape, h) : i + h <= l => i \in Candidates(b, h)
    <3> TAKE i \in Candidates(tape, h)
    <3> SUFFICES ASSUME i + h <= l PROVE i \in Candidates(b, h)
      OBVIOUS
    <3>1. i \in 1..n /\ tape[i].label = "S1" /\ tape[i + h].t - tape[i].t = h
      BY <1>1 DEF Candidates
    <3>2. i \in 1..l /\ i + h \in 1..l /\ i \in DOMAIN b
      BY <1>1, <2>1, <3>1
    <3> QED
      BY <2>1, <3>1, <3>2 DEF Candidates
  <2> DEFINE T == {i \in Nat : i <= l => g[i] = {j \in f[i] : j + h <= l}}
  <2>5. 0 \in T
    BY <1>2, <2>2 DEF Takes
  <2>6. ASSUME NEW i \in T PROVE i + 1 \in T
    <3>0. i \in Nat
      OBVIOUS
    <3> SUFFICES ASSUME i + 1 <= l PROVE g[i + 1] = {j \in f[i + 1] : j + h <= l}
      OBVIOUS
    <3>1. i + 1 \in 1..l /\ i + 1 \in 1..n /\ i \in 0..n /\ (i + 1) - 1 = i
      BY <1>1, <2>1, <3>0
    <3>2. /\ g[i + 1] = Take(b, h, g[i], i + 1) /\ f[i + 1] = Take(tape, h, f[i], i + 1)
          /\ g[i] = {j \in f[i] : j + h <= l}
      BY <1>2, <2>1, <2>2, <3>1 DEF Takes
    <3>3. \A j \in f[i] : j \in 1..i
      BY <1>3, <3>1 DEF TakenOK
    <3>4. CASE (i + 1) + h <= l
      <4>1. g[i] = f[i]
        BY <1>1, <2>1, <3>0, <3>2, <3>3, <3>4
      <4>2. i + 1 \in Candidates(b, h) <=> i + 1 \in Candidates(tape, h)
        BY <2>3, <2>4, <3>4
      <4>3. g[i + 1] = f[i + 1]
        BY <3>2, <4>1, <4>2 DEF Take
      <4>4. \A j \in f[i + 1] : j \in 1..(i + 1)
        BY <1>3, <3>1 DEF TakenOK
      <4>5. \A j \in f[i + 1] : j + h <= l
        BY <1>1, <2>1, <3>0, <3>4, <4>4
      <4> QED
        BY <4>3, <4>5
    <3>5. CASE ~((i + 1) + h <= l)
      <4>1. g[i + 1] = g[i]
        BY <2>3, <3>2, <3>5 DEF Take
      <4>2. \A j : j \in f[i + 1] /\ j + h <= l <=> j \in f[i] /\ j + h <= l
        BY <3>2, <3>5 DEF Take
      <4> QED
        BY <3>2, <4>1, <4>2
    <3> QED
      BY <3>4, <3>5
  <2>7. T = Nat
    <3>1. T \in SUBSET Nat
      OBVIOUS
    <3> HIDE DEF T
    <3> QED
      BY <2>5, <2>6, <3>1, Induct
  <2>8. g[l] = {j \in f[l] : j + h <= l}
    BY <2>1, <2>7
  <2>9. f[l] = {j \in f[n] : j <= l}
    BY <1>1, <1>3, <2>1
  <2>10. \A j \in f[n] : j \in Nat
    BY <1>4 DEF TakenOK
  <2>11. {j \in f[l] : j + h <= l} = {j \in f[n] : j + h <= l}
    BY <1>1, <2>1, <2>9, <2>10
  <2> QED
    BY <2>1, <2>2, <2>8, <2>11
<1> QED
  BY <1>2, <1>4, <1>5, <1>6 DEF TakenOK

-----------------------------------------------------------------------------
(* evaluate. *)
BothSides  == {"long", "short"}
Prices == [low : Int, high : Int, close : Int, nf : {NA, 1, 2}]
Signed(side, c) == IF side = "long" THEN c ELSE 0 - c

(* The next settlement does not go back. *)
SettlesForward(b) ==
  \A j, k \in DOMAIN b : j < k /\ b[j].nf # NA /\ b[k].nf # NA => b[j].nf <= b[k].nf

Outcome == [reason : {"timeout", "sl", "tp"}, px : Int, n : Nat, fund : Int, settle : {NA, 1, 2}]
Entered(x) == [reason |-> "timeout", px |-> NA, n |-> 0, fund |-> 0, settle |-> x.nf]

LEMMA EnteredIs ==
  ASSUME NEW x \in Prices
  PROVE  /\ Entered(x) \in Outcome /\ Entered(x).reason = "timeout" /\ Entered(x).n = 0
         /\ Entered(x).fund = 0 /\ Entered(x).settle = x.nf
BY DEF Entered, Prices, Outcome, NA

LEMMA HoldBarIs ==
  ASSUME NEW side \in BothSides, NEW a \in Outcome, NEW x \in Prices
  PROVE  /\ HoldBar(side, a, x) \in Outcome
         /\ a.reason # "timeout" => HoldBar(side, a, x) = a
         /\ a.reason = "timeout" =>
              /\ HoldBar(side, a, x).n = a.n + 1
              /\ HitSl(side, x) =>
                   /\ HoldBar(side, a, x).reason = "sl" /\ HoldBar(side, a, x).fund = a.fund
                   /\ HoldBar(side, a, x).px = 10 - Signed(side, 2)
              /\ ~HitSl(side, x) /\ HitTp(side, x) =>
                   /\ HoldBar(side, a, x).reason = "tp" /\ HoldBar(side, a, x).fund = a.fund
                   /\ HoldBar(side, a, x).px = 10 + Signed(side, 2)
              /\ ~HitSl(side, x) /\ ~HitTp(side, x) =>
                   /\ HoldBar(side, a, x).reason = "timeout" /\ HoldBar(side, a, x).px = x.close
                   /\ HoldBar(side, a, x).fund =
                        a.fund + (IF x.nf # NA /\ a.settle # NA /\ x.nf # a.settle THEN Signed(side, 1) ELSE 0)
                   /\ HoldBar(side, a, x).settle = IF x.nf # NA THEN x.nf ELSE a.settle
<1>1. /\ Toward(side) = Signed(side, 1) /\ 10 - 2 * Toward(side) = 10 - Signed(side, 2)
      /\ 10 + 2 * Toward(side) = 10 + Signed(side, 2) /\ Signed(side, 1) \in Int /\ Signed(side, 2) \in Int
  BY DEF Toward, Signed, BothSides
<1>2. /\ a.reason \in {"timeout", "sl", "tp"} /\ a.px \in Int /\ a.n \in Nat /\ a.fund \in Int
      /\ a.settle \in {NA, 1, 2} /\ x.close \in Int /\ x.nf \in {NA, 1, 2}
  BY DEF Outcome, Prices
<1>3. CASE a.reason # "timeout"
  BY <1>3 DEF HoldBar
<1>4. CASE a.reason = "timeout" /\ HitSl(side, x)
  <2> DEFINE p == 10 - 2 * Toward(side)
             m == a.n + 1
             r == [a EXCEPT !.reason = "sl", !.px = p, !.n = m]
  <2>3. p \in Int /\ p = 10 - Signed(side, 2) /\ m \in Nat /\ m = a.n + 1
    BY <1>1, <1>2
  <2> HIDE DEF p, m
  <2>4. r \in Outcome
    BY <1>2, <2>3 DEF Outcome
  <2>5. r.n = m /\ r.reason = "sl" /\ r.fund = a.fund /\ r.px = p
    BY DEF Outcome
  <2>1. r \in Outcome /\ r.n = a.n + 1 /\ r.reason = "sl" /\ r.fund = a.fund /\ r.px = 10 - Signed(side, 2)
    BY <2>3, <2>4, <2>5
  <2>2. HoldBar(side, a, x) = r
    BY <1>4 DEF HoldBar, p, m
  <2> HIDE DEF r
  <2> QED
    BY <1>4, <2>1, <2>2
<1>5. CASE a.reason = "timeout" /\ ~HitSl(side, x) /\ HitTp(side, x)
  <2> DEFINE p == 10 + 2 * Toward(side)
             m == a.n + 1
             r == [a EXCEPT !.reason = "tp", !.px = p, !.n = m]
  <2>3. p \in Int /\ p = 10 + Signed(side, 2) /\ m \in Nat /\ m = a.n + 1
    BY <1>1, <1>2
  <2> HIDE DEF p, m
  <2>4. r \in Outcome
    BY <1>2, <2>3 DEF Outcome
  <2>5. r.n = m /\ r.reason = "tp" /\ r.fund = a.fund /\ r.px = p
    BY DEF Outcome
  <2>1. r \in Outcome /\ r.n = a.n + 1 /\ r.reason = "tp" /\ r.fund = a.fund /\ r.px = 10 + Signed(side, 2)
    BY <2>3, <2>4, <2>5
  <2>2. HoldBar(side, a, x) = r
    BY <1>5 DEF HoldBar, p, m
  <2> HIDE DEF r
  <2> QED
    BY <1>5, <2>1, <2>2
<1>6. CASE a.reason = "timeout" /\ ~HitSl(side, x) /\ ~HitTp(side, x)
  <2> DEFINE more == IF x.nf # NA /\ a.settle # NA /\ x.nf # a.settle THEN Toward(side) ELSE 0
             next == IF x.nf # NA THEN x.nf ELSE a.settle
             r == [reason |-> "timeout", px |-> x.close, n |-> a.n + 1, fund |-> a.fund + more, settle |-> next]
  <2>1. HoldBar(side, a, x) = r
    BY <1>6 DEF HoldBar
  <2>2. /\ more = IF x.nf # NA /\ a.settle # NA /\ x.nf # a.settle THEN Signed(side, 1) ELSE 0
        /\ next = IF x.nf # NA THEN x.nf ELSE a.settle
        /\ more \in Int
        /\ next \in {NA, 1, 2}
    BY <1>1, <1>2
  <2> HIDE DEF more, next
  <2>3. r \in Outcome /\ r.n = a.n + 1 /\ r.reason = "timeout" /\ r.fund = a.fund + more /\ r.px = x.close /\ r.settle = next
    BY <1>2, <2>2 DEF Outcome
  <2> HIDE DEF r
  <2> QED
    BY <1>6, <2>1, <2>2, <2>3
<1> QED
  BY <1>3, <1>4, <1>5, <1>6

Holds(f, side, b, n) ==
  /\ f \in [0..n -> Outcome] /\ f[0] = Entered(b[1])
  /\ \A i \in 1..n : f[i] = HoldBar(side, f[i - 1], b[i])

LEMMA EvaluateIs ==
  ASSUME NEW side \in BothSides, NEW b \in Seq(Prices), b # << >>
  PROVE  \E f : /\ Holds(f, side, b, Lesser(MaxHold, Len(b)))
                /\ Evaluate(side, b) = LET end == f[Lesser(MaxHold, Len(b))]
                                       IN Result(side, end.reason, end.px, end.n, end.fund)
<1> DEFINE n == Lesser(MaxHold, Len(b))
           e == Entered(b[1])
           step == [i \in 1..n |-> [a \in Outcome |-> HoldBar(side, a, b[i])]]
           Is(g) == g = [i \in 0..n |-> IF i = 0 THEN Entered(b[1]) ELSE HoldBar(side, g[i - 1], b[i])]
<1>1. n \in Nat /\ Len(b) \in Nat /\ 1 \in 1..Len(b) /\ \A i \in 1..n : i \in 1..Len(b)
  BY ResAssumption DEF Lesser
<1>2. \A i \in 1..n : b[i] \in Prices
  BY <1>1
<1>3. e \in Outcome
  BY <1>1, EnteredIs
<1>4. \A i \in 1..n, a \in Outcome : step[i][a] = HoldBar(side, a, b[i])
  OBVIOUS
<1>5. step \in [1..n -> [Outcome -> Outcome]]
  BY <1>2, HoldBarIs
<1> HIDE DEF step, e, n
<1>6. PICK f \in [0..n -> Outcome] : f[0] = e /\ \A i \in 1..n : f[i] = step[i][f[i - 1]]
  <2>1. \E f : Loops(f, Outcome, e, n, step)
    BY <1>1, <1>3, <1>5, LoopExists
  <2> QED
    BY <2>1 DEF Loops
<1>7. \A i \in 1..n : f[i] = HoldBar(side, f[i - 1], b[i])
  <2> TAKE i \in 1..n
  <2>1. f[i - 1] \in Outcome
    BY <1>1, <1>6
  <2> QED
    BY <1>4, <1>6, <2>1
<1>8. Is(f)
  <2>1. \A i \in 0..n : f[i] = IF i = 0 THEN Entered(b[1]) ELSE HoldBar(side, f[i - 1], b[i])
    <3> TAKE i \in 0..n
    <3>1. CASE i = 0
      BY <1>6, <3>1 DEF e
    <3>2. CASE i # 0
      <4>1. i \in 1..n
        BY <1>1, <3>2
      <4> QED
        BY <1>7, <3>2, <4>1
    <3> QED
      BY <3>1, <3>2
  <2> QED
    BY <1>6, <2>1
<1>9. ASSUME NEW g, Is(g) PROVE g[n] = f[n]
  <2>1. g[0] = f[0]
    BY <1>1, <1>6, <1>9 DEF e
  <2>2. ASSUME NEW i \in 1..n, g[i - 1] = f[i - 1] PROVE g[i] = f[i]
    <3>1. i \in 0..n /\ i # 0
      BY <1>1
    <3>2. g[i] = HoldBar(side, g[i - 1], b[i])
      BY <1>9, <3>1
    <3> QED
      BY <1>7, <2>2, <3>2
  <2>3. \A i \in 0..n : g[i] = f[i]
    BY <1>1, <2>1, <2>2, SameLoop DEF SameSteps
  <2> QED
    BY <1>1, <2>3
<1> DEFINE end == (CHOOSE g : Is(g))[n]
<1>10. Evaluate(side, b) = Result(side, end.reason, end.px, end.n, end.fund)
  BY Zenon DEF Evaluate, Entered, n
<1>11. end = f[n]
  <2>2. Is(CHOOSE g : Is(g))
    BY <1>8, Zenon
  <2> HIDE DEF Is
  <2> QED
    BY <1>9, <2>2
<1> HIDE DEF end
<1> QED
  BY <1>6, <1>7, <1>10, <1>11 DEF Holds, n, e

-----------------------------------------------------------------------------
(* The settlements held through are the ones that funding is paid for. *)
Hit(side, x)   == HitSl(side, x) \/ HitTp(side, x)
Known(b, i)    == {b[k].nf : k \in 1..i} \ {NA}
PaidFor(b, i)  == IF Known(b, i) = {} THEN 0 ELSE Cardinality(Known(b, i)) - 1

LEMMA KnownIs ==
  ASSUME NEW b \in Seq(Prices), NEW i \in 0..Len(b)
  PROVE  /\ Known(b, i) \subseteq {1, 2} /\ IsFiniteSet(Known(b, i)) /\ PaidFor(b, i) \in Nat
         /\ \A k \in 1..i : b[k].nf # NA => b[k].nf \in Known(b, i)
         /\ \A z \in Known(b, i) : \E k \in 1..i : z = b[k].nf /\ z # NA
<1>1. \A k \in 1..i : b[k] \in Prices
  OBVIOUS
<1>2. \A k \in 1..i : b[k].nf \in {NA, 1, 2}
  BY <1>1 DEF Prices
<1>3. Known(b, i) \subseteq {1, 2}
  BY <1>2 DEF Known
<1>4. IsFiniteSet({1, 2})
  <2>1. {1, 2} = 1..2
    OBVIOUS
  <2>2. 1 \in Int /\ 2 \in Int
    OBVIOUS
  <2>3. IsFiniteSet(1..2)
    BY <2>2, FS_Interval
  <2> QED
    BY <2>1, <2>3
<1>5. IsFiniteSet(Known(b, i))
  BY <1>3, <1>4, FS_Subset
<1>6. Known(b, i) # {} => Cardinality(Known(b, i)) \in Nat \ {0}
  BY <1>5, FS_EmptySet, FS_CardinalityType
<1>7. PaidFor(b, i) \in Nat
  BY <1>6 DEF PaidFor
<1>8. /\ \A k \in 1..i : b[k].nf # NA => b[k].nf \in Known(b, i)
      /\ \A z \in Known(b, i) : \E k \in 1..i : z = b[k].nf /\ z # NA
  BY DEF Known
<1> QED
  BY <1>3, <1>5, <1>7, <1>8

LEMMA KnownGrows ==
  ASSUME NEW b \in Seq(Prices), NEW i \in 0..Len(b), NEW k, k = i + 1, k <= Len(b)
  PROVE  Known(b, k) = Known(b, i) \cup ({b[k].nf} \ {NA})
<1>1. 1..k = (1..i) \cup {k}
  OBVIOUS
<1> QED
  BY <1>1 DEF Known

HeldOK(a, side, b, i) ==
  /\ (\A k \in 1..i : ~Hit(side, b[k])) =>
       /\ a.reason = "timeout" /\ a.fund = Signed(side, PaidFor(b, i))
       /\ IF i = 0 THEN a.settle = b[1].nf
          ELSE /\ a.px = b[i].close
               /\ IF Known(b, i) = {} THEN a.settle = NA
                  ELSE a.settle \in Known(b, i) /\ \A z \in Known(b, i) : z <= a.settle
  /\ \A k \in 1..i : Hit(side, b[k]) /\ (\A j \in 1..(k - 1) : ~Hit(side, b[j])) =>
       /\ a.fund = Signed(side, PaidFor(b, k - 1))
       /\ IF HitSl(side, b[k]) THEN a.reason = "sl" /\ a.px = 10 - Signed(side, 2)
          ELSE a.reason = "tp" /\ a.px = 10 + Signed(side, 2)

(* One bar more that hits nothing. *)
LEMMA HoldsThrough ==
  ASSUME NEW side \in BothSides, NEW b \in Seq(Prices), SettlesForward(b), NEW i \in Nat, NEW k, k = i + 1, k <= Len(b),
         NEW a \in Outcome, HeldOK(a, side, b, i), \A j \in 1..k : ~Hit(side, b[j]),
         NEW c, c = HoldBar(side, a, b[k])
  PROVE  HeldOK(c, side, b, k)
<1>1. k \in 1..Len(b) /\ b[k] \in Prices /\ i \in 0..Len(b) /\ k \in 0..Len(b) /\ 1 \in 1..Len(b) /\ Len(b) \in Nat
  OBVIOUS
<1>2. \A j \in 1..i : ~Hit(side, b[j])
  OBVIOUS
<1>3. a.reason = "timeout" /\ a.fund = Signed(side, PaidFor(b, i))
  BY <1>2 DEF HeldOK
<1>4. ~HitSl(side, b[k]) /\ ~HitTp(side, b[k])
  BY <1>1 DEF Hit
<1>5. /\ c.reason = "timeout" /\ c.px = b[k].close
      /\ c.fund = a.fund + (IF b[k].nf # NA /\ a.settle # NA /\ b[k].nf # a.settle THEN Signed(side, 1) ELSE 0)
      /\ c.settle = IF b[k].nf # NA THEN b[k].nf ELSE a.settle
  BY <1>1, <1>3, <1>4, HoldBarIs
<1>6. Known(b, k) = Known(b, i) \cup ({b[k].nf} \ {NA})
  BY <1>1, KnownGrows
<1>7. /\ Known(b, i) \subseteq {1, 2} /\ IsFiniteSet(Known(b, i)) /\ PaidFor(b, i) \in Nat
      /\ \A z \in Known(b, i) : \E j \in 1..i : z = b[j].nf /\ z # NA
  BY <1>1, KnownIs
<1>8. \A z \in Known(b, i) : b[k].nf # NA => z <= b[k].nf
  <2> TAKE z \in Known(b, i)
  <2>1. PICK j \in 1..i : z = b[j].nf /\ z # NA
    BY <1>7
  <2>2. j \in DOMAIN b /\ k \in DOMAIN b /\ j < k
    BY <1>1
  <2> QED
    BY <2>1, <2>2 DEF SettlesForward
<1>9. b[k].nf \in {NA, 1, 2} /\ a.settle \in {NA, 1, 2}
  BY <1>1 DEF Prices, Outcome
<1>10. /\ c.fund = Signed(side, PaidFor(b, k))
       /\ IF Known(b, k) = {} THEN c.settle = NA
          ELSE c.settle \in Known(b, k) /\ \A z \in Known(b, k) : z <= c.settle
  <2>1. CASE b[k].nf = NA
    <3>1. Known(b, k) = Known(b, i)
      BY <1>6, <2>1
    <3>2. c.fund = a.fund /\ c.settle = a.settle /\ PaidFor(b, k) = PaidFor(b, i)
      <4>1. a.fund \in Int
        BY DEF Outcome
      <4> QED
        BY <1>5, <2>1, <3>1, <4>1 DEF PaidFor
    <3>3. CASE i = 0
      <4>1. Known(b, i) = {} /\ a.settle = NA
        BY <1>1, <1>2, <2>1, <3>3 DEF HeldOK, Known
      <4> QED
        BY <1>3, <3>1, <3>2, <4>1
    <3>4. CASE i # 0
      BY <1>2, <1>3, <3>1, <3>2, <3>4 DEF HeldOK
    <3> QED
      BY <3>3, <3>4
  <2>2. CASE b[k].nf # NA
    <3>1. Known(b, k) = Known(b, i) \cup {b[k].nf} /\ c.settle = b[k].nf /\ Known(b, k) # {}
      BY <1>5, <1>6, <2>2
    <3>2. c.settle \in Known(b, k) /\ \A z \in Known(b, k) : z <= c.settle
      BY <1>8, <1>9, <2>2, <3>1
    <3>3. c.fund = Signed(side, PaidFor(b, k))
      <4>1. CASE Known(b, i) = {}
        <5>1. Cardinality(Known(b, k)) = 1
          <6> DEFINE z == b[k].nf
          <6>1. Known(b, k) = {z}
            BY <3>1, <4>1
          <6> HIDE DEF z
          <6> QED
            BY <6>1, FS_Singleton
        <5>2. PaidFor(b, k) = 0 /\ PaidFor(b, i) = 0
          BY <3>1, <4>1, <5>1 DEF PaidFor
        <5>3. a.settle = NA \/ a.settle = b[k].nf
          BY <1>1, <1>2, <4>1 DEF HeldOK
        <5>4. a.fund = 0
          <6>1. Signed(side, 0) = 0
            BY DEF Signed
          <6> QED
            BY <1>3, <5>2, <6>1
        <5> QED
          BY <1>5, <5>2, <5>3, <5>4 DEF Signed
      <4>2. CASE Known(b, i) # {}
        <5>1. i # 0
          BY <4>2 DEF Known
        <5>2. a.settle \in Known(b, i) /\ \A z \in Known(b, i) : z <= a.settle
          BY <1>2, <4>2, <5>1 DEF HeldOK
        <5>3. PaidFor(b, i) = Cardinality(Known(b, i)) - 1 /\ PaidFor(b, k) = Cardinality(Known(b, k)) - 1
          BY <3>1, <4>2 DEF PaidFor
        <5>4. Cardinality(Known(b, i)) \in Nat
          BY <1>7, FS_CardinalityType
        <5>5. CASE b[k].nf = a.settle
          <6>1. Known(b, k) = Known(b, i)
            BY <3>1, <5>2, <5>5
          <6>2. a.fund \in Int
            BY DEF Outcome
          <6> QED
            BY <1>3, <1>5, <5>3, <5>5, <6>1, <6>2
        <5>6. CASE b[k].nf # a.settle
          <6>1. b[k].nf \notin Known(b, i)
            BY <1>7, <1>8, <1>9, <2>2, <5>2, <5>6
          <6>2. Cardinality(Known(b, k)) = Cardinality(Known(b, i)) + 1
            BY <1>7, <3>1, <6>1, FS_AddElement
          <6>3. PaidFor(b, k) = PaidFor(b, i) + 1
            BY <5>3, <5>4, <6>2
          <6>4. a.settle # NA
            BY <1>7, <5>2 DEF NA
          <6>5. c.fund = a.fund + Signed(side, 1)
            BY <1>5, <2>2, <5>6, <6>4
          <6> QED
            BY <1>3, <1>7, <6>3, <6>5 DEF Signed
        <5> QED
          BY <5>5, <5>6
      <4> QED
        BY <4>1, <4>2
    <3> QED
      BY <3>1, <3>2, <3>3
  <2> QED
    BY <2>1, <2>2
<1> QED
  BY <1>1, <1>5, <1>10 DEF HeldOK

(* The bar that hits. *)
LEMMA HoldsUntil ==
  ASSUME NEW side \in BothSides, NEW b \in Seq(Prices), NEW i \in Nat, NEW k, k = i + 1, k <= Len(b),
         NEW a \in Outcome, HeldOK(a, side, b, i), Hit(side, b[k]), \A j \in 1..i : ~Hit(side, b[j]),
         NEW c, c = HoldBar(side, a, b[k])
  PROVE  HeldOK(c, side, b, k)
<1>1. k \in 1..k /\ b[k] \in Prices /\ k - 1 = i
  OBVIOUS
<1>2. a.reason = "timeout" /\ a.fund = Signed(side, PaidFor(b, i))
  BY DEF HeldOK
<1>3. /\ c.fund = Signed(side, PaidFor(b, i))
      /\ IF HitSl(side, b[k]) THEN c.reason = "sl" /\ c.px = 10 - Signed(side, 2)
         ELSE c.reason = "tp" /\ c.px = 10 + Signed(side, 2)
  BY <1>1, <1>2, HoldBarIs DEF Hit
<1>4. \A j \in 1..k : Hit(side, b[j]) => j = k
  <2> TAKE j \in 1..k
  <2>1. j # k => j \in 1..i
    OBVIOUS
  <2> QED
    BY <2>1
<1> QED
  BY <1>1, <1>3, <1>4 DEF HeldOK

LEMMA HoldsAfter ==
  ASSUME NEW side \in BothSides, NEW b \in Seq(Prices), NEW i \in Nat, NEW k, k = i + 1, k <= Len(b),
         NEW a \in Outcome, HeldOK(a, side, b, i), NEW h \in 1..i, Hit(side, b[h]),
         \A j \in 1..(h - 1) : ~Hit(side, b[j]), NEW c, c = HoldBar(side, a, b[k])
  PROVE  HeldOK(c, side, b, k) /\ c = a
<1>1. b[k] \in Prices /\ h \in 1..k
  OBVIOUS
<1>2. /\ a.reason # "timeout"
  BY DEF HeldOK
<1>3. c = a
  BY <1>1, <1>2, HoldBarIs
<1>4. ASSUME NEW j \in 1..k, Hit(side, b[j]), \A m \in 1..(j - 1) : ~Hit(side, b[m])
      PROVE  j = h
  <2>1. j < h => j \in 1..(h - 1)
    OBVIOUS
  <2>2. h < j => h \in 1..(j - 1)
    OBVIOUS
  <2> QED
    BY <1>4, <2>1, <2>2
<1> QED
  BY <1>1, <1>3, <1>4 DEF HeldOK

LEMMA HoldsExactly ==
  ASSUME NEW side \in BothSides, NEW b \in Seq(Prices), SettlesForward(b), b # << >>,
         NEW n \in 0..Len(b), NEW f, Holds(f, side, b, n)
  PROVE  \A i \in 0..n : HeldOK(f[i], side, b, i)
<1> DEFINE T == {i \in Nat : i <= n => HeldOK(f[i], side, b, i)}
<1>0. /\ 1 \in 1..Len(b)
      /\ n \in Nat
      /\ \A i \in 1..n : f[i] = HoldBar(side, f[i - 1], b[i])
      /\ \A i \in 0..n : f[i] \in Outcome
      /\ f[0] = Entered(b[1])
  BY DEF Holds
<1>1. 0 \in T
  <2>1. b[1] \in Prices
    BY <1>0
  <2>2. Known(b, 0) = {}
    BY DEF Known
  <2>3. HeldOK(f[0], side, b, 0)
    BY <1>0, <2>1, <2>2, EnteredIs DEF HeldOK, PaidFor, Signed
  <2> QED
    BY <2>3
<1>2. ASSUME NEW i \in T PROVE i + 1 \in T
  <2>0. i \in Nat
    OBVIOUS
  <2> DEFINE k == i + 1
  <2> SUFFICES ASSUME k <= n PROVE HeldOK(f[k], side, b, k)
    OBVIOUS
  <2>1. k = i + 1 /\ k <= Len(b) /\ k \in 1..n /\ k - 1 = i /\ i \in 0..n
    BY <1>0, <2>0
  <2>2. HeldOK(f[i], side, b, i) /\ f[i] \in Outcome /\ f[k] = HoldBar(side, f[i], b[k])
    BY <1>0, <1>2, <2>1
  <2> HIDE DEF k, T
  <2>3. CASE \A j \in 1..k : ~Hit(side, b[j])
    BY <2>0, <2>1, <2>2, <2>3, HoldsThrough
  <2>4. CASE (\A j \in 1..i : ~Hit(side, b[j])) /\ Hit(side, b[k])
    BY <2>0, <2>1, <2>2, <2>4, HoldsUntil
  <2>5. CASE \E j \in 1..i : Hit(side, b[j])
    <3> DEFINE H == {j \in 1..i : Hit(side, b[j])}
    <3>1. H \in SUBSET Nat /\ H # {}
      BY <2>5
    <3>2. PICK h \in H : \A j \in H : h <= j
      BY <3>1, Least
    <3>3. h \in 1..i /\ Hit(side, b[h]) /\ \A j \in 1..(h - 1) : ~Hit(side, b[j])
      BY <2>0, <3>2
    <3> QED
      BY <2>0, <2>1, <2>2, <3>3, HoldsAfter
  <2>6. \A j \in 1..k : j = k \/ j \in 1..i
    BY <2>0, <2>1
  <2> QED
    BY <2>3, <2>4, <2>5, <2>6
<1>3. T = Nat
  <2>1. T \in SUBSET Nat
    OBVIOUS
  <2> HIDE DEF T
  <2> QED
    BY <1>1, <1>2, <2>1, Induct
<1> QED
  BY <1>3

-----------------------------------------------------------------------------
LEMMA LeastOfIs ==
  ASSUME NEW S \in SUBSET Int, NEW m \in S, \A y \in S : m <= y
  PROVE  LeastOf(S) = m
<1>1. \A x \in S : (\A y \in S : x <= y) => x = m
  OBVIOUS
<1> QED
  BY <1>1, Zenon DEF LeastOf

LEMMA MostOfIs ==
  ASSUME NEW S \in SUBSET Int, NEW m \in S, \A y \in S : y <= m
  PROVE  MostOf(S) = m
<1>1. \A x \in S : (\A y \in S : y <= x) => x = m
  OBVIOUS
<1> QED
  BY <1>1, Zenon DEF MostOf

(* A position that was closed stays as it was closed. *)
LEMMA ClosedStays ==
  ASSUME NEW side \in BothSides, NEW b \in Seq(Prices), NEW n \in 0..Len(b), NEW f, Holds(f, side, b, n),
         NEW l \in 0..n, f[l].reason # "timeout"
  PROVE  f[n] = f[l]
<1> DEFINE T == {d \in Nat : l + d <= n => f[l + d] = f[l]}
<1>0. /\ n \in Nat
      /\ l \in Nat
      /\ l <= n
      /\ \A i \in 1..n : f[i] = HoldBar(side, f[i - 1], b[i])
      /\ \A i \in 0..n : f[i] \in Outcome
  BY DEF Holds
<1>1. 0 \in T
  BY <1>0
<1>2. ASSUME NEW d \in T PROVE d + 1 \in T
  <2> SUFFICES ASSUME l + (d + 1) <= n PROVE f[l + (d + 1)] = f[l]
    OBVIOUS
  <2>1. l + (d + 1) \in 1..n /\ (l + (d + 1)) - 1 = l + d /\ f[l + d] = f[l] /\ l + (d + 1) \in 1..Len(b)
    BY <1>0, <1>2
  <2>2. f[l + (d + 1)] = HoldBar(side, f[l], b[l + (d + 1)]) /\ f[l] \in Outcome /\ b[l + (d + 1)] \in Prices
    BY <1>0, <2>1
  <2> QED
    BY <2>2, HoldBarIs
<1>3. T = Nat
  <2>1. T \in SUBSET Nat
    OBVIOUS
  <2> HIDE DEF T
  <2> QED
    BY <1>1, <1>2, <2>1, Induct
<1>4. n - l \in Nat
  BY <1>0
<1>5. n - l \in T
  <2> HIDE DEF T
  <2> QED
    BY <1>3, <1>4
<1> QED
  BY <1>0, <1>5

(* What a longer recording makes of the bars of a shorter one. *)
LEMMA SameHolds ==
  ASSUME NEW side \in BothSides, NEW b \in Seq(Prices), NEW c \in Seq(Prices), b # << >>,
         Len(b) <= Len(c), \A k \in 1..Len(b) : b[k] = c[k],
         NEW n \in 0..Len(b), NEW m \in 0..Len(c), n <= m,
         NEW f, Holds(f, side, b, n), NEW g, Holds(g, side, c, m)
  PROVE  f[n] = g[n]
<1>1. /\ n \in Nat
      /\ f[0] = Entered(b[1]) /\ g[0] = Entered(c[1])
      /\ b[1] = c[1]
      /\ \A i \in 1..n : f[i] = HoldBar(side, f[i - 1], b[i])
      /\ \A i \in 1..m : g[i] = HoldBar(side, g[i - 1], c[i])
  BY DEF Holds
<1>2. f[0] = g[0]
  BY <1>1
<1>3. \A i \in 1..n : g[i - 1] = f[i - 1] => g[i] = f[i]
  <2> SUFFICES ASSUME NEW i \in 1..n, g[i - 1] = f[i - 1] PROVE g[i] = f[i]
    OBVIOUS
  <2>1. i \in 1..m /\ i \in 1..Len(b)
    OBVIOUS
  <2> QED
    BY <1>1, <2>1
<1>4. \A i \in 0..n : g[i] = f[i]
  <2>1. SameSteps(f, g, n)
    BY <1>3 DEF SameSteps
  <2> QED
    BY <1>1, <1>2, <2>1, SameLoop
<1> QED
  BY <1>1, <1>4

LEMMA BarriersAreExact ==
  ASSUME tape \in Seq(Prices), SettlesForward(tape), tape # << >>
  PROVE  BarriersExact
<1> SUFFICES ASSUME NEW side \in BothSides
    PROVE LET held    == 1..Lesser(MaxHold, Len(tape))
              hits    == {k \in held : HitSl(side, tape[k]) \/ HitTp(side, tape[k])}
              through == IF hits = {} THEN held ELSE 1..(LeastOf(hits) - 1)
              nfs     == {tape[k].nf : k \in through} \ {NA}
              paid    == Toward(side) * (IF nfs = {} THEN 0 ELSE Cardinality(nfs) - 1)
              left    == IF hits = {} THEN {tape[MostOf(held)].close * Toward(side) - 10 * Toward(side) - 2}
                         ELSE {IF s THEN -4 ELSE 1 : s \in {t \in BOOLEAN :
                                 IF t THEN HitSl(side, tape[LeastOf(hits)]) ELSE HitTp(side, tape[LeastOf(hits)])}}
          IN /\ Evaluate(side, tape).net = LeastOf(left) - paid
             /\ \A b \in Beginnings : (Evaluate(side, b).reason # "timeout" \/ Len(b) >= MaxHold)
                                      => Evaluate(side, b) = Evaluate(side, tape)
  BY Zenon DEF BarriersExact, BothSides
<1> DEFINE n       == Lesser(MaxHold, Len(tape))
           held    == 1..n
           hits    == {k \in held : HitSl(side, tape[k]) \/ HitTp(side, tape[k])}
           through == IF hits = {} THEN held ELSE 1..(LeastOf(hits) - 1)
           nfs     == {tape[k].nf : k \in through} \ {NA}
           count   == IF nfs = {} THEN 0 ELSE Cardinality(nfs) - 1
           left    == IF hits = {} THEN {tape[MostOf(held)].close * Toward(side) - 10 * Toward(side) - 2}
                      ELSE {IF s THEN -4 ELSE 1 : s \in {t \in BOOLEAN :
                              IF t THEN HitSl(side, tape[LeastOf(hits)]) ELSE HitTp(side, tape[LeastOf(hits)])}}
<1>1. /\ Len(tape) \in Nat /\ MaxHold \in Nat \ {0} /\ n \in 1..Len(tape) /\ n \in 0..Len(tape)
      /\ n = IF MaxHold < Len(tape) THEN MaxHold ELSE Len(tape)
  BY ResAssumption DEF Lesser
<1> HIDE DEF n
<1>2. PICK f : /\ Holds(f, side, tape, n)
               /\ Evaluate(side, tape) = LET end == f[n] IN Result(side, end.reason, end.px, end.n, end.fund)
  BY EvaluateIs DEF n
<1>3. \A i \in 0..n : f[i] \in Outcome /\ HeldOK(f[i], side, tape, i)
  BY <1>1, <1>2, HoldsExactly DEF Holds
<1>4. f[n] \in Outcome /\ HeldOK(f[n], side, tape, n) /\ f[n].px \in Int /\ f[n].fund \in Int
  BY <1>1, <1>3 DEF Outcome
<1>5. Evaluate(side, tape).net = (f[n].px - 10) * Toward(side) - CostOf(f[n].reason) - f[n].fund
  BY <1>2 DEF Result
<1>6. Evaluate(side, tape).net = LeastOf(left) - Toward(side) * count
  <2>1. CASE hits = {}
    <3>1. \A k \in 1..n : ~Hit(side, tape[k])
      BY <2>1 DEF Hit
    <3>2. nfs = Known(tape, n) /\ count = PaidFor(tape, n)
      BY <2>1 DEF Known, PaidFor
    <3>3. f[n].reason = "timeout" /\ f[n].fund = Signed(side, count) /\ f[n].px = tape[n].close
      <4>1. n # 0
        BY <1>1
      <4> HIDE DEF count, nfs, left
      <4> QED
        BY <1>4, <3>1, <3>2, <4>1 DEF HeldOK
    <3>4. MostOf(held) = n
      <4>1. held \in SUBSET Int /\ n \in held /\ \A y \in held : y <= n
        BY <1>1
      <4> HIDE DEF held
      <4> QED
        BY <4>1, MostOfIs
    <3> DEFINE z == tape[n].close * Toward(side) - 10 * Toward(side) - 2
    <3>5. left = {z}
      BY <2>1, <3>4
    <3>6. tape[n].close \in Int
      <4>1. tape[n] \in Prices
        BY <1>1
      <4> QED
        BY <4>1 DEF Prices
    <3>7. count \in Nat
      <4>1. PaidFor(tape, n) \in Nat
        BY <1>1, KnownIs
      <4> HIDE DEF count
      <4> QED
        BY <3>2, <4>1
    <3> HIDE DEF count, left, nfs, hits, held, through
    <3>8. CASE side = "long"
      <4>1. Toward(side) = 1 /\ Signed(side, count) = count
        BY <3>8 DEF Toward, Signed
      <4>2. z = tape[n].close - 12 /\ z \in Int
        BY <3>6, <4>1
      <4>3. LeastOf(left) = z
        <5> HIDE DEF z
        <5>1. {z} \in SUBSET Int /\ z \in {z} /\ \A y \in {z} : z <= y
          BY <4>2
        <5> QED
          BY <3>5, <5>1, LeastOfIs
      <4> QED
        BY <1>5, <3>3, <3>6, <3>7, <4>1, <4>2, <4>3 DEF CostOf
    <3>9. CASE side # "long"
      <4>1. Toward(side) = -1 /\ Signed(side, count) = 0 - count
        BY <3>9 DEF Toward, Signed
      <4>2. z = 8 - tape[n].close /\ z \in Int
        BY <3>6, <4>1
      <4>3. LeastOf(left) = z
        <5> HIDE DEF z
        <5>1. {z} \in SUBSET Int /\ z \in {z} /\ \A y \in {z} : z <= y
          BY <4>2
        <5> QED
          BY <3>5, <5>1, LeastOfIs
      <4> QED
        BY <1>5, <3>3, <3>6, <3>7, <4>1, <4>2, <4>3 DEF CostOf
    <3> QED
      BY <3>8, <3>9
  <2>2. CASE hits # {}
    <3>1. hits \in SUBSET Nat
      BY <1>1
    <3>2. PICK h \in hits : \A k \in hits : h <= k
      BY <2>2, <3>1, Least
    <3>3. LeastOf(hits) = h
      <4>1. hits \in SUBSET Int
        BY <3>1
      <4> HIDE DEF hits
      <4> QED
        BY <3>2, <4>1, LeastOfIs
    <3>4. h \in 1..n /\ Hit(side, tape[h]) /\ \A j \in 1..(h - 1) : ~Hit(side, tape[j])
      <4>1. h \in 1..n /\ Hit(side, tape[h])
        BY <3>2 DEF Hit
      <4>2. ASSUME NEW j \in 1..(h - 1), Hit(side, tape[j]) PROVE FALSE
        <5>1. j \in hits /\ j < h
          BY <1>1, <4>1, <4>2 DEF Hit
        <5> QED
          BY <3>2, <4>1, <5>1
      <4> QED
        BY <4>1, <4>2
    <3>5. nfs = Known(tape, h - 1) /\ count = PaidFor(tape, h - 1)
      BY <2>2, <3>3 DEF Known, PaidFor
    <3>6. /\ f[n].fund = Signed(side, count)
          /\ IF HitSl(side, tape[h]) THEN f[n].reason = "sl" /\ f[n].px = 10 - Signed(side, 2)
             ELSE f[n].reason = "tp" /\ f[n].px = 10 + Signed(side, 2)
      BY <1>4, <3>4, <3>5 DEF HeldOK
    <3>7. count \in Nat
      <4>1. h - 1 \in 0..Len(tape)
        BY <1>1, <3>4
      <4>2. PaidFor(tape, h - 1) \in Nat
        BY <4>1, KnownIs
      <4> HIDE DEF count
      <4> QED
        BY <3>5, <4>2
    <3> DEFINE S == {t \in BOOLEAN : IF t THEN HitSl(side, tape[h]) ELSE HitTp(side, tape[h])}
               V == {IF s THEN -4 ELSE 1 : s \in S}
    <3>8. left = V
      BY <2>2, <3>3
    <3>9. LeastOf(left) = IF HitSl(side, tape[h]) THEN -4 ELSE 1
      <4>1. CASE HitSl(side, tape[h])
        <5>2. TRUE \in S
          BY <4>1
        <5>3. -4 \in V
          BY <5>2
        <5>4. \A y \in V : y = -4 \/ y = 1
          OBVIOUS
        <5> HIDE DEF V
        <5>1. V \in SUBSET Int /\ -4 \in V /\ \A y \in V : -4 <= y
          BY <5>3, <5>4
        <5> HIDE DEF V, left
        <5> QED
          BY <3>8, <4>1, <5>1, LeastOfIs
      <4>2. CASE ~HitSl(side, tape[h])
        <5>1. HitTp(side, tape[h])
          BY <3>4, <4>2 DEF Hit
        <5>2. S = {FALSE}
          BY <4>2, <5>1
        <5>3. V = {1}
          BY <5>2
        <5>4. {1} \in SUBSET Int /\ 1 \in {1} /\ \A y \in {1} : 1 <= y
          OBVIOUS
        <5> HIDE DEF V, left
        <5> QED
          BY <3>8, <4>2, <5>3, <5>4, LeastOfIs
      <4> QED
        BY <4>1, <4>2
    <3> HIDE DEF count, left, nfs, hits, held, through, V, S
    <3>10. CASE side = "long"
      <4>1. Toward(side) = 1 /\ Signed(side, count) = count /\ Signed(side, 2) = 2
        BY <3>10 DEF Toward, Signed
      <4> QED
        BY <1>5, <3>6, <3>7, <3>9, <4>1 DEF CostOf
    <3>11. CASE side # "long"
      <4>1. Toward(side) = -1 /\ Signed(side, count) = 0 - count /\ Signed(side, 2) = 0 - 2
        BY <3>11 DEF Toward, Signed
      <4> QED
        BY <1>5, <3>6, <3>7, <3>9, <4>1 DEF CostOf
    <3> QED
      BY <3>10, <3>11
  <2> QED
    BY <2>1, <2>2
<1>7. ASSUME NEW b \in Beginnings, Evaluate(side, b).reason # "timeout" \/ Len(b) >= MaxHold
      PROVE  Evaluate(side, b) = Evaluate(side, tape)
  <2>1. PICK l \in 1..Len(tape) : b \in Seq(Prices) /\ Len(b) = l /\ \A k \in 1..l : b[k] = tape[k]
    BY BeginningIs
  <2> DEFINE m == Lesser(MaxHold, Len(b))
  <2>2. /\ m \in 0..Len(b) /\ m \in 0..n /\ (Len(b) >= MaxHold => m = n)
        /\ b # << >> /\ Len(b) <= Len(tape) /\ m <= n
    BY <1>1, <2>1 DEF Lesser
  <2> HIDE DEF m
  <2>3. PICK g : /\ Holds(g, side, b, m)
                 /\ Evaluate(side, b) = LET end == g[m] IN Result(side, end.reason, end.px, end.n, end.fund)
    BY <2>1, <2>2, EvaluateIs DEF m
  <2>4. g[m] = f[m]
    BY <1>1, <1>2, <2>1, <2>2, <2>3, SameHolds
  <2>5. f[n] = f[m]
    <3>1. CASE Len(b) >= MaxHold
      BY <2>2, <3>1
    <3>2. CASE Evaluate(side, b).reason # "timeout"
      <4>1. f[m].reason # "timeout"
        BY <2>3, <2>4, <3>2 DEF Result
      <4> QED
        BY <1>1, <1>2, <2>2, <4>1, ClosedStays
    <3> QED
      BY <1>7, <3>1, <3>2
  <2> QED
    BY <1>2, <2>3, <2>4, <2>5, Zenon
<1> HIDE DEF count, left
<1> QED
  BY <1>6, <1>7, Zenon DEF count, left, n

-----------------------------------------------------------------------------
(* aggregate. *)
Minutes == [t : Nat, px : {1, 2}]
Frames  == [t : Int, open : {1, 2}, close : {1, 2}, high : {1, 2}, low : {1, 2}]
Forward(b) == \A j, k \in DOMAIN b : j < k => b[j].t < b[k].t
BucketNo(m)  == m \div Span

LEMMA BucketIs ==
  ASSUME NEW m \in Nat
  PROVE  BucketNo(m) \in Nat /\ BucketNo(m) * Span <= m /\ m <= BucketNo(m) * Span + Span - 1
<1>1. Span \in Nat /\ Span > 0
  BY ResAssumption
<1> QED
  BY <1>1 DEF BucketNo

LEMMA BucketOf ==
  ASSUME NEW m \in Nat, NEW q \in Nat, q * Span <= m, m <= q * Span + Span - 1
  PROVE  BucketNo(m) = q
<1>1. Span \in Nat /\ Span > 0
  BY ResAssumption
<1> QED
  BY <1>1 DEF BucketNo

LEMMA BucketGrows ==
  ASSUME NEW m \in Nat, NEW n \in Nat, m <= n
  PROVE  BucketNo(m) <= BucketNo(n)
<1>1. Span \in Nat /\ Span > 0
  BY ResAssumption
<1> QED
  BY <1>1 DEF BucketNo

(* Minutes go forward one by one at least. *)
LEMMA Spaced ==
  ASSUME NEW b \in Seq(Minutes), Forward(b), NEW j \in 1..Len(b), NEW k \in 1..Len(b), j <= k
  PROVE  b[k].t - b[j].t >= k - j
<1> DEFINE T == {d \in Nat : j + d <= Len(b) => b[j + d].t - b[j].t >= d}
<1>0. \A i \in 1..Len(b) : b[i].t \in Nat
  <2> TAKE i \in 1..Len(b)
  <2>1. b[i] \in Minutes
    OBVIOUS
  <2> QED
    BY <2>1 DEF Minutes
<1>1. 0 \in T
  BY <1>0
<1>2. ASSUME NEW d \in T PROVE d + 1 \in T
  <2> SUFFICES ASSUME j + (d + 1) <= Len(b) PROVE b[j + (d + 1)].t - b[j].t >= d + 1
    OBVIOUS
  <2>1. d \in Nat /\ j + d \in 1..Len(b) /\ j + (d + 1) \in 1..Len(b) /\ j + d < j + (d + 1)
    OBVIOUS
  <2>2. b[j + d].t - b[j].t >= d
    BY <1>2, <2>1
  <2>3. b[j + d].t < b[j + (d + 1)].t
    BY <2>1 DEF Forward
  <2>4. b[j + d].t \in Nat /\ b[j + (d + 1)].t \in Nat /\ b[j].t \in Nat
    BY <1>0, <2>1
  <2> DEFINE x == b[j].t
             y == b[j + d].t
             z == b[j + (d + 1)].t
  <2>5. x \in Nat /\ y \in Nat /\ z \in Nat /\ y - x >= d /\ y < z
    BY <2>2, <2>3, <2>4
  <2> HIDE DEF x, y, z
  <2>6. z - x >= d + 1
    BY <2>1, <2>5
  <2> QED
    BY <2>6 DEF x, z
<1>3. T = Nat
  <2>1. T \in SUBSET Nat
    OBVIOUS
  <2> HIDE DEF T
  <2> QED
    BY <1>1, <1>2, <2>1, Induct
<1>4. k - j \in Nat /\ j + (k - j) = k
  OBVIOUS
<1>5. k - j \in T
  <2> HIDE DEF T
  <2> QED
    BY <1>3, <1>4
<1> QED
  BY <1>4, <1>5

-----------------------------------------------------------------------------
(* The bars of the current bucket, and whether they are all of it. *)
Minute(b, k) == b[k].t
Group(b, s, i, q) ==
  /\ s \in 1..i /\ i \in 1..Len(b) /\ q = BucketNo(Minute(b, i))
  /\ \A k \in s..i : BucketNo(Minute(b, k)) = q
  /\ \A k \in 1..(s - 1) : BucketNo(Minute(b, k)) < q
WholeIn(b, i, q) == \A m \in (q * Span)..(q * Span + Span - 1) : \E k \in 1..i : Minute(b, k) = m

LEMMA MinuteIs ==
  ASSUME NEW b \in Seq(Minutes), NEW k \in 1..Len(b)
  PROVE  /\ b[k] \in Minutes /\ Minute(b, k) \in Nat /\ BucketNo(Minute(b, k)) \in Nat
         /\ BucketNo(Minute(b, k)) * Span <= Minute(b, k)
         /\ Minute(b, k) <= BucketNo(Minute(b, k)) * Span + Span - 1
<1>1. b[k] \in Minutes
  OBVIOUS
<1>2. Minute(b, k) \in Nat
  BY <1>1 DEF Minutes, Minute
<1> QED
  BY <1>1, <1>2, BucketIs

LEMMA GroupSize ==
  ASSUME NEW b \in Seq(Minutes), Forward(b), NEW s, NEW i, NEW q, Group(b, s, i, q)
  PROVE  /\ i - s + 1 <= Span
         /\ i - s + 1 = Span => WholeIn(b, i, q) /\ Minute(b, s) = q * Span /\ Minute(b, i) = q * Span + Span - 1
         /\ WholeIn(b, i, q) => i - s + 1 = Span
<1> DEFINE z == q * Span
<1>1. /\ s \in Nat \ {0} /\ i \in Nat /\ s <= i /\ i <= Len(b) /\ q \in Nat
      /\ Len(b) \in Nat
      /\ Span \in Nat \ {0}
  BY MinuteIs, ResAssumption DEF Group
<1>1a. z \in Nat
  BY <1>1
<1>2. \A k \in 1..Len(b) : Minute(b, k) \in Nat
  BY MinuteIs
<1>3. ASSUME NEW k \in s..i PROVE z <= Minute(b, k) /\ Minute(b, k) <= z + Span - 1
  <2>1. k \in 1..Len(b) /\ BucketNo(Minute(b, k)) = q
    BY <1>1, <1>3 DEF Group
  <2> QED
    BY <2>1, MinuteIs
<1>4. \A k \in 1..i : BucketNo(Minute(b, k)) = q => k \in s..i
  <2> TAKE k \in 1..i
  <2>1. CASE k < s
    <3>1. k \in 1..(s - 1) /\ BucketNo(Minute(b, k)) \in Nat
      BY <1>1, <2>1, MinuteIs
    <3> QED
      BY <1>1, <3>1 DEF Group
  <2> QED
    BY <1>1, <2>1
<1>5. \A j, k \in s..i : j <= k => Minute(b, k) - Minute(b, j) >= k - j
  <2> TAKE j, k \in s..i
  <2>1. j \in 1..Len(b) /\ k \in 1..Len(b)
    BY <1>1
  <2> QED
    BY <2>1, Spaced DEF Minute
<1>6. \A m \in z..(z + Span - 1) : BucketNo(m) = q
  <2> TAKE m \in z..(z + Span - 1)
  <2>1. m \in Nat
    BY <1>1, <1>1a
  <2> QED
    BY <1>1, <2>1, BucketOf
<1>7. WholeIn(b, i, q) <=> \A m \in z..(z + Span - 1) : \E k \in 1..i : Minute(b, k) = m
  BY DEF WholeIn
<1>8. \A j, k \in 1..Len(b) : Minute(b, j) < Minute(b, k) => j < k
  <2> TAKE j, k \in 1..Len(b)
  <2>1. CASE k < j
    BY <1>2, <2>1 DEF Forward, Minute
  <2>2. CASE k = j
    BY <1>2, <2>2
  <2> QED
    BY <1>2, <2>1, <2>2
<1> HIDE DEF z
<1>9. s \in s..i /\ i \in s..i /\ s \in 1..Len(b) /\ i \in 1..Len(b)
  BY <1>1
<1>10. i - s + 1 <= Span
  <2>1. Minute(b, i) - Minute(b, s) >= i - s
    BY <1>1, <1>5, <1>9
  <2>2. z <= Minute(b, s) /\ Minute(b, i) <= z + Span - 1
    BY <1>3, <1>9
  <2>3. Minute(b, i) \in Nat /\ Minute(b, s) \in Nat
    BY <1>2, <1>9
  <2> QED
    BY <1>1, <1>1a, <2>1, <2>2, <2>3
<1>11. ASSUME i - s + 1 = Span
       PROVE  WholeIn(b, i, q) /\ Minute(b, s) = z /\ Minute(b, i) = z + Span - 1
  <2>1. ASSUME NEW k \in s..i PROVE Minute(b, k) = z + (k - s)
    <3>1. Minute(b, k) - Minute(b, s) >= k - s /\ Minute(b, i) - Minute(b, k) >= i - k
      BY <1>1, <1>5, <1>9, <2>1
    <3>2. z <= Minute(b, s) /\ Minute(b, i) <= z + Span - 1
      BY <1>3, <1>9
    <3>3. Minute(b, i) \in Nat /\ Minute(b, s) \in Nat /\ Minute(b, k) \in Nat /\ k \in Nat
      BY <1>1, <1>2, <1>9
    <3> QED
      BY <1>1, <1>1a, <1>11, <3>1, <3>2, <3>3
  <2>2. ASSUME NEW m \in z..(z + Span - 1) PROVE \E k \in 1..i : Minute(b, k) = m
    <3> DEFINE k == s + (m - z)
    <3>1. k \in s..i /\ k \in 1..i /\ z + (k - s) = m
      BY <1>1, <1>1a, <1>11
    <3> HIDE DEF k
    <3> QED
      BY <2>1, <3>1
  <2>3. Minute(b, s) = z /\ Minute(b, i) = z + Span - 1
    BY <1>1, <1>1a, <1>9, <1>11, <2>1
  <2> QED
    BY <1>7, <2>2, <2>3
<1>12. ASSUME WholeIn(b, i, q)
       PROVE  i - s + 1 = Span
  <2> DEFINE T == {j \in Nat : j < Span => s + j <= i /\ Minute(b, s + j) = z + j}
  <2>0. ASSUME NEW m \in z..(z + Span - 1) PROVE \E k \in s..i : Minute(b, k) = m
    <3>1. PICK k \in 1..i : Minute(b, k) = m
      BY <1>7, <1>12
    <3>2. k \in s..i
      BY <1>4, <1>6, <3>1
    <3> QED
      BY <3>1, <3>2
  <2>1. 0 \in T
    <3>1. z \in z..(z + Span - 1)
      BY <1>1, <1>1a
    <3>2. PICK k \in s..i : Minute(b, k) = z
      BY <2>0, <3>1
    <3>3. Minute(b, k) - Minute(b, s) >= k - s
      BY <1>1, <1>5, <1>9, <3>2
    <3>4. z <= Minute(b, s) /\ Minute(b, s) \in Nat /\ k \in Nat /\ k >= s
      BY <1>1, <1>2, <1>3, <1>9
    <3>5. Minute(b, s) = z
      BY <1>1, <1>1a, <3>2, <3>3, <3>4
    <3>6. s + 0 = s /\ z + 0 = z /\ s + 0 <= i
      BY <1>1, <1>1a
    <3> QED
      BY <3>5, <3>6
  <2>2. ASSUME NEW j \in T PROVE j + 1 \in T
    <3>0. j \in Nat
      OBVIOUS
    <3> SUFFICES ASSUME j + 1 < Span PROVE s + (j + 1) <= i /\ Minute(b, s + (j + 1)) = z + (j + 1)
      OBVIOUS
    <3>1. s + j <= i /\ Minute(b, s + j) = z + j
      BY <1>1, <2>2
    <3>2. z + (j + 1) \in z..(z + Span - 1)
      BY <1>1, <1>1a, <3>0
    <3>3. PICK k \in s..i : Minute(b, k) = z + (j + 1)
      BY <2>0, <3>2
    <3> DEFINE l == s + j
               r == s + (j + 1)
    <3>4. l \in s..i /\ l \in 1..Len(b) /\ k \in 1..Len(b) /\ Minute(b, l) < Minute(b, k) /\ r = l + 1 /\ l \in Nat
      BY <1>1, <1>1a, <3>0, <3>1, <3>3
    <3> HIDE DEF l, r
    <3>5. l < k
      BY <1>8, <3>4
    <3>6. r \in s..i /\ r <= k /\ k \in Nat
      BY <1>1, <3>4, <3>5
    <3>7. Minute(b, k) - Minute(b, r) >= k - r /\ Minute(b, r) - Minute(b, l) >= r - l
      BY <1>5, <3>4, <3>6
    <3>8. Minute(b, r) \in Nat /\ Minute(b, l) = z + j /\ r \in Nat
      <4>1. r \in 1..Len(b)
        BY <1>1, <3>6
      <4> QED
        BY <1>2, <3>1, <4>1 DEF l
    <3>9. Minute(b, r) = z + (j + 1)
      BY <1>1a, <3>0, <3>3, <3>4, <3>6, <3>7, <3>8
    <3> QED
      BY <3>6, <3>9 DEF r
  <2>3. T = Nat
    <3>1. T \in SUBSET Nat
      OBVIOUS
    <3> HIDE DEF T
    <3> QED
      BY <2>1, <2>2, <3>1, Induct
  <2>4. Span - 1 \in Nat
    BY <1>1
  <2>5. Span - 1 \in T
    <3> HIDE DEF T
    <3> QED
      BY <2>3, <2>4
  <2>6. s + (Span - 1) <= i
    BY <1>1, <2>5
  <2> QED
    BY <1>1, <1>10, <2>6
<1> QED
  BY <1>10, <1>11, <1>12 DEF z

-----------------------------------------------------------------------------
Bars    == [out : Seq(Frames), cur : Seq(Minutes), key : Int]
Flushed(a) == a.out \o Folded(a.cur, a.key)

LEMMA FoldedType ==
  ASSUME NEW g \in Seq(Minutes), NEW q \in Int
  PROVE  /\ Folded(g, q) \in Seq(Frames)
         /\ Len(g) # Span => Folded(g, q) = << >>
         /\ Len(g) = Span => \E fr \in Frames : Folded(g, q) = <<fr>> /\ fr.t = q /\ fr.open = g[1].px /\ fr.close = g[Span].px
<1>1. Span \in Nat \ {0}
  BY ResAssumption
<1>2. Len(g) # Span => Folded(g, q) = << >>
  BY DEF Folded
<1>3. ASSUME Len(g) = Span
      PROVE  \E fr \in Frames : Folded(g, q) = <<fr>> /\ fr.t = q /\ fr.open = g[1].px /\ fr.close = g[Span].px
  <2> DEFINE P == {g[k].px : k \in DOMAIN g}
             hi == MostOf(P)
             lo == LeastOf(P)
             fr == [t |-> q, open |-> g[1].px, close |-> g[Span].px, high |-> hi, low |-> lo]
  <2>1. DOMAIN g = 1..Span /\ \A k \in 1..Span : g[k] \in Minutes
    BY <1>1, <1>3
  <2>2. \A k \in 1..Span : g[k].px \in {1, 2}
    BY <2>1 DEF Minutes
  <2>3. P \subseteq {1, 2} /\ g[1].px \in P
    BY <1>1, <2>1, <2>2
  <2>4. Folded(g, q) = <<fr>>
    BY <1>3 DEF Folded
  <2> HIDE DEF P
  <2>5. hi \in {1, 2} /\ lo \in {1, 2}
    <3>1. P \in SUBSET Int
      BY <2>3
    <3>2. CASE 1 \in P /\ 2 \in P
      <4>1. \A y \in P : 1 <= y /\ y <= 2
        BY <2>3
      <4> QED
        BY <3>1, <3>2, <4>1, LeastOfIs, MostOfIs
    <3>3. CASE P = {1}
      <4>1. \A y \in P : 1 <= y /\ y <= 1
        BY <3>3
      <4>2. 1 \in P
        BY <3>3
      <4> QED
        BY <3>1, <4>1, <4>2, LeastOfIs, MostOfIs
    <3>4. CASE P = {2}
      <4>1. \A y \in P : 2 <= y /\ y <= 2
        BY <3>4
      <4>2. 2 \in P
        BY <3>4
      <4> QED
        BY <3>1, <4>1, <4>2, LeastOfIs, MostOfIs
    <3> QED
      BY <2>3, <3>2, <3>3, <3>4
  <2>6. g[1].px \in {1, 2} /\ g[Span].px \in {1, 2}
    BY <1>1, <2>2
  <2> HIDE DEF hi, lo
  <2>7. fr \in Frames /\ fr.t = q /\ fr.open = g[1].px /\ fr.close = g[Span].px
    BY <2>5, <2>6 DEF Frames
  <2> HIDE DEF fr
  <2> QED
    BY <2>4, <2>7
<1>4. Folded(g, q) \in Seq(Frames)
  <2>1. CASE Len(g) = Span
    <3>1. PICK fr \in Frames : Folded(g, q) = <<fr>>
      BY <1>3, <2>1
    <3>2. <<fr>> \in Seq(Frames)
      OBVIOUS
    <3> QED
      BY <3>1, <3>2
  <2>2. CASE Len(g) # Span
    BY <1>2, <2>2
  <2> QED
    BY <2>1, <2>2
<1> QED
  BY <1>2, <1>3, <1>4

LEMMA IntoBucketIs ==
  ASSUME NEW a \in Bars, NEW x \in Minutes
  PROVE  /\ IntoBucket(a, x) \in Bars /\ BucketNo(x.t) \in Nat
         /\ IntoBucket(a, x).key = BucketNo(x.t)
         /\ BucketNo(x.t) = a.key =>
              IntoBucket(a, x).out = a.out /\ IntoBucket(a, x).cur = Append(a.cur, x)
         /\ BucketNo(x.t) # a.key =>
              IntoBucket(a, x).out = Flushed(a) /\ IntoBucket(a, x).cur = <<x>>
<1>1. a.out \in Seq(Frames) /\ a.cur \in Seq(Minutes) /\ a.key \in Int /\ x.t \in Nat
  BY DEF Bars, Minutes
<1>2. BucketNo(x.t) \in Nat
  BY <1>1, BucketIs
<1>3. Folded(a.cur, a.key) \in Seq(Frames)
  BY <1>1, FoldedType
<1>4. Flushed(a) \in Seq(Frames)
  BY <1>1, <1>3, ConcatProperties DEF Flushed
<1>5. CASE BucketNo(x.t) = a.key
  <2> DEFINE c == Append(a.cur, x)
             r == [a EXCEPT !.cur = c]
  <2>1. IntoBucket(a, x) = r
    BY <1>5 DEF IntoBucket, BucketNo
  <2>2. c \in Seq(Minutes)
    BY <1>1
  <2> HIDE DEF c
  <2>3. r \in Bars /\ r.key = a.key /\ r.out = a.out /\ r.cur = c
    BY <1>1, <2>2 DEF Bars
  <2> HIDE DEF r
  <2> QED
    BY <1>2, <1>5, <2>1, <2>3 DEF c
<1>6. CASE BucketNo(x.t) # a.key
  <2> DEFINE o == Flushed(a)
             c == <<x>>
             k == BucketNo(x.t)
             r == [out |-> o, cur |-> c, key |-> k]
  <2>1. IntoBucket(a, x) = r
    BY <1>6 DEF IntoBucket, BucketNo, Flushed
  <2>2. c \in Seq(Minutes) /\ o \in Seq(Frames) /\ k \in Int
    BY <1>2, <1>4
  <2> HIDE DEF c, o, k
  <2>3. r \in Bars /\ r.key = k /\ r.out = o /\ r.cur = c
    BY <2>2 DEF Bars
  <2> HIDE DEF r
  <2> QED
    BY <1>2, <1>6, <2>1, <2>3 DEF c, o, k
<1> QED
  BY <1>5, <1>6

NoBars == [out |-> << >>, cur |-> << >>, key |-> NA]
Buckets(f, b) ==
  /\ f \in [0..Len(b) -> Bars] /\ f[0] = NoBars
  /\ \A i \in 1..Len(b) : f[i] = IntoBucket(f[i - 1], b[i])

LEMMA AggregateIs ==
  ASSUME NEW b \in Seq(Minutes)
  PROVE  \E f : Buckets(f, b) /\ Aggregate(b) = Flushed(f[Len(b)])
<1> DEFINE n == Len(b)
           e == NoBars
           step == [i \in 1..n |-> [a \in Bars |-> IntoBucket(a, b[i])]]
           Is(g) == g = [i \in 0..n |-> IF i = 0 THEN NoBars ELSE IntoBucket(g[i - 1], b[i])]
<1>1. /\ n \in Nat
      /\ \A i \in 1..n : b[i] \in Minutes
  OBVIOUS
<1>3. e \in Bars
  BY DEF NoBars, Bars, NA
<1>4. \A i \in 1..n, a \in Bars : step[i][a] = IntoBucket(a, b[i])
  OBVIOUS
<1>5. step \in [1..n -> [Bars -> Bars]]
  BY <1>1, IntoBucketIs
<1> HIDE DEF step, e, n
<1>6. PICK f \in [0..n -> Bars] : f[0] = e /\ \A i \in 1..n : f[i] = step[i][f[i - 1]]
  <2>1. \E f : Loops(f, Bars, e, n, step)
    BY <1>1, <1>3, <1>5, LoopExists
  <2> QED
    BY <2>1 DEF Loops
<1>7. \A i \in 1..n : f[i] = IntoBucket(f[i - 1], b[i])
  <2> TAKE i \in 1..n
  <2>1. f[i - 1] \in Bars
    BY <1>1, <1>6
  <2> QED
    BY <1>4, <1>6, <2>1
<1>8. Is(f)
  <2>1. \A i \in 0..n : f[i] = IF i = 0 THEN NoBars ELSE IntoBucket(f[i - 1], b[i])
    <3> TAKE i \in 0..n
    <3>1. CASE i = 0
      BY <1>6, <3>1 DEF e
    <3>2. CASE i # 0
      <4>1. i \in 1..n
        BY <1>1, <3>2
      <4> QED
        BY <1>7, <3>2, <4>1
    <3> QED
      BY <3>1, <3>2
  <2> QED
    BY <1>6, <2>1
<1>9. ASSUME NEW g, Is(g) PROVE g[n] = f[n]
  <2>1. g[0] = f[0]
    BY <1>1, <1>6, <1>9 DEF e
  <2>2. ASSUME NEW i \in 1..n, g[i - 1] = f[i - 1] PROVE g[i] = f[i]
    <3>1. i \in 0..n /\ i # 0
      BY <1>1
    <3>2. g[i] = IntoBucket(g[i - 1], b[i])
      BY <1>9, <3>1
    <3> QED
      BY <1>7, <2>2, <3>2
  <2>3. \A i \in 0..n : g[i] = f[i]
    BY <1>1, <2>1, <2>2, SameLoop DEF SameSteps
  <2> QED
    BY <1>1, <2>3
<1> DEFINE end == (CHOOSE g : Is(g))[n]
<1>10. Aggregate(b) = Flushed(end)
  BY Zenon DEF Aggregate, Flushed, NoBars, n
<1>11. end = f[n]
  <2>2. Is(CHOOSE g : Is(g))
    BY <1>8, Zenon
  <2> HIDE DEF Is
  <2> QED
    BY <1>9, <2>2
<1> HIDE DEF end
<1> QED
  BY <1>6, <1>7, <1>10, <1>11 DEF Buckets, n, e

-----------------------------------------------------------------------------
(* The frames of the buckets before bound. *)
FrameOK(fr, b, i) ==
  /\ fr \in Frames /\ fr.t \in Nat /\ WholeIn(b, i, fr.t)
  /\ \E j \in 1..i : Minute(b, j) = fr.t * Span /\ fr.open = b[j].px
  /\ \E j \in 1..i : Minute(b, j) = fr.t * Span + Span - 1 /\ fr.close = b[j].px

FramesOK(out, b, i, bound) ==
  /\ out \in Seq(Frames)
  /\ \A k \in 1..Len(out) : FrameOK(out[k], b, i) /\ out[k].t < bound
  /\ \A j, k \in 1..Len(out) : j < k => out[j].t < out[k].t
  /\ \A q \in Nat : q < bound /\ WholeIn(b, i, q) => \E k \in 1..Len(out) : out[k].t = q

LEMMA FramesLonger ==
  ASSUME NEW b \in Seq(Minutes), NEW i \in Nat, NEW k, k = i + 1, k <= Len(b), NEW out,
         NEW lo \in Nat, NEW hi \in Nat, lo <= hi, FramesOK(out, b, i, lo),
         \A j \in 1..i : BucketNo(Minute(b, j)) < lo \/ BucketNo(Minute(b, j)) >= hi,
         BucketNo(Minute(b, k)) >= hi
  PROVE  FramesOK(out, b, k, hi)
<1>0. Span \in Nat \ {0} /\ 1..i \subseteq 1..k /\ 1..k \subseteq 1..Len(b) /\ (1..k) \ {k} \subseteq 1..i
  BY ResAssumption
<1>1. \A q \in Nat : WholeIn(b, i, q) => WholeIn(b, k, q)
  BY <1>0 DEF WholeIn
<1>2. ASSUME NEW q \in Nat, q < hi, WholeIn(b, k, q)
      PROVE  WholeIn(b, i, q) /\ q < lo
  <2> DEFINE z == q * Span
  <2>1. z \in Nat
    BY <1>0
  <2>2. \A m \in z..(z + Span - 1) : BucketNo(m) = q
    <3> TAKE m \in z..(z + Span - 1)
    <3>1. m \in Nat
      BY <1>0, <2>1
    <3> QED
      BY <1>0, <3>1, BucketOf
  <2>3. \A m \in z..(z + Span - 1) : \E j \in 1..i : Minute(b, j) = m
    <3> TAKE m \in z..(z + Span - 1)
    <3>1. PICK j \in 1..k : Minute(b, j) = m
      BY <1>2 DEF WholeIn
    <3>2. BucketNo(m) = q
      BY <2>2
    <3>3. j # k
      BY <1>2, <3>1, <3>2
    <3> QED
      BY <1>0, <3>1, <3>3
  <2>4. WholeIn(b, i, q)
    BY <2>3 DEF WholeIn
  <2> HIDE DEF z
  <2>5. z \in z..(z + Span - 1)
    BY <1>0, <2>1
  <2>6. PICK j \in 1..i : Minute(b, j) = z
    BY <2>3, <2>5
  <2>7. BucketNo(Minute(b, j)) = q
    BY <2>2, <2>5, <2>6
  <2>8. q < lo
    BY <1>2, <2>7
  <2> QED
    BY <2>4, <2>8
<1>3. ASSUME NEW fr, FrameOK(fr, b, i) PROVE FrameOK(fr, b, k)
  BY <1>0, <1>1, <1>3 DEF FrameOK
<1>4. ASSUME NEW j \in 1..Len(out) PROVE FrameOK(out[j], b, k) /\ out[j].t < hi
  <2>1. FrameOK(out[j], b, i) /\ out[j].t < lo
    BY DEF FramesOK
  <2>2. out[j].t \in Nat
    BY <2>1 DEF FrameOK
  <2> QED
    BY <1>3, <2>1, <2>2
<1>5. \A q \in Nat : q < hi /\ WholeIn(b, k, q) => \E j \in 1..Len(out) : out[j].t = q
  BY <1>2 DEF FramesOK
<1> QED
  BY <1>4, <1>5 DEF FramesOK

GroupBars(g, b, s, i) == g = SubSeq(b, s, i)

LEMMA FoldedFrame ==
  ASSUME NEW b \in Seq(Minutes), Forward(b), NEW s, NEW i, NEW q, Group(b, s, i, q),
         NEW g, GroupBars(g, b, s, i)
  PROVE  /\ q \in Nat /\ g \in Seq(Minutes)
         /\ WholeIn(b, i, q) => \E fr : FrameOK(fr, b, i) /\ fr.t = q /\ Folded(g, q) = <<fr>>
         /\ ~WholeIn(b, i, q) => Folded(g, q) = << >>
<1>1. /\ s \in 1..i /\ i \in 1..Len(b) /\ q \in Nat /\ Len(b) \in Nat /\ Span \in Nat \ {0}
  BY MinuteIs, ResAssumption DEF Group
<1>2a. g = SubSeq(b, s, i)
  BY DEF GroupBars
<1>2. /\ g \in Seq(Minutes)
      /\ Len(g) = i - s + 1
      /\ \A k \in 1..Len(g) : g[k] = b[s + k - 1]
  BY <1>1, <1>2a
<1>3. ASSUME ~WholeIn(b, i, q) PROVE Folded(g, q) = << >>
  <2>1. Len(g) # Span
    BY <1>2, <1>3, GroupSize
  <2>2. q \in Int
    BY <1>1
  <2> QED
    BY <1>2, <2>1, <2>2, FoldedType
<1>4. ASSUME WholeIn(b, i, q)
      PROVE  \E fr : FrameOK(fr, b, i) /\ fr.t = q /\ Folded(g, q) = <<fr>>
  <2>1. Len(g) = Span /\ Minute(b, s) = q * Span /\ Minute(b, i) = q * Span + Span - 1
    BY <1>2, <1>4, GroupSize
  <2>2. PICK fr \in Frames : Folded(g, q) = <<fr>> /\ fr.t = q /\ fr.open = g[1].px /\ fr.close = g[Span].px
    <3>1. q \in Int
      BY <1>1
    <3> QED
      BY <1>2, <2>1, <3>1, FoldedType
  <2>3. g[1] = b[s] /\ g[Span] = b[i]
    <3>1. 1 \in 1..Len(g) /\ Span \in 1..Len(g) /\ s + 1 - 1 = s /\ s + Span - 1 = i
      BY <1>1, <1>2, <2>1
    <3> QED
      BY <1>2, <3>1
  <2>4. s \in 1..i /\ i \in 1..i
    BY <1>1
  <2>5. FrameOK(fr, b, i)
    BY <1>1, <1>4, <2>1, <2>2, <2>3, <2>4 DEF FrameOK
  <2> QED
    BY <2>2, <2>5
<1> QED
  BY <1>1, <1>2, <1>3, <1>4

LEMMA FramesFlushed ==
  ASSUME NEW b \in Seq(Minutes), Forward(b), NEW s, NEW i, NEW q, Group(b, s, i, q),
         NEW g, GroupBars(g, b, s, i), NEW out, FramesOK(out, b, i, q), NEW r, r = q + 1
  PROVE  FramesOK(out \o Folded(g, q), b, i, r)
<1>1. q \in Nat /\ out \in Seq(Frames) /\ Len(out) \in Nat /\ g \in Seq(Minutes)
  <2>1. q \in Nat /\ g \in Seq(Minutes)
    BY FoldedFrame
  <2> QED
    BY <2>1 DEF FramesOK
<1>2. \A k \in 1..Len(out) : FrameOK(out[k], b, i) /\ out[k].t < q /\ out[k].t \in Nat
  BY DEF FramesOK, FrameOK
<1>3. \A p \in Nat : p < q /\ WholeIn(b, i, p) => \E k \in 1..Len(out) : out[k].t = p
  BY DEF FramesOK
<1>4. \A j, k \in 1..Len(out) : j < k => out[j].t < out[k].t
  BY DEF FramesOK
<1>5. CASE ~WholeIn(b, i, q)
  <2>0. Folded(g, q) = << >>
    BY <1>5, FoldedFrame
  <2>1. out \o Folded(g, q) = out
    BY <1>1, <2>0
  <2>2. \A k \in 1..Len(out) : FrameOK(out[k], b, i) /\ out[k].t < r
    BY <1>1, <1>2
  <2>3. \A p \in Nat : p < r /\ WholeIn(b, i, p) => \E k \in 1..Len(out) : out[k].t = p
    BY <1>1, <1>3, <1>5
  <2> QED
    BY <1>1, <1>4, <2>1, <2>2, <2>3 DEF FramesOK
<1>6. CASE WholeIn(b, i, q)
  <2>1. PICK fr : FrameOK(fr, b, i) /\ fr.t = q /\ Folded(g, q) = <<fr>>
    BY <1>6, FoldedFrame
  <2> DEFINE o == out \o <<fr>>
             n == Len(out)
  <2>2. fr \in Frames
    BY <2>1 DEF FrameOK
  <2>3. o \in Seq(Frames) /\ Len(o) = n + 1 /\ o[n + 1] = fr /\ \A k \in 1..n : o[k] = out[k]
    BY <1>1, <2>2
  <2> HIDE DEF o
  <2>4. ASSUME NEW k \in 1..(n + 1) PROVE FrameOK(o[k], b, i) /\ o[k].t < r
    <3>1. CASE k = n + 1
      BY <1>1, <2>1, <2>3, <3>1
    <3>2. CASE k # n + 1
      <4>1. k \in 1..n
        BY <1>1, <3>2
      <4>2. o[k] = out[k] /\ FrameOK(out[k], b, i) /\ out[k].t < q /\ out[k].t \in Nat
        BY <1>2, <2>3, <4>1
      <4> QED
        BY <1>1, <4>2
    <3> QED
      BY <3>1, <3>2
  <2>5. ASSUME NEW j \in 1..(n + 1), NEW k \in 1..(n + 1), j < k PROVE o[j].t < o[k].t
    <3>0. j \in 1..n
      BY <1>1, <2>5
    <3>1. CASE k = n + 1
      BY <1>2, <2>1, <2>3, <3>0, <3>1
    <3>2. CASE k # n + 1
      <4>1. k \in 1..n
        BY <1>1, <3>2
      <4> QED
        BY <1>4, <2>3, <2>5, <3>0, <4>1
    <3> QED
      BY <3>1, <3>2
  <2>6. ASSUME NEW p \in Nat, p < r, WholeIn(b, i, p) PROVE \E k \in 1..(n + 1) : o[k].t = p
    <3>1. CASE p = q
      BY <1>1, <2>1, <2>3, <3>1
    <3>2. CASE p # q
      <4>1. p < q
        BY <1>1, <2>6, <3>2
      <4>2. PICK k \in 1..n : out[k].t = p
        BY <1>3, <2>6, <4>1
      <4>3. k \in 1..(n + 1)
        BY <1>1
      <4> QED
        BY <2>3, <4>2, <4>3
    <3> QED
      BY <3>1, <3>2
  <2>7. FramesOK(o, b, i, r)
    BY <2>3, <2>4, <2>5, <2>6 DEF FramesOK
  <2> QED
    BY <2>1, <2>7 DEF o
<1> QED
  BY <1>5, <1>6

-----------------------------------------------------------------------------
Begins(s, r) == Len(s) <= Len(r) /\ \A k \in 1..Len(s) : s[k] = r[k]

LEMMA BeginsConcat ==
  ASSUME NEW S, NEW s \in Seq(S), NEW r \in Seq(S)
  PROVE  Begins(s, s \o r)
BY ConcatProperties DEF Begins

LEMMA BeginsFarther ==
  ASSUME NEW S, NEW s \in Seq(S), NEW r \in Seq(S), NEW u \in Seq(S), Begins(s, r), Begins(r, u)
  PROVE  Begins(s, u)
BY DEF Begins

LEMMA FlushedType ==
  ASSUME NEW a \in Bars
  PROVE  /\ Flushed(a) \in Seq(Frames) /\ a.out \in Seq(Frames) /\ a.cur \in Seq(Minutes) /\ a.key \in Int
         /\ Folded(a.cur, a.key) \in Seq(Frames)
<1>1. a.out \in Seq(Frames) /\ a.cur \in Seq(Minutes) /\ a.key \in Int
  BY DEF Bars
<1>2. Folded(a.cur, a.key) \in Seq(Frames)
  BY <1>1, FoldedType
<1> QED
  BY <1>1, <1>2, ConcatProperties DEF Flushed

AggOK(a, b, i) ==
  /\ i \in 1..Len(b) /\ a \in Bars /\ FramesOK(a.out, b, i, a.key)
  /\ \E s : Group(b, s, i, a.key) /\ GroupBars(a.cur, b, s, i)

LEMMA AggStarts ==
  ASSUME NEW b \in Seq(Minutes), Forward(b), b # << >>
  PROVE  AggOK(IntoBucket(NoBars, b[1]), b, 1)
<1> DEFINE c == IntoBucket(NoBars, b[1])
<1>1. 1 \in 1..Len(b) /\ b[1] \in Minutes /\ NoBars \in Bars /\ NoBars.key = NA /\ NoBars.cur = << >> /\ NoBars.out = << >>
  BY DEF NoBars, Bars, NA
<1>2. BucketNo(b[1].t) \in Nat /\ BucketNo(b[1].t) # NA
  BY <1>1, IntoBucketIs DEF NA
<1>3. c \in Bars /\ c.key = BucketNo(b[1].t) /\ c.out = Flushed(NoBars) /\ c.cur = <<b[1]>>
  BY <1>1, <1>2, IntoBucketIs
<1>4. c.out = << >>
  <2>1. Folded(NoBars.cur, NoBars.key) = << >>
    <3>1. Len(<< >>) # Span
      BY ResAssumption
    <3> QED
      BY <1>1, <3>1 DEF Folded
  <2> QED
    BY <1>1, <1>3, <2>1 DEF Flushed
<1> HIDE DEF c
<1>5. Minute(b, 1) = b[1].t
  BY DEF Minute
<1>6. FramesOK(c.out, b, 0, 0)
  BY <1>4 DEF FramesOK
<1>7. FramesOK(c.out, b, 1, c.key)
  <2>1. c.key \in Nat /\ 0 <= c.key /\ 1 = 0 + 1 /\ 1 <= Len(b) /\ BucketNo(Minute(b, 1)) >= c.key
    BY <1>1, <1>2, <1>3, <1>5
  <2> QED
    BY <1>6, <2>1, FramesLonger
<1>8. Group(b, 1, 1, c.key)
  BY <1>1, <1>2, <1>3, <1>5 DEF Group
<1>9. GroupBars(c.cur, b, 1, 1)
  BY <1>1, <1>3 DEF GroupBars
<1> QED
  BY <1>1, <1>3, <1>7, <1>8, <1>9 DEF AggOK, c

LEMMA AggSteps ==
  ASSUME NEW b \in Seq(Minutes), Forward(b), NEW i, NEW a, AggOK(a, b, i),
         NEW k, k = i + 1, k <= Len(b), NEW c, c = IntoBucket(a, b[k])
  PROVE  AggOK(c, b, k) /\ Begins(Flushed(a), Flushed(c))
<1>1. /\ i \in 1..Len(b) /\ a \in Bars /\ FramesOK(a.out, b, i, a.key) /\ Len(b) \in Nat
      /\ k \in 1..Len(b)
      /\ k \in Nat
      /\ i \in Nat
  BY DEF AggOK
<1>2. PICK s : Group(b, s, i, a.key) /\ GroupBars(a.cur, b, s, i)
  BY DEF AggOK
<1>3. /\ a.key \in Nat /\ s \in 1..i /\ a.key = BucketNo(Minute(b, i))
      /\ \A j \in s..i : BucketNo(Minute(b, j)) = a.key
      /\ \A j \in 1..(s - 1) : BucketNo(Minute(b, j)) < a.key
  BY <1>2, FoldedFrame DEF Group
<1>4. b[k] \in Minutes /\ Minute(b, k) = b[k].t /\ Minute(b, k) \in Nat /\ Minute(b, i) \in Nat /\ BucketNo(Minute(b, k)) \in Nat
  BY <1>1, MinuteIs DEF Minute
<1>5. a.key <= BucketNo(Minute(b, k))
  <2>1. Minute(b, i) < Minute(b, k)
    BY <1>1 DEF Forward, Minute
  <2> QED
    BY <1>3, <1>4, <2>1, BucketGrows
<1>6. c \in Bars /\ c.key = BucketNo(Minute(b, k))
  BY <1>1, <1>4, IntoBucketIs
<1>7. \A j \in 1..i : j \in s..i \/ j \in 1..(s - 1)
  BY <1>1, <1>3
<1>8. CASE BucketNo(Minute(b, k)) = a.key
  <2>1. c.out = a.out /\ c.cur = Append(a.cur, b[k]) /\ c.key = a.key
    <3>1. BucketNo(b[k].t) = a.key
      BY <1>4, <1>8
    <3> QED
      BY <1>1, <1>4, <1>6, <1>8, <3>1, IntoBucketIs
  <2>2. FramesOK(c.out, b, k, c.key)
    <3>1. \A j \in 1..i : BucketNo(Minute(b, j)) < a.key \/ BucketNo(Minute(b, j)) >= a.key
      BY <1>3, <1>7
    <3>2. BucketNo(Minute(b, k)) >= a.key /\ a.key <= a.key
      BY <1>3, <1>8
    <3> QED
      BY <1>1, <1>3, <2>1, <3>1, <3>2, FramesLonger
  <2>3. Group(b, s, k, c.key)
    <3>1. \A j \in s..k : j = k \/ j \in s..i
      BY <1>1, <1>3
    <3>2. s \in 1..k
      BY <1>1, <1>3
    <3> QED
      BY <1>1, <1>3, <1>8, <2>1, <3>1, <3>2 DEF Group
  <2>4. GroupBars(c.cur, b, s, k)
    <3>1. a.cur = SubSeq(b, s, i)
      BY <1>2 DEF GroupBars
    <3>2. SubSeq(b, s, k) = Append(SubSeq(b, s, i), b[k])
      <4> DEFINE x == SubSeq(b, s, k)
                 y == SubSeq(b, s, i)
                 z == Append(y, b[k])
      <4>1. x \in Seq(Minutes) /\ Len(x) = k - s + 1 /\ \A j \in 1..(k - s + 1) : x[j] = b[s + j - 1]
        BY <1>1, <1>3
      <4>2. y \in Seq(Minutes) /\ Len(y) = i - s + 1 /\ \A j \in 1..(i - s + 1) : y[j] = b[s + j - 1]
        BY <1>1, <1>3
      <4> HIDE DEF y
      <4>3. z \in Seq(Minutes) /\ Len(z) = k - s + 1 /\ (\A j \in 1..(i - s + 1) : z[j] = y[j]) /\ z[k - s + 1] = b[k]
        BY <1>1, <1>3, <1>4, <4>2
      <4> HIDE DEF x, z
      <4>4. \A j \in 1..(k - s + 1) : x[j] = z[j]
        <5> TAKE j \in 1..(k - s + 1)
        <5>1. CASE j = k - s + 1
          BY <1>1, <1>3, <4>1, <4>3, <5>1
        <5>2. CASE j # k - s + 1
          <6>1. j \in 1..(i - s + 1)
            BY <1>1, <1>3, <5>2
          <6> QED
            BY <4>1, <4>2, <4>3, <6>1
        <5> QED
          BY <5>1, <5>2
      <4>5. x = z
        BY <4>1, <4>3, <4>4, SeqEqual
      <4> QED
        BY <4>5 DEF x, y, z
    <3> QED
      BY <2>1, <3>1, <3>2 DEF GroupBars
  <2>5. Flushed(a) = a.out
    <3>1. k - s + 1 <= Span
      BY <1>1, <2>3, GroupSize
    <3>2. i - s + 1 # Span
      BY <1>1, <1>3, <3>1, ResAssumption
    <3>3. ~WholeIn(b, i, a.key)
      BY <1>2, <3>2, GroupSize
    <3>4. Folded(a.cur, a.key) = << >>
      BY <1>2, <3>3, FoldedFrame
    <3>5. a.out \in Seq(Frames)
      BY <1>1, FlushedType
    <3> QED
      BY <3>4, <3>5 DEF Flushed
  <2>6. Begins(Flushed(a), Flushed(c))
    <3>1. c.out \in Seq(Frames) /\ Folded(c.cur, c.key) \in Seq(Frames)
      BY <1>6, FlushedType
    <3>2. Begins(c.out, Flushed(c))
      BY <3>1, BeginsConcat DEF Flushed
    <3> QED
      BY <2>1, <2>5, <3>2
  <2> QED
    BY <1>1, <1>6, <2>2, <2>3, <2>4, <2>6 DEF AggOK
<1>9. CASE BucketNo(Minute(b, k)) # a.key
  <2>1. c.out = Flushed(a) /\ c.cur = <<b[k]>>
    BY <1>1, <1>4, <1>9, IntoBucketIs
  <2> DEFINE lo == a.key + 1
  <2>2. lo \in Nat /\ lo <= c.key /\ c.key \in Nat
    BY <1>3, <1>4, <1>5, <1>6, <1>9
  <2>3. FramesOK(c.out, b, i, lo)
    <3>1. FramesOK(a.out \o Folded(a.cur, a.key), b, i, lo)
      BY <1>1, <1>2, FramesFlushed
    <3> QED
      BY <2>1, <3>1 DEF Flushed
  <2>4. \A j \in 1..i : BucketNo(Minute(b, j)) < lo \/ BucketNo(Minute(b, j)) >= c.key
    <3> TAKE j \in 1..i
    <3>1. j \in 1..Len(b)
      BY <1>1
    <3>2. BucketNo(Minute(b, j)) \in Nat
      BY <3>1, MinuteIs
    <3>3. BucketNo(Minute(b, j)) = a.key \/ BucketNo(Minute(b, j)) < a.key
      BY <1>3, <1>7
    <3> QED
      BY <1>3, <3>2, <3>3
  <2> HIDE DEF lo
  <2>5. FramesOK(c.out, b, k, c.key)
    <3>1. BucketNo(Minute(b, k)) >= c.key
      BY <1>4, <1>6
    <3> QED
      BY <1>1, <2>2, <2>3, <2>4, <3>1, FramesLonger
  <2>6. Group(b, k, k, c.key)
    <3>1. \A j \in 1..(k - 1) : BucketNo(Minute(b, j)) < c.key
      <4> TAKE j \in 1..(k - 1)
      <4>1. j \in 1..i /\ j \in 1..Len(b)
        BY <1>1
      <4>2. BucketNo(Minute(b, j)) \in Nat
        BY <4>1, MinuteIs
      <4>3. BucketNo(Minute(b, j)) = a.key \/ BucketNo(Minute(b, j)) < a.key
        BY <1>3, <1>7, <4>1
      <4> QED
        BY <1>3, <2>2, <4>2, <4>3 DEF lo
    <3>2. \A j \in k..k : j = k
      BY <1>1
    <3> QED
      BY <1>1, <1>6, <3>1, <3>2 DEF Group
  <2>7. GroupBars(c.cur, b, k, k)
    <3> DEFINE x == SubSeq(b, k, k)
    <3>2. x \in Seq(Minutes) /\ Len(x) = 1 /\ x[1] = b[k]
      <4>1. x \in Seq(Minutes) /\ Len(x) = k - k + 1 /\ \A j \in 1..(k - k + 1) : x[j] = b[k + j - 1]
        BY <1>1
      <4> HIDE DEF x
      <4>2. k - k + 1 = 1 /\ k + 1 - 1 = k /\ 1 \in 1..(k - k + 1)
        BY <1>1
      <4> QED
        BY <4>1, <4>2
    <3>3. <<b[k]>> \in Seq(Minutes) /\ Len(<<b[k]>>) = 1 /\ <<b[k]>>[1] = b[k]
      BY <1>4
    <3> HIDE DEF x
    <3>4. \A j \in 1..1 : x[j] = <<b[k]>>[j]
      BY <3>2, <3>3
    <3>5. x = <<b[k]>>
      BY <3>2, <3>3, <3>4, SeqEqual
    <3>1. SubSeq(b, k, k) = <<b[k]>>
      BY <3>5 DEF x
    <3> QED
      BY <2>1, <3>1 DEF GroupBars
  <2>8. Begins(Flushed(a), Flushed(c))
    <3>1. c.out \in Seq(Frames) /\ Folded(c.cur, c.key) \in Seq(Frames)
      BY <1>6, FlushedType
    <3>2. Begins(c.out, Flushed(c))
      BY <3>1, BeginsConcat DEF Flushed
    <3> QED
      BY <2>1, <3>2
  <2> QED
    BY <1>1, <1>6, <2>5, <2>6, <2>7, <2>8 DEF AggOK
<1> QED
  BY <1>8, <1>9

-----------------------------------------------------------------------------
LEMMA AggAll ==
  ASSUME NEW b \in Seq(Minutes), Forward(b), b # << >>, NEW f, Buckets(f, b)
  PROVE  \A i \in 1..Len(b) : AggOK(f[i], b, i)
<1> DEFINE n == Len(b)
           T == {i \in Nat : i + 1 <= n => AggOK(f[i + 1], b, i + 1)}
<1>0. /\ n \in Nat
      /\ n >= 1
      /\ f[0] = NoBars
      /\ \A i \in 1..n : f[i] = IntoBucket(f[i - 1], b[i])
  BY DEF Buckets
<1>1. 0 \in T
  <2>1. f[1] = IntoBucket(NoBars, b[1])
    BY <1>0
  <2>2. AggOK(f[1], b, 1)
    BY <2>1, AggStarts
  <2> QED
    BY <2>2
<1>2. ASSUME NEW i \in T PROVE i + 1 \in T
  <2>0. i \in Nat
    OBVIOUS
  <2> DEFINE j == i + 1
             k == j + 1
  <2> SUFFICES ASSUME k <= n PROVE AggOK(f[k], b, k)
    OBVIOUS
  <2>1. k \in 1..n /\ k - 1 = j /\ k = j + 1 /\ k <= Len(b)
    BY <1>0, <2>0
  <2>2. AggOK(f[j], b, j)
    BY <1>0, <1>2, <2>1
  <2>3. f[k] = IntoBucket(f[j], b[k])
    BY <1>0, <2>1
  <2> HIDE DEF j, k
  <2> QED
    BY <2>1, <2>2, <2>3, AggSteps
<1>3. T = Nat
  <2>1. T \in SUBSET Nat
    OBVIOUS
  <2> HIDE DEF T
  <2> QED
    BY <1>1, <1>2, <2>1, Induct
<1>4. ASSUME NEW i \in 1..n PROVE AggOK(f[i], b, i)
  <2>1. i - 1 \in Nat /\ (i - 1) + 1 = i /\ i <= n
    BY <1>0
  <2>2. i - 1 \in T
    BY <1>3, <2>1
  <2> QED
    BY <2>1, <2>2
<1> QED
  BY <1>4

LEMMA AggBegins ==
  ASSUME NEW b \in Seq(Minutes), Forward(b), b # << >>, NEW f, Buckets(f, b), NEW l \in 1..Len(b)
  PROVE  Begins(Flushed(f[l]), Flushed(f[Len(b)]))
<1> DEFINE n == Len(b)
           T == {d \in Nat : l + d <= n => Begins(Flushed(f[l]), Flushed(f[l + d]))}
<1>0. /\ n \in Nat
      /\ \A i \in 1..n : f[i] = IntoBucket(f[i - 1], b[i])
      /\ \A i \in 1..n : AggOK(f[i], b, i)
  <2>1. \A i \in 1..n : f[i] = IntoBucket(f[i - 1], b[i])
    BY DEF Buckets
  <2>2. \A i \in 1..n : AggOK(f[i], b, i)
    BY AggAll
  <2>3. n \in Nat
    OBVIOUS
  <2> QED
    BY <2>1, <2>2, <2>3
<1>0a. \A i \in 1..n : Flushed(f[i]) \in Seq(Frames)
  BY <1>0, FlushedType DEF AggOK
<1>1. 0 \in T
  <2>1. Begins(Flushed(f[l]), Flushed(f[l]))
    BY <1>0a DEF Begins
  <2> QED
    BY <2>1
<1>2. ASSUME NEW d \in T PROVE d + 1 \in T
  <2>0. d \in Nat
    OBVIOUS
  <2> DEFINE j == l + d
             k == l + (d + 1)
  <2> SUFFICES ASSUME k <= n PROVE Begins(Flushed(f[l]), Flushed(f[k]))
    OBVIOUS
  <2>1. k \in 1..n /\ j \in 1..n /\ k - 1 = j /\ k = j + 1 /\ k <= Len(b)
    BY <1>0, <2>0
  <2>2. AggOK(f[j], b, j) /\ f[k] = IntoBucket(f[j], b[k])
    BY <1>0, <2>1
  <2>3. Begins(Flushed(f[l]), Flushed(f[j]))
    BY <1>2, <2>1
  <2> HIDE DEF j, k
  <2>4. Begins(Flushed(f[j]), Flushed(f[k]))
    BY <2>1, <2>2, AggSteps
  <2>5. Flushed(f[l]) \in Seq(Frames) /\ Flushed(f[j]) \in Seq(Frames) /\ Flushed(f[k]) \in Seq(Frames)
    BY <1>0a, <2>1
  <2> QED
    BY <2>3, <2>4, <2>5, BeginsFarther
<1>3. T = Nat
  <2>1. T \in SUBSET Nat
    OBVIOUS
  <2> HIDE DEF T
  <2> QED
    BY <1>1, <1>2, <2>1, Induct
<1>4. n - l \in Nat /\ l + (n - l) = n
  BY <1>0
<1>5. n - l \in T
  <2> HIDE DEF T
  <2> QED
    BY <1>3, <1>4
<1> QED
  BY <1>0, <1>4, <1>5

LEMMA BeginsIsPrefix ==
  ASSUME NEW S, NEW s \in Seq(S), NEW r \in Seq(S), Begins(s, r)
  PROVE  IsPrefix(s, r)
<1> DEFINE x == SubSeq(s, 1, Len(s))
           y == SubSeq(r, 1, Len(s))
           n == Len(s)
<1>1. n \in Nat /\ n <= Len(r) /\ \A k \in 1..n : s[k] = r[k]
  BY DEF Begins
<1>2. x \in Seq(S) /\ Len(x) = n /\ \A k \in 1..n : x[k] = s[k]
  BY <1>1
<1>3. y \in Seq(S) /\ Len(y) = n /\ \A k \in 1..n : y[k] = r[k]
  BY <1>1
<1> HIDE DEF x, y
<1>4. x = y
  BY <1>1, <1>2, <1>3, SeqEqual
<1> QED
  BY <1>1, <1>4 DEF IsPrefix, x, y

LEMMA FramesAreExact ==
  ASSUME tape \in Seq(Minutes), Forward(tape), tape # << >>
  PROVE  FramesExact
<1> DEFINE n       == Len(tape)
           At2(m)  == {k \in DOMAIN tape : tape[k].t = m}
           Whole   == {b \in 0..(LastMinute \div Span) : \A m \in (b * Span)..(b * Span + Span - 1) : At2(m) # {}}
           frames  == Aggregate(tape)
           Px(m)   == tape[CHOOSE k \in At2(m) : TRUE].px
<1>1. /\ n \in Nat /\ n >= 1 /\ n \in 1..n
      /\ Span \in Nat \ {0}
      /\ \A k \in 1..n : tape[k] \in Minutes
  BY ResAssumption
<1>2. PICK f : Buckets(f, tape) /\ frames = Flushed(f[n])
  BY AggregateIs
<1>3. /\ \A i \in 1..n : AggOK(f[i], tape, i)
      /\ \A l \in 1..n : Begins(Flushed(f[l]), Flushed(f[n]))
  BY <1>2, AggAll, AggBegins
<1> DEFINE a == f[n]
           q == a.key
           r == q + 1
<1>4. PICK s : Group(tape, s, n, q) /\ GroupBars(a.cur, tape, s, n)
  BY <1>1, <1>3 DEF AggOK
<1>5. q \in Nat /\ q = BucketNo(Minute(tape, n))
  BY <1>4, FoldedFrame DEF Group
<1>6. FramesOK(frames, tape, n, r)
  <2>1. FramesOK(a.out, tape, n, q)
    BY <1>1, <1>3 DEF AggOK
  <2>2. FramesOK(a.out \o Folded(a.cur, q), tape, n, r)
    BY <1>4, <2>1, FramesFlushed
  <2> QED
    BY <1>2, <2>2 DEF Flushed
<1> HIDE DEF frames, a, r, q
<1>7. /\ frames \in Seq(Frames)
      /\ \A k \in 1..Len(frames) : FrameOK(frames[k], tape, n) /\ frames[k].t < r
      /\ \A j, k \in 1..Len(frames) : j < k => frames[j].t < frames[k].t
      /\ \A p \in Nat : p < r /\ WholeIn(tape, n, p) => \E k \in 1..Len(frames) : frames[k].t = p
  BY <1>6 DEF FramesOK
<1>8. LastMinute \div Span = q
  BY <1>1, <1>5 DEF LastMinute, BucketNo, Minute
<1>9. \A m : At2(m) # {} <=> \E k \in 1..n : Minute(tape, k) = m
  BY <1>1 DEF Minute
<1>10. \A p : p \in Whole <=> p \in Nat /\ p < r /\ WholeIn(tape, n, p)
  <2>1. \A p : p \in Whole <=> p \in 0..q /\ \A m \in (p * Span)..(p * Span + Span - 1) : At2(m) # {}
    BY <1>8
  <2>2. \A p : p \in 0..q <=> p \in Nat /\ p < r
    BY <1>5 DEF r
  <2> HIDE DEF Whole, At2
  <2> QED
    BY <1>9, <2>1, <2>2 DEF WholeIn
<1>11. {frames[k].t : k \in DOMAIN frames} = Whole
  <2>1. DOMAIN frames = 1..Len(frames)
    BY <1>7
  <2>2. \A k \in 1..Len(frames) : frames[k].t \in Whole
    BY <1>7, <1>10 DEF FrameOK
  <2>3. \A p \in Whole : \E k \in 1..Len(frames) : frames[k].t = p
    BY <1>7, <1>10
  <2> HIDE DEF Whole
  <2> QED
    BY <2>1, <2>2, <2>3
<1>12. Len(frames) = Cardinality(Whole)
  <2> DEFINE D == 1..Len(frames)
             g == [k \in D |-> frames[k].t]
  <2>0. DOMAIN frames = D /\ Len(frames) \in Nat
    BY <1>7
  <2>1. g \in [D -> Whole]
    BY <1>11, <2>0
  <2> HIDE DEF Whole
  <2>2. \A j, k \in D : g[j] = g[k] => j = k
    <3> SUFFICES ASSUME NEW j \in D, NEW k \in D, frames[j].t = frames[k].t PROVE j = k
      OBVIOUS
    <3>1. frames[j].t \in Nat /\ frames[k].t \in Nat
      BY <1>7 DEF FrameOK
    <3>2. j < k => frames[j].t < frames[k].t
      BY <1>7
    <3>3. k < j => frames[k].t < frames[j].t
      BY <1>7
    <3> QED
      BY <2>0, <3>1, <3>2, <3>3
  <2>3. \A p \in Whole : \E k \in D : g[k] = p
    BY <1>11, <2>0
  <2>4. g \in Bijection(D, Whole)
    BY <2>1, <2>2, <2>3 DEF Bijection, Injection, IsInjective, Surjection
  <2>5. ExistsBijection(D, Whole)
    BY <2>4 DEF ExistsBijection
  <2>6. IsFiniteSet(D) /\ Cardinality(D) = Len(frames)
    <3>1. 1 \in Int /\ Len(frames) \in Int
      BY <2>0
    <3>2. IsFiniteSet(1..Len(frames)) /\ Cardinality(1..Len(frames)) = IF 1 > Len(frames) THEN 0 ELSE Len(frames) - 1 + 1
      BY <3>1, FS_Interval
    <3> QED
      BY <2>0, <3>2
  <2> HIDE DEF D
  <2> QED
    BY <2>5, <2>6, FS_Bijection
<1>13. ASSUME NEW j \in 1..n PROVE Px(Minute(tape, j)) = tape[j].px
  <2>1. At2(Minute(tape, j)) = {j}
    <3>1. \A k \in 1..n : tape[k].t = Minute(tape, j) => k = j
      <4> SUFFICES ASSUME NEW k \in 1..n, tape[k].t = tape[j].t PROVE k = j
        BY DEF Minute
      <4>1. tape[j].t \in Nat
        BY <1>1 DEF Minutes
      <4> QED
        BY <1>1, <4>1 DEF Forward
    <3>2. DOMAIN tape = 1..n
      BY <1>1
    <3> QED
      BY <3>1, <3>2 DEF Minute
  <2> HIDE DEF At2
  <2>2. (CHOOSE k \in At2(Minute(tape, j)) : TRUE) = j
    BY <2>1
  <2> QED
    BY <2>2
<1>14. \A k \in DOMAIN frames : /\ frames[k].open = Px(frames[k].t * Span)
                                /\ frames[k].close = Px(frames[k].t * Span + Span - 1)
  <2> TAKE k \in DOMAIN frames
  <2>1. FrameOK(frames[k], tape, n)
    BY <1>7
  <2>2. PICK i \in 1..n : Minute(tape, i) = frames[k].t * Span /\ frames[k].open = tape[i].px
    BY <2>1 DEF FrameOK
  <2>3. PICK j \in 1..n : Minute(tape, j) = frames[k].t * Span + Span - 1 /\ frames[k].close = tape[j].px
    BY <2>1 DEF FrameOK
  <2> HIDE DEF Px
  <2>4. frames[k].open = Px(frames[k].t * Span)
    BY <1>13, <2>2
  <2>5. frames[k].close = Px(frames[k].t * Span + Span - 1)
    BY <1>13, <2>3
  <2> QED
    BY <2>4, <2>5
<1>15. \A b \in Beginnings : IsPrefix(Aggregate(b), frames)
  <2> TAKE b \in Beginnings
  <2>1. PICK l \in 1..n : b \in Seq(Minutes) /\ Len(b) = l /\ \A k \in 1..l : b[k] = tape[k]
    BY BeginningIs
  <2>2. PICK g : Buckets(g, b) /\ Aggregate(b) = Flushed(g[l])
    BY <2>1, AggregateIs
  <2>3. g[l] = f[l]
    <3>1. SameSteps(f, g, l)
      <4> SUFFICES ASSUME NEW i \in 1..l, g[i - 1] = f[i - 1] PROVE g[i] = f[i]
        BY DEF SameSteps
      <4>1. i \in 1..n
        BY <1>1
      <4>2. f[i] = IntoBucket(f[i - 1], tape[i])
        BY <1>2, <4>1 DEF Buckets
      <4>3. g[i] = IntoBucket(g[i - 1], b[i])
        BY <2>1, <2>2 DEF Buckets
      <4> QED
        BY <2>1, <4>2, <4>3
    <3>2. f[0] = g[0]
      BY <1>2, <2>2 DEF Buckets
    <3>3. l \in Nat /\ l \in 0..l
      BY <1>1
    <3>4. \A i \in 0..l : g[i] = f[i]
      BY <3>1, <3>2, <3>3, SameLoop
    <3> QED
      BY <3>3, <3>4
  <2>4. Begins(Aggregate(b), frames)
    BY <1>2, <1>3, <2>2, <2>3
  <2>5. Aggregate(b) \in Seq(Frames)
    <3>1. f[l] \in Bars
      BY <1>3 DEF AggOK
    <3> QED
      BY <2>2, <2>3, <3>1, FlushedType
  <2> QED
    BY <1>7, <2>4, <2>5, BeginsIsPrefix
<1> HIDE DEF Whole, Px
<1> QED
  BY <1>11, <1>12, <1>14, <1>15, Zenon DEF FramesExact, frames, Whole, Px

-----------------------------------------------------------------------------
(* The recording of every study is one that its part of the program makes. *)
Labelled == [t : Nat, label : {"S0", "S1"}]
StudyInv ==
  /\ study \in Study
  /\ study = "labels"    => KeptIsEnd
  /\ study = "timeframe" => tape \in Seq(Minutes) /\ Forward(tape)
  /\ study = "barrier"   => tape \in Seq(Prices) /\ SettlesForward(tape)
  /\ study = "forward"   => tape \in Seq(Labelled)

LEMMA StudyStarts == AllInit => StudyInv
<1> SUFFICES ASSUME AllInit PROVE StudyInv
  OBVIOUS
<1>1. study \in Study /\ tape = << >> /\ kept = << >>
  BY DEF AllInit, ResInit, Study
<1>2. KeptIsEnd
  <2>1. Lesser(Keep, 0) = 0
    BY KeepIs DEF Lesser
  <2> QED
    BY <1>1, <2>1 DEF KeptIsEnd
<1> QED
  BY <1>1, <1>2 DEF StudyInv, Forward, SettlesForward

LEMMA MinutesGrow ==
  ASSUME tape \in Seq(Minutes), Forward(tape), NEW b \in TimeframeBar, tape' = Append(tape, b)
  PROVE  tape' \in Seq(Minutes) /\ Forward(tape')
<1> DEFINE n == Len(tape)
<1>1. n \in Nat /\ \A k \in 1..n : tape[k] \in Minutes
  OBVIOUS
<1>2. /\ LastMinute \in Nat
      /\ \A k \in 1..n : tape[k].t \in Nat /\ tape[k].t <= LastMinute
  <2>1. \A k \in 1..n : tape[k].t \in Nat
    BY <1>1 DEF Minutes
  <2>2. CASE n = 0
    BY <2>2 DEF LastMinute
  <2>3. CASE n # 0
    <3>1. n \in 1..n /\ LastMinute = tape[n].t
      BY <1>1, <2>3 DEF LastMinute
    <3>2. ASSUME NEW k \in 1..n PROVE tape[k].t <= tape[n].t
      <4>1. k < n => tape[k].t < tape[n].t
        BY <3>1 DEF Forward
      <4> QED
        BY <1>1, <2>1, <3>1, <4>1
    <3> QED
      BY <2>1, <3>1, <3>2
  <2> QED
    BY <2>2, <2>3
<1>3. PICK d \in 1..3, p \in {1, 2} : b = [t |-> LastMinute + d, px |-> p]
  BY DEF TimeframeBar
<1>4. b \in Minutes /\ b.t = LastMinute + d
  BY <1>2, <1>3 DEF Minutes
<1>5. /\ tape' \in Seq(Minutes)
      /\ Len(tape') = n + 1
      /\ tape'[n + 1] = b
      /\ \A k \in 1..n : tape'[k] = tape[k]
  BY <1>4
<1>6. ASSUME NEW j \in 1..(n + 1), NEW k \in 1..(n + 1), j < k PROVE tape'[j].t < tape'[k].t
  <2>1. j \in 1..n
    BY <1>1, <1>6
  <2>2. CASE k = n + 1
    BY <1>2, <1>4, <1>5, <2>1, <2>2
  <2>3. CASE k # n + 1
    <3>1. k \in 1..n
      BY <1>1, <2>3
    <3>2. tape[j].t < tape[k].t
      BY <1>6, <2>1, <3>1 DEF Forward
    <3> QED
      BY <1>5, <2>1, <3>1, <3>2
  <2> QED
    BY <2>2, <2>3
<1> QED
  BY <1>5, <1>6 DEF Forward

LEMMA PricesGrow ==
  ASSUME tape \in Seq(Prices), SettlesForward(tape), NEW b \in BarrierBar, tape' = Append(tape, b)
  PROVE  tape' \in Seq(Prices) /\ SettlesForward(tape')
<1> DEFINE n == Len(tape)
           known == {tape[k].nf : k \in DOMAIN tape} \ {NA}
<1>1. n \in Nat /\ DOMAIN tape = 1..n /\ \A k \in 1..n : tape[k] \in Prices
  OBVIOUS
<1>2. \A k \in 1..n : tape[k].nf \in {NA, 1, 2}
  BY <1>1 DEF Prices
<1>3. known \subseteq {1, 2}
  BY <1>1, <1>2
<1>4. \A k \in 1..n : tape[k].nf # NA => tape[k].nf \in known
  BY <1>1
<1>5. LastSettle = IF known = {} THEN 1 ELSE MostOf(known)
  BY DEF LastSettle
<1> HIDE DEF known
<1>6. LastSettle \in {1, 2} /\ \A z \in known : z <= LastSettle
  <2>1. known \in SUBSET Int
    BY <1>3
  <2>2. CASE known = {}
    BY <1>5, <2>2
  <2>3. CASE 2 \in known
    <3>1. \A z \in known : z <= 2
      BY <1>3
    <3>2. MostOf(known) = 2
      BY <2>1, <2>3, <3>1, MostOfIs
    <3> QED
      BY <1>5, <2>3, <3>1, <3>2
  <2>4. CASE known = {1}
    <3>1. 1 \in known /\ \A z \in known : z <= 1
      BY <2>4
    <3>2. MostOf(known) = 1
      BY <2>1, <3>1, MostOfIs
    <3> QED
      BY <1>5, <2>4, <3>1, <3>2
  <2> QED
    BY <1>3, <2>2, <2>3, <2>4
<1>7. b \in Prices /\ b.nf \in {NA} \cup (LastSettle..2)
  <2> DEFINE X == {<<9, 10, 9>>, <<10, 11, 11>>, <<8, 10, 10>>, <<10, 12, 10>>, <<8, 12, 10>>}
  <2>1. PICK x \in X, f \in {NA} \cup LastSettle..2 : b = [low |-> x[1], high |-> x[2], close |-> x[3], nf |-> f]
    BY DEF BarrierBar
  <2>2. x[1] \in Int /\ x[2] \in Int /\ x[3] \in Int
    OBVIOUS
  <2>3. f \in {NA, 1, 2}
    BY <1>6
  <2> HIDE DEF X
  <2> QED
    BY <2>1, <2>2, <2>3 DEF Prices
<1>8. /\ tape' \in Seq(Prices)
      /\ Len(tape') = n + 1
      /\ tape'[n + 1] = b
      /\ \A k \in 1..n : tape'[k] = tape[k]
  BY <1>7
<1>9. ASSUME NEW j \in 1..(n + 1), NEW k \in 1..(n + 1), j < k, tape'[j].nf # NA, tape'[k].nf # NA
      PROVE  tape'[j].nf <= tape'[k].nf
  <2>1. j \in 1..n
    BY <1>1, <1>9
  <2>2. CASE k = n + 1
    <3>1. b.nf \in LastSettle..2 /\ tape[j].nf \in known
      BY <1>4, <1>7, <1>8, <1>9, <2>1, <2>2
    <3>2. tape[j].nf <= LastSettle /\ tape[j].nf \in {1, 2} /\ LastSettle \in {1, 2}
      BY <1>3, <1>6, <3>1
    <3>3. b.nf \in Int /\ LastSettle <= b.nf
      BY <3>1, <3>2
    <3>4. tape[j].nf <= b.nf
      BY <3>2, <3>3
    <3> QED
      BY <1>8, <2>1, <2>2, <3>4
  <2>3. CASE k # n + 1
    <3>1. k \in 1..n
      BY <1>1, <2>3
    <3> QED
      BY <1>1, <1>8, <1>9, <2>1, <3>1 DEF SettlesForward
  <2> QED
    BY <2>2, <2>3
<1> QED
  BY <1>8, <1>9 DEF SettlesForward

LEMMA StudySteps == StudyInv /\ [AllNext]_allVars => StudyInv'
<1> SUFFICES ASSUME StudyInv, [AllNext]_allVars PROVE StudyInv'
  OBVIOUS
<1>1. CASE UNCHANGED <<study, tape, kept>>
  BY <1>1 DEF StudyInv, KeptIsEnd
<1>2. CASE RecordLabels
  <2>1. PICK b \in LabelBar : Recorded("labels", b) /\ OnBarKept(b) /\ study = "labels"
    BY <1>2 DEF RecordLabels
  <2>2. b \in LabelBars
    BY DEF LabelBar, LabelBars
  <2>3. tape' = Append(tape, b) /\ study' = study /\ KeptIsEnd
    BY <2>1 DEF Recorded, StudyInv
  <2>4. KeptIsEnd'
    BY <2>1, <2>2, <2>3, KeptStays
  <2> QED
    BY <2>1, <2>3, <2>4 DEF StudyInv, Study
<1>3. CASE RecordTimeframe
  <2>1. PICK b \in TimeframeBar : Recorded("timeframe", b) /\ study = "timeframe"
    BY <1>3 DEF RecordTimeframe
  <2>2. tape' = Append(tape, b) /\ study' = study /\ tape \in Seq(Minutes) /\ Forward(tape)
    BY <2>1 DEF Recorded, StudyInv
  <2>3. tape' \in Seq(Minutes) /\ Forward(tape')
    BY <2>2, MinutesGrow
  <2> QED
    BY <2>1, <2>2, <2>3 DEF StudyInv, Study
<1>4. CASE RecordBarrier
  <2>1. PICK b \in BarrierBar : Recorded("barrier", b) /\ study = "barrier"
    BY <1>4 DEF RecordBarrier
  <2>2. tape' = Append(tape, b) /\ study' = study /\ tape \in Seq(Prices) /\ SettlesForward(tape)
    BY <2>1 DEF Recorded, StudyInv
  <2>3. tape' \in Seq(Prices) /\ SettlesForward(tape')
    BY <2>2, PricesGrow
  <2> QED
    BY <2>1, <2>2, <2>3 DEF StudyInv, Study
<1>5. CASE RecordForward
  <2>1. PICK b \in ForwardBar : Recorded("forward", b) /\ study = "forward"
    BY <1>5 DEF RecordForward
  <2>2. tape' = Append(tape, b) /\ study' = study /\ tape \in Seq(Labelled)
    BY <2>1 DEF Recorded, StudyInv
  <2>3. LastMinute \in Nat
    <3>1. CASE tape = << >>
      BY <3>1 DEF LastMinute
    <3>2. CASE tape # << >>
      <4>1. tape[Len(tape)] \in Labelled
        BY <2>2, <3>2
      <4> QED
        BY <3>2, <4>1 DEF LastMinute, Labelled
    <3> QED
      BY <3>1, <3>2
  <2>4. b \in Labelled
    BY <2>3 DEF ForwardBar, Labelled
  <2>5. tape' \in Seq(Labelled)
    BY <2>2, <2>4
  <2> QED
    BY <2>1, <2>2, <2>5 DEF StudyInv, Study
<1> QED
  BY <1>1, <1>2, <1>3, <1>4, <1>5 DEF AllNext, ResNext, allVars, resVars

LEMMA StudyInvariant == AllSpec => []StudyInv
BY StudyStarts, StudySteps, PTL DEF AllSpec

(* No study looks ahead: for every recording, and whatever the windows,    *)
(* spans and horizons, the engine labels a bar as the study does, an upper *)
(* frame is of whole buckets and stays, a held position is closed by the   *)
(* first bar that touches a barrier, and a sample is taken unless an       *)
(* earlier one overlaps it.                                                *)
THEOREM StudiesAreExact == AllSpec => []BacktestExact
<1>1. StudyInv => BacktestExact
  <2> SUFFICES ASSUME StudyInv, tape # << >>
               PROVE  CASE study = "labels"  -> LabelsAgree   [] study = "timeframe" -> FramesExact
                        [] study = "barrier" -> BarriersExact [] study = "forward"   -> SamplesExact
    BY Zenon DEF BacktestExact
  <2>1. study = "labels" => LabelsAgree
    BY LabelsAreTheSame DEF StudyInv
  <2>2. study = "timeframe" => FramesExact
    BY FramesAreExact DEF StudyInv
  <2>3. study = "barrier" => BarriersExact
    BY BarriersAreExact DEF StudyInv
  <2>4. study = "forward" => SamplesExact
    BY SamplesAreExact DEF StudyInv
  <2>5. study \in {"labels", "timeframe", "barrier", "forward"}
    BY DEF StudyInv, Study
  <2> QED
    BY <2>1, <2>2, <2>3, <2>4, <2>5
<1> QED
  BY <1>1, StudyInvariant, PTL

-----------------------------------------------------------------------------
(* Whatever a monitor was told, and whatever the limits, the summary it    *)
(* keeps answers as the whole history calls for: the runaway detector and  *)
(* the breaker raise when they must, an alarm of the cost drift is raised  *)
(* once, no gap of a stream goes uncounted, the beta tracker's pairs are   *)
(* the end of the research's, a quantile is the bound of the right bucket. *)
THEOREM MonitorsAreExact == AllSpec => []MonitorsExact
<1>1. AllInit => MonInv
  <2> SUFFICES ASSUME AllInit PROVE MonInv
    OBVIOUS
  <2>1. CASE part = "monitor"
    BY <2>1, MonitorsStart DEF AllInit
  <2>2. CASE part # "monitor"
    <3>1. watch = "runaway" /\ seen = << >> /\ memory = Fresh("runaway")
      BY <2>2 DEF AllInit
    <3> QED
      BY <3>1, RunawayStarts DEF MonInv
  <2> QED
    BY <2>1, <2>2
<1>2. MonInv /\ [AllNext]_allVars => MonInv'
  <2>1. [AllNext]_allVars => [MonNext]_monVars
    BY DEF AllNext, allVars
  <2> QED
    BY <2>1, MonitorsStep
<1>3. AllSpec => []MonInv
  BY <1>1, <1>2, PTL DEF AllSpec
<1> QED
  BY <1>3, MonitorsAnswer, PTL
=============================================================================
