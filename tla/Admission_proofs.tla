------------------------- MODULE Admission_proofs -------------------------
(***************************************************************************)
(* Theorems about the two guards an entry passes: the gate inside the      *)
(* engine (EntryGate: reservation, lease) and the entry lock the status    *)
(* task keeps (Supervision).                                               *)
(***************************************************************************)
EXTENDS EntryGate, Supervision, FiniteSetTheorems, TLAPS

-----------------------------------------------------------------------------
(***************************************************************************)
(* Theorems about EntryGate for any set of symbols and entries, any limits *)
(* and any notices, when the venue answers before the reservation's ttl    *)
(* (the simulator: latency + jitter + partial_timeout_ms < ttl).           *)
(***************************************************************************)

Prompt == Patience < Ttl

(* The lease is the ownership: an entry that is still to fill holds its    *)
(* symbol's lease unbound, one that is open holds it bound to itself.      *)
Owns ==
  /\ \A c \in Cids : Working(c) /\ pos[c] = "none" =>
        lease[symOf[c]] = [cid |-> c, pos |-> None] /\ c \in meta
  /\ \A c \in Cids : pos[c] = "open" => lease[symOf[c]] = [cid |-> c, pos |-> c]

IInv ==
  /\ TypeOK
  /\ Owns
  /\ \A c \in Cids : Working(c) => age[c] <= Patience
  /\ \A c \in Cids : symOf[c] = None => left[c] = 0 /\ age[c] = 0 /\ pos[c] = "none"
  /\ \A c \in meta : pos[c] = "none" /\ symOf[c] # None

LEMMA InitIInv == Init => IInv
BY EGAssumption DEF Init, IInv, TypeOK, Owns, Working, Entry, NoLease, AgeCap

(* Whoever holds a symbol is the entry its lease names. *)
LEMMA HolderIsLessee ==
  ASSUME IInv, NEW c \in Cids, Holds(c)
  PROVE  lease[symOf[c]].cid = c /\ symOf[c] \in Symbols /\ lease[symOf[c]] # NoLease
<1>1. symOf[c] \in Symbols
  BY DEF IInv, TypeOK, Holds, Working
<1>2. lease[symOf[c]] = [cid |-> c, pos |-> None] \/ lease[symOf[c]] = [cid |-> c, pos |-> c]
  BY DEF IInv, Owns, Holds
<1>3. lease[symOf[c]].cid = c
  BY <1>2
<1>4. NoLease.cid = None
  BY DEF NoLease
<1> QED
  BY <1>1, <1>3, <1>4, EGAssumption

LEMMA StepIInv ==
  ASSUME Prompt, IInv, [Next]_vars PROVE IInv'
<1> USE DEF Working
<1>1. ASSUME NEW s \in Symbols, NEW c \in Cids, Decide(s, c) PROVE IInv'
  <2>1. \A d \in Cids : Holds(d) => symOf[d] # s
    BY <1>1, HolderIsLessee DEF Decide, K7
  <2>2. symOf[c] = None /\ pos[c] = "none" /\ age[c] = 0
    BY <1>1 DEF Decide, IInv
  <2>3. TypeOK'
    BY <1>1 DEF Decide, IInv, TypeOK, Entry
  <2>4. Owns'
    BY <1>1, <2>1, <2>2 DEF Decide, IInv, TypeOK, Owns, Holds
  <2> QED
    BY <1>1, <2>2, <2>3, <2>4, EGAssumption DEF Decide, IInv, TypeOK
<1>2. ASSUME NEW c \in Cids, FirstFill(c) PROVE IInv'
  <2>1. pos[c] = "none" /\ symOf[c] \in Symbols /\ lease[symOf[c]] = [cid |-> c, pos |-> None]
    BY <1>2 DEF FirstFill, IInv, TypeOK, Owns
  <2>2. lease[symOf[c]] # NoLease
    BY <2>1, EGAssumption DEF NoLease
  <2>3. \A d \in Cids : Holds(d) /\ symOf[d] = symOf[c] => d = c
    BY <2>1, HolderIsLessee
  <2>4. lease' = [lease EXCEPT ![symOf[c]] = [cid |-> c, pos |-> c]]
    <3>1. [lease[symOf[c]] EXCEPT !.pos = c] = [cid |-> c, pos |-> c]
      BY <2>1
    <3> QED
      BY <1>2, <2>2, <3>1, Zenon DEF FirstFill
  <2>5. left[c] - 1 \in 0..MaxFills
    BY <1>2, EGAssumption DEF FirstFill, IInv, TypeOK
  <2>6. TypeOK'
    <3>1. [cid |-> c, pos |-> c] \in [cid : Entry, pos : Entry]
      BY DEF Entry
    <3>2. lease' \in [Symbols -> [cid : Entry, pos : Entry]]
      BY <2>1, <2>4, <3>1, Zenon DEF IInv, TypeOK
    <3> QED
      BY <1>2, <2>1, <2>5, <3>2 DEF FirstFill, IInv, TypeOK, Entry
  <2>7. Owns'
    BY <1>2, <2>1, <2>3, <2>4, EGAssumption DEF FirstFill, IInv, TypeOK, Owns, Holds
  <2> QED
    BY <1>2, <2>1, <2>6, <2>7, EGAssumption DEF FirstFill, IInv, TypeOK
<1>3. ASSUME NEW c \in Cids, LaterFill(c) PROVE IInv'
  <2>1. left[c] - 1 \in 0..MaxFills
    BY <1>3, EGAssumption DEF LaterFill, IInv, TypeOK
  <2>2. TypeOK'
    BY <1>3, <2>1 DEF LaterFill, IInv, TypeOK
  <2>3. \A d \in Cids : Working(d)' => Working(d)
    BY <1>3, EGAssumption DEF LaterFill, IInv, TypeOK
  <2>4. Owns'
    BY <1>3, <2>3, Zenon DEF LaterFill, IInv, Owns
  <2>5. symOf[c] # None
    BY <1>3 DEF LaterFill, IInv, TypeOK
  <2> QED
    BY <1>3, <2>2, <2>4, <2>5, <2>3 DEF LaterFill, IInv, TypeOK
<1>4. ASSUME NEW c \in Cids, GiveUp(c) PROVE IInv'
  BY <1>4, EGAssumption DEF GiveUp, IInv, TypeOK, Owns
<1>5. ASSUME NEW c \in Cids, NEW k \in Notices, Notice(k, c) PROVE IInv'
  <2>1. TypeOK'
    BY <1>5, EGAssumption DEF Notice, IInv, TypeOK, Entry
  <2> QED
    BY <1>5, <2>1, EGAssumption DEF Notice, IInv, TypeOK, Owns
<1>6. ASSUME NEW c \in Cids, Close(c) PROVE IInv'
  <2>1. TypeOK'
    BY <1>6 DEF Close, IInv, TypeOK
  <2> QED
    BY <1>6, <2>1 DEF Close, IInv, TypeOK, Owns
<1>7. CASE Tick
  <2>1. \A c \in Cids : age'[c] \in 0..AgeCap /\ (Working(c) => age'[c] <= Patience)
        /\ (symOf[c] = None => age'[c] = 0)
    BY <1>7, EGAssumption DEF Tick, IInv, TypeOK, Older, AgeCap
  <2>2. \A s \in Symbols : KeptPending(s, age') \in Entry
    BY DEF KeptPending, IInv, TypeOK, Entry
  <2>3. \A s \in Symbols : Kept(s, age') \in [cid : Entry, pos : Entry]
    BY DEF Kept, NoLease, IInv, TypeOK, Entry
  <2>4. TypeOK'
    BY <1>7, <2>1, <2>2, <2>3 DEF Tick, IInv, TypeOK
  <2>5. Owns'
    <3>1. ASSUME NEW c \in Cids, Working(c), pos[c] = "none"
          PROVE  Kept(symOf[c], age') = [cid |-> c, pos |-> None] /\ symOf[c] \in Symbols
      <4>1. lease[symOf[c]] = [cid |-> c, pos |-> None] /\ symOf[c] \in Symbols
        BY <3>1 DEF IInv, Owns, TypeOK
      <4>2. age'[c] < Ttl
        BY <2>1, <3>1, EGAssumption DEF Prompt, AgeCap
      <4>3. lease[symOf[c]] # NoLease /\ lease[symOf[c]].pos = None /\ lease[symOf[c]].cid = c
        BY <4>1, HolderIsLessee, <3>1 DEF Holds
      <4>4. ~(age'[c] >= Ttl)
        BY <4>2, <2>1, EGAssumption DEF AgeCap
      <4> QED
        BY <4>1, <4>3, <4>4 DEF Kept
    <3>2. ASSUME NEW c \in Cids, pos[c] = "open"
          PROVE  Kept(symOf[c], age') = [cid |-> c, pos |-> c] /\ symOf[c] \in Symbols
      <4>1. lease[symOf[c]] = [cid |-> c, pos |-> c] /\ symOf[c] \in Symbols
        BY <3>2 DEF IInv, Owns, TypeOK
      <4>2. lease[symOf[c]] # NoLease /\ lease[symOf[c]].pos = c
        BY <4>1, HolderIsLessee, <3>2 DEF Holds
      <4>3. pos[c] # "closed" /\ c # None
        BY <3>2, EGAssumption
      <4> QED
        BY <4>1, <4>2, <4>3 DEF Kept
    <3> QED
      BY <1>7, <3>1, <3>2 DEF Tick, IInv, Owns
  <2> QED
    BY <1>7, <2>1, <2>4, <2>5 DEF Tick, IInv
<1>8. CASE UNCHANGED vars
  BY <1>8 DEF vars, IInv, TypeOK, Owns
<1> QED
  BY <1>1, <1>2, <1>3, <1>4, <1>5, <1>6, <1>7, <1>8 DEF Next, Answer

LEMMA Invariance == Prompt => (Spec => []IInv)
<1> SUFFICES ASSUME Prompt PROVE Spec => []IInv
  OBVIOUS
<1>1. Init => IInv
  BY InitIInv
<1>2. IInv /\ [Next]_vars => IInv'
  BY StepIInv
<1> QED
  BY <1>1, <1>2, PTL DEF Spec

-----------------------------------------------------------------------------
(* K6 over time.  K6 counts positions and reservations; what may still     *)
(* open is counted by its reservation, unless a notice dropped it.         *)
Counted(c) == Working(c) /\ pos[c] = "none" /\ c \notin lost

Reserved == \A c \in Cids : Counted(c) => pending[symOf[c]] = c

Room ==
  /\ IsFiniteSet(Open) /\ IsFiniteSet(Pending)
  /\ Cardinality(Open \ lost) + Cardinality(Pending) <= MaxPositions

KInv == Reserved /\ Room

LEMMA InitKInv == Init => KInv
<1> SUFFICES ASSUME Init PROVE KInv
  OBVIOUS
<1>1. Open = {} /\ Pending = {} /\ Open \ lost = {}
  BY DEF Init, Open, Pending
<1>2. Reserved
  BY DEF Init, Reserved, Counted, Working
<1>3. IsFiniteSet({}) /\ Cardinality({}) = 0
  BY FS_EmptySet, Zenon
<1> QED
  BY <1>1, <1>2, <1>3, EGAssumption DEF KInv, Room

(* The room that is left does not shrink when nothing is added. *)
LEMMA NoMoreTaken ==
  ASSUME Room, Open' \subseteq Open, Open' \ lost' \subseteq Open \ lost,
         Pending' \subseteq Pending
  PROVE  Room'
<1>1. IsFiniteSet(Open \ lost) /\ IsFiniteSet(Pending) /\ IsFiniteSet(Open)
  BY FS_Subset DEF Room
<1>2. IsFiniteSet(Open') /\ IsFiniteSet(Pending') /\ IsFiniteSet(Open' \ lost')
  BY <1>1, FS_Subset
<1>3. Cardinality(Open' \ lost') <= Cardinality(Open \ lost)
      /\ Cardinality(Pending') <= Cardinality(Pending)
  BY <1>1, FS_Subset
<1> DEFINE a == Cardinality(Open \ lost)   b == Cardinality(Pending)
           d == Cardinality(Open' \ lost') e == Cardinality(Pending')
<1>4. a \in Int /\ b \in Int /\ d \in Int /\ e \in Int
  BY <1>1, <1>2, FS_CardinalityType
<1>5. a + b <= MaxPositions /\ d <= a /\ e <= b
  BY <1>3 DEF Room
<1>6. d + e <= MaxPositions
  <2> HIDE DEF a, b, d, e
  <2> QED
    BY <1>4, <1>5, EGAssumption
<1> QED
  BY <1>2, <1>6 DEF Room

LEMMA DecideKInv ==
  ASSUME IInv, KInv, NEW s \in Symbols, NEW c \in Cids, Decide(s, c)
  PROVE  KInv'
<1>1. \A d \in Cids : Holds(d) => symOf[d] # s
  BY HolderIsLessee DEF Decide, K7
<1>2. c # None /\ symOf[c] = None /\ pending[s] = None
  BY EGAssumption DEF Decide, K7
<1>3. /\ pending' = [pending EXCEPT ![s] = c] /\ symOf' = [symOf EXCEPT ![c] = s]
      /\ UNCHANGED <<pos, lost>>
      /\ \A d \in Cids : d # c => left'[d] = left[d]
  BY DEF Decide, IInv, TypeOK
<1>4. Reserved'
  BY <1>1, <1>2, <1>3 DEF KInv, Reserved, Counted, Working, Holds, IInv, TypeOK
<1>5. Open' = Open /\ lost' = lost /\ Pending' = Pending \cup {s} /\ s \notin Pending
  BY <1>2, <1>3 DEF Open, Pending, IInv, TypeOK
<1>6. IsFiniteSet(Open) /\ IsFiniteSet(Pending) /\ IsFiniteSet(Open \ lost)
  BY FS_Subset DEF KInv, Room
<1>7. IsFiniteSet(Pending') /\ Cardinality(Pending') = Cardinality(Pending) + 1
  BY <1>5, <1>6, FS_AddElement
<1>8. Cardinality(Open \ lost) <= Cardinality(Open)
  BY <1>6, FS_Subset
<1> DEFINE o == Cardinality(Open) a == Cardinality(Open \ lost) b == Cardinality(Pending)
<1>9. o \in Int /\ a \in Int /\ b \in Int
  BY <1>6, FS_CardinalityType
<1>10. o + b < MaxPositions /\ a <= o
  BY <1>8 DEF Decide, K6
<1>11. a + (b + 1) <= MaxPositions
  <2> HIDE DEF o, a, b
  <2> QED
    BY <1>9, <1>10, EGAssumption
<1>12. Room'
  BY <1>5, <1>6, <1>7, <1>11 DEF Room
<1> QED
  BY <1>4, <1>12 DEF KInv

LEMMA FirstFillKInv ==
  ASSUME IInv, KInv, NEW c \in Cids, FirstFill(c)
  PROVE  KInv'
<1> DEFINE s == symOf[c]
<1>1. s \in Symbols /\ pos[c] = "none" /\ Holds(c) /\ Working(c)
  BY DEF FirstFill, IInv, TypeOK, Owns, Holds, Working
<1>2. /\ pending' = [pending EXCEPT ![s] = None] /\ pos' = [pos EXCEPT ![c] = "open"]
      /\ left' = [left EXCEPT ![c] = @ - 1] /\ UNCHANGED <<symOf, lost>>
  BY DEF FirstFill
<1>3. \A d \in Cids : Holds(d) /\ symOf[d] = s => d = c
  BY <1>1, HolderIsLessee
<1>4. Reserved'
  BY <1>1, <1>2, <1>3 DEF KInv, Reserved, Counted, Working, Holds, IInv, TypeOK
<1>5. Open' = Open \cup {c} /\ c \notin Open /\ Pending' = Pending \ {s}
  BY <1>1, <1>2, EGAssumption DEF Open, Pending, IInv, TypeOK
<1>6. IsFiniteSet(Open) /\ IsFiniteSet(Pending) /\ IsFiniteSet(Open \ lost)
  BY FS_Subset DEF KInv, Room
<1>7. IsFiniteSet(Open') /\ IsFiniteSet(Pending')
  BY <1>5, <1>6, FS_AddElement, FS_RemoveElement
<1> DEFINE a == Cardinality(Open \ lost) b == Cardinality(Pending)
<1>8. a \in Int /\ b \in Int /\ a + b <= MaxPositions
  BY <1>6, FS_CardinalityType DEF KInv, Room
<1>9. Room'
  <2>1. CASE c \in lost
    <3>1. Open' \ lost' = Open \ lost
      BY <1>2, <1>5, <2>1
    <3>2. Cardinality(Pending') <= b /\ Cardinality(Pending') \in Int
      BY <1>5, <1>6, <1>7, FS_Subset, FS_CardinalityType
    <3> DEFINE e == Cardinality(Pending')
    <3>3. a + e <= MaxPositions
      <4>1. e <= b /\ e \in Int
        BY <3>2
      <4> HIDE DEF a, b, e
      <4> QED
        BY <1>8, <4>1, EGAssumption
    <3> QED
      BY <1>7, <3>1, <3>3 DEF Room
  <2>2. CASE c \notin lost
    <3>1. pending[s] = c /\ s \in Pending
      BY <1>1, <2>2, EGAssumption DEF KInv, Reserved, Counted, Pending
    <3>2. Cardinality(Pending') = b - 1
      BY <1>5, <1>6, <3>1, FS_RemoveElement
    <3>3. Open' \ lost' = (Open \ lost) \cup {c} /\ c \notin Open \ lost
      BY <1>2, <1>5, <2>2
    <3>4. Cardinality(Open' \ lost') = a + 1
      BY <1>6, <3>3, FS_AddElement
    <3>5. (a + 1) + (b - 1) <= MaxPositions
      <4> HIDE DEF a, b
      <4> QED
        BY <1>8, EGAssumption
    <3> QED
      BY <1>7, <3>2, <3>4, <3>5 DEF Room
  <2> QED
    BY <2>1, <2>2
<1> QED
  BY <1>4, <1>9 DEF KInv

LEMMA StepKInv ==
  ASSUME Prompt, IInv, KInv, [Next]_vars PROVE KInv'
<1>1. ASSUME NEW s \in Symbols, NEW c \in Cids, Decide(s, c) PROVE KInv'
  BY <1>1, DecideKInv
<1>2. ASSUME NEW c \in Cids, FirstFill(c) PROVE KInv'
  BY <1>2, FirstFillKInv
<1>3. ASSUME NEW c \in Cids, LaterFill(c) \/ GiveUp(c) PROVE KInv'
  <2>1. UNCHANGED <<symOf, pending, pos, lost>>
    BY <1>3 DEF LaterFill, GiveUp
  <2>2. \A d \in Cids : Working(d)' => Working(d)
    BY <1>3, EGAssumption DEF LaterFill, GiveUp, Working, IInv, TypeOK
  <2>3. Room'
    BY <2>1, NoMoreTaken DEF Open, Pending, KInv
  <2> QED
    BY <2>1, <2>2, <2>3 DEF KInv, Reserved, Counted
<1>4. ASSUME NEW c \in Cids, NEW k \in Notices, Notice(k, c) PROVE KInv'
  <2> DEFINE s == symOf[c]
  <2>1. s \in Symbols
    BY <1>4 DEF Notice, Working, IInv, TypeOK
  <2>2. /\ pending' = [pending EXCEPT ![s] = None] /\ UNCHANGED <<symOf, pos>>
        /\ lost' = lost \cup {d \in Cids : pending[s] = d /\ left'[d] > 0}
    BY <1>4 DEF Notice
  <2>3. \A d \in Cids : Working(d)' => Working(d)
    BY <1>4, EGAssumption DEF Notice, Working, IInv, TypeOK
  <2>4. Reserved'
    BY <2>1, <2>2, <2>3 DEF KInv, Reserved, Counted, Working, IInv, TypeOK
  <2>5. Open' = Open /\ Open' \ lost' \subseteq Open \ lost /\ Pending' \subseteq Pending
    BY <2>1, <2>2, EGAssumption DEF Open, Pending, IInv, TypeOK
  <2> QED
    BY <2>4, <2>5, NoMoreTaken DEF KInv
<1>5. ASSUME NEW c \in Cids, Close(c) PROVE KInv'
  <2>1. /\ pos' = [pos EXCEPT ![c] = "closed"] /\ UNCHANGED <<symOf, pending, left, lost>>
    BY <1>5 DEF Close
  <2>2. Open' \subseteq Open /\ Pending' = Pending
    BY <2>1 DEF Open, Pending, IInv, TypeOK
  <2>3. Reserved'
    BY <2>1 DEF KInv, Reserved, Counted, Working, IInv, TypeOK
  <2> QED
    BY <2>1, <2>2, <2>3, NoMoreTaken DEF KInv
<1>6. CASE Tick
  <2>1. /\ pending' = [s \in Symbols |-> KeptPending(s, age')]
        /\ UNCHANGED <<symOf, left, pos, lost>>
    BY <1>6 DEF Tick
  <2>2. \A c \in Cids : Working(c) => age'[c] <= Patience
    BY <1>6, EGAssumption DEF Tick, IInv, TypeOK, Older, AgeCap, Working
  <2>3. \A c \in Cids : age'[c] \in Nat
    BY <1>6, EGAssumption DEF Tick, IInv, TypeOK, Older, AgeCap
  <2>4. Reserved'
    <3>1. SUFFICES ASSUME NEW c \in Cids, Counted(c)
                   PROVE  pending'[symOf[c]] = c
      BY <2>1 DEF Reserved, Counted, Working
    <3>2. pending[symOf[c]] = c /\ symOf[c] \in Symbols
      BY <3>1 DEF KInv, Reserved, Counted, Working, IInv, TypeOK
    <3>3. ~(age'[c] >= Ttl)
      BY <2>2, <2>3, <3>1, EGAssumption DEF Counted, Prompt
    <3> QED
      BY <2>1, <3>2, <3>3 DEF KeptPending
  <2>5. Open' = Open /\ Pending' \subseteq Pending
    BY <2>1 DEF Open, Pending, KeptPending
  <2> QED
    BY <2>1, <2>4, <2>5, NoMoreTaken DEF KInv
<1>7. CASE UNCHANGED vars
  <2>1. Open' = Open /\ Pending' = Pending /\ lost' = lost
    BY <1>7 DEF vars, Open, Pending
  <2> QED
    BY <1>7, <2>1 DEF vars, KInv, Reserved, Counted, Working, Room
<1> QED
  BY <1>1, <1>2, <1>3, <1>4, <1>5, <1>6, <1>7 DEF Next, Answer

(* The entries still to fill are no more than the reservations. *)
LEMMA WithinRoom == IInv /\ KInv => WithinMaxPositions
<1> SUFFICES ASSUME IInv, KInv PROVE WithinMaxPositions
  OBVIOUS
<1> DEFINE W == {c \in Cids : Counted(c)}
           f == [c \in W |-> symOf[c]]
           H == {c \in Cids : Holds(c)} \ lost
<1>1. H = W \cup (Open \ lost)
  BY DEF Holds, Counted, Open
<1>2. \A c \in W : symOf[c] \in Pending /\ pending[symOf[c]] = c
  BY EGAssumption DEF Counted, KInv, Reserved, Pending, Working, IInv, TypeOK
<1>3. f \in Injection(W, Pending)
  <2>1. f \in [W -> Pending]
    BY <1>2
  <2>2. \A c, d \in W : f[c] = f[d] => c = d
    BY <1>2
  <2> HIDE DEF f, W
  <2> QED
    BY <2>1, <2>2 DEF Injection, IsInjective
<1>4. IsFiniteSet(Pending) /\ IsFiniteSet(Open \ lost)
  BY FS_Subset DEF KInv, Room
<1>5. IsFiniteSet(W) /\ Cardinality(W) <= Cardinality(Pending)
  <2> HIDE DEF f, W
  <2> QED
    BY <1>3, <1>4, FS_Injection
<1> DEFINE w == Cardinality(W) a == Cardinality(Open \ lost) b == Cardinality(Pending)
           h == Cardinality(H) i == Cardinality(W \cap (Open \ lost))
<1>6. w \in Int /\ a \in Int /\ b \in Int
  BY <1>4, <1>5, FS_CardinalityType
<1>7. h = w + a - i /\ i \in Nat
  <2>1. IsFiniteSet(W \cap (Open \ lost))
    BY <1>4, FS_Subset
  <2>2. i \in Nat
    BY <2>1, FS_CardinalityType
  <2> HIDE DEF W
  <2>3. Cardinality(W \cup (Open \ lost)) = w + a - i
    BY <1>4, <1>5, FS_Union
  <2> QED
    BY <1>1, <2>2, <2>3
<1>8. a + b <= MaxPositions /\ w <= b
  BY <1>5 DEF KInv, Room
<1>9. h <= MaxPositions
  <2> HIDE DEF w, a, b, h, i
  <2> QED
    BY <1>6, <1>7, <1>8, EGAssumption
<1> QED
  BY <1>9 DEF WithinMaxPositions

-----------------------------------------------------------------------------
(* K6 and K7 over time: when the venue answers within the ttl, no two      *)
(* entries ever hold one symbol, and those that are open or may still open *)
(* are no more than max_positions, but for the ones a notice wrote off.    *)
THEOREM SlotsAreKept == Prompt => (Spec => []SlotsKept)
<1> SUFFICES ASSUME Prompt PROVE Spec => []SlotsKept
  OBVIOUS
<1>1. Init => KInv
  BY InitKInv
<1>2. IInv /\ KInv /\ [Next]_vars => KInv'
  BY StepKInv
<1>3. IInv => OneOwner
  BY HolderIsLessee DEF OneOwner
<1>4. IInv /\ KInv => SlotsKept
  BY <1>3, WithinRoom DEF SlotsKept, IInv
<1>5. Spec => []IInv
  BY Invariance
<1> QED
  BY <1>1, <1>2, <1>4, <1>5, PTL DEF Spec

(* What the lock sees of a step in which at most the entry c changes       *)
(* whether it holds its symbol: nothing, if it does not, or a release.     *)
Holders == [s \in Symbols |-> {c \in On(s) : Holds(c)}]

LEMMA SoleHolder ==
  ASSUME IInv, NEW c \in Cids, Holds(c)
  PROVE  Holders[symOf[c]] = {c} /\ symOf[c] \in Symbols
BY HolderIsLessee DEF Holders, On

LEMMA ReleaseOrStutter ==
  ASSUME IInv, NEW c \in Cids, symOf' = symOf,
         \A d \in Cids : d # c => (Holds(d)' <=> Holds(d)),
         Holds(c)' => Holds(c)
  PROVE  Holders' = Holders \/ \E s \in Symbols : Lock!Free(s)
<1>1. CASE Holds(c)' <=> Holds(c)
  <2>1. \A d \in Cids : Holds(d)' <=> Holds(d)
    BY <1>1
  <2> QED
    BY <2>1 DEF Holders, On
<1>2. CASE Holds(c) /\ ~Holds(c)'
  <2>1. Holders[symOf[c]] = {c} /\ symOf[c] \in Symbols
    BY <1>2, SoleHolder
  <2>2. Holders' = [Holders EXCEPT ![symOf[c]] = {}]
    <3>1. \A s \in Symbols : {d \in On(s)' : Holds(d)'} =
                             IF s = symOf[c] THEN {} ELSE {d \in On(s) : Holds(d)}
      BY <1>2, <2>1 DEF Holders, On
    <3> QED
      BY <3>1 DEF Holders
  <2> QED
    BY <2>1, <2>2 DEF Lock!Free, Holders
<1> QED
  BY <1>1, <1>2

LEMMA LockStep ==
  ASSUME Prompt, IInv, [Next]_vars
  PROVE  Lock!Next \/ Holders' = Holders
<1> USE DEF Working
<1>1. ASSUME NEW s \in Symbols, NEW c \in Cids, Decide(s, c) PROVE Lock!Next
  <2>1. Holders[s] = {}
    BY <1>1, HolderIsLessee DEF Decide, K7, Holders, On
  <2>2. Holds(c)' /\ symOf'[c] = s /\ pos[c] = "none" /\ symOf[c] = None /\ ~Holds(c)
    BY <1>1, EGAssumption DEF Decide, IInv, TypeOK, Holds
  <2>3. \A d \in Cids : d # c => (Holds(d)' <=> Holds(d)) /\ symOf'[d] = symOf[d]
    BY <1>1 DEF Decide, IInv, TypeOK, Holds
  <2>4. Holders' = [Holders EXCEPT ![s] = {c}]
    <3>1. \A r \in Symbols : {d \in On(r)' : Holds(d)'} =
                             IF r = s THEN {c} ELSE {d \in On(r) : Holds(d)}
      BY <2>1, <2>2, <2>3, EGAssumption DEF Holders, On
    <3> QED
      BY <3>1 DEF Holders
  <2> QED
    BY <2>1, <2>4 DEF Lock!Next, Lock!Take, Holders
<1>2. ASSUME NEW c \in Cids, FirstFill(c) PROVE Holders' = Holders
  <2>1. \A d \in Cids : Holds(d)' <=> Holds(d)
    BY <1>2, EGAssumption DEF FirstFill, IInv, TypeOK, Holds
  <2> QED
    BY <1>2, <2>1 DEF FirstFill, Holders, On
<1>3. ASSUME NEW c \in Cids, LaterFill(c) PROVE Holders' = Holders
  <2>1. pos[c] # "none"
    BY <1>3 DEF LaterFill, IInv, Owns
  <2>2. \A d \in Cids : Holds(d)' <=> Holds(d)
    BY <1>3, <2>1, EGAssumption DEF LaterFill, IInv, TypeOK, Holds
  <2> QED
    BY <1>3, <2>2 DEF LaterFill, Holders, On
<1>4. ASSUME NEW c \in Cids, GiveUp(c) PROVE Lock!Next \/ Holders' = Holders
  <2>1. /\ \A d \in Cids : d # c => (Holds(d)' <=> Holds(d))
        /\ Holds(c)' => Holds(c)
    BY <1>4, EGAssumption DEF GiveUp, IInv, TypeOK, Holds
  <2> QED
    BY <1>4, <2>1, ReleaseOrStutter DEF GiveUp, Lock!Next
<1>5. ASSUME NEW c \in Cids, NEW k \in Notices, Notice(k, c)
      PROVE  Lock!Next \/ Holders' = Holders
  <2>1. /\ \A d \in Cids : d # c => (Holds(d)' <=> Holds(d))
        /\ Holds(c)' => Holds(c)
    BY <1>5, EGAssumption DEF Notice, IInv, TypeOK, Holds
  <2> QED
    BY <1>5, <2>1, ReleaseOrStutter DEF Notice, Lock!Next
<1>6. ASSUME NEW c \in Cids, Close(c) PROVE Lock!Next \/ Holders' = Holders
  <2>1. /\ \A d \in Cids : d # c => (Holds(d)' <=> Holds(d))
        /\ Holds(c)' => Holds(c)
    BY <1>6 DEF Close, IInv, TypeOK, Holds
  <2> QED
    BY <1>6, <2>1, ReleaseOrStutter DEF Close, Lock!Next
<1>7. CASE Tick
  BY <1>7 DEF Tick, Holders, On, Holds
<1>8. CASE UNCHANGED vars
  BY <1>8 DEF vars, Holders, On, Holds
<1> QED
  BY <1>1, <1>2, <1>3, <1>4, <1>5, <1>6, <1>7, <1>8 DEF Next, Answer

(* The gate, with its leases, reservations, late fills and sweeps, is a    *)
(* one-owner lock: SymbolLock under the mapping that calls an entry the    *)
(* holder of its symbol while it may still fill or its position is open.   *)
THEOREM GateIsLock == Prompt => (Spec => LockSpec)
<1> SUFFICES ASSUME Prompt PROVE Spec => LockSpec
  OBVIOUS
<1>1. Init => Lock!Init
  BY EGAssumption DEF Init, Lock!Init, On
<1>2. IInv /\ [Next]_vars => [Lock!Next]_[s \in Symbols |-> {c \in On(s) : Holds(c)}]
  BY LockStep DEF Holders
<1> QED
  BY <1>1, <1>2, Invariance, PTL DEF Spec, LockSpec, Lock!Spec

-----------------------------------------------------------------------------
(***************************************************************************)
(* Proofs about Supervision, for every set of keys and every bound.  The   *)
(* lock is shown to follow the verdict, and to tell the truth while        *)
(* nothing moved, from three facts: while a round is quiet its snapshot is *)
(* what the exchange holds (Picture), a result without a difference leaves *)
(* nothing to be sent (Clean), and an open lock means that the result      *)
(* check remembers was good (Remembered).  That a round cancels no         *)
(* protection of the core rests on the ids of the orders: what can be on   *)
(* the account, in a snapshot or in a round is older than an entry whose   *)
(* position the core does not hold yet (Named).                            *)
(***************************************************************************)

FileT    == Accounts \cup {"bad"}
AppliedT == Accounts \cup {"bad", "never"}
PcT      == {"idle", "probe", "recon", "positions", "algos", "compare", "apply"}
SnapT    == [mode : {"ONE_WAY", "HEDGE"}, pos : BOOLEAN, algos : SUBSET Orders]
TodoT    == SUBSET ({"cancel", "place"} \X Orders)
WhyT     == {"never", "client", "snapshot", "unprotected", "compared"}
MismT    == SUBSET {"mode", "missing", "unknown", "algo", "orphan"}
ResultT  == [ok : BOOLEAN, why : WhyT, mism : MismT, sent : Nat]
ModeT    == {"ONE_WAY", "HEDGE"}
AlgosT   == [Keys -> SUBSET Orders]
HeldT    == [Keys -> BOOLEAN]
IdT      == 0..MaxTrades
StepT    == {"none", "entry", "filled", "protect", "closed", "cancel"}
FlightT  == [step : StepT, id : IdT, key : Accounts]
VerdictT == {"none", "good", "bad", "error"}

SType ==
  /\ file \in FileT /\ applied \in AppliedT /\ client \in Accounts /\ key \in Accounts
  /\ pc \in PcT /\ snap \in SnapT /\ todo \in TodoT /\ result \in ResultT /\ last \in ResultT
  /\ apply \in BOOLEAN /\ up \in BOOLEAN /\ mode \in ModeT
  /\ vpos \in HeldT /\ valgos \in AlgosT
  /\ core \in IdT /\ flight \in FlightT /\ n \in IdT
  /\ reconciled \in BOOLEAN /\ quiet \in BOOLEAN /\ fresh \in BOOLEAN
  /\ verdict \in VerdictT

(* During a round the account is the one it began with.                    *)
Reading == {"positions", "algos", "compare"}
Carried == pc \in Reading => key = client /\ key # "none"

LEMMA TypesAreRight == ASSUME SType PROVE SupTypeOK
<1>1. snap.algos \subseteq Orders
  BY DEF SType, SnapT
<1>2. flight.key \in Accounts
  BY DEF SType, FlightT
<1>3. /\ file \in FileT /\ applied \in AppliedT /\ pc \in PcT /\ todo \in TodoT /\ valgos \in AlgosT
      /\ vpos \in HeldT /\ core \in IdT /\ n \in IdT /\ verdict \in VerdictT
  BY DEF SType
<1> QED
  BY <1>1, <1>2, <1>3
     DEF SType, SupTypeOK, FileT, AppliedT, PcT, TodoT, AlgosT, HeldT, IdT, VerdictT

LEMMA AlgosAreOrders ==
  ASSUME NEW i \in IdT PROVE Algos(i) \subseteq Orders /\ Repairs(i) \subseteq Orders
BY DEF Orders, IdT

LEMMA NoResultIsResult == NoResult \in ResultT /\ [NoResult EXCEPT !.why = "client"] \in ResultT
                          /\ [NoResult EXCEPT !.why = "snapshot"] \in ResultT
BY DEF NoResult, ResultT, WhyT, MismT

LEMMA NoRoundIsSnap == NoRound \in SnapT
BY DEF NoRound, SnapT

LEMMA NoFlightIsFlight == NoFlight \in FlightT
BY SupAssumption DEF NoFlight, FlightT, StepT, IdT, Accounts

LEMMA FlightsAreFlights ==
  ASSUME NEW s \in StepT, NEW i \in IdT, NEW k \in Accounts
  PROVE  [step |-> s, id |-> i, key |-> k] \in FlightT
BY DEF FlightT

LEMMA NamesAreAccounts == Keys \subseteq Accounts /\ "none" \in Accounts /\ "bad" \in FileT
                          /\ Accounts \subseteq FileT /\ FileT \subseteq AppliedT
                          /\ "never" \in AppliedT
BY DEF Accounts, FileT, AppliedT

LEMMA InitType == SupInit => SType
<1> SUFFICES ASSUME SupInit PROVE SType
  OBVIOUS
<1>1. file \in FileT
  BY SupAssumption, NamesAreAccounts DEF SupInit
<1>2. vpos \in HeldT /\ valgos \in AlgosT
  BY DEF SupInit, HeldT, AlgosT
<1>3. 0 \in IdT
  BY SupAssumption DEF IdT
<1> QED
  BY <1>1, <1>2, <1>3, SupAssumption, NamesAreAccounts, NoResultIsResult, NoRoundIsSnap,
     NoFlightIsFlight DEF SupInit, SType, PcT, TodoT, ModeT, VerdictT

(* The moves of the operator, the exchange and the trader. *)
LEMMA OutsideType == ASSUME SType, Outside \/ Settles PROVE SType'
<1> USE DEF SType, taskVars, venueVars, countVars, history, Rest, Changed
<1>1. ASSUME NEW f \in Keys \cup {"none", "bad"}, WriteFile(f) PROVE SType'
  BY <1>1, NamesAreAccounts DEF WriteFile
<1>2. CASE SwitchMode
  BY <1>2 DEF SwitchMode, ModeT
<1>3. CASE Outage
  BY <1>3 DEF Outage
<1>4. ASSUME NEW k \in Keys, Elsewhere(k) PROVE SType'
  <2>1. valgos' \in AlgosT
    BY <1>4 DEF Elsewhere, AlgosT, Orders
  <2> QED
    BY <1>4, <2>1 DEF Elsewhere
<1>5. CASE SendEntry
  <2>1. n' \in IdT
    BY <1>5, SupAssumption DEF SendEntry, IdT
  <2>2. flight' \in FlightT
    BY <1>5, <2>1, FlightsAreFlights DEF SendEntry, StepT
  <2> QED
    BY <1>5, <2>1, <2>2 DEF SendEntry
<1>6. CASE SendFails
  BY <1>6, NoFlightIsFlight DEF SendFails
<1>7. ASSUME NEW k \in Keys, NEW role \in {"SL", "SLr1"}, StopFires(k, <<core, role>>)
      PROVE SType'
  <2>1. vpos' \in HeldT /\ valgos' \in AlgosT
    BY <1>7 DEF StopFires, HeldT, AlgosT
  <2>2. flight' \in FlightT
    BY <1>7, FlightsAreFlights, NamesAreAccounts DEF StopFires, StepT
  <2> QED
    BY <1>7, <2>1, <2>2 DEF StopFires
<1>8. CASE Back
  BY <1>8 DEF Back
<1>9. CASE VenueFills
  <2>1. vpos' \in HeldT
    BY <1>9 DEF VenueFills, HeldT
  <2>2. flight' \in FlightT
    BY <1>9 DEF VenueFills, FlightT, StepT
  <2> QED
    BY <1>9, <2>1, <2>2 DEF VenueFills
<1>10. CASE CoreOpens
  <2>1. flight' \in FlightT
    BY <1>10, NoFlightIsFlight DEF CoreOpens, FlightT, StepT
  <2>2. core' \in IdT
    BY <1>10 DEF CoreOpens, FlightT
  <2> QED
    BY <1>10, <2>1, <2>2 DEF CoreOpens
<1>11. CASE VenueProtects
  <2>1. flight.id \in IdT
    BY DEF FlightT
  <2>2. valgos' \in AlgosT
    BY <1>11, <2>1, AlgosAreOrders DEF VenueProtects, AlgosT
  <2> QED
    BY <1>11, <2>2, NoFlightIsFlight DEF VenueProtects
<1>12. CASE CoreCloses
  <2>1. flight' \in FlightT
    BY <1>12, NoFlightIsFlight DEF CoreCloses, FlightT, StepT
  <2>2. core' \in IdT
    BY <1>12, SupAssumption DEF CoreCloses, IdT
  <2> QED
    BY <1>12, <2>1, <2>2 DEF CoreCloses
<1>13. CASE VenueCancels
  <2>1. valgos' \in AlgosT
    BY <1>13 DEF VenueCancels, AlgosT
  <2> QED
    BY <1>13, <2>1, NoFlightIsFlight DEF VenueCancels
<1> QED
  BY <1>1, <1>2, <1>3, <1>4, <1>5, <1>6, <1>7, <1>8, <1>9, <1>10, <1>11, <1>12, <1>13
     DEF Outside, Settles

LEMMA StatusType == ASSUME SType, Carried, StatusStep \/ Raises PROVE SType'
<1> USE DEF SType, taskVars, venueVars, countVars, history, Changed
<1>1. CASE ArmingCheck
  BY <1>1, NamesAreAccounts DEF ArmingCheck, AsApplied, Probe, Disarm, FileOnly, Trading, PcT
<1>2. CASE ProbeDone
  BY <1>2, NamesAreAccounts DEF ProbeDone, Trading, PcT
<1>3. CASE ReconStart
  BY <1>3, NoResultIsResult, NoRoundIsSnap DEF ReconStart, Round, PcT, TodoT
<1>4. CASE ReadSnapshot
  <2> DEFINE s1 == [snap EXCEPT !.mode = mode, !.pos = vpos[key]]
             s2 == [snap EXCEPT !.algos = valgos[key]]
  <2>1. CASE Read("positions", "algos", s1)
    <3>1. up => s1 \in SnapT
      BY <2>1 DEF Read, SnapT, ModeT, HeldT, Carried, Reading, Accounts
    <3> HIDE DEF s1
    <3> QED
      BY <2>1, <3>1, NoResultIsResult DEF Read, Round, PcT
  <2>2. CASE Read("algos", "compare", s2)
    <3>1. up => s2 \in SnapT
      BY <2>2 DEF Read, SnapT, AlgosT, Carried, Reading, Accounts
    <3> HIDE DEF s2
    <3> QED
      BY <2>2, <3>1, NoResultIsResult DEF Read, Round, PcT
  <2> QED
    BY <1>4, <2>1, <2>2 DEF ReadSnapshot
<1>5. CASE Compare
  <2>1. result' \in ResultT
    <3>1. Mismatches(core, snap) \in MismT
      BY DEF Mismatches, MismT
    <3> HIDE DEF SType
    <3> QED
      BY <1>5, <3>1 DEF Compare, ResultT, WhyT
  <2>2. todo' \in TodoT
    <3>1. Orphans(core, snap) \subseteq Orders
      BY DEF Orphans, SnapT
    <3>2. Repairs(core) \subseteq Orders
      BY AlgosAreOrders
    <3> HIDE DEF SType
    <3> QED
      BY <1>5, <3>1, <3>2 DEF Compare, TodoT
  <2>3. client' \in Accounts
    BY <1>5, NamesAreAccounts DEF Compare
  <2> QED
    BY <1>5, <2>1, <2>2, <2>3 DEF Compare, Round, PcT
<1>6. ASSUME NEW t \in todo, ApplyOne(t) PROVE SType'
  <2>1. todo' \in TodoT
    BY <1>6 DEF ApplyOne, TodoT
  <2>2. result' \in ResultT
    BY <1>6 DEF ApplyOne, ResultT
  <2>3. valgos' \in AlgosT
    BY <1>6 DEF ApplyOne, AlgosT, TodoT
  <2> QED
    BY <1>6, <2>1, <2>2, <2>3 DEF ApplyOne, Round
<1>7. CASE Finish
  <2>1. reconciled' \in BOOLEAN
    BY <1>7 DEF Finish, ResultT
  <2> QED
    BY <1>7, <2>1, NoResultIsResult, NoRoundIsSnap, NamesAreAccounts
       DEF Finish, Judged, Forget, Round, PcT, VerdictT
<1>8. CASE Raises
  BY <1>8, NoResultIsResult, NoRoundIsSnap, NamesAreAccounts DEF Raises, Forget, PcT, VerdictT
<1> QED
  BY <1>1, <1>2, <1>3, <1>4, <1>5, <1>6, <1>7, <1>8 DEF StatusStep

LEMMA CarriedKept == ASSUME SType, Carried, [SupNext]_supVars PROVE Carried'
<1> USE DEF taskVars, venueVars, countVars, history, Rest, Changed, Carried, Reading
<1>1. CASE Outside
  BY <1>1 DEF Outside, WriteFile, SwitchMode, Outage, Elsewhere, SendEntry, SendFails, StopFires
<1>2. CASE Settles
  BY <1>2 DEF Settles, Back, VenueFills, CoreOpens, VenueProtects, CoreCloses, VenueCancels
<1>3. CASE ArmingCheck \/ ProbeDone
  BY <1>3 DEF ArmingCheck, ProbeDone, AsApplied, Probe, Disarm, FileOnly, Trading
<1>4. CASE ReconStart
  BY <1>4 DEF ReconStart, Round
<1>5. CASE ReadSnapshot
  BY <1>5 DEF ReadSnapshot, Read, Round
<1>6. CASE Compare
  BY <1>6 DEF Compare
<1>7. ASSUME NEW t \in todo, ApplyOne(t) PROVE Carried'
  BY <1>7 DEF ApplyOne, Round
<1>8. CASE Finish \/ Raises
  BY <1>8 DEF Finish, Raises
<1>9. CASE UNCHANGED supVars
  BY <1>9 DEF supVars
<1> QED
  BY <1>1, <1>2, <1>3, <1>4, <1>5, <1>6, <1>7, <1>8, <1>9 DEF SupNext, StatusStep

-----------------------------------------------------------------------------
(* The lock. *)

(* What an open lock claims of the account. *)
Facts ==
  /\ mode = "ONE_WAY" /\ (core # 0) = vpos[client]
  /\ CoreAlgos(core) \subseteq valgos[client]
  /\ core = 0 => valgos[client] = {}

(* While nothing moved, what the round has read is what there is.          *)
Picture ==
  quiet =>
    /\ pc \in {"algos", "compare"} => snap.mode = mode /\ snap.pos = vpos[key]
    /\ pc = "compare" => snap.algos = valgos[key]

(* A result without a difference: nothing to send, and, if nothing moved,  *)
(* all that the lock claims.                                               *)
Clean == pc = "apply" /\ result.ok => todo = {} /\ (quiet => Facts)

(* An open lock: the result that check remembers was good.                 *)
Remembered == reconciled => last.ok /\ verdict = "good"

Shown == pc = "idle" /\ reconciled /\ fresh => Facts

LInv == Picture /\ Clean /\ Remembered /\ Shown

LEMMA InitLInv == SupInit => LInv
BY DEF SupInit, LInv, Picture, Clean, Remembered, Shown

(* What moves something ends the quiet; the rest leaves the account and    *)
(* the core as they are.                                                   *)
LEMMA OutsideLInv == ASSUME SType, LInv, Outside \/ Settles PROVE LInv'
<1>1. /\ UNCHANGED <<client, pc, key, snap, todo, result, last, reconciled, verdict>>
      /\ \/ ~quiet' /\ ~fresh'
         \/ UNCHANGED <<quiet, fresh, mode, core, vpos, valgos>>
  <2> USE DEF taskVars, venueVars, countVars, history, Rest, Changed
  <2>1. CASE Outside
    BY <2>1 DEF Outside, WriteFile, SwitchMode, Outage, Elsewhere, SendEntry, SendFails, StopFires
  <2>2. CASE Settles
    BY <2>2 DEF Settles, Back, VenueFills, CoreOpens, VenueProtects, CoreCloses, VenueCancels
  <2> QED
    BY <2>1, <2>2
<1>2. CASE ~quiet' /\ ~fresh'
  BY <1>1, <1>2 DEF LInv, Picture, Clean, Remembered, Shown
<1>3. CASE UNCHANGED <<quiet, fresh, mode, core, vpos, valgos>>
  BY <1>1, <1>3 DEF LInv, Picture, Clean, Remembered, Shown, Facts
<1> QED
  BY <1>1, <1>2, <1>3

LEMMA CompareLInv == ASSUME SType, Carried, LInv, Compare PROVE LInv'
<1>1. /\ pc = "compare" /\ pc' = "apply"
      /\ UNCHANGED <<mode, core, vpos, valgos, reconciled, last, verdict, quiet, fresh, key, snap>>
  BY DEF Compare, Round, venueVars, history
<1>2. /\ result'.ok = (Mismatches(core, snap) = {} /\ ~Unprotected(snap))
      /\ client' = IF snap.mode = "HEDGE" THEN "none" ELSE client
  BY DEF Compare
<1>3. SUFFICES ASSUME result'.ok PROVE todo' = {} /\ (quiet => Facts')
  BY <1>1, <1>3 DEF LInv, Picture, Clean, Remembered, Shown
<1>4. /\ snap.mode = "ONE_WAY" /\ (core # 0) = snap.pos
      /\ core # 0 => CoreAlgos(core) \subseteq snap.algos
      /\ Orphans(core, snap) = {} /\ ~Unprotected(snap)
  <2>1. \A m \in {"mode", "missing", "unknown", "algo", "orphan"} : m \notin Mismatches(core, snap)
    BY <1>2, <1>3
  <2>2. snap.mode \in ModeT /\ snap.pos \in BOOLEAN
    BY DEF SType, SnapT, ModeT
  <2>3. /\ snap.mode = "ONE_WAY" /\ ~(core # 0 /\ ~snap.pos) /\ ~(core = 0 /\ snap.pos)
        /\ ~(core # 0 /\ snap.pos /\ ~(CoreAlgos(core) \subseteq snap.algos))
        /\ Orphans(core, snap) = {}
    BY <2>1 DEF Mismatches
  <2> QED
    BY <1>2, <1>3, <2>2, <2>3
<1>5. client' = client
  BY <1>2, <1>4
<1>6. todo' = {}
  <2>1. \A a : a \notin {x \in Orphans(core, snap) : IsOurs(x)}
    BY <1>4
  <2>2. (Unprotected(snap) /\ core # 0) = FALSE
    BY <1>4
  <2>3. todo' = IF ~apply THEN {}
                ELSE {<<"cancel", a>> : a \in {x \in Orphans(core, snap) : IsOurs(x)}}
                     \cup {<<"place", a>> : a \in IF Unprotected(snap) /\ core # 0 THEN Repairs(core) ELSE {}}
    BY DEF Compare
  <2> QED
    BY <2>1, <2>2, <2>3
<1>7. ASSUME quiet PROVE Facts'
  <2>1. key = client
    BY <1>1 DEF Carried, Reading
  <2>2. snap.mode = mode /\ snap.pos = vpos[client] /\ snap.algos = valgos[client]
    BY <1>1, <1>7, <2>1 DEF LInv, Picture
  <2>3. core = 0 => CoreAlgos(core) = {} /\ snap.algos = {}
    BY <1>4 DEF CoreAlgos, Orphans
  <2> QED
    BY <1>1, <1>4, <1>5, <2>2, <2>3 DEF Facts
<1> QED
  BY <1>6, <1>7

LEMMA StatusLInv == ASSUME SType, Carried, LInv, StatusStep \/ Raises PROVE LInv'
<1> USE DEF taskVars, venueVars, countVars, history
<1>1. CASE ArmingCheck
  BY <1>1 DEF ArmingCheck, AsApplied, Probe, Disarm, FileOnly, Trading,
              LInv, Picture, Clean, Remembered, Shown
<1>2. CASE ProbeDone
  BY <1>2 DEF ProbeDone, Trading, LInv, Picture, Clean, Remembered, Shown
<1>3. CASE ReconStart
  <2>1. ~result'.ok
    BY <1>3 DEF ReconStart, NoResult
  <2> QED
    BY <1>3, <2>1 DEF ReconStart, Round, LInv, Picture, Clean, Remembered, Shown
<1>4. CASE ReadSnapshot
  <2> DEFINE s1 == [snap EXCEPT !.mode = mode, !.pos = vpos[key]]
             s2 == [snap EXCEPT !.algos = valgos[key]]
  <2>1. /\ UNCHANGED <<reconciled, last, verdict, quiet, mode, vpos, valgos, key>>
        /\ pc' # "idle"
        /\ pc' = "apply" => ~result'.ok
    BY <1>4 DEF ReadSnapshot, Read, Round, NoResult
  <2>2. Picture'
    <3>1. SUFFICES ASSUME quiet, pc' # "apply" PROVE Picture'
      BY <2>1 DEF Picture
    <3>2. CASE Read("positions", "algos", s1)
      <4>1. s1.mode = mode /\ s1.pos = vpos[key]
        BY DEF SType, SnapT
      <4> HIDE DEF s1
      <4> QED
        BY <3>1, <3>2, <2>1, <4>1 DEF Read, Picture
    <3>3. CASE Read("algos", "compare", s2)
      <4>1. s2.mode = snap.mode /\ s2.pos = snap.pos /\ s2.algos = valgos[key]
        BY DEF SType, SnapT
      <4> HIDE DEF s2
      <4> QED
        BY <3>1, <3>3, <2>1, <4>1 DEF Read, LInv, Picture
    <3> QED
      BY <1>4, <3>2, <3>3 DEF ReadSnapshot
  <2> QED
    BY <2>1, <2>2 DEF LInv, Clean, Remembered, Shown
<1>5. CASE Compare
  BY <1>5, CompareLInv
<1>6. ASSUME NEW t \in todo, ApplyOne(t) PROVE LInv'
  <2>1. pc = "apply" /\ ~result.ok
    BY <1>6 DEF ApplyOne, LInv, Clean
  <2>2. result'.ok = result.ok
    BY <1>6 DEF ApplyOne, SType, ResultT
  <2>3. UNCHANGED <<pc, last, reconciled, verdict>>
    BY <1>6 DEF ApplyOne, Round, Changed
  <2> QED
    BY <2>1, <2>2, <2>3 DEF LInv, Picture, Clean, Remembered, Shown
<1>7. CASE Finish
  <2>1. /\ pc = "apply" /\ pc' = "idle" /\ last' = result /\ fresh' = quiet
        /\ verdict' = (IF result.ok THEN "good" ELSE "bad")
        /\ reconciled' = IF result = last THEN reconciled ELSE result.ok
        /\ UNCHANGED <<client, mode, core, vpos, valgos>>
    BY <1>7 DEF Finish, Judged, Round
  <2>2. reconciled' => result.ok
    BY <2>1 DEF LInv, Remembered
  <2>3. Shown'
    BY <2>1, <2>2 DEF LInv, Clean, Shown, Facts
  <2> QED
    BY <2>1, <2>2, <2>3 DEF LInv, Picture, Clean, Remembered
<1>8. CASE Raises
  BY <1>8 DEF Raises, LInv, Picture, Clean, Remembered, Shown
<1> QED
  BY <1>1, <1>2, <1>3, <1>4, <1>5, <1>6, <1>7, <1>8 DEF StatusStep

-----------------------------------------------------------------------------
(* The ids of the orders: those of an entry that the core does not hold    *)
(* yet are nowhere.                                                        *)
Waiting == flight.step \in {"entry", "filled"}
Newest  == IF Waiting THEN n - 1 ELSE n
Old(a)  == a[1] \in 0..Newest

Named ==
  /\ Waiting => core = 0 /\ flight.id = n
  /\ core \in 0..Newest /\ flight.id \in 0..n /\ n \in Nat
  /\ \A k \in Keys : \A a \in valgos[k] : Old(a)
  /\ \A a \in snap.algos : Old(a)
  /\ \A t \in todo : Old(t[2])

(* A round cancels nothing of the position of the core, and nothing of     *)
(* others.                                                                 *)
Chosen == \A t \in todo : t[1] = "cancel" => t[2] \notin CoreAlgos(core) /\ t[2] # Foreign

LEMMA InitNamed == SupInit => Named /\ Chosen
BY SupAssumption DEF SupInit, Named, Chosen, Old, Newest, Waiting, NoFlight, NoRound

LEMMA IdOfAlgo ==
  ASSUME NEW i, NEW a \in Algos(i) \cup Repairs(i)
  PROVE  a[1] = i /\ a # Foreign
BY DEF Algos, Repairs, Foreign

LEMMA RoleOfAlgo ==
  ASSUME NEW i, NEW role \in {"SL", "SLr1"} PROVE <<i, role>> # Foreign
BY DEF Foreign

(* The steps that leave the flight, the core and the ids alone. *)
LEMMA NamedStays ==
  ASSUME SType, Named, Chosen, UNCHANGED <<core, flight, n>>,
         \A k \in Keys : \A a \in valgos'[k] : a \in valgos[k] \/ Old(a),
         \A a \in snap'.algos : a \in snap.algos \/ Old(a),
         \A t \in todo' : t \in todo
  PROVE  Named' /\ Chosen'
<1>1. \A a : Old(a)' <=> Old(a)
  BY DEF Old, Newest, Waiting
<1>2. Newest' = Newest /\ Waiting' = Waiting
  BY DEF Newest, Waiting
<1>3. CoreAlgos(core)' = CoreAlgos(core)
  BY DEF CoreAlgos
<1> QED
  BY <1>1, <1>2, <1>3 DEF Named, Chosen

(* The steps of a flight: what was old stays old. *)
LEMMA NamedFlies ==
  ASSUME SType, Named, Chosen, UNCHANGED <<snap, todo>>,
         n' \in Nat, Newest <= Newest', Newest' \in Int,
         Waiting' => core' = 0 /\ flight'.id = n',
         core' \in 0..Newest', flight'.id \in 0..n',
         core' \in {core, 0} \/ core' > Newest,
         \A k \in Keys : \A a \in valgos'[k] : a \in valgos[k] \/ Old(a)'
  PROVE  Named' /\ Chosen'
<1>1. Newest \in Int
  BY DEF Newest, Named
<1>2. \A a : Old(a) => Old(a)'
  BY <1>1 DEF Old
<1>3. Named'
  BY <1>2 DEF Named
<1>4. ASSUME NEW t \in todo, t[1] = "cancel" PROVE t[2] \notin CoreAlgos(core')
  <2>1. t[2] \notin CoreAlgos(core) /\ Old(t[2])
    BY <1>4 DEF Chosen, Named
  <2>2. CASE core' = core
    BY <2>1, <2>2
  <2>3. CASE core' = 0
    BY <2>3 DEF CoreAlgos
  <2>4. CASE core' > Newest
    <3>1. t[2][1] # core'
      BY <1>1, <2>1, <2>4 DEF Old
    <3> QED
      BY <3>1, IdOfAlgo DEF CoreAlgos
  <2> QED
    BY <2>2, <2>3, <2>4
<1>5. Chosen'
  BY <1>4 DEF Chosen, CoreAlgos
<1> QED
  BY <1>3, <1>5

LEMMA OutsideNamed == ASSUME SType, Named, Chosen, Outside \/ Settles PROVE Named' /\ Chosen'
<1> USE DEF taskVars, venueVars, countVars, history, Rest, Changed
<1>1. /\ core \in Nat /\ n \in Nat /\ flight.id \in 0..n /\ core \in 0..Newest
      /\ Newest \in Nat /\ Newest <= n
  <2>1. n \in Nat /\ core \in 0..Newest /\ flight.id \in 0..n
    BY DEF Named
  <2>2. Newest \in Int /\ Newest <= n
    BY <2>1 DEF Newest
  <2> QED
    BY <2>1, <2>2
<1>2. ASSUME NEW f \in Keys \cup {"none", "bad"}, WriteFile(f) PROVE Named' /\ Chosen'
  BY <1>2, NamedStays DEF WriteFile
<1>3. CASE SwitchMode \/ Outage \/ Back
  BY <1>3, NamedStays DEF SwitchMode, Outage, Back
<1>4. ASSUME NEW k \in Keys, Elsewhere(k) PROVE Named' /\ Chosen'
  <2>1. Old(Foreign)
    BY <1>1 DEF Old, Foreign
  <2>2. \A j \in Keys : \A a \in valgos'[j] : a \in valgos[j] \/ Old(a)
    BY <1>4, <2>1 DEF Elsewhere, SType, AlgosT
  <2> QED
    BY <1>4, <2>2, NamedStays DEF Elsewhere
<1>5. CASE SendEntry
  <2>1. flight' = [step |-> "entry", id |-> n + 1, key |-> client] /\ n' = n + 1
        /\ core = 0 /\ core' = core /\ flight = NoFlight /\ UNCHANGED <<snap, todo, valgos>>
    BY <1>5 DEF SendEntry
  <2>2. Waiting' /\ ~Waiting
    BY <2>1 DEF Waiting, NoFlight
  <2> QED
    BY <1>1, <2>1, <2>2, NamedFlies DEF Newest
<1>6. CASE SendFails \/ VenueProtects \/ VenueCancels \/ CoreCloses
  <2>1. flight'.step \notin {"entry", "filled"} /\ flight'.id \in 0..n /\ core' \in {core, 0}
    <3>1. CASE SendFails \/ VenueProtects \/ VenueCancels
      BY <1>1, <3>1 DEF SendFails, VenueProtects, VenueCancels, NoFlight
    <3>2. CASE CoreCloses
      BY <1>1, <3>2 DEF CoreCloses, NoFlight, SType, FlightT
    <3> QED
      BY <1>6, <3>1, <3>2
  <2>2. n' = n /\ UNCHANGED <<snap, todo>>
    BY <1>6 DEF SendFails, VenueProtects, VenueCancels, CoreCloses
  <2>3. Newest' = n /\ Newest <= Newest' /\ ~Waiting'
    BY <1>1, <2>1, <2>2 DEF Newest, Waiting
  <2>4. \A a \in Algos(flight.id) : Old(a)'
    BY <1>1, <2>3, IdOfAlgo DEF Old
  <2>5. \A j \in Keys : \A a \in valgos'[j] : a \in valgos[j] \/ Old(a)'
    BY <1>6, <2>4 DEF SendFails, VenueProtects, VenueCancels, CoreCloses, SType, AlgosT
  <2>6. core' \in 0..Newest'
    BY <1>1, <2>1, <2>3
  <2> QED
    BY <1>1, <2>1, <2>2, <2>3, <2>5, <2>6, NamedFlies
<1>7. CASE VenueFills
  <2>1. flight'.step = "filled" /\ flight'.id = flight.id /\ Waiting
        /\ UNCHANGED <<core, n, snap, todo, valgos>>
    BY <1>7 DEF VenueFills, Waiting, SType, FlightT
  <2>2. Waiting' /\ Newest' = Newest
    BY <2>1 DEF Newest, Waiting
  <2> QED
    BY <1>1, <2>1, <2>2, NamedFlies DEF Named, Newest
<1>8. CASE CoreOpens
  <2>1. Waiting /\ core' = flight.id /\ UNCHANGED <<n, snap, todo, valgos>>
    BY <1>8 DEF CoreOpens, Waiting
  <2>2. flight'.step \notin {"entry", "filled"} /\ flight'.id \in 0..n
    BY <1>1, <1>8 DEF CoreOpens, NoFlight, SType, FlightT
  <2>3. Newest' = n /\ Newest = n - 1 /\ ~Waiting' /\ flight.id = n
    BY <2>1, <2>2 DEF Newest, Waiting, Named
  <2> QED
    BY <1>1, <2>1, <2>2, <2>3, NamedFlies
<1>9. ASSUME NEW k \in Keys, NEW role \in {"SL", "SLr1"}, StopFires(k, <<core, role>>)
      PROVE Named' /\ Chosen'
  <2>1. flight = NoFlight /\ flight' = [step |-> "closed", id |-> core, key |-> k]
        /\ UNCHANGED <<core, n, snap, todo>>
    BY <1>9 DEF StopFires
  <2>2. ~Waiting /\ ~Waiting' /\ Newest = n /\ Newest' = n
    BY <2>1 DEF Waiting, NoFlight, Newest
  <2>3. \A j \in Keys : \A a \in valgos'[j] : a \in valgos[j]
    BY <1>9 DEF StopFires, SType, AlgosT
  <2> QED
    BY <1>1, <2>1, <2>2, <2>3, NamedFlies
<1> QED
  BY <1>2, <1>3, <1>4, <1>5, <1>6, <1>7, <1>8, <1>9 DEF Outside, Settles

LEMMA StatusNamed ==
  ASSUME SType, Carried, Named, Chosen, StatusStep \/ Raises PROVE Named' /\ Chosen'
<1> USE DEF taskVars, venueVars, countVars, history
<1>1. CASE ArmingCheck
  BY <1>1, NamedStays DEF ArmingCheck, AsApplied, Probe, Disarm, FileOnly, Trading
<1>2. CASE ProbeDone
  BY <1>2, NamedStays DEF ProbeDone, Trading
<1>3. CASE ReconStart
  BY <1>3, NamedStays DEF ReconStart, Round, NoRound
<1>4. CASE ReadSnapshot
  <2>1. UNCHANGED <<core, flight, n, valgos, todo>>
    BY <1>4 DEF ReadSnapshot, Read, Round
  <2>2. \A a \in snap'.algos : a \in snap.algos \/ a \in valgos[key]
    BY <1>4 DEF ReadSnapshot, Read, SType, SnapT
  <2>3. pc \in Reading => key \in Keys
    BY DEF Carried, SType, Accounts
  <2>4. \A a \in snap'.algos : a \in snap.algos \/ Old(a)
    <3>1. pc \in Reading
      BY <1>4 DEF ReadSnapshot, Read, Reading
    <3> QED
      BY <2>2, <2>3, <3>1 DEF Named
  <2> QED
    BY <2>1, <2>4, NamedStays
<1>5. CASE Compare
  <2>1. UNCHANGED <<core, flight, n, valgos, snap>>
    BY <1>5 DEF Compare, Round
  <2>2. ASSUME NEW t \in todo'
        PROVE  /\ Old(t[2])
               /\ t[1] = "cancel" => t[2] \notin CoreAlgos(core) /\ t[2] # Foreign
    <3>1. \/ \E a \in Orphans(core, snap) : IsOurs(a) /\ t = <<"cancel", a>>
          \/ \E a \in Repairs(core) : core # 0 /\ t = <<"place", a>>
      BY <1>5 DEF Compare
    <3>2. CASE \E a \in Orphans(core, snap) : IsOurs(a) /\ t = <<"cancel", a>>
      BY <3>2 DEF Orphans, IsOurs, Named
    <3>3. CASE \E a \in Repairs(core) : core # 0 /\ t = <<"place", a>>
      BY <3>3, IdOfAlgo DEF Named, Old
    <3> QED
      BY <3>1, <3>2, <3>3
  <2>3. \A a : Old(a)' <=> Old(a)
    BY <2>1 DEF Old, Newest, Waiting
  <2> QED
    BY <2>1, <2>2, <2>3 DEF Named, Chosen, Waiting, Newest, CoreAlgos
<1>6. ASSUME NEW t \in todo, ApplyOne(t) PROVE Named' /\ Chosen'
  <2>1. UNCHANGED <<core, flight, n, snap>> /\ \A u \in todo' : u \in todo
    BY <1>6 DEF ApplyOne, Round
  <2>2. Old(t[2])
    BY DEF Named
  <2>3. \A k \in Keys : \A a \in valgos'[k] : a \in valgos[k] \/ a = t[2]
    BY <1>6 DEF ApplyOne, SType, AlgosT
  <2> QED
    BY <2>1, <2>2, <2>3, NamedStays
<1>7. CASE Finish \/ Raises
  BY <1>7, NamedStays DEF Finish, Raises, Judged, Forget, Round, NoRound
<1> QED
  BY <1>1, <1>2, <1>3, <1>4, <1>5, <1>6, <1>7 DEF StatusStep

-----------------------------------------------------------------------------
(* What no step may do. *)

LEMMA ForeignStays ==
  ASSUME SType, Named, Chosen, SupNext, NEW k \in Keys, Foreign \in valgos[k]
  PROVE  Foreign \in valgos'[k]
<1> USE DEF taskVars, venueVars, countVars, history, Rest
<1>1. CASE Outside
  <2>1. ASSUME NEW j \in Keys, NEW role \in {"SL", "SLr1"}, StopFires(j, <<core, role>>)
        PROVE  Foreign \in valgos'[k]
    <3> DEFINE sl == <<core, role>>
    <3>1. sl # Foreign
      BY RoleOfAlgo
    <3>2. valgos' = [valgos EXCEPT ![j] = @ \ {sl}]
      BY <2>1 DEF StopFires
    <3> HIDE DEF sl
    <3> QED
      BY <3>1, <3>2 DEF SType, AlgosT
  <2> QED
    BY <1>1, <2>1
       DEF Outside, WriteFile, SwitchMode, Outage, Elsewhere, SendEntry, SendFails, SType, AlgosT
<1>2. CASE Settles
  <2>1. CASE VenueCancels
    BY <2>1, IdOfAlgo DEF VenueCancels, SType, AlgosT
  <2> QED
    BY <1>2, <2>1 DEF Settles, Back, VenueFills, CoreOpens, VenueProtects, CoreCloses, SType, AlgosT
<1>3. ASSUME NEW t \in todo, ApplyOne(t) PROVE Foreign \in valgos'[k]
  BY <1>3 DEF ApplyOne, Chosen, SType, AlgosT
<1>4. CASE ArmingCheck \/ ProbeDone \/ ReconStart \/ ReadSnapshot \/ Compare \/ Finish \/ Raises
  BY <1>4 DEF ArmingCheck, ProbeDone, ReconStart, ReadSnapshot, Read, Compare, Finish, Raises,
              FileOnly, Trading
<1> QED
  BY <1>1, <1>2, <1>3, <1>4 DEF SupNext, StatusStep

LEMMA ClientStays ==
  ASSUME SupNext, core # 0, client' # client
  PROVE  pc = "probe" \/ (pc = "compare" /\ snap.mode = "HEDGE")
<1> USE DEF Rest
<1>1. CASE Outside
  BY <1>1 DEF Outside, WriteFile, SwitchMode, Outage, Elsewhere, SendEntry, SendFails, StopFires
<1>2. CASE Settles
  BY <1>2 DEF Settles, Back, VenueFills, CoreOpens, VenueProtects, CoreCloses, VenueCancels
<1>3. CASE StatusStep \/ Raises
  BY <1>3 DEF StatusStep, ArmingCheck, AsApplied, Probe, Disarm, ProbeDone, ReconStart,
              ReadSnapshot, Read, Compare, ApplyOne, Finish, Raises
<1> QED
  BY <1>1, <1>2, <1>3 DEF SupNext

-----------------------------------------------------------------------------
RInv == SType /\ Carried /\ LInv /\ Named /\ Chosen

LEMMA StepRInv == ASSUME RInv, [SupNext]_supVars PROVE RInv'
<1>1. CASE SupNext
  BY <1>1, OutsideType, StatusType, CarriedKept, OutsideLInv, StatusLInv, OutsideNamed, StatusNamed
     DEF RInv, SupNext
<1>2. CASE UNCHANGED supVars
  BY <1>2 DEF supVars, RInv, SType, Carried, LInv, Picture, Clean, Remembered, Shown, Facts,
              Named, Chosen, Waiting, Newest, Old, CoreAlgos
<1> QED
  BY <1>1, <1>2

LEMMA RoundInvariance == SupSpec => []RInv
<1>1. SupInit => RInv
  BY InitType, InitLInv, InitNamed DEF RInv, SupInit, Carried, Reading
<1>2. RInv /\ [SupNext]_supVars => RInv'
  BY StepRInv
<1>3. SupSpec => SupInit /\ [][SupNext]_supVars
  BY DEF SupSpec
<1> QED
  BY <1>1, <1>2, <1>3, PTL

(* However the two threads of the status task, the trader, the exchange    *)
(* and the operator interleave, an open lock follows from the verdict of   *)
(* the last round, and tells the truth about the account as long as        *)
(* nothing moved since that round first asked.                             *)
THEOREM LockIsTrue == SupSpec => []LockTrue
<1>1. RInv => LockTrue
  BY DEF RInv, LInv, Remembered, Shown, Facts, LockTrue, LockFollowsVerdict, OpenLockAgrees
<1> QED
  BY <1>1, RoundInvariance, PTL

(* No round cancels the protection of the position the core holds, nobody  *)
(* touches the orders of others, and the account changes under an open     *)
(* position only behind a probe or for HEDGE.                              *)
THEOREM HandsStayOff == SupSpec => HandsOff
<1>1. RInv => SupTypeOK /\ NeverCancelsProtection
  BY TypesAreRight DEF RInv, Chosen, NeverCancelsProtection
<1>2. RInv /\ [SupNext]_supVars
        => [\A k \in Keys : Foreign \in valgos[k] => Foreign \in valgos'[k]]_supVars
  BY ForeignStays DEF RInv
<1>3. [SupNext]_supVars
        => [(core # 0 /\ client' # client)
              => (pc = "probe" \/ (pc = "compare" /\ snap.mode = "HEDGE"))]_supVars
  BY ClientStays
<1>4. SupSpec => [][SupNext]_supVars
  BY DEF SupSpec
<1> QED
  BY <1>1, <1>2, <1>3, <1>4, RoundInvariance, PTL DEF HandsOff, ForeignUntouched, OnlyTheProbeStrands
=============================================================================
