------------------------ MODULE PaperPosition_proofs ------------------------
(***************************************************************************)
(* Theorems about PaperPosition, for every value of the constants: every   *)
(* entry, mark, mode, order of processing, book depth and funding.         *)
(*                                                                         *)
(* The first part is about the handlers of PositionManager alone: what     *)
(* every one of them preserves is the type of the record, the count of     *)
(* full exits (Once), the stop on the tick grid (OnGrid), and that a step  *)
(* never loosens the stop.  The second part is about their composition     *)
(* with the simulator.                                                     *)
(***************************************************************************)
EXTENDS PaperPosition, TLAPS

-----------------------------------------------------------------------------
(* The handlers. *)

Result == [pos : Position, ctl : SUBSET AlgoCmd, ord : SUBSET Order]

(* While the position can still be exited by a rule, the only exit it has  *)
(* ever emitted is its TP1; after that, at most one more.                  *)
Partials(p) == IF p.tp1Done THEN 1 ELSE 0
Once(p) ==
  /\ p.exitSeq <= Partials(p) + 1
  /\ p.state \in {"ENTRY_SENT", "PROTECTING", "MANAGED"} => p.exitSeq = Partials(p)

(* A stop that was placed is a multiple of the tick. *)
OnGrid(p) ==
  /\ p.slv > 0 => StopTrigger(p.sl) = p.sl
  /\ p.state = "ENTRY_SENT" => p.slv = 0

Good(p) == p \in Position /\ Once(p) /\ OnGrid(p)

(* A handler's result is good and its stop is not looser than p's. *)
Follows(p, r) ==
  /\ r \in Result
  /\ Good(r.pos)
  /\ r.pos.slv >= p.slv
  /\ p.slv > 0 => r.pos.sl >= p.sl

-----------------------------------------------------------------------------
(* Rounding to the tick is monotone and idempotent, and stays an integer:  *)
(* rounding.py trigger_price.                                              *)
LEMMA StopTriggerInt ==
  ASSUME NEW c \in Int PROVE StopTrigger(c) \in Int
  BY PMAssumption DEF StopTrigger

LEMMA StopTriggerIdempotent ==
  ASSUME NEW c \in Int PROVE StopTrigger(StopTrigger(c)) = StopTrigger(c)
<1>1. c \div TickSize \in Int
  BY PMAssumption
<1>2. ((c \div TickSize) * TickSize) \div TickSize = c \div TickSize
  BY <1>1, PMAssumption
<1> QED
  BY <1>2 DEF StopTrigger

LEMMA StopTriggerMonotone ==
  ASSUME NEW c \in Int, NEW d \in Int, c <= d
  PROVE  StopTrigger(c) <= StopTrigger(d)
<1> DEFINE q == c \div TickSize
           r == d \div TickSize
<1>1. q \in Int /\ q * TickSize <= c
  BY PMAssumption
<1>2. r \in Int /\ d < r * TickSize + TickSize
  BY PMAssumption
<1> HIDE DEF q, r
<1>3. q <= r
  <2>1. SUFFICES ASSUME q >= r + 1 PROVE FALSE
    BY <1>1, <1>2
  <2>2. q * TickSize >= r * TickSize + TickSize
    BY <2>1, <1>1, <1>2, PMAssumption
  <2> QED
    BY <2>2, <1>1, <1>2, PMAssumption
<1>4. q * TickSize <= r * TickSize
  BY <1>1, <1>2, <1>3, PMAssumption
<1> QED
  BY <1>4 DEF q, r, StopTrigger

-----------------------------------------------------------------------------
(* Facts about literals, for the leaves Zenon proves. *)
LEMMA Literals == 0 \in Int /\ 0 \in Nat /\ 1 \in Nat /\ Off \in Int
BY DEF Off

(* q differs from p only in fields that Good does not read. *)
Same(p, q) ==
  /\ q \in Position
  /\ q.state = p.state /\ q.exitSeq = p.exitSeq /\ q.tp1Done = p.tp1Done
  /\ q.sl = p.sl /\ q.slv = p.slv

LEMMA SameGood == ASSUME NEW p, NEW q, Good(p), Same(p, q) PROVE Good(q)
BY DEF Good, Same, Once, OnGrid, Partials

LEMMA SameFollows ==
  ASSUME NEW p, NEW q, NEW r, Same(p, q), Follows(q, r)
  PROVE  Follows(p, r)
BY DEF Same, Follows

(* A position that has left the states the rules act on. *)
Leaving(p, q) ==
  /\ q \in Position
  /\ q.state \in {"CLOSING", "EMERGENCY", "CLOSED"}
  /\ q.exitSeq = p.exitSeq /\ q.tp1Done = p.tp1Done
  /\ q.sl = p.sl /\ q.slv = p.slv

LEMMA LeavingGood == ASSUME NEW p, NEW q, Good(p), Leaving(p, q) PROVE Good(q)
BY DEF Good, Leaving, Once, OnGrid, Partials

LEMMA SilentFollows ==
  ASSUME NEW p, NEW q, Good(p), Good(q), q.slv = p.slv, q.sl = p.sl
  PROVE  Follows(p, Silent(q))
<1>1. Silent(q) \in Result
  BY DEF Silent, Result, Good
<1>2. Silent(q).pos = q
  BY DEF Silent
<1> QED
  BY <1>1, <1>2 DEF Follows, Good, Position

LEMMA NewPositionGood == Good(NewPosition)
<1>1. NewPosition \in Position
  BY DEF NewPosition, Position, PosState, NoOrder, Off
<1>2. Once(NewPosition) /\ OnGrid(NewPosition)
  BY DEF NewPosition, Once, OnGrid, Partials
<1> QED
  BY <1>1, <1>2 DEF Good

-----------------------------------------------------------------------------
(* Events. *)

LEMMA EntryFillFollows ==
  ASSUME NEW p, Good(p), p.state = "ENTRY_SENT",
         NEW price \in Int, NEW qty \in Nat, NEW stop \in Int
  PROVE  Follows(p, OnEntryFill(p, price, qty, stop))
<1> DEFINE both == {<<"SL", 1>>, <<"TP", 1>>}
           s == StopTrigger(stop)
           q == [p EXCEPT !.entryPrice = price, !.qty = qty, !.holdAge = 0,
                          !.sl = s, !.slv = 1, !.tpv = 1,
                          !.protectAge = 0, !.state = "PROTECTING", !.active = both]
<1>1. s \in Int /\ StopTrigger(s) = s
  BY StopTriggerInt, StopTriggerIdempotent
<1>2. both \in SUBSET AlgoId
  BY DEF AlgoId
<1>3. OnEntryFill(p, price, qty, stop)
        = [pos |-> q, ctl |-> {PlaceAlgo(SlId(q)), PlaceAlgo(TpId(q))}, ord |-> {}]
  BY DEF OnEntryFill
<1> HIDE DEF both, s
<1>4. q \in Position
  BY <1>1, <1>2, Literals, Zenon DEF Position, Good, PosState
<1>5. /\ q.slv = 1 /\ q.tpv = 1 /\ q.sl = s /\ q.state = "PROTECTING"
      /\ q.exitSeq = p.exitSeq /\ q.tp1Done = p.tp1Done
  BY DEF Good, Position
<1> HIDE DEF q
<1>6. {PlaceAlgo(SlId(q)), PlaceAlgo(TpId(q))} \subseteq AlgoCmd
  BY <1>5 DEF PlaceAlgo, SlId, TpId, AlgoCmd, AlgoId
<1>7. Once(q) /\ OnGrid(q)
  BY <1>1, <1>5 DEF Good, Once, OnGrid, Partials
<1> QED
  BY <1>3, <1>4, <1>5, <1>6, <1>7 DEF Follows, Good, Result, OnGrid

LEMMA AlgoAckFollows ==
  ASSUME NEW p, Good(p), NEW a \in AlgoId
  PROVE  Follows(p, OnAlgoAck(p, a))
<1> DEFINE q == [p EXCEPT !.acked = @ \cup {a}]
           m == [q EXCEPT !.state = "MANAGED"]
           protected == p.state = "PROTECTING" /\ {SlId(p), TpId(p)} \subseteq q.acked
<1>1. Same(p, q)
  <2>1. q \in Position
    BY Zenon DEF Position, Good
  <2> QED
    BY <2>1 DEF Same, Good, Position
<1>2. Good(q)
  BY <1>1, SameGood
<1>3. ASSUME protected PROVE Good(m) /\ m.sl = p.sl /\ m.slv = p.slv
  <2> HIDE DEF q
  <2>1. m \in Position
    BY <1>2, Zenon DEF Position, Good, PosState
  <2>2. m.exitSeq = q.exitSeq /\ m.tp1Done = q.tp1Done /\ m.sl = q.sl /\ m.slv = q.slv
        /\ m.state = "MANAGED"
    BY <1>2 DEF Position, Good
  <2> QED
    BY <1>1, <1>2, <1>3, <2>1, <2>2 DEF Same, Good, Once, OnGrid, Partials
<1>4. Follows(p, Silent(q))
  BY <1>1, <1>2, SilentFollows DEF Same
<1>5. ASSUME protected PROVE Follows(p, Silent(m))
  <2> HIDE DEF m
  <2> QED
    BY <1>3, <1>5, SilentFollows
<1>6. OnAlgoAck(p, a) = Silent(IF protected THEN m ELSE q)
  BY DEF OnAlgoAck
<1> HIDE DEF q, m, protected
<1> QED
  BY <1>4, <1>5, <1>6

LEMMA CancelActiveFollows ==
  ASSUME NEW p, NEW q, Good(p), Good(q), q.slv = p.slv, q.sl = p.sl
  PROVE  Follows(p, CancelActive(q))
<1> DEFINE r == [q EXCEPT !.active = {}]
           c == {CancelAlgo(a) : a \in q.active}
<1>1. Same(q, r)
  <2>1. r \in Position
    BY Zenon DEF Position, Good
  <2> QED
    BY <2>1 DEF Same, Good, Position
<1>2. c \subseteq AlgoCmd
  <2>1. q.active \subseteq AlgoId
    BY DEF Good, Position
  <2> QED
    BY <2>1 DEF CancelAlgo, AlgoCmd
<1>3. CancelActive(q) = [pos |-> r, ctl |-> c, ord |-> {}]
  BY DEF CancelActive
<1>4. Good(r)
  BY <1>1, SameGood
<1> HIDE DEF r, c
<1> QED
  BY <1>1, <1>2, <1>3, <1>4 DEF Follows, Good, Result, Same, OnGrid, Position

LEMMA AlgoTriggeredFollows ==
  ASSUME NEW p, Good(p), NEW a \in AlgoId
  PROVE  Follows(p, OnAlgoTriggered(p, a))
<1> DEFINE q == [p EXCEPT !.active = @ \ {a}]
           c == [q EXCEPT !.state = "CLOSING"]
<1>1. Same(p, q)
  <2>1. q \in Position
    BY Zenon DEF Position, Good
  <2> QED
    BY <2>1 DEF Same, Good, Position
<1>2. Good(q)
  BY <1>1, SameGood
<1>3. Leaving(q, c)
  <2> HIDE DEF q
  <2>1. c \in Position
    BY <1>2, Zenon DEF Position, Good, PosState
  <2> QED
    BY <2>1, <1>2 DEF Leaving, Good, Position
<1>4. OnAlgoTriggered(p, a) = IF p.state = "CLOSED" THEN Silent(q) ELSE CancelActive(c)
  BY DEF OnAlgoTriggered
<1> HIDE DEF q, c
<1>5. Follows(p, Silent(q))
  BY <1>1, <1>2, SilentFollows DEF Same
<1>6. Follows(q, CancelActive(c))
  BY <1>2, <1>3, LeavingGood, CancelActiveFollows DEF Leaving
<1> QED
  BY <1>1, <1>4, <1>5, <1>6, SameFollows

LEMMA ExitTerminalSame ==
  ASSUME NEW p, Good(p), NEW id PROVE Same(p, OnExitTerminal(p, id))
<1> DEFINE q == [p EXCEPT !.exitInFlight = NoOrder, !.exitAge = Off]
<1>1. Same(p, q)
  <2>1. q \in Position
    BY Literals, Zenon DEF Position, Good
  <2> QED
    BY <2>1 DEF Same, Good, Position
<1>2. Same(p, p)
  BY DEF Same, Good
<1>3. OnExitTerminal(p, id) = IF p.exitInFlight = id THEN q ELSE p
  BY DEF OnExitTerminal
<1> HIDE DEF q
<1> QED
  BY <1>1, <1>2, <1>3

LEMMA ExitFillFollows ==
  ASSUME NEW p, Good(p), NEW qty \in Nat, NEW id
  PROVE  Follows(p, OnExitFill(p, qty, id))
<1> DEFINE n == [p EXCEPT !.exitInFlight = NoOrder]
           q == IF id # NoOrder THEN OnExitTerminal(p, id) ELSE n
           c == [q EXCEPT !.qty = 0, !.state = "CLOSED"]
           r == [q EXCEPT !.qty = @ - qty]
<1>1. Same(p, n)
  <2>1. n \in Position
    BY Zenon DEF Position, Good
  <2> QED
    BY <2>1 DEF Same, Good, Position
<1>2. Same(p, q)
  <2> HIDE DEF n
  <2> QED
    BY <1>1, ExitTerminalSame
<1>3. OnExitFill(p, qty, id)
        = IF qty >= p.qty THEN CancelActive(c) ELSE Silent(r)
  BY DEF OnExitFill
<1> HIDE DEF q
<1>4. Good(q)
  BY <1>2, SameGood
<1>5. Leaving(q, c)
  <2>1. c \in Position
    BY <1>4, Literals, Zenon DEF Position, Good, PosState
  <2> QED
    BY <2>1, <1>4 DEF Leaving, Good, Position
<1>6. q.qty \in Nat /\ q.qty = p.qty
  <2>1. q.qty \in Nat
    BY <1>4 DEF Good, Position
  <2>2. n.qty = p.qty /\ OnExitTerminal(p, id).qty = p.qty
    BY DEF OnExitTerminal, Good, Position
  <2>3. q.qty = p.qty
    BY <2>2 DEF q
  <2> QED
    BY <2>1, <2>3
<1>7. ASSUME ~(qty >= p.qty) PROVE Same(q, r)
  <2>1. q.qty - qty \in Nat
    BY <1>6, <1>7
  <2>2. r \in Position
    BY <1>4, <2>1, Zenon DEF Position, Good
  <2> QED
    BY <2>2, <1>4 DEF Same, Good, Position
<1> HIDE DEF c, r
<1>8. Follows(q, CancelActive(c))
  BY <1>4, <1>5, LeavingGood, CancelActiveFollows DEF Leaving
<1>9. ASSUME ~(qty >= p.qty) PROVE Follows(q, Silent(r))
  BY <1>4, <1>7, <1>9, SameGood, SilentFollows DEF Same
<1> QED
  BY <1>2, <1>3, <1>8, <1>9, SameFollows

LEMMA FundingSame ==
  ASSUME NEW p, Good(p), NEW rate \in Int PROVE Same(p, OnFunding(p, rate))
<1>1. p.funding + rate \in Int
  BY DEF Good, Position
<1>2. OnFunding(p, rate) \in Position
  BY <1>1, Zenon DEF Position, Good, OnFunding
<1> QED
  BY <1>2 DEF Same, Good, Position, OnFunding

-----------------------------------------------------------------------------
(* The exit lock and the exits. *)

LEMMA UnlockedSame == ASSUME NEW p, Good(p) PROVE Same(p, Unlocked(p))
<1> DEFINE q == [p EXCEPT !.exitInFlight = NoOrder]
<1>1. Same(p, q)
  <2>1. q \in Position
    BY Zenon DEF Position, Good
  <2> QED
    BY <2>1 DEF Same, Good, Position
<1>2. Same(p, p)
  BY DEF Same, Good
<1>3. Unlocked(p) = IF LockExpired(p) THEN q ELSE p
  BY DEF Unlocked
<1> HIDE DEF q
<1> QED
  BY <1>1, <1>2, <1>3

(* The one full exit: emitted from a state the rules act on, it moves the  *)
(* position out of them.                                                   *)
LEMMA ExitOrderFollows ==
  ASSUME NEW p, Good(p), p.state \in {"ENTRY_SENT", "PROTECTING", "MANAGED"},
         NEW q, Leaving(p, q), NEW tag \in {"X", "EM"}
  PROVE  Follows(p, ExitOrder(q, tag))
<1> DEFINE id == <<tag, q.exitSeq + 1>>
           r == [q EXCEPT !.exitSeq = @ + 1, !.exitInFlight = id, !.exitAge = 0]
           o == {[id |-> id, left |-> q.qty]}
<1>1. Good(q)
  BY LeavingGood
<1>2. q.exitSeq \in Nat /\ q.qty \in Nat
  BY <1>1 DEF Good, Position
<1>3. q.exitSeq + 1 \in Nat /\ id \in ExitId
  BY <1>2 DEF ExitId
<1>4. o \subseteq Order
  BY <1>2, <1>3 DEF Order
<1>5. ExitOrder(q, tag) = [pos |-> r, ctl |-> {}, ord |-> o]
  BY DEF ExitOrder
<1> HIDE DEF id
<1>6. r \in Position
  BY <1>1, <1>3, Literals, Zenon DEF Position, Good
<1>7. /\ r.exitSeq = q.exitSeq + 1 /\ r.state = q.state /\ r.tp1Done = q.tp1Done
      /\ r.sl = q.sl /\ r.slv = q.slv
  BY <1>1 DEF Good, Position
<1> HIDE DEF r, o
<1>8. Good(r)
  BY <1>1, <1>2, <1>6, <1>7 DEF Good, Leaving, Once, OnGrid, Partials
<1> QED
  BY <1>4, <1>5, <1>7, <1>8 DEF Follows, Good, Leaving, Result, Position

LEMMA SilentSame ==
  ASSUME NEW p, NEW q, Good(p), Same(p, q) PROVE Follows(p, Silent(q))
BY SameGood, SilentFollows DEF Same

LEMMA CloseFollows ==
  ASSUME NEW p, Good(p), p.state \in {"ENTRY_SENT", "PROTECTING", "MANAGED"}
  PROVE  Follows(p, Close(p))
<1> DEFINE q == Unlocked(p)
           c == [q EXCEPT !.state = "CLOSING"]
<1>1. Same(p, q)
  BY UnlockedSame
<1>2. Leaving(q, c)
  <2> HIDE DEF q
  <2>1. c \in Position
    BY <1>1, Zenon DEF Position, Same, PosState
  <2> QED
    BY <2>1, <1>1 DEF Leaving, Same, Position
<1>3. Close(p) = IF ExitLocked(p) \/ ~CanExit(q) THEN Silent(q) ELSE ExitOrder(c, "X")
  BY DEF Close
<1> HIDE DEF q, c
<1>4. Follows(p, Silent(q))
  BY <1>1, SilentSame
<1>5. Follows(q, ExitOrder(c, "X"))
  BY <1>1, <1>2, SameGood, ExitOrderFollows DEF Same
<1> QED
  BY <1>1, <1>3, <1>4, <1>5, SameFollows

LEMMA EmergencyFollows ==
  ASSUME NEW p, Good(p), p.state = "PROTECTING"
  PROVE  Follows(p, Emergency(p))
<1> DEFINE q == [p EXCEPT !.state = "EMERGENCY"]
           u == Unlocked(q)
<1>1. Leaving(p, q)
  <2>1. q \in Position
    BY Zenon DEF Position, Good, PosState
  <2> QED
    BY <2>1 DEF Leaving, Good, Position
<1>2. Emergency(p) = IF ExitLocked(q) THEN Silent(q) ELSE ExitOrder(u, "EM")
  BY DEF Emergency
<1> HIDE DEF q
<1>3. Good(q) /\ Same(q, u)
  BY <1>1, LeavingGood, UnlockedSame
<1> HIDE DEF u
<1>4. Leaving(p, u)
  BY <1>1, <1>3 DEF Leaving, Same
<1>5. Follows(p, Silent(q))
  BY <1>1, <1>3, SilentFollows DEF Leaving
<1> QED
  BY <1>2, <1>4, <1>5, ExitOrderFollows

-----------------------------------------------------------------------------
(* on_tick. *)

LEMMA OlderInt ==
  ASSUME NEW age \in Int, NEW t \in Nat PROVE Older(age, t) \in Int
BY DEF Older

LEMMA AgedSame == ASSUME NEW p, Good(p) PROVE Same(p, Aged(p))
<1>1. /\ Older(p.protectAge, TProtect) \in Int
      /\ Older(p.crossedAge, TBackup) \in Int
      /\ Older(p.replaceAge, MinInterval) \in Int
      /\ Older(p.holdAge, MaxHold) \in Int
      /\ Older(p.exitAge, ExitTtl) \in Int
  BY OlderInt, PMAssumption DEF Good, Position
<1>2. Aged(p) \in Position
  BY <1>1, Zenon DEF Position, Good, Aged
<1> QED
  BY <1>2 DEF Same, Good, Position, Aged

LEMMA BackupStopFollows ==
  ASSUME NEW p, Good(p), p.state = "MANAGED"
  PROVE  Follows(p, BackupStop(p))
<1> DEFINE q == [p EXCEPT !.crossedAge = 0]
<1>1. Same(p, q)
  <2>1. q \in Position
    BY Literals, Zenon DEF Position, Good
  <2> QED
    BY <2>1 DEF Same, Good, Position
<1>2. Same(p, p)
  BY DEF Same, Good
<1>3. BackupStop(p) = IF p.crossedAge = Off THEN Silent(q)
                      ELSE IF BackupExpired(p) THEN Close(p) ELSE Silent(p)
  BY DEF BackupStop
<1> HIDE DEF q
<1> QED
  BY <1>1, <1>2, <1>3, SilentSame, CloseFollows

(* R4 counts as the one partial exit, and only once. *)
LEMMA TakePartialFollows ==
  ASSUME NEW p, Good(p), p.state = "MANAGED", NEW mark \in Int
  PROVE  /\ Follows(p, TakePartial(p, mark))
         /\ TakePartial(p, mark).pos.state = "MANAGED"
         /\ TakePartial(p, mark).pos.sl = p.sl
         /\ TakePartial(p, mark).pos.slv = p.slv
<1> DEFINE n == p.qty \div Tp1Den
           due == "R4" \in Rules /\ ~p.tp1Done /\ Net(p, mark) >= Tp1
                  /\ n >= MinQty /\ n * mark >= MinNotional
           u == Unlocked(p)
           r == [u EXCEPT !.tp1Done = TRUE, !.exitSeq = @ + 1]
           id == <<"TP1", p.exitSeq + 1>>
           o == {[id |-> id, left |-> n]}
<1>1. Same(p, u) /\ Same(p, p)
  BY UnlockedSame DEF Same, Good
<1>2. Follows(p, Silent(u)) /\ Follows(p, Silent(p))
  BY <1>1, SilentSame
<1>3. p.exitSeq \in Nat /\ p.qty \in Nat /\ p.exitSeq + 1 \in Nat
  BY DEF Good, Position
<1>4. n \in Nat
  BY <1>3, PMAssumption
<1>5. TakePartial(p, mark)
        = IF due /\ ~ExitLocked(p) THEN [pos |-> r, ctl |-> {}, ord |-> o]
          ELSE Silent(IF due THEN u ELSE p)
  <2>1. u.exitSeq = p.exitSeq
    BY <1>1 DEF Same
  <2> QED
    BY <2>1 DEF TakePartial
<1>6. due => ~p.tp1Done
  OBVIOUS
<1> HIDE DEF u, due, n
<1>7. o \subseteq Order
  BY <1>3, <1>4 DEF Order, ExitId
<1>8. u.exitSeq + 1 \in Nat
  BY <1>1, <1>3 DEF Same
<1>9. r \in Position
  BY <1>1, <1>8, Zenon DEF Position, Same
<1>10. /\ r.tp1Done = TRUE /\ r.exitSeq = u.exitSeq + 1
       /\ r.state = u.state /\ r.sl = u.sl /\ r.slv = u.slv
  BY <1>1 DEF Same, Position
<1> HIDE DEF r, o
<1>11. ASSUME due PROVE Good(r)
  BY <1>1, <1>3, <1>6, <1>9, <1>10, <1>11 DEF Same, Good, Once, OnGrid, Partials
<1>12. ASSUME due PROVE Follows(p, [pos |-> r, ctl |-> {}, ord |-> o])
  BY <1>1, <1>7, <1>10, <1>11, <1>12 DEF Same, Follows, Good, Result, Position
<1> QED
  BY <1>1, <1>2, <1>5, <1>10, <1>12 DEF Same, Silent

(* R3: a stop that is better before rounding is not worse after it.        *)
LEMMA MoveStopFollows ==
  ASSUME NEW p, Good(p), p.state = "MANAGED", NEW mark \in Int
  PROVE  Follows(p, MoveStop(p, mark))
<1> DEFINE better == {c \in Desired(p, mark) : c > p.sl}
           due == /\ "R3" \in Rules /\ Net(p, mark) >= LockTrigger
                  /\ (p.replaceAge = Off \/ p.replaceAge >= MinInterval)
           act(c) == (p.active \cup {<<"SL", p.slv + 1>>}) \ {SlId(p)}
           moved(c) == [p EXCEPT !.slv = @ + 1, !.sl = StopTrigger(c), !.locked = TRUE,
                                 !.replaceAge = 0,
                                 !.active = (@ \cup {<<"SL", p.slv + 1>>}) \ {SlId(p)}]
           res(c) == [pos |-> moved(c),
                      ctl |-> {PlaceAlgo(SlId(moved(c))), CancelAlgo(SlId(p))}, ord |-> {}]
<1>1. MoveStop(p, mark) = IF due /\ better # {} THEN res(CHOOSE x \in better : TRUE)
                          ELSE Silent(p)
  BY DEF MoveStop
<1>2. Follows(p, Silent(p))
  BY SilentSame DEF Same, Good
<1>3. ASSUME NEW c \in better PROVE Follows(p, res(c))
  <2>1. /\ p.sl \in Int /\ p.slv \in Nat /\ p.slv + 1 \in Nat /\ p.entryPrice \in Int
        /\ p.funding \in Int
    BY DEF Good, Position
  <2>2. c \in Int /\ c > p.sl
    BY <2>1, PMAssumption DEF Desired, CostOf
  <2> HIDE DEF better
  <2>3. StopTrigger(c) \in Int /\ StopTrigger(StopTrigger(c)) = StopTrigger(c)
    BY <2>2, StopTriggerInt, StopTriggerIdempotent
  <2>4. p.slv > 0 => StopTrigger(c) >= p.sl
    <3>1. StopTrigger(p.sl) <= StopTrigger(c)
      BY <2>1, <2>2, StopTriggerMonotone
    <3> QED
      BY <2>1, <2>3, <3>1 DEF Good, OnGrid
  <2>5. (p.active \cup {<<"SL", p.slv + 1>>}) \ {SlId(p)} \in SUBSET AlgoId
    BY <2>1 DEF AlgoId, Good, Position
  <2>6. moved(c) \in Position
    BY <2>1, <2>3, <2>5, Literals, Zenon DEF Position, Good
  <2>7. /\ moved(c).slv = p.slv + 1 /\ moved(c).sl = StopTrigger(c)
        /\ moved(c).state = p.state /\ moved(c).exitSeq = p.exitSeq
        /\ moved(c).tp1Done = p.tp1Done
    BY DEF Good, Position
  <2> HIDE DEF moved
  <2>8. {PlaceAlgo(SlId(moved(c))), CancelAlgo(SlId(p))} \subseteq AlgoCmd
    BY <2>1, <2>7 DEF PlaceAlgo, CancelAlgo, SlId, AlgoCmd, AlgoId
  <2>9. Good(moved(c))
    BY <2>1, <2>3, <2>6, <2>7 DEF Good, Once, OnGrid, Partials
  <2> QED
    BY <2>1, <2>4, <2>7, <2>8, <2>9 DEF Follows, Good, Result
<1> HIDE DEF better, due, res
<1> QED
  BY <1>1, <1>2, <1>3

LEMMA ProfitRulesFollows ==
  ASSUME NEW p, Good(p), p.state = "MANAGED", NEW mark \in Int
  PROVE  Follows(p, ProfitRules(p, mark))
<1> DEFINE c == [p EXCEPT !.crossedAge = Off]
           tp == TakePartial(c, mark)
           sl == MoveStop(tp.pos, mark)
<1>1. Same(p, c)
  <2>1. c \in Position
    BY Literals, Zenon DEF Position, Good
  <2> QED
    BY <2>1 DEF Same, Good, Position
<1>2. ProfitRules(p, mark) = [pos |-> sl.pos, ctl |-> sl.ctl, ord |-> tp.ord]
  BY DEF ProfitRules
<1> HIDE DEF c
<1>3. Good(c) /\ c.state = "MANAGED"
  BY <1>1, SameGood DEF Same
<1>4. /\ Follows(c, tp) /\ tp.pos.state = "MANAGED"
      /\ tp.pos.sl = c.sl /\ tp.pos.slv = c.slv
  BY <1>3, TakePartialFollows
<1> HIDE DEF tp
<1>5. Follows(tp.pos, sl)
  BY <1>4, MoveStopFollows DEF Follows
<1> HIDE DEF sl
<1>6. [pos |-> sl.pos, ctl |-> sl.ctl, ord |-> tp.ord] \in Result
  BY <1>4, <1>5, Zenon DEF Follows, Result
<1> QED
  BY <1>1, <1>2, <1>4, <1>5, <1>6 DEF Follows, Same

LEMMA ManagedTickFollows ==
  ASSUME NEW p, Good(p), p.state = "MANAGED", NEW mark \in Int, NEW label \in BOOLEAN
  PROVE  Follows(p, ManagedTick(p, mark, label))
<1> DEFINE c == [p EXCEPT !.crossedAge = Off]
<1>1. Same(p, c)
  <2>1. c \in Position
    BY Literals, Zenon DEF Position, Good
  <2> QED
    BY <2>1 DEF Same, Good, Position
<1>2. ManagedTick(p, mark, label)
        = IF Degraded(label) THEN Close(p)
          ELSE IF Crossed(p, mark) THEN BackupStop(p)
          ELSE IF HoldExpired(p, mark) THEN Close(c)
          ELSE ProfitRules(p, mark)
  BY DEF ManagedTick
<1> HIDE DEF c
<1>3. Follows(c, Close(c))
  BY <1>1, SameGood, CloseFollows DEF Same
<1> QED
  BY <1>1, <1>2, <1>3, SameFollows, CloseFollows, BackupStopFollows, ProfitRulesFollows

LEMMA TickFollows ==
  ASSUME NEW p, Good(p), NEW mark \in Int, NEW label \in BOOLEAN, NEW mode
  PROVE  Follows(p, OnTick(p, mark, label, mode))
<1>1. Follows(p, Silent(p))
  BY SilentSame DEF Same, Good
<1> QED
  BY <1>1, EmergencyFollows, ManagedTickFollows DEF OnTick, ProtectTimeout

-----------------------------------------------------------------------------
(* The handlers and the simulator. *)

(* The position record is good and every other variable has its type.     *)
IInv ==
  /\ thin \in BOOLEAN
  /\ Good(pos)
  /\ ctl \subseteq AlgoCmd
  /\ orders \subseteq Order
  /\ algos \subseteq AlgoId
  /\ trig \subseteq AlgoId
  /\ simQty \in Nat

(* A handler's result submitted by _step keeps the part of IInv it touches *)
(* and does not loosen the stop.                                           *)
LEMMA StepsFollow ==
  ASSUME NEW r, NEW c, NEW o, Follows(pos, r), c \subseteq AlgoCmd, o \subseteq Order,
         Steps(r, c, o)
  PROVE  /\ Good(pos') /\ ctl' \subseteq AlgoCmd /\ orders' \subseteq Order
         /\ pos.slv > 0 => pos'.sl >= pos.sl
BY DEF Follows, Steps, Result

LEMMA SyncedNat == ASSUME IInv PROVE Synced \in Nat
BY DEF IInv, Good, Position, Synced

LEMMA TakesNat == ASSUME NEW q \in Nat, NEW t \in Takes(q) PROVE t \in Nat /\ t <= q /\ t > 0
BY DEF Takes

LEMMA InitIInv == Init => IInv
<1>1. ASSUME Init PROVE Good(pos)
  BY <1>1, NewPositionGood DEF Init
<1>2. ASSUME Init
      PROVE  /\ thin \in BOOLEAN /\ ctl = {} /\ orders = {} /\ algos = {} /\ trig = {}
             /\ simQty = 0
  BY <1>2 DEF Init
<1> QED
  BY <1>1, <1>2 DEF IInv

(* Every step keeps IInv and the stop. *)
LEMMA StepIInv ==
  ASSUME IInv, [Next]_vars
  PROVE  IInv' /\ (pos.slv > 0 => pos'.sl >= pos.sl)
<1>1. pos.sl \in Int
  BY DEF IInv, Good, Position
<1>2. CASE EntryFill
  <2>1. PICK q \in EntryQtys : Steps(OnEntryFill(pos, EntryPrice, q, EntryStop), ctl, orders)
    BY <1>2 DEF EntryFill
  <2>2. Follows(pos, OnEntryFill(pos, EntryPrice, q, EntryStop))
    BY <1>2, PPAssumption, EntryFillFollows DEF IInv, EntryFill
  <2> QED
    BY <1>2, <2>1, <2>2, StepsFollow DEF IInv, EntryFill, simVars
<1>3. CASE Process
  <2>1. PICK c \in ctl : SimPlace(c) \/ SimCancel(c)
    BY <1>3 DEF Process
  <2>2. c.id \in AlgoId
    BY DEF IInv, AlgoCmd
  <2>3. CASE SimPlace(c)
    <3>1. Follows(pos, OnAlgoAck(pos, c.id))
      BY <2>2, AlgoAckFollows DEF IInv
    <3>2. Steps(OnAlgoAck(pos, c.id), ctl \ {c}, orders)
      BY <2>3 DEF SimPlace
    <3>3. Good(pos') /\ ctl' \subseteq AlgoCmd /\ orders' \subseteq Order
          /\ (pos.slv > 0 => pos'.sl >= pos.sl)
      BY <3>1, <3>2, StepsFollow DEF IInv
    <3> QED
      BY <2>2, <2>3, <3>3 DEF IInv, SimPlace
  <2>4. CASE SimCancel(c)
    BY <1>1, <2>4 DEF IInv, SimCancel
  <2> QED
    BY <2>1, <2>3, <2>4
<1>4. CASE SimSync
  BY <1>1, <1>4, SyncedNat DEF IInv, SimSync
<1>5. CASE Trigger
  <2>1. PICK a \in algos : SimTrigger(a)
    BY <1>5 DEF Trigger
  <2>2. Follows(pos, OnAlgoTriggered(pos, a))
    BY AlgoTriggeredFollows DEF IInv
  <2>3. Good(pos') /\ ctl' \subseteq AlgoCmd /\ orders' \subseteq Order
        /\ (pos.slv > 0 => pos'.sl >= pos.sl)
    BY <2>1, <2>2, StepsFollow DEF IInv, SimTrigger
  <2> QED
    BY <2>1, <2>3, SyncedNat DEF IInv, SimTrigger
<1>6. CASE Fill
  <2>1. ASSUME NEW a \in trig, SimTriggeredFill(a)
        PROVE  IInv' /\ (pos.slv > 0 => pos'.sl >= pos.sl)
    <3>1. CASE simQty = 0 /\ UNCHANGED <<pos, ctl, orders>>
      BY <1>1, <2>1, <3>1 DEF IInv, SimTriggeredFill
    <3>2. ASSUME NEW q \in Takes(simQty),
                 Steps(OnExitFill(pos, q, NoOrder), ctl, orders)
          PROVE  IInv' /\ (pos.slv > 0 => pos'.sl >= pos.sl)
      <4>1. q \in Nat
        BY TakesNat DEF IInv
      <4>2. Follows(pos, OnExitFill(pos, q, NoOrder))
        BY <4>1, ExitFillFollows DEF IInv
      <4>3. Good(pos') /\ ctl' \subseteq AlgoCmd /\ orders' \subseteq Order
            /\ (pos.slv > 0 => pos'.sl >= pos.sl)
        BY <3>2, <4>2, StepsFollow DEF IInv
      <4> QED
        BY <2>1, <3>2, <4>1, <4>3 DEF IInv, SimTriggeredFill
    <3> QED
      BY <2>1, <3>1, <3>2 DEF SimTriggeredFill
  <2>2. ASSUME NEW o \in orders, SimOrderFill(o)
        PROVE  IInv' /\ (pos.slv > 0 => pos'.sl >= pos.sl)
    <3> DEFINE rest(q) == [o EXCEPT !.left = @ - q]
               left(q) == (orders \ {o}) \cup {x \in {rest(q)} : x.left > 0}
    <3>1. PICK q \in Takes(o.left) :
             Steps(OnExitFill(pos, q, NoOrder), ctl, left(q))
      BY <2>2 DEF SimOrderFill
    <3>2. o.left \in Nat /\ o \in Order
      BY DEF IInv, Order
    <3>3. q \in Nat /\ o.left - q \in Nat
      BY <3>2, TakesNat
    <3>4. rest(q) \in Order
      BY <3>2, <3>3 DEF Order
    <3>5. left(q) \subseteq Order
      BY <3>4 DEF IInv
    <3> HIDE DEF left, rest
    <3>6. Follows(pos, OnExitFill(pos, q, NoOrder))
      BY <3>3, ExitFillFollows DEF IInv
    <3>7. Good(pos') /\ ctl' \subseteq AlgoCmd /\ orders' \subseteq Order
          /\ (pos.slv > 0 => pos'.sl >= pos.sl)
      BY <3>1, <3>5, <3>6, StepsFollow DEF IInv
    <3>8. UNCHANGED <<thin, algos, trig, simQty>>
      BY <2>2 DEF SimOrderFill
    <3> QED
      BY <3>7, <3>8 DEF IInv
  <2> QED
    BY <1>6, <2>1, <2>2 DEF Fill
<1>7. CASE Expire
  BY <1>1, <1>7 DEF IInv, Expire, SimOrderExpire
<1>8. CASE Tick
  <2>1. PICK mark \in Marks, label \in BOOLEAN, mode \in Modes :
           Steps(OnTick(Aged(pos), mark, label, mode), ctl, orders)
    BY <1>8 DEF Tick
  <2>2. Same(pos, Aged(pos))
    BY AgedSame DEF IInv
  <2>3. mark \in Int
    BY PPAssumption
  <2>4. Follows(Aged(pos), OnTick(Aged(pos), mark, label, mode))
    BY <2>2, <2>3, SameGood, TickFollows DEF IInv
  <2>5. Follows(pos, OnTick(Aged(pos), mark, label, mode))
    BY <2>2, <2>4, SameFollows
  <2>6. Good(pos') /\ ctl' \subseteq AlgoCmd /\ orders' \subseteq Order
        /\ (pos.slv > 0 => pos'.sl >= pos.sl)
    BY <2>1, <2>5, StepsFollow DEF IInv
  <2> QED
    BY <1>8, <2>6 DEF IInv, Tick, simVars
<1>9. CASE Funding
  <2>1. PICK r \in FundingRates : pos' = OnFunding(pos, r)
    BY <1>9 DEF Funding
  <2>2. Same(pos, pos')
    BY <2>1, PPAssumption, FundingSame DEF IInv
  <2>3. Good(pos') /\ pos'.sl = pos.sl
    BY <2>2, SameGood DEF IInv, Same
  <2> QED
    BY <1>1, <1>9, <2>3 DEF IInv, Funding, simVars
<1>10. CASE UNCHANGED vars
  BY <1>1, <1>10 DEF IInv, vars, simVars
<1> QED
  BY <1>2, <1>3, <1>4, <1>5, <1>6, <1>7, <1>8, <1>9, <1>10 DEF Next

-----------------------------------------------------------------------------
LEMMA Invariance == Spec => []IInv
<1>1. Init => IInv
  BY InitIInv
<1>2. IInv /\ [Next]_vars => IInv'
  BY StepIInv
<1> QED
  BY <1>1, <1>2, PTL DEF Spec

(* Whatever the constants, every variable keeps its type and one position  *)
(* never emits a second full exit: _close and the protection timeout       *)
(* cannot both fire, nor either of them twice.                             *)
THEOREM ExitOnce == Spec => []OneExit
<1>1. IInv => TypeOK
  BY DEF IInv, TypeOK, Good
<1>2. IInv => AtMostOneFullExit
  BY DEF IInv, AtMostOneFullExit, Good, Once, Partials, Position
<1>3. IInv => OneExit
  BY <1>1, <1>2 DEF OneExit
<1> QED
  BY <1>3, Invariance, PTL

(* R3 is a ratchet: no step of the trader moves a placed stop against the  *)
(* position, for every tick size, gap, step and offset.                    *)
THEOREM StopRatchet == Spec => StopNeverLoosens
<1>1. IInv /\ [Next]_vars => [pos.slv > 0 => pos'.sl >= pos.sl]_vars
  BY StepIInv
<1> QED
  BY <1>1, Invariance, PTL DEF Spec, StopNeverLoosens
-----------------------------------------------------------------------------
(* NeverNaked.  While the position is protected or managed, a stop of the  *)
(* current version is there and only older versions are being cancelled;   *)
(* once an exit was decided, a trigger or an order covers all of it.       *)
Unborn ==
  pos.state = "ENTRY_SENT" =>
    pos.qty = 0 /\ ctl = {} /\ orders = {} /\ algos = {} /\ trig = {}

NoExitYet == pos.state \in {"ENTRY_SENT", "PROTECTING"} => pos.exitInFlight = NoOrder

Emptied == pos.state = "CLOSED" => pos.qty = 0

Guarded ==
  pos.state \in {"PROTECTING", "MANAGED"} =>
    /\ StopThere
    /\ \A n \in Nat : CancelAlgo(<<"SL", n>>) \in ctl => n < pos.slv

Enough == (trig # {} /\ simQty >= pos.qty) \/ (\E o \in orders : o.left >= pos.qty)
Closing ==
  ~thin /\ pos.qty > 0 /\ pos.state \in {"CLOSING", "EMERGENCY"} => Enough

Covered == Unborn /\ NoExitYet /\ Emptied /\ Guarded /\ Closing

(* What a tick may do to an open position: leave it, move its stop one     *)
(* version on, or send an exit for all of it.                              *)
Stays(p, r) ==
  /\ r.pos.state = p.state /\ r.pos.slv = p.slv /\ r.ctl = {}
  /\ p.state = "PROTECTING" => r.pos.exitInFlight = p.exitInFlight

Moves(p, r) ==
  /\ p.state = "MANAGED" /\ r.pos.state = "MANAGED" /\ r.pos.slv = p.slv + 1
  /\ r.ctl = {PlaceAlgo(<<"SL", p.slv + 1>>), CancelAlgo(<<"SL", p.slv>>)}

Exits(p, r) ==
  /\ r.pos.state \in {"CLOSING", "EMERGENCY"}
  /\ \E o \in r.ord : o.left = p.qty

Ticked(p, r) == r.pos.qty = p.qty /\ (Stays(p, r) \/ Moves(p, r) \/ Exits(p, r))

LEMMA CloseTicked ==
  ASSUME NEW p \in Position, p.state = "MANAGED" PROVE Ticked(p, Close(p))
BY DEF Ticked, Stays, Exits, Close, Silent, ExitOrder, Unlocked, Position

LEMMA EmergencyTicked ==
  ASSUME NEW p \in Position, p.exitInFlight = NoOrder PROVE Ticked(p, Emergency(p))
<1> DEFINE q == [p EXCEPT !.state = "EMERGENCY"]
<1>1. q.state = "EMERGENCY" /\ q.qty = p.qty /\ q.exitInFlight = NoOrder
  BY DEF Position
<1>2. Emergency(p) = IF ExitLocked(q) THEN Silent(q) ELSE ExitOrder(Unlocked(q), "EM")
  BY DEF Emergency
<1> HIDE DEF q
<1>3. ~ExitLocked(q) /\ Unlocked(q) = q
  BY <1>1 DEF ExitLocked, LockExpired, Unlocked
<1>4. /\ ExitOrder(q, "EM").pos.state = q.state /\ ExitOrder(q, "EM").pos.qty = q.qty
      /\ \E o \in ExitOrder(q, "EM").ord : o.left = q.qty
  <2>1. q \in Position
    BY Zenon DEF q, Position, PosState
  <2> QED
    BY <2>1 DEF ExitOrder, Position
<1> QED
  BY <1>1, <1>2, <1>3, <1>4 DEF Ticked, Exits

LEMMA ProfitRulesTicked ==
  ASSUME NEW p \in Position, p.state = "MANAGED", NEW mark \in Int
  PROVE  Ticked(p, ProfitRules(p, mark))
<1> DEFINE c == [p EXCEPT !.crossedAge = Off]
           tp == TakePartial(c, mark)
           sl == MoveStop(tp.pos, mark)
<1>1. /\ c \in Position /\ c.state = "MANAGED"
      /\ c.qty = p.qty /\ c.slv = p.slv
  <2>1. c \in Position
    BY Literals, Zenon DEF Position
  <2> QED
    BY <2>1 DEF Position
<1>2. ProfitRules(p, mark) = [pos |-> sl.pos, ctl |-> sl.ctl, ord |-> tp.ord]
  BY DEF ProfitRules
<1> HIDE DEF c
<1>3. /\ tp.pos.state = "MANAGED" /\ tp.pos.qty = c.qty /\ tp.pos.slv = c.slv
      /\ tp.pos \in Position
  <2> DEFINE u == Unlocked(c)
             r == [u EXCEPT !.tp1Done = TRUE, !.exitSeq = @ + 1]
  <2>1. u \in Position /\ u.state = "MANAGED" /\ u.qty = c.qty /\ u.slv = c.slv
    <3> DEFINE n == [c EXCEPT !.exitInFlight = NoOrder]
    <3>1. n \in Position
      BY <1>1, Zenon DEF Position
    <3>2. n.state = "MANAGED" /\ n.qty = c.qty /\ n.slv = c.slv
      BY <1>1 DEF Position
    <3>3. u = IF LockExpired(c) THEN n ELSE c
      BY DEF Unlocked
    <3> HIDE DEF n, u
    <3> QED
      BY <1>1, <3>1, <3>2, <3>3
  <2>2. tp.pos \in {r, u, c}
    BY DEF TakePartial, Silent
  <2> HIDE DEF u, tp
  <2>3. r \in Position /\ r.state = "MANAGED" /\ r.qty = c.qty /\ r.slv = c.slv
    <3>1. u.exitSeq + 1 \in Nat
      BY <2>1 DEF Position
    <3>2. r \in Position
      BY <2>1, <3>1, Zenon DEF Position
    <3> QED
      BY <2>1, <3>2 DEF Position
  <2> QED
    BY <1>1, <2>1, <2>2, <2>3
<1> HIDE DEF tp
<1>4. \/ sl.pos = tp.pos /\ sl.ctl = {}
      \/ /\ sl.pos.state = "MANAGED" /\ sl.pos.qty = c.qty /\ sl.pos.slv = c.slv + 1
         /\ sl.ctl = {PlaceAlgo(<<"SL", c.slv + 1>>), CancelAlgo(<<"SL", c.slv>>)}
  <2> DEFINE m(x) == [tp.pos EXCEPT !.slv = @ + 1, !.sl = StopTrigger(x), !.locked = TRUE,
                        !.replaceAge = 0,
                        !.active = (@ \cup {<<"SL", tp.pos.slv + 1>>}) \ {SlId(tp.pos)}]
  <2>1. \/ sl.pos = tp.pos /\ sl.ctl = {}
        \/ \E x : /\ sl.pos = m(x)
                  /\ sl.ctl = {PlaceAlgo(SlId(m(x))), CancelAlgo(SlId(tp.pos))}
    BY DEF MoveStop, Silent
  <2>2. ASSUME NEW x
        PROVE  m(x).slv = c.slv + 1 /\ m(x).state = "MANAGED" /\ m(x).qty = c.qty
    BY <1>3 DEF Position
  <2> HIDE DEF m, sl
  <2>3. ASSUME NEW x PROVE SlId(m(x)) = <<"SL", c.slv + 1>>
    BY <2>2 DEF SlId
  <2>4. SlId(tp.pos) = <<"SL", c.slv>>
    BY <1>3 DEF SlId
  <2> QED
    BY <2>1, <2>2, <2>3, <2>4
<1> HIDE DEF sl
<1>5. /\ ProfitRules(p, mark).pos = sl.pos /\ ProfitRules(p, mark).ctl = sl.ctl
  BY <1>2
<1> QED
  BY <1>1, <1>3, <1>4, <1>5 DEF Ticked, Stays, Moves

LEMMA TickTicked ==
  ASSUME NEW p \in Position, p.state \in {"PROTECTING", "MANAGED"},
         p.state = "PROTECTING" => p.exitInFlight = NoOrder,
         NEW mark \in Int, NEW label \in BOOLEAN, NEW mode
  PROVE  Ticked(p, OnTick(p, mark, label, mode))
<1>1. Ticked(p, Silent(p))
  BY DEF Ticked, Stays, Silent
<1>2. ASSUME p.state = "PROTECTING" PROVE Ticked(p, Emergency(p))
  BY <1>2, EmergencyTicked
<1>3. ASSUME p.state = "MANAGED" PROVE Ticked(p, ManagedTick(p, mark, label))
  <2> DEFINE c == [p EXCEPT !.crossedAge = Off]
             b == [p EXCEPT !.crossedAge = 0]
  <2>1. /\ c \in Position /\ c.state = p.state /\ c.qty = p.qty /\ c.slv = p.slv
        /\ c.exitInFlight = p.exitInFlight
    <3>1. c \in Position
      BY Literals, Zenon DEF Position
    <3> QED
      BY <3>1 DEF Position
  <2>2. Ticked(p, Silent(b))
    BY <1>3 DEF Ticked, Stays, Silent, Position
  <2>3. ManagedTick(p, mark, label)
          = IF Degraded(label) THEN Close(p)
            ELSE IF Crossed(p, mark) THEN BackupStop(p)
            ELSE IF HoldExpired(p, mark) THEN Close(c)
            ELSE ProfitRules(p, mark)
    BY DEF ManagedTick
  <2>4. BackupStop(p) \in {Silent(b), Close(p), Silent(p)}
    BY DEF BackupStop
  <2> HIDE DEF c, b
  <2>5. Ticked(c, Close(c))
    BY <1>3, <2>1, CloseTicked
  <2>6. Ticked(p, Close(c))
    BY <1>3, <2>1, <2>5 DEF Ticked, Stays, Moves, Exits
  <2> QED
    BY <1>1, <1>3, <2>2, <2>3, <2>4, <2>6, CloseTicked, ProfitRulesTicked
<1> QED
  BY <1>1, <1>2, <1>3 DEF OnTick, ProtectTimeout

(* A fill: the position is closed and empty, or smaller in the same state. *)
LEMMA FillTicked ==
  ASSUME NEW p \in Position, NEW q \in Nat
  PROVE  LET r == OnExitFill(p, q, NoOrder)
         IN /\ r.pos.slv = p.slv /\ r.pos.exitInFlight = NoOrder
            /\ \/ q >= p.qty /\ r.pos.state = "CLOSED" /\ r.pos.qty = 0
               \/ q < p.qty /\ r.pos.state = p.state /\ r.pos.qty = p.qty - q /\ r.ctl = {}
            /\ r.ord = {}
<1> DEFINE n == [p EXCEPT !.exitInFlight = NoOrder]
<1>1. /\ n.state = p.state /\ n.qty = p.qty /\ n.slv = p.slv /\ n.exitInFlight = NoOrder
      /\ n \in Position
  <2>1. n \in Position
    BY Zenon DEF Position
  <2> QED
    BY <2>1 DEF Position
<1>2. OnExitFill(p, q, NoOrder)
        = IF q >= p.qty THEN CancelActive([n EXCEPT !.qty = 0, !.state = "CLOSED"])
          ELSE Silent([n EXCEPT !.qty = @ - q])
  BY DEF OnExitFill
<1> HIDE DEF n
<1>3. p.qty \in Nat
  BY DEF Position
<1> QED
  BY <1>1, <1>2, <1>3 DEF CancelActive, Silent, Position

LEMMA AckTicked ==
  ASSUME NEW p \in Position, NEW a
  PROVE  LET r == OnAlgoAck(p, a)
         IN /\ r.pos.slv = p.slv /\ r.pos.qty = p.qty
            /\ r.pos.exitInFlight = p.exitInFlight
            /\ r.pos.state = p.state \/ (p.state = "PROTECTING" /\ r.pos.state = "MANAGED")
            /\ r.ctl = {} /\ r.ord = {}
BY DEF OnAlgoAck, Silent, Position

LEMMA TriggerTicked ==
  ASSUME NEW p \in Position, NEW a
  PROVE  LET r == OnAlgoTriggered(p, a)
         IN /\ r.pos.slv = p.slv /\ r.pos.qty = p.qty
            /\ r.pos.state = IF p.state = "CLOSED" THEN "CLOSED" ELSE "CLOSING"
            /\ r.ord = {}
BY DEF OnAlgoTriggered, CancelActive, Silent, Position

LEMMA InitCovered == Init => Covered
BY DEF Init, NewPosition, Covered, Unborn, NoExitYet, Emptied, Guarded, Closing

(* A fill of q keeps Covered, when what is left without it still covers.   *)
LEMMA FillCovered ==
  ASSUME IInv, Covered, NEW q \in Nat, NEW o, thin' = thin,
         Steps(OnExitFill(pos, q, NoOrder), ctl, o),
         pos.state # "ENTRY_SENT", algos' = algos,
         ~thin /\ q < pos.qty /\ Enough =>
             \/ trig' # {} /\ simQty' >= pos.qty - q
             \/ \E x \in o : x.left >= pos.qty - q
  PROVE  Covered'
<1> DEFINE r == OnExitFill(pos, q, NoOrder)
<1>1. pos \in Position /\ pos.qty \in Nat
  BY DEF IInv, Good, Position
<1>2. /\ r.pos.slv = pos.slv /\ r.pos.exitInFlight = NoOrder
      /\ \/ q >= pos.qty /\ r.pos.state = "CLOSED" /\ r.pos.qty = 0
         \/ q < pos.qty /\ r.pos.state = pos.state /\ r.pos.qty = pos.qty - q /\ r.ctl = {}
      /\ r.ord = {}
  BY <1>1, FillTicked
<1>3. pos' = r.pos /\ ctl' = ctl \cup r.ctl /\ orders' = o \cup r.ord
  BY DEF Steps
<1> HIDE DEF r
<1>4. CASE q >= pos.qty /\ r.pos.state = "CLOSED" /\ r.pos.qty = 0
  BY <1>2, <1>3, <1>4 DEF Covered, Unborn, NoExitYet, Emptied, Guarded, Closing
<1>5. CASE q < pos.qty /\ r.pos.state = pos.state /\ r.pos.qty = pos.qty - q /\ r.ctl = {}
  <2>1. /\ pos'.state = pos.state /\ pos'.slv = pos.slv /\ pos'.qty = pos.qty - q
        /\ pos'.exitInFlight = NoOrder /\ ctl' = ctl /\ orders' = o
    BY <1>2, <1>3, <1>5
  <2>2. Guarded'
    BY <2>1 DEF Covered, Guarded, StopThere, SlId
  <2>3. Closing'
    <3>1. pos.qty > 0
      BY <1>1, <1>5
    <3> QED
      BY <1>5, <2>1, <3>1 DEF Covered, Closing, Enough
  <2>4. Unborn' /\ NoExitYet' /\ Emptied'
    <3>1. pos.state # "CLOSED"
      BY <1>1, <1>5 DEF Covered, Emptied
    <3> QED
      BY <2>1, <3>1 DEF Unborn, NoExitYet, Emptied
  <2> QED
    BY <2>2, <2>3, <2>4 DEF Covered
<1> QED
  BY <1>2, <1>4, <1>5

LEMMA StepCovered == ASSUME IInv, Covered, [Next]_vars PROVE Covered'
<1>1. pos \in Position /\ pos.qty \in Nat /\ pos.slv \in Nat /\ simQty \in Nat
  BY DEF IInv, Good, Position
<1>2. CASE EntryFill
  <2>1. PICK q \in EntryQtys : Steps(OnEntryFill(pos, EntryPrice, q, EntryStop), ctl, orders)
    BY <1>2 DEF EntryFill
  <2> DEFINE r == OnEntryFill(pos, EntryPrice, q, EntryStop)
  <2>2. /\ r.pos.state = "PROTECTING" /\ r.pos.slv = 1
        /\ r.pos.exitInFlight = pos.exitInFlight
    BY <1>1 DEF OnEntryFill, Position
  <2>3. r.ctl = {PlaceAlgo(<<"SL", 1>>), PlaceAlgo(TpId(r.pos))}
    BY <2>2 DEF OnEntryFill, SlId
  <2>4. ctl' = r.ctl /\ pos' = r.pos
    BY <1>2, <2>1 DEF EntryFill, Steps, Covered, Unborn
  <2>5. pos.exitInFlight = NoOrder
    BY <1>2 DEF EntryFill, Covered, NoExitYet
  <2> HIDE DEF r
  <2>6. SlId(pos') = <<"SL", 1>>
    BY <2>2, <2>4 DEF SlId
  <2> QED
    BY <2>2, <2>3, <2>4, <2>5, <2>6
       DEF Covered, Unborn, NoExitYet, Emptied, Guarded, Closing, StopThere,
           PlaceAlgo, CancelAlgo
<1>3. CASE Process
  <2>1. PICK c \in ctl : SimPlace(c) \/ SimCancel(c)
    BY <1>3 DEF Process
  <2>2. pos.state # "ENTRY_SENT"
    BY <2>1 DEF Covered, Unborn
  <2>3. CASE SimPlace(c)
    <3> DEFINE r == OnAlgoAck(pos, c.id)
    <3>1. /\ r.pos.slv = pos.slv /\ r.pos.qty = pos.qty
          /\ r.pos.exitInFlight = pos.exitInFlight
          /\ r.pos.state = pos.state \/ (pos.state = "PROTECTING" /\ r.pos.state = "MANAGED")
          /\ r.ctl = {} /\ r.ord = {}
      BY <1>1, AckTicked
    <3>2. pos' = r.pos /\ ctl' = ctl \ {c} /\ orders' = orders
      BY <2>3, <3>1 DEF SimPlace, Steps
    <3>3. algos' = algos \cup {c.id} /\ thin' = thin /\ trig' = trig /\ simQty' = simQty
          /\ c.kind = "place"
      BY <2>3 DEF SimPlace
    <3> HIDE DEF r
    <3>4. Guarded'
      <4>1. ASSUME pos.state \in {"PROTECTING", "MANAGED"} PROVE StopThere'
        BY <3>1, <3>2, <3>3, <4>1 DEF Covered, Guarded, StopThere, SlId, PlaceAlgo
      <4> QED
        BY <3>1, <3>2, <4>1 DEF Covered, Guarded
    <3> QED
      BY <2>2, <3>1, <3>2, <3>3, <3>4
         DEF Covered, Unborn, NoExitYet, Emptied, Closing, Enough
  <2>4. CASE SimCancel(c)
    <3>1. /\ algos' = algos \ {c.id} /\ ctl' = ctl \ {c} /\ c.kind = "cancel"
          /\ UNCHANGED <<thin, pos, orders, trig, simQty>>
      BY <2>4 DEF SimCancel
    <3>2. c = CancelAlgo(c.id)
      BY <3>1 DEF IInv, AlgoCmd, CancelAlgo
    <3>3. ASSUME pos.state \in {"PROTECTING", "MANAGED"} PROVE c.id # SlId(pos)
      BY <1>1, <3>2, <3>3 DEF Covered, Guarded, SlId
    <3>4. Guarded'
      BY <3>1, <3>3 DEF Covered, Guarded, StopThere, SlId, PlaceAlgo
    <3> QED
      BY <2>2, <3>1, <3>4 DEF Covered, Unborn, NoExitYet, Emptied, Closing, Enough
  <2> QED
    BY <2>1, <2>3, <2>4
<1>4. CASE SimSync
  <2>1. /\ simQty' = Synced /\ pos.state # "ENTRY_SENT"
        /\ UNCHANGED <<thin, pos, ctl, orders, algos, trig>>
    BY <1>4 DEF SimSync
  <2>2. pos.state # "CLOSED" => simQty' >= pos.qty
    BY <1>1, <2>1 DEF Synced
  <2> QED
    BY <2>1, <2>2
       DEF Covered, Unborn, NoExitYet, Emptied, Guarded, StopThere, SlId, Closing, Enough
<1>5. CASE Trigger
  <2>1. PICK a \in algos : SimTrigger(a)
    BY <1>5 DEF Trigger
  <2> DEFINE r == OnAlgoTriggered(pos, a)
  <2>2. /\ r.pos.slv = pos.slv /\ r.pos.qty = pos.qty
        /\ r.pos.state = IF pos.state = "CLOSED" THEN "CLOSED" ELSE "CLOSING"
        /\ r.ord = {}
    BY <1>1, TriggerTicked
  <2>3. pos' = r.pos /\ trig' = trig \cup {a} /\ simQty' = Synced
    BY <2>1 DEF SimTrigger, Steps
  <2> HIDE DEF r
  <2>4. pos.state # "CLOSED" => simQty' >= pos'.qty
    BY <1>1, <2>2, <2>3 DEF Synced
  <2> QED
    BY <2>2, <2>3, <2>4 DEF Covered, Unborn, NoExitYet, Emptied, Guarded, Closing, Enough
<1>6. CASE Fill
  <2>1. ASSUME NEW a \in trig, SimTriggeredFill(a) PROVE Covered'
    <3>1. pos.state # "ENTRY_SENT"
      BY <2>1 DEF Covered, Unborn
    <3>2. trig' = trig \ {a} /\ thin' = thin /\ algos' = algos /\ simQty' = simQty
      BY <2>1 DEF SimTriggeredFill
    <3>3. CASE simQty = 0 /\ UNCHANGED <<pos, ctl, orders>>
      <4>1. Closing'
        <5>1. SUFFICES ASSUME ~thin, pos.qty > 0, pos.state \in {"CLOSING", "EMERGENCY"}
                       PROVE  Enough'
          BY <3>2, <3>3 DEF Closing
        <5> QED
          BY <1>1, <3>3, <5>1 DEF Covered, Closing, Enough
      <4> QED
        BY <3>1, <3>2, <3>3, <4>1
           DEF Covered, Unborn, NoExitYet, Emptied, Guarded, StopThere, SlId
    <3>4. ASSUME NEW q \in Takes(simQty),
                 Steps(OnExitFill(pos, q, NoOrder), ctl, orders)
          PROVE  Covered'
      <4>1. q \in Nat /\ (~thin => q = simQty)
        BY <1>1, TakesNat DEF Takes
      <4>2. ~thin /\ q < pos.qty /\ Enough => \E x \in orders : x.left >= pos.qty - q
        <5>1. \A x \in orders : x.left \in Nat
          BY DEF IInv, Order
        <5> QED
          BY <1>1, <4>1, <5>1 DEF Enough
      <4> QED
        BY <3>1, <3>2, <3>4, <4>1, <4>2, FillCovered
    <3> QED
      BY <2>1, <3>3, <3>4 DEF SimTriggeredFill
  <2>2. ASSUME NEW o \in orders, SimOrderFill(o) PROVE Covered'
    <3> DEFINE rest(q) == [o EXCEPT !.left = @ - q]
               left(q) == (orders \ {o}) \cup {x \in {rest(q)} : x.left > 0}
    <3>1. PICK q \in Takes(o.left) :
             Steps(OnExitFill(pos, q, NoOrder), ctl, left(q))
      BY <2>2 DEF SimOrderFill
    <3>2. \A x \in orders : x.left \in Nat
      BY DEF IInv, Order
    <3>3. q \in Nat /\ (~thin => q = o.left)
      BY <3>2, TakesNat DEF Takes
    <3>4. orders \ {o} \subseteq left(q)
      OBVIOUS
    <3> HIDE DEF left, rest
    <3>5. /\ pos.state # "ENTRY_SENT"
          /\ thin' = thin /\ algos' = algos /\ trig' = trig /\ simQty' = simQty
      BY <2>2 DEF SimOrderFill, Covered, Unborn
    <3>6. ~thin /\ q < pos.qty /\ Enough =>
             \/ trig' # {} /\ simQty' >= pos.qty - q
             \/ \E x \in left(q) : x.left >= pos.qty - q
      BY <1>1, <3>2, <3>3, <3>4, <3>5 DEF Enough
    <3> QED
      BY <3>1, <3>3, <3>5, <3>6, FillCovered
  <2> QED
    BY <1>6, <2>1, <2>2 DEF Fill
<1>7. CASE Expire
  BY <1>7 DEF Expire, SimOrderExpire, Covered, Unborn, NoExitYet, Emptied, Guarded, Closing,
              StopThere, SlId
<1>8. CASE Tick
  <2>1. PICK mark \in Marks, label \in BOOLEAN, mode \in Modes :
           Steps(OnTick(Aged(pos), mark, label, mode), ctl, orders)
    BY <1>8 DEF Tick
  <2> DEFINE p == Aged(pos)
             r == OnTick(p, mark, label, mode)
  <2>2. /\ p \in Position /\ p.state = pos.state /\ p.qty = pos.qty /\ p.slv = pos.slv
        /\ p.exitInFlight = pos.exitInFlight
    BY AgedSame DEF IInv, Same, Good, Aged, Position
  <2>3. pos.state \in {"PROTECTING", "MANAGED"}
    BY <1>8 DEF Tick
  <2>4. mark \in Int
    BY PPAssumption
  <2>5. Ticked(p, r)
    <3> HIDE DEF p
    <3> QED
      BY <2>2, <2>3, <2>4, TickTicked DEF Covered, NoExitYet
  <2>6. /\ pos' = r.pos /\ ctl' = ctl \cup r.ctl /\ orders' = orders \cup r.ord
        /\ thin' = thin /\ algos' = algos /\ trig' = trig /\ simQty' = simQty
    BY <1>8, <2>1 DEF Tick, Steps, simVars
  <2> HIDE DEF p, r
  <2>7. CASE Stays(p, r)
    <3>1. /\ pos'.state = pos.state /\ pos'.slv = pos.slv /\ ctl' = ctl
          /\ pos.state = "PROTECTING" => pos'.exitInFlight = pos.exitInFlight
      BY <2>2, <2>6, <2>7 DEF Stays
    <3>2. Guarded'
      BY <2>6, <3>1 DEF Covered, Guarded, StopThere, SlId
    <3> QED
      BY <2>3, <3>1, <3>2 DEF Covered, Unborn, NoExitYet, Emptied, Closing
  <2>8. CASE Moves(p, r)
    <3>1. /\ pos.state = "MANAGED" /\ pos'.state = "MANAGED" /\ pos'.slv = pos.slv + 1
          /\ ctl' = ctl \cup {PlaceAlgo(<<"SL", pos.slv + 1>>), CancelAlgo(<<"SL", pos.slv>>)}
      BY <2>2, <2>6, <2>8 DEF Moves
    <3>2. StopThere'
      BY <3>1 DEF StopThere, SlId
    <3>3. ASSUME NEW n \in Nat, CancelAlgo(<<"SL", n>>) \in ctl' PROVE n < pos.slv + 1
      <4>1. CASE CancelAlgo(<<"SL", n>>) \in ctl
        <5>1. n < pos.slv
          BY <3>1, <4>1 DEF Covered, Guarded
        <5> QED
          BY <1>1, <5>1
      <4>2. CASE CancelAlgo(<<"SL", n>>) = CancelAlgo(<<"SL", pos.slv>>)
        <5>1. n = pos.slv
          BY <4>2 DEF CancelAlgo
        <5> QED
          BY <1>1, <5>1
      <4>3. CancelAlgo(<<"SL", n>>) # PlaceAlgo(<<"SL", pos.slv + 1>>)
        BY DEF CancelAlgo, PlaceAlgo
      <4> QED
        BY <3>1, <3>3, <4>1, <4>2, <4>3
    <3> QED
      BY <3>1, <3>2, <3>3 DEF Covered, Unborn, NoExitYet, Emptied, Guarded, Closing
  <2>9. CASE Exits(p, r)
    <3>1. pos'.state \in {"CLOSING", "EMERGENCY"} /\ pos'.qty = pos.qty
      BY <2>2, <2>5, <2>6, <2>9 DEF Exits, Ticked
    <3>2. Enough'
      <4>1. PICK o \in r.ord : o.left = p.qty
        BY <2>9 DEF Exits
      <4> QED
        BY <1>1, <2>2, <2>6, <3>1, <4>1 DEF Enough
    <3> QED
      BY <3>1, <3>2 DEF Covered, Unborn, NoExitYet, Emptied, Guarded, Closing
  <2> QED
    BY <2>5, <2>7, <2>8, <2>9 DEF Ticked
<1>9. CASE Funding
  <2>1. PICK f \in FundingRates : pos' = OnFunding(pos, f)
    BY <1>9 DEF Funding
  <2>2. /\ pos'.state = pos.state /\ pos'.qty = pos.qty /\ pos'.slv = pos.slv
        /\ pos'.exitInFlight = pos.exitInFlight
    BY <1>1, <2>1 DEF OnFunding, Position
  <2>3. UNCHANGED <<ctl, orders, simVars>>
    BY <1>9 DEF Funding
  <2> QED
    BY <2>2, <2>3 DEF Covered, Unborn, NoExitYet, Emptied, Guarded, Closing, Enough,
                      StopThere, SlId, simVars
<1>10. CASE UNCHANGED vars
  BY <1>10 DEF vars, simVars, Covered, Unborn, NoExitYet, Emptied, Guarded, Closing, Enough,
               StopThere, SlId
<1> QED
  BY <1>2, <1>3, <1>4, <1>5, <1>6, <1>7, <1>8, <1>9, <1>10 DEF Next

(* While the book fills every order, an open quantity is never without a   *)
(* stop of the current version or an exit that will close it: through stop *)
(* replacement, triggers, emergency exits, late ACKs and every order of    *)
(* processing at the simulator.                                            *)
THEOREM NeverWithoutProtection == Spec => []NeverNaked
<1>1. Init => IInv /\ Covered
  BY InitIInv, InitCovered
<1>2. IInv /\ Covered /\ [Next]_vars => (IInv /\ Covered)'
  BY StepIInv, StepCovered
<1>3. IInv /\ Covered => NeverNaked
  <2>1. SUFFICES ASSUME IInv, Covered, ~thin, pos.qty > 0 PROVE StopThere \/ ExitUnderWay
    BY DEF NeverNaked, ProtectionNeverLost
  <2>2. pos.state \in PosState
    BY <2>1 DEF IInv, Good, Position
  <2>3. pos.state \notin {"ENTRY_SENT", "CLOSED"}
    BY <2>1 DEF Covered, Unborn, Emptied
  <2> QED
    BY <2>1, <2>2, <2>3
       DEF PosState, Covered, Guarded, Closing, Enough, ExitUnderWay
<1> QED
  BY <1>1, <1>2, <1>3, PTL DEF Spec
=============================================================================
