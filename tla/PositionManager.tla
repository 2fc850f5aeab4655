--------------------------- MODULE PositionManager ---------------------------
(***************************************************************************)
(* The pure handlers of fbot/core/position.py (class PositionManager), one *)
(* operator per handler.  A handler takes a position record and returns    *)
(*    [pos |-> the new record,                                             *)
(*     ctl |-> the set of algo commands it emits (PlaceAlgo, CancelAlgo),  *)
(*     ord |-> the set of market orders it emits (PlaceOrder)].            *)
(*                                                                         *)
(* Units.  Quantities are counted in exchange steps (step_size = 1), so    *)
(* floor_step is the identity on whole quantities.  Prices are integers on *)
(* the axis in which a larger value is better for the position: a long is  *)
(* read as it is, a short mirrored, so that trigger_price (rounding.py)    *)
(* rounds a stop down and a take profit up on this axis for both sides.    *)
(* Percentages of the entry price are distances on the same axis.          *)
(* Ages count engine ticks since a timestamp was taken and stop one past   *)
(* the threshold they are compared with; Off is the source's None.         *)
(***************************************************************************)
EXTENDS Integers

CONSTANTS
  TProtect,     \* t_protect_ms: longest wait for the protection ACKs
  TBackup,      \* t_backup_ms: how long the mark may stay beyond the stop
  ExitTtl,      \* exit_ttl_ms: age at which the exit lock is dropped
  MaxHold,      \* max_hold_ms
  MinInterval,  \* min_replace_interval_ms
  TickSize,     \* price tick of the exchange filter
  MinQty,       \* min_qty of the exchange filter, in steps
  MinNotional,  \* min_notional of the exchange filter
  BaseCost,     \* entry fee + estimated exit fee
  Tp1,          \* tp1_pct
  Tp1Den,       \* tp1_frac = 1 / Tp1Den
  LockTrigger, LockOffset, TrailGap, TrailStep,
  Rules         \* the rules whose parameter is not None

ASSUME PMAssumption ==
  /\ {TProtect, TBackup, ExitTtl, MaxHold, MinInterval} \subseteq Nat
  /\ TickSize \in Nat \ {0}
  /\ MinQty \in Nat /\ MinNotional \in Nat
  /\ BaseCost \in Int /\ Tp1 \in Int
  /\ Tp1Den \in Nat \ {0}
  /\ {LockTrigger, LockOffset, TrailGap, TrailStep} \subseteq Int
  /\ Rules \subseteq {"R2", "R3", "trail", "R4", "R5"}

Off == -1                            \* a timestamp that was never taken

PosState == {"ENTRY_SENT", "PROTECTING", "MANAGED", "CLOSING", "EMERGENCY", "CLOSED"}

AlgoId  == {"SL", "TP"} \X Nat       \* algo_cid(pos_id, role, version)
ExitId  == {"X", "EM", "TP1"} \X Nat \* exit_cid(pos_id, tag, seq)
NoOrder == <<"none", 0>>

Order   == [id : ExitId, left : Nat]
AlgoCmd == [kind : {"place", "cancel"}, id : AlgoId]

PlaceAlgo(a)  == [kind |-> "place",  id |-> a]
CancelAlgo(a) == [kind |-> "cancel", id |-> a]

Position == [state : PosState, qty : Nat, entryPrice : Int,
             sl : Int, slv : Nat, tpv : Nat,
             acked : SUBSET AlgoId, active : SUBSET AlgoId,
             protectAge : Int, crossedAge : Int, replaceAge : Int, holdAge : Int,
             locked : BOOLEAN, tp1Done : BOOLEAN, funding : Int,
             exitSeq : Nat, exitInFlight : ExitId \cup {NoOrder}, exitAge : Int]

NewPosition ==
  [state |-> "ENTRY_SENT", qty |-> 0, entryPrice |-> 0, sl |-> 0, slv |-> 0, tpv |-> 0,
   acked |-> {}, active |-> {}, protectAge |-> Off, crossedAge |-> Off,
   replaceAge |-> Off, holdAge |-> Off, locked |-> FALSE, tp1Done |-> FALSE,
   funding |-> 0, exitSeq |-> 0, exitInFlight |-> NoOrder, exitAge |-> Off]

SlId(p) == <<"SL", p.slv>>
TpId(p) == <<"TP", p.tpv>>

Silent(p) == [pos |-> p, ctl |-> {}, ord |-> {}]

-----------------------------------------------------------------------------
(* Mutant: one tick further from the market than the grid asks. *)
StopTriggerOffByOne(px) == (px \div TickSize - 1) * TickSize

(* rounding.py: a stop trigger is rounded away from the market. *)
StopTrigger(px) == (px \div TickSize) * TickSize

CostOf(p)      == BaseCost + p.funding
Net(p, mark)   == mark - p.entryPrice - CostOf(p)

-----------------------------------------------------------------------------
(* Events. *)

OnEntryFill(p, price, qty, stop) ==
  LET q == [p EXCEPT !.entryPrice = price, !.qty = qty, !.holdAge = 0,
                     !.sl = StopTrigger(stop), !.slv = 1, !.tpv = 1,
                     !.protectAge = 0, !.state = "PROTECTING",
                     !.active = {<<"SL", 1>>, <<"TP", 1>>}]
  IN [pos |-> q, ctl |-> {PlaceAlgo(SlId(q)), PlaceAlgo(TpId(q))}, ord |-> {}]

OnAlgoAck(p, a) ==
  LET q == [p EXCEPT !.acked = @ \cup {a}]
      protected == p.state = "PROTECTING" /\ {SlId(p), TpId(p)} \subseteq q.acked
  IN Silent(IF protected THEN [q EXCEPT !.state = "MANAGED"] ELSE q)

(* _cancel_active: every algo still believed active is cancelled, in the   *)
(* same step the core forgets it.                                          *)
CancelActive(p) ==
  [pos |-> [p EXCEPT !.active = {}], ctl |-> {CancelAlgo(a) : a \in p.active}, ord |-> {}]

OnAlgoTriggered(p, a) ==
  LET q == [p EXCEPT !.active = @ \ {a}]
  IN IF p.state = "CLOSED" THEN Silent(q)
     ELSE CancelActive([q EXCEPT !.state = "CLOSING"])

(* on_exit_terminal: only the order that holds the lock opens it. *)
OnExitTerminal(p, id) ==
  IF p.exitInFlight = id
  THEN [p EXCEPT !.exitInFlight = NoOrder, !.exitAge = Off] ELSE p

(* Mutant: a fill of exactly the open quantity does not close. *)
OnExitFillStrict(p, qty, id) ==
  IF qty > p.qty THEN CancelActive([p EXCEPT !.qty = 0, !.state = "CLOSED"])
                 ELSE Silent([p EXCEPT !.qty = @ - qty])

(* on_exit_fill; id = NoOrder is a fill that names no order (paper). *)
OnExitFill(p, qty, id) ==
  LET q == IF id # NoOrder THEN OnExitTerminal(p, id)
                           ELSE [p EXCEPT !.exitInFlight = NoOrder]
  IN IF qty >= p.qty
     THEN CancelActive([q EXCEPT !.qty = 0, !.state = "CLOSED"])
     ELSE Silent([q EXCEPT !.qty = @ - qty])

(* engine.py _route: funding is charged to an open position. *)
OnFunding(p, rate) == [p EXCEPT !.funding = @ + rate]

-----------------------------------------------------------------------------
(* The exit lock and the exits. *)

LockExpired(p) == p.exitInFlight # NoOrder /\ p.exitAge # Off /\ p.exitAge >= ExitTtl
ExitLocked(p)  == p.exitInFlight # NoOrder /\ ~LockExpired(p)
Unlocked(p)    == IF LockExpired(p) THEN [p EXCEPT !.exitInFlight = NoOrder] ELSE p

ExitOrder(p, tag) ==
  LET id == <<tag, p.exitSeq + 1>>
  IN [pos |-> [p EXCEPT !.exitSeq = @ + 1, !.exitInFlight = id, !.exitAge = 0],
      ctl |-> {}, ord |-> {[id |-> id, left |-> p.qty]}]

CanExit(p) == p.qty >= MinQty

(* Mutant: the close is sent, the state is not changed. *)
CloseInPlace(p) ==
  LET q == Unlocked(p)
  IN IF ExitLocked(p) \/ ~CanExit(q) THEN Silent(q) ELSE ExitOrder(q, "X")

Close(p) ==
  LET q == Unlocked(p)
  IN IF ExitLocked(p) \/ ~CanExit(q) THEN Silent(q)
     ELSE ExitOrder([q EXCEPT !.state = "CLOSING"], "X")

-----------------------------------------------------------------------------
(* on_tick, rule by rule.  Aged is the clock: what now_ns is worth when    *)
(* the tick is evaluated.                                                  *)

Older(age, threshold) == IF age = Off \/ age > threshold THEN age ELSE age + 1

Aged(p) == [p EXCEPT !.protectAge = Older(@, TProtect),
                     !.crossedAge = Older(@, TBackup),
                     !.replaceAge = Older(@, MinInterval),
                     !.holdAge    = Older(@, MaxHold),
                     !.exitAge    = Older(@, ExitTtl)]

ProtectTimeout(p) == p.state = "PROTECTING" /\ p.protectAge # Off /\ p.protectAge > TProtect
Emergency(p) ==
  LET q == [p EXCEPT !.state = "EMERGENCY"]
  IN IF ExitLocked(q) THEN Silent(q) ELSE ExitOrder(Unlocked(q), "EM")

Degraded(label)      == "R2" \in Rules /\ label
Crossed(p, mark)     == mark <= p.sl
BackupExpired(p)     == p.crossedAge # Off /\ p.crossedAge > TBackup
HoldExpired(p, mark) == "R5" \in Rules /\ p.holdAge # Off /\ p.holdAge > MaxHold
                        /\ Net(p, mark) <= 0

(* R1: the first crossing starts the timer, a lasting one closes. *)
BackupStop(p) ==
  IF p.crossedAge = Off THEN Silent([p EXCEPT !.crossedAge = 0])
  ELSE IF BackupExpired(p) THEN Close(p) ELSE Silent(p)

(* R4: one partial reduction; it takes no exit lock. *)
TakePartial(p, mark) ==
  LET q == p.qty \div Tp1Den
      due == "R4" \in Rules /\ ~p.tp1Done /\ Net(p, mark) >= Tp1
             /\ q >= MinQty /\ q * mark >= MinNotional
  IN IF due /\ ~ExitLocked(p)
     THEN [pos |-> [Unlocked(p) EXCEPT !.tp1Done = TRUE, !.exitSeq = @ + 1],
           ctl |-> {}, ord |-> {[id |-> <<"TP1", p.exitSeq + 1>>, left |-> q]}]
     ELSE Silent(IF due THEN Unlocked(p) ELSE p)

(* R3: the stops the rule wants, at most one. *)
Desired(p, mark) ==
  IF ~p.locked THEN {p.entryPrice + CostOf(p) + LockOffset}
  ELSE {c \in {mark - TrailGap} : "trail" \in Rules /\ c >= p.sl + TrailStep}

(* Mutant: the identifier to cancel is read after the version is raised. *)
MoveStopCancelsNew(p, mark) ==
  LET better == {c \in Desired(p, mark) : c > p.sl}
      due == /\ "R3" \in Rules /\ Net(p, mark) >= LockTrigger
             /\ (p.replaceAge = Off \/ p.replaceAge >= MinInterval)
      moved(c) == [p EXCEPT !.slv = @ + 1, !.sl = StopTrigger(c), !.locked = TRUE,
                            !.replaceAge = 0]
  IN IF due /\ better # {}
     THEN LET c == CHOOSE x \in better : TRUE
          IN [pos |-> moved(c),
              ctl |-> {PlaceAlgo(SlId(moved(c))), CancelAlgo(SlId(moved(c)))}, ord |-> {}]
     ELSE Silent(p)

(* R3: a better stop is placed and the old one cancelled in one batch. *)
MoveStop(p, mark) ==
  LET better == {c \in Desired(p, mark) : c > p.sl}
      due == /\ "R3" \in Rules /\ Net(p, mark) >= LockTrigger
             /\ (p.replaceAge = Off \/ p.replaceAge >= MinInterval)
      moved(c) == [p EXCEPT !.slv = @ + 1, !.sl = StopTrigger(c), !.locked = TRUE,
                            !.replaceAge = 0,
                            !.active = (@ \cup {<<"SL", p.slv + 1>>}) \ {SlId(p)}]
  IN IF due /\ better # {}
     THEN LET c == CHOOSE x \in better : TRUE
          IN [pos |-> moved(c),
              ctl |-> {PlaceAlgo(SlId(moved(c))), CancelAlgo(SlId(p))}, ord |-> {}]
     ELSE Silent(p)

(* R4 then R3, both on one tick. *)
ProfitRules(p, mark) ==
  LET tp == TakePartial([p EXCEPT !.crossedAge = Off], mark)
      sl == MoveStop(tp.pos, mark)
  IN [pos |-> sl.pos, ctl |-> sl.ctl, ord |-> tp.ord]

(* The rules of a managed position in their fixed order R2, R1, R5, R4, R3. *)
ManagedTick(p, mark, label) ==
  IF Degraded(label) THEN Close(p)
  ELSE IF Crossed(p, mark) THEN BackupStop(p)
  ELSE IF HoldExpired(p, mark) THEN Close([p EXCEPT !.crossedAge = Off])
  ELSE ProfitRules(p, mark)

OnTick(p, mark, label, mode) ==
  IF mode = "HALTED" THEN Silent(p)
  ELSE IF ProtectTimeout(p) THEN Emergency(p)
  ELSE IF p.state = "MANAGED" /\ mode = "FULL" THEN ManagedTick(p, mark, label)
  ELSE Silent(p)
=============================================================================
