---------------------------- MODULE PaperPosition ----------------------------
(***************************************************************************)
(* One position from its entry fill to its close in the paper trader: the  *)
(* handlers of PositionManager (core/position.py), driven by the engine's  *)
(* exec events and ticks (core/engine.py) and answered by the fill         *)
(* simulator (execution/sim.py) through PaperTrader (paper/trader.py).     *)
(*                                                                         *)
(* The trader is single threaded: a simulator result is recorded, handed   *)
(* to the engine and its commands are submitted back before anything else  *)
(* runs, so each is one action.  A submitted command becomes ready after   *)
(* latency + jitter: every order of processing is possible.                *)
(***************************************************************************)
EXTENDS PositionManager

CONSTANTS
  EntryPrice, EntryQtys, EntryStop,  \* what the entry fill brings
  Marks,         \* mark prices a tick may see
  Modes,         \* exit modes of the health model a tick may see
  FundingRates,  \* funding charges
  MaxFunding,    \* bound: |accumulated funding|
  MaxVersion     \* bound: stop versions

ASSUME PPAssumption ==
  /\ EntryPrice \in Int /\ EntryQtys \subseteq Nat \ {0} /\ EntryStop \in Int
  /\ Marks \subseteq Int /\ FundingRates \subseteq Int
  /\ MaxFunding \in Nat /\ MaxVersion \in Nat \ {0}

VARIABLES
  thin,     \* the market: the book may hold less than an order's quantity
  pos,      \* engine_state.positions[pos_id]
  ctl,      \* sim.pending_ctrl: algo commands not yet processed
  orders,   \* sim.pending_orders: market orders not yet done
  algos,    \* sim.algos: algo orders live at the simulator
  trig,     \* sim.triggered: triggered algos waiting for the book
  simQty    \* sim.positions[pos_id]: the quantity a closePosition order fills

simVars == <<thin, algos, trig, simQty>>
vars == <<pos, ctl, orders, simVars>>

Init ==
  /\ thin \in BOOLEAN
  /\ pos = NewPosition
  /\ ctl = {} /\ orders = {} /\ algos = {} /\ trig = {}
  /\ simQty = 0

(* PaperTrader._step: the new record, and every command submitted.         *)
Steps(r, ctlLeft, ordersLeft) ==
  /\ pos' = r.pos
  /\ ctl' = ctlLeft \cup r.ctl
  /\ orders' = ordersLeft \cup r.ord

-----------------------------------------------------------------------------
(* Entry fill: the engine builds the position, binds the lease, protects. *)
EntryFill ==
  /\ pos.state = "ENTRY_SENT"
  /\ \E q \in EntryQtys : Steps(OnEntryFill(pos, EntryPrice, q, EntryStop), ctl, orders)
  /\ UNCHANGED simVars

(* _process_ctrl: a PlaceAlgo goes live and is acknowledged at once, a     *)
(* CancelAlgo of an algo that is not there does nothing.                   *)
SimPlace(c) ==
  /\ c.kind = "place"
  /\ algos' = algos \cup {c.id}
  /\ Steps(OnAlgoAck(pos, c.id), ctl \ {c}, orders)
  /\ UNCHANGED <<thin, trig, simQty>>

SimCancel(c) ==
  /\ c.kind = "cancel"
  /\ algos' = algos \ {c.id}
  /\ ctl' = ctl \ {c}
  /\ UNCHANGED <<thin, pos, orders, trig, simQty>>

(* markPriceUpdate: _sync_positions copies the quantity of an open         *)
(* position (a closed one keeps its last), then on_mark may hit an algo.   *)
Synced == IF pos.state # "CLOSED" THEN pos.qty ELSE simQty

SimSync ==
  /\ pos.state # "ENTRY_SENT"
  /\ simQty' = Synced
  /\ UNCHANGED <<thin, pos, ctl, orders, algos, trig>>

SimTrigger(a) ==
  /\ simQty' = Synced
  /\ algos' = algos \ {a}
  /\ trig' = trig \cup {a}
  /\ Steps(OnAlgoTriggered(pos, a), ctl, orders)
  /\ UNCHANGED <<thin>>

(* Quantities a walk of the book can take out of q. *)
Takes(q) == IF thin THEN 1..q ELSE {q} \ {0}

(* _process_triggered: the algo fills what the book holds of simQty and is *)
(* dropped from the list; without a quantity it is dropped with no fill.   *)
SimTriggeredFill(a) ==
  /\ trig' = trig \ {a}
  /\ \/ /\ simQty = 0
        /\ UNCHANGED <<pos, ctl, orders>>
     \/ \E q \in Takes(simQty) :
           Steps(OnExitFill(pos, q, NoOrder), ctl, orders)
  /\ UNCHANGED <<thin, algos, simQty>>

(* _process_orders: a reduceOnly market order fills what the book holds;   *)
(* the rest stays pending.                                                 *)
SimOrderFill(o) ==
  /\ \E q \in Takes(o.left) :
        LET rest == [o EXCEPT !.left = @ - q]
        IN Steps(OnExitFill(pos, q, NoOrder), ctl,
                 (orders \ {o}) \cup {x \in {rest} : x.left > 0})
  /\ UNCHANGED <<thin, algos, trig, simQty>>

(* _process_orders: partial_timeout_ms drops what is left; order_expired   *)
(* has no payload in _emit_exec, so the engine never hears of it.          *)
SimOrderExpire(o) ==
  /\ thin
  /\ orders' = orders \ {o}
  /\ UNCHANGED <<thin, pos, ctl, algos, trig, simQty>>

(* PaperTrader.on_tick of an open position: the clock advances, then the   *)
(* exit rules.  In the other states on_tick of the manager does nothing,   *)
(* and no age is read again.                                               *)
Tick ==
  /\ pos.state \in {"PROTECTING", "MANAGED"}
  /\ \E mark \in Marks, label \in BOOLEAN, mode \in Modes :
        LET r == OnTick(Aged(pos), mark, label, mode)
        IN r.pos.slv <= MaxVersion /\ Steps(r, ctl, orders)
  /\ UNCHANGED simVars

Funding ==
  /\ pos.state \notin {"ENTRY_SENT", "CLOSED"}
  /\ \E r \in FundingRates :
        /\ pos.funding + r \in -MaxFunding..MaxFunding
        /\ pos' = OnFunding(pos, r)
  /\ UNCHANGED <<ctl, orders, simVars>>

Process == \E c \in ctl : SimPlace(c) \/ SimCancel(c)
Trigger == \E a \in algos : SimTrigger(a)
Fill    == (\E a \in trig : SimTriggeredFill(a)) \/ (\E o \in orders : SimOrderFill(o))
Expire  == \E o \in orders : SimOrderExpire(o)

Next == EntryFill \/ Process \/ SimSync \/ Trigger \/ Fill \/ Expire
        \/ Tick \/ Funding

Spec == Init /\ [][Next]_vars

(* poll() runs after every market event and every tick, and on_tick every  *)
(* tick_ms: pending work is eventually processed, the clock does not stop. *)
FairSpec == Spec /\ WF_vars(Process) /\ WF_vars(Fill) /\ WF_vars(Tick)

-----------------------------------------------------------------------------
TypeOK ==
  /\ thin \in BOOLEAN
  /\ pos \in Position
  /\ ctl \subseteq AlgoCmd
  /\ orders \subseteq Order
  /\ algos \subseteq AlgoId
  /\ trig \subseteq AlgoId
  /\ simQty \in Nat

(* An order of the position that will reduce it is on its way. *)
ExitUnderWay == orders # {} \/ trig # {}

(* A stop of the current version is live at the venue or being placed.     *)
StopThere == SlId(pos) \in algos \/ PlaceAlgo(SlId(pos)) \in ctl

(* faz4-cikis-kurallari.md "korumasiz pozisyon tasinmaz": while a quantity *)
(* is open, a stop of the current version protects it or an exit that      *)
(* closes it is under way; over stop replacement (R3), triggers, emergency *)
(* exits and late ACKs.  In a thin book it does not hold: a stop that      *)
(* filled in part is gone, and what it left is open.                       *)
ProtectionNeverLost == pos.qty > 0 => StopThere \/ ExitUnderWay

(* The part of it the trader does keep: while the book fills every order.  *)
NeverNaked == ~thin => ProtectionNeverLost

(* The manager emits at most one full exit (X or EM) in a position's life, *)
(* and at most one partial (TP1) beside it, whatever triggers, timeouts    *)
(* and fills do in between: exit_seq numbers every exit it ever emits.     *)
AtMostOneFullExit == pos.exitSeq <= IF pos.tp1Done THEN 2 ELSE 1

OneExit == TypeOK /\ AtMostOneFullExit

(* R3 ratchets: no step moves a placed stop against the position, rounding *)
(* to the tick included.                                                   *)
StopNeverLoosens == [][pos.slv > 0 => pos'.sl >= pos.sl]_vars

(* An exit that was decided, or a protection that fired, ends in a closed  *)
(* position while the book fills every order in full: no retry, lost ACK   *)
(* or repeated trigger leaves it half way.                                 *)
ExitCompletes ==
  (~thin /\ pos.state \in {"CLOSING", "EMERGENCY"}) ~> (pos.state = "CLOSED")
=============================================================================
