------------------------------ MODULE Account ------------------------------
(***************************************************************************)
(* The risk engine over an account.  Either one question is put to it      *)
(* (core/risk.py: assess), with any intent and any inputs; or it lets      *)
(* entries through one after the other while those before them are still   *)
(* in flight, fill, and are closed (core/engine.py: _decide, _risk_inputs, *)
(* _exec, _sweep_pending).  There the engine counts the open positions     *)
(* only: an entry that was sent and has not filled is in K6's count, and   *)
(* in no sum of money.                                                     *)
(*                                                                         *)
(* Every coin is entered once: that a symbol has one entry at a time is    *)
(* the business of EntryGate.  A fill of a part is the position's quantity *)
(* (the engine understands only the first), at a price that may slip.      *)
(***************************************************************************)
EXTENDS RiskChecks, Sequences, FiniteSetsExt

CONSTANTS
  Assets,
  Notional,   \* notional_usdt of the decision
  GrossCap,   \* gross_cap_usdt
  Slots,      \* max_positions
  Quotes      \* prices at which an entry is decided

ASSUME AccAssumption ==
  /\ Notional \in Nat /\ GrossCap \in Nat /\ Slots \in Nat /\ Quotes \subseteq Nat \ {0}

VARIABLES
  question, answer,  \* the one question
  entry,    \* coin -> its entry: not yet, sent, open with a quantity and an entry price, over
  pending,  \* pending_entries: coins with a reservation
  order,    \* history: the coins in the order their entries were decided
  plan      \* history: coin -> what its entry was to be worth, and the entries in flight then

askVars == <<question, answer>>
accVars == <<entry, pending, order, plan>>
riskVars == <<askVars, accVars>>

Unanswered == [kind |-> "none"]

-----------------------------------------------------------------------------
(* The intents and inputs put to the risk engine: around every cap, at and *)
(* beyond it, and with every input missing.                                *)
Healthy ==
  [kill |-> FALSE, reconciled |-> TRUE, warm |-> 5, stale |-> {}, skew |-> 0, open |-> 0,
   pending |-> 0, busy |-> FALSE, leased |-> FALSE, stratMax |-> NA, stratCap |-> NA,
   stratOpen |-> 0, stratGross |-> 0, gross |-> 0, exposure |-> 0, beta |-> 1, leverage |-> 5,
   balance |-> 100, filters |-> [step |-> 1, minQty |-> 1, minNotional |-> 2], spread |-> 1,
   depth |-> 100, slippage |-> 0, sinceExit |-> NA, lossExit |-> FALSE, sinceStp |-> NA,
   left10 |-> 9, left1m |-> 9, since429 |-> NA, banned |-> FALSE]

AllChecks ==
  [maxPositions |-> 2, grossCap |-> 12, betaCap |-> 8, leverage |-> 5, buffer |-> 20,
   spreadMax |-> 5, participation |-> 50, slippageMax |-> 3, cooldown |-> 2, cooldownLoss |-> 4,
   cooldownStp |-> 2, reserve |-> 3, backoff |-> 2, skewMax |-> 1, warmup |-> 5]

Intent == [side : {"long", "short"}, notional : {7, 10}, price : {1, 2}, reduceOnly : {FALSE}]
CapInputs ==
  {[Healthy EXCEPT !.gross = g, !.stratCap = s, !.stratGross = 3, !.exposure = e, !.beta = b,
                   !.balance = m, !.depth = d, !.filters.step = t] :
     g \in {0, 5, 12}, s \in {NA, 9}, e \in {-9, -3, 0, 3, 9}, b \in {NA, -1, 0, 1, 2},
     m \in {NA, 1, 2, 100}, d \in {NA, 9, 100}, t \in {1, 2}}
GateInputs ==
  {[Healthy EXCEPT !.warm = w, !.skew = k, !.open = o, !.busy = y, !.spread = s, !.slippage = l,
                   !.left10 = t, !.sinceExit = x, !.lossExit = z] :
     w \in {4, 5}, k \in {NA, 1, -2}, o \in {1, 2}, y \in BOOLEAN, s \in {NA, 5, 6},
     l \in {NA, 3}, t \in {NA, 2, 3}, x \in {NA, 1, 3}, z \in BOOLEAN}

OddInputs ==
  {[Healthy EXCEPT !.kill = TRUE], [Healthy EXCEPT !.reconciled = FALSE],
   [Healthy EXCEPT !.stale = {"public"}], [Healthy EXCEPT !.leased = TRUE],
   [Healthy EXCEPT !.pending = 2], [Healthy EXCEPT !.leverage = 10],
   [Healthy EXCEPT !.filters = NoFilters], [Healthy EXCEPT !.filters.minNotional = 8]}
  \cup {[Healthy EXCEPT !.stratMax = 1, !.stratOpen = n] : n \in {0, 1}}
  \cup {[Healthy EXCEPT !.left10 = a, !.left1m = b] : a, b \in {NA, 2, 3}}
  \cup {[Healthy EXCEPT !.since429 = a, !.banned = b] : a \in {NA, 1, 2}, b \in BOOLEAN}
  \cup {[Healthy EXCEPT !.sinceStp = a] : a \in {1, 2}}

(* What an entry that passes is: it costs no more than was asked, and with *)
(* it the strategy, the account, the exposure and the share of the book    *)
(* are within their limits (an exposure that already is beyond its own is  *)
(* no larger), the margin is there, and the exchange would accept it.      *)
Within(i, x, c, q) ==
  LET value == q * i.price
      after == Size(x.exposure + Sign(i) * value * x.beta)
  IN /\ value <= i.notional /\ q % x.filters.step = 0
     /\ q >= x.filters.minQty /\ value >= x.filters.minNotional
     /\ x.gross + value <= c.grossCap /\ (x.stratCap # NA => x.stratGross + value <= x.stratCap)
     /\ (after <= c.betaCap \/ after <= Size(x.exposure))
     /\ x.balance * c.leverage * 100 >= value * (100 + c.buffer)
     /\ value * 100 <= c.participation * x.depth

(* What it takes besides: every gate open, and no input missing. *)
Open(x, c) ==
  /\ ~x.kill /\ x.reconciled /\ x.warm >= c.warmup /\ x.stale = {}
  /\ x.skew # NA /\ Size(x.skew) <= c.skewMax
  /\ x.open + x.pending < c.maxPositions /\ ~x.busy /\ ~x.leased
  /\ NA \notin {x.beta, x.balance, x.depth, x.spread, x.slippage, x.left10, x.left1m}
  /\ x.spread <= c.spreadMax /\ x.slippage <= c.slippageMax /\ x.left10 >= c.reserve
  /\ x.left1m >= c.reserve /\ x.leverage = c.leverage /\ x.filters # NoFilters
  /\ x.stratMax # NA => x.stratOpen < x.stratMax
  /\ x.sinceExit # NA => x.sinceExit >= (IF x.lossExit THEN c.cooldownLoss ELSE c.cooldown)
  /\ x.sinceStp # NA => x.sinceStp >= c.cooldownStp
  /\ ~x.banned /\ (x.since429 # NA => x.since429 >= c.backoff)

(* An entry the risk engine lets through has every gate open and is within *)
(* every limit; one that is within them for the whole notional it asks for *)
(* is let through as it is.                                                *)
RiskSound ==
  answer.kind \in {"APPROVE", "RESIZE", "REJECT"} =>
    LET i == question.intent
        x == question.inputs
        whole == Qty(i.notional, i.price, x.filters)
    IN /\ answer.kind # "REJECT" => Open(x, AllChecks) /\ Within(i, x, AllChecks, answer.qty)
       /\ answer.kind = "APPROVE" => answer.qty = whole
       /\ Open(x, AllChecks) /\ whole * i.price = i.notional /\ Within(i, x, AllChecks, whole)
            => answer.kind = "APPROVE"

-----------------------------------------------------------------------------
Questions ==
  {[intent |-> i, inputs |-> x] : i \in Intent, x \in CapInputs \cup GateInputs \cup OddInputs}

AnswerRisk ==
  /\ question # Unanswered /\ answer = Unanswered
  /\ answer' = Assess(question.intent, question.inputs, AllChecks)
  /\ UNCHANGED <<question, accVars>>

-----------------------------------------------------------------------------
(* The account. *)
InFlight     == {c \in Assets : entry[c].st = "sent"}
Owned     == {c \in Assets : entry[c].st = "open"}
Gross(S) == MapThenSumSet(LAMBDA c : entry[c].qty * entry[c].price, S)

AccountChecks ==
  [AllChecks EXCEPT !.maxPositions = Slots, !.grossCap = GrossCap, !.betaCap = NA, !.participation = NA]

(* Mutant: the gross exposure adds quantities and forgets the prices. *)
GatheredQuantities(c) ==
  [Healthy EXCEPT !.open = Cardinality(Owned), !.pending = Cardinality(pending),
                  !.busy = c \in Owned \cup pending, !.depth = NA,
                  !.gross = MapThenSumSet(LAMBDA d : entry[d].qty, Owned)]

(* _risk_inputs: what is open, what is pending, the gross of what is open. *)
Gathered(c) ==
  [Healthy EXCEPT !.open = Cardinality(Owned), !.pending = Cardinality(pending),
                  !.busy = c \in Owned \cup pending, !.depth = NA, !.gross = Gross(Owned)]

(* _decide: an entry that is not refused is sent with what is left of it.  *)
LetIn(c) ==
  /\ entry[c].st = "none"
  /\ \E p \in Quotes :
       LET v == Assess([side |-> "long", notional |-> Notional, price |-> p, reduceOnly |-> FALSE],
                       Gathered(c), AccountChecks)
       IN /\ v.kind # "REJECT" /\ v.qty > 0
          /\ entry' = [entry EXCEPT ![c] = [st |-> "sent", qty |-> v.qty, price |-> p]]
          /\ plan' = [plan EXCEPT ![c] = [value |-> v.qty * p, blind |-> InFlight]]
  /\ pending' = pending \cup {c} /\ order' = Append(order, c)
  /\ UNCHANGED askVars

(* The fill the engine understands, in time or after the reservation.      *)
FillIn(c) ==
  /\ entry[c].st = "sent"
  /\ \E q \in 1..entry[c].qty, slip \in {0, 1} :
       entry' = [entry EXCEPT ![c] = [st |-> "open", qty |-> q, price |-> entry[c].price + slip]]
  /\ pending' = pending \ {c}
  /\ UNCHANGED <<askVars, order, plan>>

(* The notice that nothing came of it. *)
GivenUp(c) ==
  /\ entry[c].st = "sent"
  /\ entry' = [entry EXCEPT ![c] = [@ EXCEPT !.st = "over"]]
  /\ pending' = pending \ {c}
  /\ UNCHANGED <<askVars, order, plan>>

(* _sweep_pending: a reservation's time is up, whatever became of the order. *)
TimeUp(c) ==
  /\ c \in pending /\ pending' = pending \ {c}
  /\ UNCHANGED <<askVars, entry, order, plan>>

(* An exit of a part or of the rest. *)
SellPart(c) ==
  /\ entry[c].st = "open"
  /\ \E q \in 0..(entry[c].qty - 1) :
       entry' = [entry EXCEPT ![c] = [@ EXCEPT !.qty = q, !.st = IF q = 0 THEN "over" ELSE "open"]]
  /\ UNCHANGED <<askVars, pending, order, plan>>

AccountStep == \E c \in Assets : LetIn(c) \/ FillIn(c) \/ GivenUp(c) \/ TimeUp(c) \/ SellPart(c)

(* K8 over time: what the open positions cost is within the cap, but for   *)
(* what came of the entries that were in flight when the latest of them    *)
(* was decided, and for the price that one was filled at: whatever was     *)
(* decided, filled late or in part, given up, reduced and closed before.   *)
Youngest == order[CHOOSE k \in DOMAIN order :
                  /\ order[k] \in Owned
                  /\ \A j \in DOMAIN order : order[j] \in Owned => j <= k]
GrossKept ==
  Owned # {} =>
    LET after == entry[Youngest].qty * entry[Youngest].price
    IN Gross(Owned) - after + plan[Youngest].value <= GrossCap + Gross(Owned \cap plan[Youngest].blind)

-----------------------------------------------------------------------------
NoEntry == [st |-> "none", qty |-> 0, price |-> 0]
AccEmpty ==
  /\ answer = Unanswered /\ pending = {} /\ order = << >>
  /\ entry = [c \in Assets |-> NoEntry]
  /\ plan = [c \in Assets |-> [value |-> 0, blind |-> {}]]

AccRest == question = Unanswered /\ AccEmpty
AccInit == question \in Questions \cup {Unanswered} /\ AccEmpty

AccNext == AnswerRisk \/ (question = Unanswered /\ AccountStep)
=============================================================================
