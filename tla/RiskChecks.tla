----------------------------- MODULE RiskChecks -----------------------------
(***************************************************************************)
(* The risk engine (core/risk.py: assess), a pure function of an intent,   *)
(* the inputs the engine gathers for it and the configuration.             *)
(*                                                                         *)
(* Amounts, prices and quantities are integers in units small enough for   *)
(* the cases of interest; percentages are integers out of 100.  NA is      *)
(* Python's None: a check that is switched off, or an input nobody gave.   *)
(* The reasons are a set: their order is for the reader of the log.        *)
(***************************************************************************)
EXTENDS Integers, FiniteSets

NA == -99

When(b, r)  == IF b THEN {r} ELSE {}
Size(a)     == IF a < 0 THEN -a ELSE a
NonNeg(a)   == IF a < 0 THEN 0 ELSE a
Lesser(a, b) == IF a < b THEN a ELSE b

-----------------------------------------------------------------------------
(* K1-K5: the state of the process. *)
HealthReasons(x, c) ==
  When(x.kill, "K1") \cup When(~x.reconciled, "K2") \cup When(x.warm < c.warmup, "K3")
  \cup When(x.stale # {}, "K4")
  \cup When(c.skewMax # NA /\ (x.skew = NA \/ Size(x.skew) > c.skewMax), "K5")

(* K6, K7 and the strategy's own number of positions. *)
SlotReasons(x, c) ==
  When(x.open + x.pending >= c.maxPositions, "K6") \cup When(x.busy \/ x.leased, "K7")
  \cup When(x.stratMax # NA /\ x.stratOpen >= x.stratMax, "K19_max")

(* The soft checks shrink the notional to the room a cap leaves: first the *)
(* strategy's budget, then the global caps, which therefore always win.    *)
Tight(n, cap, used)  == cap # NA /\ cap - used < n
Fitted(n, cap, used) == IF Tight(n, cap, used) THEN NonNeg(cap - used) ELSE n

(* K9: the exposure to the reference coin after the entry.  One that grows *)
(* beyond the cap is cut to what still fits under it.                      *)
Sign(i)        == IF i.side = "long" THEN 1 ELSE -1
After(i, x, n) == x.exposure + Sign(i) * n * x.beta
OverBeta(i, x, c, n) ==
  /\ c.betaCap # NA /\ x.beta # NA
  /\ Size(After(i, x, n)) > c.betaCap /\ Size(After(i, x, n)) > Size(x.exposure)
Ratio(a, b)       == IF b = 0 THEN 0 ELSE IF b > 0 THEN a \div b ELSE (-a) \div (-b)
BetaRoom(i, x, c) == Ratio(c.betaCap - Sign(i) * x.exposure, x.beta)
(* Mutant: the room under the cap does not look at the side of the entry. *)
FittedBetaOneSided(i, x, c, n) ==
  IF OverBeta(i, x, c, n)
  THEN NonNeg(Lesser(n, Ratio(c.betaCap - x.exposure, x.beta))) ELSE n
FittedBeta(i, x, c, n) ==
  IF OverBeta(i, x, c, n) THEN NonNeg(Lesser(n, BetaRoom(i, x, c))) ELSE n

(* K10 and K11: the leverage of the account, and the margin it asks for. *)
AccountReasons(x, c, n) ==
  When(x.leverage # c.leverage, "K10")
  \cup When(x.balance = NA \/ x.balance * c.leverage * 100 < n * (100 + c.buffer), "K11")

(* _qty: down to the step; K12 refuses what is then below the minimum. *)
Qty(n, price, f)         == (n \div (price * f.step)) * f.step
BelowMinimum(q, price, f) == q < f.minQty \/ q * price < f.minNotional
NoFilters == [step |-> 0, minQty |-> 0, minNotional |-> 0]

(* K13 and K15: an unknown spread or slippage is refused. *)
MarketReasons(x, c) ==
  When(c.spreadMax # NA /\ (x.spread = NA \/ x.spread > c.spreadMax), "K13")
  \cup When(c.slippageMax # NA /\ (x.slippage = NA \/ x.slippage > c.slippageMax), "K15")

(* K16-K18: cooling down after an exit, orders kept for protection, and    *)
(* the venue's displeasure.                                                *)
CoolDown(x, c) == IF x.lossExit /\ c.cooldownLoss # NA THEN c.cooldownLoss ELSE c.cooldown
PauseReasons(x, c) ==
  When(x.sinceExit # NA /\ CoolDown(x, c) # NA /\ x.sinceExit < CoolDown(x, c), "K16")
  \cup When(x.sinceStp # NA /\ c.cooldownStp # NA /\ x.sinceStp < c.cooldownStp, "K16_stp")
  \cup When(x.left10 = NA \/ x.left1m = NA \/ Lesser(x.left10, x.left1m) < c.reserve, "K17")
  \cup When(x.banned, "K18") \cup When(~x.banned /\ x.since429 # NA /\ x.since429 < c.backoff, "K18")

Soft == {"K8", "K9", "K14", "K19_gross"}

(* The notional after the caps (before the depth of the book is asked). *)
Capped(i, x, c) ==
  FittedBeta(i, x, c, Fitted(Fitted(i.notional, x.stratCap, x.stratGross), c.grossCap, x.gross))

CapReasons(i, x, c) ==
  LET n1 == Fitted(i.notional, x.stratCap, x.stratGross)
      n2 == Fitted(n1, c.grossCap, x.gross)
  IN When(Tight(i.notional, x.stratCap, x.stratGross), "K19_gross")
     \cup When(Tight(n1, c.grossCap, x.gross), "K8")
     \cup When(c.betaCap # NA /\ x.beta = NA, "K9_unknown")
     \cup When(OverBeta(i, x, c, n2), "K9")

(* K14: at most a share of what the book holds near its middle. *)
Thick(x, c, n)    == c.participation # NA /\ x.depth # NA /\ n * 100 > c.participation * x.depth
FittedDepth(x, c, n) == IF Thick(x, c, n) THEN (c.participation * x.depth) \div 100 ELSE n
DepthReasons(x, c, n) ==
  When(c.participation # NA /\ x.depth = NA, "K14_unknown") \cup When(Thick(x, c, n), "K14")

(* The verdict: an exit passes by everything but the filters; a reason     *)
(* that is not soft refuses, a soft one leaves a smaller order.            *)
Verdict(reasons, q) ==
  [kind |-> IF reasons \ Soft # {} THEN "REJECT" ELSE IF reasons # {} THEN "RESIZE" ELSE "APPROVE",
   qty |-> IF reasons \ Soft # {} THEN NA ELSE q]

FilterReasons(x, n, price) ==
  When(x.filters = NoFilters \/ BelowMinimum(Qty(n, price, x.filters), price, x.filters), "K12")

Assess(i, x, c) ==
  IF i.reduceOnly
  THEN Verdict(FilterReasons(x, i.notional, i.price), Qty(i.notional, i.price, x.filters))
  ELSE LET n == Capped(i, x, c)
           m == FittedDepth(x, c, n)
       IN Verdict(HealthReasons(x, c) \cup SlotReasons(x, c) \cup CapReasons(i, x, c)
                    \cup AccountReasons(x, c, n) \cup MarketReasons(x, c) \cup DepthReasons(x, c, n)
                    \cup PauseReasons(x, c) \cup FilterReasons(x, n, i.price)
                    \cup FilterReasons(x, m, i.price),
                  Qty(m, i.price, x.filters))
=============================================================================
