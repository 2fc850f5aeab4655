----------------------------- MODULE MarketView -----------------------------
(***************************************************************************)
(* The market side of the engine for one symbol (core/engine.py: step,     *)
(* _route, _on_bar_state, _staleness, _tick_positions; core/market.py;     *)
(* core/state_engine.py; core/health.py): events of two categories arrive  *)
(* in the order of the queue, trades are folded into bars, a closed bar is *)
(* labelled and may become an entry, and the age of each category decides  *)
(* what entries and exits are allowed.                                     *)
(*                                                                         *)
(* Time is in ticks of the model.  A bar is named by its index, and its    *)
(* entry by that index and the side (ids.entry_cid).  Prices are left out: *)
(* a closed bar may get any features, and the book is tight or wide.       *)
(***************************************************************************)
EXTENDS RiskChecks, Decisions

CONSTANTS
  Limit,        \* staleness_ms, by category
  CheckEvery,   \* the pause between two staleness checks while nothing is stale
  TickEvery,    \* longest time between two ticks (tick_ms and what it is late)
  BarLen,       \* bar_ms
  WarmUp,       \* bars until the feature windows are full (warmup_bars)
  MaxAge,       \* max_state_age_bars
  Ttl,          \* pending_entry_ttl_ms
  MaxTime,      \* bound: the clock
  MaxLate,      \* bound: trades that arrive in a later bar than their own
  Samples       \* the features a warm bar may get

Category == {"market", "public"}

ASSUME MVAssumption ==
  /\ Limit \in [Category -> Nat] /\ CheckEvery \in Nat \ {0} /\ TickEvery \in Nat
  /\ BarLen \in Nat \ {0} /\ WarmUp \in Nat /\ MaxAge \in Nat /\ Ttl \in Nat
  /\ MaxTime \in Nat \ {0} /\ MaxLate \in Nat /\ Samples \subseteq Features

VARIABLES
  clock,      \* now_ns of the event being handled
  tickAt,     \* the last tick
  recv,       \* last_recv_ns: category -> when it was last heard (NA: never)
  stale,      \* category -> the flag
  checked,    \* last_staleness_check_ns (0: never)
  bar,        \* the open bar (NA: none yet)
  bars,       \* bars in the state engine's window, counted to WarmUp
  label, age, \* the label, and bars_in_state
  book,       \* the book: "none", "tight" or "wide"
  waiting,    \* pending_entries: deadline of the symbol's reservation, or NA
  lease,      \* its lease: deadline, NA, or Bound to the open position
  open,       \* there is an open position
  reconciled,
  mode,       \* exit_mode, when this step is a tick ("none" otherwise)
  sent,       \* history: the entries sent, <<bar, side>>
  again,      \* history: an entry was sent under the name of an earlier one
  late,       \* history: late trades so far
  slack       \* history: by how much the stalest category heard was beyond its
              \* limit when an entry was sent in this step (NA: none was)

feedVars == <<recv, stale, checked>>
barVars  == <<bar, bars, label, age, late>>
posVars  == <<waiting, lease, open, sent, again>>
marketVars == <<clock, tickAt, feedVars, barVars, book, posVars, reconciled, mode, slack>>

Bound   == MaxTime + Ttl + 1
Blank   == [retLong |-> "none", rvLong |-> "none", rvShort |-> "none", volRatio |-> "none",
            spread |-> "none", lean |-> 0]
ViewMode == {"none", "FULL", "PROTECTION_ONLY", "HALTED"}

MarketInit ==
  /\ clock = 1 /\ tickAt = 1
  /\ recv = [c \in Category |-> NA] /\ stale = [c \in Category |-> FALSE] /\ checked = 0
  /\ bar = NA /\ bars = 0 /\ label = "S0" /\ age = 0
  /\ book = "none" /\ waiting = NA /\ lease = NA /\ open = FALSE
  /\ reconciled \in BOOLEAN /\ mode = "none"
  /\ sent = {} /\ again = FALSE /\ late = 0 /\ slack = NA

-----------------------------------------------------------------------------
(* _staleness, at the end of every step: while nothing is stale at most    *)
(* once per CheckEvery.  A category never heard is never judged.           *)
Due       == (\E c \in Category : stale[c]) \/ checked = 0 \/ clock - checked >= CheckEvery
Judged(r) == [c \in Category |-> IF r[c] = NA THEN stale[c] ELSE clock - r[c] > Limit[c]]
Check(r) ==
  /\ stale' = IF Due THEN Judged(r) ELSE stale
  /\ checked' = IF Due THEN clock ELSE checked

Hear(c) ==
  /\ recv' = [recv EXCEPT ![c] = clock]
  /\ Check([recv EXCEPT ![c] = clock])

(* exit_mode (core/health.py). *)
ExitMode(rec, flags) ==
  IF ~rec THEN "HALTED"
  ELSE IF \E c \in Category : flags[c] THEN "PROTECTION_ONLY" ELSE "FULL"

-----------------------------------------------------------------------------
(* The configuration and the inputs of the risk engine (_risk_inputs):     *)
(* what the engine does not measure is given as harmless.                  *)
Config == [maxPositions |-> 1, grossCap |-> NA, betaCap |-> NA, leverage |-> 5, buffer |-> 20,
           spreadMax |-> 5, participation |-> NA, slippageMax |-> NA, cooldown |-> NA,
           cooldownLoss |-> NA, cooldownStp |-> NA, reserve |-> 3, backoff |-> 10,
           skewMax |-> NA, warmup |-> WarmUp]

Inputs(n) ==
  [kill |-> FALSE, reconciled |-> reconciled, warm |-> n, stale |-> {c \in Category : stale[c]},
   skew |-> 0, open |-> IF open THEN 1 ELSE 0, pending |-> IF waiting # NA THEN 1 ELSE 0,
   busy |-> open \/ waiting # NA, leased |-> lease # NA,
   stratMax |-> NA, stratCap |-> NA, stratOpen |-> 0, stratGross |-> 0,
   gross |-> 0, exposure |-> 0, beta |-> NA, leverage |-> 5, balance |-> 100,
   filters |-> [step |-> 1, minQty |-> 1, minNotional |-> 1],
   spread |-> IF book = "tight" THEN 1 ELSE 9, depth |-> NA, slippage |-> 0,
   sinceExit |-> NA, lossExit |-> FALSE, sinceStp |-> NA,
   left10 |-> 100, left1m |-> 500, since429 |-> NA, banned |-> FALSE]

Rule == [cells |-> << <<"S1", "long">>, <<"S2", "short">>, <<"S4", "long">> >>,
         maxAge |-> MaxAge, guard |-> -1, measured |-> {"S1", "S2", "S4"}]

View(l, a, f) == [hasPosition |-> open \/ waiting # NA, label |-> l, age |-> a, lean |-> f.lean,
                  stale |-> \E c \in Category : stale[c], spread |-> book, toFunding |-> -1]

Intents(l, a, f) == IF book = "none" THEN {} ELSE Decided(View(l, a, f), Rule)

Approved(side, n) ==
  Assess([side |-> side, notional |-> 8, price |-> 1, reduceOnly |-> FALSE], Inputs(n), Config).kind
    # "REJECT"

(* By how much the stalest category heard is beyond its limit. *)
Excess(r) ==
  LET over == {clock - r[c] - Limit[c] : c \in {d \in Category : r[d] # NA}}
  IN CHOOSE e \in over : \A o \in over : o <= e

(* _decide: an approved intent reserves the symbol and is sent. *)
Send(b, side) ==
  /\ waiting' = clock + Ttl /\ lease' = clock + Ttl
  /\ again' = (again \/ <<b, side>> \in sent) /\ sent' = sent \cup {<<b, side>>}
  /\ slack' = Excess(recv')
  /\ UNCHANGED open

(* on_bar_cmds: a bar that keeps the label makes the state one bar older. *)
Older(l) == IF l = label THEN age + 1 ELSE 0
(* _on_bar_state: the closed bar is labelled, and the flags of the step    *)
(* BEFORE this one are asked.                                              *)
OnBar(b, f) ==
  LET n == Lesser(bars + 1, WarmUp)
      l == LabelOf(f)
  IN /\ bars' = n /\ label' = l /\ age' = Older(l)
     /\ \/ \E side \in Intents(l, Older(l), f) : Approved(side, n) /\ Send(b, side)
        \/ /\ \A side \in Intents(l, Older(l), f) : ~Approved(side, n)
           /\ slack' = NA /\ UNCHANGED posVars

NoBar == slack' = NA /\ UNCHANGED <<posVars, bars, label, age>>

FeaturesOf(n) == IF n < WarmUp THEN {Blank} ELSE Samples

(* on_agg_trade: a trade of another bar than the open one closes it,       *)
(* whichever of the two is the later.                                      *)
Trade(m) ==
  /\ Hear("market") /\ UNCHANGED book
  /\ bar' = m
  /\ IF bar # NA /\ m # bar
     THEN \E f \in FeaturesOf(Lesser(bars + 1, WarmUp)) : OnBar(bar, f)
     ELSE NoBar

Now == clock \div BarLen

OnTrade ==
  /\ \/ Trade(Now) /\ UNCHANGED late
     \/ Now > 0 /\ late < MaxLate /\ late' = late + 1 /\ Trade(Now - 1)
  /\ mode' = "none" /\ UNCHANGED <<clock, tickAt, reconciled>>

(* A step that neither closes a bar nor runs the exit rules. *)
Plain == slack' = NA /\ mode' = "none"
Quiet == Plain /\ UNCHANGED <<clock, tickAt, barVars, posVars, reconciled>>

(* A bookTicker. *)
OnBook == /\ Hear("public") /\ book' \in {"tight", "wide"} /\ Quiet

(* Anything else of the market category: the mark price, every second. *)
OnMark == /\ Hear("market") /\ Quiet /\ UNCHANGED book

(* A connect event counts as being heard. *)
OnConnect == /\ \E c \in Category : Hear(c) /\ Quiet /\ UNCHANGED book

-----------------------------------------------------------------------------
Expired(d) == d # NA /\ d # Bound /\ d <= clock
Swept(d)   == IF Expired(d) \/ (d = Bound /\ ~open) THEN NA ELSE d

(* Mutant: the tick does not look at the ages. *)
TickUnchecked ==
  /\ waiting' = Swept(waiting)
  /\ lease' = Swept(lease)
  /\ mode' = ExitMode(reconciled, stale) /\ UNCHANGED feedVars
  /\ tickAt' = clock /\ slack' = NA
  /\ UNCHANGED <<clock, barVars, book, open, sent, again, reconciled>>

(* A tick: reservations that ran out are dropped, the ages are checked,    *)
(* the lease of a closed position comes back, and the exit rules run in    *)
(* the mode that follows.                                                  *)
Tick ==
  /\ waiting' = Swept(waiting)
  /\ lease' = Swept(lease)
  /\ Check(recv) /\ UNCHANGED recv
  /\ mode' = ExitMode(reconciled, stale')
  /\ tickAt' = clock /\ slack' = NA
  /\ UNCHANGED <<clock, barVars, book, open, sent, again, reconciled>>

(* The entry fills, or the venue refuses it: the lease stays. *)
Fill ==
  /\ waiting # NA /\ waiting' = NA /\ lease' = Bound /\ open' = TRUE
  /\ Check(recv) /\ Plain
  /\ UNCHANGED <<clock, tickAt, recv, barVars, book, sent, again, reconciled>>

Refused ==
  /\ waiting # NA /\ waiting' = NA
  /\ Check(recv) /\ Plain
  /\ UNCHANGED <<clock, tickAt, recv, barVars, book, lease, open, sent, again, reconciled>>

(* The last exit fill; the next tick gives the lease back. *)
PositionCloses ==
  /\ open /\ open' = FALSE
  /\ Check(recv) /\ Plain
  /\ UNCHANGED <<clock, tickAt, recv, barVars, book, waiting, lease, sent, again, reconciled>>

(* A reconciliation sets the flag from outside. *)
Reconciliation ==
  /\ reconciled' = ~reconciled /\ Plain
  /\ UNCHANGED <<clock, tickAt, feedVars, barVars, book, posVars>>

(* Time passes, but never over a tick that is due. *)
Pass ==
  /\ clock < MaxTime /\ clock < tickAt + TickEvery
  /\ clock' = clock + 1 /\ Plain
  /\ UNCHANGED <<tickAt, feedVars, barVars, book, posVars, reconciled>>

MarketNext ==
  \/ OnTrade \/ OnBook \/ OnMark \/ OnConnect \/ Tick
  \/ Fill \/ Refused \/ PositionCloses \/ Reconciliation \/ Pass

-----------------------------------------------------------------------------
MarketTypeOK ==
  /\ clock \in 1..MaxTime /\ tickAt \in 1..MaxTime /\ checked \in 0..MaxTime
  /\ recv \in [Category -> {NA} \cup 1..MaxTime] /\ stale \in [Category -> BOOLEAN]
  /\ bar \in {NA} \cup 0..MaxTime /\ bars \in 0..WarmUp
  /\ late \in 0..MaxLate /\ age \in 0..(MaxTime + 2 * late)
  /\ book \in {"none", "tight", "wide"} /\ mode \in ViewMode
  /\ lease \in {NA, Bound} \cup 1..(MaxTime + Ttl) /\ waiting \in {NA} \cup 1..(MaxTime + Ttl)
  /\ (open => lease = Bound) /\ (waiting # NA => lease = waiting)

(* An entry is sent only when every category heard so far is within its    *)
(* limit, but for the time since the flags were last looked at: the step   *)
(* that decides asks the flags before it brings them up to date.           *)
EntriesAreFresh == slack # NA => slack <= TickEvery + CheckEvery - 1

(* A tick runs all exit rules only if every category heard is within its   *)
(* limit and the pause between two checks, holds the price rules back only *)
(* if one is beyond it, and does nothing exactly without reconciliation.   *)
ExitModeTrue ==
  [][ Tick => /\ mode' = "HALTED" <=> ~reconciled
              /\ mode' = "FULL" =>
                   \A c \in Category : recv[c] # NA => clock - recv[c] <= Limit[c] + CheckEvery - 1
              /\ mode' = "PROTECTION_ONLY" =>
                   \E c \in Category : recv[c] # NA /\ clock - recv[c] > Limit[c] ]_marketVars

(* While no trade arrives in a later bar than its own, no two entries get  *)
(* the same name, through refusals and expired reservations.               *)
NamesAreNew == late = 0 => ~again
=============================================================================
