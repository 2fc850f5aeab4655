------------------------------ MODULE Monitors ------------------------------
(***************************************************************************)
(* The detectors that watch the program: the runaway detector (core/       *)
(* risk.py, fed by testnet/main.py), the breaker (core/breaker.py), the    *)
(* cost drift monitor (core/cost_drift.py, fed by paper/trader.py), the    *)
(* stream checker (integrity.py), the beta tracker (core/beta_tracker.py)  *)
(* and the histograms (core/telemetry.py).                                 *)
(*                                                                         *)
(* Each keeps a summary of what it was told, of bounded size, and answers  *)
(* from it.  A behaviour picks one of them and tells it events; `seen`     *)
(* keeps them all, and the properties say what each answer must be as a    *)
(* function of `seen`.                                                     *)
(***************************************************************************)
EXTENDS Integers, Sequences, FiniteSets, SequencesExt

CONSTANTS
  Window,     \* length of the windows, in ticks (bars of the beta tracker)
  MaxOrders,  \* orders a window may hold
  MaxRej,     \* rejects in a row that stop the program; losses in a row, too
  Jitter,     \* how far behind the latest stamp an order or a bar may be stamped
  MaxBack,    \* bound: bars that come late
  MaxSeen     \* bound: events, by monitor

Monitor == {"runaway", "breaker", "drift", "stream", "beta", "histogram"}

ASSUME MonAssumption ==
  /\ Window \in Nat /\ MaxOrders \in Nat /\ MaxRej \in Nat /\ Jitter \in Nat /\ MaxBack \in Nat
  /\ MaxSeen \in [Monitor -> Nat]

VARIABLES
  watch,   \* the monitor of this behaviour
  seen,    \* history: what it was told
  memory,  \* what it keeps of it
  raised   \* its answer to the last event

monVars == <<watch, seen, memory, raised>>

Unset == -1
SumOf(s)  == LET upto[k \in 0..Len(s)] == IF k = 0 THEN 0 ELSE upto[k - 1] + s[k]
             IN upto[Len(s)]
Only(s, K) == LET upto[k \in 0..Len(s)] == IF k = 0 THEN << >>
                                           ELSE IF k \in K THEN Append(upto[k - 1], s[k]) ELSE upto[k - 1]
              IN upto[Len(s)]
Stamps    == {seen[k].t : k \in DOMAIN seen}
Latest    == IF seen = << >> THEN 0 ELSE CHOOSE t \in Stamps : \A u \in Stamps : u <= t

(* A queue that is trimmed from its head while the head is too old.        *)
Trim(q, now) ==
  LET kept == {k \in DOMAIN q : now - q[k].t <= Window}
  IN IF kept = {} THEN << >>
     ELSE SubSeq(q, CHOOSE k \in kept : \A j \in kept : k <= j, Len(q))

-----------------------------------------------------------------------------
(* RunawayDetector.  An order is stamped with the time of the event that   *)
(* caused it; the answer of a send is stamped with the time it was queued, *)
(* so that stamps may step back.                                           *)
RunawayEvent ==
  {[what |-> "order", t |-> t] : t \in (IF Latest > Jitter THEN Latest - Jitter ELSE 0)..(Latest + 2)}
    \cup {[what |-> w, t |-> Latest] : w \in {"reject", "ack"}}

OnRunaway(m, e) ==
  CASE e.what = "order"  -> [m EXCEPT !.orders = Trim(Append(m.orders, e), e.t)]
    [] e.what = "reject" -> [m EXCEPT !.rejects = m.rejects + 1]
    [] e.what = "ack"    -> [m EXCEPT !.rejects = 0]
RunawayRaises(m, e) ==
  CASE e.what = "order"  -> IF Len(m.orders) > MaxOrders THEN {"orders"} ELSE {}
    [] e.what = "reject" -> IF m.rejects >= MaxRej THEN {"rejects"} ELSE {}
    [] e.what = "ack"    -> {}

(* More orders than a window may hold always raise, and only if so many    *)
(* lie in a window longer by what stamps step back; rejects raise exactly  *)
(* when enough of them followed the last ack.                              *)
RunawayExact ==
  LET last    == seen[Len(seen)]
      Orders(now, far) == {k \in DOMAIN seen : seen[k].what = "order" /\ now - seen[k].t <= far}
      acks    == {k \in DOMAIN seen : seen[k].what = "ack"}
      rejects == {k \in DOMAIN seen : seen[k].what = "reject" /\ \A a \in acks : a < k}
  IN /\ last.what = "order" =>
          /\ Cardinality(Orders(Latest, Window)) > MaxOrders => raised = {"orders"}
          /\ raised # {} => Cardinality(Orders(last.t, Window + Jitter)) > MaxOrders
     /\ last.what = "reject" => (raised = {"rejects"} <=> Cardinality(rejects) >= MaxRej)

-----------------------------------------------------------------------------
(* The breaker: on_trade and entry_blocked, in both modes. *)
DayLimit == 3
BreakerEvent == [day : {0, 1}, net : {-2, -1, 1}, mode : {IF seen = << >> THEN m ELSE seen[1].mode :
                                                           m \in {"alarm", "enforce"}}]

Rules(net, losses) == (IF net <= -DayLimit THEN {"daily_net_loss"} ELSE {})
                        \cup (IF losses >= MaxRej THEN {"consecutive_loss"} ELSE {})

(* Mutant: a new day forgets the money but not the rules that fired. *)
OnBreakerKeepsRules(m, e) ==
  LET s == IF m.day = e.day THEN m ELSE [m EXCEPT !.day = e.day, !.net = 0, !.losses = 0]
      losses == IF e.net < 0 THEN s.losses + 1 ELSE 0
  IN [s EXCEPT !.net = s.net + e.net, !.losses = losses,
               !.tripped = s.tripped \cup Rules(s.net + e.net, losses)]

OnBreaker(m, e) ==
  LET s == IF m.day = e.day THEN m ELSE [day |-> e.day, net |-> 0, losses |-> 0, tripped |-> {}]
      losses == IF e.net < 0 THEN s.losses + 1 ELSE 0
  IN [day |-> e.day, net |-> s.net + e.net, losses |-> losses,
      tripped |-> s.tripped \cup Rules(s.net + e.net, losses)]
BreakerRaises(old, new) == IF old.day = new.day THEN new.tripped \ old.tripped ELSE new.tripped
EntryBlocked(m, mode)   == mode = "enforce" /\ m.tripped # {}

(* In a run of trades of one day a rule fires once, with the first trade   *)
(* after which it held, and in enforce mode entries stay blocked from that *)
(* trade to the last of the run, whatever the later trades bring in.       *)
BreakerExact ==
  LET n      == Len(seen)
      breaks == {k \in 1..(n - 1) : seen[k].day # seen[k + 1].day}
      first  == 1 + (IF breaks = {} THEN 0 ELSE CHOOSE k \in breaks : \A j \in breaks : j <= k)
      Net(k) == SumOf([i \in 1..(k - first + 1) |-> seen[first + i - 1].net])
      Lost(k) == Cardinality({j \in first..k : \A i \in j..k : seen[i].net < 0})
      Held(k) == UNION {Rules(Net(j), Lost(j)) : j \in first..k}
  IN /\ raised = Held(n) \ Held(n - 1)
     /\ EntryBlocked(memory, seen[n].mode) <=> (seen[n].mode = "enforce" /\ Held(n) # {})

-----------------------------------------------------------------------------
(* CostDriftMonitor, over closed positions.  The trader looks at every     *)
(* position on every tick and hands a closed one over once (_feed_drift).  *)
(* A trade has its net result, its notional is 100 (so that a percent is a *)
(* unit), and its fee.                                                     *)
MinTrades == 2
Capital   == 10
DriftEvent ==
  {[pid |-> p, t |-> t, net |-> x[1], fee |-> x[2]] :
     p \in (IF seen = << >> THEN {1} ELSE {seen[Len(seen)].pid, seen[Len(seen)].pid + 1}),
     t \in {Latest, Latest + 2}, x \in {<<4, 1>>, <<-3, 1>>, <<1, 4>>}}

(* _compute: the fees against the gross profit (a half at most) and the    *)
(* capital (four tenths at most), and the average result (not negative).   *)
Breaches(q) ==
  LET fees  == SumOf([k \in DOMAIN q |-> q[k].fee])
      gross == SumOf([k \in DOMAIN q |-> IF q[k].net + q[k].fee > 0 THEN q[k].net + q[k].fee ELSE 0])
      net   == SumOf([k \in DOMAIN q |-> q[k].net])
  IN IF Len(q) < MinTrades THEN {}
     ELSE (IF gross > 0 /\ 2 * fees > gross THEN {"commission_to_gross"} ELSE {})
            \cup (IF 10 * fees > 4 * Capital THEN {"cost_to_capital"} ELSE {})
            \cup (IF net < 0 THEN {"net_per_trade"} ELSE {})

OnDrift(m, e) ==
  LET q == Trim(Append(m.trades, e), e.t)
  IN IF e.pid \in m.fed THEN m
     ELSE [trades |-> q, breached |-> Breaches(q), fed |-> m.fed \cup {e.pid}]
DriftRaises(old, new) == new.breached \ old.breached

(* An alarm is raised exactly when a limit is exceeded by the window that  *)
(* ends with this position and was not by the one that ended with the      *)
(* position before.                                                        *)
DriftExact ==
  LET new     == {k \in DOMAIN seen : \A j \in 1..(k - 1) : seen[j].pid # seen[k].pid}
      n       == Len(seen)
      before  == {j \in new : j < n /\ new \cap (j + 1)..(n - 1) = {}}
      Ends(k) == Breaches(Only(seen, {j \in new : j <= k /\ seen[k].t - seen[j].t <= Window}))
  IN raised = IF n \in new THEN Ends(n) \ UNION {Ends(k) : k \in before} ELSE {}

-----------------------------------------------------------------------------
(* StreamChecker: one stream of each sort.  A reset is a new connection of *)
(* a category.  lo is the number an event names as the one before it.      *)
CategoryOf(s) == IF s = "aggTrade" THEN "market" ELSE "public"
StreamName == {"aggTrade", "bookTicker", "depth"}
StreamEvent ==
  {[s |-> c, id |-> Unset, lo |-> Unset] : c \in {"market", "public"}}
    \cup [s : {"aggTrade", "bookTicker"}, id : 1..3, lo : {Unset}]
    \cup {[s |-> "depth", id |-> x[2], lo |-> x[1]] : x \in {<<0, 1>>, <<1, 2>>, <<2, 3>>, <<1, 3>>}}

Breaks(last, e) ==
  last # Unset /\ CASE e.s = "aggTrade"   -> e.id # last + 1
                   [] e.s = "bookTicker" -> e.id < last
                   [] e.s = "depth"      -> e.lo # last
NextId(last, e) == IF e.s = "bookTicker" /\ last # Unset /\ e.id < last THEN last ELSE e.id

OnStream(m, e) ==
  IF e.id = Unset
  THEN [m EXCEPT !.last = [s \in StreamName |-> IF CategoryOf(s) = e.s THEN Unset ELSE m.last[s]]]
  ELSE [last   |-> [m.last EXCEPT ![e.s] = NextId(m.last[e.s], e)],
        breaks |-> [m.breaks EXCEPT ![e.s] = @ + (IF Breaks(m.last[e.s], e) THEN 1 ELSE 0)]]

(* The breaks of a stream are the events that do not follow what its own   *)
(* connection brought before them.                                         *)
StreamExact ==
  LET Mine(s, k)   == seen[k].s = s
      Reset(s, k)  == seen[k].s = CategoryOf(s)
      Before(s, k) == {j \in 1..(k - 1) : Mine(s, j) /\ ~\E r \in j..k : Reset(s, r)}
      Prev(s, k)   == CHOOSE j \in Before(s, k) : \A i \in Before(s, k) : i <= j
      Bad(s, k)    ==
        /\ Mine(s, k) /\ Before(s, k) # {}
        /\ CASE s = "aggTrade"   -> seen[k].id # seen[Prev(s, k)].id + 1
             [] s = "bookTicker" -> \E j \in Before(s, k) : seen[j].id > seen[k].id
             [] s = "depth"      -> seen[k].lo # seen[Prev(s, k)].id
  IN \A s \in StreamName : memory.breaks[s] = Cardinality({k \in DOMAIN seen : Bad(s, k)})

-----------------------------------------------------------------------------
(* BetaTracker: closed bars of the reference coin and of another one.  A   *)
(* bar is its minute; a minute may be missing.  A late trade closes the    *)
(* bar and opens the older one again, so that a minute may come twice, but *)
(* never twice in a row (core/market.py: on_agg_trade).                    *)
MinutesOf(s) == {seen[k].t : k \in {j \in DOMAIN seen : seen[j].s = s}}
LastBar(s) ==
  IF MinutesOf(s) = {} THEN 0 ELSE CHOOSE t \in MinutesOf(s) : \A u \in MinutesOf(s) : u <= t
LateBars(s) ==
  {k \in DOMAIN seen : seen[k].s = s /\ \E j \in 1..(k - 1) : seen[j].s = s /\ seen[j].t >= seen[k].t}
BarsOf(s)  ==
  {t \in (IF LastBar(s) > Jitter THEN LastBar(s) - Jitter ELSE 1)..(LastBar(s) + 2) :
     /\ t # memory.last[s]
     /\ t <= LastBar(s) => Cardinality(LateBars("ref") \cup LateBars("alt")) < MaxBack}
BetaEvent  == UNION {{[s |-> s, t |-> t] : t \in BarsOf(s)} : s \in {"ref", "alt"}}

LastFew(q) == IF Len(q) > Window THEN Tail(q) ELSE q

(* on_bar: a return needs the minute before. *)
OnBeta(m, e) ==
  [last |-> [m.last EXCEPT ![e.s] = e.t],
   rets |-> IF m.last[e.s] # Unset /\ e.t = m.last[e.s] + 1
            THEN [m.rets EXCEPT ![e.s] = LastFew(Append(@, e.t))] ELSE m.rets]
(* beta: the minutes both have a return of. *)
Kept(m, s) == {m.rets[s][k] : k \in DOMAIN m.rets[s]}
Pairs(m)   == Kept(m, "ref") \cap Kept(m, "alt")

(* The research's series (research/beta.py: beta_series) over the same     *)
(* bars: the last Window of all the minutes both have a return of.         *)
Returned(s) == {t \in MinutesOf(s) : t - 1 \in MinutesOf(s)}
LastOf(S)   == {t \in S : Cardinality({u \in S : t < u}) < Window}
Series      == LastOf(Returned("ref") \cap Returned("alt"))

(* However late bars come, a return is one of two minutes that were there, *)
(* and at most as many of a coin's are repeated as its bars came late.  If *)
(* none did, the tracker's pairs are the latest of the research's, and it  *)
(* lacks at most as many of them as there are minutes with a return of     *)
(* only one of the coins.                                                  *)
BetaExact ==
  LET alone == Cardinality(Returned("ref") \ Returned("alt")) + Cardinality(Returned("alt") \ Returned("ref"))
  IN /\ \A s \in {"ref", "alt"} :
          /\ Kept(memory, s) \subseteq Returned(s)
          /\ Len(memory.rets[s]) - Cardinality(Kept(memory, s)) <= Cardinality(LateBars(s))
     /\ LateBars("ref") \cup LateBars("alt") = {} =>
          /\ Pairs(memory) \subseteq Series
          /\ \A t \in Series : (\E p \in Pairs(memory) : p < t) => t \in Pairs(memory)
          /\ Cardinality(Series) - Cardinality(Pairs(memory)) <= alone

-----------------------------------------------------------------------------
(* Histogram. *)
Bucket == <<1, 2, 4>>
HistogramEvent == [v : 0..6]

(* The binary search of observe: the first bucket that is not too small. *)
Search(v) ==
  LET from[w \in (1..4) \X (1..4)] ==
        LET mid == (w[1] + w[2]) \div 2
        IN IF w[1] >= w[2] THEN w[1]
           ELSE IF v <= Bucket[mid] THEN from[<<w[1], mid>>] ELSE from[<<mid + 1, w[2]>>]
  IN from[<<1, 4>>]

OnHistogram(m, e) ==
  [counts |-> [m.counts EXCEPT ![Search(e.v)] = @ + 1], n |-> m.n + 1,
   max |-> IF e.v > m.max THEN e.v ELSE m.max]

(* quantile_ns, q in percent. *)
Quantile(m, q) ==
  LET enough == {k \in 1..4 : 100 * SumOf(SubSeq(m.counts, 1, k)) >= q * m.n}
      b == CHOOSE k \in enough : \A j \in enough : k <= j
  IN IF b = 4 THEN m.max ELSE Bucket[b]

(* A quantile is the bound of the bucket the true one lies in: the true    *)
(* one is the smallest value that enough values do not exceed.  Beyond the *)
(* last bound it is the greatest value of all.                             *)
HistogramExact ==
  \A q \in {50, 95, 99} :
    LET AtMost(v) == Cardinality({k \in DOMAIN seen : seen[k].v <= v})
        true      == CHOOSE v \in 0..6 : /\ 100 * AtMost(v) >= q * Len(seen)
                                         /\ \A w \in 0..(v - 1) : 100 * AtMost(w) < q * Len(seen)
        fits      == {b \in {1, 2, 4} : true <= b}
        Over(x)   == \A k \in DOMAIN seen : seen[k].v <= x
    IN IF fits = {} THEN Over(Quantile(memory, q)) /\ \E k \in DOMAIN seen : seen[k].v = Quantile(memory, q)
       ELSE Quantile(memory, q) \in fits /\ \A c \in fits : Quantile(memory, q) <= c

-----------------------------------------------------------------------------
Fresh(w) ==
  CASE w = "runaway"   -> [orders |-> << >>, rejects |-> 0]
    [] w = "breaker"   -> [day |-> Unset, net |-> 0, losses |-> 0, tripped |-> {}]
    [] w = "drift"     -> [trades |-> << >>, breached |-> {}, fed |-> {}]
    [] w = "stream"    -> [last |-> [s \in StreamName |-> Unset], breaks |-> [s \in StreamName |-> 0]]
    [] w = "beta"      -> [last |-> [s \in {"ref", "alt"} |-> Unset], rets |-> [s \in {"ref", "alt"} |-> << >>]]
    [] w = "histogram" -> [counts |-> <<0, 0, 0, 0>>, n |-> 0, max |-> 0]

MonInit == watch \in Monitor /\ seen = << >> /\ memory = Fresh(watch) /\ raised = {}

Tell(w, e, m, answer) ==
  /\ Len(seen) < MaxSeen[w]
  /\ seen' = Append(seen, e) /\ memory' = m /\ raised' = answer /\ UNCHANGED watch

TellRunaway ==
  /\ watch = "runaway"
  /\ \E e \in RunawayEvent : LET m == OnRunaway(memory, e) IN Tell("runaway", e, m, RunawayRaises(m, e))
TellBreaker ==
  /\ watch = "breaker"
  /\ \E e \in BreakerEvent : LET m == OnBreaker(memory, e) IN Tell("breaker", e, m, BreakerRaises(memory, m))
TellDrift ==
  /\ watch = "drift"
  /\ \E e \in DriftEvent : LET m == OnDrift(memory, e) IN Tell("drift", e, m, DriftRaises(memory, m))
TellStream ==
  /\ watch = "stream"
  /\ \E e \in StreamEvent : Tell("stream", e, OnStream(memory, e), {})
TellBeta ==
  /\ watch = "beta"
  /\ \E e \in BetaEvent : Tell("beta", e, OnBeta(memory, e), {})
TellHistogram ==
  /\ watch = "histogram"
  /\ \E e \in HistogramEvent : Tell("histogram", e, OnHistogram(memory, e), {})

MonNext ==
  \/ TellRunaway \/ TellBreaker \/ TellDrift \/ TellStream \/ TellBeta \/ TellHistogram

(* Each monitor answers from its memory what the whole history calls for.  *)
MonitorsExact ==
  seen # << >> =>
    CASE watch = "runaway" -> RunawayExact [] watch = "breaker" -> BreakerExact
      [] watch = "drift"   -> DriftExact   [] watch = "stream"  -> StreamExact
      [] watch = "beta"    -> BetaExact    [] watch = "histogram" -> HistogramExact
=============================================================================
