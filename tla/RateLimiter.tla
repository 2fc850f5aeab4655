----------------------------- MODULE RateLimiter -----------------------------
(***************************************************************************)
(* The order budget of the testnet client: the two order windows of        *)
(* RateLimiter (core/rate_limit.py), the calls of TestnetClient that use   *)
(* them (gateway/testnet.py: place_order, place_algo, signed), and the     *)
(* venue's own counters, which the answers report in their headers.        *)
(*                                                                         *)
(* Two threads place orders without a lock: the worker of the execution    *)
(* queue, whose now_ms is the time its command was QUEUED, and, when       *)
(* protect_repair is "apply", the reconciliation of the status task, whose *)
(* now_ms is the time of the call (execution/exchange_state.py).           *)
(*                                                                         *)
(* Time is relative to the present: an event carries its age, a command    *)
(* how long ago its now_ms was taken, backoff_until_ms the ticks left.     *)
(* The weight window is kept by the code and asked by nobody.              *)
(***************************************************************************)
EXTENDS Integers, Sequences, FiniteSets

CONSTANTS
  Span10, Span1m,     \* the windows, in ticks
  Limit10, Limit1m,   \* orders each allows
  OrderReserve,       \* reserve_orders: slots an entry leaves to protection
  RetryAfter,         \* ticks a 429 or 418 may ask for, or backoff_ms
  MaxWait,            \* bound: ticks from queueing a command to its answer
  MaxQueue,           \* bound: commands waiting for the worker
  MaxRepairs          \* bound: repairs of a run

ASSUME RLAssumption ==
  /\ Span10 \in Nat /\ Span1m \in Nat /\ Span10 <= Span1m
  /\ Limit10 \in Nat /\ Limit1m \in Nat /\ OrderReserve \in Nat
  /\ OrderReserve <= Limit10 /\ OrderReserve <= Limit1m
  /\ RetryAfter \subseteq Nat /\ MaxWait \in Nat /\ MaxQueue \in Nat /\ MaxRepairs \in Nat

Thread == {"worker", "repair"}
Window == {"o10", "o1m"}
Limit  == [w \in Window |-> IF w = "o10" THEN Limit10 ELSE Limit1m]
Span   == [w \in Window |-> IF w = "o10" THEN Span10 ELSE Span1m]
AgeCap == [w \in Window |-> Span[w] + MaxWait + 1]   \* older than any span asked for
Never  == -1                                         \* override is None: no header yet

Event  == [age : Nat, entry : BOOLEAN]
OrderCmd    == [wait : 0..MaxWait, entry : BOOLEAN]
NoCmd  == [wait |-> 0, entry |-> FALSE]
Status == {"none", "200", "429", "418"}      \* "none": the call timed out
Counts == [w \in Window |-> 0..Limit[w]]

VARIABLES
  events,    \* _Window.events, oldest first
  override,  \* _Window.override
  backoff,   \* backoff_until_ms, in ticks from now
  banned,
  queue,     \* commands waiting for the worker
  cmd,       \* thread -> the command it is placing
  step,      \* thread -> "idle", "check", "add", "call", "reply"
  reply,     \* thread -> what the call brings back
  count,     \* venue: orders of the current interval of each window
  repairing, \* protect_repair = "apply"
  repairs

limiter == <<events, override, backoff, banned>>
threads == <<queue, cmd, step, reply>>
repairVars == <<repairing, repairs>>
rateVars == <<limiter, threads, count, repairVars>>

NoReply == [status |-> "none", count |-> [w \in Window |-> 0]]

RateInit ==
  /\ events = [w \in Window |-> << >>]
  /\ override = [w \in Window |-> Never]
  /\ backoff = -MaxWait /\ banned = FALSE
  /\ queue = << >>
  /\ cmd = [t \in Thread |-> NoCmd] /\ step = [t \in Thread |-> "idle"]
  /\ reply = [t \in Thread |-> NoReply]
  /\ \E n \in 0..Limit10 : n <= Limit1m /\ count = [w \in Window |-> n]
  /\ repairing \in BOOLEAN /\ repairs = 0

-----------------------------------------------------------------------------
(* The limiter, asked with a now_ms that was taken `wait` ticks ago. *)

(* _trim drops from the left what is older than the span, and stops at the *)
(* first event that is not.                                                *)
Expired(w, e, wait) == e.age - wait > Span[w]

Trim(w, wait) ==
  LET keep == {i \in 1..Len(events[w]) : ~Expired(w, events[w][i], wait)}
      first == CHOOSE i \in keep : \A j \in keep : i <= j
  IN IF keep = {} THEN << >> ELSE SubSeq(events[w], first, Len(events[w]))

Greater(a, b) == IF a > b THEN a ELSE b

(* remaining: the estimate or the last header, whichever is more. *)
Remaining(w, wait) == Greater(0, Limit[w] - Greater(Len(Trim(w, wait)), override[w]))

Open(c) == ~banned /\ backoff + c.wait <= 0

(* Mutant: an entry may use the reserve. *)
RoomNoReserve(w, c) == Remaining(w, c.wait) > 0

Room(w, c) == Remaining(w, c.wait) > IF c.entry THEN OrderReserve ELSE 0

(* allow_order: the minute is looked at only when the ten seconds have room. *)
Asked(c) == IF ~Open(c) THEN {} ELSE IF Room("o10", c) THEN Window ELSE {"o10"}
Allowed(c) == Open(c) /\ \A w \in Window : Room(w, c)

-----------------------------------------------------------------------------
(* A thread's call. *)

(* The trader queues a command with now_ms = now; an entry is one of the   *)
(* trader's own orders, a repair is always protective.                     *)
Enqueue(entry) ==
  /\ Len(queue) < MaxQueue
  /\ queue' = Append(queue, [wait |-> 0, entry |-> entry])
  /\ UNCHANGED <<limiter, cmd, step, reply, count, repairVars>>

TakeNext ==
  /\ step["worker"] = "idle" /\ queue # << >>
  /\ cmd' = [cmd EXCEPT !["worker"] = Head(queue)] /\ queue' = Tail(queue)
  /\ step' = [step EXCEPT !["worker"] = "check"]
  /\ UNCHANGED <<limiter, reply, count, repairVars>>

(* _apply_repairs: place_algo at once, with the time of the call. *)
Repair ==
  /\ repairing /\ step["repair"] = "idle" /\ repairs < MaxRepairs
  /\ repairs' = repairs + 1
  /\ cmd' = [cmd EXCEPT !["repair"] = NoCmd]
  /\ step' = [step EXCEPT !["repair"] = "check"]
  /\ UNCHANGED <<limiter, queue, reply, count, repairing>>

(* place_order, place_algo: without budget the call raises TestnetError.   *)
Check(t) ==
  /\ step[t] = "check"
  /\ events' = [w \in Window |-> IF w \in Asked(cmd[t]) THEN Trim(w, cmd[t].wait) ELSE events[w]]
  /\ IF Allowed(cmd[t])
     THEN step' = [step EXCEPT ![t] = "add"] /\ UNCHANGED cmd
     ELSE step' = [step EXCEPT ![t] = "idle"] /\ cmd' = [cmd EXCEPT ![t] = NoCmd]
  /\ UNCHANGED <<override, backoff, banned, queue, reply, count, repairVars>>

(* Mutant: the order is added before the call and once more after it. *)
AddTwice(t) ==
  /\ step[t] = "add"
  /\ LET e == [age |-> cmd[t].wait, entry |-> FALSE]
     IN events' = [w \in Window |-> Append(Append(Trim(w, cmd[t].wait), e), e)]
  /\ override' = [w \in Window |-> IF override[w] = Never THEN Never ELSE override[w] + 2]
  /\ step' = [step EXCEPT ![t] = "call"]
  /\ UNCHANGED <<backoff, banned, queue, cmd, reply, count, repairVars>>

(* Mutant: the order is not added to what the last header said. *)
AddEventsOnly(t) ==
  /\ step[t] = "add"
  /\ events' = [w \in Window |-> Append(Trim(w, cmd[t].wait),
                                        [age |-> cmd[t].wait, entry |-> cmd[t].entry])]
  /\ step' = [step EXCEPT ![t] = "call"]
  /\ UNCHANGED <<override, backoff, banned, queue, cmd, reply, count, repairVars>>

(* on_order: both windows, after the check and without a lock. *)
Add(t) ==
  /\ step[t] = "add"
  /\ events' = [w \in Window |-> Append(Trim(w, cmd[t].wait),
                                        [age |-> cmd[t].wait, entry |-> cmd[t].entry])]
  /\ override' = [w \in Window |-> IF override[w] = Never THEN Never ELSE override[w] + 1]
  /\ step' = [step EXCEPT ![t] = "call"]
  /\ UNCHANGED <<backoff, banned, queue, cmd, reply, count, repairVars>>

(* The venue counts an order it has room for and refuses one it has not;   *)
(* the request or its answer may be lost.                                  *)
HasRoom == \A w \in Window : count[w] < Limit[w]

Serve(t) ==
  /\ step[t] = "call"
  /\ step' = [step EXCEPT ![t] = "reply"]
  /\ \/ /\ HasRoom
        /\ count' = [w \in Window |-> count[w] + 1]
        /\ \E r \in {NoReply, [status |-> "200", count |-> count']} : reply' = [reply EXCEPT ![t] = r]
     \/ /\ ~HasRoom
        /\ \E s \in {"429", "418"} : reply' = [reply EXCEPT ![t] = [status |-> s, count |-> count]]
        /\ UNCHANGED count
     \/ /\ reply' = [reply EXCEPT ![t] = NoReply]
        /\ UNCHANGED count
  /\ UNCHANGED <<limiter, queue, cmd, repairVars>>

(* on_response: a 429 sets the pause, a 418 only lengthens it; both count  *)
(* it from now_ms, not from the answer.                                    *)
Paused(s, wait) ==
  CASE s = "429" -> {Greater(-MaxWait, r - wait) : r \in RetryAfter}
    [] s = "418" -> {Greater(backoff, r - wait) : r \in RetryAfter}
    [] OTHER -> {backoff}

(* signed: sync_headers overwrites what was known, then on_response; a     *)
(* call that timed out raises before either.                               *)
Receive(t) ==
  /\ step[t] = "reply"
  /\ override' = IF reply[t].status = "none" THEN override ELSE reply[t].count
  /\ backoff' \in Paused(reply[t].status, cmd[t].wait)
  /\ banned' = (banned \/ reply[t].status = "418")
  /\ step' = [step EXCEPT ![t] = "idle"]
  /\ cmd' = [cmd EXCEPT ![t] = NoCmd] /\ reply' = [reply EXCEPT ![t] = NoReply]
  /\ UNCHANGED <<events, queue, count, repairVars>>

(* The answer of any other request of the status task: no order headers.   *)
Polled(s) ==
  /\ backoff' \in Paused(s, 0)
  /\ banned' = (banned \/ s = "418")
  /\ UNCHANGED <<events, override, threads, count, repairVars>>

-----------------------------------------------------------------------------
(* The venue starts a new interval of a window. *)
NewInterval(w) ==
  /\ count' = [count EXCEPT ![w] = 0]
  /\ UNCHANGED <<limiter, threads, repairVars>>

Older(w, a) == IF a < AgeCap[w] THEN a + 1 ELSE a
Waits == {queue[i].wait : i \in 1..Len(queue)} \cup {cmd[t].wait : t \in Thread}

Tick ==
  /\ \A n \in Waits : n < MaxWait
  /\ events' = [w \in Window |-> [i \in 1..Len(events[w]) |->
                                    [events[w][i] EXCEPT !.age = Older(w, @)]]]
  /\ backoff' = Greater(-MaxWait, backoff - 1)
  /\ queue' = [i \in 1..Len(queue) |-> [queue[i] EXCEPT !.wait = @ + 1]]
  /\ cmd' = [t \in Thread |-> IF step[t] = "idle" THEN cmd[t]
                                                   ELSE [cmd[t] EXCEPT !.wait = @ + 1]]
  /\ UNCHANGED <<override, banned, step, reply, count, repairVars>>

Place(t) == Check(t) \/ Add(t) \/ Serve(t) \/ Receive(t)

RateNext ==
  \/ \E entry \in BOOLEAN : Enqueue(entry)
  \/ TakeNext \/ Repair \/ \E t \in Thread : Place(t)
  \/ \E s \in {"429", "418"} : Polled(s)
  \/ \E w \in Window : NewInterval(w)
  \/ Tick

RateSpec == RateInit /\ [][RateNext]_rateVars

-----------------------------------------------------------------------------
RateTypeOK ==
  /\ \A w \in Window : events[w] \in Seq(Event)
  /\ \A w \in Window : override[w] \in {Never} \cup 0..(Limit[w] + 1)
  /\ backoff >= -MaxWait /\ (\E r \in RetryAfter \cup {0} : backoff <= r)
  /\ banned \in BOOLEAN
  /\ queue \in Seq(OrderCmd)
  /\ cmd \in [Thread -> OrderCmd]
  /\ step \in [Thread -> {"idle", "check", "add", "call", "reply"}]
  /\ \A t \in Thread : reply[t].status \in Status /\ reply[t].count \in [Window -> Nat]
  /\ \A w \in Window : count[w] \in 0..Limit[w]
  /\ repairing \in BOOLEAN /\ repairs \in 0..MaxRepairs

(* The check and the order are two steps: two threads may both see the     *)
(* last slot, and no more than that: a window holds at most one order over *)
(* its limit, and none while one thread places orders.                     *)
WindowHolds ==
  \A w \in Window : Len(events[w]) <= Limit[w] + (IF repairing THEN 1 ELSE 0)

(* tests/test_rate_limit.py:53: entries leave the reserve alone in both   *)
(* windows, whatever a second thread does between check and order.         *)
EntryEvents(w) == {i \in 1..Len(events[w]) : events[w][i].entry}
ReserveLeft == \A w \in Window : Cardinality(EntryEvents(w)) <= Limit[w] - OrderReserve

(* One thread, and the venue has reported its counters once: an order the  *)
(* limiter let through has room at the venue, over lost answers, new       *)
(* intervals and commands that waited: it is never the cause of a 429.     *)
LetThroughHasRoom ==
  \A w \in Window :
    step["worker"] = "call" /\ ~repairing /\ override[w] # Never => count[w] < Limit[w]

RoomKept == RateTypeOK /\ LetThroughHasRoom
=============================================================================
