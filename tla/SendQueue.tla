------------------------------ MODULE SendQueue ------------------------------
(***************************************************************************)
(* The path of a command from the trader to the exchange: the bounded FIFO *)
(* of execution/queue.py (ExecutionQueue), its single worker, the adapter  *)
(* the worker calls in a thread (TestnetAdapter.submit), the answer on the *)
(* event loop (TestnetTrader.on_send_result), the arming supervisor that   *)
(* replaces the adapter's client from another thread (rearm), and the      *)
(* shutdown of testnet/main.py: the recorder's log is closed first, the    *)
(* queue drained after it.                                                 *)
(*                                                                         *)
(* A command is its class and a number that tells commands apart.          *)
(***************************************************************************)
EXTENDS Naturals, Sequences, FiniteSets

CONSTANTS
  Maxsize, Reserve,  \* execution.queue_max, execution.reserve_slots
  MaxPuts,           \* bound: commands offered in a run
  Rearms             \* bound: times the supervisor rearms

ASSUME SQAssumption ==
  /\ Maxsize \in Nat /\ Reserve \in Nat /\ Reserve < Maxsize
  /\ MaxPuts \in Nat /\ Rearms \in Nat

Class == {"entry", "protect", "exit"}
Cmd   == [class : Class, n : 1..MaxPuts]
None  == [class |-> "none", n |-> 0]

(* What the worker's thread comes back with: an event of the adapter, a    *)
(* TestnetError, TestnetDisarmed, or any other exception.                  *)
Outcome == {"ack", "rejected", "unknown", "failed", "skipped", "other"}

VARIABLES
  q,         \* asyncio.Queue
  offered,   \* commands the trader has offered so far
  accepted,  \* those put() accepted, in order
  dropped,   \* order_dropped events: those put() refused
  sending,   \* the command the worker holds, None between two
  stage,     \* where the submit thread is
  worker,    \* "idle" before start(), "running", "dead", "cancelled"
  answered,  \* commands whose result became an event, in order
  client, armed,   \* the adapter: client is not None, armed
  rearming,  \* what the supervisor's thread has left to assign
  rearms,
  phase      \* of the process: run, closed (the log), draining, down

queueVars == <<q, offered, accepted, dropped>>
adapterVars == <<client, armed, rearming, rearms>>
vars == <<q, offered, accepted, dropped, sending, stage, worker, answered,
          client, armed, rearming, rearms, phase>>

Stage == {"none", "submit", "call"} \cup Outcome

Init ==
  /\ q = << >> /\ offered = 0 /\ accepted = << >> /\ dropped = {}
  /\ sending = None /\ stage = "none" /\ worker = "idle"
  /\ answered = << >>
  /\ client \in BOOLEAN /\ armed = client
  /\ rearming = "none" /\ rearms = 0
  /\ phase = "run"

-----------------------------------------------------------------------------
(* Acceptance. *)

Free == Maxsize - Len(q)

(* Mutant: the reserve is one slot short. *)
RefusedOffByOne(class) == Free = 0 \/ (class = "entry" /\ Free < Reserve)

(* put: an entry keeps clear of the reserved slots. *)
Refused(class) == Free = 0 \/ (class = "entry" /\ Free <= Reserve)

(* TestnetTrader._send.  The private stream may produce commands until the *)
(* queue is closed, after the log is.                                      *)
Put(class) ==
  /\ phase \in {"run", "closed"} /\ offered < MaxPuts
  /\ offered' = offered + 1
  /\ LET c == [class |-> class, n |-> offered + 1]
     IN IF Refused(class)
        THEN dropped' = dropped \cup {c} /\ UNCHANGED <<q, accepted>>
        ELSE q' = Append(q, c) /\ accepted' = Append(accepted, c) /\ UNCHANGED dropped
  /\ UNCHANGED <<sending, stage, worker, answered, adapterVars, phase>>

-----------------------------------------------------------------------------
(* The worker. *)

(* start, when the status task begins. *)
Start ==
  /\ worker = "idle" /\ phase = "run"
  /\ worker' = "running"
  /\ UNCHANGED <<queueVars, sending, stage, answered, adapterVars, phase>>

(* Mutant: the newest command is sent first. *)
TakeNewest ==
  /\ worker = "running" /\ sending = None /\ q # << >>
  /\ sending' = q[Len(q)] /\ q' = SubSeq(q, 1, Len(q) - 1) /\ stage' = "submit"
  /\ UNCHANGED <<offered, accepted, dropped, worker, answered, adapterVars, phase>>

(* run: the head of the queue goes to a thread. *)
Take ==
  /\ worker = "running" /\ sending = None /\ q # << >>
  /\ sending' = Head(q) /\ q' = Tail(q) /\ stage' = "submit"
  /\ UNCHANGED <<offered, accepted, dropped, worker, answered, adapterVars, phase>>

(* submit reads armed, then self.client, while rearm may assign them.  A   *)
(* client that is None when it is called is not a TestnetError.            *)
Submit ==
  /\ \/ stage = "submit" /\ stage' = IF armed THEN "call" ELSE "skipped"
     \/ /\ stage = "call"
        /\ IF client THEN stage' \in {"ack", "rejected", "unknown", "failed"}
                     ELSE stage' = "other"
  /\ UNCHANGED <<queueVars, sending, worker, answered, adapterVars, phase>>

(* Mutant: a failed send is tried again until it succeeds. *)
AnswerRetries ==
  /\ stage \in Outcome
  /\ IF stage \in {"failed", "other"}
     THEN stage' = "submit" /\ UNCHANGED <<sending, answered>>
     ELSE answered' = Append(answered, sending) /\ sending' = None /\ stage' = "none"
  /\ UNCHANGED <<worker, queueVars, adapterVars, phase>>

(* on_send_result and the rest of the loop's body: _send_error raises what *)
(* it does not know, task_done runs in the finally, and the exception ends *)
(* the worker.                                                             *)
Answer ==
  /\ stage \in Outcome
  /\ sending' = None /\ stage' = "none"
  /\ IF stage = "other"
     THEN worker' = "dead" /\ UNCHANGED answered
     ELSE /\ answered' = Append(answered, sending)
          /\ UNCHANGED worker
  /\ UNCHANGED <<queueVars, adapterVars, phase>>

-----------------------------------------------------------------------------
(* rearm(client, armed), from the supervisor's thread: the client first.   *)

RearmBegin ==
  /\ rearming = "none" /\ rearms < Rearms /\ phase = "run"
  /\ rearms' = rearms + 1
  /\ client' \in BOOLEAN /\ rearming' = IF client' THEN "arm" ELSE "disarm"
  /\ UNCHANGED <<armed, queueVars, sending, stage, worker, answered, phase>>

RearmEnd ==
  /\ rearming # "none"
  /\ armed' = (rearming = "arm") /\ rearming' = "none"
  /\ UNCHANGED <<client, rearms, queueVars, sending, stage, worker, answered, phase>>

-----------------------------------------------------------------------------
(* Shutdown. *)

(* Recorder.main: the writer has written everything emitted and is closed. *)
CloseLog ==
  /\ phase = "run" /\ phase' = "closed"
  /\ UNCHANGED <<queueVars, sending, stage, worker, answered, adapterVars>>

(* TestnetRecorder.main, then aclose: join() first, the worker after it.   *)
Drain ==
  /\ phase = "closed" /\ phase' = "draining"
  /\ UNCHANGED <<queueVars, sending, stage, worker, answered, adapterVars>>

Unfinished == Len(q) + (IF sending = None THEN 0 ELSE 1)

(* Mutant: the worker is cancelled without waiting for join(). *)
DownNoJoin ==
  /\ phase = "draining"
  /\ phase' = "down" /\ worker' = (IF worker = "running" THEN "cancelled" ELSE worker)
  /\ UNCHANGED <<queueVars, sending, stage, answered, adapterVars>>

Down ==
  /\ phase = "draining" /\ Unfinished = 0
  /\ phase' = "down" /\ worker' = (IF worker = "running" THEN "cancelled" ELSE worker)
  /\ UNCHANGED <<queueVars, sending, stage, answered, adapterVars>>

Work == Take \/ Submit \/ Answer
Rearm == RearmBegin \/ RearmEnd
Shutdown == Drain \/ Down

Next == (\E class \in Class : Put(class)) \/ Start \/ Work \/ Rearm \/ CloseLog \/ Shutdown

Spec == Init /\ [][Next]_vars

(* The status task starts, the worker and its thread run (every call has a  *)
(* timeout), and a shutdown that began goes on.                            *)
FairSpec == Spec /\ WF_vars(Start) /\ WF_vars(Work) /\ WF_vars(Shutdown)

-----------------------------------------------------------------------------
TypeOK ==
  /\ q \in Seq(Cmd) /\ accepted \in Seq(Cmd) /\ answered \in Seq(Cmd)
  /\ offered \in 0..MaxPuts /\ dropped \subseteq Cmd
  /\ sending \in Cmd \cup {None} /\ stage \in Stage
  /\ worker \in {"idle", "running", "dead", "cancelled"}
  /\ client \in BOOLEAN /\ armed \in BOOLEAN /\ rearming \in {"none", "arm", "disarm"}
  /\ rearms \in 0..Rearms
  /\ phase \in {"run", "closed", "draining", "down"}

InFlight == IF sending = None THEN << >> ELSE <<sending>>

(* While the worker lives, what was accepted is exactly what was answered, *)
(* what is being sent and what waits, in the order it was accepted: no     *)
(* command is lost, repeated or overtaken, through rearming and shutdown.  *)
Fifo == worker # "dead" => accepted = answered \o InFlight \o q

Orderly == TypeOK /\ Fifo

(* queue.py:10-12: the reserved slots are never taken by entries, whatever *)
(* mix of commands waits in the queue.                                     *)
ReserveKept == Cardinality({i \in 1..Len(q) : q[i].class = "entry"}) <= Maxsize - Reserve

(* ... and a protective or exit command is refused only by a full queue.   *)
OnlyEntriesGiveWay ==
  [][\A c \in dropped' \ dropped : c.class # "entry" => Len(q) = Maxsize]_vars

(* Together, the rule of the reserve: it is kept, and at no other's cost.  *)
ReserveRule == [](Len(q) <= Maxsize /\ ReserveKept) /\ OnlyEntriesGiveWay

(* The process goes down only with every accepted command answered.        *)
NothingLeftBehind == phase = "down" /\ worker = "cancelled" => answered = accepted

Accepted(n) == \E i \in 1..Len(accepted) : accepted[i].n = n
Answered(n) == \E i \in 1..Len(answered) : answered[i].n = n

(* queue.py:85 "a send error does not stop the run, it is written as an    *)
(* event": every accepted command is answered by an event.  A rearm in     *)
(* mid-call kills the worker, and nothing is answered any more.            *)
EveryCommandAnswered ==
  \A n \in 1..MaxPuts : (Accepted(n) /\ worker # "idle") ~> Answered(n)

(* Short of that one exception it is so: once the worker was started an    *)
(* answer comes, whatever the exchange says and through a shutdown, or the *)
(* worker was killed.                                                      *)
AnsweredWhileAlive ==
  \A n \in 1..MaxPuts :
    (Accepted(n) /\ worker # "idle") ~> (Answered(n) \/ worker = "dead")
=============================================================================
