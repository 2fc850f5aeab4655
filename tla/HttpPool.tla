------------------------------ MODULE HttpPool ------------------------------
(***************************************************************************)
(* The pool of one persistent connection (HTTPPool) under the signed calls *)
(* of TestnetClient, which sorts their errors.  A lock orders the calls,   *)
(* so a request is one step: one attempt, or two for a GET whose reused    *)
(* connection was found closed.                                            *)
(*                                                                         *)
(* What http.client does with a connection is external: after a request    *)
(* whose answer was never read, it refuses the next one (CannotSendRequest)*)
(* as long as nobody closes it.                                            *)
(***************************************************************************)
EXTENDS Naturals

VARIABLES
  hconn,   \* HTTPPool._conn: "none", "good", "dead" (closed by the server),
           \* "stuck" (an answer is missing)
  idle,    \* _last_use is more than max_idle_s ago
  req      \* the last request: its method, outcome, the attempts on the
           \* wire, how often the venue executed it
poolVars == <<hconn, idle, req>>

Methods == {"GET", "POST", "DELETE"}
PoolInit == /\ hconn = "none" /\ idle = FALSE
            /\ req = [method |-> "GET", out |-> "ok", sent |-> 0, ran |-> 0]

(* One attempt: what comes back and whether the venue executed it.         *)
Attempt(c) ==
  CASE c = "dead"  -> {[out |-> "reset", ran |-> 0]}
    [] c = "stuck" -> {[out |-> "state", ran |-> 0]}
    [] OTHER -> {o \in [out : {"ok", "garbled", "4xx", "503", "5xx", "timeout", "reset", "oserror"},
                        ran : 0..1] :
                   /\ o.out \in {"ok", "garbled"} => o.ran = 1
                   /\ o.out = "4xx" => o.ran = 0}
                \cup (IF c = "none" THEN {[out |-> "refused", ran |-> 0]} ELSE {})
Answered == {"ok", "garbled", "4xx", "503", "5xx"}

(* _get: a connection that was idle too long is closed first. *)
Usable == IF idle THEN "none" ELSE hconn

(* Connections after one attempt: with an answer the server may close it,  *)
(* after an error request closes it; only the state error passes through.  *)
AfterFirst(out) ==
  IF out \in Answered THEN {"good", "none"} ELSE IF out = "state" THEN {"stuck"} ELSE {"none"}
(* The retry runs inside the except clause: nothing closes behind it.      *)
AfterRetry(out) ==
  CASE out \in Answered -> {"good", "none"}
    [] out = "refused"  -> {"none"}
    [] out = "timeout"  -> {"stuck"}
    [] OTHER            -> {"good", "stuck"}

Done(m, sent, o, ran, after) ==
  /\ req' = [method |-> m, out |-> o.out, sent |-> sent, ran |-> ran]
  /\ hconn' \in after
  /\ idle' = (idle /\ o.out = "state")

(* Mutant: any method is tried again. *)
RequestRetriesAll(m) ==
  \E first \in Attempt(Usable) :
    IF first.out = "reset" /\ Usable # "none"
    THEN \E second \in Attempt("none") :
           Done(m, 2, second, first.ran + second.ran, AfterRetry(second.out))
    ELSE Done(m, 1, first, first.ran, AfterFirst(first.out))

Request(m) ==
  \E first \in Attempt(Usable) :
    IF first.out = "reset" /\ m = "GET" /\ Usable # "none"
    THEN \E second \in Attempt("none") :
           Done(m, 2, second, first.ran + second.ran, AfterRetry(second.out))
    ELSE Done(m, 1, first, first.ran, AfterFirst(first.out))

ServerCloses == hconn = "good" /\ hconn' = "dead" /\ UNCHANGED <<idle, req>>
TimePasses == hconn # "none" /\ ~idle /\ idle' = TRUE /\ UNCHANGED <<hconn, req>>

(* TestnetClient: the caller is told "ok", "failed" or that it cannot know.*)
Report(r) ==
  CASE r.out = "ok" -> "ok"
    [] r.out \in {"4xx", "5xx", "garbled"} -> "failed"
    [] r.out = "503" -> "unknown"
    [] OTHER -> IF r.method = "GET" THEN "failed" ELSE "unknown"

PoolNext == (\E m \in Methods : Request(m)) \/ ServerCloses \/ TimePasses

-----------------------------------------------------------------------------
(* An order is on the wire once, whatever happens to the connection: only  *)
(* a GET is tried again, and once.                                         *)
NeverSentTwice == req.sent <= (IF req.method = "GET" THEN 2 ELSE 1)

(* What the caller is told has failed was not executed, except where the   *)
(* answer is a 200 that is not JSON or a 5xx other than 503: there signed  *)
(* says "failed" of an order that may have been executed.                  *)
FailedIsNotDone ==
  (req.method # "GET" /\ Report(req) = "failed" /\ req.out \notin {"garbled", "5xx"}) => req.ran = 0

(* So an order is executed at most once, and one reported as failed never. *)
OrdersOnce == NeverSentTwice /\ FailedIsNotDone /\ (req.method # "GET" => req.ran <= 1)

(* A connection http.client refuses is given up in the end, which is what  *)
(* the limit on idle connections is for: a retry that timed out leaves it  *)
(* behind (tests/test_http_pool.py has a timeout close the connection).    *)
PoolHeals == hconn = "stuck" ~> hconn # "stuck"
=============================================================================
