--------------------------- MODULE PrivateStream ---------------------------
(***************************************************************************)
(* The private stream of the testnet trader: the loop of CategoryConnection*)
(* that takes a listen key and connects, the keepalive task beside it, the *)
(* resync that closes the socket when the key is gone, and the two stops   *)
(* of a shutdown (PaperRecorder.main stops the connection, TestnetRecorder *)
(* .main later the rest).  One event loop; the calls to the exchange run   *)
(* in threads.                                                             *)
(***************************************************************************)
EXTENDS Naturals

CONSTANT MaxKeys   \* bound: listen keys handed out
ASSUME StreamAssumption == MaxKeys \in Nat \ {0}

VARIABLES
  loop,     \* run: "key", "connect", "open", "wait" or "done"
  lkey,     \* UserDataConnection.key, 0 if none
  live,     \* the key the exchange honours, 0 if none
  sock,     \* the socket is open (while loop is "open")
  wire,     \* a listenKeyExpired frame is on its way
  resync,   \* a _resync task has not run yet
  ka,       \* the keepalive task: "sleep", "call", "resync" or "done"
  stopping, \* "no", "conn" (CategoryConnection.stop), "all" (UserData.stop)
  keys,     \* keys handed out
  late,     \* frames handed on since the stop
  lost      \* history: a notice was lost with its socket, or never sent
streamVars == <<loop, lkey, live, sock, wire, resync, ka, stopping, keys, late, lost>>

StreamInit ==
  /\ loop = "key" /\ lkey = 0 /\ live = 0 /\ ka = "sleep"
  /\ stopping = "no" /\ keys = 0 /\ late = 0
  /\ sock = FALSE /\ wire = FALSE /\ resync = FALSE /\ lost = FALSE

(* _url: every connection takes a key; the exchange answers with the key   *)
(* it honours, or with a new one.                                          *)
TakeKey ==
  /\ loop = "key"
  /\ \/ /\ keys < MaxKeys \/ live # 0
        /\ live' = (IF live = 0 THEN keys + 1 ELSE live)
        /\ keys' = (IF live = 0 THEN keys + 1 ELSE keys)
        /\ lkey' = live' /\ loop' = "connect"
     \/ loop' = "wait" /\ UNCHANGED <<lkey, live, keys>>
  /\ UNCHANGED <<sock, wire, resync, ka, stopping, late, lost>>

Connect ==
  /\ loop = "connect"
  /\ \/ loop' = "open" /\ sock' = TRUE
     \/ loop' = "wait" /\ UNCHANGED sock
  /\ UNCHANGED <<lkey, live, wire, resync, ka, stopping, keys, late, lost>>

(* The exchange lets the key go; the notice may never reach us.            *)
Expire ==
  /\ loop = "open" /\ live # 0 /\ keys < MaxKeys /\ live' = 0
  /\ \/ wire' = sock /\ lost' = (lost \/ ~sock)
     \/ UNCHANGED wire /\ lost' = TRUE
  /\ UNCHANGED <<loop, lkey, sock, resync, ka, stopping, keys, late>>
Drop ==
  /\ sock /\ sock' = FALSE /\ wire' = FALSE /\ lost' = (lost \/ wire)
  /\ UNCHANGED <<loop, lkey, live, resync, ka, stopping, keys, late>>


(* Mutant: the notice is only handed on. *)
FrameNoResync ==
  /\ loop = "open" /\ sock
  /\ \/ wire /\ wire' = FALSE
     \/ live # 0 /\ UNCHANGED wire
  /\ late' = (IF stopping = "no" THEN late ELSE late + 1)
  /\ sock' = (stopping = "no")
  /\ UNCHANGED <<loop, lkey, live, resync, ka, stopping, keys, lost>>

(* A frame; the one that says the key is gone schedules a resync.  The     *)
(* stop is looked at only here, behind a frame.                            *)
Frame ==
  /\ loop = "open" /\ sock
  /\ \/ wire /\ wire' = FALSE /\ resync' = TRUE
     \/ live # 0 /\ UNCHANGED <<wire, resync>>
  /\ late' = (IF stopping = "no" THEN late ELSE late + 1)
  /\ sock' = (stopping = "no")
  /\ UNCHANGED <<loop, lkey, live, ka, stopping, keys, lost>>

(* force_reconnect closes the socket of this moment, if there is one.      *)
CloseSocket == sock' = FALSE /\ wire' = FALSE /\ lost' = (lost \/ (sock /\ wire))
Resync ==
  /\ resync /\ resync' = FALSE /\ CloseSocket
  /\ UNCHANGED <<loop, lkey, live, ka, stopping, keys, late>>

Ended ==
  /\ loop = "open" /\ ~sock /\ loop' = (IF stopping = "no" THEN "wait" ELSE "done")
  /\ UNCHANGED <<lkey, live, sock, wire, resync, ka, stopping, keys, late, lost>>

(* Mutant: the wait does not look at the stop. *)
BackoffNoStop ==
  /\ loop = "wait" /\ loop' = "key"
  /\ UNCHANGED <<lkey, live, sock, wire, resync, ka, stopping, keys, late, lost>>

Backoff ==
  /\ loop = "wait" /\ loop' = (IF stopping = "no" THEN "key" ELSE "done")
  /\ UNCHANGED <<lkey, live, sock, wire, resync, ka, stopping, keys, late, lost>>

(* The keepalive task.  An answer is never looked at: only a call that     *)
(* raises leads to a resync.                                               *)
Keepalive ==
  /\ \/ ka = "sleep" /\ stopping # "all" /\ lkey # 0 /\ ka' = "call"
     \/ ka = "call" /\ ka' \in {"sleep", "resync"}
     \/ ka = "sleep" /\ stopping = "all" /\ ka' = "done"
  /\ UNCHANGED <<loop, lkey, live, sock, wire, resync, stopping, keys, late, lost>>
KeepaliveResync ==
  /\ ka = "resync" /\ ka' = "sleep" /\ CloseSocket
  /\ UNCHANGED <<loop, lkey, live, resync, stopping, keys, late>>

(* A stop closes the socket of this moment: between a key and a connection *)
(* there is none.                                                          *)
Stop ==
  /\ \/ stopping = "no" /\ stopping' = "conn"
     \/ stopping = "conn" /\ stopping' = "all"
  /\ CloseSocket
  /\ UNCHANGED <<loop, lkey, live, resync, ka, keys, late>>

LoopStep == TakeKey \/ Connect \/ Ended \/ Backoff
StreamNext == LoopStep \/ Resync \/ Keepalive \/ KeepaliveResync \/ Frame \/ Expire \/ Drop \/ Stop

-----------------------------------------------------------------------------
StreamTypeOK ==
  /\ loop \in {"key", "connect", "open", "wait", "done"} /\ lkey \in 0..MaxKeys
  /\ live \in 0..MaxKeys /\ keys \in 0..MaxKeys /\ sock \in BOOLEAN /\ wire \in BOOLEAN
  /\ resync \in BOOLEAN /\ lost \in BOOLEAN /\ ka \in {"sleep", "call", "resync", "done"}
  /\ stopping \in {"no", "conn", "all"} /\ late \in Nat /\ (sock => loop = "open")

(* A stream whose key is gone gets a new one, however the notice, a drop,  *)
(* a failed keepalive and the reconnections follow each other, unless no   *)
(* notice reached it: a keepalive the exchange refuses counts as done.     *)
StreamRecovers == [](loop = "open" /\ live = 0 => <>(live # 0 \/ lost \/ stopping # "no"))

(* A shutdown ends the stream without any frame of the exchange, unless    *)
(* both its stops come between a key and its connection: then the loop     *)
(* waits for a frame that a silent stream never sends.  Behind the stop    *)
(* one frame at most is still handed on.                                   *)
StopEnds ==
  []( /\ late <= 1
      /\ stopping = "conn" /\ loop \notin {"key", "connect"} => <>(loop = "done" /\ ka = "done") )
=============================================================================
