------------------------------ MODULE Gateway ------------------------------
(***************************************************************************)
(* The four parts of the testnet process that stand between the engine and *)
(* the exchange and share no state but what the exchange answers: the      *)
(* private stream, the pool of connections, the kill switch and what the   *)
(* program believes of its orders.  A behaviour follows one of them.       *)
(***************************************************************************)
EXTENDS PrivateStream, HttpPool, KillSwitch, OrderTracking

VARIABLE part   \* "stream", "pool", "switch" or "orders"
gateVars == <<streamVars, poolVars, killVars, trackVars, part>>

(* The parts a behaviour does not follow stay as they begin. *)
GateInit ==
  /\ part \in {"stream", "pool", "switch", "orders"}
  /\ StreamInit /\ PoolInit /\ KillInit /\ TrackInit
  /\ part # "switch" => testnet /\ file = "none"

GateNext ==
  \/ part = "stream" /\ StreamNext /\ UNCHANGED <<poolVars, killVars, trackVars, part>>
  \/ part = "pool" /\ PoolNext /\ UNCHANGED <<streamVars, killVars, trackVars, part>>
  \/ part = "switch" /\ KillNext /\ UNCHANGED <<streamVars, poolVars, trackVars, part>>
  \/ part = "orders" /\ TrackNext /\ UNCHANGED <<streamVars, poolVars, killVars, part>>

(* The stream: the tasks of the event loop go on, the exchange answers     *)
(* after a while and delivers what it has sent, and a shutdown begun is    *)
(* ended; nothing makes it send anything or keep a socket open.            *)
StreamFair ==
  /\ WF_streamVars(part = "stream" /\ LoopStep)
  /\ SF_streamVars(part = "stream" /\ TakeKey /\ loop' = "connect")
  /\ SF_streamVars(part = "stream" /\ Connect /\ loop' = "open")
  /\ WF_streamVars(part = "stream" /\ Resync)
  /\ WF_streamVars(part = "stream" /\ (Keepalive \/ KeepaliveResync))
  /\ WF_streamVars(part = "stream" /\ Frame /\ wire)
  /\ WF_streamVars(part = "stream" /\ Stop /\ stopping = "conn")

(* The pool: requests keep coming (the status task asks every ten seconds) *)
(* and time passes.                                                        *)
PoolFair ==
  /\ WF_poolVars(part = "pool" /\ \E m \in Methods : Request(m))
  /\ WF_poolVars(part = "pool" /\ TimePasses)

(* The switch: the status task beats as long as the trader runs, and the   *)
(* threads it awaits come back (their requests have timeouts).             *)
KillFair == WF_killVars(part = "switch" /\ Beats)

(* The orders: the stream is read as long as the trader runs.              *)
TrackFair == \A c \in Cids : WF_trackVars(part = "orders" /\ Deliver(c))

GateSpec ==
  GateInit /\ [][GateNext]_gateVars /\ StreamFair /\ PoolFair /\ KillFair /\ TrackFair

-----------------------------------------------------------------------------
(* What the program believes of its orders is never more than the truth,   *)
(* and says so where it does not know.                                     *)
BeliefsTrue == StreamTypeOK /\ KillTypeOK /\ TrackTypeOK /\ NeverOvercounts /\ UnknownIsOpen

(* Both ways to the exchange come back after a failure.                    *)
ConnectionsHeal == StreamRecovers /\ PoolHeals
=============================================================================
