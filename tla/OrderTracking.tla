---------------------------- MODULE OrderTracking ----------------------------
(***************************************************************************)
(* What the program believes of the orders it sent: the core's registry    *)
(* (core/oms.py, OrderRegistry) and the live trader's tracker              *)
(* (core/order_state.py, OrderBook), both fed from the user data stream by *)
(* TestnetTrader.on_user_event, beside send errors and the periodic sweep. *)
(*                                                                         *)
(* The venue executes an order in trades of one unit; trade n has tradeId  *)
(* n and cumulative quantity n.  Every change is published on the order's  *)
(* channel, which may repeat a message (Repeats) and, if Reorders, deliver *)
(* messages out of order, the two cases the code claims to handle.         *)
(***************************************************************************)
EXTENDS Naturals, Sequences, FiniteSets

CONSTANTS
  Orders, Algos,  \* client ids of orders and of algo orders
  MaxTrades,      \* bound: trades of one order
  Ttl,            \* order_ack_ttl_ms, in ticks
  Repeats,        \* bound: messages delivered twice
  Reorders        \* BOOLEAN: the channel may be read out of order

ASSUME OTAssumption ==
  /\ Orders \cap Algos = {}
  /\ MaxTrades \in Nat /\ Ttl \in Nat /\ Repeats \in Nat /\ Reorders \in BOOLEAN

Cids == Orders \cup Algos

VARIABLES
  ref,      \* registry: client id -> state, "none" before it is registered
  unknown,  \* registry: client ids whose execution is unknown
  age,      \* ticks since the order was registered
  trk,      \* tracker: client id -> status, tradeIds and quantity counted
  venue,    \* venue: client id -> status and number of trades
  chan,     \* user data messages not delivered yet, per order
  repeated  \* messages delivered twice so far

trackVars == <<ref, unknown, age, trk, venue, chan, repeated>>

State       == {"PENDING", "ACKED", "PARTIALLY_FILLED", "FILLED", "DONE", "UNKNOWN"}
Terminal    == {"FILLED", "DONE"}
OrderEnd    == {"FILLED", "CANCELED", "EXPIRED", "EXPIRED_IN_MATCH", "REJECTED"}
OrderStatus == {"NEW", "PARTIALLY_FILLED"} \cup OrderEnd
AlgoEnd     == {"FINISHED", "CANCELED", "REJECTED", "EXPIRED"}
AlgoStatus  == {"NEW", "TRIGGERING", "TRIGGERED"} \cup AlgoEnd

(* A user data message after map_user_event; tid = 0 is no trade. *)
Msg == [status : OrderStatus \cup AlgoStatus, tid : Nat]

TrackInit ==
  /\ ref = [c \in Cids |-> "none"] /\ unknown = {} /\ age = [c \in Cids |-> 0]
  /\ trk = [c \in Cids |-> [status |-> "NEW", trades |-> {}, filled |-> 0]]
  /\ venue = [c \in Cids |-> [status |-> "none", trades |-> 0]]
  /\ chan = [c \in Cids |-> << >>]
  /\ repeated = 0

-----------------------------------------------------------------------------
(* The registry. *)

Rank(s) == CASE s = "PENDING" -> 0
             [] s = "ACKED" -> 1
             [] s \in {"PARTIALLY_FILLED", "UNKNOWN"} -> 2
             [] OTHER -> 3

(* _STATUS_STATE, and by kind where the status says nothing. *)
StateOf(status) ==
  CASE status = "NEW" -> {"ACKED"}
    [] status \in {"PARTIALLY_FILLED", "TRIGGERED"} -> {"PARTIALLY_FILLED"}
    [] status = "FILLED" -> {"FILLED"}
    [] status = "TRIGGERING" -> {}
    [] OTHER -> {"DONE"}

(* Mutant: the ranks are not compared. *)
OnEventAnyRank(c, status) ==
  /\ ref' = [ref EXCEPT ![c] = IF ref[c] = "none" \/ StateOf(status) = {} THEN ref[c]
                               ELSE CHOOSE s \in StateOf(status) : TRUE]
  /\ unknown' = IF ref'[c] \in Terminal THEN unknown \ {c} ELSE unknown

(* Mutant: UNKNOWN ranks with the terminal states. *)
OnEventStuck(c, status) ==
  /\ ref' = [ref EXCEPT ![c] =
       IF \E s \in StateOf(status) :
             ref[c] \notin {"none", "UNKNOWN"} /\ Rank(s) >= Rank(ref[c])
       THEN CHOOSE s \in StateOf(status) : TRUE ELSE ref[c]]
  /\ unknown' = IF ref'[c] \in Terminal THEN unknown \ {c} ELSE unknown

(* on_event: never back to a lower rank; an id that is not registered is   *)
(* not ours and is ignored.                                                *)
OnEvent(c, status) ==
  /\ ref' = [ref EXCEPT ![c] =
       IF \E s \in StateOf(status) : ref[c] # "none" /\ Rank(s) >= Rank(ref[c])
       THEN CHOOSE s \in StateOf(status) : TRUE ELSE ref[c]]
  /\ unknown' = IF ref'[c] \in Terminal THEN unknown \ {c} ELSE unknown

(* register, by engine._register_orders in the step that emits the order. *)
Register(c) ==
  /\ ref[c] = "none"
  /\ ref' = [ref EXCEPT ![c] = "PENDING"]
  /\ UNCHANGED <<unknown, age, trk, venue, chan, repeated>>

(* mark_unknown: a timeout, a 503, -2022.  A terminal order keeps its end. *)
MarkUnknown(c) ==
  /\ ref[c] \notin Terminal \cup {"none"}
  /\ ref' = [ref EXCEPT ![c] = "UNKNOWN"]
  /\ unknown' = unknown \cup {c}
  /\ UNCHANGED <<age, trk, venue, chan, repeated>>

Silent == {c \in Cids : ref[c] = "PENDING" /\ age[c] + 1 >= Ttl}

(* sweep, on every tick: an order without an answer for Ttl is UNKNOWN. *)
Tick ==
  /\ \E c \in Cids : ref[c] = "PENDING"
  /\ age' = [c \in Cids |-> IF ref[c] = "PENDING" THEN age[c] + 1 ELSE age[c]]
  /\ ref' = [c \in Cids |-> IF c \in Silent THEN "UNKNOWN" ELSE ref[c]]
  /\ unknown' = unknown \cup Silent
  /\ UNCHANGED <<trk, venue, chan, repeated>>

-----------------------------------------------------------------------------
(* The tracker. *)

TrkRank(s) == CASE s = "NEW" -> 0 [] s = "PARTIALLY_FILLED" -> 1 [] s \in OrderEnd -> 2

Forward(t, status) ==
  IF TrkRank(status) >= TrkRank(t.status) THEN [t EXCEPT !.status = status] ELSE t

(* Mutant: a repeated tradeId is counted again. *)
AppliedTwice(t, m) ==
  IF m.tid = 0 THEN Forward(t, m.status)
  ELSE IF m.tid < t.filled THEN [t EXCEPT !.trades = @ \cup {m.tid}]
  ELSE Forward([t EXCEPT !.trades = @ \cup {m.tid}, !.filled = @ + 1], m.status)

(* OrderBook.apply: a known tradeId is dropped, a trade whose cumulative   *)
(* quantity is below what is already counted is taken for an old one.      *)
Applied(t, m) ==
  IF m.tid = 0 THEN Forward(t, m.status)
  ELSE IF m.tid \in t.trades THEN t
  ELSE IF m.tid < t.filled THEN [t EXCEPT !.trades = @ \cup {m.tid}]
  ELSE Forward([t EXCEPT !.trades = @ \cup {m.tid}, !.filled = @ + 1], m.status)

-----------------------------------------------------------------------------
(* The venue, and the stream that carries what it publishes. *)

Publish(c, status, tid) ==
  /\ venue' = [venue EXCEPT ![c] = [status |-> status, trades |-> IF tid = 0 THEN @.trades ELSE tid]]
  /\ chan' = [chan EXCEPT ![c] = Append(@, [status |-> status, tid |-> tid])]
  /\ UNCHANGED <<ref, unknown, age, trk, repeated>>

Live(c) == venue[c].status \in {"NEW", "PARTIALLY_FILLED"}

VenueOrder(c) ==
  \/ ref[c] # "none" /\ venue[c].status = "none" /\ \E s \in {"NEW", "REJECTED"} : Publish(c, s, 0)
  \/ Live(c) /\ venue[c].trades + 1 < MaxTrades /\ Publish(c, "PARTIALLY_FILLED", venue[c].trades + 1)
  \/ Live(c) /\ venue[c].trades < MaxTrades /\ Publish(c, "FILLED", venue[c].trades + 1)
  \/ Live(c) /\ \E s \in OrderEnd \ {"FILLED", "REJECTED"} : Publish(c, s, 0)

VenueAlgo(c) ==
  \/ ref[c] # "none" /\ venue[c].status = "none" /\ \E s \in {"NEW", "REJECTED"} : Publish(c, s, 0)
  \/ venue[c].status = "NEW" /\ \E s \in {"TRIGGERING", "CANCELED", "EXPIRED"} : Publish(c, s, 0)
  \/ venue[c].status = "TRIGGERING" /\ Publish(c, "TRIGGERED", 0)
  \/ venue[c].status = "TRIGGERED" /\ Publish(c, "FINISHED", 0)

(* on_user_event: the tracker (orders only), then the core's registry. *)
Deliver(c) ==
  \E i \in 1..Len(chan[c]), again \in BOOLEAN :
    /\ i = 1 \/ Reorders
    /\ again => repeated < Repeats
    /\ LET m == chan[c][i]
       IN /\ trk' = IF c \in Orders THEN [trk EXCEPT ![c] = Applied(@, m)] ELSE trk
          /\ OnEvent(c, m.status)
          /\ chan' = IF again THEN chan
                     ELSE [chan EXCEPT ![c] = SubSeq(@, 1, i - 1) \o SubSeq(@, i + 1, Len(@))]
    /\ repeated' = IF again THEN repeated + 1 ELSE repeated
    /\ UNCHANGED <<age, venue>>

TrackNext ==
  \/ \E c \in Cids : Register(c) \/ MarkUnknown(c) \/ Deliver(c)
  \/ \E c \in Orders : VenueOrder(c)
  \/ \E c \in Algos : VenueAlgo(c)
  \/ Tick

-----------------------------------------------------------------------------
TrackTypeOK ==
  /\ ref \in [Cids -> State \cup {"none"}]
  /\ unknown \subseteq Cids
  /\ age \in [Cids -> Nat]
  /\ \A c \in Cids : trk[c].status \in OrderStatus /\ trk[c].filled \in Nat
  /\ \A c \in Cids : \A i \in 1..Len(chan[c]) : chan[c][i] \in Msg
  /\ repeated \in 0..Repeats

(* oms.py:26: an old event delivered late, a send error or the sweep never *)
(* moves an order out of a terminal state, nor into a lower rank.          *)
NeverBackwards ==
  [][\A c \in Cids : ref[c] # "none" =>
        /\ ref[c] \in Terminal => ref'[c] \in Terminal
        /\ Rank(ref'[c]) >= Rank(ref[c])]_trackVars

(* Every end the venue publishes reaches the registry, whatever send       *)
(* errors, sweeps, repeats and reorderings came before it.                 *)
EndIsSeen ==
  \A c \in Cids : (venue[c].status \in OrderEnd \cup AlgoEnd) ~> (ref[c] \in Terminal)

(* No trade is counted twice: the tracker never believes more than the     *)
(* venue executed.                                                         *)
NeverOvercounts == \A c \in Orders : trk[c].filled <= venue[c].trades

(* The set the reconciliation must resolve is right in both directions: an *)
(* order in UNKNOWN is in it, one that ended is not.                       *)
UnknownIsOpen ==
  \A c \in Cids : /\ ref[c] = "UNKNOWN" => c \in unknown
                  /\ c \in unknown => ref[c] \notin Terminal
=============================================================================
