------------------------------ MODULE EntryGate ------------------------------
(***************************************************************************)
(* The entry chain of the engine (core/engine.py: _decide, _exec,          *)
(* _from_user_data, _entry_from_meta, _sweep_pending, _reindex), the lease *)
(* table (core/lease.py) and the checks of core/risk.py that read them (K6 *)
(* and K7), against a venue that answers an entry order in one or several  *)
(* fills, late, or not at all.                                             *)
(*                                                                         *)
(* An entry is its clientOrderId.  All deadlines of an entry (pending,     *)
(* lease) are taken in the step that sends it, so one age per entry counts *)
(* the engine ticks since.  The rest of a position's life is in            *)
(* PaperPosition; here it is open until it closes.                         *)
(***************************************************************************)
EXTENDS Naturals, FiniteSets

CONSTANTS
  Symbols, Cids,
  None,            \* no entry
  MaxPositions,    \* K6: max_positions
  Ttl,             \* pending_entry_ttl_ms, in ticks
  Patience,        \* longest the venue works on an entry, in ticks
  MaxFills,        \* most fills one entry is executed in
  Notices          \* notices of the end of an entry that reach the engine

(* order_done or order_rejected of an order that never filled, order_done  *)
(* of what a partly filled one has left, order_unknown.                    *)
NoticeKind == {"done", "rest", "unknown"}

ASSUME EGAssumption ==
  /\ None \notin Cids /\ None \notin Symbols
  /\ MaxPositions \in Nat /\ Ttl \in Nat /\ Patience \in Nat /\ MaxFills \in Nat \ {0}
  /\ Notices \subseteq NoticeKind

VARIABLES
  symOf,      \* entry -> its symbol, None before it is sent
  left,       \* venue: fills an entry still has to come (0: the venue is done with it)
  age,        \* entry -> ticks since it was sent
  bought,     \* venue: fills executed
  pending,    \* pending_entries: symbol -> the entry whose deadline it holds, or None
  lease,      \* leases: symbol -> [cid: entry that acquired it, pos: bound position]
  meta,       \* entry_meta: entries whose fill the engine can still understand
  pos,        \* positions: entry -> "none", "open", "closed"
  held,       \* positions: entry -> fills counted in its quantity
  lost        \* history: live entries whose reservation a notice dropped

vars == <<symOf, left, age, bought, pending, lease, meta, pos, held, lost>>
venue == <<symOf, left, bought>>

NoLease == [cid |-> None, pos |-> None]
Entry   == Cids \cup {None}
AgeCap  == IF Ttl > Patience THEN Ttl ELSE Patience  \* where an age stops counting

Init ==
  /\ symOf = [c \in Cids |-> None] /\ left = [c \in Cids |-> 0]
  /\ age = [c \in Cids |-> 0] /\ bought = [c \in Cids |-> 0]
  /\ pending = [s \in Symbols |-> None]
  /\ lease = [s \in Symbols |-> NoLease]
  /\ meta = {}
  /\ pos = [c \in Cids |-> "none"] /\ held = [c \in Cids |-> 0]
  /\ lost = {}

On(s)      == {c \in Cids : symOf[c] = s}
Open       == {c \in Cids : pos[c] = "open"}
Pending    == {s \in Symbols : pending[s] # None}
Working(c) == left[c] > 0

(* The two checks of risk.assess that keep a symbol to one owner. *)
K6(s) == Cardinality(Open) + Cardinality(Pending) < MaxPositions
K7(s) == On(s) \cap Open = {} /\ pending[s] = None /\ lease[s] = NoLease

-----------------------------------------------------------------------------
(* Mutant: K7 does not ask the lease table. *)
DecideNoLease(s, c) ==
  /\ symOf[c] = None
  /\ K6(s) /\ On(s) \cap Open = {} /\ pending[s] = None
  /\ \E n \in 1..MaxFills : left' = [left EXCEPT ![c] = n]
  /\ symOf' = [symOf EXCEPT ![c] = s]
  /\ pending' = [pending EXCEPT ![s] = c]
  /\ lease' = [lease EXCEPT ![s] = [cid |-> c, pos |-> None]]
  /\ meta' = meta \cup {c}
  /\ UNCHANGED <<age, bought, pos, held, lost>>

(* Mutant: K6 counts the open positions only. *)
DecideOpenOnly(s, c) ==
  /\ symOf[c] = None
  /\ Cardinality(Open) < MaxPositions /\ K7(s)
  /\ \E n \in 1..MaxFills : left' = [left EXCEPT ![c] = n]
  /\ symOf' = [symOf EXCEPT ![c] = s]
  /\ pending' = [pending EXCEPT ![s] = c]
  /\ lease' = [lease EXCEPT ![s] = [cid |-> c, pos |-> None]]
  /\ meta' = meta \cup {c}
  /\ UNCHANGED <<age, bought, pos, held, lost>>

(* _decide: an approved intent reserves the symbol and sends the order. *)
Decide(s, c) ==
  /\ symOf[c] = None
  /\ K6(s) /\ K7(s)
  /\ \E n \in 1..MaxFills : left' = [left EXCEPT ![c] = n]
  /\ symOf' = [symOf EXCEPT ![c] = s]
  /\ pending' = [pending EXCEPT ![s] = c]
  /\ lease' = [lease EXCEPT ![s] = [cid |-> c, pos |-> None]]
  /\ meta' = meta \cup {c}
  /\ UNCHANGED <<age, bought, pos, held, lost>>

(* A first fill finds its meta and becomes a position: the reservation of  *)
(* its symbol is dropped and the symbol's lease, whoever's it is, bound.   *)
FirstFill(c) ==
  /\ Working(c) /\ c \in meta
  /\ left' = [left EXCEPT ![c] = @ - 1]
  /\ bought' = [bought EXCEPT ![c] = @ + 1]
  /\ meta' = meta \ {c}
  /\ pos' = [pos EXCEPT ![c] = "open"]
  /\ held' = [held EXCEPT ![c] = 1]
  /\ pending' = [pending EXCEPT ![symOf[c]] = None]
  /\ lease' = [lease EXCEPT ![symOf[c]] = IF @ = NoLease THEN @ ELSE [@ EXCEPT !.pos = c]]
  /\ UNCHANGED <<symOf, age, lost>>

(* A later fill finds no meta: building its position raises KeyError, the  *)
(* recorder reports trader_error and the engine's state stays as it was.   *)
LaterFill(c) ==
  /\ Working(c) /\ c \notin meta
  /\ left' = [left EXCEPT ![c] = @ - 1]
  /\ bought' = [bought EXCEPT ![c] = @ + 1]
  /\ UNCHANGED <<symOf, age, pending, lease, meta, pos, held, lost>>

(* The venue gives up on the rest and the engine hears nothing of it:      *)
(* order_expired of the simulator, a rejected send of the live trader.     *)
GiveUp(c) ==
  /\ Working(c)
  /\ left' = [left EXCEPT ![c] = 0]
  /\ UNCHANGED <<symOf, age, bought, pending, lease, meta, pos, held, lost>>

(* A terminal notice of an entry drops the reservation of its symbol,      *)
(* whoever holds it; the lease and the meta are left alone.  With          *)
(* order_unknown the order may still be working.                           *)
Notice(kind, c) ==
  /\ kind \in Notices /\ Working(c) /\ (bought[c] > 0 <=> kind = "rest")
  /\ left' = [left EXCEPT ![c] = IF kind = "unknown" THEN @ ELSE 0]
  /\ pending' = [pending EXCEPT ![symOf[c]] = None]
  /\ lost' = lost \cup {d \in Cids : pending[symOf[c]] = d /\ left'[d] > 0}
  /\ UNCHANGED <<symOf, age, bought, lease, meta, pos, held>>

(* The position's last exit fill: closed, its protection cancelled in the  *)
(* same step (PositionManager!CancelActive).                               *)
Close(c) ==
  /\ pos[c] = "open"
  /\ pos' = [pos EXCEPT ![c] = "closed"]
  /\ UNCHANGED <<symOf, left, age, bought, pending, lease, meta, held, lost>>

Older(a) == IF a < AgeCap THEN a + 1 ELSE a

(* Mutant: a lease bound to a position is kept after it closed. *)
KeptForever(s, a) ==
  IF lease[s] = NoLease \/ (lease[s].pos = None /\ a[lease[s].cid] >= Ttl)
  THEN NoLease ELSE lease[s]

(* What a tick leaves of a lease: the sweep takes an unbound one past its  *)
(* deadline, _reindex one bound to a closed position.                      *)
Kept(s, a) ==
  IF \/ lease[s] = NoLease
     \/ lease[s].pos = None /\ a[lease[s].cid] >= Ttl
     \/ lease[s].pos # None /\ pos[lease[s].pos] = "closed"
  THEN NoLease ELSE lease[s]

KeptPending(s, a) == IF pending[s] # None /\ a[pending[s]] >= Ttl THEN None ELSE pending[s]

(* The periodic tick: pending sweep, lease sweep, _reindex. *)
Tick ==
  /\ \A c \in Cids : Working(c) => age[c] < Patience
  /\ age' = [c \in Cids |-> IF symOf[c] = None THEN 0 ELSE Older(age[c])]
  /\ pending' = [s \in Symbols |-> KeptPending(s, age')]
  /\ lease' = [s \in Symbols |-> Kept(s, age')]
  /\ UNCHANGED <<symOf, left, bought, meta, pos, held, lost>>

Answer(c) == FirstFill(c) \/ LaterFill(c) \/ GiveUp(c)

Next ==
  \/ \E s \in Symbols, c \in Cids : Decide(s, c)
  \/ \E c \in Cids : Answer(c) \/ Close(c) \/ \E k \in Notices : Notice(k, c)
  \/ Tick

Spec == Init /\ [][Next]_vars

(* The tick task never stops, the venue answers, a position is closed by   *)
(* its stop, its take profit or a rule.                                    *)
FairSpec == Spec /\ WF_vars(Tick)
                 /\ \A c \in Cids : WF_vars(Answer(c)) /\ WF_vars(Close(c))

-----------------------------------------------------------------------------
TypeOK ==
  /\ symOf \in [Cids -> Symbols \cup {None}]
  /\ left \in [Cids -> 0..MaxFills]
  /\ age \in [Cids -> 0..AgeCap]
  /\ bought \in [Cids -> Nat]
  /\ pending \in [Symbols -> Entry]
  /\ lease \in [Symbols -> [cid : Entry, pos : Entry]]
  /\ meta \subseteq Cids
  /\ pos \in [Cids -> {"none", "open", "closed"}]
  /\ held \in [Cids -> 0..1]
  /\ lost \subseteq Cids

(* An entry holds its symbol from the order until its position is closed   *)
(* or the venue is done with an order that never filled.                   *)
Holds(c) == (Working(c) /\ pos[c] = "none") \/ pos[c] = "open"

(* K7 over time: no two entries hold one symbol, whatever the order of     *)
(* fills, notices, closes and sweeps.                                      *)
OneOwner == \A c, d \in Cids : Holds(c) /\ Holds(d) /\ symOf[c] = symOf[d] => c = d

(* K6 over time: the positions that are open or may still open stay within *)
(* max_positions, but for the entries whose reservation a notice dropped:  *)
(* "unknown" writes off an order that may fill, "rest" may come after the  *)
(* symbol was given to a new entry.                                        *)
WithinMaxPositions == Cardinality({c \in Cids : Holds(c)} \ lost) <= MaxPositions

(* Both rules of the gate hold over time. *)
SlotsKept == TypeOK /\ OneOwner /\ WithinMaxPositions

(* The reservation leak of Gate 2.0: whatever happens to an entry, its     *)
(* symbol is free again some day.                                          *)
SymbolFreed == \A s \in Symbols : (pending[s] # None \/ lease[s] # NoLease)
                                     ~> (pending[s] = None /\ lease[s] = NoLease)

(* faz4-cikis-kurallari.md:93: in a partial fill the quantity of the       *)
(* position comes from the user data: it is what the venue executed.       *)
QuantityTracked == \A c \in Open : held[c] = bought[c]

(* The gate implements the one-owner lock. *)
Lock == INSTANCE SymbolLock WITH holder <- [s \in Symbols |-> {c \in On(s) : Holds(c)}]
LockSpec == Lock!Spec
=============================================================================
