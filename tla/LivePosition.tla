---------------------------- MODULE LivePosition ----------------------------
(***************************************************************************)
(* The life of the positions of one symbol in the live trader             *)
(* (testnet/main.py): the engine's event routing (core/engine.py: _decide, *)
(* _exec, _from_user_data, _register_orders, _tick_positions, _reindex)    *)
(* around the handlers of PositionManager, the order registry, the lease   *)
(* and the reservation, the send queue with its one worker, the exchange,  *)
(* the private stream that brings its fills, and the reconciliation that   *)
(* closes the entry lock.                                                  *)
(*                                                                         *)
(* An entry is a number; its orders are pairs of that number and what      *)
(* follows it in the clientOrderId.  What a send returned is recorded and  *)
(* never reaches the engine (emit with notify=False), so all that matters  *)
(* of a request is whether the exchange executed it.  A round of the       *)
(* reconciliation is one step here; Supervision has its steps.  Where the  *)
(* configuration lets it act (orphan_cancel, protect_repair), the round    *)
(* cancels orders no position of the core owns and places orders for a     *)
(* position without any, by requests of its own beside the queue.          *)
(***************************************************************************)
EXTENDS PositionManager, Sequences, FiniteSets

CONSTANTS
  EntryPrice, EntryStop, EntryQty,  \* what an entry buys
  PendTtl,      \* pending_entry_ttl_ms, in ticks
  RecPeriod,    \* ticks from one reconciliation to the next, at most
  MaxWait,      \* ticks an entry waits in the queue, at most
  MaxDelay,     \* ticks what happened to it is on its way, at most
  QMax, Reserve,              \* queue_max, reserve_slots
  UserModes,    \* [userdata].mode: "shadow", "active"
  ReconcileModes,  \* [reconcile]: orphan_cancel and protect_repair, "apply" or not
  MaxEntries, MaxFaults   \* bounds: entries; requests that fail, frames that
                          \* are lost and restarts, taken together

ASSUME LiveAssumption ==
  /\ EntryPrice \in Int /\ EntryStop \in Int /\ EntryQty \in Nat \ {0}
  /\ PendTtl \in Nat /\ RecPeriod \in Nat /\ MaxWait \in Nat /\ MaxDelay \in Nat
  /\ MaxWait + RecPeriod < PendTtl /\ MaxWait + MaxDelay < PendTtl
  /\ QMax \in Nat /\ Reserve \in Nat /\ Reserve < QMax
  /\ UserModes \subseteq {"shadow", "active"} /\ UserModes # {}
  /\ ReconcileModes \subseteq [cancels : BOOLEAN, repairs : BOOLEAN] /\ ReconcileModes # {}
  /\ MaxEntries \in Nat \ {0} /\ MaxFaults \in Nat

VARIABLES
  userMode, applies, childKeeps,  \* configuration: [userdata], [reconcile];
                         \* the market order of a triggered algo carries
                         \* the clientAlgoId
  pos,         \* engine_state.positions: entry -> record, ENTRY_SENT: none
  res,         \* pending_entries and the lease of the symbol
  regs,        \* OrderRegistry.refs: the orders it knows
  reconciled,  \* engine_state.reconciled
  since,       \* ticks since the last reconciliation
  queue,       \* ExecutionQueue.q
  feed,        \* user data frames on their way
  vqty,        \* exchange: what is left of each entry
  valgos,      \* exchange: live algo orders the core's commands placed
  vrepairs,    \* exchange: live algo orders a reconciliation placed
  n, faults,   \* bounded counters
  refused      \* history: orders whose cancel never reached the exchange

liveVars == <<userMode, applies, childKeeps, pos, res, regs, reconciled, since, queue,
              feed, vqty, valgos, vrepairs, n, faults, refused>>

Entries == 1..MaxEntries
EntryCid == <<"E", 0>>               \* entry_cid: no separator, no tail
ChildCid == <<"child", 0>>           \* an id the exchange made up
RepairCid(role) == <<role, 0>>       \* {pos_id}-{role}-r1: of no version

NoRes == [pending |-> FALSE, lease |-> "none", age |-> Off]

LiveInit ==
  /\ userMode \in UserModes /\ applies \in ReconcileModes /\ childKeeps \in BOOLEAN
  /\ pos = [e \in Entries |-> NewPosition] /\ res = NoRes /\ regs = {}
  /\ reconciled = TRUE /\ since = 0 /\ queue = <<>> /\ feed = <<>>
  /\ vqty = [e \in Entries |-> 0] /\ valgos = {} /\ vrepairs = {}
  /\ n = 0 /\ faults = 0 /\ refused = {}

config == <<userMode, applies, childKeeps>>
venue  == <<vqty, valgos, vrepairs>>
Algos  == valgos \cup vrepairs        \* open_algos of the snapshot
counts == <<n, faults>>

Known(e) == pos[e].state # "ENTRY_SENT"
OpenPositions == {e \in Entries : Known(e) /\ pos[e].state # "CLOSED"}

-----------------------------------------------------------------------------
(* The commands of one step, in the order the handlers return them, go     *)
(* into the queue one after another; an entry leaves the reserve free.     *)

Cmd(e, kind, cid, q) == [entry |-> e, kind |-> kind, cid |-> cid, qty |-> q]

Commands(e, r) ==
  LET place(role) == {c \in r.ctl : c.kind = "place"  /\ c.id[1] = role}
      drop(role)  == {c \in r.ctl : c.kind = "cancel" /\ c.id[1] = role}
      one(S, kind) == IF S = {} THEN <<>>
                      ELSE <<Cmd(e, kind, (CHOOSE c \in S : TRUE).id, 0)>>
      exit == IF r.ord = {} THEN <<>>
              ELSE LET o == CHOOSE x \in r.ord : TRUE IN <<Cmd(e, "exit", o.id, o.left)>>
  IN exit
     \o one(place("SL"), "place") \o one(place("TP"), "place")
     \o one(drop("SL"), "cancel") \o one(drop("TP"), "cancel")

Elements(s) == {s[i] : i \in 1..Len(s)}

(* put, command by command: what finds no room is dropped and counted.     *)
(* The commands of one step are one entry or none.                         *)
Room(cs) == IF cs # <<>> /\ cs[1].kind = "entry" THEN QMax - Reserve ELSE QMax
PutAll(q, cs) ==
  IF Len(q) + Len(cs) <= Room(cs) THEN q \o cs
  ELSE q \o SubSeq(cs, 1, IF Len(q) > Room(cs) THEN 0 ELSE Room(cs) - Len(q))

(* TestnetTrader._step: every command is handed to the queue.              *)
Sends(cs) ==
  /\ queue' = PutAll(queue, cs)
  /\ refused' = refused \cup {<<c.entry, c.cid>> : c \in
                   {x \in Elements(cs) : x.kind = "cancel" /\ x \notin Elements(queue')}}

(* _register_orders, at the end of every step that is not a tick.          *)
Registers(cs) ==
  regs' = regs \cup {<<c.entry, c.cid>> : c \in {x \in Elements(cs) : x.kind # "cancel"}}

-----------------------------------------------------------------------------
(* Mutant: K2 is not asked. *)
EntryAllowedNoK2 == OpenPositions = {} /\ ~res.pending /\ res.lease = "none"

(* What of the entry chain looks at the symbol: pozisyon_acik, K2, K7.     *)
EntryAllowed ==
  /\ reconciled                                   \* K2
  /\ OpenPositions = {} /\ ~res.pending           \* K7
  /\ res.lease = "none"

(* _decide: a market entry; the symbol is reserved and leased for the TTL. *)
Decide ==
  /\ EntryAllowed /\ n < MaxEntries
  /\ n' = n + 1
  /\ res' = [pending |-> TRUE, lease |-> "entry", age |-> 0]
  /\ LET cs == <<Cmd(n + 1, "entry", EntryCid, EntryQty)>> IN Sends(cs) /\ Registers(cs)
  /\ UNCHANGED <<config, pos, reconciled, since, feed, venue, faults>>

-----------------------------------------------------------------------------
(* The exchange.  A frame: what happened to which order.                   *)
Frame(kind, e, cid, q) == [kind |-> kind, entry |-> e, cid |-> cid, qty |-> q]

(* mode "shadow" records a frame and does not hand it to the engine.       *)
Tells(frames) == feed' = IF userMode = "active" THEN feed \o frames ELSE feed

Holding == {e \in Entries : vqty[e] > 0}
Flat    == [e \in Entries |-> 0]

(* A market entry: filled at once or in two parts, or expired.             *)
ExecEntry(c) ==
  /\ \/ /\ vqty' = [vqty EXCEPT ![c.entry] = EntryQty]
        /\ \E q \in 1..EntryQty :
             Tells(<<Frame("fill", c.entry, c.cid, q)>> \o
                   IF q = EntryQty THEN <<>>
                   ELSE <<Frame("fill", c.entry, c.cid, EntryQty - q)>>)
     \/ /\ UNCHANGED vqty /\ Tells(<<Frame("done", c.entry, c.cid, 0)>>)
  /\ UNCHANGED valgos

(* Its algo_ack frame is left out: no algo_* frame does anything (Resolves)*)
(* and the one of a trigger that closes nothing stands for all of them.    *)
ExecPlace(c) ==
  /\ valgos' = valgos \cup {<<c.entry, c.cid>>} /\ UNCHANGED <<vqty, feed>>

ExecCancel(c) ==
  /\ valgos' = valgos \ {<<c.entry, c.cid>>} /\ UNCHANGED <<vqty, feed>>

(* A reduceOnly order takes its quantity off whatever the account holds.   *)
ExecExit(c) ==
  /\ IF Holding = {} THEN UNCHANGED <<vqty, feed>>
     ELSE \E e \in Holding :
            LET q == IF c.qty < vqty[e] THEN c.qty ELSE vqty[e]
            IN /\ vqty' = [vqty EXCEPT ![e] = @ - q]
               /\ Tells(<<Frame("fill", c.entry, c.cid, q)>>)
  /\ UNCHANGED valgos

(* ExecutionQueue.run: the worker sends the oldest command and waits for   *)
(* the answer.                                                             *)
Execute(c) ==
  \/ c.kind = "entry"  /\ ExecEntry(c)
  \/ c.kind = "place"  /\ ExecPlace(c)
  \/ c.kind = "cancel" /\ ExecCancel(c)
  \/ c.kind = "exit"   /\ ExecExit(c)

(* Mutant: whatever is in the queue may go first. *)
SendAny ==
  /\ \E i \in 1..Len(queue) :
        /\ Execute(queue[i])
        /\ queue' = [j \in 1..Len(queue) - 1 |-> queue[IF j < i THEN j ELSE j + 1]]
  /\ UNCHANGED <<config, pos, res, regs, reconciled, since, vrepairs, counts, refused>>

Send ==
  /\ queue # <<>> /\ queue' = Tail(queue) /\ Execute(Head(queue))
  /\ UNCHANGED <<config, pos, res, regs, reconciled, since, vrepairs, counts, refused>>

(* The request fails, is refused, or finds the trader disarmed: an event   *)
(* for the record, and nobody sends it again.                              *)
SendFails ==
  /\ queue # <<>> /\ faults < MaxFaults /\ faults' = faults + 1
  /\ queue' = Tail(queue)
  /\ refused' = IF Head(queue).kind = "cancel"
                THEN refused \cup {<<Head(queue).entry, Head(queue).cid>>} ELSE refused
  /\ UNCHANGED <<config, pos, res, regs, reconciled, since, feed, venue, n>>

(* closePosition: the price reaches an algo, which closes what there is.   *)
(* (The frames about a repair are left out: the registry has no such order,*)
(* and they would do nothing.)                                             *)
Trigger(a) ==
  /\ a \in Algos /\ valgos' = valgos \ {a} /\ vrepairs' = vrepairs \ {a} /\ vqty' = Flat
  /\ LET held == CHOOSE e \in Holding : TRUE
     IN Tells(IF a \in vrepairs THEN <<>>
              ELSE IF Holding = {} THEN <<Frame("trig", a[1], a[2], 0)>>
              ELSE <<Frame("fill", a[1], IF childKeeps THEN a[2] ELSE ChildCid, vqty[held])>>)
  /\ UNCHANGED <<config, pos, res, regs, reconciled, since, queue, counts, refused>>

(* A break of the private stream: what was sent meanwhile is not repeated. *)
LoseFrame ==
  /\ feed # <<>> /\ faults < MaxFaults /\ faults' = faults + 1 /\ feed' = Tail(feed)
  /\ UNCHANGED <<config, pos, res, regs, reconciled, since, queue, venue, n, refused>>

-----------------------------------------------------------------------------
(* The engine hears of an order: _exec and _from_user_data.                *)

(* Only an order of the registry has a role; an algo_* frame names no      *)
(* position and is not looked up.                                          *)
Resolves(f) == f.kind \in {"fill", "done"} /\ <<f.entry, f.cid>> \in regs
Role(f)     == IF f.cid = EntryCid THEN "entry" ELSE "exit"

(* One step of the engine that replaces the record of one position.        *)
Steps(e, handled) == \E r \in {handled} :
  /\ pos' = [pos EXCEPT ![e] = r.pos]
  /\ \E cs \in {Commands(e, r)} : Sends(cs) /\ Registers(cs)

(* entry_fill: _entry_from_meta takes the meta away, so a second part of   *)
(* the fill has no side: the step ends in KeyError and changes nothing.    *)
EntryFill(f) ==
  /\ Role(f) = "entry" /\ ~Known(f.entry)
  /\ Steps(f.entry, OnEntryFill(pos[f.entry], EntryPrice, f.qty, EntryStop))
  /\ res' = [res EXCEPT !.pending = FALSE,
                        !.lease = IF @ = "none" THEN @ ELSE "bound"]

(* exit_fill: whichever of the position's orders was filled.               *)
ExitFill(f) ==
  /\ Role(f) = "exit" /\ Known(f.entry)
  /\ Steps(f.entry, OnExitFill(pos[f.entry], f.qty, f.cid))
  /\ UNCHANGED res

(* order_done: of an entry it drops the reservation, and for every order   *)
(* _exec returns before on_exit_terminal.                                  *)
OrderDone(f) ==
  /\ res' = IF Role(f) = "entry" THEN [res EXCEPT !.pending = FALSE] ELSE res
  /\ UNCHANGED <<pos, queue, refused, regs>>

(* on_user_event: the oldest frame.                                        *)
Receive ==
  /\ feed # <<>> /\ feed' = Tail(feed)
  /\ LET f == Head(feed)
         fits == Resolves(f) /\ (f.kind = "fill" => (Role(f) = "entry") # Known(f.entry))
     IN \/ Resolves(f) /\ f.kind = "fill" /\ (EntryFill(f) \/ ExitFill(f))
        \/ Resolves(f) /\ f.kind = "done" /\ OrderDone(f)
        \/ ~fits /\ UNCHANGED <<pos, res, regs, queue, refused>>
  /\ UNCHANGED <<config, reconciled, since, venue, counts>>

-----------------------------------------------------------------------------
(* The tick, once a second.                                                *)

(* Mutant: a swept reservation leaves its lease behind. *)
SweptKeepsLease(r) == IF r.age # Off /\ r.age >= PendTtl
                      THEN [r EXCEPT !.pending = FALSE, !.age = Off] ELSE r

(* _sweep_pending and LeaseTable.sweep: both deadlines were set in one     *)
(* step; a lease bound to a position has none.                             *)
Swept(r) == IF r.age # Off /\ r.age >= PendTtl
            THEN [pending |-> FALSE, lease |-> IF r.lease = "entry" THEN "none" ELSE r.lease,
                  age |-> Off]
            ELSE r

(* _reindex: a closed position without algos gives its lease up.           *)
Released(r) ==
  IF r.lease = "bound" /\ \A e \in Entries : pos[e].state = "CLOSED" \/ ~Known(e)
  THEN IF \A e \in Entries : pos[e].active = {} THEN [r EXCEPT !.lease = "none"] ELSE r
  ELSE r

Later(r) == [r EXCEPT !.age = IF @ = Off THEN @ ELSE @ + 1]

(* on_tick of the open position (there is one at most).  What it sends is  *)
(* not registered, because step returns before _register_orders.  The      *)
(* state of the market is one in which a managed position is closed at     *)
(* once (R2).                                                              *)
TickPositions ==
  LET mode == IF reconciled THEN "FULL" ELSE "HALTED"
  IN IF OpenPositions = {} THEN UNCHANGED <<pos, queue, refused>>
     ELSE \E e \in OpenPositions : \E r \in {OnTick(Aged(pos[e]), EntryPrice, TRUE, mode)} :
            pos' = [pos EXCEPT ![e] = r.pos] /\ \E cs \in {Commands(e, r)} : Sends(cs)

EntryQueued == \E c \in Elements(queue) : c.kind = "entry"

(* A connection that brings nothing for ping_interval and ping_timeout is  *)
(* dropped with all that was on it, so no frame is older than that.        *)
EntryUnheard == \E f \in Elements(feed) : f.cid = EntryCid /\ ~Known(f.entry)

Tick ==
  /\ since < RecPeriod /\ since' = since + 1
  /\ EntryQueued => res.age < MaxWait
  /\ EntryUnheard => res.age < MaxWait + MaxDelay
  /\ res' = Released(Swept(Later(res)))
  /\ TickPositions
  /\ UNCHANGED <<config, regs, reconciled, feed, venue, counts>>

-----------------------------------------------------------------------------
(* Mutant: only the positions of the core are looked at. *)
AgreesCoreOnly(core, held, algos) ==
  /\ core # {} => held # {}
  /\ \A e \in core, h \in held : pos[e].qty = vqty[h]
  /\ core # {} => algos # {}

(* reconcile and _evaluate, for one symbol.                                *)
CoreAlgos(core) == UNION {{e} \X pos[e].active : e \in core}
Agrees(core, held, algos) ==
  /\ (core = {}) = (held = {})                     \* missing, unknown
  /\ \A e \in core, h \in held : pos[e].qty = vqty[h]
  /\ IF core = {} THEN algos = {}                  \* orphans
     ELSE CoreAlgos(core) \subseteq algos /\ algos # {}   \* missing, unprotected

(* Requests of a round, each by itself: all of them are executed, or some  *)
(* fail.  f: the faults before.                                            *)
Executed(all, done, f) ==
  faults' = (IF done = all THEN f ELSE f + 1) /\ faults' <= MaxFaults

(* _apply_orphans: the orders of a symbol that is not held on both sides,  *)
(* but for those of the core's positions.                                  *)
Orphaned(core, held) ==
  IF ~applies.cancels \/ (core # {} /\ held # {}) THEN {} ELSE Algos \ CoreAlgos(core)

(* _apply_repairs: a stop and a target for a position of the core that is  *)
(* held without any.  The core does not hear of them.                      *)
Missing(core, held) ==
  IF ~applies.repairs \/ core = {} \/ held = {} \/ Algos # {} THEN {}
  ELSE core \X {RepairCid("SL"), RepairCid("TP")}

(* ReconcileSupervisor.check: the verdict is that of the snapshot, before  *)
(* anything is applied.                                                    *)
Round(core, f) ==
  /\ reconciled' = Agrees(core, Holding, Algos) /\ since' = 0
  /\ \E gone \in SUBSET Orphaned(core, Holding), placed \in SUBSET Missing(core, Holding) :
        /\ Executed(Orphaned(core, Holding) \cup Missing(core, Holding), gone \cup placed, f)
        /\ valgos' = valgos \ gone /\ vrepairs' = (vrepairs \ gone) \cup placed
  /\ UNCHANGED vqty

Reconcile ==
  /\ since > 0 /\ Round(OpenPositions, faults)
  /\ UNCHANGED <<config, pos, res, regs, queue, feed, n, refused>>

(* The process dies and is started again: the core begins empty, and the   *)
(* first reconciliation runs before the first event.                       *)
Restart ==
  /\ faults < MaxFaults
  /\ pos' = [e \in Entries |-> NewPosition] /\ res' = NoRes /\ regs' = {}
  /\ queue' = <<>> /\ feed' = <<>> /\ Round({}, faults + 1)
  /\ UNCHANGED <<config, n, refused>>

Travels == Send \/ Receive
Clock   == Tick \/ Reconcile
LiveNext ==
  \/ Decide \/ SendFails \/ (\E a \in Algos : Trigger(a)) \/ LoseFrame \/ Restart
  \/ Travels \/ Clock

(* The worker and the stream go on, the clock does not stop and the status *)
(* task reconciles every stats_interval_s.  (Only finitely much can be in  *)
(* the queue and on the stream, so fairness of the two together is enough.)*)
LiveFair == WF_<<queue, feed>>(Travels) /\ WF_since(Clock)
LiveSpec == LiveInit /\ [][LiveNext]_liveVars /\ LiveFair

-----------------------------------------------------------------------------
(* Type invariant. *)
Cids == {EntryCid} \cup ({"SL", "TP"} \X (1..2)) \cup ({"X", "EM"} \X (1..2))
LiveTypeOK ==
  /\ pos \in [Entries -> Position]
  /\ res \in [pending : BOOLEAN, lease : {"none", "entry", "bound"}, age : Off..PendTtl]
  /\ regs \subseteq Entries \X Cids /\ valgos \subseteq Entries \X Cids
  /\ vrepairs \subseteq Entries \X {RepairCid("SL"), RepairCid("TP")}
  /\ Len(queue) <= QMax /\ vqty \in [Entries -> 0..EntryQty] /\ since \in 0..RecPeriod

(* The exchange never holds what two entries bought, although the core may *)
(* not know of the first one (a lost frame, shadow mode, a restart), the   *)
(* reservation expires, and the lock closes only at the next round.  It    *)
(* rests on the TTL being longer than the wait in the queue and the period *)
(* together (LiveAssumption).                                              *)
OneEntryAtATime == Cardinality(Holding) <= 1

(* The lease outlives the protection: while a position is held no order    *)
(* that the core placed for an earlier one is left that could close it,    *)
(* unless the request that cancels it failed or was dropped by a full      *)
(* queue.  The core gives the lease up on its own belief; that the         *)
(* exchange has cancelled by then rests on the queue being one line.  (The *)
(* orders of a repair are not the core's, and it does not cancel them.)    *)
OldStopsGone ==
  \A e \in Holding : \A a \in valgos : a[1] = e \/ a \in refused

(* No command of the core takes the last stop off a position that is still *)
(* held: it cancels when a fill has told it that the position is gone.     *)
(* The one step that does is a reconciliation that may cancel orphans, at  *)
(* a time when the core does not know the position, as after a restart;    *)
(* and that one leaves the lock closed.                                    *)
Stops(e) == {a \in Algos : a[1] = e}
StopsAreKept ==
  \A e \in Holding : Stops(e) # {} /\ Stops(e)' = {} =>
    \/ vqty'[e] = 0
    \/ applies.cancels /\ (Reconcile \/ Restart) /\ OpenPositions' = {} /\ ~reconciled'
StopsOutliveThePosition == [][StopsAreKept]_venue

(* The protection on the exchange is that of the position it holds.        *)
ProtectionStands == [](LiveTypeOK /\ OldStopsGone) /\ StopsOutliveThePosition

(* A position without protection does not stay so unnoticed: the entry     *)
(* frame was lost or is not consumed, the placing failed, the queue was    *)
(* full, the core was restarted, or a reconciliation cancelled its stops.  *)
(* It gets its orders, it is closed, or the lock closes.                   *)
Naked == Holding # {} /\ Algos = {}
NakedIsLocked == []<>(~Naked \/ ~reconciled)

(* No entry keeps the symbol for ever: whatever happened to the order or   *)
(* to the frames about it, the reservation and the lease are free again or *)
(* there is an open position.                                              *)
LeaseComesBack == []<>(res = NoRes \/ OpenPositions # {})

(* "Uretilen her emir kayda girer" (engine.py:133): every order that is    *)
(* handed to the queue is in the registry.  It is not so for the orders of *)
(* a tick: step returns before _register_orders (engine.py:107).           *)
EveryOrderRegistered ==
  \A c \in Elements(queue) : c.kind # "cancel" => <<c.entry, c.cid>> \in regs
=============================================================================
