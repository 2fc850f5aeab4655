---------------------------- MODULE Supervision ----------------------------
(***************************************************************************)
(* The status task of the testnet trader: every ten seconds a thread reads *)
(* the key file and may change the account the trader works with           *)
(* (ArmingSupervisor), then a thread compares the core with the exchange   *)
(* (ReconcileSupervisor), and the loop opens or closes the entry lock.     *)
(* The trader, the exchange and the console move between all of these.     *)
(*                                                                         *)
(* One symbol, one position at a time, its two protective orders; one      *)
(* account per key.  What the trader does is reduced to the order of its   *)
(* effects: an entry is sent, filled, known to the core, protected, closed *)
(* by its stop, known to be closed, and the order left over is cancelled.  *)
(***************************************************************************)
EXTENDS Naturals, FiniteSets

CONSTANTS
  Keys,        \* keys an operator may write to the file
  Apply,       \* orphan_cancel and protect_repair are "apply", not "dry_run"
  MaxWrites, MaxTrades, MaxFaults   \* bounds: writes of the file or of the
                                    \* position mode, trades, failures

ASSUME SupAssumption ==
  /\ Apply \subseteq BOOLEAN /\ Apply # {}
  /\ MaxWrites \in Nat /\ MaxTrades \in Nat /\ MaxFaults \in Nat
  /\ {"none", "bad", "never"} \cap Keys = {} /\ Keys # {}

NoFlight == [step |-> "none", id |-> 0, key |-> "none"]
Algos(id) == {<<id, "SL">>, <<id, "TP">>}
Repairs(id) == {<<id, "SLr1">>, <<id, "TPr1">>}
Foreign == <<0, "foreign">>
NoRound == [mode |-> "ONE_WAY", pos |-> FALSE, algos |-> {}]

VARIABLES
  file,       \* the key file: a key, "none", or "bad" (cannot be read)
  applied,    \* ArmingSupervisor: what it has applied of the file
  client,     \* TestnetAdapter.client; armed means that there is one
  pc,         \* where the status task is
  key,        \* arming: the key it probes; reconciliation: recon.client
  snap,       \* the ExchangeSnapshot, field by field
  todo,       \* <<"cancel" or "place", algo>> still to be sent this round
  result,     \* the key of the result of this round
  last,       \* ReconcileSupervisor.last
  reconciled, \* engine_state.reconciled, the entry lock (K2)
  apply,      \* the configured mode
  up, mode,   \* the exchange answers; position mode of the account
  vpos, valgos,   \* per key: a position; the protective orders
  core,       \* id of the position the core holds, 0 if none
  flight,     \* the order or the notice that is on its way
  n, writes, faults,   \* bounded counters
  quiet, fresh,        \* history: nothing changed since the first read of
                       \* this round, of the last round that ended
  verdict              \* history: how the last round ended
supVars == <<file, applied, client, pc, key, snap, todo, result, last,
             reconciled, apply, up, mode, vpos, valgos, core, flight, n, writes,
             faults, quiet, fresh, verdict>>

taskVars  == <<pc, key, snap, todo, result>>
venueVars == <<vpos, valgos>>
countVars == <<n, writes, faults>>

NoResult == [ok |-> FALSE, why |-> "never", mism |-> {}, sent |-> 0]

SupInit ==
  /\ file \in {"none", CHOOSE k \in Keys : TRUE}   \* keys are interchangeable
  /\ applied = "never" 
  /\ client = "none" /\ pc = "idle" /\ key = "none" /\ snap = NoRound /\ todo = {}
  /\ result = NoResult /\ last = NoResult /\ reconciled = FALSE /\ apply \in Apply
  /\ up = TRUE /\ mode = "ONE_WAY"
  /\ vpos = [k \in Keys |-> FALSE] /\ valgos = [k \in Keys |-> {}]
  /\ core = 0 /\ flight = NoFlight /\ n = 0 /\ writes = 0 /\ faults = 0
  /\ quiet = FALSE /\ fresh = FALSE /\ verdict = "none"

history == <<quiet, fresh, verdict>>
Changed == quiet' = FALSE /\ fresh' = FALSE /\ UNCHANGED verdict

-----------------------------------------------------------------------------
(* The operator, the exchange, the trader. *)

(* write_keys replaces the file in one step; or its owner is changed. *)
WriteFile(f) ==
  /\ writes < MaxWrites /\ f # file /\ file' = f /\ writes' = writes + 1
  /\ UNCHANGED <<applied, client, taskVars, last, reconciled, apply, up, mode,
                 venueVars, core, flight, n, faults, history>>

SwitchMode ==
  /\ writes < MaxWrites /\ writes' = writes + 1 /\ Changed
  /\ mode' = IF mode = "HEDGE" THEN "ONE_WAY" ELSE "HEDGE"
  /\ UNCHANGED <<file, applied, client, taskVars, last, reconciled, apply, up,
                 venueVars, core, flight, n, faults>>

(* Someone else puts an order of the same symbol on the account.           *)
Elsewhere(k) ==
  /\ writes < MaxWrites /\ writes' = writes + 1 /\ Changed
  /\ valgos' = [valgos EXCEPT ![k] = @ \cup {Foreign}]
  /\ UNCHANGED <<file, applied, client, taskVars, last, reconciled, apply, up, mode,
                 vpos, core, flight, n, faults>>

Outage ==
  /\ up /\ faults < MaxFaults /\ faults' = faults + 1 /\ up' = FALSE
  /\ UNCHANGED <<file, applied, client, taskVars, last, reconciled, apply, mode,
                 venueVars, core, flight, n, writes, history>>
Back ==
  /\ ~up /\ up' = TRUE
  /\ UNCHANGED <<file, applied, client, taskVars, last, reconciled, apply, mode,
                 venueVars, core, flight, countVars, history>>

Rest == UNCHANGED <<file, applied, client, taskVars, last, reconciled, apply, up,
                    mode, writes, faults>>

SendEntry ==
  /\ reconciled /\ client # "none" /\ core = 0 /\ flight = NoFlight /\ n < MaxTrades
  /\ n' = n + 1 /\ flight' = [step |-> "entry", id |-> n + 1, key |-> client]
  /\ UNCHANGED <<venueVars, core, history>> /\ Rest

VenueFills ==
  /\ flight.step = "entry" /\ up /\ Changed
  /\ vpos' = [vpos EXCEPT ![flight.key] = TRUE] /\ flight' = [flight EXCEPT !.step = "filled"]
  /\ UNCHANGED <<valgos, core, n>> /\ Rest

(* The core opens its position and sends the protection with the client of *)
(* that moment; without one the orders are skipped.                        *)
CoreOpens ==
  /\ flight.step = "filled" /\ core' = flight.id /\ Changed
  /\ flight' = IF client = "none" THEN NoFlight ELSE [flight EXCEPT !.step = "protect", !.key = client]
  /\ UNCHANGED <<venueVars, n>> /\ Rest

VenueProtects ==
  /\ flight.step = "protect" /\ up /\ flight' = NoFlight /\ Changed
  /\ valgos' = [valgos EXCEPT ![flight.key] = @ \cup Algos(flight.id)]
  /\ UNCHANGED <<vpos, core, n>> /\ Rest

StopFires(k, sl) ==
  /\ vpos[k] /\ sl \in valgos[k] /\ flight = NoFlight /\ Changed
  /\ vpos' = [vpos EXCEPT ![k] = FALSE] /\ valgos' = [valgos EXCEPT ![k] = @ \ {sl}]
  /\ flight' = [step |-> "closed", id |-> core, key |-> k]
  /\ UNCHANGED <<core, n>> /\ Rest

CoreCloses ==
  /\ flight.step = "closed" /\ core' = 0 /\ Changed
  /\ flight' = IF client = "none" THEN NoFlight ELSE [flight EXCEPT !.step = "cancel", !.key = client]
  /\ UNCHANGED <<venueVars, n>> /\ Rest

VenueCancels ==
  /\ flight.step = "cancel" /\ up /\ flight' = NoFlight /\ Changed
  /\ valgos' = [valgos EXCEPT ![flight.key] = @ \ Algos(flight.id)]
  /\ UNCHANGED <<vpos, core, n>> /\ Rest

(* The request fails: the core is told of no order, and nothing sends it   *)
(* again.                                                                  *)
SendFails ==
  /\ flight.step \in {"entry", "protect", "cancel"} /\ ~up /\ flight' = NoFlight /\ Changed
  /\ UNCHANGED <<venueVars, core, n>> /\ Rest

Outside ==
  \/ \E f \in Keys \cup {"none", "bad"} : WriteFile(f)
  \/ SwitchMode \/ Outage \/ \E k \in Keys : Elsewhere(k)
  \/ SendEntry \/ SendFails \/ \E k \in Keys, role \in {"SL", "SLr1"} : StopFires(k, <<core, role>>)
Settles == Back \/ VenueFills \/ CoreOpens \/ VenueProtects \/ CoreCloses \/ VenueCancels

-----------------------------------------------------------------------------
(* Arming. *)

Trading == <<last, reconciled, apply, up, mode, venueVars, core, flight, countVars>>

AsApplied == pc' = "recon" /\ UNCHANGED <<applied, client, key>>
Probe == pc' = "probe" /\ key' = file /\ UNCHANGED <<applied, client>>
Disarm == pc' = "recon" /\ client' = "none" /\ applied' = file /\ UNCHANGED key
FileOnly == UNCHANGED <<file, snap, todo, result, Trading, history>>

(* ArmingSupervisor.check up to the probe.  The positions are counted once,*)
(* here; with one open a change waits (what "deferred" remembers is only   *)
(* that this was reported).                                                *)
ArmingCheck ==
  /\ pc = "idle" /\ FileOnly
  /\ IF file = applied \/ core # 0 THEN AsApplied
     ELSE IF file \in Keys THEN Probe ELSE Disarm

(* The answer of the probe: without a balance there is no client, and the  *)
(* file counts as applied all the same.                                    *)
ProbeDone ==
  /\ pc = "probe" /\ pc' = "recon" /\ applied' = key
  /\ client' = IF up THEN key ELSE "none"
  /\ UNCHANGED <<file, key, snap, todo, result, Trading, history>>

-----------------------------------------------------------------------------
(* Reconciliation. *)

Round == <<file, applied, apply, up, mode, core, flight, countVars>>

(* recon.client is taken when the round begins. *)
ReconStart ==
  /\ pc = "recon" /\ key' = client /\ pc' = IF client = "none" THEN "apply" ELSE "positions"
  /\ result' = [NoResult EXCEPT !.why = "client"] /\ todo' = {} /\ snap' = NoRound
  /\ quiet' = TRUE
  /\ UNCHANGED <<Round, client, last, reconciled, venueVars, fresh, verdict>>

(* fetch_snapshot: one call after another (the mode first, here with the   *)
(* positions); a call that fails ends it.                                  *)
Read(at, next, s) ==
  /\ pc = at
  /\ IF up THEN pc' = next /\ snap' = s /\ UNCHANGED result
     ELSE pc' = "apply" /\ result' = [NoResult EXCEPT !.why = "snapshot"] /\ UNCHANGED snap
  /\ UNCHANGED <<Round, client, key, todo, last, reconciled, venueVars, history>>

ReadSnapshot ==
  \/ Read("positions", "algos", [snap EXCEPT !.mode = mode, !.pos = vpos[key]])
  \/ Read("algos", "compare", [snap EXCEPT !.algos = valgos[key]])

(* Mutants: an order of the core counts as unknown; a missing stop is no   *)
(* difference.                                                             *)
OrphansAll(c, s) == IF c # 0 /\ s.pos THEN {} ELSE s.algos
MismatchesNoAlgos(c, s) ==
  {m \in {"mode", "missing", "unknown", "orphan"} :
     \/ m = "mode" /\ s.mode # "ONE_WAY"
     \/ m = "missing" /\ c # 0 /\ ~s.pos
     \/ m = "unknown" /\ c = 0 /\ s.pos
     \/ m = "orphan" /\ ~(c # 0 /\ s.pos) /\ s.algos # {}}

(* is_ours: the grammar of our ids, the repairs included. *)
IsOurs(a) == a # Foreign

(* reconcile: what differs between the core and the snapshot.  Orders that *)
(* the core does not know are looked for only where one side has no        *)
(* position.                                                               *)
CoreAlgos(c) == IF c = 0 THEN {} ELSE Algos(c)
Orphans(c, s) == IF c # 0 /\ s.pos THEN {} ELSE s.algos \ CoreAlgos(c)
Mismatches(c, s) ==
  {m \in {"mode", "missing", "unknown", "algo", "orphan"} :
     \/ m = "mode" /\ s.mode # "ONE_WAY"
     \/ m = "missing" /\ c # 0 /\ ~s.pos
     \/ m = "unknown" /\ c = 0 /\ s.pos
     \/ m = "algo" /\ c # 0 /\ s.pos /\ ~(CoreAlgos(c) \subseteq s.algos)
     \/ m = "orphan" /\ Orphans(c, s) # {}}
Unprotected(s) == s.pos /\ s.algos = {}

(* _evaluate: the core is read now, after the exchange; HEDGE takes the    *)
(* client away.                                                            *)
Compare ==
  /\ pc = "compare" /\ pc' = "apply"
  /\ LET mism == Mismatches(core, snap)
         ok == mism = {} /\ ~Unprotected(snap)
     IN result' = [ok |-> ok, why |-> IF Unprotected(snap) THEN "unprotected" ELSE "compared",
                   mism |-> mism, sent |-> 0]
  /\ client' = IF snap.mode = "HEDGE" THEN "none" ELSE client
  /\ todo' = IF ~apply THEN {}
             ELSE {<<"cancel", a>> : a \in {x \in Orphans(core, snap) : IsOurs(x)}}
                  \cup {<<"place", a>> : a \in IF Unprotected(snap) /\ core # 0 THEN Repairs(core) ELSE {}}
  /\ UNCHANGED <<Round, key, snap, last, reconciled, venueVars, history>>

(* _apply_orphans, _apply_repairs: an error does not stop them. *)
ApplyOne(t) ==
  /\ pc = "apply" /\ t \in todo /\ todo' = todo \ {t}
  /\ (t[1] = "cancel" \/ \A u \in todo : u[1] # "cancel")
  /\ IF up
     THEN /\ valgos' = [valgos EXCEPT ![key] = IF t[1] = "cancel" THEN @ \ {t[2]} ELSE @ \cup {t[2]}]
          /\ Changed
     ELSE UNCHANGED <<valgos, history>>
  /\ result' = IF t[1] = "cancel" THEN [result EXCEPT !.sent = @ + 1] ELSE result
  /\ UNCHANGED <<Round, client, pc, key, snap, last, reconciled, vpos>>

(* What a round leaves behind: nothing but its verdict. *)
Forget == key' = "none" /\ snap' = NoRound /\ result' = NoResult /\ quiet' = FALSE
Judged == fresh' = quiet /\ verdict' = (IF result.ok THEN "good" ELSE "bad") /\ Forget

(* Mutant: the lock is set only from a result that agrees. *)
FinishGoodOnly ==
  /\ pc = "apply" /\ todo = {} /\ pc' = "idle" /\ last' = result /\ Judged
  /\ reconciled' = (reconciled \/ (result # last /\ result.ok))
  /\ UNCHANGED <<Round, client, todo, venueVars>>

(* check and _apply_reconcile: a result like the last one is not applied.  *)
Finish ==
  /\ pc = "apply" /\ todo = {} /\ pc' = "idle" /\ last' = result /\ Judged
  /\ reconciled' = IF result = last THEN reconciled ELSE result.ok
  /\ UNCHANGED <<Round, client, todo, venueVars>>

(* The thread reads the positions while the loop adds one: an exception,   *)
(* and _pre_beat closes the lock; what check remembers stays.              *)
Raises ==
  /\ pc = "compare" /\ faults < MaxFaults /\ faults' = faults + 1
  /\ pc' = "idle" /\ reconciled' = FALSE /\ fresh' = FALSE /\ verdict' = "error" /\ Forget
  /\ UNCHANGED <<file, applied, client, todo, last, apply, up, mode, venueVars, core,
                 flight, n, writes>>

StatusStep ==
  \/ ArmingCheck \/ ProbeDone \/ ReconStart \/ ReadSnapshot \/ Compare
  \/ \E t \in todo : ApplyOne(t)
  \/ Finish
SupNext == Outside \/ Settles \/ StatusStep \/ Raises

(* The status task runs for ever, and what is on its way arrives.          *)
SupFair == WF_supVars(StatusStep) /\ WF_supVars(Settles)
SupSpec == SupInit /\ [][SupNext]_supVars /\ SupFair

-----------------------------------------------------------------------------
(* Type invariant. *)
Accounts == Keys \cup {"none"}
Orders == {Foreign} \cup UNION {Algos(i) \cup Repairs(i) : i \in 0..MaxTrades}
SupTypeOK ==
  /\ file \in Accounts \cup {"bad"} /\ applied \in Accounts \cup {"bad", "never"}
  /\ client \in Accounts /\ key \in Accounts
  /\ pc \in {"idle", "probe", "recon", "positions", "algos", "compare", "apply"}
  /\ snap.algos \subseteq Orders /\ todo \subseteq {"cancel", "place"} \X Orders
  /\ valgos \in [Keys -> SUBSET Orders] /\ vpos \in [Keys -> BOOLEAN]
  /\ core \in 0..MaxTrades /\ flight.key \in Accounts /\ n \in 0..MaxTrades
  /\ reconciled \in BOOLEAN /\ verdict \in {"none", "good", "bad", "error"}

(* The entry lock is open only if the last round compared the core with    *)
(* the exchange to the end and found no difference, although a result like *)
(* the one before is not applied and an exception goes past what check     *)
(* remembers.                                                              *)
LockFollowsVerdict == reconciled => verdict = "good"

(* An open lock tells the truth: if neither side moved since the round     *)
(* that opened it first asked the exchange, the account holds the position *)
(* of the core and no other, all its protective orders are there, nothing  *)
(* is left of an earlier one, and the account is in ONE_WAY mode.          *)
OpenLockAgrees ==
  (pc = "idle" /\ reconciled /\ fresh) =>
    /\ mode = "ONE_WAY" /\ (core # 0) = vpos[client]
    /\ CoreAlgos(core) \subseteq valgos[client]
    /\ core = 0 => valgos[client] = {}

(* A round that compares an old picture of the exchange with a newer core  *)
(* never cancels the protection of the position the core holds.            *)
NeverCancelsProtection == \A t \in todo : t[1] = "cancel" => t[2] \notin CoreAlgos(core)

(* Orders of others on the account are never touched (is_ours).            *)
ForeignUntouched ==
  [][\A k \in Keys : Foreign \in valgos[k] => Foreign \in valgos'[k]]_supVars

(* The account changes under an open position only where arming.check is   *)
(* still probing, having counted the positions before, or for HEDGE.       *)
OnlyTheProbeStrands ==
  [][(core # 0 /\ client' # client) => (pc = "probe" \/ (pc = "compare" /\ snap.mode = "HEDGE"))]_supVars

Disagree == \/ client = "none"
            \/ LET now == [mode |-> mode, pos |-> vpos[client], algos |-> valgos[client]]
               IN Mismatches(core, now) # {} \/ Unprotected(now)

(* A difference that stays closes the lock, whatever it is and wherever it *)
(* began: a position stranded on another account, a stop that was never    *)
(* placed, an order left over, HEDGE, no client.                           *)
DisagreementIsNoticed == [](Disagree => <>(~Disagree \/ ~reconciled))

(* And the lock opens when there is none and the exchange answers, as long *)
(* as no round ended in an exception: after one, the next good result is   *)
(* the one check remembers and is not applied.                             *)
AgreementOpens ==
  [](verdict # "error") => []<>(Disagree \/ ~up \/ reconciled)

(* A change of the key file is applied as soon as no position is open:     *)
(* a file without a usable key leaves no client.                           *)
ChangeIsApplied ==
  [](file \notin Keys => <>(file \in Keys \/ core # 0 \/ client = "none"))

-----------------------------------------------------------------------------
(* The entry lock says what the last look at the exchange found. *)
LockTrue == LockFollowsVerdict /\ OpenLockAgrees

(* The supervisors keep their hands off what is not theirs to change. *)
HandsOff == [](SupTypeOK /\ NeverCancelsProtection) /\ ForeignUntouched /\ OnlyTheProbeStrands

(* What changes outside, at the exchange or in the key file, reaches the   *)
(* lock and the client.                                                    *)
VerdictReachesLock == DisagreementIsNoticed /\ AgreementOpens /\ ChangeIsApplied
=============================================================================
