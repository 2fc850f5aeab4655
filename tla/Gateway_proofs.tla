--------------------------- MODULE Gateway_proofs ---------------------------
(***************************************************************************)
(* Proofs about the parts of Gateway, for any set of orders, any number of *)
(* trades, keys, resets and restarts, and any order and repetition of the  *)
(* messages.  The tracker never overcounts because the trades it counted   *)
(* are among those the venue made, and it counted no more than it knows    *)
(* (Counted); every message names a trade that was made (Told).            *)
(***************************************************************************)
EXTENDS Gateway, Integers, SequenceTheorems, FiniteSetTheorems, TLAPS

(* One part moves, the others stand still. *)
LEMMA OnePart ==
  ASSUME [GateNext]_gateVars
  PROVE  /\ [StreamNext]_streamVars /\ [PoolNext]_poolVars
         /\ [KillNext]_killVars /\ [TrackNext]_trackVars
BY DEF GateNext, gateVars

-----------------------------------------------------------------------------
(* The stream. *)

Flags == sock \in BOOLEAN /\ wire \in BOOLEAN /\ resync \in BOOLEAN /\ lost \in BOOLEAN
Counts ==
  /\ loop \in {"key", "connect", "open", "wait", "done"} /\ lkey \in 0..MaxKeys
  /\ live \in 0..MaxKeys /\ keys \in 0..MaxKeys /\ ka \in {"sleep", "call", "resync", "done"}
  /\ stopping \in {"no", "conn", "all"} /\ late \in Nat
Within == sock => loop = "open"

LEMMA StreamParts == StreamTypeOK <=> Flags /\ Counts /\ Within
BY Zenon DEF StreamTypeOK, Flags, Counts, Within

LEMMA InitStream == StreamInit => StreamTypeOK
<1>1. StreamInit => Flags /\ Within
  BY Zenon DEF StreamInit, Flags, Within
<1>2. StreamInit => Counts
  BY StreamAssumption DEF StreamInit, Counts
<1> QED
  BY <1>1, <1>2, StreamParts

LEMMA StepStream == ASSUME StreamTypeOK, [StreamNext]_streamVars PROVE StreamTypeOK'
<1>1. Flags /\ Counts /\ Within
  BY StreamParts
<1>2. Flags'
  <2> USE <1>1 DEF Flags
  <2>1. CASE TakeKey \/ Connect \/ Ended \/ Backoff
    BY <2>1, Zenon DEF TakeKey, Connect, Ended, Backoff
  <2>2. CASE Resync \/ KeepaliveResync \/ Stop
    BY <2>2, Zenon DEF Resync, KeepaliveResync, Stop, CloseSocket
  <2>3. CASE Keepalive
    BY <2>3, Zenon DEF Keepalive
  <2>4. CASE Frame
    BY <2>4, Zenon DEF Frame
  <2>5. CASE Expire \/ Drop
    BY <2>5, Zenon DEF Expire, Drop
  <2>6. CASE UNCHANGED streamVars
    BY <2>6, Zenon DEF streamVars
  <2> QED
    BY <2>1, <2>2, <2>3, <2>4, <2>5, <2>6 DEF StreamNext, LoopStep
<1>3. Counts'
  <2> USE <1>1, StreamAssumption DEF Counts
  <2>1. CASE TakeKey
    BY <2>1 DEF TakeKey
  <2>2. CASE Connect \/ Ended \/ Backoff
    BY <2>2 DEF Connect, Ended, Backoff
  <2>3. CASE Resync \/ KeepaliveResync \/ Stop \/ Keepalive
    BY <2>3 DEF Resync, KeepaliveResync, Stop, Keepalive
  <2>4. CASE Frame
    BY <2>4 DEF Frame
  <2>5. CASE Expire \/ Drop
    BY <2>5 DEF Expire, Drop
  <2>6. CASE UNCHANGED streamVars
    BY <2>6 DEF streamVars
  <2> QED
    BY <2>1, <2>2, <2>3, <2>4, <2>5, <2>6 DEF StreamNext, LoopStep
<1>4. Within'
  <2> USE <1>1 DEF Within
  <2>1. CASE TakeKey
    BY <2>1, Zenon DEF TakeKey
  <2>2. CASE Connect \/ Ended \/ Backoff
    BY <2>2, Zenon DEF Connect, Ended, Backoff
  <2>3. CASE Resync \/ KeepaliveResync \/ Stop
    BY <2>3, Zenon DEF Resync, KeepaliveResync, Stop, CloseSocket
  <2>4. CASE Keepalive \/ Frame \/ Expire \/ Drop
    BY <2>4, Zenon DEF Keepalive, Frame, Expire, Drop
  <2>5. CASE UNCHANGED streamVars
    BY <2>5, Zenon DEF streamVars
  <2> QED
    BY <2>1, <2>2, <2>3, <2>4, <2>5 DEF StreamNext, LoopStep
<1> QED
  BY <1>2, <1>3, <1>4
     DEF Flags, Counts, Within, StreamTypeOK

-----------------------------------------------------------------------------
(* The pool: the venue runs an attempt at most once, and not at all when   *)
(* it refuses the request.                                                 *)

Ran(o) == o.ran \in 0..1 /\ (o.out = "4xx" => o.ran = 0)

LEMMA AttemptRuns == ASSUME NEW c, NEW o \in Attempt(c) PROVE Ran(o)
BY DEF Attempt, Ran

LEMMA InitPool == PoolInit => OrdersOnce
BY DEF PoolInit, OrdersOnce, NeverSentTwice, FailedIsNotDone

LEMMA StepPool == ASSUME OrdersOnce, [PoolNext]_poolVars PROVE OrdersOnce'
<1>1. ASSUME NEW m \in Methods, Request(m) PROVE OrdersOnce'
  <2>1. PICK first \in Attempt(Usable) :
          IF first.out = "reset" /\ m = "GET" /\ Usable # "none"
          THEN \E second \in Attempt("none") :
                 Done(m, 2, second, first.ran + second.ran, AfterRetry(second.out))
          ELSE Done(m, 1, first, first.ran, AfterFirst(first.out))
    BY <1>1 DEF Request
  <2>2. Ran(first)
    BY AttemptRuns
  <2>3. ASSUME m = "GET", NEW o, NEW ran, NEW after, Done(m, 2, o, ran, after) PROVE OrdersOnce'
    BY <2>3 DEF Done, OrdersOnce, NeverSentTwice, FailedIsNotDone
  <2>4. ASSUME Done(m, 1, first, first.ran, AfterFirst(first.out)) PROVE OrdersOnce'
    <3>1. req' = [method |-> m, out |-> first.out, sent |-> 1, ran |-> first.ran]
      BY <2>4 DEF Done
    <3>2. req'.method = m /\ req'.out = first.out /\ req'.sent = 1 /\ req'.ran = first.ran
      BY <3>1
    <3>3. NeverSentTwice' /\ req'.ran <= 1
      BY <2>2, <3>2 DEF NeverSentTwice, Ran
    <3>4. FailedIsNotDone'
      BY <2>2, <3>2 DEF FailedIsNotDone, Report, Ran
    <3> QED
      BY <3>3, <3>4 DEF OrdersOnce
  <2> QED
    BY <2>1, <2>3, <2>4
<1>2. CASE ServerCloses \/ TimePasses \/ UNCHANGED poolVars
  <2>1. req' = req
    BY <1>2 DEF ServerCloses, TimePasses, poolVars
  <2> QED
    BY <2>1 DEF OrdersOnce, NeverSentTwice, FailedIsNotDone, Report
<1> QED
  BY <1>1, <1>2 DEF PoolNext

-----------------------------------------------------------------------------
(* The kill switch: the paper trader never stands between its reading and  *)
(* its writing, and a kill is late only if it saw the switch open.         *)

KillInv == KillTypeOK /\ (~testnet => pc = "sleep")
Post == [why : Console \cup {"none"}, seen : BOOLEAN]

(* What a step of the paper trader or the console may do.                  *)
Keeps ==
  /\ flag /\ ~flag' => ~Active(file)
  /\ Active(file) /\ Active(file') => /\ Late' \subseteq Late
                                     /\ (file' # file => Late' # Late)

LEMMA InitKill == KillInit => KillInv
<1> SUFFICES ASSUME KillInit PROVE KillInv
  OBVIOUS
<1>1. file \in Reason /\ mem \in Reason
  BY DEF KillInit, Reason
<1>2. testnet \in BOOLEAN /\ flag \in BOOLEAN /\ ks \in BOOLEAN /\ banned \in BOOLEAN
  BY Zenon DEF KillInit, Active
<1>3. pc = "sleep" /\ resets \in 0..MaxResets /\ restarts \in 0..MaxRestarts
  BY KSAssumption DEF KillInit
<1>4. post \in [Posts -> Post]
  BY DEF KillInit, Idle, Post
<1> QED
  BY <1>1, <1>2, <1>3, <1>4 DEF KillInv, KillTypeOK, Post

LEMMA TrippedType ==
  ASSUME KillTypeOK, NEW r \in Trips, Tripped(r)
  PROVE  mem' \in Reason /\ file' \in Reason /\ flag' \in BOOLEAN
BY DEF KillTypeOK, Tripped, Reason

LEMMA AskKeeps ==
  ASSUME KillInv, NEW p \in Posts, NEW r \in Console, ConsoleAsk(p, r)
  PROVE  KillInv' /\ Keeps
<1>1. /\ post' = [post EXCEPT ![p] = [why |-> r, seen |-> Active(file)]]
      /\ UNCHANGED <<testnet, file, mem, flag, ks, pc, banned, resets, restarts>>
  BY DEF ConsoleAsk
<1>2. [why |-> r, seen |-> Active(file)] \in Post
  BY Zenon DEF Post, Active
<1>3. post' \in [Posts -> Post]
  BY <1>1, <1>2 DEF KillInv, KillTypeOK, Post
<1>4. Active(file) => Late' \subseteq Late
  <2> SUFFICES ASSUME Active(file), NEW q \in Posts, post'[q] # Idle, ~post'[q].seen
               PROVE  post[q] # Idle /\ ~post[q].seen
    BY DEF Late
  <2>1. q # p
    BY <1>1 DEF KillInv, KillTypeOK
  <2> QED
    BY <1>1, <2>1 DEF KillInv, KillTypeOK
<1> QED
  BY <1>1, <1>3, <1>4 DEF KillInv, KillTypeOK, Keeps, Post

LEMMA TriggerKeeps ==
  ASSUME KillInv, NEW p \in Posts, ConsoleTrigger(p)
  PROVE  KillInv' /\ Keeps
<1>1. /\ post[p] # Idle /\ post' = [post EXCEPT ![p] = Idle]
      /\ file' = IF post[p].seen THEN file ELSE post[p].why
      /\ UNCHANGED <<testnet, mem, flag, ks, pc, banned, resets, restarts>>
  BY DEF ConsoleTrigger
<1>2. post \in [Posts -> Post] /\ file \in Reason
  BY DEF KillInv, KillTypeOK, Post
<1>3. post' \in [Posts -> Post] /\ file' \in Reason
  BY <1>1, <1>2 DEF Post, Idle, Reason
<1>4. Late' \subseteq Late
  BY <1>1, <1>2 DEF Late
<1>5. file' # file => p \in Late /\ p \notin Late'
  BY <1>1, <1>2 DEF Late
<1> QED
  BY <1>1, <1>3, <1>4, <1>5 DEF KillInv, KillTypeOK, Keeps, Post

LEMMA StepKill ==
  ASSUME KillInv, [KillNext]_killVars
  PROVE  KillInv' /\ (~testnet => Keeps)
<1> USE KSAssumption DEF KillInv, KillTypeOK
<1>0. ASSUME UNCHANGED <<file, post>>, flag /\ ~flag' => ~Active(file) PROVE Keeps
  BY <1>0 DEF Keeps, Late
<1>1. CASE (\E p \in Posts, r \in Console : ConsoleAsk(p, r)) \/ \E p \in Posts : ConsoleTrigger(p)
  BY <1>1, AskKeeps, TriggerKeeps
<1>2. CASE ConsoleReset
  BY <1>2 DEF ConsoleReset, Reason, Active, Keeps
<1>3. ASSUME NEW r \in Trips, Runaway(r) PROVE KillInv' /\ testnet
  BY <1>3, TrippedType DEF Runaway
<1>4. CASE Ban
  BY <1>0, <1>4 DEF Ban
<1>5. CASE Beat
  BY <1>0, <1>5 DEF Beat, Active
<1>6. CASE BeatRead
  <2>1. testnet /\ pc' = "await" /\ ks' = Active(file)
        /\ UNCHANGED <<testnet, banned, post, resets, restarts>>
    BY <1>6 DEF BeatRead
  <2>2. mem' \in Reason /\ file' \in Reason /\ flag' \in BOOLEAN
    BY <1>6, TrippedType DEF BeatRead
  <2> QED
    BY <2>1, <2>2 DEF Active
<1>7. CASE BeatWrite
  BY <1>0, <1>7 DEF BeatWrite
<1>8. CASE Restart
  <2>1. flag' = Active(file) /\ ks' = FALSE /\ banned' = FALSE
    BY <1>8 DEF Restart
  <2>2. flag' \in BOOLEAN /\ ks' \in BOOLEAN /\ banned' \in BOOLEAN
    BY <2>1, Zenon DEF Active
  <2>3. flag' <=> Active(file)
    BY <2>1
  <2>4. /\ UNCHANGED <<testnet, file, post, resets>> /\ mem' = file /\ pc' = "sleep"
        /\ restarts < MaxRestarts /\ restarts' = restarts + 1
    BY <1>8 DEF Restart
  <2> QED
    BY <1>0, <2>2, <2>3, <2>4
<1>9. CASE UNCHANGED killVars
  BY <1>0, <1>9 DEF killVars
<1> QED
  BY <1>1, <1>2, <1>3, <1>4, <1>5, <1>6, <1>7, <1>8, <1>9 DEF KillNext, Beats

-----------------------------------------------------------------------------
(* The registry. *)

LEMMA RankOf ==
  /\ Rank("PENDING") = 0 /\ Rank("ACKED") = 1 /\ Rank("PARTIALLY_FILLED") = 2
  /\ Rank("UNKNOWN") = 2 /\ Rank("FILLED") = 3 /\ Rank("DONE") = 3
BY DEF Rank

Heard == {"ACKED", "PARTIALLY_FILLED", "FILLED", "DONE"}

LEMMA StateOfOne ==
  ASSUME NEW status PROVE StateOf(status) = {} \/ \E x \in Heard : StateOf(status) = {x}
BY DEF StateOf, Heard

(* What an event may do to the state of its order. *)
LEMMA EventStep ==
  ASSUME ref \in [Cids -> State \cup {"none"}], NEW c \in Cids, NEW status, OnEvent(c, status)
  PROVE  \/ ref' = ref
         \/ \E x \in Heard : /\ ref[c] # "none" /\ ref' = [ref EXCEPT ![c] = x]
                             /\ Rank(x) >= Rank(ref[c])
<1> DEFINE h == CHOOSE s \in StateOf(status) : TRUE
<1>1. ref' = [ref EXCEPT ![c] =
         IF \E s \in StateOf(status) : ref[c] # "none" /\ Rank(s) >= Rank(ref[c])
         THEN h ELSE ref[c]]
  BY DEF OnEvent
<1>2. CASE \E s \in StateOf(status) : ref[c] # "none" /\ Rank(s) >= Rank(ref[c])
  <2>1. PICK x \in Heard : StateOf(status) = {x}
    BY <1>2, StateOfOne
  <2>2. h = x
    BY <2>1
  <2> HIDE DEF h
  <2> QED
    BY <1>1, <1>2, <2>1, <2>2
<1>3. CASE ~(\E s \in StateOf(status) : ref[c] # "none" /\ Rank(s) >= Rank(ref[c]))
  <2> HIDE DEF h
  <2> QED
    BY <1>1, <1>3
<1> QED
  BY <1>2, <1>3

RefInv == ref \in [Cids -> State \cup {"none"}] /\ unknown \subseteq Cids /\ UnknownIsOpen

(* One step of one order in the registry. *)
Onward(a, b) ==
  a # "none" => /\ a \in Terminal => b \in Terminal
                /\ Rank(b) >= Rank(a)

LEMMA StaysOnward == ASSUME NEW a \in State \cup {"none"} PROVE Onward(a, a)
BY RankOf DEF Onward, State

LEMMA EventKeeps ==
  ASSUME RefInv, NEW c \in Cids, NEW status, OnEvent(c, status)
  PROVE  RefInv' /\ \A d \in Cids : Onward(ref[d], ref'[d])
<1>1. unknown' = IF ref'[c] \in Terminal THEN unknown \ {c} ELSE unknown
  BY DEF OnEvent
<1>2. CASE ref' = ref
  BY <1>1, <1>2, StaysOnward DEF RefInv, UnknownIsOpen
<1>3. CASE \E x \in Heard : /\ ref[c] # "none" /\ ref' = [ref EXCEPT ![c] = x]
                            /\ Rank(x) >= Rank(ref[c])
  <2>1. PICK x \in Heard : /\ ref[c] # "none" /\ ref' = [ref EXCEPT ![c] = x]
                           /\ Rank(x) >= Rank(ref[c])
    BY <1>3
  <2>2. /\ ref'[c] = x /\ \A d \in Cids : d # c => ref'[d] = ref[d]
        /\ ref' \in [Cids -> State \cup {"none"}]
    BY <2>1 DEF RefInv, State, Heard
  <2>3. Onward(ref[c], x)
    BY <2>1, RankOf DEF Onward, Heard, Terminal, RefInv, State
  <2>4. \A d \in Cids : Onward(ref[d], ref'[d])
    BY <2>2, <2>3, StaysOnward DEF RefInv
  <2>5. UnknownIsOpen'
    BY <1>1, <2>2 DEF RefInv, UnknownIsOpen, Heard
  <2> QED
    BY <1>1, <2>2, <2>4, <2>5 DEF RefInv
<1> QED
  BY <1>2, <1>3, EventStep DEF RefInv

LEMMA InitRef == TrackInit => RefInv
BY DEF TrackInit, RefInv, UnknownIsOpen, State

LEMMA StepRef ==
  ASSUME RefInv, [TrackNext]_trackVars
  PROVE  RefInv' /\ \A d \in Cids : Onward(ref[d], ref'[d])
<1>1. ASSUME NEW c \in Cids, Register(c) PROVE RefInv' /\ \A d \in Cids : Onward(ref[d], ref'[d])
  <2>1. ref[c] = "none" /\ ref' = [ref EXCEPT ![c] = "PENDING"] /\ unknown' = unknown
    BY <1>1 DEF Register
  <2>2. \A d \in Cids : Onward(ref[d], ref'[d])
    BY <2>1, StaysOnward DEF RefInv, Onward
  <2> QED
    BY <2>1, <2>2 DEF RefInv, UnknownIsOpen, State, Terminal
<1>2. ASSUME NEW c \in Cids, MarkUnknown(c) PROVE RefInv' /\ \A d \in Cids : Onward(ref[d], ref'[d])
  <2>1. /\ ref[c] \notin Terminal \cup {"none"} /\ ref' = [ref EXCEPT ![c] = "UNKNOWN"]
        /\ unknown' = unknown \cup {c}
    BY <1>2 DEF MarkUnknown
  <2>2. Onward(ref[c], "UNKNOWN")
    BY <2>1, RankOf DEF RefInv, Onward, State, Terminal
  <2>3. \A d \in Cids : Onward(ref[d], ref'[d])
    BY <2>1, <2>2, StaysOnward DEF RefInv
  <2> QED
    BY <2>1, <2>3 DEF RefInv, UnknownIsOpen, State, Terminal
<1>3. CASE Tick
  <2>1. /\ ref' = [c \in Cids |-> IF c \in Silent THEN "UNKNOWN" ELSE ref[c]]
        /\ unknown' = unknown \cup Silent
    BY <1>3 DEF Tick
  <2>2. \A c \in Silent : c \in Cids /\ ref[c] = "PENDING"
    BY DEF Silent
  <2>3. Onward("PENDING", "UNKNOWN")
    BY RankOf DEF Onward, Terminal
  <2>4. \A d \in Cids : Onward(ref[d], ref'[d])
    BY <2>1, <2>2, <2>3, StaysOnward DEF RefInv
  <2> QED
    BY <2>1, <2>2, <2>4 DEF RefInv, UnknownIsOpen, State, Terminal
<1>4. ASSUME NEW c \in Cids, Deliver(c) PROVE RefInv' /\ \A d \in Cids : Onward(ref[d], ref'[d])
  <2>1. \E status : OnEvent(c, status)
    BY <1>4 DEF Deliver
  <2> QED
    BY <2>1, EventKeeps
<1>5. CASE UNCHANGED <<ref, unknown>>
  BY <1>5, StaysOnward DEF RefInv, UnknownIsOpen
<1>6. ASSUME NEW c, VenueOrder(c) \/ VenueAlgo(c) PROVE UNCHANGED <<ref, unknown>>
  BY <1>6 DEF VenueOrder, VenueAlgo, Publish
<1> QED
  BY <1>1, <1>2, <1>3, <1>4, <1>5, <1>6 DEF TrackNext, trackVars

-----------------------------------------------------------------------------
(* The tracker. *)

Told(c, m, v) == m.tid <= v /\ (c \in Orders => m.status \in OrderStatus)
Counted(t, v) == t.trades \subseteq 1..v /\ t.filled <= Cardinality(t.trades)

Tracked == [status : OrderStatus, trades : SUBSET Nat, filled : Nat]
VenueT  == [status : OrderStatus \cup AlgoStatus \cup {"none"}, trades : Nat]

TrkInv ==
  /\ age \in [Cids -> Nat] /\ repeated \in 0..Repeats
  /\ venue \in [Cids -> VenueT] /\ trk \in [Cids -> Tracked] /\ chan \in [Cids -> Seq(Msg)]
  /\ \A c \in Cids : \A i \in 1..Len(chan[c]) : Told(c, chan[c][i], venue[c].trades)
  /\ \A c \in Orders : Counted(trk[c], venue[c].trades)

LEMMA CountedFinite ==
  ASSUME NEW t, NEW v \in Nat, t.trades \subseteq 1..v
  PROVE  /\ IsFiniteSet(t.trades) /\ Cardinality(t.trades) \in Nat
         /\ Cardinality(t.trades) <= v
<1>1. IsFiniteSet(1..v) /\ Cardinality(1..v) = v
  BY FS_Interval
<1>2. IsFiniteSet(t.trades) /\ Cardinality(t.trades) <= Cardinality(1..v)
  BY <1>1, FS_Subset
<1> QED
  BY <1>1, <1>2, FS_CardinalityType

LEMMA ForwardTracks ==
  ASSUME NEW t \in Tracked, NEW status \in OrderStatus
  PROVE  /\ Forward(t, status) \in Tracked
         /\ Forward(t, status).trades = t.trades /\ Forward(t, status).filled = t.filled
BY DEF Forward, Tracked

(* apply counts a trade only when it learns of it. *)
LEMMA AppliedCounts ==
  ASSUME NEW t \in Tracked, NEW m \in Msg, m.status \in OrderStatus, NEW v \in Nat,
         m.tid <= v, Counted(t, v)
  PROVE  Applied(t, m) \in Tracked /\ Counted(Applied(t, m), v)
<1> DEFINE more == t.trades \cup {m.tid}
           u == [t EXCEPT !.trades = more]
           w == [t EXCEPT !.trades = more, !.filled = @ + 1]
<1>1. m.tid \in Nat /\ t.filled \in Nat /\ t.trades \subseteq 1..v
  BY DEF Msg, Tracked, Counted
<1>2. IsFiniteSet(t.trades) /\ Cardinality(t.trades) \in Nat
  BY <1>1, CountedFinite
<1>3. ASSUME m.tid # 0, m.tid \notin t.trades
      PROVE  /\ Cardinality(more) = Cardinality(t.trades) + 1 /\ more \subseteq 1..v
             /\ u \in Tracked /\ w \in Tracked
             /\ Counted(u, v) /\ Counted(w, v)
  <2>1. Cardinality(more) = Cardinality(t.trades) + 1
    BY <1>2, <1>3, FS_AddElement
  <2>2. more \subseteq 1..v /\ more \subseteq Nat
    BY <1>1, <1>3
  <2> HIDE DEF more
  <2>3. u \in Tracked /\ w \in Tracked
    <3>1. t.filled + 1 \in Nat
      BY <1>1
    <3> QED
      BY <2>2, <3>1, Zenon DEF Tracked
  <2>4. u.trades = more /\ u.filled = t.filled /\ w.trades = more /\ w.filled = t.filled + 1
    BY DEF Tracked
  <2> HIDE DEF u, w
  <2> QED
    BY <1>1, <1>2, <2>1, <2>2, <2>3, <2>4 DEF Counted
<1>4. Applied(t, m) = IF m.tid = 0 THEN Forward(t, m.status)
                      ELSE IF m.tid \in t.trades THEN t
                      ELSE IF m.tid < t.filled THEN u
                      ELSE Forward(w, m.status)
  BY DEF Applied
<1> HIDE DEF u, w, more
<1>5. Forward(t, m.status) \in Tracked /\ Counted(Forward(t, m.status), v)
  BY ForwardTracks DEF Counted
<1>6. ASSUME m.tid # 0, m.tid \notin t.trades
      PROVE  Forward(w, m.status) \in Tracked /\ Counted(Forward(w, m.status), v)
  BY <1>3, <1>6, ForwardTracks DEF Counted
<1> QED
  BY <1>3, <1>4, <1>5, <1>6

(* What is left of a channel when one message is taken out of it. *)
LEMMA TakenOut ==
  ASSUME NEW S, NEW s \in Seq(S), NEW i \in 1..Len(s)
  PROVE  LET r == SubSeq(s, 1, i - 1) \o SubSeq(s, i + 1, Len(s))
         IN /\ r \in Seq(S)
            /\ \A j \in 1..Len(r) : \E k \in 1..Len(s) : r[j] = s[k]
<1> DEFINE a == SubSeq(s, 1, i - 1)
           b == SubSeq(s, i + 1, Len(s))
<1>1. Len(s) \in Nat
  OBVIOUS
<1>2. /\ a \in Seq(S) /\ Len(a) = i - 1 /\ \A j \in 1..(i - 1) : a[j] = s[j]
  BY <1>1
<1>3. /\ b \in Seq(S) /\ Len(b) = Len(s) - i /\ \A j \in 1..(Len(s) - i) : b[j] = s[i + j]
  BY <1>1
<1> HIDE DEF a, b
<1>4. a \o b \in Seq(S) /\ Len(a \o b) = Len(a) + Len(b)
      /\ \A j \in 1..(Len(a) + Len(b)) :
            (a \o b)[j] = IF j <= Len(a) THEN a[j] ELSE b[j - Len(a)]
  BY <1>2, <1>3, ConcatProperties
<1>5. ASSUME NEW j \in 1..Len(a \o b) PROVE \E k \in 1..Len(s) : (a \o b)[j] = s[k]
  <2>0. j \in 1..(Len(a) + Len(b)) /\ Len(a) = i - 1 /\ Len(b) = Len(s) - i
    BY <1>2, <1>3, <1>4
  <2>1. CASE j <= i - 1
    <3>1. (a \o b)[j] = a[j]
      BY <1>4, <2>0, <2>1
    <3>2. j \in 1..(i - 1) /\ j \in 1..Len(s)
      BY <1>1, <2>0, <2>1
    <3> QED
      BY <1>2, <3>1, <3>2
  <2>2. CASE ~(j <= i - 1)
    <3>2. j - (i - 1) \in 1..(Len(s) - i) /\ i + (j - (i - 1)) \in 1..Len(s)
      BY <1>1, <2>0, <2>2
    <3>3. (a \o b)[j] = b[j - (i - 1)]
      BY <1>4, <2>0, <2>2
    <3>4. b[j - (i - 1)] = s[i + (j - (i - 1))]
      BY <1>3, <3>2
    <3> QED
      BY <3>2, <3>3, <3>4
  <2> QED
    BY <2>1, <2>2
<1> QED
  BY <1>4, <1>5 DEF a, b

LEMMA InitTrk == TrackInit => TrkInv
<1> SUFFICES ASSUME TrackInit PROVE TrkInv
  OBVIOUS
<1>1. Cardinality({}) = 0
  BY FS_EmptySet, Zenon
<1>2. \A c \in Cids : Len(chan[c]) = 0
  BY DEF TrackInit
<1>3. \A c \in Orders : trk[c].trades = {} /\ trk[c].filled = 0
  BY DEF TrackInit, Cids
<1>4. ASSUME NEW c \in Orders PROVE Counted(trk[c], venue[c].trades)
  <2>1. trk[c].trades = {} /\ trk[c].filled = 0
    BY <1>3
  <2>2. Cardinality(trk[c].trades) = 0
    BY <1>1, <2>1, Zenon
  <2>3. {} \subseteq 1..venue[c].trades
    OBVIOUS
  <2> QED
    BY <2>1, <2>2, <2>3 DEF Counted
<1>5. age \in [Cids -> Nat] /\ repeated \in 0..Repeats
  BY OTAssumption DEF TrackInit
<1>6. venue \in [Cids -> VenueT] /\ trk \in [Cids -> Tracked] /\ chan \in [Cids -> Seq(Msg)]
  BY DEF TrackInit, VenueT, Tracked, OrderStatus
<1> QED
  BY <1>2, <1>4, <1>5, <1>6 DEF TrkInv

LEMMA DeliverTracks == ASSUME TrkInv, NEW c \in Cids, Deliver(c) PROVE TrkInv'
<1>1. PICK i \in 1..Len(chan[c]), again \in BOOLEAN :
         /\ again => repeated < Repeats
         /\ trk' = IF c \in Orders THEN [trk EXCEPT ![c] = Applied(@, chan[c][i])] ELSE trk
         /\ chan' = IF again THEN chan
                    ELSE [chan EXCEPT ![c] = SubSeq(@, 1, i - 1) \o SubSeq(@, i + 1, Len(@))]
         /\ repeated' = IF again THEN repeated + 1 ELSE repeated
         /\ UNCHANGED <<age, venue>>
  BY DEF Deliver
<1> DEFINE m == chan[c][i]
           r == SubSeq(chan[c], 1, i - 1) \o SubSeq(chan[c], i + 1, Len(chan[c]))
<1>2. chan[c] \in Seq(Msg) /\ m \in Msg /\ Told(c, m, venue[c].trades)
  BY DEF TrkInv
<1>3. r \in Seq(Msg) /\ \A j \in 1..Len(r) : \E k \in 1..Len(chan[c]) : r[j] = chan[c][k]
  BY <1>2, TakenOut
<1>4. trk' \in [Cids -> Tracked] /\ \A o \in Orders : Counted(trk'[o], venue[o].trades)
  <2>1. CASE c \in Orders
    <3>1. /\ m.status \in OrderStatus /\ m.tid <= venue[c].trades /\ venue[c].trades \in Nat
          /\ trk[c] \in Tracked /\ Counted(trk[c], venue[c].trades)
      BY <1>2, <2>1 DEF Told, TrkInv, VenueT
    <3>2. Applied(trk[c], m) \in Tracked /\ Counted(Applied(trk[c], m), venue[c].trades)
      BY <1>2, <3>1, AppliedCounts
    <3>3. trk' = [trk EXCEPT ![c] = Applied(trk[c], m)]
      BY <1>1, <2>1
    <3> HIDE DEF m
    <3> QED
      BY <3>2, <3>3 DEF TrkInv, Cids
  <2>2. CASE c \notin Orders
    BY <1>1, <2>2 DEF TrkInv
  <2> QED
    BY <2>1, <2>2
<1>5. chan' \in [Cids -> Seq(Msg)] /\ \A d \in Cids : \A j \in 1..Len(chan'[d]) :
                                              Told(d, chan'[d][j], venue[d].trades)
  <2>1. CASE again
    BY <1>1, <2>1 DEF TrkInv
  <2>2. CASE ~again
    <3>1. chan' = [chan EXCEPT ![c] = r]
      BY <1>1, <2>2
    <3> HIDE DEF r
    <3>2. chan' \in [Cids -> Seq(Msg)] /\ chan'[c] = r /\ \A d \in Cids : d # c => chan'[d] = chan[d]
      BY <1>3, <3>1 DEF TrkInv
    <3>3. \A k \in 1..Len(chan[c]) : Told(c, chan[c][k], venue[c].trades)
      BY DEF TrkInv
    <3>4. \A j \in 1..Len(r) : Told(c, r[j], venue[c].trades)
      BY <1>3, <3>3
    <3> QED
      BY <3>2, <3>4 DEF TrkInv
  <2> QED
    BY <2>1, <2>2
<1>6. repeated' \in 0..Repeats
  BY <1>1, OTAssumption DEF TrkInv
<1>7. venue' = venue /\ age' = age
  BY <1>1
<1> HIDE DEF m, r
<1> QED
  BY <1>4, <1>5, <1>6, <1>7 DEF TrkInv

LEMMA PublishTracks ==
  ASSUME TrkInv, NEW c \in Cids, NEW status \in OrderStatus \cup AlgoStatus,
         NEW tid \in {0, venue[c].trades + 1},
         c \in Orders => status \in OrderStatus, Publish(c, status, tid)
  PROVE  TrkInv'
<1> DEFINE m == [status |-> status, tid |-> tid]
           v == [status |-> status, trades |-> IF tid = 0 THEN venue[c].trades ELSE tid]
<1>1. venue' = [venue EXCEPT ![c] = v] /\ chan' = [chan EXCEPT ![c] = Append(@, m)]
      /\ UNCHANGED <<age, trk, repeated>>
  BY DEF Publish
<1>2. venue[c].trades \in Nat /\ chan[c] \in Seq(Msg)
  BY DEF TrkInv, VenueT
<1>3. /\ v \in VenueT /\ v.trades >= venue[c].trades /\ v.trades \in Nat
      /\ m \in Msg /\ m.tid <= v.trades /\ m.status = status
  BY <1>2 DEF VenueT, Msg
<1> HIDE DEF m, v
<1>4. /\ venue' \in [Cids -> VenueT] /\ venue'[c] = v
      /\ \A d \in Cids : d # c => venue'[d] = venue[d]
      /\ chan' \in [Cids -> Seq(Msg)] /\ chan'[c] = Append(chan[c], m)
      /\ \A d \in Cids : d # c => chan'[d] = chan[d]
  BY <1>1, <1>2, <1>3 DEF TrkInv
<1>5. \A x : x.tid \in Nat /\ Told(c, x, venue[c].trades) => Told(c, x, v.trades)
  BY <1>2, <1>3 DEF Told
<1>6. \A i \in 1..Len(chan'[c]) : Told(c, chan'[c][i], v.trades)
  <2>1. Told(c, m, v.trades)
    BY <1>3 DEF Told
  <2>2. \A i \in 1..Len(chan[c]) : Told(c, chan[c][i], v.trades)
    <3>1. \A i \in 1..Len(chan[c]) : chan[c][i] \in Msg /\ Told(c, chan[c][i], venue[c].trades)
      BY <1>2 DEF TrkInv
    <3> QED
      BY <1>5, <3>1 DEF Msg
  <2>3. Len(chan'[c]) = Len(chan[c]) + 1
        /\ \A i \in 1..Len(chan'[c]) : chan'[c][i] = IF i = Len(chan[c]) + 1 THEN m ELSE chan[c][i]
    BY <1>2, <1>3, <1>4
  <2> QED
    BY <1>2, <2>1, <2>2, <2>3
<1>7. \A d \in Cids : \A i \in 1..Len(chan'[d]) : Told(d, chan'[d][i], venue'[d].trades)
  BY <1>4, <1>6 DEF TrkInv
<1>8. \A o \in Orders : Counted(trk'[o], venue'[o].trades)
  <2>1. c \in Orders => Counted(trk[c], v.trades)
    BY <1>2, <1>3 DEF Counted, TrkInv
  <2> QED
    BY <1>1, <1>4, <2>1 DEF TrkInv, Cids
<1> QED
  BY <1>1, <1>4, <1>7, <1>8 DEF TrkInv

LEMMA StepTrk == ASSUME TrkInv, [TrackNext]_trackVars PROVE TrkInv'
<1>1. ASSUME NEW c \in Cids, Deliver(c) PROVE TrkInv'
  BY <1>1, DeliverTracks
<1>2. ASSUME UNCHANGED <<trk, venue, chan, repeated>>, age' \in [Cids -> Nat] PROVE TrkInv'
  BY <1>2 DEF TrkInv
<1>3. ASSUME NEW c \in Cids, Register(c) \/ MarkUnknown(c) PROVE TrkInv'
  BY <1>2, <1>3 DEF Register, MarkUnknown, TrkInv
<1>4. CASE Tick
  <2>1. age' \in [Cids -> Nat]
    BY <1>4 DEF Tick, TrkInv
  <2> QED
    BY <1>2, <1>4, <2>1 DEF Tick
<1>5. ASSUME NEW c \in Orders, VenueOrder(c) PROVE TrkInv'
  <2>1. PICK status \in OrderStatus, tid \in {0, venue[c].trades + 1} : Publish(c, status, tid)
    BY <1>5 DEF VenueOrder, OrderStatus, OrderEnd
  <2> QED
    BY <2>1, PublishTracks DEF Cids
<1>6. ASSUME NEW c \in Algos, VenueAlgo(c) PROVE TrkInv'
  <2>1. PICK status \in AlgoStatus : Publish(c, status, 0)
    BY <1>6 DEF VenueAlgo, AlgoStatus, AlgoEnd
  <2>2. c \notin Orders
    BY OTAssumption
  <2> QED
    BY <2>1, <2>2, PublishTracks DEF Cids
<1>7. CASE UNCHANGED trackVars
  BY <1>2, <1>7 DEF trackVars, TrkInv
<1> QED
  BY <1>1, <1>3, <1>4, <1>5, <1>6, <1>7 DEF TrackNext

LEMMA TrackIsRight == ASSUME RefInv, TrkInv PROVE TrackTypeOK /\ UnknownIsOpen /\ NeverOvercounts
<1>1. \A c \in Cids : \A i \in 1..Len(chan[c]) : chan[c][i] \in Msg
  BY DEF TrkInv
<1>2. \A c \in Cids : trk[c].status \in OrderStatus /\ trk[c].filled \in Nat
  BY DEF TrkInv, Tracked
<1>3. ASSUME NEW c \in Orders PROVE trk[c].filled <= venue[c].trades
  <2>1. /\ venue[c].trades \in Nat /\ trk[c].filled \in Nat
        /\ Counted(trk[c], venue[c].trades)
    BY <1>2 DEF TrkInv, VenueT, Cids
  <2>2. Cardinality(trk[c].trades) \in Nat /\ Cardinality(trk[c].trades) <= venue[c].trades
    BY <2>1, CountedFinite DEF Counted
  <2> QED
    BY <2>1, <2>2 DEF Counted
<1> QED
  BY <1>1, <1>2, <1>3 DEF RefInv, TrkInv, TrackTypeOK, NeverOvercounts

-----------------------------------------------------------------------------
GInv == StreamTypeOK /\ OrdersOnce /\ KillInv /\ RefInv /\ TrkInv

LEMMA StepGInv == ASSUME GInv, [GateNext]_gateVars PROVE GInv'
BY OnePart, StepStream, StepPool, StepKill, StepRef, StepTrk DEF GInv

LEMMA GateSteps == GateSpec => GateInit /\ [][GateNext]_gateVars
BY DEF GateSpec

LEMMA Invariance == GateSpec => []GInv
<1>1. GateInit => GInv
  BY InitStream, InitPool, InitKill, InitRef, InitTrk DEF GateInit, GInv
<1>2. GInv /\ [GateNext]_gateVars => GInv'
  BY StepGInv
<1> QED
  BY <1>1, <1>2, GateSteps, PTL

(* However messages are repeated and reordered, the tracker counts no      *)
(* trade twice and the set of orders to be resolved is right, for any      *)
(* number of orders and trades.                                            *)
THEOREM BeliefsAreTrue == GateSpec => []BeliefsTrue
<1>1. GInv => BeliefsTrue
  BY TrackIsRight DEF GInv, KillInv, BeliefsTrue
<1> QED
  BY <1>1, Invariance, PTL

(* No failure of the connection makes the venue execute an order twice,    *)
(* and what was reported as failed was not executed, but for the answers   *)
(* FailedIsNotDone names.                                                  *)
THEOREM OrdersGoOnce == GateSpec => []OrdersOnce
<1>1. GInv => OrdersOnce
  BY DEF GInv
<1> QED
  BY <1>1, Invariance, PTL

(* The paper trader opens the switch only when the file is not active, and *)
(* the reason stays against every kill that begins once it is written: for *)
(* any number of threads, triggers, resets and restarts.                   *)
THEOREM SwitchIsKept == GateSpec => SwitchKept
<1>1. GInv /\ [GateNext]_gateVars => [~testnet => Keeps]_killVars
  BY OnePart, StepKill DEF GInv
<1> QED
  BY <1>1, Invariance, GateSteps, PTL DEF SwitchKept, Keeps

(* No event, error or sweep moves an order back, out of a terminal state   *)
(* least of all.                                                           *)
THEOREM OrdersGoForward == GateSpec => NeverBackwards
<1>1. GInv /\ [GateNext]_gateVars
        => [\A c \in Cids : ref[c] # "none" =>
              /\ ref[c] \in Terminal => ref'[c] \in Terminal
              /\ Rank(ref'[c]) >= Rank(ref[c])]_trackVars
  BY OnePart, StepRef DEF GInv, Onward
<1> QED
  BY <1>1, Invariance, GateSteps, PTL DEF NeverBackwards
=============================================================================
