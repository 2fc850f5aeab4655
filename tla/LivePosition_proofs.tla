------------------------ MODULE LivePosition_proofs -------------------------
(***************************************************************************)
(* Theorems about LivePosition, for every value of the constants: every    *)
(* number of entries and of faults, every size of the queue and every wait *)
(* and period LiveAssumption allows.                                       *)
(*                                                                         *)
(* The inductive invariant LiveInv says where an entry is on its way       *)
(* (UnderWay), that the reservation covers it until the core has heard of  *)
(* it, that what is held without the core's knowledge is covered by the    *)
(* reservation or by the closed lock (Held), and that for every order of a *)
(* closed position the request that cancels it is in the queue, before the *)
(* next entry, or was refused (OldStops).                                  *)
(***************************************************************************)
EXTENDS LivePosition, SequenceTheorems, FiniteSetTheorems, TLAPS

-----------------------------------------------------------------------------
(* The handlers a live position meets.  No algo_ack reaches one, so none   *)
(* is ever MANAGED and a tick is silent or an emergency.                   *)

Guards == {<<"SL", 1>>, <<"TP", 1>>}
LiveState == {"ENTRY_SENT", "PROTECTING", "EMERGENCY", "CLOSED"}

LEMMA Literals == 0 \in Int /\ 0 \in Nat /\ 1 \in Nat /\ Off \in Int
  BY DEF Off

LEMMA NewPositionType ==
  NewPosition \in Position /\ NewPosition.state = "ENTRY_SENT" /\ NewPosition.active = {}
  BY DEF NewPosition, Position, PosState, NoOrder, Off

LEMMA FillEffect ==
  ASSUME NEW p \in Position, NEW price \in Int, NEW qty \in Nat, NEW stop \in Int
  PROVE  LET r == OnEntryFill(p, price, qty, stop)
         IN /\ r.pos \in Position /\ r.pos.state = "PROTECTING" /\ r.pos.active = Guards
            /\ r.ctl = {PlaceAlgo(<<"SL", 1>>), PlaceAlgo(<<"TP", 1>>)} /\ r.ord = {}
<1> DEFINE s == StopTrigger(stop)
           q == [p EXCEPT !.entryPrice = price, !.qty = qty, !.holdAge = 0,
                          !.sl = s, !.slv = 1, !.tpv = 1,
                          !.protectAge = 0, !.state = "PROTECTING", !.active = Guards]
<1>1. s \in Int
  BY PMAssumption DEF StopTrigger
<1>2. Guards \in SUBSET AlgoId
  BY DEF Guards, AlgoId
<1>3. OnEntryFill(p, price, qty, stop)
        = [pos |-> q, ctl |-> {PlaceAlgo(SlId(q)), PlaceAlgo(TpId(q))}, ord |-> {}]
  BY DEF OnEntryFill, Guards
<1> HIDE DEF s
<1>4. q \in Position
  BY <1>1, <1>2, Literals, Zenon DEF Position, PosState
<1>5. q.slv = 1 /\ q.tpv = 1 /\ q.state = "PROTECTING" /\ q.active = Guards
  BY DEF Position
<1> HIDE DEF q
<1> QED
  BY <1>3, <1>4, <1>5 DEF SlId, TpId

LEMMA ExitTerminalType ==
  ASSUME NEW p \in Position, NEW id
  PROVE  LET q == OnExitTerminal(p, id)
         IN q \in Position /\ q.state = p.state /\ q.active = p.active /\ q.qty = p.qty
<1> DEFINE q == [p EXCEPT !.exitInFlight = NoOrder, !.exitAge = Off]
<1>1. q \in Position
  BY Literals, Zenon DEF Position
<1>2. q.state = p.state /\ q.active = p.active /\ q.qty = p.qty
  BY DEF Position
<1>3. OnExitTerminal(p, id) = IF p.exitInFlight = id THEN q ELSE p
  BY DEF OnExitTerminal
<1> HIDE DEF q
<1> QED
  BY <1>1, <1>2, <1>3

LEMMA ExitEffect ==
  ASSUME NEW p \in Position, NEW qty \in Nat, NEW id
  PROVE  LET r == OnExitFill(p, qty, id)
         IN /\ r.pos \in Position /\ r.ord = {}
            /\ \/ /\ r.pos.state = "CLOSED" /\ r.pos.active = {}
                  /\ r.ctl = {CancelAlgo(a) : a \in p.active}
               \/ r.pos.state = p.state /\ r.pos.active = p.active /\ r.ctl = {}
<1> DEFINE n0 == [p EXCEPT !.exitInFlight = NoOrder]
           q == IF id # NoOrder THEN OnExitTerminal(p, id) ELSE n0
           c == [q EXCEPT !.qty = 0, !.state = "CLOSED"]
           d == [c EXCEPT !.active = {}]
           m == [q EXCEPT !.qty = @ - qty]
<1>1. q \in Position /\ q.state = p.state /\ q.active = p.active /\ q.qty = p.qty
  <2>1. n0 \in Position
    BY Zenon DEF Position
  <2>2. n0.state = p.state /\ n0.active = p.active /\ n0.qty = p.qty
    BY DEF Position
  <2> HIDE DEF n0
  <2> QED
    BY <2>1, <2>2, ExitTerminalType
<1>2. OnExitFill(p, qty, id)
        = IF qty >= p.qty THEN [pos |-> d, ctl |-> {CancelAlgo(a) : a \in c.active}, ord |-> {}]
                          ELSE [pos |-> m, ctl |-> {}, ord |-> {}]
  BY DEF OnExitFill, CancelActive, Silent
<1> HIDE DEF q
<1>3. c \in Position /\ c.active = q.active
  <2>1. c \in Position
    BY <1>1, Literals, Zenon DEF Position, PosState
  <2> QED
    BY <2>1, <1>1 DEF Position
<1>4. d \in Position /\ d.state = "CLOSED" /\ d.active = {}
  <2>1. c.state = "CLOSED"
    BY <1>1 DEF Position
  <2> HIDE DEF c
  <2>2. d \in Position
    BY <1>3, Zenon DEF Position
  <2> QED
    BY <2>1, <2>2, <1>3 DEF Position
<1>5. ASSUME ~(qty >= p.qty) PROVE m \in Position /\ m.state = q.state /\ m.active = q.active
  <2>1. q.qty - qty \in Nat
    BY <1>1, <1>5 DEF Position
  <2>2. m \in Position
    BY <1>1, <2>1, Zenon DEF Position
  <2> QED
    BY <2>2, <1>1 DEF Position
<1> HIDE DEF c, d, m
<1> QED
  BY <1>1, <1>2, <1>3, <1>4, <1>5

LEMMA AgedType ==
  ASSUME NEW p \in Position
  PROVE  Aged(p) \in Position /\ Aged(p).state = p.state /\ Aged(p).active = p.active
<1>1. \A age \in Int, t \in Nat : Older(age, t) \in Int
  BY DEF Older
<1>2. /\ Older(p.protectAge, TProtect) \in Int
      /\ Older(p.crossedAge, TBackup) \in Int
      /\ Older(p.replaceAge, MinInterval) \in Int
      /\ Older(p.holdAge, MaxHold) \in Int
      /\ Older(p.exitAge, ExitTtl) \in Int
  BY <1>1, PMAssumption DEF Position
<1>3. Aged(p) \in Position
  BY <1>2, Zenon DEF Position, Aged
<1> QED
  BY <1>3 DEF Position, Aged

(* A tick of an open position that is not MANAGED: silent, or the entry    *)
(* has waited too long for its protection and is closed.                   *)
LEMMA TickEffect ==
  ASSUME NEW p \in Position, p.state \in LiveState \ {"ENTRY_SENT", "CLOSED"},
         NEW mark, NEW label, NEW mode
  PROVE  LET r == OnTick(Aged(p), mark, label, mode)
         IN /\ r.pos \in Position /\ r.pos.active = p.active /\ r.ctl = {}
            /\ r.pos.state \in LiveState \ {"ENTRY_SENT", "CLOSED"}
            /\ \/ r.ord = {}
               \/ \E id \in ExitId, left \in Nat : r.ord = {[id |-> id, left |-> left]}
<1> DEFINE a == Aged(p)
           q == [a EXCEPT !.state = "EMERGENCY"]
           f == [q EXCEPT !.exitInFlight = NoOrder]
           u == Unlocked(q)
           id == <<"EM", u.exitSeq + 1>>
           x == [u EXCEPT !.exitSeq = @ + 1, !.exitInFlight = id, !.exitAge = 0]
<1>1. a \in Position /\ a.state = p.state /\ a.active = p.active
  BY AgedType
<1> HIDE DEF a
<1>2. OnTick(Aged(p), mark, label, mode)
        = IF mode # "HALTED" /\ ProtectTimeout(a)
          THEN IF ExitLocked(q) THEN Silent(q) ELSE ExitOrder(u, "EM")
          ELSE Silent(a)
  BY <1>1 DEF OnTick, LiveState, Emergency, a
<1>3. q \in Position /\ q.state = "EMERGENCY" /\ q.active = p.active
  <2>1. q \in Position
    BY <1>1, Zenon DEF Position, PosState
  <2> QED
    BY <2>1, <1>1 DEF Position
<1> HIDE DEF q
<1>4. u \in Position /\ u.state = "EMERGENCY" /\ u.active = p.active
  <2>1. f \in Position
    BY <1>3, Zenon DEF Position
  <2>2. f.state = "EMERGENCY" /\ f.active = p.active
    BY <2>1, <1>3 DEF Position
  <2>3. u = IF LockExpired(q) THEN f ELSE q
    BY DEF Unlocked
  <2> HIDE DEF u, f
  <2> QED
    BY <1>3, <2>1, <2>2, <2>3
<1> HIDE DEF u
<1>5. id \in ExitId /\ u.exitSeq + 1 \in Nat /\ u.qty \in Nat
  BY <1>4 DEF Position, ExitId
<1>6. ExitOrder(u, "EM") = [pos |-> x, ctl |-> {}, ord |-> {[id |-> id, left |-> u.qty]}]
  BY DEF ExitOrder
<1> HIDE DEF id
<1>7. x \in Position /\ x.state = "EMERGENCY" /\ x.active = p.active
  <2>1. x \in Position
    BY <1>4, <1>5, Literals, Zenon DEF Position
  <2> QED
    BY <2>1, <1>4 DEF Position
<1> HIDE DEF x
<1> QED
  BY <1>1, <1>2, <1>3, <1>5, <1>6, <1>7 DEF Silent, LiveState

-----------------------------------------------------------------------------
(* What one step hands to the queue. *)

Command == [entry : Entries, kind : {"entry", "place", "cancel", "exit"},
            cid : {EntryCid} \cup Guards \cup ExitId, qty : Nat]

Places(e)  == <<Cmd(e, "place", <<"SL", 1>>, 0), Cmd(e, "place", <<"TP", 1>>, 0)>>
Cancels(e) == <<Cmd(e, "cancel", <<"SL", 1>>, 0), Cmd(e, "cancel", <<"TP", 1>>, 0)>>

LEMMA Pair ==
  ASSUME NEW a, NEW b
  PROVE  /\ <<a>> \o <<b>> = <<a, b>>
         /\ <<>> \o <<a>> = <<a>>
         /\ <<a, b>> \o <<>> = <<a, b>> /\ <<>> \o <<>> = <<>>
<1> DEFINE S == {a, b}
<1>1. <<a>> \in Seq(S) /\ <<b>> \in Seq(S) /\ <<a, b>> \in Seq(S) /\ <<>> \in Seq(S)
  OBVIOUS
<1>2. <<a>> \o <<b>> = <<a, b>>
  <2>1. <<a>> \o <<b>> \in Seq(S) /\ Len(<<a>> \o <<b>>) = 2
    BY <1>1, ConcatProperties
  <2>2. (<<a>> \o <<b>>)[1] = a /\ (<<a>> \o <<b>>)[2] = b
    BY <1>1, ConcatProperties
  <2>3. Len(<<a, b>>) = 2 /\ <<a, b>>[1] = a /\ <<a, b>>[2] = b
    OBVIOUS
  <2>4. \A i \in 1..2 : i = 1 \/ i = 2
    OBVIOUS
  <2>5. \A i \in 1..2 : (<<a>> \o <<b>>)[i] = <<a, b>>[i]
    BY <2>2, <2>3, <2>4
  <2> HIDE DEF S
  <2> QED
    BY <1>1, <2>1, <2>3, <2>5, SeqEqual
<1> QED
  BY <1>1, <1>2, ConcatEmptySeq

LEMMA ElementsOfPair ==
  ASSUME NEW a, NEW b PROVE Elements(<<a>>) = {a} /\ Elements(<<a, b>>) = {a, b}
<1>1. Len(<<a>>) = 1 /\ <<a>>[1] = a /\ Len(<<a, b>>) = 2 /\ <<a, b>>[1] = a /\ <<a, b>>[2] = b
  OBVIOUS
<1>2. \A i : (i \in 1..2 <=> i = 1 \/ i = 2) /\ (i \in 1..1 <=> i = 1)
  OBVIOUS
<1>3. \A x : x \in Elements(<<a, b>>) <=> x = a \/ x = b
  BY <1>1, <1>2 DEF Elements
<1>4. \A x : x \in Elements(<<a>>) <=> x = a
  BY <1>1, <1>2 DEF Elements
<1> QED
  BY <1>3, <1>4

(* The five groups of Commands, each by itself, and Commands their join. *)
Placing(r, role)    == {c \in r.ctl : c.kind = "place"  /\ c.id[1] = role}
Cancelling(r, role) == {c \in r.ctl : c.kind = "cancel" /\ c.id[1] = role}
One(e, S, kind)     == IF S = {} THEN <<>> ELSE <<Cmd(e, kind, (CHOOSE c \in S : TRUE).id, 0)>>
Exiting(e, r) ==
  IF r.ord = {} THEN <<>> ELSE LET o == CHOOSE x \in r.ord : TRUE IN <<Cmd(e, "exit", o.id, o.left)>>
Join(x, p1, p2, c1, c2) == x \o p1 \o p2 \o c1 \o c2

LEMMA CommandGroups ==
  ASSUME NEW e, NEW r
  PROVE  Commands(e, r) =
           Join(Exiting(e, r), One(e, Placing(r, "SL"), "place"), One(e, Placing(r, "TP"), "place"),
                One(e, Cancelling(r, "SL"), "cancel"), One(e, Cancelling(r, "TP"), "cancel"))
  BY Zenon DEF Commands, Placing, Cancelling, One, Exiting, Join

LEMMA OneOf ==
  ASSUME NEW e, NEW kind
  PROVE  /\ One(e, {}, kind) = <<>>
         /\ \A c : One(e, {c}, kind) = <<Cmd(e, kind, c.id, 0)>>
<1>1. \A c : (CHOOSE x \in {c} : TRUE) = c
  OBVIOUS
<1> QED
  BY <1>1 DEF One

LEMMA Ids == (\A a : PlaceAlgo(a).id = a) /\ (\A a : CancelAlgo(a).id = a)
  BY DEF PlaceAlgo, CancelAlgo

LEMMA PlaceCommands ==
  ASSUME NEW e, NEW r, r.ord = {},
         r.ctl = {PlaceAlgo(<<"SL", 1>>), PlaceAlgo(<<"TP", 1>>)}
  PROVE  Commands(e, r) = Places(e)
<1>1. Cancelling(r, "SL") = {} /\ Cancelling(r, "TP") = {}
  BY DEF PlaceAlgo, Cancelling
<1>2. Placing(r, "SL") = {PlaceAlgo(<<"SL", 1>>)} /\ Placing(r, "TP") = {PlaceAlgo(<<"TP", 1>>)}
  BY DEF PlaceAlgo, Placing
<1>3. Exiting(e, r) = <<>>
  BY DEF Exiting
<1>4. /\ One(e, {PlaceAlgo(<<"SL", 1>>)}, "place") = <<Cmd(e, "place", <<"SL", 1>>, 0)>>
      /\ One(e, {PlaceAlgo(<<"TP", 1>>)}, "place") = <<Cmd(e, "place", <<"TP", 1>>, 0)>>
      /\ One(e, {}, "cancel") = <<>>
  <2>1. \A a : PlaceAlgo(a).id = a
    BY Ids
  <2>2. \A c : One(e, {c}, "place") = <<Cmd(e, "place", c.id, 0)>>
    BY OneOf
  <2>3. One(e, {}, "cancel") = <<>>
    BY OneOf
  <2> QED
    BY <2>1, <2>2, <2>3
<1>5. Commands(e, r) = Join(<<>>, <<Cmd(e, "place", <<"SL", 1>>, 0)>>,
                            <<Cmd(e, "place", <<"TP", 1>>, 0)>>, <<>>, <<>>)
  BY <1>1, <1>2, <1>3, <1>4, CommandGroups
<1> QED
  BY <1>5, Pair DEF Places, Join

LEMMA CancelCommands ==
  ASSUME NEW e, NEW r, r.ord = {}, r.ctl = {CancelAlgo(a) : a \in Guards}
  PROVE  Commands(e, r) = Cancels(e)
<1>1. Placing(r, "SL") = {} /\ Placing(r, "TP") = {}
  BY DEF CancelAlgo, Placing
<1>2. Cancelling(r, "SL") = {CancelAlgo(<<"SL", 1>>)} /\ Cancelling(r, "TP") = {CancelAlgo(<<"TP", 1>>)}
  BY DEF CancelAlgo, Guards, Cancelling
<1>3. Exiting(e, r) = <<>>
  BY DEF Exiting
<1>4. /\ One(e, {CancelAlgo(<<"SL", 1>>)}, "cancel") = <<Cmd(e, "cancel", <<"SL", 1>>, 0)>>
      /\ One(e, {CancelAlgo(<<"TP", 1>>)}, "cancel") = <<Cmd(e, "cancel", <<"TP", 1>>, 0)>>
      /\ One(e, {}, "place") = <<>>
  <2>1. \A a : CancelAlgo(a).id = a
    BY Ids
  <2>2. \A c : One(e, {c}, "cancel") = <<Cmd(e, "cancel", c.id, 0)>>
    BY OneOf
  <2>3. One(e, {}, "place") = <<>>
    BY OneOf
  <2> QED
    BY <2>1, <2>2, <2>3
<1>5. Commands(e, r) = Join(<<>>, <<>>, <<>>, <<Cmd(e, "cancel", <<"SL", 1>>, 0)>>,
                            <<Cmd(e, "cancel", <<"TP", 1>>, 0)>>)
  BY <1>1, <1>2, <1>3, <1>4, CommandGroups
<1> QED
  BY <1>5, Pair DEF Cancels, Join

LEMMA ExitCommands ==
  ASSUME NEW e, NEW r, r.ctl = {}, NEW id, NEW left, r.ord = {[id |-> id, left |-> left]}
  PROVE  Commands(e, r) = <<Cmd(e, "exit", id, left)>>
<1>1. \A role : Placing(r, role) = {} /\ Cancelling(r, role) = {}
  BY DEF Placing, Cancelling
<1>2. Exiting(e, r) = <<Cmd(e, "exit", id, left)>>
  <2> DEFINE o == [id |-> id, left |-> left]
  <2>1. o.id = id /\ o.left = left /\ r.ord = {o}
    OBVIOUS
  <2> HIDE DEF o
  <2>2. (CHOOSE x \in {o} : TRUE) = o /\ {o} # {}
    OBVIOUS
  <2> QED
    BY <2>1, <2>2 DEF Exiting
<1>3. Commands(e, r) = Join(<<Cmd(e, "exit", id, left)>>, <<>>, <<>>, <<>>, <<>>)
  BY <1>1, <1>2, OneOf, CommandGroups
<1> QED
  BY <1>3 DEF Cmd, Join

LEMMA NoCommands ==
  ASSUME NEW e, NEW r, r.ctl = {}, r.ord = {}
  PROVE  Commands(e, r) = <<>>
<1>1. \A role : Placing(r, role) = {} /\ Cancelling(r, role) = {}
  BY DEF Placing, Cancelling
<1>2. Exiting(e, r) = <<>>
  BY DEF Exiting
<1>3. Commands(e, r) = Join(<<>>, <<>>, <<>>, <<>>, <<>>)
  BY <1>1, <1>2, OneOf, CommandGroups
<1> QED
  BY <1>3 DEF Join

LEMMA CommandTypes ==
  ASSUME NEW e \in Entries
  PROVE  /\ Places(e) \in Seq(Command) /\ Cancels(e) \in Seq(Command)
         /\ \A id \in ExitId, q \in Nat : <<Cmd(e, "exit", id, q)>> \in Seq(Command)
         /\ <<Cmd(e, "entry", EntryCid, EntryQty)>> \in Seq(Command)
  BY LiveAssumption DEF Command, Places, Cancels, Cmd, Guards

(* A step's commands follow the queue; what found no room is missing at    *)
(* the end, and a cancel that is missing is counted among the refused.     *)
LEMMA SendsShape ==
  ASSUME queue \in Seq(Command), Len(queue) <= QMax, NEW cs \in Seq(Command), Sends(cs)
  PROVE  /\ queue' \in Seq(Command) /\ Len(queue') <= QMax
         /\ Len(queue) <= Len(queue') /\ Len(queue') <= Len(queue) + Len(cs)
         /\ \A i \in 1..Len(queue) : queue'[i] = queue[i]
         /\ \A i \in Len(queue) + 1..Len(queue') :
              i - Len(queue) \in 1..Len(cs) /\ queue'[i] = cs[i - Len(queue)]
         /\ refused \subseteq refused'
         /\ \A j \in 1..Len(cs) : cs[j].kind = "cancel" =>
              \/ <<cs[j].entry, cs[j].cid>> \in refused'
              \/ \E i \in 1..Len(queue') : queue'[i] = cs[j]
<1> DEFINE room == Room(cs)
           k == IF Len(queue) > room THEN 0 ELSE room - Len(queue)
<1>1. QMax \in Nat /\ Reserve \in Nat /\ Reserve < QMax /\ Len(queue) \in Nat /\ Len(cs) \in Nat
  BY LiveAssumption
<1>2. room \in Nat /\ room <= QMax
  BY <1>1 DEF Room
<1>3. queue' = IF Len(queue) + Len(cs) <= room THEN queue \o cs ELSE queue \o SubSeq(cs, 1, k)
  BY DEF Sends, PutAll
<1> HIDE DEF room
<1>4. CASE Len(queue) + Len(cs) <= room
  <2>1. queue' = queue \o cs
    BY <1>3, <1>4
  <2>2. Len(queue') = Len(queue) + Len(cs) /\ queue' \in Seq(Command)
    BY <2>1
  <2>3. \A i \in 1..Len(queue) : queue'[i] = queue[i]
    BY <2>1
  <2>4. \A i \in Len(queue) + 1..Len(queue') :
          i - Len(queue) \in 1..Len(cs) /\ queue'[i] = cs[i - Len(queue)]
    BY <2>1, <2>2, <1>1
  <2>5. \A j \in 1..Len(cs) : queue'[Len(queue) + j] = cs[j] /\ Len(queue) + j \in 1..Len(queue')
    BY <2>1, <2>2, <1>1
  <2>6. refused \subseteq refused'
    BY DEF Sends
  <2>7. Len(queue') <= QMax /\ Len(queue) <= Len(queue') /\ Len(queue') <= Len(queue) + Len(cs)
    BY <1>1, <1>2, <1>4, <2>2
  <2> QED
    BY <2>2, <2>3, <2>4, <2>5, <2>6, <2>7
<1>5. CASE ~(Len(queue) + Len(cs) <= room)
  <2>1. k \in 0..Len(cs) /\ Len(queue) + k <= QMax
    BY <1>1, <1>2, <1>5
  <2>2. queue' = queue \o SubSeq(cs, 1, k)
    BY <1>3, <1>5
  <2> HIDE DEF k
  <2> DEFINE t == SubSeq(cs, 1, k)
  <2>3. t \in Seq(Command) /\ Len(t) = k /\ \A i \in 1..k : t[i] = cs[i]
    BY <1>1, <2>1
  <2> HIDE DEF t
  <2>4. queue' = queue \o t
    BY <2>2 DEF t
  <2>5. Len(queue') = Len(queue) + k /\ queue' \in Seq(Command)
    BY <2>3, <2>4, ConcatProperties
  <2>6. \A i \in 1..Len(queue) : queue'[i] = queue[i]
    BY <2>3, <2>4
  <2>7. \A i \in Len(queue) + 1..Len(queue') :
          i - Len(queue) \in 1..Len(cs) /\ queue'[i] = cs[i - Len(queue)]
    <3> SUFFICES ASSUME NEW i \in Len(queue) + 1..Len(queue')
                 PROVE  i - Len(queue) \in 1..Len(cs) /\ queue'[i] = cs[i - Len(queue)]
      OBVIOUS
    <3>1. i - Len(queue) \in 1..k
      BY <1>1, <2>1, <2>5
    <3>2. queue'[i] = t[i - Len(queue)]
      BY <1>1, <2>3, <2>4, <2>5
    <3> QED
      BY <1>1, <2>1, <2>3, <3>1, <3>2
  <2>8. \A j \in 1..Len(cs) : cs[j].kind = "cancel" =>
              \/ <<cs[j].entry, cs[j].cid>> \in refused'
              \/ \E i \in 1..Len(queue') : queue'[i] = cs[j]
    BY DEF Sends, Elements
  <2> QED
    BY <1>1, <2>1, <2>5, <2>6, <2>7, <2>8 DEF Sends
<1> QED
  BY <1>4, <1>5

(* The queue and the stream without their oldest element. *)
LEMMA TailShape ==
  ASSUME NEW S, NEW s \in Seq(S), s # <<>>
  PROVE  /\ Tail(s) \in Seq(S) /\ Len(Tail(s)) = Len(s) - 1 /\ Len(s) \in Nat \ {0}
         /\ \A i \in 1..Len(Tail(s)) : i + 1 \in 1..Len(s) /\ Tail(s)[i] = s[i + 1]
         /\ Head(s) = s[1] /\ Head(s) \in S
  OBVIOUS

-----------------------------------------------------------------------------
(* The inductive invariant. *)

Cid == {EntryCid, ChildCid} \cup Guards \cup ExitId
FrameType == [kind : {"fill", "done", "trig"}, entry : Entries, cid : Cid, qty : Nat]
Closed(e)   == pos[e].state = "CLOSED"
CmdOrder(i) == <<queue[i].entry, queue[i].cid>>
InQueue     == 1..Len(queue)

LiveTypes ==
  /\ pos \in [Entries -> Position] /\ \A e \in Entries : pos[e].state \in LiveState
  /\ res \in [pending : BOOLEAN, lease : {"none", "entry", "bound"}, age : Off..PendTtl]
  /\ reconciled \in BOOLEAN /\ since \in 0..RecPeriod
  /\ queue \in Seq(Command) /\ Len(queue) <= QMax /\ feed \in Seq(FrameType)
  /\ vqty \in [Entries -> 0..EntryQty] /\ n \in 0..MaxEntries
  /\ regs \subseteq (1..n) \X ({EntryCid} \cup Guards) /\ valgos \subseteq (1..n) \X Guards
  /\ vrepairs \subseteq Entries \X {RepairCid("SL"), RepairCid("TP")}

(* What is known of an order by the names of its commands, its frames and  *)
(* its place in the registry.                                              *)
OrderlyQueue ==
  \A i \in InQueue :
    /\ queue[i].entry \in 1..n
    /\ queue[i].kind = "entry" => queue[i].cid = EntryCid
    /\ queue[i].kind \in {"place", "cancel"} => queue[i].cid \in Guards
    /\ queue[i].kind = "exit" => queue[i].cid \in ExitId
    /\ queue[i].kind # "entry" => Known(queue[i].entry)
    /\ queue[i].kind = "cancel" => Closed(queue[i].entry)
OrderlyFeed ==
  \A f \in Elements(feed) :
    /\ f.entry \in 1..n
    /\ f.cid = EntryCid => <<f.entry, EntryCid>> \in regs
    /\ f.cid # EntryCid => Known(f.entry) \/ <<f.entry, EntryCid>> \notin regs
OrderlyRegs ==
  \A e \in Entries :
    /\ Known(e) => <<e, EntryCid>> \in regs
    /\ \A c \in Guards : <<e, c>> \in regs => Known(e)
    /\ pos[e].active = IF Known(e) /\ ~Closed(e) THEN Guards ELSE {}

(* An entry in the queue, and one whose fill is still on its way, is the   *)
(* last one decided, and its reservation stands.                           *)
UnderWay ==
  \A i \in InQueue : queue[i].kind = "entry" =>
    /\ queue[i].entry = n /\ ~Known(n) /\ <<n, EntryCid>> \in regs
    /\ OpenPositions = {} /\ Holding = {}
    /\ res.lease = "entry" /\ res.age \in 0..MaxWait
    /\ \A j \in InQueue : queue[j].kind = "entry" => i = j
    /\ \A f \in Elements(feed) : f.cid = EntryCid => f.entry # n
Unheard ==
  \A f \in Elements(feed) : f.cid = EntryCid /\ ~Known(f.entry) =>
    /\ f.entry = n /\ OpenPositions = {}
    /\ res.lease = "entry" /\ res.age \in 0..(MaxWait + MaxDelay)

(* What the core has closed is gone, and so is what it is about to close.  *)
Gone    == \A e \in Entries : Closed(e) => vqty[e] = 0
Closing ==
  \A f \in Elements(feed) :
    f.kind = "fill" /\ f.cid # EntryCid /\ <<f.entry, f.cid>> \in regs /\ f.entry \in OpenPositions
      => Holding = {}

(* What is held is the last entry's, and the core knows of it, or the      *)
(* reservation covers it until the next reconciliation has closed the lock.*)
Held    == \A e \in Holding : e = n
Covered ==
  Holding # {} /\ OpenPositions = {} =>
    ~reconciled \/ (res.lease = "entry" /\ res.age \in 0..(MaxWait + since))
Orphans ==
  \A a \in valgos : ~Known(a[1]) => ~reconciled /\ regs = {} /\ queue = <<>>

(* The request that cancels an order of a closed position is behind the    *)
(* one that places it and before the next entry.                           *)
Dropped(a, lo, hi) ==
  \E j \in InQueue : lo < j /\ j < hi /\ queue[j].kind = "cancel" /\ CmdOrder(j) = a
ClosedAlgos ==
  \A a \in valgos : Closed(a[1]) => a \in refused \/ Dropped(a, 0, Len(queue) + 1)
ClosedPlaces ==
  \A i \in InQueue : queue[i].kind = "place" /\ Closed(queue[i].entry) =>
    CmdOrder(i) \in refused \/ Dropped(CmdOrder(i), i, Len(queue) + 1)
BeforeEntry ==
  \A k \in InQueue : queue[k].kind = "entry" =>
    /\ \A a \in valgos : a \in refused \/ Dropped(a, 0, k)
    /\ \A i \in InQueue : queue[i].kind = "place" =>
         CmdOrder(i) \in refused \/ Dropped(CmdOrder(i), i, k)
BesideHeld ==
  Holding # {} =>
    /\ \A a \in valgos : a[1] = n \/ a \in refused
    /\ \A i \in InQueue : queue[i].kind = "place" =>
         queue[i].entry = n \/ CmdOrder(i) \in refused
OldStops == ClosedAlgos /\ ClosedPlaces /\ BeforeEntry /\ BesideHeld

Orderly == OrderlyQueue /\ OrderlyFeed /\ OrderlyRegs
Reserved == UnderWay /\ Unheard /\ Covered /\ Orphans
Owned    == Gone /\ Closing /\ Held
LiveInv  == LiveTypes /\ Orderly /\ Reserved /\ Owned /\ OldStops

LEMMA CidKinds ==
  /\ EntryCid \notin Guards /\ EntryCid \notin ExitId /\ ChildCid # EntryCid
  /\ ChildCid \notin Guards /\ ChildCid \notin ExitId
  /\ \A c \in Guards : c \notin ExitId
  BY DEF EntryCid, ChildCid, Guards, ExitId

LEMMA LiveInit0 == LiveInit => LiveInv
<1> SUFFICES ASSUME LiveInit PROVE LiveInv
  OBVIOUS
<1>1. \A e \in Entries : ~Known(e) /\ ~Closed(e) /\ pos[e].active = {} /\ pos[e].state = "ENTRY_SENT"
  BY NewPositionType DEF LiveInit, Known, Closed
<1>2. Holding = {} /\ OpenPositions = {} /\ Elements(feed) = {} /\ InQueue = {}
  <2>1. EntryQty \in Nat /\ \A e \in Entries : vqty[e] = 0
    BY LiveAssumption DEF LiveInit
  <2> QED
    BY <1>1, <2>1 DEF Holding, OpenPositions, Elements, InQueue, LiveInit
<1>3. LiveTypes
  <2>1. pos \in [Entries -> Position]
    BY NewPositionType DEF LiveInit
  <2>2. NoRes \in [pending : BOOLEAN, lease : {"none", "entry", "bound"}, age : Off..PendTtl]
    BY LiveAssumption DEF NoRes, Off
  <2>3. vqty \in [Entries -> 0..EntryQty] /\ n \in 0..MaxEntries /\ since \in 0..RecPeriod
    BY LiveAssumption DEF LiveInit
  <2>4. queue \in Seq(Command) /\ Len(queue) <= QMax /\ feed \in Seq(FrameType)
    <3>1. queue = <<>> /\ feed = <<>>
      BY DEF LiveInit
    <3> QED
      BY <3>1, EmptySeq, LiveAssumption
  <2>5. reconciled \in BOOLEAN /\ regs = {} /\ valgos = {} /\ vrepairs = {} /\ res = NoRes
    BY DEF LiveInit
  <2> QED
    BY <1>1, <2>1, <2>2, <2>3, <2>4, <2>5 DEF LiveTypes, LiveState
<1>4. regs = {} /\ valgos = {}
  BY DEF LiveInit
<1>5. Orderly
  BY <1>1, <1>2, <1>4 DEF Orderly, OrderlyQueue, OrderlyFeed, OrderlyRegs
<1>6. Reserved
  BY <1>2, <1>4 DEF Reserved, UnderWay, Unheard, Covered, Orphans
<1>7. Owned
  BY <1>1, <1>2 DEF Owned, Gone, Closing, Held
<1>8. OldStops
  BY <1>2, <1>4 DEF OldStops, ClosedAlgos, ClosedPlaces, BeforeEntry, BesideHeld
<1> QED
  BY <1>3, <1>5, <1>6, <1>7, <1>8 DEF LiveInv

-----------------------------------------------------------------------------
(* What sets the steps apart on the queue and the stream. *)

LEMMA DroppedGrows ==
  ASSUME LiveTypes, LiveTypes', Len(queue) <= Len(queue'), \A i \in InQueue : queue'[i] = queue[i],
         NEW a, NEW lo, NEW hi, Dropped(a, lo, hi)
  PROVE  Dropped(a, lo, hi)'
<1>1. Len(queue) \in Nat /\ Len(queue') \in Nat
  BY DEF LiveTypes
<1>2. InQueue \subseteq InQueue'
  BY <1>1 DEF InQueue
<1> QED
  BY <1>2 DEF Dropped, CmdOrder

LEMMA DroppedWithin ==
  ASSUME LiveTypes, NEW a, NEW lo \in Nat, NEW hi \in Nat, NEW top \in Nat, hi <= top,
         Dropped(a, lo, hi)
  PROVE  Dropped(a, lo, top)
  BY DEF Dropped, InQueue, LiveTypes

LEMMA TellsShape ==
  ASSUME LiveTypes, NEW frames \in Seq(FrameType), Tells(frames)
  PROVE  feed' \in Seq(FrameType) /\ Elements(feed') \subseteq Elements(feed) \cup Elements(frames)
<1>1. feed \in Seq(FrameType)
  BY DEF LiveTypes
<1>2. CASE feed' = feed
  BY <1>1, <1>2
<1>3. CASE feed' = feed \o frames
  <2>1. feed' \in Seq(FrameType) /\ Len(feed') = Len(feed) + Len(frames)
    BY <1>1, <1>3, ConcatProperties
  <2>2. \A i \in 1..Len(feed') : feed'[i] = IF i <= Len(feed) THEN feed[i] ELSE frames[i - Len(feed)]
    BY <1>1, <1>3, <2>1, ConcatProperties
  <2>3. Len(feed) \in Nat /\ Len(frames) \in Nat
    BY <1>1
  <2>4. \A i \in 1..Len(feed') :
          feed'[i] \in Elements(feed) \/ feed'[i] \in Elements(frames)
    <3> SUFFICES ASSUME NEW i \in 1..Len(feed')
                 PROVE  feed'[i] \in Elements(feed) \/ feed'[i] \in Elements(frames)
      OBVIOUS
    <3>1. CASE i <= Len(feed)
      BY <2>1, <2>2, <2>3, <3>1 DEF Elements
    <3>2. CASE ~(i <= Len(feed))
      <4>1. i - Len(feed) \in 1..Len(frames)
        BY <2>1, <2>3, <3>2
      <4> QED
        BY <2>2, <3>2, <4>1 DEF Elements
    <3> QED
      BY <3>1, <3>2
  <2> QED
    BY <2>1, <2>4 DEF Elements
<1> QED
  BY <1>2, <1>3 DEF Tells

LEMMA TailElements ==
  ASSUME NEW S, NEW s \in Seq(S), s # <<>>
  PROVE  Elements(Tail(s)) \subseteq Elements(s) /\ Head(s) \in Elements(s)
  BY TailShape DEF Elements

(* A step in which no position opens or closes, and at most the exit of an *)
(* open one is queued.                                                     *)
LEMMA Calm ==
  ASSUME LiveInv, LiveTypes', UNCHANGED <<regs, vqty, n>>, valgos' \subseteq valgos,
         \A e \in Entries : /\ Known(e)' <=> Known(e)
                            /\ Closed(e)' <=> Closed(e)
                            /\ pos'[e].active = pos[e].active,
         refused \subseteq refused', Elements(feed') \subseteq Elements(feed),
         Len(queue) <= Len(queue'), \A i \in InQueue : queue'[i] = queue[i],
         \A i \in 1..Len(queue') :
            \/ i \in InQueue
            \/ /\ queue'[i].kind = "exit" /\ queue'[i].cid \in ExitId
               /\ queue'[i].entry \in OpenPositions
  PROVE  Orderly' /\ Owned' /\ OldStops'
<1>1. /\ LiveTypes /\ OrderlyQueue /\ OrderlyFeed /\ OrderlyRegs /\ Gone /\ Closing /\ Held
      /\ ClosedAlgos /\ ClosedPlaces /\ BeforeEntry /\ BesideHeld
  BY DEF LiveInv, Orderly, Owned, OldStops
<1>2. Holding' = Holding /\ OpenPositions' = OpenPositions
  BY DEF Holding, OpenPositions, Closed
<1>3. Len(queue) \in Nat /\ Len(queue') \in Nat /\ n \in Nat /\ 1..n \subseteq Entries
  BY <1>1, LiveAssumption DEF LiveTypes, Entries
<1>4. \A e \in OpenPositions : e \in 1..n /\ Known(e)
  <2> SUFFICES ASSUME NEW e \in OpenPositions PROVE e \in 1..n /\ Known(e)
    OBVIOUS
  <2>1. Known(e) /\ e \in Entries
    BY DEF OpenPositions
  <2>2. <<e, EntryCid>> \in regs
    BY <1>1, <2>1 DEF OrderlyRegs
  <2> QED
    BY <1>1, <2>1, <2>2 DEF LiveTypes
<1>5. \A a, lo, hi : Dropped(a, lo, hi) => Dropped(a, lo, hi)'
  BY <1>1, DroppedGrows
<1>6. OrderlyQueue'
  BY <1>1, <1>3, <1>4 DEF OrderlyQueue, InQueue
<1>7. OrderlyFeed'
  BY <1>1, <1>3 DEF OrderlyFeed
<1>8. OrderlyRegs'
  BY <1>1 DEF OrderlyRegs
<1>9. Gone' /\ Closing' /\ Held'
  BY <1>1, <1>2 DEF Gone, Closing, Held
<1>10. ClosedAlgos'
  <2> SUFFICES ASSUME NEW a \in valgos', Closed(a[1])'
               PROVE  a \in refused' \/ Dropped(a, 0, Len(queue) + 1)'
    BY DEF ClosedAlgos
  <2>1. a[1] \in Entries
    BY <1>1, <1>3 DEF LiveTypes
  <2>2. a \in refused \/ Dropped(a, 0, Len(queue) + 1)
    BY <1>1, <2>1 DEF ClosedAlgos
  <2>3. Dropped(a, 0, Len(queue) + 1) => Dropped(a, 0, Len(queue') + 1)
    BY <1>1, <1>3, DroppedWithin
  <2> QED
    BY <1>5, <2>2, <2>3 DEF Dropped, InQueue, CmdOrder
<1>11. ClosedPlaces'
  <2> SUFFICES ASSUME NEW i \in 1..Len(queue'), queue'[i].kind = "place", Closed(queue[i].entry)'
               PROVE  CmdOrder(i)' \in refused' \/ Dropped(CmdOrder(i), i, Len(queue) + 1)'
    BY DEF ClosedPlaces, InQueue
  <2>1. i \in InQueue /\ queue'[i] = queue[i]
    OBVIOUS
  <2>2. queue[i].entry \in Entries
    BY <1>1, <1>3, <2>1 DEF OrderlyQueue
  <2>3. CmdOrder(i) \in refused \/ Dropped(CmdOrder(i), i, Len(queue) + 1)
    BY <1>1, <2>1, <2>2 DEF ClosedPlaces
  <2>4. Dropped(CmdOrder(i), i, Len(queue) + 1) => Dropped(CmdOrder(i), i, Len(queue') + 1)
    BY <1>1, <1>3, DroppedWithin
  <2> QED
    BY <1>3, <1>5, <2>1, <2>3, <2>4 DEF Dropped, InQueue, CmdOrder
<1>12. BeforeEntry'
  <2> SUFFICES ASSUME NEW k \in 1..Len(queue'), queue'[k].kind = "entry"
               PROVE  /\ \A a \in valgos' : a \in refused' \/ Dropped(a, 0, k)'
                      /\ \A i \in 1..Len(queue') : queue'[i].kind = "place" =>
                           CmdOrder(i)' \in refused' \/ Dropped(CmdOrder(i), i, k)'
    BY DEF BeforeEntry, InQueue
  <2>1. k \in InQueue /\ queue'[k] = queue[k]
    OBVIOUS
  <2>2. \A a \in valgos' : a \in refused' \/ Dropped(a, 0, k)'
    BY <1>1, <1>5, <2>1 DEF BeforeEntry
  <2>3. ASSUME NEW i \in 1..Len(queue'), queue'[i].kind = "place"
        PROVE  CmdOrder(i)' \in refused' \/ Dropped(CmdOrder(i), i, k)'
    <3>1. i \in InQueue /\ queue'[i] = queue[i]
      BY <2>3
    <3>2. CmdOrder(i) \in refused \/ Dropped(CmdOrder(i), i, k)
      BY <1>1, <2>1, <2>3, <3>1 DEF BeforeEntry
    <3> QED
      BY <1>5, <3>1, <3>2 DEF Dropped, InQueue, CmdOrder
  <2> QED
    BY <2>2, <2>3
<1>13. BesideHeld'
  BY <1>1, <1>2 DEF BesideHeld, InQueue, CmdOrder
<1> QED
  BY <1>6, <1>7, <1>8, <1>9, <1>10, <1>11, <1>12, <1>13 DEF Orderly, Owned, OldStops

(* The oldest command leaves the queue: it was sent, or it failed. *)
LEMMA Pop ==
  ASSUME LiveInv, LiveTypes', queue # <<>>, queue' = Tail(queue),
         UNCHANGED <<pos, res, regs, reconciled, since, n>>,
         \A a \in valgos' : a \in valgos \/ (a = CmdOrder(1) /\ queue[1].kind = "place"),
         queue[1].kind = "cancel" => CmdOrder(1) \notin valgos' \/ CmdOrder(1) \in refused',
         refused \subseteq refused',
         \A e \in Holding' : e \in Holding \/ (e = queue[1].entry /\ queue[1].kind = "entry"),
         \A f \in Elements(feed') :
            \/ f \in Elements(feed)
            \/ /\ f.entry = queue[1].entry /\ f.cid = queue[1].cid
               /\ queue[1].kind \in {"entry", "exit"}
  PROVE  LiveInv'
<1>1. /\ LiveTypes /\ OrderlyQueue /\ OrderlyFeed /\ OrderlyRegs /\ Gone /\ Closing /\ Held
      /\ UnderWay /\ Unheard /\ Covered /\ Orphans
      /\ ClosedAlgos /\ ClosedPlaces /\ BeforeEntry /\ BesideHeld
  BY DEF LiveInv, Orderly, Owned, Reserved, OldStops
<1>2. OpenPositions' = OpenPositions /\ \A e : (Known(e)' <=> Known(e)) /\ (Closed(e)' <=> Closed(e))
  BY DEF OpenPositions, Known, Closed
<1>3. /\ Len(queue') = Len(queue) - 1 /\ Len(queue) \in Nat \ {0} /\ 1 \in InQueue
      /\ \A i \in 1..Len(queue') : i + 1 \in InQueue /\ i + 1 # 1 /\ queue'[i] = queue[i + 1]
  BY <1>1, TailShape DEF LiveTypes, InQueue
<1>4. n \in Nat /\ 1..n \subseteq Entries
  BY <1>1, LiveAssumption DEF LiveTypes, Entries
<1>5. queue[1] \in Command
  BY <1>1, <1>3 DEF LiveTypes, InQueue
<1>6. queue[1].kind = "entry" =>
        /\ queue[1].entry = n /\ ~Known(n) /\ <<n, EntryCid>> \in regs /\ OpenPositions = {}
        /\ res.lease = "entry" /\ res.age \in 0..MaxWait
        /\ queue[1].cid = EntryCid /\ \A j \in InQueue : queue[j].kind = "entry" => j = 1
  BY <1>1, <1>3 DEF UnderWay, OrderlyQueue
<1> DEFINE Next(a, lo, hi) ==
             \E j \in 1..Len(queue') : /\ lo < j /\ j < hi /\ queue'[j].kind = "cancel"
                                       /\ <<queue'[j].entry, queue'[j].cid>> = a
<1>7. \A a, l, h : \A lo \in Nat, hi \in Nat :
        l = lo + 1 /\ h = hi + 1 /\ Dropped(a, l, h) => Next(a, lo, hi)
  <2> HIDE DEF Next
  <2> SUFFICES ASSUME NEW a, NEW l, NEW h, NEW lo \in Nat, NEW hi \in Nat,
                      l = lo + 1, h = hi + 1, Dropped(a, l, h)
               PROVE  Next(a, lo, hi)
    OBVIOUS
  <2>1. PICK j \in InQueue : lo + 1 < j /\ j < hi + 1 /\ queue[j].kind = "cancel" /\ CmdOrder(j) = a
    BY DEF Dropped
  <2>2. j - 1 \in 1..Len(queue') /\ lo < j - 1 /\ j - 1 < hi /\ j - 1 + 1 = j
    BY <1>3, <2>1 DEF InQueue
  <2>3. queue'[j - 1] = queue[j]
    BY <1>3, <2>2
  <2> QED
    BY <2>1, <2>2, <2>3 DEF CmdOrder, Next
<1>8. \A h : \A a \in valgos', hi \in Nat :
        h = hi + 1 /\ (a \in refused \/ Dropped(a, 0, h)) => a \in refused' \/ Next(a, 0, hi)
  <2> HIDE DEF Next
  <2> SUFFICES ASSUME NEW a \in valgos', NEW hi \in Nat, Dropped(a, 0, hi + 1)
               PROVE  a \in refused' \/ Next(a, 0, hi)
    OBVIOUS
  <2>1. PICK j \in InQueue : 0 < j /\ j < hi + 1 /\ queue[j].kind = "cancel" /\ CmdOrder(j) = a
    BY DEF Dropped
  <2>2. CASE j = 1
    BY <2>1, <2>2
  <2>3. CASE j # 1
    <3>1. Dropped(a, 1, hi + 1) /\ 1 = 0 + 1
      BY <2>1, <2>3, <1>3 DEF Dropped, InQueue
    <3> QED
      BY <1>7, <3>1
  <2> QED
    BY <2>2, <2>3
<1>9. OrderlyQueue'
  BY <1>1, <1>2, <1>3 DEF OrderlyQueue, InQueue
<1>10. OrderlyFeed'
  <2> SUFFICES ASSUME NEW f \in Elements(feed'), f \notin Elements(feed)
               PROVE  /\ f.entry \in 1..n
                      /\ f.cid = EntryCid => <<f.entry, EntryCid>> \in regs
                      /\ f.cid # EntryCid => Known(f.entry)
    BY <1>1, <1>2 DEF OrderlyFeed
  <2>1. f.entry = queue[1].entry /\ f.cid = queue[1].cid /\ queue[1].kind \in {"entry", "exit"}
    OBVIOUS
  <2>2. queue[1].entry \in 1..n
    BY <1>1, <1>3 DEF OrderlyQueue
  <2>3. CASE queue[1].kind = "entry"
    BY <1>6, <2>1, <2>2, <2>3
  <2>4. CASE queue[1].kind = "exit"
    <3>1. queue[1].cid \in ExitId /\ Known(queue[1].entry)
      BY <1>1, <1>3, <2>4 DEF OrderlyQueue
    <3> QED
      BY <2>1, <2>2, <3>1, CidKinds
  <2> QED
    BY <2>1, <2>3, <2>4
<1>11. OrderlyRegs'
  BY <1>1, <1>2 DEF OrderlyRegs
<1>12. UnderWay'
  <2> SUFFICES ASSUME NEW i \in 1..Len(queue'), queue'[i].kind = "entry"
               PROVE  /\ queue'[i].entry = n /\ ~Known(n) /\ <<n, EntryCid>> \in regs
                      /\ OpenPositions = {} /\ Holding' = {}
                      /\ res.lease = "entry" /\ res.age \in 0..MaxWait
                      /\ \A j \in 1..Len(queue') : queue'[j].kind = "entry" => i = j
                      /\ \A f \in Elements(feed') : f.cid = EntryCid => f.entry # n
    BY <1>2 DEF UnderWay, InQueue
  <2>1. i + 1 \in InQueue /\ queue[i + 1].kind = "entry" /\ queue'[i] = queue[i + 1]
    BY <1>3
  <2>2. /\ queue[i + 1].entry = n /\ ~Known(n) /\ <<n, EntryCid>> \in regs
        /\ OpenPositions = {} /\ Holding = {}
        /\ res.lease = "entry" /\ res.age \in 0..MaxWait
        /\ \A j \in InQueue : queue[j].kind = "entry" => i + 1 = j
        /\ \A f \in Elements(feed) : f.cid = EntryCid => f.entry # n
    BY <1>1, <2>1 DEF UnderWay
  <2>3. queue[1].kind # "entry"
    BY <1>3, <2>2
  <2>4. Holding' = {}
    BY <2>2, <2>3
  <2>5. \A f \in Elements(feed') : f.cid = EntryCid => f.entry # n
    <3> SUFFICES ASSUME NEW f \in Elements(feed'), f.cid = EntryCid, f \notin Elements(feed)
                 PROVE  FALSE
      BY <2>2
    <3>1. queue[1].kind = "exit" /\ queue[1].cid = EntryCid
      BY <2>3
    <3> QED
      BY <1>1, <1>3, <3>1, CidKinds DEF OrderlyQueue
  <2>6. \A j \in 1..Len(queue') : queue'[j].kind = "entry" => i = j
    BY <1>3, <2>2
  <2> QED
    BY <2>1, <2>2, <2>4, <2>5, <2>6
<1>13. Unheard'
  <2> SUFFICES ASSUME NEW f \in Elements(feed'), f \notin Elements(feed), f.cid = EntryCid
               PROVE  /\ f.entry = n /\ OpenPositions = {}
                      /\ res.lease = "entry" /\ res.age \in 0..(MaxWait + MaxDelay)
    BY <1>1, <1>2 DEF Unheard
  <2>1. queue[1].kind = "entry"
    BY <1>1, <1>3, CidKinds DEF OrderlyQueue
  <2> QED
    BY <1>6, <2>1, LiveAssumption
<1>14. Covered'
  <2> SUFFICES ASSUME Holding' # {}, OpenPositions = {}
               PROVE  ~reconciled \/ (res.lease = "entry" /\ res.age \in 0..(MaxWait + since))
    BY <1>2 DEF Covered
  <2>1. CASE queue[1].kind = "entry"
    BY <1>1, <1>6, <2>1, LiveAssumption DEF LiveTypes
  <2>2. CASE queue[1].kind # "entry"
    BY <1>1, <2>2 DEF Covered
  <2> QED
    BY <2>1, <2>2
<1>15. \A a \in valgos' : Known(a[1])
  <2> SUFFICES ASSUME NEW a \in valgos' PROVE Known(a[1])
    OBVIOUS
  <2>1. CASE a \in valgos
    BY <1>1, <2>1 DEF Orphans
  <2>2. CASE a = CmdOrder(1) /\ queue[1].kind = "place"
    BY <1>1, <1>3, <2>2 DEF OrderlyQueue, CmdOrder
  <2> QED
    BY <2>1, <2>2
<1>16. Orphans'
  BY <1>2, <1>15 DEF Orphans
<1>17. Gone'
  <2> SUFFICES ASSUME NEW e \in Entries, Closed(e) PROVE vqty'[e] = 0
    BY <1>2 DEF Gone
  <2>1. e \notin Holding'
    <3>1. e \notin Holding
      BY <1>1, LiveAssumption DEF Gone, Holding
    <3> QED
      BY <1>6, <3>1 DEF Closed, Known
  <2> QED
    BY <2>1, LiveAssumption DEF Holding, LiveTypes
<1>18. Closing'
  <2> SUFFICES ASSUME NEW f \in Elements(feed'), f.cid # EntryCid, f.kind = "fill",
                      <<f.entry, f.cid>> \in regs, f.entry \in OpenPositions
               PROVE  Holding' = {}
    BY <1>2 DEF Closing
  <2>1. queue[1].kind # "entry"
    BY <1>6
  <2>2. f \in Elements(feed)
    <3> SUFFICES ASSUME f \notin Elements(feed) PROVE FALSE
      OBVIOUS
    <3>1. f.cid \in ExitId
      BY <1>1, <1>3, <2>1 DEF OrderlyQueue
    <3>2. f.cid \in {EntryCid} \cup Guards
      BY <1>1 DEF LiveTypes
    <3> QED
      BY <3>1, <3>2, CidKinds
  <2> QED
    BY <1>1, <2>1, <2>2 DEF Closing
<1>19. Held'
  BY <1>1, <1>6 DEF Held
<1>20. ClosedAlgos'
  <2> SUFFICES ASSUME NEW a \in valgos', Closed(a[1])
               PROVE  a \in refused' \/ Next(a, 0, Len(queue') + 1)
    BY <1>2 DEF ClosedAlgos, Dropped, InQueue, CmdOrder
  <2> HIDE DEF Next
  <2>1. a \in refused \/ Dropped(a, 0, Len(queue) + 1)
    <3>1. CASE a \in valgos
      BY <1>1, <3>1 DEF ClosedAlgos
    <3>2. CASE a = CmdOrder(1) /\ queue[1].kind = "place"
      <4>1. Closed(queue[1].entry)
        BY <3>2 DEF CmdOrder
      <4>2. a \in refused \/ Dropped(a, 1, Len(queue) + 1)
        BY <1>1, <1>3, <3>2, <4>1 DEF ClosedPlaces
      <4>3. Dropped(a, 1, Len(queue) + 1) => Dropped(a, 0, Len(queue) + 1)
        BY <1>3 DEF Dropped, InQueue
      <4> QED
        BY <4>2, <4>3
    <3> QED
      BY <3>1, <3>2
  <2>2. Len(queue) = Len(queue') + 1 /\ Len(queue') + 1 \in Nat
    BY <1>3
  <2> QED
    BY <1>8, <2>1, <2>2
<1>21. ClosedPlaces'
  <2> SUFFICES ASSUME NEW i \in 1..Len(queue'), queue'[i].kind = "place", Closed(queue'[i].entry)
               PROVE  \/ <<queue'[i].entry, queue'[i].cid>> \in refused'
                      \/ Next(<<queue'[i].entry, queue'[i].cid>>, i, Len(queue') + 1)
    BY <1>2 DEF ClosedPlaces, Dropped, InQueue, CmdOrder
  <2> HIDE DEF Next
  <2>1. i + 1 \in InQueue /\ queue'[i] = queue[i + 1] /\ i \in Nat
    BY <1>3
  <2>2. CmdOrder(i + 1) \in refused \/ Dropped(CmdOrder(i + 1), i + 1, Len(queue) + 1)
    BY <1>1, <2>1 DEF ClosedPlaces
  <2>3. CmdOrder(i + 1) = <<queue'[i].entry, queue'[i].cid>>
    BY <2>1 DEF CmdOrder
  <2>4. Len(queue) = Len(queue') + 1 /\ Len(queue') + 1 \in Nat
    BY <1>3
  <2> QED
    BY <1>7, <2>1, <2>2, <2>3, <2>4
<1>22. BeforeEntry'
  <2> SUFFICES ASSUME NEW k \in 1..Len(queue'), queue'[k].kind = "entry"
               PROVE  /\ \A a \in valgos' : a \in refused' \/ Next(a, 0, k)
                      /\ \A i \in 1..Len(queue') : queue'[i].kind = "place" =>
                           \/ <<queue'[i].entry, queue'[i].cid>> \in refused'
                           \/ Next(<<queue'[i].entry, queue'[i].cid>>, i, k)
    BY DEF BeforeEntry, Dropped, InQueue, CmdOrder
  <2> HIDE DEF Next
  <2>1. k + 1 \in InQueue /\ queue[k + 1].kind = "entry" /\ k \in Nat
    BY <1>3
  <2>2. ASSUME NEW a \in valgos' PROVE a \in refused' \/ Next(a, 0, k)
    <3>1. CASE a \in valgos
      <4>1. a \in refused \/ Dropped(a, 0, k + 1)
        BY <1>1, <2>1, <3>1 DEF BeforeEntry
      <4> QED
        BY <1>8, <2>1, <4>1
    <3>2. CASE a = CmdOrder(1) /\ queue[1].kind = "place"
      <4>1. a \in refused \/ Dropped(a, 1, k + 1)
        BY <1>1, <1>3, <2>1, <3>2 DEF BeforeEntry
      <4>2. Dropped(a, 1, k + 1) => Dropped(a, 0, k + 1)
        BY <1>3 DEF Dropped, InQueue
      <4> QED
        BY <1>8, <2>1, <4>1, <4>2
    <3> QED
      BY <3>1, <3>2
  <2>3. ASSUME NEW i \in 1..Len(queue'), queue'[i].kind = "place"
        PROVE  \/ <<queue'[i].entry, queue'[i].cid>> \in refused'
               \/ Next(<<queue'[i].entry, queue'[i].cid>>, i, k)
    <3>1. i + 1 \in InQueue /\ queue'[i] = queue[i + 1] /\ i \in Nat
      BY <1>3
    <3>2. CmdOrder(i + 1) \in refused \/ Dropped(CmdOrder(i + 1), i + 1, k + 1)
      BY <1>1, <2>1, <2>3, <3>1 DEF BeforeEntry
    <3>3. CmdOrder(i + 1) = <<queue'[i].entry, queue'[i].cid>>
      BY <3>1 DEF CmdOrder
    <3> QED
      BY <1>7, <2>1, <3>1, <3>2, <3>3
  <2> QED
    BY <2>2, <2>3
<1>23. BesideHeld'
  <2> SUFFICES ASSUME Holding' # {}
               PROVE  /\ \A a \in valgos' : a[1] = n \/ a \in refused'
                      /\ \A i \in 1..Len(queue') : queue'[i].kind = "place" =>
                           \/ queue'[i].entry = n
                           \/ <<queue'[i].entry, queue'[i].cid>> \in refused'
    BY DEF BesideHeld, InQueue, CmdOrder
  <2>1. CASE queue[1].kind = "entry"
    <3>1. \A a : ~Dropped(a, 0, 1)
      BY DEF Dropped, InQueue
    <3>2. \A i \in InQueue : queue[i].kind = "place" => CmdOrder(i) \in refused
      <4>1. \A i \in InQueue : ~Dropped(CmdOrder(i), i, 1)
        BY <1>3 DEF Dropped, InQueue
      <4> QED
        BY <1>1, <1>3, <2>1, <4>1 DEF BeforeEntry
    <3>3. \A a \in valgos' : a \in refused'
      <4>1. \A a \in valgos : ~Dropped(a, 0, 1)
        BY <3>1
      <4> QED
        BY <1>1, <1>3, <2>1, <4>1 DEF BeforeEntry
    <3> QED
      BY <1>3, <3>2, <3>3 DEF CmdOrder
  <2>2. CASE queue[1].kind # "entry"
    <3>1. Holding # {}
      BY <2>2
    <3>2. \A a \in valgos' : a[1] = n \/ a \in refused'
      BY <1>1, <1>3, <3>1 DEF BesideHeld, CmdOrder
    <3>3. \A i \in InQueue : queue[i].kind = "place" => queue[i].entry = n \/ CmdOrder(i) \in refused
      BY <1>1, <3>1 DEF BesideHeld
    <3> QED
      BY <1>3, <3>2, <3>3 DEF CmdOrder
  <2> QED
    BY <2>1, <2>2
<1> QED
  BY <1>9, <1>10, <1>11, <1>12, <1>13, <1>14, <1>16, <1>17, <1>18, <1>19, <1>20, <1>21, <1>22,
     <1>23 DEF LiveInv, Orderly, Reserved, Owned, OldStops

-----------------------------------------------------------------------------
(* The steps, one lemma each. *)

LEMMA PopTypes ==
  ASSUME LiveTypes, queue # <<>>, queue' = Tail(queue),
         UNCHANGED <<pos, res, regs, reconciled, since, n, vrepairs>>,
         feed' \in Seq(FrameType), vqty' \in [Entries -> 0..EntryQty],
         valgos' \subseteq (1..n) \X Guards
  PROVE  LiveTypes'
<1>1. queue \in Seq(Command) /\ Len(queue) <= QMax /\ Len(queue) \in Nat
  BY DEF LiveTypes
<1>2. queue' \in Seq(Command) /\ Len(queue') <= QMax
  BY <1>1, TailShape, LiveAssumption
<1> QED
  BY <1>2 DEF LiveTypes

(* A frame about an order, and the two of a partial fill. *)
LEMMA FramesOf ==
  ASSUME NEW kind \in {"fill", "done", "trig"}, NEW e \in Entries, NEW c \in Cid,
         NEW q \in Nat, NEW r \in Nat
  PROVE  LET one == <<Frame(kind, e, c, q)>>
             two == one \o <<Frame(kind, e, c, r)>>
         IN /\ one \in Seq(FrameType) /\ two \in Seq(FrameType)
            /\ \A f \in Elements(one) \cup Elements(two) : f.kind = kind /\ f.entry = e /\ f.cid = c
<1> DEFINE f == Frame(kind, e, c, q)
           g == Frame(kind, e, c, r)
<1>1. /\ f \in FrameType /\ f.kind = kind /\ f.entry = e /\ f.cid = c
      /\ g \in FrameType /\ g.kind = kind /\ g.entry = e /\ g.cid = c
  BY DEF Frame, FrameType
<1> HIDE DEF f, g
<1>2. <<f>> \in Seq(FrameType) /\ <<f, g>> \in Seq(FrameType) /\ <<f>> \o <<g>> = <<f, g>>
  BY <1>1, Pair
<1>3. Elements(<<f>>) \subseteq {f} /\ Elements(<<f, g>>) \subseteq {f, g}
  BY DEF Elements
<1> QED
  BY <1>1, <1>2, <1>3 DEF f, g

LEMMA SendEntry ==
  ASSUME LiveTypes, NEW c, c.entry \in Entries, c.cid \in Cid, ExecEntry(c)
  PROVE  /\ valgos' = valgos /\ feed' \in Seq(FrameType) /\ vqty' \in [Entries -> 0..EntryQty]
         /\ \A e \in Entries : e # c.entry => vqty'[e] = vqty[e]
         /\ \A f \in Elements(feed') : f \in Elements(feed) \/ (f.entry = c.entry /\ f.cid = c.cid)
<1>1. vqty \in [Entries -> 0..EntryQty] /\ EntryQty \in Nat \ {0}
  BY LiveAssumption DEF LiveTypes
<1>2. CASE UNCHANGED vqty /\ Tells(<<Frame("done", c.entry, c.cid, 0)>>)
  <2> DEFINE s == <<Frame("done", c.entry, c.cid, 0)>>
  <2>1. s \in Seq(FrameType) /\ \A f \in Elements(s) : f.entry = c.entry /\ f.cid = c.cid
    BY FramesOf
  <2>2. Tells(s)
    BY <1>2
  <2> HIDE DEF s
  <2> QED
    BY <1>1, <1>2, <2>1, <2>2, TellsShape DEF ExecEntry
<1>3. CASE /\ vqty' = [vqty EXCEPT ![c.entry] = EntryQty]
           /\ \E q \in 1..EntryQty :
                Tells(<<Frame("fill", c.entry, c.cid, q)>> \o
                      IF q = EntryQty THEN <<>>
                      ELSE <<Frame("fill", c.entry, c.cid, EntryQty - q)>>)
  <2>1. PICK q \in 1..EntryQty :
               Tells(<<Frame("fill", c.entry, c.cid, q)>> \o
                     IF q = EntryQty THEN <<>>
                     ELSE <<Frame("fill", c.entry, c.cid, EntryQty - q)>>)
    BY <1>3
  <2>2. q \in Nat /\ EntryQty - q \in Nat
    BY <1>1
  <2> DEFINE one == <<Frame("fill", c.entry, c.cid, q)>>
             two == one \o <<Frame("fill", c.entry, c.cid, EntryQty - q)>>
  <2>3. /\ one \in Seq(FrameType) /\ two \in Seq(FrameType)
        /\ \A f \in Elements(one) \cup Elements(two) : f.entry = c.entry /\ f.cid = c.cid
    BY <2>2, FramesOf
  <2>4. one \o <<>> = one
    BY <2>3, ConcatEmptySeq
  <2>5. Tells(one) \/ Tells(two)
    <3>1. CASE q = EntryQty
      BY <2>1, <2>4, <3>1
    <3>2. CASE q # EntryQty
      BY <2>1, <3>2
    <3> QED
      BY <3>1, <3>2
  <2> HIDE DEF one, two
  <2>6. /\ feed' \in Seq(FrameType)
        /\ \A f \in Elements(feed') : f \in Elements(feed) \/ (f.entry = c.entry /\ f.cid = c.cid)
    BY <2>3, <2>5, TellsShape
  <2> QED
    BY <1>1, <1>3, <2>6 DEF ExecEntry
<1> QED
  BY <1>2, <1>3 DEF ExecEntry

LEMMA SendExit ==
  ASSUME LiveTypes, NEW c, c.entry \in Entries, c.cid \in Cid, c.qty \in Nat, ExecExit(c)
  PROVE  /\ valgos' = valgos /\ feed' \in Seq(FrameType) /\ vqty' \in [Entries -> 0..EntryQty]
         /\ \A e \in Entries : vqty'[e] <= vqty[e]
         /\ \A f \in Elements(feed') : f \in Elements(feed) \/ (f.entry = c.entry /\ f.cid = c.cid)
<1>1. vqty \in [Entries -> 0..EntryQty] /\ EntryQty \in Nat \ {0} /\ feed \in Seq(FrameType)
  BY LiveAssumption DEF LiveTypes
<1>2. CASE Holding = {}
  <2>1. UNCHANGED <<vqty, feed, valgos>>
    BY <1>2 DEF ExecExit
  <2> QED
    BY <1>1, <2>1
<1>3. CASE Holding # {}
  <2>1. PICK e \in Holding :
          LET q == IF c.qty < vqty[e] THEN c.qty ELSE vqty[e]
          IN /\ vqty' = [vqty EXCEPT ![e] = @ - q]
             /\ Tells(<<Frame("fill", c.entry, c.cid, q)>>)
    BY <1>3 DEF ExecExit
  <2> DEFINE q == IF c.qty < vqty[e] THEN c.qty ELSE vqty[e]
             s == <<Frame("fill", c.entry, c.cid, q)>>
  <2>2. q \in Nat /\ q <= vqty[e] /\ e \in Entries
    BY <1>1 DEF Holding
  <2>3. vqty' = [vqty EXCEPT ![e] = @ - q] /\ Tells(s)
    BY <2>1
  <2> HIDE DEF q
  <2>4. s \in Seq(FrameType) /\ \A f \in Elements(s) : f.entry = c.entry /\ f.cid = c.cid
    BY <2>2, FramesOf
  <2> HIDE DEF s
  <2>5. /\ feed' \in Seq(FrameType)
        /\ \A f \in Elements(feed') : f \in Elements(feed) \/ (f.entry = c.entry /\ f.cid = c.cid)
    BY <2>3, <2>4, TellsShape
  <2>6. vqty' \in [Entries -> 0..EntryQty] /\ \A d \in Entries : vqty'[d] <= vqty[d]
    <3>1. vqty[e] - q \in 0..EntryQty /\ vqty[e] - q <= vqty[e]
      BY <1>1, <2>2
    <3> QED
      BY <1>1, <2>2, <2>3, <3>1
  <2> QED
    BY <2>5, <2>6 DEF ExecExit
<1> QED
  BY <1>2, <1>3

LEMMA SendKeeps == ASSUME LiveInv, Send PROVE LiveInv'
<1>1. /\ queue # <<>> /\ queue' = Tail(queue) /\ Execute(Head(queue))
      /\ UNCHANGED <<pos, res, regs, reconciled, since, n, refused, vrepairs>>
  BY DEF Send, counts
<1>2. LiveTypes /\ OrderlyQueue
  BY DEF LiveInv, Orderly
<1> DEFINE c == queue[1]
<1>3. Head(queue) = c /\ c \in Command /\ 1 \in InQueue
  BY <1>1, <1>2, TailShape DEF LiveTypes, InQueue
<1>4. /\ c.entry \in Entries /\ c.entry \in 1..n /\ c.cid \in Cid /\ c.qty \in Nat
      /\ CmdOrder(1) = <<c.entry, c.cid>>
  BY <1>2, <1>3 DEF Command, OrderlyQueue, Cid, CmdOrder
<1>5. /\ feed \in Seq(FrameType) /\ vqty \in [Entries -> 0..EntryQty] /\ EntryQty \in Nat \ {0}
      /\ valgos \subseteq (1..n) \X Guards
  BY <1>2, LiveAssumption DEF LiveTypes
<1>6. CASE c.kind = "entry" /\ ExecEntry(c)
  <2>1. /\ valgos' = valgos /\ feed' \in Seq(FrameType) /\ vqty' \in [Entries -> 0..EntryQty]
        /\ \A e \in Entries : e # c.entry => vqty'[e] = vqty[e]
        /\ \A f \in Elements(feed') : f \in Elements(feed) \/ (f.entry = c.entry /\ f.cid = c.cid)
    BY <1>2, <1>4, <1>6, SendEntry
  <2>2. \A e \in Holding' : e \in Holding \/ e = c.entry
    BY <2>1 DEF Holding
  <2>3. LiveTypes'
    BY <1>1, <1>2, <1>5, <2>1, PopTypes
  <2> QED
    BY <1>1, <1>6, <2>1, <2>2, <2>3, Pop
<1>7. CASE c.kind = "place" /\ ExecPlace(c)
  <2>1. valgos' = valgos \cup {CmdOrder(1)} /\ UNCHANGED <<vqty, feed>>
    BY <1>4, <1>7 DEF ExecPlace
  <2>2. c.cid \in Guards
    BY <1>2, <1>3, <1>7 DEF OrderlyQueue
  <2>3. LiveTypes'
    BY <1>1, <1>2, <1>4, <1>5, <2>1, <2>2, PopTypes
  <2>4. Holding' = Holding
    BY <2>1 DEF Holding
  <2> QED
    BY <1>1, <1>7, <2>1, <2>3, <2>4, Pop
<1>8. CASE c.kind = "cancel" /\ ExecCancel(c)
  <2>1. valgos' = valgos \ {CmdOrder(1)} /\ UNCHANGED <<vqty, feed>>
    BY <1>4, <1>8 DEF ExecCancel
  <2>2. LiveTypes'
    BY <1>1, <1>2, <1>5, <2>1, PopTypes
  <2>3. Holding' = Holding
    BY <2>1 DEF Holding
  <2> QED
    BY <1>1, <1>8, <2>1, <2>2, <2>3, Pop
<1>9. CASE c.kind = "exit" /\ ExecExit(c)
  <2>1. /\ valgos' = valgos /\ feed' \in Seq(FrameType) /\ vqty' \in [Entries -> 0..EntryQty]
        /\ \A e \in Entries : vqty'[e] <= vqty[e]
        /\ \A f \in Elements(feed') : f \in Elements(feed) \/ (f.entry = c.entry /\ f.cid = c.cid)
    BY <1>2, <1>4, <1>9, SendExit
  <2>2. \A e \in Holding' : e \in Holding
    BY <1>5, <2>1 DEF Holding
  <2>3. LiveTypes'
    BY <1>1, <1>2, <1>5, <2>1, PopTypes
  <2> QED
    BY <1>1, <1>9, <2>1, <2>2, <2>3, Pop
<1> HIDE DEF c
<1> QED
  BY <1>1, <1>3, <1>6, <1>7, <1>8, <1>9 DEF Execute

LEMMA SendFailsKeeps == ASSUME LiveInv, SendFails PROVE LiveInv'
<1>1. /\ queue # <<>> /\ queue' = Tail(queue)
      /\ UNCHANGED <<pos, res, regs, reconciled, since, n, feed, vqty, valgos, vrepairs>>
      /\ refused' = IF Head(queue).kind = "cancel"
                    THEN refused \cup {<<Head(queue).entry, Head(queue).cid>>} ELSE refused
  BY DEF SendFails, venue
<1>2. LiveTypes
  BY DEF LiveInv
<1>3. Head(queue) = queue[1]
  BY <1>1, <1>2, TailShape DEF LiveTypes
<1>4. LiveTypes'
  BY <1>1, <1>2, PopTypes DEF LiveTypes
<1>5. Holding' = Holding
  BY <1>1 DEF Holding
<1>6. queue[1].kind = "cancel" => CmdOrder(1) \in refused'
  BY <1>1, <1>3 DEF CmdOrder
<1>7. refused \subseteq refused'
  BY <1>1
<1> QED
  BY <1>1, <1>4, <1>5, <1>6, <1>7, Pop

LEMMA Parts ==
  ASSUME LiveInv
  PROVE  /\ LiveTypes /\ OrderlyQueue /\ OrderlyFeed /\ OrderlyRegs /\ Gone /\ Closing /\ Held
         /\ UnderWay /\ Unheard /\ Covered /\ Orphans
         /\ ClosedAlgos /\ ClosedPlaces /\ BeforeEntry /\ BesideHeld
  BY DEF LiveInv, Orderly, Owned, Reserved, OldStops

(* A trigger closes what there is; only that of an order of the core's is  *)
(* told in a frame that stands here.                                       *)
LEMMA TriggerKeeps == ASSUME LiveInv, NEW a \in Algos, Trigger(a) PROVE LiveInv'
<1>1. /\ valgos' = valgos \ {a} /\ vrepairs' = vrepairs \ {a} /\ vqty' = Flat
      /\ UNCHANGED <<pos, res, regs, reconciled, since, queue, n, refused>>
  BY DEF Trigger, counts
<1> USE Parts
<1>2. Holding' = {}
  BY <1>1, LiveAssumption DEF Flat, Holding
<1>3. OpenPositions' = OpenPositions /\ \A e : (Known(e)' <=> Known(e)) /\ (Closed(e)' <=> Closed(e))
  BY <1>1 DEF OpenPositions, Known, Closed
<1>4. /\ 1..n \subseteq Entries
      /\ a \in valgos => a[1] \in 1..n /\ a[2] \in Guards /\ a[1] \in Entries
  BY LiveAssumption DEF LiveTypes, Entries
<1>5. /\ feed' \in Seq(FrameType)
      /\ \A f \in Elements(feed') :
           f \in Elements(feed) \/ (a \in valgos /\ f.entry = a[1] /\ f.cid # EntryCid)
  <2> DEFINE held == CHOOSE e \in Holding : TRUE
             cid == IF childKeeps THEN a[2] ELSE ChildCid
             t == Frame("trig", a[1], a[2], 0)
             g == Frame("fill", a[1], cid, vqty[held])
             frames == IF a \in vrepairs THEN <<>> ELSE IF Holding = {} THEN <<t>> ELSE <<g>>
  <2>1. Tells(frames)
    BY DEF Trigger
  <2>2. ASSUME a \notin vrepairs
        PROVE  a \in valgos /\ cid \in Cid /\ cid # EntryCid /\ a[2] \in Cid /\ a[2] # EntryCid
    BY <1>4, <2>2, CidKinds DEF Cid, Algos
  <2>3. ASSUME a \notin vrepairs
        PROVE  t \in FrameType /\ t.entry = a[1] /\ t.cid # EntryCid
    BY <1>4, <2>2, <2>3 DEF Frame, FrameType
  <2>4. ASSUME a \notin vrepairs, Holding # {}
        PROVE  g \in FrameType /\ g.entry = a[1] /\ g.cid # EntryCid
    <3>1. held \in Holding
      BY <2>4
    <3>2. vqty[held] \in Nat
      BY <3>1 DEF Holding, LiveTypes
    <3> HIDE DEF held, cid
    <3> QED
      BY <1>4, <2>2, <2>4, <3>2 DEF Frame, FrameType
  <2> HIDE DEF t, g
  <2>5. /\ frames \in Seq(FrameType)
        /\ \A f \in Elements(frames) : a \in valgos /\ f.entry = a[1] /\ f.cid # EntryCid
    <3>1. CASE a \in vrepairs
      <4>1. frames = <<>>
        BY <3>1
      <4> QED
        BY <4>1, EmptySeq DEF Elements
    <3>2. CASE a \notin vrepairs /\ Holding = {}
      <4>1. frames = <<t>>
        BY <3>2
      <4> QED
        BY <2>2, <2>3, <3>2, <4>1 DEF Elements
    <3>3. CASE a \notin vrepairs /\ Holding # {}
      <4>1. frames = <<g>>
        BY <3>3
      <4> QED
        BY <2>2, <2>4, <3>3, <4>1 DEF Elements
    <3> QED
      BY <3>1, <3>2, <3>3
  <2> HIDE DEF frames
  <2> QED
    BY <2>1, <2>5, TellsShape
<1>6. LiveTypes'
  <2>1. vqty' \in [Entries -> 0..EntryQty]
    BY <1>1, LiveAssumption DEF Flat
  <2> QED
    BY <1>1, <1>5, <2>1 DEF LiveTypes
<1>7. OrderlyQueue' /\ OrderlyRegs'
  BY <1>1, <1>3 DEF OrderlyQueue, OrderlyRegs, InQueue
<1>8. OrderlyFeed'
  <2>1. a \in valgos => Known(a[1]) \/ regs = {}
    BY DEF Orphans
  <2> QED
    BY <1>1, <1>3, <1>4, <1>5, <2>1 DEF OrderlyFeed
<1>9. UnderWay'
  BY <1>1, <1>2, <1>3, <1>5 DEF UnderWay, InQueue
<1>10. Unheard'
  BY <1>1, <1>3, <1>5 DEF Unheard
<1>11. Covered' /\ Closing' /\ Held' /\ BesideHeld'
  BY <1>2 DEF Covered, Closing, Held, BesideHeld
<1>12. Orphans'
  BY <1>1, <1>3 DEF Orphans
<1>13. Gone'
  BY <1>1 DEF Gone, Flat
<1>14. ClosedAlgos' /\ ClosedPlaces' /\ BeforeEntry'
  <2>1. \A b, lo, hi : Dropped(b, lo, hi)' <=> Dropped(b, lo, hi)
    BY <1>1 DEF Dropped, CmdOrder, InQueue
  <2>2. InQueue' = InQueue /\ Len(queue') = Len(queue) /\ \A i : CmdOrder(i)' = CmdOrder(i)
    BY <1>1 DEF InQueue, CmdOrder
  <2>3. ClosedAlgos'
    BY <1>1, <1>3, <2>1, <2>2 DEF ClosedAlgos
  <2>4. ClosedPlaces'
    BY <1>1, <1>3, <2>1, <2>2 DEF ClosedPlaces
  <2>5. BeforeEntry'
    BY <1>1, <1>3, <2>1, <2>2 DEF BeforeEntry
  <2> QED
    BY <2>3, <2>4, <2>5
<1> QED
  BY <1>6, <1>7, <1>8, <1>9, <1>10, <1>11, <1>12, <1>13, <1>14
     DEF LiveInv, Orderly, Owned, Reserved, OldStops

(* A lost frame: what the stream still brings is what it would have been. *)
LEMMA LoseFrameKeeps == ASSUME LiveInv, LoseFrame PROVE LiveInv'
<1>1. /\ feed # <<>> /\ feed' = Tail(feed)
      /\ UNCHANGED <<pos, res, regs, reconciled, since, queue, vqty, valgos, vrepairs, n, refused>>
  BY DEF LoseFrame, venue
<1> USE Parts
<1>2. feed' \in Seq(FrameType) /\ Elements(feed') \subseteq Elements(feed)
  BY <1>1, TailShape, TailElements DEF LiveTypes
<1>3. LiveTypes'
  BY <1>1, <1>2 DEF LiveTypes
<1>4. OpenPositions' = OpenPositions /\ Holding' = Holding
      /\ \A e : (Known(e)' <=> Known(e)) /\ (Closed(e)' <=> Closed(e))
  BY <1>1 DEF OpenPositions, Known, Closed, Holding
<1>5. Orderly' /\ Owned' /\ OldStops'
  BY <1>1, <1>2, <1>3, <1>4, Calm DEF InQueue
<1>6. Reserved'
  BY <1>1, <1>2, <1>4 DEF Reserved, UnderWay, Unheard, Covered, Orphans, InQueue
<1> QED
  BY <1>3, <1>5, <1>6 DEF LiveInv

(* What a round applies takes orders of the core's away and adds repairs.  *)
LEMMA Rounds ==
  ASSUME LiveTypes, NEW core \in SUBSET Entries, NEW f, Round(core, f)
  PROVE  /\ reconciled' = Agrees(core, Holding, Algos) /\ since' = 0
         /\ UNCHANGED vqty /\ Holding' = Holding /\ valgos' \subseteq valgos
         /\ vrepairs' \subseteq Entries \X {RepairCid("SL"), RepairCid("TP")}
<1>1. /\ reconciled' = Agrees(core, Holding, Algos) /\ since' = 0 /\ UNCHANGED vqty
  BY DEF Round
<1>2. PICK gone \in SUBSET Orphaned(core, Holding), placed \in SUBSET Missing(core, Holding) :
        valgos' = valgos \ gone /\ vrepairs' = (vrepairs \ gone) \cup placed
  BY Zenon DEF Round
<1>3. placed \subseteq Entries \X {RepairCid("SL"), RepairCid("TP")}
  BY <1>2 DEF Missing
<1> QED
  BY <1>1, <1>2, <1>3 DEF LiveTypes, Holding

LEMMA RestartKeeps == ASSUME LiveInv, Restart PROVE LiveInv'
<1> USE Parts
<1>1. /\ pos' = [e \in Entries |-> NewPosition] /\ res' = NoRes /\ regs' = {}
      /\ queue' = <<>> /\ feed' = <<>>
      /\ reconciled' = Agrees({}, Holding, Algos) /\ since' = 0
      /\ vrepairs' \subseteq Entries \X {RepairCid("SL"), RepairCid("TP")}
      /\ valgos' \subseteq valgos /\ UNCHANGED <<vqty, n, refused>>
  <2>1. Round({}, faults + 1) /\ UNCHANGED <<n, refused>>
    BY DEF Restart
  <2> QED
    BY <2>1, Rounds DEF Restart
<1>2. \A e \in Entries : ~Known(e)' /\ ~Closed(e)' /\ pos'[e].active = {} /\ pos'[e].state = "ENTRY_SENT"
  BY <1>1, NewPositionType DEF Known, Closed
<1>3. Holding' = Holding /\ OpenPositions' = {} /\ Elements(feed') = {} /\ InQueue' = {}
  BY <1>1, <1>2 DEF Holding, OpenPositions, Elements, InQueue
<1>4. reconciled' \in BOOLEAN /\ (reconciled' => Holding = {} /\ valgos' = {})
  BY <1>1 DEF Agrees, Algos
<1>5. LiveTypes'
  <2>1. pos' \in [Entries -> Position]
    BY <1>1, NewPositionType
  <2>2. res' \in [pending : BOOLEAN, lease : {"none", "entry", "bound"}, age : Off..PendTtl]
    BY <1>1, LiveAssumption DEF NoRes, Off
  <2>3. queue' \in Seq(Command) /\ Len(queue') <= QMax /\ feed' \in Seq(FrameType) /\ since' \in 0..RecPeriod
    BY <1>1, EmptySeq, LiveAssumption
  <2> QED
    BY <1>1, <1>2, <1>4, <2>1, <2>2, <2>3 DEF LiveTypes, LiveState
<1>6. Orderly'
  BY <1>1, <1>2, <1>3 DEF Orderly, OrderlyQueue, OrderlyFeed, OrderlyRegs
<1>7. Reserved'
  BY <1>1, <1>2, <1>3, <1>4 DEF Reserved, UnderWay, Unheard, Covered, Orphans
<1>8. Owned'
  BY <1>1, <1>2, <1>3 DEF Owned, Gone, Closing, Held
<1>9. OldStops'
  <2>1. 1..n \subseteq Entries
    BY LiveAssumption DEF LiveTypes, Entries
  <2>2. \A a \in valgos' : ~Closed(a[1])'
    BY <1>1, <1>2, <2>1 DEF LiveTypes
  <2> QED
    BY <1>1, <1>3, <2>2 DEF OldStops, ClosedAlgos, ClosedPlaces, BeforeEntry, BesideHeld
<1> QED
  BY <1>5, <1>6, <1>7, <1>8, <1>9 DEF LiveInv

(* A round that leaves the lock open has found nothing the core does not   *)
(* know of.                                                                *)
LEMMA ReconcileKeeps == ASSUME LiveInv, Reconcile PROVE LiveInv'
<1> USE Parts
<1>1. /\ reconciled' = Agrees(OpenPositions, Holding, Algos) /\ since' = 0
      /\ vrepairs' \subseteq Entries \X {RepairCid("SL"), RepairCid("TP")}
      /\ valgos' \subseteq valgos
      /\ UNCHANGED <<pos, res, regs, queue, feed, vqty, n, refused>>
  <2>1. Round(OpenPositions, faults) /\ UNCHANGED <<pos, res, regs, queue, feed, n, refused>>
    BY DEF Reconcile
  <2>2. OpenPositions \in SUBSET Entries
    BY DEF OpenPositions
  <2> QED
    BY <2>1, <2>2, Rounds
<1>2. OpenPositions' = OpenPositions /\ Holding' = Holding
      /\ \A e : (Known(e)' <=> Known(e)) /\ (Closed(e)' <=> Closed(e))
  BY <1>1 DEF OpenPositions, Known, Closed, Holding
<1>3. LiveTypes'
  BY <1>1, LiveAssumption DEF LiveTypes, Agrees
<1>4. Orderly' /\ Owned' /\ OldStops'
  BY <1>1, <1>2, <1>3, Calm DEF InQueue
<1>5. UnderWay' /\ Unheard'
  BY <1>1, <1>2 DEF UnderWay, Unheard, InQueue
<1>6. Covered'
  BY <1>1, <1>2 DEF Covered, Agrees
<1>7. Orphans'
  <2> SUFFICES ASSUME NEW a \in valgos', ~Known(a[1])
               PROVE  ~reconciled' /\ regs = {} /\ queue = <<>>
    BY <1>1, <1>2 DEF Orphans
  <2>1. regs = {} /\ queue = <<>>
    BY <1>1 DEF Orphans
  <2>2. OpenPositions = {}
    BY <2>1 DEF OpenPositions, OrderlyRegs
  <2>3. ~reconciled'
    BY <1>1, <2>2 DEF Agrees, Algos
  <2> QED
    BY <2>1, <2>3
<1> QED
  BY <1>3, <1>4, <1>5, <1>6, <1>7 DEF LiveInv, Reserved

(* An entry is decided where nothing is held, nothing of an earlier entry  *)
(* is on its way, and every order that is left is about to be cancelled.   *)
LEMMA DecideKeeps == ASSUME LiveInv, Decide PROVE LiveInv'
<1> DEFINE c == Cmd(n + 1, "entry", EntryCid, EntryQty)
<1>1. /\ EntryAllowed /\ n < MaxEntries /\ n' = n + 1
      /\ res' = [pending |-> TRUE, lease |-> "entry", age |-> 0]
      /\ Sends(<<c>>) /\ Registers(<<c>>)
      /\ UNCHANGED <<pos, reconciled, since, feed, vqty, valgos, vrepairs>>
  BY DEF Decide, venue
<1> USE Parts
<1>2. n \in Nat /\ n + 1 \in Entries /\ 1..n \subseteq Entries /\ 1..n \subseteq 1..(n + 1) /\ n + 1 \in 1..(n + 1)
  BY <1>1, LiveAssumption DEF LiveTypes, Entries
<1>3. /\ c \in Command /\ <<c>> \in Seq(Command)
      /\ c.entry = n + 1 /\ c.kind = "entry" /\ c.cid = EntryCid
  BY <1>2, LiveAssumption DEF Cmd, Command
<1> HIDE DEF c
<1>4. /\ queue' \in Seq(Command) /\ Len(queue') <= QMax /\ Len(queue) \in Nat
      /\ Len(queue) <= Len(queue') /\ Len(queue') <= Len(queue) + 1
      /\ \A i \in InQueue : queue'[i] = queue[i]
      /\ refused \subseteq refused'
      /\ \A i \in 1..Len(queue') : i \in InQueue \/ (i = Len(queue) + 1 /\ queue'[i] = c)
  <2>1. Len(<<c>>) = 1 /\ <<c>>[1] = c
    OBVIOUS
  <2>2. queue \in Seq(Command) /\ Len(queue) <= QMax /\ Len(queue) \in Nat
    BY DEF LiveTypes
  <2>3. /\ queue' \in Seq(Command) /\ Len(queue') <= QMax
        /\ Len(queue) <= Len(queue') /\ Len(queue') <= Len(queue) + Len(<<c>>)
        /\ \A i \in 1..Len(queue) : queue'[i] = queue[i]
        /\ \A i \in Len(queue) + 1..Len(queue') :
             i - Len(queue) \in 1..Len(<<c>>) /\ queue'[i] = <<c>>[i - Len(queue)]
        /\ refused \subseteq refused'
    BY <1>1, <1>3, <2>2, SendsShape
  <2>4. \A i \in 1..Len(queue') : i \in InQueue \/ (i = Len(queue) + 1 /\ queue'[i] = c)
    BY <2>1, <2>2, <2>3 DEF InQueue
  <2> QED
    BY <2>1, <2>2, <2>3, <2>4 DEF InQueue
<1>5. regs' = regs \cup {<<n + 1, EntryCid>>}
  <2>1. Elements(<<c>>) = {c}
    BY DEF Elements
  <2>2. {x \in Elements(<<c>>) : x.kind # "cancel"} = {c}
    BY <1>3, <2>1
  <2> QED
    BY <1>1, <1>3, <2>2 DEF Registers
<1>6. OpenPositions = {} /\ reconciled /\ res.lease = "none" /\ Holding = {}
  BY <1>1 DEF EntryAllowed, Covered
<1>7. /\ \A i \in InQueue : queue[i].kind # "entry"
      /\ \A f \in Elements(feed) : f.cid = EntryCid => Known(f.entry)
  BY <1>6 DEF UnderWay, Unheard
<1>8. n + 1 \notin 1..n /\ ~Known(n + 1)
  <2>1. n + 1 \notin 1..n
    BY <1>2
  <2>2. <<n + 1, EntryCid>> \notin regs
    BY <2>1 DEF LiveTypes
  <2> QED
    BY <1>2, <2>1, <2>2 DEF OrderlyRegs
<1>9. /\ \A e : (Known(e)' <=> Known(e)) /\ (Closed(e)' <=> Closed(e))
      /\ OpenPositions' = OpenPositions /\ Holding' = Holding
  BY <1>1 DEF OpenPositions, Known, Closed, Holding
<1>10. \A e \in Entries : Known(e) => Closed(e)
  BY <1>6 DEF OpenPositions, Closed
<1>11. \A a \in valgos : Closed(a[1])
  <2>1. \A a \in valgos : a[1] \in Entries /\ Known(a[1])
    BY <1>2, <1>6 DEF Orphans, LiveTypes
  <2> QED
    BY <1>10, <2>1
<1>12. LiveTypes'
  <2>1. res' \in [pending : BOOLEAN, lease : {"none", "entry", "bound"}, age : Off..PendTtl]
    BY <1>1, LiveAssumption DEF Off
  <2>2. n' \in 0..MaxEntries
    BY <1>1, <1>2, LiveAssumption
  <2>3. regs' \subseteq (1..n') \X ({EntryCid} \cup Guards) /\ valgos' \subseteq (1..n') \X Guards
    BY <1>1, <1>2, <1>5 DEF LiveTypes
  <2> QED
    BY <1>1, <1>4, <2>1, <2>2, <2>3 DEF LiveTypes
<1>13. OrderlyQueue'
  BY <1>1, <1>2, <1>3, <1>4, <1>9 DEF OrderlyQueue, InQueue
<1>14. OrderlyFeed'
  <2> SUFFICES ASSUME NEW f \in Elements(feed)
               PROVE  /\ f.entry \in 1..(n + 1)
                      /\ f.cid = EntryCid => <<f.entry, EntryCid>> \in regs'
                      /\ f.cid # EntryCid => Known(f.entry) \/ <<f.entry, EntryCid>> \notin regs'
    BY <1>1, <1>9 DEF OrderlyFeed
  <2>1. f.entry \in 1..n
    BY DEF OrderlyFeed
  <2>2. f.entry # n + 1
    BY <1>2, <2>1
  <2> QED
    BY <1>2, <1>5, <2>1, <2>2 DEF OrderlyFeed
<1>15. OrderlyRegs'
  BY <1>1, <1>5, <1>9, CidKinds DEF OrderlyRegs
<1>16. UnderWay'
  <2> SUFFICES ASSUME NEW i \in 1..Len(queue'), queue'[i].kind = "entry"
               PROVE  /\ queue'[i].entry = n + 1 /\ ~Known(n + 1) /\ <<n + 1, EntryCid>> \in regs'
                      /\ OpenPositions = {} /\ Holding = {}
                      /\ res'.lease = "entry" /\ res'.age \in 0..MaxWait
                      /\ \A j \in 1..Len(queue') : queue'[j].kind = "entry" => i = j
                      /\ \A f \in Elements(feed) : f.cid = EntryCid => f.entry # n + 1
    BY <1>1, <1>9 DEF UnderWay, InQueue
  <2>1. \A j \in 1..Len(queue') : queue'[j].kind = "entry" => j = Len(queue) + 1 /\ queue'[j] = c
    BY <1>4, <1>7
  <2>2. \A f \in Elements(feed) : f.entry # n + 1
    BY <1>8 DEF OrderlyFeed
  <2> QED
    BY <1>1, <1>3, <1>5, <1>6, <1>8, <2>1, <2>2, LiveAssumption
<1>17. Unheard'
  BY <1>1, <1>7, <1>9 DEF Unheard
<1>18. Covered' /\ Held' /\ BesideHeld' /\ Closing'
  BY <1>6, <1>9 DEF Covered, Held, BesideHeld, Closing
<1>19. Orphans'
  BY <1>1, <1>6, <1>9 DEF Orphans
<1>20. Gone'
  BY <1>1, <1>9 DEF Gone
<1> DEFINE Next(a, lo, hi) ==
             \E j \in 1..Len(queue') : /\ lo < j /\ j < hi /\ queue'[j].kind = "cancel"
                                       /\ <<queue'[j].entry, queue'[j].cid>> = a
<1>21. \A a, lo, hi, h : h \in {hi, Len(queue) + 1, Len(queue') + 1} /\ Dropped(a, lo, hi)
                           /\ hi \in Nat /\ h >= hi => Next(a, lo, h)
  BY <1>4 DEF Dropped, CmdOrder, InQueue
<1> HIDE DEF Next
<1>22. /\ Len(queue) + 1 \in Nat /\ Len(queue') + 1 \in Nat /\ Len(queue') + 1 >= Len(queue) + 1
       /\ Len(queue) + 1 >= Len(queue) + 1
  BY <1>4
<1>23. ClosedAlgos'
  <2> SUFFICES ASSUME NEW a \in valgos, Closed(a[1])
               PROVE  a \in refused' \/ Next(a, 0, Len(queue') + 1)
    BY <1>1, <1>9 DEF ClosedAlgos, Dropped, InQueue, CmdOrder, Next
  <2>1. a \in refused \/ Dropped(a, 0, Len(queue) + 1)
    BY DEF ClosedAlgos
  <2> QED
    BY <1>4, <1>21, <1>22, <2>1
<1>24. ClosedPlaces'
  <2> SUFFICES ASSUME NEW i \in 1..Len(queue'), queue'[i].kind = "place", Closed(queue'[i].entry)
               PROVE  \/ <<queue'[i].entry, queue'[i].cid>> \in refused'
                      \/ Next(<<queue'[i].entry, queue'[i].cid>>, i, Len(queue') + 1)
    BY <1>9 DEF ClosedPlaces, Dropped, InQueue, CmdOrder, Next
  <2>1. i \in InQueue /\ queue'[i] = queue[i]
    BY <1>3, <1>4
  <2>2. CmdOrder(i) \in refused \/ Dropped(CmdOrder(i), i, Len(queue) + 1)
    BY <2>1 DEF ClosedPlaces
  <2>3. CmdOrder(i) = <<queue'[i].entry, queue'[i].cid>>
    BY <2>1 DEF CmdOrder
  <2> QED
    BY <1>4, <1>21, <1>22, <2>2, <2>3
<1>25. BeforeEntry'
  <2> SUFFICES ASSUME NEW k \in 1..Len(queue'), queue'[k].kind = "entry"
               PROVE  /\ \A a \in valgos : a \in refused' \/ Next(a, 0, k)
                      /\ \A i \in 1..Len(queue') : queue'[i].kind = "place" =>
                           \/ <<queue'[i].entry, queue'[i].cid>> \in refused'
                           \/ Next(<<queue'[i].entry, queue'[i].cid>>, i, k)
    BY <1>1 DEF BeforeEntry, Dropped, InQueue, CmdOrder, Next
  <2>1. k = Len(queue) + 1
    BY <1>4, <1>7
  <2>2. \A a \in valgos : a \in refused' \/ Next(a, 0, k)
    BY <1>4, <1>11, <1>21, <1>22, <2>1 DEF ClosedAlgos
  <2>3. ASSUME NEW i \in 1..Len(queue'), queue'[i].kind = "place"
        PROVE  \/ <<queue'[i].entry, queue'[i].cid>> \in refused'
               \/ Next(<<queue'[i].entry, queue'[i].cid>>, i, k)
    <3>1. i \in InQueue /\ queue'[i] = queue[i]
      BY <1>3, <1>4, <2>3
    <3>2. Closed(queue[i].entry)
      BY <1>2, <1>10, <2>3, <3>1 DEF OrderlyQueue
    <3>3. CmdOrder(i) \in refused \/ Dropped(CmdOrder(i), i, Len(queue) + 1)
      BY <2>3, <3>1, <3>2 DEF ClosedPlaces
    <3>4. CmdOrder(i) = <<queue'[i].entry, queue'[i].cid>>
      BY <3>1 DEF CmdOrder
    <3> QED
      BY <1>4, <1>21, <1>22, <2>1, <3>3, <3>4
  <2> QED
    BY <2>2, <2>3
<1> QED
  BY <1>12, <1>13, <1>14, <1>15, <1>16, <1>17, <1>18, <1>19, <1>20, <1>23, <1>24, <1>25
     DEF LiveInv, Orderly, Owned, Reserved, OldStops

-----------------------------------------------------------------------------
(* A frame reaches the engine. *)

LEMMA Opens ==
  ASSUME LiveInv, feed # <<>>, feed' = Tail(feed),
         NEW f, f = Head(feed), Resolves(f), EntryFill(f),
         UNCHANGED <<reconciled, since, vqty, valgos, vrepairs, n>>
  PROVE  LiveInv'
<1> USE Parts
<1> DEFINE e == f.entry
           r == OnEntryFill(pos[e], EntryPrice, f.qty, EntryStop)
<1>1. /\ f \in Elements(feed) /\ f \in FrameType
      /\ feed' \in Seq(FrameType) /\ Elements(feed') \subseteq Elements(feed)
  BY TailShape, TailElements DEF LiveTypes
<1>2. f.cid = EntryCid /\ <<e, EntryCid>> \in regs /\ ~Known(e) /\ e \in Entries /\ f.qty \in Nat
  BY <1>1 DEF EntryFill, Role, Resolves, FrameType
<1>3. e = n /\ OpenPositions = {} /\ res.lease = "entry" /\ res.age \in 0..(MaxWait + MaxDelay)
  BY <1>1, <1>2 DEF Unheard
<1>4. n \in Nat /\ 1..n \subseteq Entries /\ e \in 1..n
  <2>1. n \in Nat /\ 1..n \subseteq Entries
    BY LiveAssumption DEF LiveTypes, Entries
  <2> QED
    BY <1>1, <2>1 DEF OrderlyFeed
<1>5. /\ r.pos \in Position /\ r.pos.state = "PROTECTING" /\ r.pos.active = Guards
      /\ r.ctl = {PlaceAlgo(<<"SL", 1>>), PlaceAlgo(<<"TP", 1>>)} /\ r.ord = {}
  BY <1>2, FillEffect, LiveAssumption DEF LiveTypes
<1>6. /\ pos' = [pos EXCEPT ![e] = r.pos] /\ Sends(Places(e)) /\ Registers(Places(e))
      /\ res' = [res EXCEPT !.pending = FALSE, !.lease = IF @ = "none" THEN @ ELSE "bound"]
  <2>1. EntryFill(f)
    OBVIOUS
  <2> HIDE DEF r
  <2>2. pos' = [pos EXCEPT ![e] = r.pos] /\ Sends(Commands(e, r)) /\ Registers(Commands(e, r))
    BY <2>1 DEF EntryFill, Steps, r
  <2> QED
    BY <1>5, <2>1, <2>2, PlaceCommands DEF EntryFill
<1> HIDE DEF r
<1>7. /\ Len(Places(e)) = 2 /\ Places(e) \in Seq(Command)
      /\ \A j \in 1..2 : /\ Places(e)[j].kind = "place" /\ Places(e)[j].entry = e
                         /\ Places(e)[j].cid \in Guards
  <2>1. Places(e) \in Seq(Command)
    BY <1>2, CommandTypes
  <2>2. \A j \in 1..2 : j = 1 \/ j = 2
    OBVIOUS
  <2> QED
    BY <2>1, <2>2 DEF Places, Cmd, Guards
<1>8. /\ queue' \in Seq(Command) /\ Len(queue') <= QMax /\ Len(queue) \in Nat
      /\ Len(queue) <= Len(queue') /\ \A i \in InQueue : queue'[i] = queue[i]
      /\ refused \subseteq refused'
      /\ \A i \in 1..Len(queue') :
           \/ i \in InQueue
           \/ queue'[i].kind = "place" /\ queue'[i].entry = e /\ queue'[i].cid \in Guards
  <2>1. queue \in Seq(Command) /\ Len(queue) <= QMax /\ Len(queue) \in Nat
    BY DEF LiveTypes
  <2>2. /\ queue' \in Seq(Command) /\ Len(queue') <= QMax
        /\ Len(queue) <= Len(queue') /\ \A i \in 1..Len(queue) : queue'[i] = queue[i]
        /\ \A i \in Len(queue) + 1..Len(queue') :
             i - Len(queue) \in 1..Len(Places(e)) /\ queue'[i] = Places(e)[i - Len(queue)]
        /\ refused \subseteq refused'
    BY <1>6, <1>7, <2>1, SendsShape
  <2>3. ASSUME NEW i \in 1..Len(queue'), i \notin InQueue
        PROVE  queue'[i].kind = "place" /\ queue'[i].entry = e /\ queue'[i].cid \in Guards
    <3>1. i \in Len(queue) + 1..Len(queue')
      BY <2>1, <2>2, <2>3 DEF InQueue
    <3> QED
      BY <1>7, <2>2, <3>1
  <2> QED
    BY <2>1, <2>2, <2>3 DEF InQueue
<1>9. regs' = regs \cup ({e} \X Guards)
  <2> DEFINE a == Cmd(e, "place", <<"SL", 1>>, 0)
             b == Cmd(e, "place", <<"TP", 1>>, 0)
  <2>1. /\ a.kind = "place" /\ <<a.entry, a.cid>> = <<e, <<"SL", 1>>>>
        /\ b.kind = "place" /\ <<b.entry, b.cid>> = <<e, <<"TP", 1>>>>
    BY DEF Cmd
  <2>2. Elements(Places(e)) = {a, b}
    <3> HIDE DEF a, b
    <3>1. Places(e) = <<a, b>>
      BY DEF Places, a, b
    <3> QED
      BY <3>1, ElementsOfPair
  <2> HIDE DEF a, b
  <2>3. {x \in Elements(Places(e)) : x.kind # "cancel"} = {a, b}
    BY <2>1, <2>2
  <2>4. regs' = regs \cup {<<x.entry, x.cid>> : x \in {a, b}}
    BY <1>6, <2>3 DEF Registers
  <2> QED
    BY <2>1, <2>4 DEF Guards
<1>10. /\ \A d \in Entries : d # e => pos'[d] = pos[d]
       /\ pos'[e] = r.pos
  BY <1>2, <1>6 DEF LiveTypes
<1>11. /\ \A d \in Entries : d # e => (Known(d)' <=> Known(d)) /\ (Closed(d)' <=> Closed(d))
       /\ Known(e)' /\ ~Closed(e)' /\ pos'[e].active = Guards /\ Holding' = Holding
       /\ OpenPositions' = {e}
  <2>1. /\ \A d \in Entries : d # e => (Known(d)' <=> Known(d)) /\ (Closed(d)' <=> Closed(d))
        /\ Known(e)' /\ ~Closed(e)' /\ pos'[e].active = Guards
    BY <1>5, <1>10 DEF Known, Closed
  <2>2. \A d \in Entries : d \in OpenPositions' <=> d = e
    BY <1>2, <1>3, <2>1 DEF OpenPositions, Closed
  <2> QED
    BY <1>2, <2>1, <2>2 DEF OpenPositions, Holding
<1>12. \A i \in InQueue : queue[i].kind # "entry"
  BY <1>1, <1>2, <1>3 DEF UnderWay
<1>13. LiveTypes'
  <2>1. res' \in [pending : BOOLEAN, lease : {"none", "entry", "bound"}, age : Off..PendTtl]
    BY <1>6 DEF LiveTypes
  <2>2. pos' \in [Entries -> Position] /\ \A d \in Entries : pos'[d].state \in LiveState
    BY <1>5, <1>6, <1>10 DEF LiveTypes, LiveState
  <2>3. regs' \subseteq (1..n) \X ({EntryCid} \cup Guards)
    BY <1>4, <1>9 DEF LiveTypes
  <2> QED
    BY <1>1, <1>8, <2>1, <2>2, <2>3 DEF LiveTypes
<1>14. OrderlyQueue'
  <2> SUFFICES ASSUME NEW i \in 1..Len(queue')
               PROVE  /\ queue'[i].entry \in 1..n
                      /\ queue'[i].kind = "entry" => queue'[i].cid = EntryCid
                      /\ queue'[i].kind \in {"place", "cancel"} => queue'[i].cid \in Guards
                      /\ queue'[i].kind = "exit" => queue'[i].cid \in ExitId
                      /\ queue'[i].kind # "entry" => Known(queue[i].entry)'
                      /\ queue'[i].kind = "cancel" => Closed(queue[i].entry)'
    BY DEF OrderlyQueue, InQueue, Known, Closed
  <2>1. CASE i \in InQueue
    <3>1. queue'[i] = queue[i] /\ queue[i].entry \in Entries
      BY <1>4, <1>8, <2>1 DEF OrderlyQueue
    <3>2. queue[i].kind # "entry" => Known(queue[i].entry)'
      BY <1>11, <2>1, <3>1 DEF OrderlyQueue, Known
    <3>3. queue[i].kind = "cancel" => Closed(queue[i].entry)'
      <4>1. Closed(queue[i].entry) => queue[i].entry # e
        BY <1>2 DEF Closed, Known
      <4> QED
        BY <1>11, <2>1, <3>1, <4>1 DEF OrderlyQueue, Closed
    <3> QED
      BY <2>1, <3>1, <3>2, <3>3 DEF OrderlyQueue
  <2>2. CASE i \notin InQueue
    BY <1>4, <1>8, <1>11, <2>2 DEF Known
  <2> QED
    BY <2>1, <2>2
<1>15. OrderlyFeed'
  <2> SUFFICES ASSUME NEW g \in Elements(feed')
               PROVE  /\ g.entry \in 1..n
                      /\ g.cid = EntryCid => <<g.entry, EntryCid>> \in regs'
                      /\ g.cid # EntryCid => Known(g.entry)' \/ <<g.entry, EntryCid>> \notin regs'
    BY DEF OrderlyFeed
  <2>1. /\ g.entry \in 1..n
        /\ g.cid = EntryCid => <<g.entry, EntryCid>> \in regs
        /\ g.cid # EntryCid => Known(g.entry) \/ <<g.entry, EntryCid>> \notin regs
    BY <1>1 DEF OrderlyFeed
  <2>2. <<g.entry, EntryCid>> \in regs' <=> <<g.entry, EntryCid>> \in regs
    BY <1>9, CidKinds
  <2>3. Known(g.entry) => Known(g.entry)'
    BY <1>4, <1>11, <2>1
  <2> QED
    BY <2>1, <2>2, <2>3
<1>16. OrderlyRegs'
  <2> SUFFICES ASSUME NEW d \in Entries
               PROVE  /\ Known(d)' => <<d, EntryCid>> \in regs'
                      /\ \A c \in Guards : <<d, c>> \in regs' => Known(d)'
                      /\ pos'[d].active = IF Known(d)' /\ ~Closed(d)' THEN Guards ELSE {}
    BY DEF OrderlyRegs
  <2>1. CASE d = e
    BY <1>2, <1>9, <1>11, <2>1
  <2>2. CASE d # e
    <3>1. \A c : <<d, c>> \in regs' <=> <<d, c>> \in regs
      BY <1>9, <2>2
    <3> QED
      BY <1>10, <1>11, <2>2, <3>1 DEF OrderlyRegs
  <2> QED
    BY <2>1, <2>2
<1>17. \A i \in 1..Len(queue') : queue'[i].kind # "entry"
  BY <1>8, <1>12
<1>18. UnderWay' /\ BeforeEntry'
  BY <1>17 DEF UnderWay, BeforeEntry, InQueue
<1>19. Unheard'
  <2> SUFFICES ASSUME NEW g \in Elements(feed'), g.cid = EntryCid PROVE Known(g.entry)'
    BY DEF Unheard
  <2>1. g.entry \in Entries /\ (~Known(g.entry) => g.entry = e)
    BY <1>1, <1>3, <1>4 DEF Unheard, OrderlyFeed
  <2> QED
    BY <1>11, <2>1
<1>20. Covered'
  BY <1>11 DEF Covered
<1>21. Orphans'
  <2> SUFFICES ASSUME NEW a \in valgos PROVE Known(a[1])'
    BY DEF Orphans
  <2>1. Known(a[1]) /\ a[1] \in Entries
    BY <1>2, <1>4 DEF Orphans, LiveTypes
  <2> QED
    BY <1>11, <2>1
<1>22. Gone' /\ Held'
  BY <1>11 DEF Gone, Held
<1>23. Closing'
  <2> SUFFICES ASSUME NEW g \in Elements(feed'), g.kind = "fill", g.cid # EntryCid,
                      <<g.entry, g.cid>> \in regs', g.entry = e
               PROVE  FALSE
    BY <1>11 DEF Closing
  <2> QED
    BY <1>1, <1>2 DEF OrderlyFeed
<1> DEFINE Next(a, lo, hi) ==
             \E j \in 1..Len(queue') : /\ lo < j /\ j < hi /\ queue'[j].kind = "cancel"
                                       /\ <<queue'[j].entry, queue'[j].cid>> = a
<1> HIDE DEF Next
<1>24. \A a : \A lo \in Nat : Dropped(a, lo, Len(queue) + 1) => Next(a, lo, Len(queue') + 1)
  <2> SUFFICES ASSUME NEW a, NEW lo \in Nat, Dropped(a, lo, Len(queue) + 1)
               PROVE  Next(a, lo, Len(queue') + 1)
    OBVIOUS
  <2>1. PICK j \in InQueue : lo < j /\ queue[j].kind = "cancel" /\ CmdOrder(j) = a
    BY DEF Dropped
  <2>2. queue'[j] = queue[j] /\ j \in 1..Len(queue') /\ j < Len(queue') + 1
    <3>1. Len(queue') \in Nat
      BY <1>8
    <3> QED
      BY <1>8, <2>1, <3>1 DEF InQueue
  <2> QED
    BY <2>1, <2>2 DEF CmdOrder, Next
<1>25. \A d \in Entries : Closed(d)' => Closed(d) /\ d # e
  BY <1>11
<1>26. ClosedAlgos'
  <2> SUFFICES ASSUME NEW a \in valgos, Closed(a[1])'
               PROVE  a \in refused' \/ Next(a, 0, Len(queue') + 1)
    BY DEF ClosedAlgos, Dropped, InQueue, CmdOrder, Next
  <2>1. a[1] \in Entries
    BY <1>4 DEF LiveTypes
  <2>2. a \in refused \/ Dropped(a, 0, Len(queue) + 1)
    BY <1>25, <2>1 DEF ClosedAlgos
  <2> QED
    BY <1>8, <1>24, <2>2
<1>27. ClosedPlaces'
  <2> SUFFICES ASSUME NEW i \in 1..Len(queue'), queue'[i].kind = "place", Closed(queue[i].entry)'
               PROVE  \/ <<queue'[i].entry, queue'[i].cid>> \in refused'
                      \/ Next(<<queue'[i].entry, queue'[i].cid>>, i, Len(queue') + 1)
    BY DEF ClosedPlaces, Dropped, InQueue, CmdOrder, Next
  <2>1. i \in InQueue /\ queue'[i] = queue[i]
    BY <1>8, <1>11 DEF Closed
  <2>2. Closed(queue[i].entry)
    <3>1. queue[i].entry \in Entries
      BY <1>4, <2>1 DEF OrderlyQueue
    <3> QED
      BY <1>25, <2>1, <3>1 DEF Closed
  <2>3. CmdOrder(i) \in refused \/ Dropped(CmdOrder(i), i, Len(queue) + 1)
    BY <2>1, <2>2 DEF ClosedPlaces
  <2>4. CmdOrder(i) = <<queue'[i].entry, queue'[i].cid>> /\ i \in Nat
    BY <2>1 DEF CmdOrder
  <2> QED
    BY <1>8, <1>24, <2>3, <2>4
<1>28. BesideHeld'
  <2> SUFFICES ASSUME Holding # {}
               PROVE  /\ \A a \in valgos : a[1] = n \/ a \in refused'
                      /\ \A i \in 1..Len(queue') : queue'[i].kind = "place" =>
                           \/ queue'[i].entry = n
                           \/ <<queue'[i].entry, queue'[i].cid>> \in refused'
    BY <1>11 DEF BesideHeld, InQueue, CmdOrder
  <2>1. \A a \in valgos : a[1] = n \/ a \in refused'
    BY <1>8 DEF BesideHeld
  <2>2. ASSUME NEW i \in 1..Len(queue'), queue'[i].kind = "place"
        PROVE  queue'[i].entry = n \/ <<queue'[i].entry, queue'[i].cid>> \in refused'
    <3>1. CASE i \in InQueue
      BY <1>8, <2>2, <3>1 DEF BesideHeld, CmdOrder
    <3>2. CASE i \notin InQueue
      BY <1>3, <1>8, <3>2
    <3> QED
      BY <3>1, <3>2
  <2> QED
    BY <2>1, <2>2
<1> QED
  BY <1>13, <1>14, <1>15, <1>16, <1>18, <1>19, <1>20, <1>21, <1>22, <1>23, <1>26, <1>27, <1>28
     DEF LiveInv, Orderly, Owned, Reserved, OldStops

LEMMA SendsNothing ==
  ASSUME LiveTypes, Sends(<<>>) PROVE queue' = queue /\ refused' = refused
<1>1. queue \in Seq(Command) /\ Len(queue) <= QMax /\ Len(queue) \in Nat
  BY DEF LiveTypes
<1>2. queue' = queue
  BY <1>1, LiveAssumption DEF Sends, PutAll, Room
<1>3. Elements(<<>>) = {}
  BY DEF Elements
<1> QED
  BY <1>2, <1>3 DEF Sends

LEMMA RegistersNothing ==
  ASSUME NEW cs, Registers(cs), \A c \in Elements(cs) : c.kind = "cancel" PROVE regs' = regs
<1>1. {x \in Elements(cs) : x.kind # "cancel"} = {}
  OBVIOUS
<1> QED
  BY <1>1 DEF Registers

(* A step of the engine that changes no more than one record, and neither  *)
(* opens nor closes it.                                                    *)
LEMMA Idle ==
  ASSUME LiveInv, feed # <<>>, feed' = Tail(feed),
         UNCHANGED <<regs, queue, refused, reconciled, since, vqty, valgos, vrepairs, n>>,
         pos' \in [Entries -> Position],
         \A e \in Entries : pos'[e].state = pos[e].state /\ pos'[e].active = pos[e].active,
         \E p \in BOOLEAN : res' = [res EXCEPT !.pending = p]
  PROVE  LiveInv'
<1> USE Parts
<1>1. feed' \in Seq(FrameType) /\ Elements(feed') \subseteq Elements(feed)
  BY TailShape, TailElements DEF LiveTypes
<1>2. /\ \A e \in Entries : (Known(e)' <=> Known(e)) /\ (Closed(e)' <=> Closed(e))
      /\ OpenPositions' = OpenPositions /\ Holding' = Holding
  BY DEF OpenPositions, Known, Closed, Holding
<1>3. /\ res' \in [pending : BOOLEAN, lease : {"none", "entry", "bound"}, age : Off..PendTtl]
      /\ res'.lease = res.lease /\ res'.age = res.age
  BY DEF LiveTypes
<1>4. LiveTypes'
  BY <1>1, <1>3 DEF LiveTypes
<1>5. Orderly' /\ Owned' /\ OldStops'
  BY <1>1, <1>2, <1>4, Calm DEF InQueue
<1>6. n \in Nat /\ 1..n \subseteq Entries
  <2>1. n \in 0..MaxEntries
    BY DEF LiveTypes
  <2> QED
    BY <2>1, LiveAssumption DEF Entries
<1>7. UnderWay'
  <2>1. \A i \in InQueue : queue[i].kind = "entry" => n \in Entries
    BY <1>6 DEF UnderWay, OrderlyQueue
  <2> QED
    BY <1>1, <1>2, <1>3, <2>1 DEF UnderWay, InQueue, Known
<1>8. Unheard'
  BY <1>1, <1>2, <1>3, <1>6 DEF Unheard, OrderlyFeed
<1>9. Covered'
  BY <1>2, <1>3 DEF Covered
<1>10. Orphans'
  BY <1>2, <1>6 DEF Orphans, LiveTypes
<1> QED
  BY <1>4, <1>5, <1>7, <1>8, <1>9, <1>10 DEF LiveInv, Reserved

(* The last fill of a position: nothing is held any more, and its two      *)
(* orders are cancelled behind whatever the queue holds.                   *)
LEMMA Closes ==
  ASSUME LiveInv, feed # <<>>, feed' = Tail(feed),
         NEW f \in Elements(feed), f.kind = "fill", f.cid # EntryCid, Resolves(f),
         f.entry \in OpenPositions,
         NEW p \in Position, p.state = "CLOSED", p.active = {},
         pos' = [pos EXCEPT ![f.entry] = p], Sends(Cancels(f.entry)), Registers(Cancels(f.entry)),
         UNCHANGED <<res, reconciled, since, vqty, valgos, vrepairs, n>>
  PROVE  LiveInv'
<1> USE Parts
<1> DEFINE e == f.entry
<1>1. feed' \in Seq(FrameType) /\ Elements(feed') \subseteq Elements(feed)
  BY TailShape, TailElements DEF LiveTypes
<1>2. <<e, f.cid>> \in regs /\ Known(e) /\ ~Closed(e) /\ e \in Entries /\ Holding = {}
  BY DEF Resolves, OpenPositions, Closed, Closing
<1>3. n \in Nat /\ 1..n \subseteq Entries /\ e \in 1..n
  <2>1. n \in Nat /\ 1..n \subseteq Entries
    BY LiveAssumption DEF LiveTypes, Entries
  <2> QED
    BY <2>1 DEF OrderlyFeed
<1>4. /\ Len(Cancels(e)) = 2 /\ Cancels(e) \in Seq(Command)
      /\ \A j \in 1..2 : /\ Cancels(e)[j].kind = "cancel" /\ Cancels(e)[j].entry = e
                         /\ Cancels(e)[j].cid \in Guards
      /\ \A g \in Guards : \E j \in 1..2 : Cancels(e)[j].cid = g
  <2>1. Cancels(e) \in Seq(Command)
    BY <1>2, CommandTypes
  <2>2. \A j \in 1..2 : j = 1 \/ j = 2
    OBVIOUS
  <2>3. Cancels(e)[1].cid = <<"SL", 1>> /\ Cancels(e)[2].cid = <<"TP", 1>>
    BY DEF Cancels, Cmd
  <2>4. \A g \in Guards : \E j \in 1..2 : Cancels(e)[j].cid = g
    BY <2>3 DEF Guards
  <2> QED
    BY <2>1, <2>2, <2>4 DEF Cancels, Cmd, Guards
<1>5. /\ queue' \in Seq(Command) /\ Len(queue') <= QMax /\ Len(queue) \in Nat /\ Len(queue') \in Nat
      /\ Len(queue) <= Len(queue') /\ \A i \in InQueue : queue'[i] = queue[i]
      /\ refused \subseteq refused'
      /\ \A i \in 1..Len(queue') :
           \/ i \in InQueue
           \/ queue'[i].kind = "cancel" /\ queue'[i].entry = e /\ queue'[i].cid \in Guards
      /\ \A j \in 1..2 : \/ <<e, Cancels(e)[j].cid>> \in refused'
                         \/ \E i \in 1..Len(queue') : queue'[i] = Cancels(e)[j]
  <2>1. queue \in Seq(Command) /\ Len(queue) <= QMax /\ Len(queue) \in Nat
    BY DEF LiveTypes
  <2>2. /\ queue' \in Seq(Command) /\ Len(queue') <= QMax
        /\ Len(queue) <= Len(queue') /\ \A i \in 1..Len(queue) : queue'[i] = queue[i]
        /\ \A i \in Len(queue) + 1..Len(queue') :
             i - Len(queue) \in 1..Len(Cancels(e)) /\ queue'[i] = Cancels(e)[i - Len(queue)]
        /\ refused \subseteq refused'
        /\ \A j \in 1..Len(Cancels(e)) : Cancels(e)[j].kind = "cancel" =>
              \/ <<Cancels(e)[j].entry, Cancels(e)[j].cid>> \in refused'
              \/ \E i \in 1..Len(queue') : queue'[i] = Cancels(e)[j]
    BY <1>4, <2>1, SendsShape
  <2>3. ASSUME NEW i \in 1..Len(queue'), i \notin InQueue
        PROVE  queue'[i].kind = "cancel" /\ queue'[i].entry = e /\ queue'[i].cid \in Guards
    <3>1. i \in Len(queue) + 1..Len(queue')
      BY <2>1, <2>2, <2>3 DEF InQueue
    <3> QED
      BY <1>4, <2>2, <3>1
  <2>4. \A j \in 1..2 : \/ <<e, Cancels(e)[j].cid>> \in refused'
                        \/ \E i \in 1..Len(queue') : queue'[i] = Cancels(e)[j]
    BY <1>4, <2>2
  <2>5. Len(queue') \in Nat
    BY <2>2
  <2> QED
    BY <2>1, <2>2, <2>3, <2>4, <2>5 DEF InQueue
<1>6. regs' = regs
  <2>1. \A c \in Elements(Cancels(e)) : c.kind = "cancel"
    BY <1>4 DEF Elements
  <2> QED
    BY <2>1, RegistersNothing
<1>7. pos'[e] = p /\ \A d \in Entries : d # e => pos'[d] = pos[d]
  BY <1>2 DEF LiveTypes
<1>8. /\ \A d \in Entries : /\ Known(d)' <=> Known(d)
                            /\ Closed(d)' <=> Closed(d) \/ d = e
      /\ Holding' = {}
  BY <1>2, <1>7 DEF Known, Closed, Holding
<1> DEFINE Next(a, lo, hi) ==
             \E j \in 1..Len(queue') : /\ lo < j /\ j < hi /\ queue'[j].kind = "cancel"
                                       /\ <<queue'[j].entry, queue'[j].cid>> = a
<1> HIDE DEF Next
<1>9. \A a : \A lo \in Nat : Dropped(a, lo, Len(queue) + 1) => Next(a, lo, Len(queue') + 1)
  <2> SUFFICES ASSUME NEW a, NEW lo \in Nat, Dropped(a, lo, Len(queue) + 1)
               PROVE  Next(a, lo, Len(queue') + 1)
    OBVIOUS
  <2>1. PICK j \in InQueue : lo < j /\ queue[j].kind = "cancel" /\ CmdOrder(j) = a
    BY DEF Dropped
  <2>2. queue'[j] = queue[j] /\ j \in 1..Len(queue') /\ j < Len(queue') + 1
    BY <1>5, <2>1 DEF InQueue
  <2> QED
    BY <2>1, <2>2 DEF CmdOrder, Next
<1>10. \A g \in Guards, lo \in Nat : lo <= Len(queue) =>
         <<e, g>> \in refused' \/ Next(<<e, g>>, lo, Len(queue') + 1)
  <2> SUFFICES ASSUME NEW g \in Guards, NEW lo \in Nat, lo <= Len(queue), <<e, g>> \notin refused'
               PROVE  Next(<<e, g>>, lo, Len(queue') + 1)
    OBVIOUS
  <2>1. PICK j \in 1..2 : Cancels(e)[j].cid = g
    BY <1>4
  <2>2. PICK i \in 1..Len(queue') : queue'[i] = Cancels(e)[j]
    BY <1>5, <2>1
  <2>3. queue'[i].kind = "cancel" /\ queue'[i].entry = e /\ queue'[i].cid = g
    BY <1>4, <2>1, <2>2
  <2>4. i \notin InQueue
    BY <1>2, <1>5, <2>3 DEF OrderlyQueue
  <2>5. lo < i /\ i < Len(queue') + 1
    BY <1>5, <2>4 DEF InQueue
  <2> QED
    BY <2>3, <2>5 DEF Next
<1>11. LiveTypes'
  <2>1. pos' \in [Entries -> Position] /\ \A d \in Entries : pos'[d].state \in LiveState
    BY <1>7 DEF LiveTypes, LiveState
  <2> QED
    BY <1>1, <1>5, <1>6, <2>1 DEF LiveTypes
<1>12. OrderlyQueue'
  <2> SUFFICES ASSUME NEW i \in 1..Len(queue')
               PROVE  /\ queue'[i].entry \in 1..n
                      /\ queue'[i].kind = "entry" => queue'[i].cid = EntryCid
                      /\ queue'[i].kind \in {"place", "cancel"} => queue'[i].cid \in Guards
                      /\ queue'[i].kind = "exit" => queue'[i].cid \in ExitId
                      /\ queue'[i].kind # "entry" => Known(queue[i].entry)'
                      /\ queue'[i].kind = "cancel" => Closed(queue[i].entry)'
    BY DEF OrderlyQueue, InQueue, Known, Closed
  <2>1. CASE i \in InQueue
    <3>1. queue'[i] = queue[i] /\ queue[i].entry \in Entries
      BY <1>3, <1>5, <2>1 DEF OrderlyQueue
    <3>2. queue[i].kind # "entry" => Known(queue[i].entry)'
      BY <1>8, <2>1, <3>1 DEF OrderlyQueue, Known
    <3>3. queue[i].kind = "cancel" => Closed(queue[i].entry)'
      BY <1>8, <2>1, <3>1 DEF OrderlyQueue, Closed
    <3> QED
      BY <2>1, <3>1, <3>2, <3>3 DEF OrderlyQueue
  <2>2. CASE i \notin InQueue
    BY <1>2, <1>3, <1>5, <1>8, <2>2 DEF Known, Closed
  <2> QED
    BY <2>1, <2>2
<1>13. OrderlyFeed'
  BY <1>1, <1>3, <1>6, <1>8 DEF OrderlyFeed
<1>14. OrderlyRegs'
  <2> SUFFICES ASSUME NEW d \in Entries
               PROVE  /\ Known(d)' => <<d, EntryCid>> \in regs
                      /\ \A c \in Guards : <<d, c>> \in regs => Known(d)'
                      /\ pos'[d].active = IF Known(d)' /\ ~Closed(d)' THEN Guards ELSE {}
    BY <1>6 DEF OrderlyRegs
  <2>1. CASE d = e
    BY <1>2, <1>7, <1>8, <2>1 DEF OrderlyRegs
  <2>2. CASE d # e
    BY <1>7, <1>8, <2>2 DEF OrderlyRegs
  <2> QED
    BY <2>1, <2>2
<1>15. \A i \in 1..Len(queue') : queue'[i].kind # "entry"
  BY <1>5 DEF UnderWay
<1>16. UnderWay' /\ BeforeEntry'
  BY <1>15 DEF UnderWay, BeforeEntry, InQueue
<1>17. Unheard'
  <2> SUFFICES ASSUME NEW g \in Elements(feed'), g.cid = EntryCid PROVE Known(g.entry)'
    BY DEF Unheard
  <2>1. g.entry \in Entries /\ Known(g.entry)
    BY <1>1, <1>3 DEF Unheard, OrderlyFeed
  <2> QED
    BY <1>8, <2>1
<1>18. Covered' /\ Held' /\ BesideHeld' /\ Closing'
  BY <1>8 DEF Covered, Held, BesideHeld, Closing
<1>19. Orphans'
  <2> SUFFICES ASSUME NEW a \in valgos PROVE Known(a[1])'
    BY DEF Orphans
  <2>1. Known(a[1]) /\ a[1] \in Entries
    BY <1>2, <1>3 DEF Orphans, LiveTypes
  <2> QED
    BY <1>8, <2>1
<1>20. Gone'
  <2>1. vqty[e] = 0
    BY <1>2, LiveAssumption DEF Holding, LiveTypes
  <2> QED
    BY <1>8, <2>1 DEF Gone, Closed
<1>21. ClosedAlgos'
  <2> SUFFICES ASSUME NEW a \in valgos, Closed(a[1])'
               PROVE  a \in refused' \/ Next(a, 0, Len(queue') + 1)
    BY DEF ClosedAlgos, Dropped, InQueue, CmdOrder, Next
  <2>1. a[1] \in Entries /\ a[2] \in Guards /\ a = <<a[1], a[2]>>
    BY <1>3 DEF LiveTypes
  <2>2. CASE a[1] = e
    BY <1>5, <1>10, <2>1, <2>2
  <2>3. CASE a[1] # e
    <3>1. a \in refused \/ Dropped(a, 0, Len(queue) + 1)
      BY <1>8, <2>1, <2>3 DEF ClosedAlgos
    <3> QED
      BY <1>5, <1>9, <3>1
  <2> QED
    BY <2>2, <2>3
<1>22. ClosedPlaces'
  <2> SUFFICES ASSUME NEW i \in 1..Len(queue'), queue'[i].kind = "place", Closed(queue[i].entry)'
               PROVE  \/ <<queue'[i].entry, queue'[i].cid>> \in refused'
                      \/ Next(<<queue'[i].entry, queue'[i].cid>>, i, Len(queue') + 1)
    BY DEF ClosedPlaces, Dropped, InQueue, CmdOrder, Next
  <2>1. i \in InQueue /\ queue'[i] = queue[i] /\ i \in Nat /\ i <= Len(queue)
    BY <1>5 DEF InQueue
  <2>2. queue[i].entry \in Entries /\ queue[i].cid \in Guards
    BY <1>3, <2>1 DEF OrderlyQueue
  <2>3. CASE queue[i].entry = e
    BY <1>10, <2>1, <2>2, <2>3
  <2>4. CASE queue[i].entry # e
    <3>1. Closed(queue[i].entry)
      BY <1>8, <2>1, <2>2, <2>4 DEF Closed
    <3>2. CmdOrder(i) \in refused \/ Dropped(CmdOrder(i), i, Len(queue) + 1)
      BY <2>1, <3>1 DEF ClosedPlaces
    <3>3. CmdOrder(i) = <<queue'[i].entry, queue'[i].cid>>
      BY <2>1 DEF CmdOrder
    <3> QED
      BY <1>5, <1>9, <2>1, <3>2, <3>3
  <2> QED
    BY <2>3, <2>4
<1> QED
  BY <1>11, <1>12, <1>13, <1>14, <1>16, <1>17, <1>18, <1>19, <1>20, <1>21, <1>22
     DEF LiveInv, Orderly, Owned, Reserved, OldStops

LEMMA ExitFillKeeps ==
  ASSUME LiveInv, feed # <<>>, feed' = Tail(feed),
         NEW f \in Elements(feed), f.kind = "fill", Resolves(f), ExitFill(f),
         UNCHANGED <<reconciled, since, vqty, valgos, vrepairs, n>>
  PROVE  LiveInv'
<1> USE Parts
<1> DEFINE e == f.entry
           r == OnExitFill(pos[e], f.qty, f.cid)
<1>1. f \in FrameType
  BY DEF LiveTypes, Elements
<1>2. e \in Entries /\ f.qty \in Nat /\ f.cid # EntryCid /\ Known(e) /\ pos[e] \in Position
  BY <1>1 DEF ExitFill, Role, FrameType, LiveTypes
<1>3. /\ r.pos \in Position /\ r.ord = {}
      /\ \/ /\ r.pos.state = "CLOSED" /\ r.pos.active = {}
            /\ r.ctl = {CancelAlgo(a) : a \in pos[e].active}
         \/ r.pos.state = pos[e].state /\ r.pos.active = pos[e].active /\ r.ctl = {}
  BY <1>2, ExitEffect
<1>4. /\ pos' = [pos EXCEPT ![e] = r.pos] /\ Sends(Commands(e, r)) /\ Registers(Commands(e, r))
      /\ res' = res
  <2>1. ExitFill(f)
    OBVIOUS
  <2> HIDE DEF r
  <2> QED
    BY <2>1 DEF ExitFill, Steps, r
<1> HIDE DEF r
<1>5. pos' \in [Entries -> Position] /\ pos'[e] = r.pos /\ \A d \in Entries : d # e => pos'[d] = pos[d]
  BY <1>2, <1>3, <1>4 DEF LiveTypes
<1>6. CASE e \in OpenPositions /\ r.pos.state = "CLOSED" /\ r.pos.active = {}
           /\ r.ctl = {CancelAlgo(a) : a \in pos[e].active}
  <2>1. pos[e].active = Guards
    BY <1>2, <1>6 DEF OpenPositions, OrderlyRegs, Closed
  <2>2. Commands(e, r) = Cancels(e)
    BY <1>3, <1>6, <2>1, CancelCommands
  <2>3. Sends(Cancels(e)) /\ Registers(Cancels(e)) /\ UNCHANGED <<res, reconciled, since, vqty, valgos, vrepairs, n>>
    BY <1>4, <2>2
  <2> QED
    BY <1>2, <1>3, <1>4, <1>6, <2>3, Closes
<1>7. CASE r.pos.state = pos[e].state /\ r.pos.active = pos[e].active /\ r.ctl = {}
  <2>1. Commands(e, r) = <<>>
    BY <1>3, <1>7, NoCommands
  <2>2. queue' = queue /\ refused' = refused
    BY <1>4, <2>1, SendsNothing
  <2>3. regs' = regs
    BY <1>4, <2>1, RegistersNothing DEF Elements
  <2>4. \A d \in Entries : pos'[d].state = pos[d].state /\ pos'[d].active = pos[d].active
    BY <1>5, <1>7
  <2>5. \E p \in BOOLEAN : res' = [res EXCEPT !.pending = p]
    BY <1>4 DEF LiveTypes
  <2> QED
    BY <1>5, <2>2, <2>3, <2>4, <2>5, Idle
<1>8. CASE e \notin OpenPositions /\ r.pos.state = "CLOSED" /\ r.pos.active = {}
           /\ r.ctl = {CancelAlgo(a) : a \in pos[e].active}
  <2>1. pos[e].state = "CLOSED" /\ pos[e].active = {}
    BY <1>2, <1>8 DEF OpenPositions, OrderlyRegs, Closed
  <2>2. r.ctl = {}
    BY <1>8, <2>1
  <2> QED
    BY <1>7, <1>8, <2>1, <2>2
<1> QED
  BY <1>3, <1>6, <1>7, <1>8

LEMMA ReceiveKeeps == ASSUME LiveInv, Receive PROVE LiveInv'
<1> USE Parts
<1> DEFINE f == Head(feed)
<1>1. /\ feed # <<>> /\ feed' = Tail(feed)
      /\ UNCHANGED <<reconciled, since, vqty, valgos, vrepairs, n>>
  BY DEF Receive, venue, counts
<1>2. f \in Elements(feed)
  BY <1>1, TailElements DEF LiveTypes
<1>3. ASSUME UNCHANGED <<pos, regs, queue, refused>>,
             \E p \in BOOLEAN : res' = [res EXCEPT !.pending = p]
      PROVE  LiveInv'
  BY <1>1, <1>3, Idle DEF LiveTypes
<1>4. \E p \in BOOLEAN : res = [res EXCEPT !.pending = p]
  BY DEF LiveTypes
<1>5. CASE Resolves(f) /\ f.kind = "fill" /\ EntryFill(f)
  BY <1>1, <1>5, Opens
<1>6. CASE Resolves(f) /\ f.kind = "fill" /\ ExitFill(f)
  BY <1>1, <1>2, <1>6, ExitFillKeeps
<1>7. CASE Resolves(f) /\ f.kind = "done" /\ OrderDone(f)
  <2>1. UNCHANGED <<pos, regs, queue, refused>>
        /\ res' = IF Role(f) = "entry" THEN [res EXCEPT !.pending = FALSE] ELSE res
    BY <1>7 DEF OrderDone
  <2>2. \E p \in BOOLEAN : res' = [res EXCEPT !.pending = p]
    BY <1>4, <2>1
  <2> QED
    BY <1>3, <2>1, <2>2
<1>8. CASE UNCHANGED <<pos, res, regs, queue, refused>>
  <2>1. \E p \in BOOLEAN : res' = [res EXCEPT !.pending = p]
    BY <1>4, <1>8
  <2> QED
    BY <1>3, <1>8, <2>1
<1>9. \/ Resolves(f) /\ f.kind = "fill" /\ (EntryFill(f) \/ ExitFill(f))
      \/ Resolves(f) /\ f.kind = "done" /\ OrderDone(f)
      \/ UNCHANGED <<pos, res, regs, queue, refused>>
  BY DEF Receive
<1> QED
  BY <1>5, <1>6, <1>7, <1>8, <1>9

-----------------------------------------------------------------------------
(* A tick. *)

LEMMA TickReservation ==
  ASSUME LiveTypes
  PROVE  LET r == Released(Swept(Later(res)))
         IN /\ r \in [pending : BOOLEAN, lease : {"none", "entry", "bound"}, age : Off..PendTtl]
            /\ res.lease = "entry" /\ res.age \in Nat /\ res.age + 1 < PendTtl
                 => r.lease = "entry" /\ r.age = res.age + 1
<1> DEFINE T == [pending : BOOLEAN, lease : {"none", "entry", "bound"}, age : Off..PendTtl]
           l == Later(res)
           s == Swept(l)
           r == Released(s)
<1>1. res \in T /\ PendTtl \in Nat
  BY LiveAssumption DEF LiveTypes
<1>2. /\ l.pending = res.pending /\ l.lease = res.lease
      /\ l.age = IF res.age = Off THEN res.age ELSE res.age + 1
      /\ l = [pending |-> l.pending, lease |-> l.lease, age |-> l.age]
  BY <1>1 DEF Later
<1>3. l.pending \in BOOLEAN /\ l.lease \in {"none", "entry", "bound"} /\ l.age \in Off..(PendTtl + 1)
  BY <1>1, <1>2 DEF Off
<1> HIDE DEF l
<1>4. s \in T /\ (l.lease = "entry" /\ l.age < PendTtl => s.lease = "entry" /\ s.age = l.age)
  <2>1. CASE l.age # Off /\ l.age >= PendTtl
    <3>1. s = [pending |-> FALSE, lease |-> IF l.lease = "entry" THEN "none" ELSE l.lease, age |-> Off]
      BY <2>1 DEF Swept
    <3> QED
      BY <1>1, <1>3, <2>1, <3>1 DEF Off
  <2>2. CASE ~(l.age # Off /\ l.age >= PendTtl)
    <3>1. s = l
      BY <2>2 DEF Swept
    <3>2. l.age \in Off..PendTtl
      BY <1>1, <1>3, <2>2 DEF Off
    <3> QED
      BY <1>2, <1>3, <3>1, <3>2
  <2> QED
    BY <2>1, <2>2
<1> HIDE DEF s
<1>5. r \in T /\ (s.lease = "entry" => r = s)
  BY <1>4 DEF Released
<1>6. res.lease = "entry" /\ res.age \in Nat /\ res.age + 1 < PendTtl
        => r.lease = "entry" /\ r.age = res.age + 1
  BY <1>1, <1>2, <1>4, <1>5 DEF Off
<1> HIDE DEF r, T
<1> QED
  BY <1>5, <1>6 DEF r, s, l, T

LEMMA TickSends ==
  ASSUME LiveInv, TickPositions
  PROVE  /\ pos' \in [Entries -> Position]
         /\ \A d \in Entries : /\ pos'[d].state \in LiveState
                               /\ Known(d)' <=> Known(d)
                               /\ Closed(d)' <=> Closed(d)
                               /\ pos'[d].active = pos[d].active
         /\ queue' \in Seq(Command) /\ Len(queue') <= QMax
         /\ Len(queue) <= Len(queue') /\ \A i \in InQueue : queue'[i] = queue[i]
         /\ \A i \in 1..Len(queue') :
              \/ i \in InQueue
              \/ /\ queue'[i].kind = "exit" /\ queue'[i].cid \in ExitId
                 /\ queue'[i].entry \in OpenPositions
         /\ refused \subseteq refused'
         /\ OpenPositions = {} => queue' = queue
<1> USE Parts
<1>1. queue \in Seq(Command) /\ Len(queue) <= QMax /\ Len(queue) \in Nat
  BY DEF LiveTypes
<1>2. CASE OpenPositions = {}
  <2>1. UNCHANGED <<pos, queue, refused>>
    BY <1>2 DEF TickPositions
  <2> QED
    BY <1>1, <2>1 DEF InQueue, LiveTypes, Known, Closed
<1>3. CASE OpenPositions # {}
  <2> DEFINE mode == IF reconciled THEN "FULL" ELSE "HALTED"
             label == TRUE
             next(e) == OnTick(Aged(pos[e]), EntryPrice, label, mode)
  <2>1. PICK e \in OpenPositions :
          pos' = [pos EXCEPT ![e] = next(e).pos] /\ Sends(Commands(e, next(e)))
    BY <1>3 DEF TickPositions
  <2> HIDE DEF mode, label
  <2> DEFINE r == next(e)
  <2>2. pos[e] \in Position /\ pos[e].state \in LiveState \ {"ENTRY_SENT", "CLOSED"} /\ e \in Entries
    BY DEF OpenPositions, Known, LiveTypes
  <2>3. /\ r.pos \in Position /\ r.pos.active = pos[e].active /\ r.ctl = {}
        /\ r.pos.state \in LiveState \ {"ENTRY_SENT", "CLOSED"}
        /\ \/ r.ord = {}
           \/ \E id \in ExitId, left \in Nat : r.ord = {[id |-> id, left |-> left]}
    BY <2>2, TickEffect
  <2>4. pos' = [pos EXCEPT ![e] = r.pos] /\ Sends(Commands(e, r))
    BY <2>1
  <2> HIDE DEF r, next
  <2>5. pos' \in [Entries -> Position] /\ pos'[e] = r.pos /\ \A d \in Entries : d # e => pos'[d] = pos[d]
    BY <2>2, <2>3, <2>4 DEF LiveTypes
  <2>6. \A d \in Entries : /\ pos'[d].state \in LiveState
                           /\ Known(d)' <=> Known(d)
                           /\ Closed(d)' <=> Closed(d)
                           /\ pos'[d].active = pos[d].active
    <3> SUFFICES ASSUME NEW d \in Entries
                 PROVE  /\ pos'[d].state \in LiveState
                        /\ Known(d)' <=> Known(d)
                        /\ Closed(d)' <=> Closed(d)
                        /\ pos'[d].active = pos[d].active
      OBVIOUS
    <3>1. CASE d = e
      BY <2>2, <2>3, <2>5, <3>1 DEF Known, Closed
    <3>2. CASE d # e
      BY <2>5, <3>2 DEF Known, Closed, LiveTypes
    <3> QED
      BY <3>1, <3>2
  <2>7. CASE r.ord = {}
    <3>1. Commands(e, r) = <<>>
      BY <2>3, <2>7, NoCommands
    <3>2. queue' = queue /\ refused' = refused
      BY <2>4, <3>1, SendsNothing
    <3> QED
      BY <1>1, <1>3, <2>5, <2>6, <3>2 DEF InQueue
  <2>8. CASE r.ord # {}
    <3>1. PICK id \in ExitId, left \in Nat : r.ord = {[id |-> id, left |-> left]}
      BY <2>3, <2>8
    <3> DEFINE c == Cmd(e, "exit", id, left)
    <3>2. Commands(e, r) = <<c>>
      BY <2>3, <3>1, ExitCommands
    <3>3. <<c>> \in Seq(Command) /\ Len(<<c>>) = 1 /\ <<c>>[1] = c
      BY <2>2, CommandTypes
    <3>4. c.kind = "exit" /\ c.cid \in ExitId /\ c.entry \in OpenPositions
      BY DEF Cmd
    <3> HIDE DEF c
    <3>5. /\ queue' \in Seq(Command) /\ Len(queue') <= QMax
          /\ Len(queue) <= Len(queue') /\ \A i \in 1..Len(queue) : queue'[i] = queue[i]
          /\ \A i \in Len(queue) + 1..Len(queue') :
               i - Len(queue) \in 1..Len(<<c>>) /\ queue'[i] = <<c>>[i - Len(queue)]
          /\ refused \subseteq refused'
      BY <1>1, <2>4, <3>2, <3>3, SendsShape
    <3>6. \A i \in 1..Len(queue') : i \in InQueue \/ queue'[i] = c
      <4> SUFFICES ASSUME NEW i \in 1..Len(queue'), i \notin InQueue PROVE queue'[i] = c
        OBVIOUS
      <4>1. i \in Len(queue) + 1..Len(queue')
        BY <1>1, <3>5 DEF InQueue
      <4> QED
        BY <1>1, <3>3, <3>5, <4>1
    <3> QED
      BY <1>3, <2>5, <2>6, <3>4, <3>5, <3>6 DEF InQueue
  <2> QED
    BY <2>7, <2>8
<1> QED
  BY <1>2, <1>3

LEMMA TickKeeps == ASSUME LiveInv, Tick PROVE LiveInv'
<1> USE Parts
<1>1. /\ since < RecPeriod /\ since' = since + 1
      /\ EntryQueued => res.age < MaxWait
      /\ EntryUnheard => res.age < MaxWait + MaxDelay
      /\ res' = Released(Swept(Later(res))) /\ TickPositions
      /\ UNCHANGED <<regs, reconciled, feed, vqty, valgos, vrepairs, n>>
  BY DEF Tick, venue, counts
<1>2. /\ pos' \in [Entries -> Position]
      /\ \A d \in Entries : /\ pos'[d].state \in LiveState
                            /\ Known(d)' <=> Known(d)
                            /\ Closed(d)' <=> Closed(d)
                            /\ pos'[d].active = pos[d].active
      /\ queue' \in Seq(Command) /\ Len(queue') <= QMax
      /\ Len(queue) <= Len(queue') /\ \A i \in InQueue : queue'[i] = queue[i]
      /\ \A i \in 1..Len(queue') :
           \/ i \in InQueue
           \/ /\ queue'[i].kind = "exit" /\ queue'[i].cid \in ExitId
              /\ queue'[i].entry \in OpenPositions
      /\ refused \subseteq refused'
      /\ OpenPositions = {} => queue' = queue
  BY <1>1, TickSends
<1>3. /\ res' \in [pending : BOOLEAN, lease : {"none", "entry", "bound"}, age : Off..PendTtl]
      /\ res.lease = "entry" /\ res.age \in Nat /\ res.age + 1 < PendTtl
           => res'.lease = "entry" /\ res'.age = res.age + 1
  BY <1>1, TickReservation
<1>4. /\ MaxWait \in Nat /\ MaxDelay \in Nat /\ RecPeriod \in Nat /\ PendTtl \in Nat
      /\ MaxWait + RecPeriod < PendTtl /\ MaxWait + MaxDelay < PendTtl
      /\ since \in 0..RecPeriod /\ n \in 0..MaxEntries /\ MaxEntries \in Nat
  BY LiveAssumption DEF LiveTypes
<1>5. since' \in 0..RecPeriod
  BY <1>1, <1>4
<1>6. LiveTypes'
  BY <1>1, <1>2, <1>3, <1>5 DEF LiveTypes
<1>7. Orderly' /\ Owned' /\ OldStops'
  BY <1>1, <1>2, <1>6, Calm
<1>8. OpenPositions' = OpenPositions /\ Holding' = Holding /\ 1..n \subseteq Entries
  BY <1>1, <1>2, <1>4 DEF OpenPositions, Closed, Holding, Entries
<1>9. UnderWay'
  <2> SUFFICES ASSUME NEW i \in 1..Len(queue'), queue'[i].kind = "entry"
               PROVE  /\ queue'[i].entry = n /\ ~Known(n)' /\ <<n, EntryCid>> \in regs
                      /\ OpenPositions = {} /\ Holding = {}
                      /\ res'.lease = "entry" /\ res'.age \in 0..MaxWait
                      /\ \A j \in 1..Len(queue') : queue'[j].kind = "entry" => i = j
                      /\ \A f \in Elements(feed) : f.cid = EntryCid => f.entry # n
    BY <1>1, <1>8 DEF UnderWay, InQueue, Known
  <2>1. i \in InQueue /\ queue'[i] = queue[i] /\ queue[i].kind = "entry"
    BY <1>2
  <2>2. /\ queue[i].entry = n /\ ~Known(n) /\ <<n, EntryCid>> \in regs
        /\ OpenPositions = {} /\ Holding = {}
        /\ res.lease = "entry" /\ res.age \in 0..MaxWait
        /\ \A j \in InQueue : queue[j].kind = "entry" => i = j
        /\ \A f \in Elements(feed) : f.cid = EntryCid => f.entry # n
    BY <2>1 DEF UnderWay
  <2>3. EntryQueued
    BY <2>1 DEF EntryQueued, Elements, InQueue
  <2>4. res.age + 1 < PendTtl /\ res.age + 1 \in 0..MaxWait /\ res.age \in Nat
    <3>1. res.age < MaxWait /\ res.age \in 0..MaxWait
      BY <1>1, <2>2, <2>3
    <3> QED
      BY <1>4, <3>1
  <2>5. ~Known(n)'
    <3>1. n \in Entries
      BY <1>8, <2>1, <2>2 DEF OrderlyQueue
    <3> QED
      BY <1>1, <1>2, <2>2, <3>1 DEF Known
  <2>6. \A j \in 1..Len(queue') : queue'[j].kind = "entry" => i = j
    BY <1>2, <2>2
  <2> QED
    BY <1>3, <2>1, <2>2, <2>4, <2>5, <2>6
<1>10. Unheard'
  <2> SUFFICES ASSUME NEW f \in Elements(feed), f.cid = EntryCid, ~Known(f.entry)'
               PROVE  /\ f.entry = n /\ OpenPositions = {}
                      /\ res'.lease = "entry" /\ res'.age \in 0..(MaxWait + MaxDelay)
    BY <1>1, <1>8 DEF Unheard
  <2>1. ~Known(f.entry)
    BY <1>2, <1>8 DEF OrderlyFeed
  <2>2. /\ f.entry = n /\ OpenPositions = {}
        /\ res.lease = "entry" /\ res.age \in 0..(MaxWait + MaxDelay)
    BY <2>1 DEF Unheard
  <2>3. EntryUnheard
    BY <2>1 DEF EntryUnheard
  <2>4. res.age + 1 < PendTtl /\ res.age + 1 \in 0..(MaxWait + MaxDelay) /\ res.age \in Nat
    BY <1>1, <1>4, <2>2, <2>3
  <2> QED
    BY <1>3, <2>2, <2>4
<1>11. Covered'
  <2> SUFFICES ASSUME Holding # {}, OpenPositions = {}, reconciled
               PROVE  res'.lease = "entry" /\ res'.age \in 0..(MaxWait + since')
    BY <1>1, <1>8 DEF Covered
  <2>1. res.lease = "entry" /\ res.age \in 0..(MaxWait + since)
    BY DEF Covered
  <2>2. /\ res.age + 1 < PendTtl /\ res.age + 1 \in 0..(MaxWait + (since + 1))
        /\ res.age \in Nat
    BY <1>1, <1>4, <2>1
  <2> QED
    BY <1>1, <1>3, <2>1, <2>2
<1>12. Orphans'
  <2> SUFFICES ASSUME NEW a \in valgos, ~Known(a[1])'
               PROVE  ~reconciled /\ regs = {} /\ queue' = <<>>
    BY <1>1 DEF Orphans
  <2>1. ~Known(a[1])
    BY <1>2, <1>8 DEF LiveTypes
  <2>2. ~reconciled /\ regs = {} /\ queue = <<>>
    BY <2>1 DEF Orphans
  <2>3. OpenPositions = {}
    BY <2>2 DEF OpenPositions, OrderlyRegs
  <2> QED
    BY <1>2, <2>2, <2>3
<1> QED
  BY <1>6, <1>7, <1>9, <1>10, <1>11, <1>12 DEF LiveInv, Reserved

-----------------------------------------------------------------------------
(* The invariant, and what follows from it. *)

LEMMA LiveStep == ASSUME LiveInv, [LiveNext]_liveVars PROVE LiveInv'
<1>1. CASE Decide
  BY <1>1, DecideKeeps
<1>2. CASE SendFails
  BY <1>2, SendFailsKeeps
<1>3. CASE \E a \in Algos : Trigger(a)
  BY <1>3, TriggerKeeps
<1>4. CASE LoseFrame
  BY <1>4, LoseFrameKeeps
<1>5. CASE Restart
  BY <1>5, RestartKeeps
<1>6. CASE Travels
  BY <1>6, SendKeeps, ReceiveKeeps DEF Travels
<1>7. CASE Clock
  BY <1>7, TickKeeps, ReconcileKeeps DEF Clock
<1>8. CASE UNCHANGED liveVars
  <2> USE Parts
  <2>1. UNCHANGED <<pos, res, regs, reconciled, since, queue, feed, vqty, valgos, vrepairs, n, refused>>
    BY <1>8 DEF liveVars
  <2>2. LiveTypes'
    BY <2>1 DEF LiveTypes
  <2>3. /\ OpenPositions' = OpenPositions /\ Holding' = Holding
        /\ \A e : (Known(e)' <=> Known(e)) /\ (Closed(e)' <=> Closed(e))
    BY <2>1 DEF OpenPositions, Holding, Known, Closed
  <2>4. Orderly' /\ Owned' /\ OldStops'
    BY <2>1, <2>2, <2>3, Calm DEF InQueue
  <2>5. Reserved'
    BY <2>1, <2>3 DEF Reserved, UnderWay, Unheard, Covered, Orphans, InQueue
  <2> QED
    BY <2>2, <2>4, <2>5 DEF LiveInv
<1> QED
  BY <1>1, <1>2, <1>3, <1>4, <1>5, <1>6, <1>7, <1>8 DEF LiveNext

THEOREM LiveInvariant == LiveSpec => []LiveInv
<1>1. LiveInit => LiveInv
  BY LiveInit0
<1>2. LiveInv /\ [LiveNext]_liveVars => LiveInv'
  BY LiveStep
<1> QED
  BY <1>1, <1>2, PTL DEF LiveSpec

(* The exchange never holds what two entries bought (testnet/main.py,      *)
(* core/engine.py: the reservation and the closed lock between them leave  *)
(* no room for a second entry while one is held, heard of or not).         *)
THEOREM OneEntry == LiveSpec => []OneEntryAtATime
<1>1. LiveInv => OneEntryAtATime
  <2> SUFFICES ASSUME LiveInv PROVE Cardinality(Holding) <= 1
    BY DEF OneEntryAtATime
  <2>1. Holding \subseteq {n}
    BY Parts DEF Held, Holding
  <2>2. IsFiniteSet({n}) /\ Cardinality({n}) = 1
    BY FS_Singleton
  <2>3. IsFiniteSet(Holding) /\ Cardinality(Holding) <= Cardinality({n})
    BY <2>1, <2>2, FS_Subset
  <2> QED
    BY <2>2, <2>3
<1> QED
  BY <1>1, LiveInvariant, PTL

LEMMA LiveTyped == LiveInv => LiveTypeOK
<1> SUFFICES ASSUME LiveInv PROVE LiveTypeOK
  OBVIOUS
<1>1. LiveTypes
  BY Parts
<1>2. 1..n \subseteq Entries
  <2>1. n \in 0..MaxEntries
    BY <1>1 DEF LiveTypes
  <2> QED
    BY <2>1, LiveAssumption DEF Entries
<1>3. Guards \subseteq Cids
  BY DEF Guards, Cids
<1>4. regs \subseteq Entries \X Cids /\ valgos \subseteq Entries \X Cids
  BY <1>1, <1>2, <1>3 DEF LiveTypes, Cids
<1> QED
  BY <1>1, <1>4 DEF LiveTypes, LiveTypeOK

LEMMA NoOldStops == LiveInv => OldStopsGone
  BY Parts DEF BesideHeld, Held, OldStopsGone

(* Only a cancel, a trigger and a reconciliation take an order off the     *)
(* exchange: the core cancels for a position it has closed, the trigger    *)
(* closes what is held, and a reconciliation spares what is held where the *)
(* core has a position.                                                    *)
LEMMA SendOutlives == ASSUME LiveInv, Send PROVE StopsAreKept
<1> USE Parts
<1> DEFINE c == Head(queue)
<1>1. queue # <<>> /\ Execute(c) /\ vrepairs' = vrepairs
  BY DEF Send
<1>2. c = queue[1] /\ 1 \in InQueue
  BY <1>1, TailShape DEF LiveTypes, InQueue
<1> HIDE DEF c
<1>3. CASE valgos \subseteq valgos'
  BY <1>1, <1>3 DEF StopsAreKept, Stops, Algos
<1>4. CASE c.kind = "cancel" /\ ExecCancel(c)
  <2>1. valgos' = valgos \ {<<c.entry, c.cid>>}
    BY <1>4 DEF ExecCancel
  <2>2. c.entry \in 1..n /\ Closed(c.entry)
    BY <1>2, <1>4 DEF OrderlyQueue
  <2>3. c.entry \notin Holding
    BY <2>2 DEF Gone, Holding
  <2> SUFFICES ASSUME NEW e \in Holding, NEW a \in Algos, a[1] = e, Stops(e)' = {}
               PROVE  FALSE
    BY DEF StopsAreKept, Stops
  <2>4. a = <<c.entry, c.cid>>
    BY <1>1, <2>1 DEF Stops, Algos
  <2> QED
    BY <2>3, <2>4
<1> QED
  BY <1>1, <1>3, <1>4 DEF Execute, ExecEntry, ExecPlace, ExecExit

LEMMA RoundOutlives ==
  ASSUME LiveInv, NEW core \in SUBSET Entries, NEW f, Round(core, f),
         Reconcile \/ Restart, core # {} \/ OpenPositions' = {}
  PROVE  StopsAreKept
<1>1. PICK gone \in SUBSET Orphaned(core, Holding), placed \in SUBSET Missing(core, Holding) :
        valgos' = valgos \ gone /\ vrepairs' = (vrepairs \ gone) \cup placed
  BY Zenon DEF Round
<1>2. CASE gone = {}
  BY <1>1, <1>2 DEF StopsAreKept, Stops, Algos
<1>3. CASE Holding # {} /\ gone # {}
  <2>1. applies.cancels /\ core = {}
    BY <1>3 DEF Orphaned
  <2>2. ~reconciled'
    BY <1>3, <2>1 DEF Round, Agrees
  <2> QED
    BY <2>1, <2>2 DEF StopsAreKept
<1>4. CASE Holding = {}
  BY <1>4 DEF StopsAreKept
<1> QED
  BY <1>2, <1>3, <1>4

LEMMA StopsOutlive ==
  ASSUME LiveInv, LiveNext
  PROVE  UNCHANGED venue \/ StopsAreKept
<1>1. CASE Send
  BY <1>1, SendOutlives
<1>2. CASE \E a \in Algos : Trigger(a)
  <2>1. vqty' = Flat
    BY <1>2 DEF Trigger
  <2> QED
    BY <2>1 DEF Flat, Holding, StopsAreKept
<1>3. CASE Reconcile
  <2>1. Round(OpenPositions, faults) /\ OpenPositions \in SUBSET Entries /\ OpenPositions' = OpenPositions
    BY <1>3 DEF Reconcile, OpenPositions, Known
  <2> QED
    BY <1>3, <2>1, RoundOutlives
<1>4. CASE Restart
  <2>1. Round({}, faults + 1)
    BY <1>4 DEF Restart
  <2>2. OpenPositions' = {}
    BY <1>4, NewPositionType DEF Restart, OpenPositions, Known
  <2> QED
    BY <1>4, <2>1, <2>2, RoundOutlives
<1>5. CASE Decide \/ SendFails \/ LoseFrame \/ Receive \/ Tick
  BY <1>5 DEF Decide, SendFails, LoseFrame, Receive, Tick, venue
<1> QED
  BY <1>1, <1>2, <1>3, <1>4, <1>5 DEF LiveNext, Travels, Clock

(* The protection on the exchange is that of the position it holds         *)
(* (core/position.py: the cancels of a close; ExecutionQueue.run: one      *)
(* command after another): no order of an earlier position is left beside  *)
(* a later one, and the core never takes the last stop off what is held.   *)
THEOREM Protection == LiveSpec => ProtectionStands
<1>1. LiveInv => LiveTypeOK /\ OldStopsGone
  BY LiveTyped, NoOldStops
<1>2. LiveInv /\ [LiveNext]_liveVars => [StopsAreKept]_venue
  BY StopsOutlive DEF liveVars, venue
<1> QED
  BY <1>1, <1>2, LiveInvariant, PTL DEF LiveSpec, ProtectionStands, StopsOutliveThePosition
============================================================================
