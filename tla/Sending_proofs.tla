--------------------------- MODULE Sending_proofs ---------------------------
(***************************************************************************)
(* Theorems about the way of a command to the exchange: the send queue     *)
(* with its worker (SendQueue) and the order budget of the client the      *)
(* worker calls (RateLimiter), for every value of the constants.           *)
(***************************************************************************)
EXTENDS SendQueue, RateLimiter, SequenceTheorems, FiniteSetTheorems, WellFoundedInduction, TLAPS

-----------------------------------------------------------------------------
(***************************************************************************)
(* Proofs about SendQueue, for every size of the queue and of the reserve  *)
(* and every number of commands.  The inductive invariant adds to the      *)
(* properties of the runs that the worker holds a command exactly while    *)
(* its thread is busy (Holding), that entries only stand in the first      *)
(* Maxsize - Reserve places (Places), and that a cancelled worker has left *)
(* nothing (Joined).                                                       *)
(***************************************************************************)

Holding == sending = None <=> stage = "none"
Places  == \A i \in 1..Len(q) : q[i].class = "entry" => i <= Maxsize - Reserve
Joined  == phase = "down" /\ worker = "cancelled" => q = << >> /\ sending = None

IInv == TypeOK /\ Holding /\ Fifo /\ Places /\ Joined

LEMMA NoneNotCmd == None \notin Cmd
  BY DEF None, Cmd, Class

(* One command moves from the middle of a concatenation to its left part.  *)
LEMMA ShiftLeft ==
  ASSUME NEW s \in Seq(Cmd), NEW e \in Cmd, NEW t \in Seq(Cmd)
  PROVE  s \o <<e>> \o t = Append(s, e) \o << >> \o t
<1>1. s \o <<e>> = Append(s, e)
  OBVIOUS
<1>2. Append(s, e) \o << >> = Append(s, e)
  BY ConcatEmptySeq
<1> QED
  BY <1>1, <1>2

LEMMA HeadTail ==
  ASSUME NEW S, NEW s \in Seq(S), NEW t \in Seq(S), t # << >>
  PROVE  s \o << >> \o t = s \o <<Head(t)>> \o Tail(t)
<1>1. t = <<Head(t)>> \o Tail(t)
  OBVIOUS
<1>2. s \o << >> = s
  BY ConcatEmptySeq
<1>3. Head(t) \in S /\ Tail(t) \in Seq(S)
  BY HeadTailProperties
<1>4. (s \o <<Head(t)>>) \o Tail(t) = s \o (<<Head(t)>> \o Tail(t))
  BY <1>3, ConcatAssociative
<1> QED
  BY <1>1, <1>2, <1>4

LEMMA AppendRight ==
  ASSUME NEW s \in Seq(Cmd), NEW t \in Seq(Cmd), NEW e \in Cmd
  PROVE  Append(s \o t, e) = s \o Append(t, e)
<1>1. <<e>> \in Seq(Cmd) /\ s \o t \in Seq(Cmd)
  OBVIOUS
<1>2. Append(s \o t, e) = (s \o t) \o <<e>> /\ Append(t, e) = t \o <<e>>
  BY <1>1, AppendIsConcat
<1>3. (s \o t) \o <<e>> = s \o (t \o <<e>>)
  BY <1>1, ConcatAssociative
<1> QED
  BY <1>2, <1>3

LEMMA InitHolds == Init => IInv
  BY SQAssumption, NoneNotCmd
     DEF Init, IInv, TypeOK, Holding, Fifo, Places, Joined, InFlight, Stage, Outcome, None, Cmd, Class

LEMMA PutKeeps ==
  ASSUME IInv, NEW class \in Class, Put(class)
  PROVE  IInv'
<1> USE SQAssumption DEF IInv
<1> DEFINE c == [class |-> class, n |-> offered + 1]
<1>1. c \in Cmd
  BY DEF Put, TypeOK, Cmd
<1>2. UNCHANGED <<sending, stage, worker, answered, client, armed, rearming, rearms, phase>>
  BY DEF Put, adapterVars
<1>3. CASE Refused(class)
  <2>1. q' = q /\ accepted' = accepted /\ dropped' = dropped \cup {c}
    BY <1>3 DEF Put
  <2> QED
    BY <1>1, <1>2, <2>1 DEF Put, TypeOK, Holding, Fifo, Places, Joined, InFlight
<1>4. CASE ~Refused(class)
  <2>1. q' = Append(q, c) /\ accepted' = Append(accepted, c) /\ dropped' = dropped
    BY <1>4 DEF Put
  <2>2. TypeOK'
    BY <1>1, <1>2, <2>1 DEF Put, TypeOK
  <2>3. Fifo'
    <3>1. SUFFICES ASSUME worker # "dead"
                   PROVE  accepted' = answered \o InFlight \o Append(q, c)
      BY <1>2, <2>1 DEF Fifo, InFlight
    <3>2. answered \o InFlight \in Seq(Cmd) /\ q \in Seq(Cmd)
      BY DEF TypeOK, InFlight
    <3>3. \A s, t \in Seq(Cmd), e \in Cmd : Append(s \o t, e) = s \o Append(t, e)
      BY AppendRight, Zenon
    <3> HIDE DEF c
    <3>4. Append(answered \o InFlight \o q, c) = answered \o InFlight \o Append(q, c)
      BY <1>1, <3>2, <3>3
    <3> QED
      BY <2>1, <3>1, <3>4 DEF Fifo
  <2>4. Places'
    <3>1. SUFFICES ASSUME NEW i \in 1..Len(q'), q'[i].class = "entry"
                   PROVE  i <= Maxsize - Reserve
      BY DEF Places
    <3>2. Len(q') = Len(q) + 1 /\ Len(q) \in Nat
      BY <2>1 DEF TypeOK
    <3>3. CASE i <= Len(q)
      BY <2>1, <3>1, <3>2, <3>3 DEF Places, TypeOK
    <3>4. CASE i = Len(q) + 1
      <4>1. class = "entry"
        BY <2>1, <3>1, <3>4 DEF TypeOK
      <4>2. Len(q) < Maxsize - Reserve
        BY <1>4, <4>1, <3>2 DEF Refused, Free
      <4> QED
        BY <3>2, <3>4, <4>2
    <3> QED
      BY <3>1, <3>2, <3>3, <3>4
  <2>5. Holding' /\ Joined'
    BY <1>2 DEF Put, Holding, Joined
  <2> QED
    BY <2>2, <2>3, <2>4, <2>5
<1> QED
  BY <1>3, <1>4

LEMMA TakeKeeps ==
  ASSUME IInv, Take
  PROVE  IInv'
<1> USE DEF IInv
<1>1. q \in Seq(Cmd) /\ q # << >> /\ sending = None /\ worker = "running"
  BY DEF Take, TypeOK
<1>2. Head(q) \in Cmd /\ Tail(q) \in Seq(Cmd) /\ Len(Tail(q)) = Len(q) - 1
      /\ \A i \in 1..Len(Tail(q)) : Tail(q)[i] = q[i + 1]
  BY <1>1, HeadTailProperties
<1>3. sending' = Head(q) /\ q' = Tail(q) /\ stage' = "submit"
      /\ UNCHANGED <<offered, accepted, dropped, worker, answered,
                     client, armed, rearming, rearms, phase>>
  BY DEF Take, adapterVars
<1>4. TypeOK'
  BY <1>2, <1>3 DEF TypeOK, Stage
<1>5. Holding'
  BY <1>2, <1>3, NoneNotCmd DEF Holding
<1>6. Fifo'
  <2>1. accepted = answered \o << >> \o q
    BY <1>1 DEF Fifo, InFlight
  <2>2. InFlight' = <<Head(q)>>
    BY <1>2, <1>3, NoneNotCmd DEF InFlight
  <2>3. answered \o << >> \o q = answered \o <<Head(q)>> \o Tail(q)
    BY <1>1, HeadTail DEF TypeOK
  <2> QED
    BY <1>3, <2>1, <2>2, <2>3 DEF Fifo
<1>7. Places'
  <2>1. SUFFICES ASSUME NEW i \in 1..Len(Tail(q)), Tail(q)[i].class = "entry"
                 PROVE  i <= Maxsize - Reserve
    BY <1>3 DEF Places
  <2>2. i + 1 \in 1..Len(q) /\ q[i + 1].class = "entry"
    BY <1>1, <1>2, <2>1
  <2> QED
    BY <2>2, SQAssumption DEF Places
<1>8. Joined'
  BY <1>1, <1>3 DEF Joined
<1> QED
  BY <1>4, <1>5, <1>6, <1>7, <1>8

LEMMA AnswerKeeps ==
  ASSUME IInv, Answer
  PROVE  IInv'
<1> USE DEF IInv
<1>1. sending \in Cmd /\ sending # None
  BY DEF Answer, TypeOK, Holding, Outcome
<1>2. sending' = None /\ stage' = "none"
      /\ UNCHANGED <<q, offered, accepted, dropped, client, armed, rearming, rearms, phase>>
  BY DEF Answer, queueVars, adapterVars
<1>3. Holding' /\ Places'
  BY <1>2 DEF Holding, Places
<1>4. CASE stage = "other"
  <2>1. worker' = "dead" /\ UNCHANGED answered
    BY <1>4 DEF Answer
  <2> QED
    BY <1>2, <1>3, <2>1 DEF TypeOK, Stage, Fifo, Joined
<1>5. CASE stage # "other"
  <2>1. answered' = Append(answered, sending) /\ worker' = worker
    BY <1>5 DEF Answer
  <2>2. TypeOK'
    BY <1>1, <1>2, <2>1 DEF TypeOK, Stage
  <2>3. Fifo'
    <3>1. SUFFICES ASSUME worker # "dead"
                   PROVE  accepted = Append(answered, sending) \o << >> \o q
      BY <1>2, <2>1 DEF Fifo, InFlight
    <3>2. accepted = answered \o <<sending>> \o q
      BY <1>1, <3>1 DEF Fifo, InFlight
    <3>3. answered \in Seq(Cmd) /\ q \in Seq(Cmd)
      BY DEF TypeOK
    <3>4. answered \o <<sending>> \o q = Append(answered, sending) \o << >> \o q
      BY <1>1, <3>3, ShiftLeft, Zenon
    <3> QED
      BY <3>2, <3>4, Zenon
  <2>4. Joined'
    BY <1>1, <1>2, <2>1 DEF Joined
  <2> QED
    BY <1>3, <2>2, <2>3, <2>4
<1> QED
  BY <1>4, <1>5

LEMMA OthersKeep ==
  ASSUME IInv, Start \/ Submit \/ Rearm \/ CloseLog \/ Shutdown \/ UNCHANGED vars
  PROVE  IInv'
<1> USE DEF IInv
<1>1. UNCHANGED <<q, offered, accepted, dropped, sending, answered>>
  BY DEF Start, Submit, Rearm, RearmBegin, RearmEnd, CloseLog, Shutdown, Drain, Down, vars, queueVars
<1>2. Fifo' /\ Places'
  <2>1. worker' # "dead" => worker # "dead"
    BY DEF Start, Submit, Rearm, RearmBegin, RearmEnd, CloseLog, Shutdown, Drain, Down, vars
  <2> QED
    BY <1>1, <2>1 DEF Fifo, Places, InFlight
<1>3. CASE Start
  BY <1>1, <1>2, <1>3 DEF Start, adapterVars, TypeOK, Holding, Joined
<1>4. CASE Submit
  <2>1. UNCHANGED <<worker, client, armed, rearming, rearms, phase>>
    BY <1>4 DEF Submit, adapterVars
  <2>2. stage \in {"submit", "call"} /\ stage' \in {"call"} \cup Outcome
    BY <1>4 DEF Submit, Outcome
  <2> QED
    BY <1>1, <1>2, <2>1, <2>2 DEF TypeOK, Stage, Outcome, Holding, Joined
<1>5. CASE Rearm
  <2>1. UNCHANGED <<stage, worker, phase>>
    BY <1>5 DEF Rearm, RearmBegin, RearmEnd
  <2>2. client' \in BOOLEAN /\ armed' \in BOOLEAN
    BY <1>5, Zenon DEF Rearm, RearmBegin, RearmEnd, TypeOK
  <2>3. rearming' \in {"none", "arm", "disarm"} /\ rearms' \in 0..Rearms
    BY <1>5, SQAssumption DEF Rearm, RearmBegin, RearmEnd, TypeOK
  <2> QED
    BY <1>1, <1>2, <2>1, <2>2, <2>3 DEF TypeOK, Holding, Joined
<1>6. CASE CloseLog
  BY <1>1, <1>2, <1>6 DEF CloseLog, adapterVars, TypeOK, Holding, Joined
<1>7. CASE Drain
  BY <1>1, <1>2, <1>7 DEF Drain, adapterVars, TypeOK, Holding, Joined
<1>8. CASE Down
  <2>1. q = << >> /\ sending = None
    BY <1>8 DEF Down, Unfinished, TypeOK
  <2> QED
    BY <1>1, <1>2, <1>8, <2>1 DEF Down, adapterVars, TypeOK, Holding, Joined
<1>9. CASE UNCHANGED vars
  BY <1>1, <1>2, <1>9 DEF vars, TypeOK, Holding, Joined
<1> QED
  BY <1>3, <1>4, <1>5, <1>6, <1>7, <1>8, <1>9 DEF Shutdown

LEMMA StepKeeps == IInv /\ [Next]_vars => IInv'
  BY PutKeeps, TakeKeeps, AnswerKeeps, OthersKeep DEF Next, Work

LEMMA Invariant == Spec => []IInv
<1>1. Init => IInv
  BY InitHolds
<1>2. IInv /\ [Next]_vars => IInv'
  BY StepKeeps
<1> QED
  BY <1>1, <1>2, PTL DEF Spec

(* The commands are answered in the order they were accepted, none lost    *)
(* and none repeated, as long as the worker lives: ExecutionQueue.run.     *)
THEOREM NoCommandLost == Spec => []Orderly
<1>1. IInv => Orderly
  BY DEF IInv, Orderly
<1> QED
  BY <1>1, Invariant, PTL

-----------------------------------------------------------------------------
(* The queue is never longer than its size: put refuses at the limit.      *)
Bounded == Len(q) <= Maxsize

LEMMA StepBounded ==
  ASSUME IInv, Bounded, [Next]_vars
  PROVE  Bounded'
<1>1. q \in Seq(Cmd) /\ Maxsize \in Nat
  BY SQAssumption DEF IInv, TypeOK
<1>2. ASSUME NEW class \in Class, Put(class) PROVE Bounded'
  <2>1. CASE Refused(class)
    BY <1>2, <2>1 DEF Put, Bounded
  <2>2. CASE ~Refused(class)
    <3> DEFINE c == [class |-> class, n |-> offered + 1]
    <3>1. q' = Append(q, c)
      BY <1>2, <2>2 DEF Put
    <3>2. c \in Cmd
      BY <1>2, SQAssumption DEF Put, IInv, TypeOK, Cmd
    <3> HIDE DEF c
    <3>3. Len(q') = Len(q) + 1
      BY <1>1, <3>1, <3>2
    <3>4. Maxsize - Len(q) # 0
      BY <2>2 DEF Refused, Free
    <3> QED
      BY <1>1, <3>3, <3>4 DEF Bounded
  <2> QED
    BY <2>1, <2>2
<1>3. CASE Take
  <2>1. q # << >> /\ q' = Tail(q)
    BY <1>3 DEF Take
  <2>2. Len(Tail(q)) = Len(q) - 1
    BY <1>1, <2>1, HeadTailProperties
  <2> QED
    BY <1>1, <2>1, <2>2 DEF Bounded
<1>4. CASE UNCHANGED q
  BY <1>4 DEF Bounded
<1> QED
  BY <1>2, <1>3, <1>4
     DEF Next, Work, Start, Submit, Answer, Rearm, RearmBegin, RearmEnd,
         CloseLog, Shutdown, Drain, Down, queueVars, vars

(* A step that refuses a protection or an exit meets a full queue.         *)
LEMMA StepGivesWay ==
  ASSUME IInv, [Next]_vars
  PROVE  \A c \in dropped' \ dropped : c.class # "entry" => Len(q) = Maxsize
<1>1. ASSUME NEW class \in Class, Put(class),
             NEW c \in dropped' \ dropped, c.class # "entry"
      PROVE  Len(q) = Maxsize
  <2>1. Refused(class) /\ c = [class |-> class, n |-> offered + 1]
    BY <1>1 DEF Put
  <2>2. class # "entry"
    BY <1>1, <2>1
  <2>3. Maxsize - Len(q) = 0
    BY <2>1, <2>2 DEF Refused, Free
  <2> QED
    BY <2>3, SQAssumption DEF IInv, TypeOK
<1>2. CASE UNCHANGED dropped
  BY <1>2
<1> QED
  BY <1>1, <1>2
     DEF Next, Work, Start, Take, Submit, Answer, Rearm, RearmBegin, RearmEnd,
         CloseLog, Shutdown, Drain, Down, queueVars, vars

LEMMA ReserveIsKept == IInv => ReserveKept
<1> SUFFICES ASSUME IInv PROVE ReserveKept
  OBVIOUS
<1> DEFINE E == {i \in 1..Len(q) : q[i].class = "entry"}
           B == Maxsize - Reserve
<1>1. B \in Nat
  BY SQAssumption
<1>2. E \subseteq 1..B
  BY <1>1 DEF IInv, Places, TypeOK
<1>3. IsFiniteSet(1..B) /\ Cardinality(1..B) = B
  BY <1>1, FS_Interval
<1>4. Cardinality(E) <= B
  BY <1>2, <1>3, FS_Subset
<1> QED
  BY <1>4 DEF ReserveKept

(* The slots reserved for protection and exits are never held by entries,  *)
(* the queue never outgrows its size, and a protection or an exit is       *)
(* refused by a full queue only: ExecutionQueue.put.                       *)
THEOREM ReserveHolds == Spec => ReserveRule
<1>1. Init => Bounded
  BY SQAssumption DEF Init, Bounded
<1>2. IInv /\ Bounded /\ [Next]_vars => Bounded'
  BY StepBounded
<1>3. IInv /\ Bounded => Len(q) <= Maxsize /\ ReserveKept
  BY ReserveIsKept DEF Bounded
<1>4. IInv /\ [Next]_vars =>
        [\A c \in dropped' \ dropped : c.class # "entry" => Len(q) = Maxsize]_vars
  BY StepGivesWay
<1> QED
  BY <1>1, <1>2, <1>3, <1>4, Invariant, PTL DEF Spec, ReserveRule, OnlyEntriesGiveWay

(* A shutdown that ends leaves no accepted command unanswered: aclose.     *)
THEOREM CleanShutdown == Spec => []NothingLeftBehind
<1>1. IInv => NothingLeftBehind
  <2> SUFFICES ASSUME IInv, phase = "down", worker = "cancelled"
               PROVE  answered = accepted
    BY DEF NothingLeftBehind
  <2>1. q = << >> /\ InFlight = << >>
    BY DEF IInv, Joined, InFlight
  <2>2. accepted = answered \o << >> \o << >>
    <3>1. accepted = answered \o InFlight \o q
      BY DEF IInv, Fifo
    <3> QED
      BY <2>1, <3>1
  <2>3. answered \in Seq(Cmd)
    BY DEF IInv, TypeOK
  <2> QED
    BY <2>2, <2>3, ConcatEmptySeq
<1> QED
  BY <1>1, Invariant, PTL

-----------------------------------------------------------------------------
(***************************************************************************)
(* Proofs about RateLimiter, for all limits, spans, reserves and pauses.   *)
(* The check of the budget and the counting of the order are two steps, so *)
(* the inductive invariant counts an order from the moment it was let      *)
(* through (Placing, PlacingEntry): with it a window is within its limit,  *)
(* but for one order of the second thread (Windows), and the entries are   *)
(* within the limit less the reserve (Entries).                            *)
(***************************************************************************)

Types ==
  /\ \A w \in Window : events[w] \in Seq(Event)
  /\ \A w \in Window : override[w] \in Int
  /\ queue \in Seq([wait : Nat, entry : BOOLEAN])
  /\ cmd \in [Thread -> [wait : Nat, entry : BOOLEAN]]
  /\ step \in [Thread -> {"idle", "check", "add", "call", "reply"}]
  /\ reply \in [Thread -> [status : Status, count : [Window -> Int]]]
  /\ count \in [Window -> Int]
  /\ repairing \in BOOLEAN

Single     == ~repairing => step["repair"] = "idle"
Protective == cmd["repair"].entry = FALSE

Placing(t)   == IF step[t] = "add" THEN 1 ELSE 0
PlacingEntry == IF step["worker"] = "add" /\ cmd["worker"].entry THEN 1 ELSE 0

Windows ==
  \A w \in Window : Len(events[w]) + Placing("worker") + Placing("repair")
                      <= Limit[w] + (IF repairing THEN 1 ELSE 0)
Entries ==
  \A w \in Window : Cardinality(EntryEvents(w)) + PlacingEntry <= Limit[w] - OrderReserve

RateInv == Types /\ Single /\ Protective /\ Windows /\ Entries

-----------------------------------------------------------------------------
(* What a window is made of. *)

EntriesOf(s) == {i \in 1..Len(s) : s[i].entry}

LEMMA LimitNat == \A w \in Window : Limit[w] \in Nat /\ OrderReserve \in Nat /\ OrderReserve <= Limit[w]
  BY RLAssumption DEF Limit, Window

(* The entries of a window are finitely many, at most all its events.      *)
LEMMA CountType ==
  ASSUME NEW s \in Seq(Event)
  PROVE  /\ IsFiniteSet(EntriesOf(s)) /\ Cardinality(EntriesOf(s)) \in Nat
         /\ Cardinality(EntriesOf(s)) <= Len(s)
<1>1. Len(s) \in Nat
  OBVIOUS
<1>2. IsFiniteSet(1..Len(s)) /\ Cardinality(1..Len(s)) = Len(s)
  BY <1>1, FS_Interval
<1>3. EntriesOf(s) \in SUBSET (1..Len(s))
  BY DEF EntriesOf
<1> QED
  BY <1>2, <1>3, FS_Subset, FS_CardinalityType

(* A set of positions has a first one.                                     *)
LEMMA FirstOf ==
  ASSUME NEW n \in Nat, NEW K \in SUBSET (1..n), K # {}
  PROVE  \E i \in K : \A j \in K : i <= j
<1>1. K \subseteq Nat
  OBVIOUS
<1>2. PICK i \in K : \A j \in K : ~ (<<j, i>> \in OpToRel(<, Nat))
  BY <1>1, NatLessThanWellFounded, WFMin
<1>3. \A j \in K : j \in Nat /\ i \in Nat /\ ~(j < i)
  BY <1>1, <1>2 DEF OpToRel
<1> QED
  BY <1>3

(* A suffix is no longer and has no more entries.                          *)
LEMMA SuffixCount ==
  ASSUME NEW s \in Seq(Event), NEW k \in 1..Len(s)
  PROVE  /\ SubSeq(s, k, Len(s)) \in Seq(Event)
         /\ Len(SubSeq(s, k, Len(s))) <= Len(s)
         /\ Cardinality(EntriesOf(SubSeq(s, k, Len(s)))) <= Cardinality(EntriesOf(s))
<1> DEFINE t == SubSeq(s, k, Len(s))
<1>1. t \in Seq(Event) /\ Len(t) = Len(s) - k + 1 /\ \A i \in 1..Len(t) : t[i] = s[k + i - 1]
  BY SubSeqProperties
<1>2. Len(s) \in Nat /\ k \in Nat
  OBVIOUS
<1> HIDE DEF t
<1> DEFINE f == [i \in EntriesOf(t) |-> k + i - 1]
<1>3. \A i \in EntriesOf(t) : k + i - 1 \in EntriesOf(s)
  BY <1>1, <1>2 DEF EntriesOf
<1>4. f \in Injection(EntriesOf(t), EntriesOf(s))
  <2>1. f \in [EntriesOf(t) -> EntriesOf(s)]
    BY <1>3
  <2>2. \A i, j \in EntriesOf(t) : f[i] = f[j] => i = j
    BY <1>2 DEF EntriesOf
  <2> QED
    BY <2>1, <2>2 DEF Injection, IsInjective
<1>5. Cardinality(EntriesOf(t)) <= Cardinality(EntriesOf(s))
  BY <1>4, CountType, FS_Injection
<1> QED
  BY <1>1, <1>2, <1>5 DEF t

(* _trim leaves a suffix of the window, or nothing.                        *)
LEMMA TrimCount ==
  ASSUME NEW w \in Window, events[w] \in Seq(Event), NEW wait \in Nat
  PROVE  /\ Trim(w, wait) \in Seq(Event)
         /\ Len(Trim(w, wait)) <= Len(events[w])
         /\ Cardinality(EntriesOf(Trim(w, wait))) <= Cardinality(EntriesOf(events[w]))
<1> DEFINE keep == {i \in 1..Len(events[w]) : ~Expired(w, events[w][i], wait)}
           first == CHOOSE i \in keep : \A j \in keep : i <= j
<1>1. Trim(w, wait) = IF keep = {} THEN << >> ELSE SubSeq(events[w], first, Len(events[w]))
  BY DEF Trim
<1>2. CASE keep = {}
  <2>1. Trim(w, wait) = << >>
    BY <1>1, <1>2
  <2>2. EntriesOf(<< >>) = {}
    BY DEF EntriesOf
  <2>3. Cardinality(EntriesOf(events[w])) \in Nat /\ Len(events[w]) \in Nat
    BY CountType
  <2>4. Cardinality(EntriesOf(Trim(w, wait))) = 0
    BY <2>1, <2>2, FS_EmptySet, Zenon
  <2>5. Len(Trim(w, wait)) = 0 /\ Trim(w, wait) \in Seq(Event)
    BY <2>1
  <2> QED
    BY <2>3, <2>4, <2>5
<1>3. CASE keep # {}
  <2>1. keep \in SUBSET (1..Len(events[w])) /\ Len(events[w]) \in Nat
    OBVIOUS
  <2>2. \E i \in keep : \A j \in keep : i <= j
    <3> HIDE DEF keep
    <3> QED
      BY <1>3, <2>1, FirstOf
  <2>3. first \in keep
    <3> HIDE DEF keep
    <3> QED
      BY <2>2
  <2>4. first \in 1..Len(events[w])
    BY <2>1, <2>3
  <2>5. Trim(w, wait) = SubSeq(events[w], first, Len(events[w]))
    BY <1>1, <1>3
  <2> HIDE DEF keep, first
  <2> QED
    BY <2>4, <2>5, SuffixCount
<1> QED
  BY <1>2, <1>3

(* An order that is added is one event more, and one entry more if it is   *)
(* an entry.                                                               *)
LEMMA AppendCount ==
  ASSUME NEW s \in Seq(Event), NEW e \in Event
  PROVE  /\ Append(s, e) \in Seq(Event)
         /\ Len(Append(s, e)) = Len(s) + 1
         /\ Cardinality(EntriesOf(Append(s, e)))
              = Cardinality(EntriesOf(s)) + (IF e.entry THEN 1 ELSE 0)
<1>1. Len(s) \in Nat /\ Append(s, e) \in Seq(Event) /\ Len(Append(s, e)) = Len(s) + 1
  OBVIOUS
<1>2. IsFiniteSet(EntriesOf(s)) /\ Cardinality(EntriesOf(s)) \in Nat /\ Len(s) + 1 \notin EntriesOf(s)
  BY <1>1, CountType DEF EntriesOf
<1>3. CASE e.entry
  <2>1. EntriesOf(Append(s, e)) = EntriesOf(s) \cup {Len(s) + 1}
    BY <1>1, <1>3 DEF EntriesOf
  <2> QED
    BY <1>1, <1>2, <1>3, <2>1, FS_AddElement
<1>4. CASE ~e.entry
  <2>1. EntriesOf(Append(s, e)) = EntriesOf(s)
    BY <1>1, <1>4 DEF EntriesOf
  <2> QED
    BY <1>1, <1>2, <1>4, <2>1
<1> QED
  BY <1>3, <1>4
(* An order that finds room leaves the window under its limit, an entry    *)
(* under the limit less the reserve.                                       *)
LEMMA RoomMeans ==
  ASSUME Types, NEW w \in Window, NEW c \in [wait : Nat, entry : BOOLEAN], Room(w, c)
  PROVE  Len(Trim(w, c.wait)) < Limit[w] - (IF c.entry THEN OrderReserve ELSE 0)
<1>1. Trim(w, c.wait) \in Seq(Event) /\ override[w] \in Int
  BY TrimCount DEF Types
<1>2. Len(Trim(w, c.wait)) \in Nat
  BY <1>1
<1>3. Limit[w] \in Nat /\ OrderReserve \in Nat
  BY LimitNat
<1> QED
  BY <1>1, <1>2, <1>3 DEF Room, Remaining, Greater

-----------------------------------------------------------------------------
(* The steps. *)

LEMMA RateInitHolds == RateInit => RateInv
<1> SUFFICES ASSUME RateInit PROVE RateInv
  OBVIOUS
<1>1. \A w \in Window : events[w] = << >>
  BY DEF RateInit
<1>2. \A w \in Window : Limit[w] \in Nat /\ OrderReserve <= Limit[w] /\ OrderReserve \in Nat
  BY LimitNat
<1>3. Types
  <2>1. override = [w \in Window |-> -1] /\ queue = << >> /\ cmd = [t \in Thread |-> NoCmd]
        /\ step = [t \in Thread |-> "idle"] /\ reply = [t \in Thread |-> NoReply]
        /\ repairing \in BOOLEAN
    BY DEF RateInit, Never
  <2>2. count \in [Window -> Int]
    BY RLAssumption DEF RateInit
  <2>3. NoCmd \in [wait : Nat, entry : BOOLEAN]
    BY DEF NoCmd
  <2>4. NoReply \in [status : Status, count : [Window -> Int]]
    BY DEF NoReply, Status
  <2>5. \A w \in Window : events[w] \in Seq(Event) /\ override[w] \in Int
    <3>1. \A w \in Window : override[w] = -1
      BY <2>1
    <3>2. -1 \in Int /\ << >> \in Seq(Event)
      OBVIOUS
    <3> QED
      BY <1>1, <3>1, <3>2, Zenon
  <2>6. queue \in Seq([wait : Nat, entry : BOOLEAN])
    BY <2>1
  <2>7. cmd \in [Thread -> [wait : Nat, entry : BOOLEAN]]
    BY <2>1, <2>3
  <2>8. step \in [Thread -> {"idle", "check", "add", "call", "reply"}]
    BY <2>1
  <2>9. reply \in [Thread -> [status : Status, count : [Window -> Int]]]
    BY <2>1, <2>4
  <2> QED
    BY <2>1, <2>2, <2>5, <2>6, <2>7, <2>8, <2>9 DEF Types
<1>4. step["repair"] = "idle" /\ step["worker"] = "idle" /\ cmd["repair"] = NoCmd
  BY DEF RateInit, Thread
<1>5. Single /\ Protective
  BY <1>4 DEF Single, Protective, NoCmd
<1>6. Windows
  BY <1>1, <1>2, <1>3, <1>4 DEF Windows, Placing, Types
<1>7. Entries
  <2>1. \A w \in Window : EntryEvents(w) = {}
    BY <1>1 DEF EntryEvents
  <2> QED
    BY <1>2, <1>4, <2>1, FS_EmptySet DEF Entries, PlacingEntry
<1> QED
  BY <1>3, <1>5, <1>6, <1>7 DEF RateInv

(* A step that places nothing and leaves the windows alone.                *)
LEMMA QuietKeeps ==
  ASSUME Windows, Entries, UNCHANGED <<events, repairing>>,
         Placing("worker")' = Placing("worker"), Placing("repair")' = Placing("repair"),
         PlacingEntry' = PlacingEntry
  PROVE  Windows' /\ Entries'
<1>1. \A w \in Window : EntryEvents(w)' = EntryEvents(w)
  BY DEF EntryEvents
<1> QED
  BY <1>1 DEF Windows, Entries

LEMMA EnqueueKeeps ==
  ASSUME RateInv, NEW entry \in BOOLEAN, Enqueue(entry)
  PROVE  RateInv'
<1> USE DEF RateInv
<1>1. UNCHANGED <<events, override, cmd, step, reply, count, repairing>>
  BY DEF Enqueue, limiter, repairVars
<1>2. queue' \in Seq([wait : Nat, entry : BOOLEAN])
  BY DEF Enqueue, Types
<1>3. Types' /\ Single' /\ Protective'
  BY <1>1, <1>2 DEF Types, Single, Protective
<1>4. Windows' /\ Entries'
  BY <1>1, QuietKeeps DEF Placing, PlacingEntry
<1> QED
  BY <1>3, <1>4

LEMMA TakeNextKeeps ==
  ASSUME RateInv, TakeNext
  PROVE  RateInv'
<1> USE DEF RateInv
<1>1. UNCHANGED <<events, override, reply, count, repairing>>
      /\ step["worker"] = "idle" /\ queue # << >>
      /\ cmd' = [cmd EXCEPT !["worker"] = Head(queue)] /\ queue' = Tail(queue)
      /\ step' = [step EXCEPT !["worker"] = "check"]
  BY DEF TakeNext, limiter, repairVars
<1>2. Head(queue) \in [wait : Nat, entry : BOOLEAN] /\ Tail(queue) \in Seq([wait : Nat, entry : BOOLEAN])
  BY <1>1, HeadTailProperties DEF Types
<1>3. step'["worker"] = "check" /\ step'["repair"] = step["repair"]
      /\ cmd'["repair"] = cmd["repair"]
  BY <1>1 DEF Types, Thread
<1>4. Types'
  BY <1>1, <1>2 DEF Types
<1>5. Single' /\ Protective'
  BY <1>1, <1>3 DEF Single, Protective
<1>6. Windows' /\ Entries'
  <2>1. Placing("worker")' = Placing("worker") /\ Placing("repair")' = Placing("repair")
        /\ PlacingEntry' = PlacingEntry
    BY <1>1, <1>3 DEF Placing, PlacingEntry
  <2> QED
    BY <1>1, <2>1, QuietKeeps
<1> QED
  BY <1>4, <1>5, <1>6

LEMMA RepairKeeps ==
  ASSUME RateInv, Repair
  PROVE  RateInv'
<1> USE DEF RateInv
<1>1. UNCHANGED <<events, override, queue, reply, count, repairing>>
      /\ repairing /\ step["repair"] = "idle"
      /\ cmd' = [cmd EXCEPT !["repair"] = NoCmd]
      /\ step' = [step EXCEPT !["repair"] = "check"]
  BY DEF Repair, limiter
<1>2. step'["repair"] = "check" /\ step'["worker"] = step["worker"]
      /\ cmd'["repair"] = NoCmd /\ cmd'["worker"] = cmd["worker"]
  BY <1>1 DEF Types, Thread
<1>3. NoCmd \in [wait : Nat, entry : BOOLEAN] /\ NoCmd.entry = FALSE
  BY DEF NoCmd
<1>4. Types'
  BY <1>1, <1>3 DEF Types
<1>5. Single' /\ Protective'
  BY <1>1, <1>2, <1>3 DEF Single, Protective
<1>6. Windows' /\ Entries'
  <2>1. Placing("worker")' = Placing("worker") /\ Placing("repair")' = Placing("repair")
        /\ PlacingEntry' = PlacingEntry
    BY <1>1, <1>2 DEF Placing, PlacingEntry
  <2> QED
    BY <1>1, <2>1, QuietKeeps
<1> QED
  BY <1>4, <1>5, <1>6
(* A check trims the windows and lets an order through, or not.            *)
LEMMA CheckKeeps ==
  ASSUME RateInv, NEW t \in Thread, Check(t)
  PROVE  RateInv'
<1> USE DEF RateInv
<1>1. UNCHANGED <<override, queue, reply, count, repairing>> /\ step[t] = "check"
      /\ events' = [w \in Window |-> IF w \in Asked(cmd[t]) THEN Trim(w, cmd[t].wait) ELSE events[w]]
  BY DEF Check, repairVars
<1>2. cmd[t] \in [wait : Nat, entry : BOOLEAN] /\ cmd[t].wait \in Nat /\ NoCmd.entry = FALSE
      /\ NoCmd \in [wait : Nat, entry : BOOLEAN]
  BY DEF Types, NoCmd
<1>3. \A w \in Window :
        /\ events'[w] \in Seq(Event) /\ Len(events'[w]) <= Len(events[w])
        /\ Len(events'[w]) \in Nat /\ Len(events[w]) \in Nat
        /\ Cardinality(EntriesOf(events'[w])) <= Cardinality(EntriesOf(events[w]))
        /\ Cardinality(EntriesOf(events'[w])) <= Len(events'[w])
        /\ Cardinality(EntriesOf(events'[w])) \in Nat /\ Cardinality(EntriesOf(events[w])) \in Nat
  <2> TAKE w \in Window
  <2>1. events[w] \in Seq(Event) /\ Trim(w, cmd[t].wait) \in Seq(Event)
        /\ Len(Trim(w, cmd[t].wait)) <= Len(events[w])
        /\ Cardinality(EntriesOf(Trim(w, cmd[t].wait))) <= Cardinality(EntriesOf(events[w]))
    BY <1>2, TrimCount DEF Types
  <2>2. events'[w] = Trim(w, cmd[t].wait) \/ events'[w] = events[w]
    BY <1>1
  <2>3. Cardinality(EntriesOf(events[w])) \in Nat /\ events'[w] \in Seq(Event)
    BY <2>1, <2>2, CountType
  <2>4. Cardinality(EntriesOf(events'[w])) \in Nat
        /\ Cardinality(EntriesOf(events'[w])) <= Len(events'[w])
    BY <2>3, CountType
  <2> QED
    BY <2>1, <2>2, <2>3, <2>4
<1>4. \A w \in Window : EntryEvents(w) = EntriesOf(events[w]) /\ EntryEvents(w)' = EntriesOf(events'[w])
  BY DEF EntryEvents, EntriesOf
<1>5. \A w \in Window : Limit[w] \in Nat /\ OrderReserve \in Nat
  BY LimitNat
<1>6. CASE Allowed(cmd[t])
  <2>1. step' = [step EXCEPT ![t] = "add"] /\ cmd' = cmd
    BY <1>6 DEF Check
  <2>2. \A w \in Window : events'[w] = Trim(w, cmd[t].wait)
    BY <1>1, <1>6 DEF Asked, Allowed, Window
  <2>3. \A w \in Window : Len(events'[w]) < Limit[w] - (IF cmd[t].entry THEN OrderReserve ELSE 0)
    BY <1>2, <1>6, <2>2, RoomMeans DEF Allowed
  <2>4. Types'
    BY <1>1, <1>3, <2>1 DEF Types
  <2>5. Single' /\ Protective'
    <3>1. ~repairing => t # "repair"
      BY <1>1 DEF Single
    <3> QED
      BY <1>1, <2>1, <3>1 DEF Single, Protective, Types, Thread
  <2>6. Windows'
    <3> SUFFICES ASSUME NEW w \in Window
                 PROVE  Len(events'[w]) + Placing("worker")' + Placing("repair")'
                          <= Limit[w] + (IF repairing THEN 1 ELSE 0)
      BY <1>1 DEF Windows
    <3>1. Len(events'[w]) \in Nat /\ Limit[w] \in Nat /\ OrderReserve \in Nat
      BY <1>3, <1>5
    <3>2. Len(events'[w]) < Limit[w]
      BY <2>3, <3>1
    <3>3. ~repairing => Placing("repair")' = 0
      BY <1>1, <2>5 DEF Single, Placing
    <3>4. Placing("worker")' \in 0..1 /\ Placing("repair")' \in 0..1
      BY DEF Placing
    <3> QED
      BY <3>1, <3>2, <3>3, <3>4
  <2>7. Entries'
    <3> SUFFICES ASSUME NEW w \in Window
                 PROVE  Cardinality(EntriesOf(events'[w])) + PlacingEntry' <= Limit[w] - OrderReserve
      BY <1>4 DEF Entries
    <3>1. /\ Cardinality(EntriesOf(events'[w])) \in Nat /\ Limit[w] \in Nat /\ OrderReserve \in Nat
          /\ Len(events'[w]) \in Nat /\ Cardinality(EntriesOf(events'[w])) <= Len(events'[w])
          /\ Cardinality(EntriesOf(events'[w])) <= Cardinality(EntriesOf(events[w]))
          /\ Cardinality(EntriesOf(events[w])) \in Nat
      BY <1>3, <1>5
    <3>2. CASE t = "worker" /\ cmd[t].entry
      <4>1. Len(events'[w]) < Limit[w] - OrderReserve
        BY <2>3, <3>2
      <4>2. PlacingEntry' \in 0..1
        BY DEF PlacingEntry
      <4> QED
        BY <3>1, <4>1, <4>2
    <3>3. CASE ~(t = "worker" /\ cmd[t].entry)
      <4>1. PlacingEntry' = PlacingEntry /\ PlacingEntry \in 0..1
        BY <1>1, <2>1, <3>3 DEF PlacingEntry, Types, Thread
      <4>2. Cardinality(EntriesOf(events[w])) + PlacingEntry <= Limit[w] - OrderReserve
        BY <1>4 DEF Entries
      <4> QED
        BY <3>1, <4>1, <4>2
    <3> QED
      BY <3>2, <3>3
  <2> QED
    BY <2>4, <2>5, <2>6, <2>7
<1>7. CASE ~Allowed(cmd[t])
  <2>1. step' = [step EXCEPT ![t] = "idle"] /\ cmd' = [cmd EXCEPT ![t] = NoCmd]
    BY <1>7 DEF Check
  <2>2. Types'
    BY <1>1, <1>2, <1>3, <2>1 DEF Types
  <2>3. Single' /\ Protective'
    BY <1>1, <1>2, <2>1 DEF Single, Protective, Types, Thread
  <2>4. Placing("worker")' = Placing("worker") /\ Placing("repair")' = Placing("repair")
        /\ PlacingEntry' = PlacingEntry
    BY <1>1, <2>1 DEF Placing, PlacingEntry, Types, Thread
  <2>5. Placing("worker") \in 0..1 /\ Placing("repair") \in 0..1 /\ PlacingEntry \in 0..1
    BY DEF Placing, PlacingEntry
  <2>6. Windows'
    <3> SUFFICES ASSUME NEW w \in Window
                 PROVE  Len(events'[w]) + Placing("worker")' + Placing("repair")'
                          <= Limit[w] + (IF repairing THEN 1 ELSE 0)
      BY <1>1 DEF Windows
    <3> DEFINE placing == Placing("worker") + Placing("repair")
               room == Limit[w] + (IF repairing THEN 1 ELSE 0)
    <3>1. Len(events[w]) + placing <= room
      BY <2>5 DEF Windows
    <3>2. Len(events'[w]) <= Len(events[w]) /\ Len(events'[w]) \in Nat /\ Len(events[w]) \in Nat
      BY <1>3
    <3>3. placing \in Int /\ room \in Int
      BY <1>5, <2>5
    <3>4. Placing("worker")' + Placing("repair")' = placing
      BY <2>4
    <3> HIDE DEF placing, room
    <3>5. Len(events'[w]) + placing <= room
      BY <3>1, <3>2, <3>3
    <3> QED
      BY <2>4, <2>5, <3>5 DEF placing, room
  <2>7. Entries'
    <3> SUFFICES ASSUME NEW w \in Window
                 PROVE  Cardinality(EntriesOf(events'[w])) + PlacingEntry' <= Limit[w] - OrderReserve
      BY <1>4 DEF Entries
    <3>1. Cardinality(EntriesOf(events[w])) + PlacingEntry <= Limit[w] - OrderReserve
      BY <1>4 DEF Entries
    <3>2. /\ Cardinality(EntriesOf(events'[w])) <= Cardinality(EntriesOf(events[w]))
          /\ Cardinality(EntriesOf(events'[w])) \in Nat
          /\ Cardinality(EntriesOf(events[w])) \in Nat
      BY <1>3
    <3> QED
      BY <1>5, <2>4, <2>5, <3>1, <3>2
  <2> QED
    BY <2>2, <2>3, <2>6, <2>7
<1> QED
  BY <1>6, <1>7

(* Adding the order makes it an event of both windows.                     *)
LEMMA AddKeeps ==
  ASSUME RateInv, NEW t \in Thread, Add(t)
  PROVE  RateInv'
<1> USE DEF RateInv
<1> DEFINE e == [age |-> cmd[t].wait, entry |-> cmd[t].entry]
<1>1. UNCHANGED <<queue, cmd, reply, count, repairing>> /\ step[t] = "add"
      /\ events' = [w \in Window |-> Append(Trim(w, cmd[t].wait), e)]
      /\ override' = [w \in Window |-> IF override[w] = Never THEN Never ELSE override[w] + 1]
      /\ step' = [step EXCEPT ![t] = "call"]
  BY DEF Add, repairVars
<1>2. cmd[t] \in [wait : Nat, entry : BOOLEAN] /\ cmd[t].wait \in Nat /\ e \in Event
      /\ e.entry = cmd[t].entry
  BY DEF Types, Event
<1> HIDE DEF e
<1>3. \A w \in Window :
        /\ events'[w] \in Seq(Event) /\ Len(events'[w]) <= Len(events[w]) + 1
        /\ Len(events'[w]) \in Nat /\ Len(events[w]) \in Nat
        /\ Cardinality(EntriesOf(events'[w]))
             <= Cardinality(EntriesOf(events[w])) + (IF cmd[t].entry THEN 1 ELSE 0)
        /\ Cardinality(EntriesOf(events'[w])) \in Nat /\ Cardinality(EntriesOf(events[w])) \in Nat
  <2> TAKE w \in Window
  <2> DEFINE s == Trim(w, cmd[t].wait)
  <2>1. events[w] \in Seq(Event) /\ s \in Seq(Event) /\ Len(s) <= Len(events[w])
        /\ Cardinality(EntriesOf(s)) <= Cardinality(EntriesOf(events[w]))
    BY <1>2, TrimCount DEF Types
  <2>2. events'[w] = Append(s, e)
    BY <1>1
  <2> HIDE DEF s
  <2>3. Append(s, e) \in Seq(Event) /\ Len(Append(s, e)) = Len(s) + 1
        /\ Cardinality(EntriesOf(Append(s, e)))
             = Cardinality(EntriesOf(s)) + (IF e.entry THEN 1 ELSE 0)
    BY <1>2, <2>1, AppendCount
  <2>4. Cardinality(EntriesOf(events[w])) \in Nat /\ Cardinality(EntriesOf(s)) \in Nat
    BY <2>1, CountType
  <2> QED
    BY <1>2, <2>1, <2>2, <2>3, <2>4
<1>4. \A w \in Window : EntryEvents(w) = EntriesOf(events[w]) /\ EntryEvents(w)' = EntriesOf(events'[w])
  BY DEF EntryEvents, EntriesOf
<1>5. \A w \in Window : Limit[w] \in Nat /\ OrderReserve \in Nat
  BY LimitNat
<1>6. Types'
  <2>1. \A w \in Window : override'[w] \in Int
    BY <1>1 DEF Types, Never
  <2> QED
    BY <1>1, <1>3, <2>1 DEF Types
<1>7. Single' /\ Protective'
  BY <1>1 DEF Single, Protective, Types, Thread
<1>8. Placing("worker")' + Placing("repair")' = Placing("worker") + Placing("repair") - 1
      /\ Placing("worker") \in 0..1 /\ Placing("repair") \in 0..1
      /\ Placing("worker")' \in 0..1 /\ Placing("repair")' \in 0..1
  BY <1>1 DEF Placing, Types, Thread
<1>9. Windows'
  <2> SUFFICES ASSUME NEW w \in Window
               PROVE  Len(events'[w]) + Placing("worker")' + Placing("repair")'
                        <= Limit[w] + (IF repairing THEN 1 ELSE 0)
    BY <1>1 DEF Windows
  <2> DEFINE before == Placing("worker") + Placing("repair")
             after == Placing("worker")' + Placing("repair")'
             room == Limit[w] + (IF repairing THEN 1 ELSE 0)
  <2>1. Len(events[w]) + before <= room
    <3>1. Len(events[w]) + Placing("worker") + Placing("repair") <= room
      BY DEF Windows
    <3>2. Len(events[w]) \in Nat
      BY <1>3
    <3> QED
      BY <1>8, <3>1, <3>2
  <2>2. Len(events'[w]) <= Len(events[w]) + 1 /\ Len(events'[w]) \in Nat /\ Len(events[w]) \in Nat
    BY <1>3
  <2>3. before \in Int /\ after \in Int /\ room \in Int /\ after = before - 1
    <3>1. before \in Int /\ after \in Int
      BY <1>8
    <3>2. after = before - 1
      BY <1>8
    <3>3. room \in Int
      BY <1>5
    <3> QED
      BY <3>1, <3>2, <3>3
  <2> HIDE DEF before, after, room
  <2>4. Len(events'[w]) + after <= room
    BY <2>1, <2>2, <2>3
  <2> QED
    BY <1>8, <2>2, <2>4 DEF after, room
<1>10. Entries'
  <2> SUFFICES ASSUME NEW w \in Window
               PROVE  Cardinality(EntriesOf(events'[w])) + PlacingEntry' <= Limit[w] - OrderReserve
    BY <1>4 DEF Entries
  <2>1. Cardinality(EntriesOf(events[w])) + PlacingEntry <= Limit[w] - OrderReserve
    BY <1>4 DEF Entries
  <2> DEFINE was == Cardinality(EntriesOf(events[w]))
             now == Cardinality(EntriesOf(events'[w]))
             before == PlacingEntry
             after == PlacingEntry'
             added == IF cmd[t].entry THEN 1 ELSE 0
             room == Limit[w] - OrderReserve
  <2>2. after + added = before
    BY <1>1 DEF PlacingEntry, Protective, Types, Thread
  <2>3. before \in Int /\ after \in Int /\ added \in Int
    BY DEF PlacingEntry
  <2>4. was \in Nat /\ now \in Nat /\ now <= was + added
    BY <1>3
  <2>5. room \in Int
    BY <1>5
  <2>6. was + before <= room
    BY <2>1
  <2> HIDE DEF was, now, before, after, added, room
  <2>7. now + after <= room
    BY <2>2, <2>3, <2>4, <2>5, <2>6
  <2> QED
    BY <2>7 DEF now, after, room
<1> QED
  BY <1>6, <1>7, <1>9, <1>10

(* What is left of a call changes no window.                               *)
LEMMA ServeKeeps ==
  ASSUME RateInv, NEW t \in Thread, Serve(t)
  PROVE  RateInv'
<1> USE DEF RateInv
<1>1. UNCHANGED <<events, override, queue, cmd, repairing>> /\ step[t] = "call"
      /\ step' = [step EXCEPT ![t] = "reply"]
  BY DEF Serve, limiter, repairVars
<1>2. count' \in [Window -> Int]
  BY DEF Serve, Types
<1>3. reply' \in [Thread -> [status : Status, count : [Window -> Int]]]
  <2>1. NoReply \in [status : Status, count : [Window -> Int]]
    BY DEF NoReply, Status
  <2>2. \E r \in [status : Status, count : [Window -> Int]] : reply' = [reply EXCEPT ![t] = r]
    <3>1. \A s \in Status, n \in [Window -> Int] :
            [status |-> s, count |-> n] \in [status : Status, count : [Window -> Int]]
      OBVIOUS
    <3>2. \/ \E s \in Status : reply' = [reply EXCEPT ![t] = [status |-> s, count |-> count']]
          \/ \E s \in Status : reply' = [reply EXCEPT ![t] = [status |-> s, count |-> count]]
          \/ reply' = [reply EXCEPT ![t] = NoReply]
      BY DEF Serve, Status
    <3>3. count \in [Window -> Int]
      BY DEF Types
    <3> QED
      BY <1>2, <2>1, <3>1, <3>2, <3>3
  <2> QED
    BY <2>2 DEF Types
<1>4. Types' /\ Single' /\ Protective'
  BY <1>1, <1>2, <1>3 DEF Types, Single, Protective, Thread
<1>5. Windows' /\ Entries'
  <2>1. Placing("worker")' = Placing("worker") /\ Placing("repair")' = Placing("repair")
        /\ PlacingEntry' = PlacingEntry
    BY <1>1 DEF Placing, PlacingEntry, Types, Thread
  <2> QED
    BY <1>1, <2>1, QuietKeeps
<1> QED
  BY <1>4, <1>5

LEMMA ReceiveKeeps ==
  ASSUME RateInv, NEW t \in Thread, Receive(t)
  PROVE  RateInv'
<1> USE DEF RateInv
<1>1. UNCHANGED <<events, queue, count, repairing>> /\ step[t] = "reply"
      /\ step' = [step EXCEPT ![t] = "idle"]
      /\ cmd' = [cmd EXCEPT ![t] = NoCmd] /\ reply' = [reply EXCEPT ![t] = NoReply]
      /\ (override' = override \/ override' = reply[t].count)
  BY DEF Receive, repairVars
<1>2. NoCmd \in [wait : Nat, entry : BOOLEAN] /\ NoCmd.entry = FALSE
      /\ NoReply \in [status : Status, count : [Window -> Int]]
  BY DEF NoCmd, NoReply, Status
<1>3. \A w \in Window : override'[w] \in Int
  BY <1>1 DEF Types
<1>4. Types'
  BY <1>1, <1>2, <1>3 DEF Types
<1>5. Single' /\ Protective'
  BY <1>1, <1>2 DEF Single, Protective, Types, Thread
<1>6. Windows' /\ Entries'
  <2>1. Placing("worker")' = Placing("worker") /\ Placing("repair")' = Placing("repair")
        /\ PlacingEntry' = PlacingEntry
    BY <1>1 DEF Placing, PlacingEntry, Types, Thread
  <2> QED
    BY <1>1, <2>1, QuietKeeps
<1> QED
  BY <1>4, <1>5, <1>6

LEMMA PolledKeeps ==
  ASSUME RateInv, NEW s, Polled(s)
  PROVE  RateInv'
<1>1. UNCHANGED <<events, override, queue, cmd, step, reply, count, repairing>>
  BY DEF Polled, threads, repairVars
<1>2. Windows' /\ Entries'
  BY <1>1, QuietKeeps DEF RateInv, Placing, PlacingEntry
<1> QED
  BY <1>1, <1>2 DEF RateInv, Types, Single, Protective

LEMMA NewIntervalKeeps ==
  ASSUME RateInv, NEW w \in Window, NewInterval(w)
  PROVE  RateInv'
<1>1. UNCHANGED <<events, override, queue, cmd, step, reply, repairing>>
      /\ count' = [count EXCEPT ![w] = 0]
  BY DEF NewInterval, limiter, threads, repairVars
<1>2. Windows' /\ Entries'
  BY <1>1, QuietKeeps DEF RateInv, Placing, PlacingEntry
<1> QED
  BY <1>1, <1>2 DEF RateInv, Types, Single, Protective

(* A command that waits a second longer is still a command for the same     *)
(* kind of order.                                                           *)
LEMMA WaitLonger ==
  ASSUME NEW c \in [wait : Nat, entry : BOOLEAN]
  PROVE  /\ [c EXCEPT !.wait = @ + 1] \in [wait : Nat, entry : BOOLEAN]
         /\ [c EXCEPT !.wait = @ + 1].entry = c.entry
<1>1. c.wait + 1 \in Nat
  OBVIOUS
<1>2. [c EXCEPT !.wait = c.wait + 1] \in [wait : Nat, entry : BOOLEAN]
  BY <1>1, Zenon
<1>3. [c EXCEPT !.wait = c.wait + 1].entry = c.entry
  OBVIOUS
<1> QED
  BY <1>2, <1>3

(* Time makes events older and neither fewer nor more.                     *)
LEMMA TickKeeps ==
  ASSUME RateInv, Tick
  PROVE  RateInv'
<1> USE DEF RateInv
<1>1. UNCHANGED <<override, step, reply, count, repairing>>
      /\ events' = [w \in Window |-> [i \in 1..Len(events[w]) |->
                                        [events[w][i] EXCEPT !.age = Older(w, @)]]]
      /\ queue' = [i \in 1..Len(queue) |-> [queue[i] EXCEPT !.wait = @ + 1]]
      /\ cmd' = [t \in Thread |-> IF step[t] = "idle" THEN cmd[t]
                                                       ELSE [cmd[t] EXCEPT !.wait = @ + 1]]
  BY DEF Tick, repairVars
<1>2. \A w \in Window : events'[w] \in Seq(Event) /\ Len(events'[w]) = Len(events[w])
                        /\ EntryEvents(w)' = EntryEvents(w)
  <2> TAKE w \in Window
  <2>1. events[w] \in Seq(Event) /\ Len(events[w]) \in Nat
    BY DEF Types
  <2>2. \A i \in 1..Len(events[w]) :
          [events[w][i] EXCEPT !.age = Older(w, @)] \in Event
          /\ [events[w][i] EXCEPT !.age = Older(w, @)].entry = events[w][i].entry
    <3> TAKE i \in 1..Len(events[w])
    <3>1. events[w][i] \in Event
      BY <2>1
    <3>2. events[w][i].age \in Nat
      BY <3>1 DEF Event
    <3>3. Older(w, events[w][i].age) \in Nat
      BY <3>2 DEF Older
    <3> QED
      BY <3>1, <3>3 DEF Event
  <2>3. events'[w] = [i \in 1..Len(events[w]) |-> [events[w][i] EXCEPT !.age = Older(w, @)]]
    BY <1>1
  <2>4. events'[w] \in Seq(Event) /\ Len(events'[w]) = Len(events[w])
    BY <2>1, <2>2, <2>3
  <2>5. \A i \in 1..Len(events[w]) : events'[w][i].entry = events[w][i].entry
    BY <2>2, <2>3
  <2> QED
    BY <2>1, <2>4, <2>5 DEF EntryEvents
<1>3. queue' \in Seq([wait : Nat, entry : BOOLEAN])
  <2>1. queue \in Seq([wait : Nat, entry : BOOLEAN]) /\ Len(queue) \in Nat
    BY DEF Types
  <2>2. \A i \in 1..Len(queue) : queue[i] \in [wait : Nat, entry : BOOLEAN]
    BY <2>1, ElementOfSeq
  <2>3. \A i \in 1..Len(queue) :
          [queue[i] EXCEPT !.wait = @ + 1] \in [wait : Nat, entry : BOOLEAN]
    BY <2>2, WaitLonger
  <2> QED
    BY <1>1, <2>1, <2>3
<1>4. cmd' \in [Thread -> [wait : Nat, entry : BOOLEAN]]
      /\ \A t \in Thread : cmd'[t].entry = cmd[t].entry
  <2>1. \A t \in Thread : cmd[t] \in [wait : Nat, entry : BOOLEAN]
    BY DEF Types
  <2>2. \A t \in Thread :
          /\ [cmd[t] EXCEPT !.wait = @ + 1] \in [wait : Nat, entry : BOOLEAN]
          /\ [cmd[t] EXCEPT !.wait = @ + 1].entry = cmd[t].entry
    BY <2>1, WaitLonger
  <2> QED
    BY <1>1, <2>1, <2>2
<1>5. Types'
  BY <1>1, <1>2, <1>3, <1>4 DEF Types
<1>6. Single' /\ Protective'
  BY <1>1, <1>4 DEF Single, Protective, Thread
<1>7. Placing("worker")' = Placing("worker") /\ Placing("repair")' = Placing("repair")
      /\ PlacingEntry' = PlacingEntry
  BY <1>1, <1>4 DEF Placing, PlacingEntry, Thread
<1>8. Windows' /\ Entries'
  BY <1>1, <1>2, <1>7 DEF Windows, Entries
<1> QED
  BY <1>5, <1>6, <1>8

LEMMA RateStepKeeps == RateInv /\ [RateNext]_rateVars => RateInv'
<1> SUFFICES ASSUME RateInv, [RateNext]_rateVars PROVE RateInv'
  OBVIOUS
<1>1. CASE \E entry \in BOOLEAN : Enqueue(entry)
  BY <1>1, EnqueueKeeps
<1>2. CASE TakeNext
  BY <1>2, TakeNextKeeps
<1>3. CASE Repair
  BY <1>3, RepairKeeps
<1>4. CASE \E t \in Thread : Place(t)
  BY <1>4, CheckKeeps, AddKeeps, ServeKeeps, ReceiveKeeps DEF Place
<1>5. CASE \E s \in {"429", "418"} : Polled(s)
  BY <1>5, PolledKeeps
<1>6. CASE \E w \in Window : NewInterval(w)
  BY <1>6, NewIntervalKeeps
<1>7. CASE Tick
  BY <1>7, TickKeeps
<1>8. CASE UNCHANGED rateVars
  <2>1. UNCHANGED <<events, override, queue, cmd, step, reply, count, repairing>>
    BY <1>8 DEF rateVars, limiter, threads, repairVars
  <2>2. Windows' /\ Entries'
    BY <2>1, QuietKeeps DEF RateInv, Placing, PlacingEntry
  <2> QED
    BY <2>1, <2>2 DEF RateInv, Types, Single, Protective
<1> QED
  BY <1>1, <1>2, <1>3, <1>4, <1>5, <1>6, <1>7, <1>8 DEF RateNext

LEMMA RateInvariant == RateSpec => []RateInv
  BY RateInitHolds, RateStepKeeps, PTL DEF RateSpec

-----------------------------------------------------------------------------
(* A window holds at most its limit while one thread places orders, and    *)
(* one order more when a second one does, though the check (allow_order)   *)
(* and the count (on_order) are two steps without a lock.                  *)
THEOREM WindowBound == RateSpec => []WindowHolds
<1>1. RateInv => WindowHolds
  <2> SUFFICES ASSUME RateInv, NEW w \in Window
               PROVE  Len(events[w]) <= Limit[w] + (IF repairing THEN 1 ELSE 0)
    BY DEF WindowHolds
  <2>1. Len(events[w]) \in Nat /\ Limit[w] \in Nat
    BY LimitNat DEF RateInv, Types
  <2>2. Placing("worker") \in 0..1 /\ Placing("repair") \in 0..1
    BY DEF Placing
  <2>3. Len(events[w]) + Placing("worker") + Placing("repair")
          <= Limit[w] + (IF repairing THEN 1 ELSE 0)
    BY DEF RateInv, Windows
  <2> QED
    BY <2>1, <2>2, <2>3
<1> QED
  BY <1>1, RateInvariant, PTL

(* Entries leave the reserve of both windows to protection and exits, with *)
(* a second thread placing orders between an entry's check and its count.  *)
THEOREM ReserveBound == RateSpec => []ReserveLeft
<1>1. RateInv => ReserveLeft
  <2> SUFFICES ASSUME RateInv, NEW w \in Window
               PROVE  Cardinality(EntryEvents(w)) <= Limit[w] - OrderReserve
    BY DEF ReserveLeft
  <2>1. EntryEvents(w) = EntriesOf(events[w]) /\ events[w] \in Seq(Event)
    BY DEF RateInv, Types, EntryEvents, EntriesOf
  <2>2. Cardinality(EntryEvents(w)) \in Nat /\ Limit[w] \in Nat /\ OrderReserve \in Nat
    BY <2>1, LimitNat, CountType
  <2>3. Cardinality(EntryEvents(w)) + PlacingEntry <= Limit[w] - OrderReserve /\ PlacingEntry \in 0..1
    BY DEF RateInv, Entries, PlacingEntry
  <2> QED
    BY <2>2, <2>3
<1> QED
  BY <1>1, RateInvariant, PTL

-----------------------------------------------------------------------------
(* Room at the venue.  What a header said, with the orders counted since   *)
(* and those about to be, stays within the limit (Known); with one thread  *)
(* it is never less than what the venue counts, and more than that while   *)
(* an order is on its way to it (Ahead).                                   *)

(* What RateInv leaves out of the type: pauses, waits and counters. *)
Bounds ==
  /\ \A w \in Window : override[w] = Never \/ override[w] \in Nat
  /\ backoff \in Int /\ backoff >= -MaxWait /\ (\E r \in RetryAfter \cup {0} : backoff <= r)
  /\ banned \in BOOLEAN
  /\ queue \in Seq(OrderCmd)
  /\ \A t \in Thread : cmd[t] \in OrderCmd
  /\ \A w \in Window : count[w] \in 0..Limit[w]
  /\ \A t \in Thread, w \in Window : reply[t].count[w] \in 0..Limit[w]
  /\ repairs \in 0..MaxRepairs

Known ==
  \A w \in Window : override[w] + Placing("worker") + Placing("repair")
                      <= Limit[w] + (IF repairing THEN 1 ELSE 0)

Ahead ==
  ~repairing =>
    \A w \in Window :
      /\ step["worker"] = "reply" /\ reply["worker"].status # "none"
           => count[w] <= reply["worker"].count[w]
      /\ override[w] # Never =>
           count[w] + (IF step["worker"] = "call" THEN 1 ELSE 0) <= override[w]

RoomInv == RateInv /\ Bounds /\ Known /\ Ahead

LEMMA RoomInit == RateInit => RoomInv
<1> SUFFICES ASSUME RateInit PROVE RoomInv
  OBVIOUS
<1>1. RateInv
  BY RateInitHolds
<1>2. \A w \in Window : Limit[w] \in Nat /\ override[w] = -1
  BY LimitNat DEF RateInit, Never
<1>3. MaxWait \in Nat /\ MaxRepairs \in Nat /\ Limit10 \in Nat /\ Limit1m \in Nat
  BY RLAssumption
<1>4. \A t \in Thread : cmd[t] = NoCmd /\ step[t] = "idle" /\ reply[t] = NoReply
  BY DEF RateInit
<1>5. NoCmd \in OrderCmd
  BY <1>3 DEF NoCmd, OrderCmd
<1>6. \A w \in Window : count[w] \in 0..Limit[w]
  <2>1. PICK n \in 0..Limit10 : n <= Limit1m /\ count = [w \in Window |-> n]
    BY DEF RateInit
  <2> QED
    BY <1>3, <2>1 DEF Limit
<1>7. Bounds
  <2>1. backoff \in Int /\ backoff >= -MaxWait /\ (\E r \in RetryAfter \cup {0} : backoff <= r)
    <3>1. backoff = -MaxWait
      BY DEF RateInit
    <3>2. backoff <= 0 /\ backoff \in Int /\ backoff >= -MaxWait
      BY <1>3, <3>1
    <3> QED
      BY <3>2
  <2>2. \A t \in Thread, w \in Window : reply[t].count[w] \in 0..Limit[w]
    BY <1>2, <1>4 DEF NoReply
  <2>3. queue \in Seq(OrderCmd)
    <3>1. queue = << >>
      BY DEF RateInit
    <3> QED
      BY <3>1, EmptySeq
  <2>4. banned \in BOOLEAN
    BY Zenon DEF RateInit
  <2>5. repairs \in 0..MaxRepairs
    <3>1. repairs = 0
      BY DEF RateInit
    <3> QED
      BY <1>3, <3>1
  <2> QED
    BY <1>2, <1>4, <1>5, <1>6, <2>1, <2>2, <2>3, <2>4, <2>5 DEF Bounds, Never
<1>8. Known
  BY <1>2, <1>4 DEF Known, Placing, Thread
<1>9. Ahead
  BY <1>2, <1>4 DEF Ahead, Never, Thread
<1> QED
  BY <1>1, <1>7, <1>8, <1>9 DEF RoomInv

(* A step that leaves what is known of the venue, its count, and the       *)
(* orders that were let through alone.                                     *)
LEMMA RoomQuiet ==
  ASSUME RoomInv, UNCHANGED <<override, count, reply, repairing>>,
         Placing("worker")' = Placing("worker"), Placing("repair")' = Placing("repair"),
         step'["worker"] = "call" <=> step["worker"] = "call",
         step'["worker"] = "reply" <=> step["worker"] = "reply"
  PROVE  Known' /\ Ahead'
<1>1. Known'
  BY DEF RoomInv, Known
<1>2. Ahead'
  BY DEF RoomInv, Ahead
<1> QED
  BY <1>1, <1>2

LEMMA RoomEnqueue ==
  ASSUME RoomInv, NEW entry \in BOOLEAN, Enqueue(entry)
  PROVE  Bounds' /\ Known' /\ Ahead'
<1>1. UNCHANGED <<override, backoff, banned, cmd, step, reply, count, repairing, repairs>>
  BY DEF Enqueue, limiter, repairVars
<1>2. queue' \in Seq(OrderCmd)
  <2>1. [wait |-> 0, entry |-> entry] \in OrderCmd
    BY RLAssumption DEF OrderCmd
  <2> QED
    BY <2>1 DEF RoomInv, Bounds, Enqueue
<1>3. Bounds'
  BY <1>1, <1>2 DEF RoomInv, Bounds
<1>4. Known' /\ Ahead'
  BY <1>1, RoomQuiet DEF Placing
<1> QED
  BY <1>3, <1>4

LEMMA RoomTakeNext ==
  ASSUME RoomInv, TakeNext
  PROVE  Bounds' /\ Known' /\ Ahead'
<1>1. UNCHANGED <<override, backoff, banned, reply, count, repairing, repairs>>
      /\ step["worker"] = "idle" /\ queue # << >>
      /\ cmd' = [cmd EXCEPT !["worker"] = Head(queue)] /\ queue' = Tail(queue)
      /\ step' = [step EXCEPT !["worker"] = "check"]
  BY DEF TakeNext, limiter, repairVars
<1>2. Head(queue) \in OrderCmd /\ Tail(queue) \in Seq(OrderCmd)
  BY <1>1, HeadTailProperties DEF RoomInv, Bounds
<1>3. step'["worker"] = "check" /\ step'["repair"] = step["repair"]
  BY <1>1 DEF RoomInv, RateInv, Types, Thread
<1>4. \A t \in Thread : cmd'[t] \in OrderCmd
  BY <1>1, <1>2 DEF RoomInv, RateInv, Types, Bounds
<1>5. Bounds'
  BY <1>1, <1>2, <1>4 DEF RoomInv, Bounds
<1>6. Known' /\ Ahead'
  BY <1>1, <1>3, RoomQuiet DEF Placing
<1> QED
  BY <1>5, <1>6

LEMMA RoomRepair ==
  ASSUME RoomInv, Repair
  PROVE  Bounds' /\ Known' /\ Ahead'
<1>1. UNCHANGED <<override, backoff, banned, queue, reply, count, repairing>>
      /\ repairs < MaxRepairs /\ repairs' = repairs + 1 /\ step["repair"] = "idle"
      /\ cmd' = [cmd EXCEPT !["repair"] = NoCmd]
      /\ step' = [step EXCEPT !["repair"] = "check"]
  BY DEF Repair, limiter
<1>2. step'["repair"] = "check" /\ step'["worker"] = step["worker"]
  BY <1>1 DEF RoomInv, RateInv, Types, Thread
<1>3. NoCmd \in OrderCmd
  BY RLAssumption DEF NoCmd, OrderCmd
<1>4. \A t \in Thread : cmd'[t] \in OrderCmd
  BY <1>1, <1>3 DEF RoomInv, RateInv, Types, Bounds
<1>5. repairs' \in 0..MaxRepairs
  BY <1>1, RLAssumption DEF RoomInv, Bounds
<1>6. Bounds'
  BY <1>1, <1>4, <1>5 DEF RoomInv, Bounds
<1>7. Known' /\ Ahead'
  BY <1>1, <1>2, RoomQuiet DEF Placing
<1> QED
  BY <1>6, <1>7

LEMMA RoomCheck ==
  ASSUME RoomInv, NEW t \in Thread, Check(t)
  PROVE  Bounds' /\ Known' /\ Ahead'
<1>1. UNCHANGED <<override, backoff, banned, queue, reply, count, repairing, repairs>>
      /\ step[t] = "check"
  BY DEF Check, repairVars
<1>2. \A w \in Window : Limit[w] \in Nat /\ OrderReserve \in Nat /\ override[w] \in Int
  BY LimitNat DEF RoomInv, RateInv, Types
<1>3. \/ Allowed(cmd[t]) /\ step' = [step EXCEPT ![t] = "add"] /\ cmd' = cmd
      \/ step' = [step EXCEPT ![t] = "idle"] /\ cmd' = [cmd EXCEPT ![t] = NoCmd]
  BY DEF Check
<1>4. \A s \in Thread : cmd'[s] \in OrderCmd
  <2>1. NoCmd \in OrderCmd
    BY RLAssumption DEF NoCmd, OrderCmd
  <2> QED
    BY <1>3, <2>1 DEF RoomInv, RateInv, Types, Bounds
<1>5. Bounds'
  BY <1>1, <1>4 DEF RoomInv, Bounds
<1>6. /\ (step'["worker"] # "call" /\ step'["worker"] # "reply") \/ t # "worker"
      /\ \A s \in Thread : s # t => step'[s] = step[s]
      /\ step'[t] \in {"add", "idle"}
  BY <1>3 DEF RoomInv, RateInv, Types, Thread
<1>7. Ahead'
  BY <1>1, <1>6 DEF RoomInv, Ahead, Thread
<1>8. Known'
  <2>1. CASE step'[t] = "idle"
    BY <1>1, <1>2, <1>6, <2>1 DEF RoomInv, Known, Placing, Thread
  <2>2. CASE step'[t] = "add"
    <3>1. Allowed(cmd[t])
      BY <1>3, <2>2 DEF RoomInv, RateInv, Types
    <3>2. \A w \in Window : override[w] < Limit[w]
      <4> SUFFICES ASSUME NEW w \in Window PROVE override[w] < Limit[w]
        OBVIOUS
      <4>1. cmd[t] \in [wait : Nat, entry : BOOLEAN] /\ Room(w, cmd[t])
        BY <3>1 DEF Allowed, RoomInv, RateInv, Types
      <4>2. Trim(w, cmd[t].wait) \in Seq(Event)
        BY <4>1, TrimCount DEF RoomInv, RateInv, Types
      <4>3. Len(Trim(w, cmd[t].wait)) \in Nat
        BY <4>2
      <4> QED
        BY <1>2, <4>1, <4>3 DEF Room, Remaining, Greater
    <3>3. ~repairing => t = "worker" /\ step["repair"] = "idle"
      BY <1>1 DEF RoomInv, RateInv, Single, Thread
    <3> QED
      BY <1>1, <1>2, <1>6, <2>2, <3>2, <3>3 DEF RoomInv, Known, Placing, Thread
  <2> QED
    BY <1>6, <2>1, <2>2
<1> QED
  BY <1>5, <1>7, <1>8

LEMMA RoomAdd ==
  ASSUME RoomInv, NEW t \in Thread, Add(t)
  PROVE  Bounds' /\ Known' /\ Ahead'
<1>1. UNCHANGED <<backoff, banned, queue, cmd, reply, count, repairing, repairs>>
      /\ step[t] = "add" /\ step' = [step EXCEPT ![t] = "call"]
      /\ override' = [w \in Window |-> IF override[w] = Never THEN Never ELSE override[w] + 1]
  BY DEF Add, repairVars
<1>2. step'[t] = "call" /\ \A s \in Thread : s # t => step'[s] = step[s]
  BY <1>1 DEF RoomInv, RateInv, Types
<1>3. \A w \in Window : /\ Limit[w] \in Nat /\ count[w] \in Nat
                        /\ override[w] = -1 \/ override[w] \in Nat
                        /\ override'[w] = IF override[w] = -1 THEN -1 ELSE override[w] + 1
  BY <1>1, LimitNat DEF RoomInv, Bounds, Never
<1>4. Bounds'
  BY <1>1, <1>3 DEF RoomInv, Bounds, Never
<1>5. Known'
  BY <1>1, <1>2, <1>3 DEF RoomInv, Known, Placing, Thread
<1>6. Ahead'
  BY <1>1, <1>2, <1>3 DEF RoomInv, RateInv, Single, Ahead, Never, Thread
<1> QED
  BY <1>4, <1>5, <1>6

LEMMA RoomServe ==
  ASSUME RoomInv, NEW t \in Thread, Serve(t)
  PROVE  Bounds' /\ Known' /\ Ahead'
<1>1. UNCHANGED <<override, backoff, banned, queue, cmd, repairing, repairs>>
      /\ step[t] = "call" /\ step' = [step EXCEPT ![t] = "reply"]
  BY DEF Serve, limiter, repairVars
<1>2. step'[t] = "reply" /\ \A s \in Thread : s # t => step'[s] = step[s]
  BY <1>1 DEF RoomInv, RateInv, Types
<1>3. \A w \in Window : Limit[w] \in Nat /\ count[w] \in 0..Limit[w] /\ override[w] \in Int
  BY LimitNat DEF RoomInv, RateInv, Types, Bounds
<1>4. /\ \A s \in Thread : s # t => reply'[s] = reply[s]
      /\ \A w \in Window :
           /\ count'[w] \in 0..Limit[w] /\ reply'[t].count[w] \in 0..Limit[w]
           /\ count'[w] <= count[w] + 1
           /\ reply'[t].status # "none" => count'[w] <= reply'[t].count[w]
  <2>1. CASE /\ HasRoom
             /\ count' = [w \in Window |-> count[w] + 1]
             /\ \E r \in {NoReply, [status |-> "200", count |-> count']} :
                  reply' = [reply EXCEPT ![t] = r]
    <3>1. \A w \in Window : count'[w] = count[w] + 1 /\ count[w] < Limit[w]
      BY <2>1 DEF HasRoom
    <3>2. PICK r \in {NoReply, [status |-> "200", count |-> count']} :
            reply' = [reply EXCEPT ![t] = r]
      BY <2>1
    <3>3. reply'[t] = r /\ \A s \in Thread : s # t => reply'[s] = reply[s]
      BY <3>2 DEF RoomInv, RateInv, Types
    <3>4. CASE r = NoReply
      <4>1. NoReply.status = "none" /\ \A w \in Window : NoReply.count[w] = 0
        BY DEF NoReply
      <4> QED
        BY <1>3, <3>1, <3>3, <3>4, <4>1
    <3>5. CASE r = [status |-> "200", count |-> count']
      BY <1>3, <3>1, <3>3, <3>5
    <3> QED
      BY <3>2, <3>4, <3>5
  <2>2. CASE /\ \E s \in {"429", "418"} :
                  reply' = [reply EXCEPT ![t] = [status |-> s, count |-> count]]
             /\ UNCHANGED count
    <3>1. reply'[t].count = count /\ \A r \in Thread : r # t => reply'[r] = reply[r]
      BY <2>2 DEF RoomInv, RateInv, Types
    <3> QED
      BY <1>3, <2>2, <3>1
  <2>3. CASE reply' = [reply EXCEPT ![t] = NoReply] /\ UNCHANGED count
    <3>1. reply'[t] = NoReply /\ \A r \in Thread : r # t => reply'[r] = reply[r]
      BY <2>3 DEF RoomInv, RateInv, Types
    <3>2. NoReply.status = "none" /\ \A w \in Window : NoReply.count[w] = 0
      BY DEF NoReply
    <3> QED
      BY <1>3, <2>3, <3>1, <3>2
  <2> QED
    BY <2>1, <2>2, <2>3 DEF Serve
<1>5. Bounds'
  BY <1>1, <1>4 DEF RoomInv, Bounds
<1>6. Known'
  BY <1>1, <1>2 DEF RoomInv, Known, Placing, Thread
<1>7. Ahead'
  <2> SUFFICES ASSUME ~repairing, NEW w \in Window
               PROVE  /\ step'["worker"] = "reply" /\ reply'["worker"].status # "none"
                           => count'[w] <= reply'["worker"].count[w]
                      /\ override[w] # Never =>
                           count'[w] + (IF step'["worker"] = "call" THEN 1 ELSE 0) <= override[w]
    BY <1>1 DEF Ahead
  <2>1. t = "worker"
    BY <1>1 DEF RoomInv, RateInv, Single, Thread
  <2>2. override[w] # Never => count[w] + 1 <= override[w]
    BY <1>1, <2>1 DEF RoomInv, Ahead
  <2> QED
    BY <1>2, <1>3, <1>4, <2>1, <2>2
<1> QED
  BY <1>5, <1>6, <1>7

(* A pause never reaches below -MaxWait nor beyond what the venue asked.   *)
LEMMA PausedBounds ==
  ASSUME RoomInv, NEW s, NEW wait \in Nat, wait <= MaxWait, backoff' \in Paused(s, wait)
  PROVE  backoff' \in Int /\ backoff' >= -MaxWait /\ (\E r \in RetryAfter \cup {0} : backoff' <= r)
<1>1. MaxWait \in Nat /\ RetryAfter \subseteq Nat
  BY RLAssumption
<1>2. backoff \in Int /\ backoff >= -MaxWait /\ (\E r \in RetryAfter \cup {0} : backoff <= r)
  BY DEF RoomInv, Bounds
<1>3. CASE s = "429"
  <2>1. PICK r \in RetryAfter : backoff' = Greater(-MaxWait, r - wait)
    BY <1>3 DEF Paused
  <2> QED
    BY <1>1, <2>1 DEF Greater
<1>4. CASE s = "418"
  <2>1. PICK r \in RetryAfter : backoff' = Greater(backoff, r - wait)
    BY <1>4 DEF Paused
  <2> QED
    BY <1>1, <1>2, <2>1 DEF Greater
<1>5. CASE s # "429" /\ s # "418"
  <2>1. backoff' = backoff
    BY <1>5 DEF Paused
  <2> QED
    BY <1>2, <2>1
<1> QED
  BY <1>3, <1>4, <1>5

LEMMA RoomReceive ==
  ASSUME RoomInv, NEW t \in Thread, Receive(t)
  PROVE  Bounds' /\ Known' /\ Ahead'
<1>1. /\ UNCHANGED <<queue, count, repairing, repairs>> /\ step[t] = "reply"
      /\ step' = [step EXCEPT ![t] = "idle"] /\ cmd' = [cmd EXCEPT ![t] = NoCmd]
      /\ reply' = [reply EXCEPT ![t] = NoReply]
      /\ override' = (IF reply[t].status = "none" THEN override ELSE reply[t].count)
      /\ backoff' \in Paused(reply[t].status, cmd[t].wait)
      /\ banned' = (banned \/ reply[t].status = "418")
  BY DEF Receive, repairVars
<1>2. step'[t] = "idle" /\ \A s \in Thread : s # t => step'[s] = step[s]
  BY <1>1 DEF RoomInv, RateInv, Types
<1>3. /\ \A s \in Thread : s # t => reply'[s] = reply[s] /\ cmd'[s] = cmd[s]
      /\ reply'[t] = NoReply /\ cmd'[t] = NoCmd
  BY <1>1 DEF RoomInv, RateInv, Types
<1>4. \A w \in Window : Limit[w] \in Nat /\ count[w] \in Nat
                        /\ reply[t].count[w] \in 0..Limit[w] /\ override[w] \in Int
  BY LimitNat DEF RoomInv, RateInv, Types, Bounds
<1>5. Bounds'
  <2>1. backoff' \in Int /\ backoff' >= -MaxWait /\ (\E r \in RetryAfter \cup {0} : backoff' <= r)
    <3>1. cmd[t].wait \in Nat /\ cmd[t].wait <= MaxWait
      BY RLAssumption DEF RoomInv, Bounds, OrderCmd
    <3> QED
      BY <1>1, <3>1, PausedBounds
  <2>2. banned' \in BOOLEAN
    BY <1>1 DEF RoomInv, Bounds
  <2>3. \A s \in Thread : cmd'[s] \in OrderCmd
    <3>1. NoCmd \in OrderCmd
      BY RLAssumption DEF NoCmd, OrderCmd
    <3> QED
      BY <1>3, <3>1 DEF RoomInv, Bounds
  <2>4. \A s \in Thread, w \in Window : reply'[s].count[w] \in 0..Limit[w]
    <3>1. \A w \in Window : NoReply.count[w] \in 0..Limit[w]
      BY <1>4 DEF NoReply
    <3> QED
      BY <1>3, <3>1 DEF RoomInv, Bounds
  <2>5. \A w \in Window : override'[w] = Never \/ override'[w] \in Nat
    BY <1>1, <1>4 DEF RoomInv, Bounds
  <2> QED
    BY <1>1, <2>1, <2>2, <2>3, <2>4, <2>5 DEF RoomInv, Bounds
<1>6. Known'
  <2> SUFFICES ASSUME NEW w \in Window
               PROVE  override'[w] + Placing("worker")' + Placing("repair")'
                        <= Limit[w] + (IF repairing THEN 1 ELSE 0)
    BY <1>1 DEF Known
  <2>1. Placing(t)' = 0 /\ Placing(t) = 0
        /\ \A s \in Thread : s # t => Placing(s)' = Placing(s) /\ Placing(s) \in 0..1
    BY <1>1, <1>2 DEF Placing
  <2>2. ~repairing => t = "worker" /\ Placing("repair") = 0
    BY <1>1 DEF RoomInv, RateInv, Single, Placing, Thread
  <2>3. override[w] + Placing("worker") + Placing("repair")
          <= Limit[w] + (IF repairing THEN 1 ELSE 0)
    BY DEF RoomInv, Known
  <2>4. override'[w] = override[w] \/ override'[w] \in 0..Limit[w]
    BY <1>1, <1>4
  <2>5. t = "worker" \/ t = "repair"
    BY DEF Thread
  <2> QED
    BY <1>4, <2>1, <2>2, <2>3, <2>4, <2>5 DEF Thread
<1>7. Ahead'
  <2> SUFFICES ASSUME ~repairing, NEW w \in Window, override'[w] # Never
               PROVE  count[w] <= override'[w]
    BY <1>1, <1>2, <1>4 DEF Ahead, RoomInv, RateInv, Single, Thread
  <2>1. t = "worker"
    BY <1>1 DEF RoomInv, RateInv, Single, Thread
  <2>2. CASE reply[t].status = "none"
    BY <1>1, <1>4, <2>1, <2>2 DEF RoomInv, Ahead
  <2>3. CASE reply[t].status # "none"
    BY <1>1, <1>4, <2>1, <2>3 DEF RoomInv, Ahead
  <2> QED
    BY <2>2, <2>3
<1> QED
  BY <1>5, <1>6, <1>7

LEMMA RoomPolled ==
  ASSUME RoomInv, NEW s, Polled(s)
  PROVE  Bounds' /\ Known' /\ Ahead'
<1>1. UNCHANGED <<override, queue, cmd, step, reply, count, repairing, repairs>>
      /\ backoff' \in Paused(s, 0) /\ banned' = (banned \/ s = "418")
  BY DEF Polled, threads, repairVars
<1>2. backoff' \in Int /\ backoff' >= -MaxWait /\ (\E r \in RetryAfter \cup {0} : backoff' <= r)
  BY <1>1, PausedBounds, RLAssumption
<1>3. banned' \in BOOLEAN
  BY <1>1 DEF RoomInv, Bounds
<1>4. Bounds'
  BY <1>1, <1>2, <1>3 DEF RoomInv, Bounds
<1>5. Known' /\ Ahead'
  BY <1>1, RoomQuiet DEF Placing
<1> QED
  BY <1>4, <1>5

LEMMA RoomNewInterval ==
  ASSUME RoomInv, NEW v \in Window, NewInterval(v)
  PROVE  Bounds' /\ Known' /\ Ahead'
<1>1. UNCHANGED <<override, backoff, banned, queue, cmd, step, reply, repairing, repairs>>
      /\ count' = [count EXCEPT ![v] = 0]
  BY DEF NewInterval, limiter, threads, repairVars
<1>2. \A w \in Window : /\ Limit[w] \in Nat /\ count[w] \in 0..Limit[w] /\ override[w] \in Int
                        /\ reply["worker"].count[w] \in Int
                        /\ count'[w] = count[w] \/ count'[w] = 0
  BY <1>1, LimitNat DEF RoomInv, RateInv, Types, Bounds, Thread
<1>3. Bounds'
  BY <1>1, <1>2 DEF RoomInv, Bounds
<1>4. Known'
  BY <1>1 DEF RoomInv, Known, Placing
<1>5. Ahead'
  BY <1>1, <1>2 DEF RoomInv, Ahead
<1> QED
  BY <1>3, <1>4, <1>5

LEMMA RoomTick ==
  ASSUME RoomInv, Tick
  PROVE  Bounds' /\ Known' /\ Ahead'
<1>1. /\ UNCHANGED <<override, banned, step, reply, count, repairing, repairs>>
      /\ \A n \in Waits : n < MaxWait
      /\ backoff' = Greater(-MaxWait, backoff - 1)
      /\ queue' = [i \in 1..Len(queue) |-> [queue[i] EXCEPT !.wait = @ + 1]]
      /\ cmd' = [t \in Thread |-> IF step[t] = "idle" THEN cmd[t]
                                                     ELSE [cmd[t] EXCEPT !.wait = @ + 1]]
  BY DEF Tick, repairVars
<1>2. MaxWait \in Nat /\ RetryAfter \subseteq Nat
  BY RLAssumption
<1>3. ASSUME NEW c \in OrderCmd, c.wait < MaxWait
      PROVE  [c EXCEPT !.wait = @ + 1] \in OrderCmd
  BY <1>2, <1>3 DEF OrderCmd
<1>4. queue' \in Seq(OrderCmd)
  <2>1. queue \in Seq(OrderCmd)
    BY DEF RoomInv, Bounds
  <2>2. \A i \in 1..Len(queue) : queue[i] \in OrderCmd /\ queue[i].wait < MaxWait
    BY <1>1, <2>1 DEF Waits
  <2>3. \A i \in 1..Len(queue) : [queue[i] EXCEPT !.wait = @ + 1] \in OrderCmd
    BY <1>3, <2>2
  <2>4. Len(queue) \in Nat
    BY <2>1
  <2> QED
    BY <1>1, <2>3, <2>4
<1>5. \A t \in Thread : cmd'[t] \in OrderCmd
  <2> SUFFICES ASSUME NEW t \in Thread PROVE cmd'[t] \in OrderCmd
    OBVIOUS
  <2>1. cmd[t] \in OrderCmd /\ cmd[t].wait < MaxWait
    BY <1>1 DEF RoomInv, Bounds, Waits
  <2> QED
    BY <1>1, <1>3, <2>1
<1>6. backoff' \in Int /\ backoff' >= -MaxWait /\ (\E r \in RetryAfter \cup {0} : backoff' <= r)
  BY <1>1, <1>2 DEF RoomInv, Bounds, Greater
<1>7. Bounds'
  BY <1>1, <1>4, <1>5, <1>6 DEF RoomInv, Bounds
<1>8. Known' /\ Ahead'
  BY <1>1, RoomQuiet DEF Placing
<1> QED
  BY <1>7, <1>8

LEMMA RoomStep == RoomInv /\ [RateNext]_rateVars => RoomInv'
<1> SUFFICES ASSUME RoomInv, [RateNext]_rateVars PROVE RoomInv'
  OBVIOUS
<1>1. RateInv'
  BY RateStepKeeps DEF RoomInv
<1>2. Bounds' /\ Known' /\ Ahead'
  <2>1. CASE UNCHANGED rateVars
    <3>1. UNCHANGED <<override, backoff, banned, queue, cmd, step, reply, count, repairing, repairs>>
      BY <2>1 DEF rateVars, limiter, threads, repairVars
    <3>2. Bounds'
      BY <3>1 DEF RoomInv, Bounds
    <3> QED
      BY <3>1, <3>2, RoomQuiet DEF Placing
  <2> QED
    BY <2>1, RoomEnqueue, RoomTakeNext, RoomRepair, RoomCheck, RoomAdd, RoomServe, RoomReceive,
       RoomPolled, RoomNewInterval, RoomTick DEF RateNext, Place
<1> QED
  BY <1>1, <1>2 DEF RoomInv

(* With one thread, and counters the venue has reported once, an order the *)
(* limiter let through has room at the venue: whatever answers were lost,  *)
(* intervals began, and however long the command waited in the queue.      *)
THEOREM OrderHasRoom == RateSpec => []RoomKept
<1>1. RoomInv => RoomKept
  <2> SUFFICES ASSUME RoomInv PROVE RoomKept
    OBVIOUS
  <2>1. \A w \in Window : /\ Limit[w] \in Nat /\ count[w] \in 0..Limit[w]
                          /\ override[w] = Never \/ override[w] \in Nat
    BY LimitNat DEF RoomInv, Bounds
  <2>2. \A w \in Window : override[w] \in {Never} \cup 0..(Limit[w] + 1)
    BY <2>1 DEF RoomInv, Known, Placing, Never
  <2>3. \A t \in Thread : reply[t].status \in Status /\ reply[t].count \in [Window -> Nat]
    <3> SUFFICES ASSUME NEW t \in Thread
                 PROVE  reply[t].status \in Status /\ reply[t].count \in [Window -> Nat]
      OBVIOUS
    <3>1. reply[t].status \in Status /\ reply[t].count \in [Window -> Int]
      BY DEF RoomInv, RateInv, Types
    <3>2. \A w \in Window : reply[t].count[w] \in Nat
      BY <2>1 DEF RoomInv, Bounds
    <3> QED
      BY <3>1, <3>2
  <2>4. cmd \in [Thread -> OrderCmd]
    BY DEF RoomInv, RateInv, Types, Bounds
  <2>5. RateTypeOK
    BY <2>1, <2>2, <2>3, <2>4 DEF RoomInv, RateInv, Types, Bounds, RateTypeOK
  <2>6. LetThroughHasRoom
    BY <2>1 DEF RoomInv, Known, Ahead, LetThroughHasRoom, Placing
  <2> QED
    BY <2>5, <2>6 DEF RoomKept
<1> QED
  BY <1>1, RoomInit, RoomStep, PTL DEF RateSpec
=============================================================================
