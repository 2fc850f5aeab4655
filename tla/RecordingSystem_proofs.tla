---------------------- MODULE RecordingSystem_proofs ----------------------
(***************************************************************************)
(* Theorems about the recorder and the database beside it, for every size  *)
(* of the queues, of the batches and of the bounds.                        *)
(***************************************************************************)
EXTENDS RecordingSystem, SequenceTheorems, FiniteSetTheorems, WellFoundedInduction, TLAPS

-----------------------------------------------------------------------------
(* The recorder. *)

(* Number n of life l is an event of s. *)
Has(s, n, l) == \E i \in 1..Len(s) : s[i].q = n /\ s[i].life = l

(* Between two lives nothing waits and no file is open; a process that is  *)
(* up has a life.                                                          *)
Idle ==
  /\ proc \in {"off", "stored"} => queue = << >> /\ cur = NoFile /\ ~writer
  /\ proc # "off" => life \in 1..MaxLives

(* The open file holds events of this life only, and is not empty. *)
OpenFile ==
  IF cur = NoFile THEN buf = << >>
  ELSE /\ cur \in Name /\ cur \in DOMAIN disk
       /\ disk[cur].lines # << >> \/ buf # << >>
       /\ \A i \in 1..Len(disk[cur].lines) :
             disk[cur].lines[i].life = life /\ cur.q <= disk[cur].lines[i].q
       /\ \A i \in 1..Len(buf) : buf[i].life = life /\ cur.q <= buf[i].q

(* The queue is in the order of the numbers of this life. *)
LineUp ==
  \A i \in 1..Len(queue) :
    /\ queue[i].life = life /\ queue[i].q <= seq
    /\ \A j \in 1..Len(queue) : i < j => queue[i].q < queue[j].q

(* What is written or dropped was numbered, and before what still waits; a *)
(* file has the number of its first event.                                 *)
Waits(n) == n <= seq /\ \A j \in 1..Len(queue) : n < queue[j].q
Past ==
  /\ \A i \in 1..Len(buf) : Waits(buf[i].q)
  /\ \A f \in DOMAIN disk : \A i \in 1..Len(disk[f].lines) :
        /\ disk[f].lines[i].life <= life
        /\ disk[f].lines[i].life = life =>
             f.q <= disk[f].lines[i].q /\ Waits(disk[f].lines[i].q)
  /\ \A d \in dropped : d.life <= life /\ (d.life = life => d.q <= seq)

(* What the manifest names lies before everything of the open file and of  *)
(* the queue; one of its lines, or the start, has the largest number.      *)
Listed ==
  /\ \A m \in manifest :
       /\ m.file.q <= m.last /\ (proc # "off" => m.last <= seq)
       /\ \A j \in 1..Len(queue) : m.last < queue[j].q
       /\ cur # NoFile => m.last < cur.q
  /\ \E n \in {SeqStart} \cup {m.last : m \in manifest} :
        \A m \in manifest : n >= m.last /\ n >= SeqStart

Layout == Idle /\ OpenFile /\ LineUp /\ Past /\ Listed

(* Recorded, with its sequences named. *)
InRecord(n) == \/ Has(queue, n, life) \/ Has(buf, n, life)
               \/ \E f \in DOMAIN disk : Has(disk[f].lines, n, life)
InDropped(n) == \E d \in dropped : d.q = n /\ d.life = life

(* NothingUnaccounted, number by number. *)
Counted ==
  (proc \in {"up", "closing"} /\ writer) =>
    /\ \A n : ~(InRecord(n) /\ InDropped(n))
    /\ \A n \in Numbers : InRecord(n) \/ InDropped(n) =>
          \A k \in n..seq : InRecord(k) \/ InDropped(k)

LEMMA MineHas ==
  ASSUME TypeOK, NEW s \in Seq(Event), NEW n
  PROVE  n \in Mine(s) <=> Has(s, n, life)
BY DEF Mine, Has

LEMMA RecordedIs ==
  ASSUME TypeOK, NEW n
  PROVE  /\ n \in Recorded <=> InRecord(n)
         /\ n \in Dropped <=> InDropped(n)
<1>1. queue \in Seq(Event) /\ buf \in Seq(Event)
      /\ \A f \in DOMAIN disk : disk[f].lines \in Seq(Event)
  BY DEF TypeOK
<1>2. n \in Recorded <=> \/ n \in Mine(queue) \/ n \in Mine(buf)
                         \/ \E f \in DOMAIN disk : n \in Mine(disk[f].lines)
  BY DEF Recorded
<1>3. n \in Recorded <=> InRecord(n)
  BY <1>1, <1>2, MineHas DEF InRecord
<1>4. n \in Dropped <=> InDropped(n)
  BY DEF Dropped, InDropped
<1> QED
  BY <1>3, <1>4

LEMMA CountedIs ==
  ASSUME TypeOK
  PROVE  Counted => NothingUnaccounted
<1>1. \A n \in Recorded \cup Dropped : n \in Numbers
  <2>1. ASSUME NEW s \in Seq(Event), NEW n, Has(s, n, life) PROVE n \in Numbers
    <3>1. PICK i \in 1..Len(s) : s[i].q = n
      BY <2>1 DEF Has
    <3>2. s[i] \in Event
      BY <3>1
    <3> QED
      BY <3>1, <3>2 DEF Event
  <2>2. \A n : InRecord(n) => n \in Numbers
    BY <2>1 DEF InRecord, TypeOK
  <2>3. \A n : InDropped(n) => n \in Numbers
    BY DEF InDropped, TypeOK
  <2> QED
    BY <2>2, <2>3, RecordedIs
<1>2. seq \in Nat /\ \A n \in Numbers : n \in Nat
  BY RecAssumption DEF TypeOK, Numbers
<1> QED
  BY <1>1, <1>2, RecordedIs DEF Counted, NothingUnaccounted
LEMMA EventIs ==
  ASSUME NEW s \in Seq(Event), NEW i \in 1..Len(s)
  PROVE  s[i] \in Event /\ s[i].q \in Numbers /\ s[i].q \in Nat /\ s[i].life \in Nat
<1>1. s[i] \in Event
  OBVIOUS
<1>2. s[i].q \in 1..MaxSeq /\ s[i].life \in 1..MaxLives
  BY <1>1 DEF Event, Numbers
<1> QED
  BY <1>1, <1>2, RecAssumption DEF Numbers

LEMMA Sequences ==
  ASSUME TypeOK
  PROVE  /\ queue \in Seq(Event) /\ buf \in Seq(Event)
         /\ \A f \in DOMAIN disk : disk[f].lines \in Seq(Event)
         /\ seq \in Nat /\ life \in Nat /\ SeqStart \in Nat /\ MaxSeq \in Nat
BY RecAssumption DEF TypeOK

(* What is recorded or dropped has its number. *)
LEMMA SeqIsLast ==
  ASSUME TypeOK, Layout, NEW n, InRecord(n) \/ InDropped(n)
  PROVE  n \in Numbers /\ n \in Nat /\ n <= seq
<1>1. \A i \in 1..Len(queue) : queue[i].q \in Numbers /\ queue[i].q \in Nat
  BY Sequences, EventIs
<1>2. \A i \in 1..Len(buf) : buf[i].q \in Numbers /\ buf[i].q \in Nat
  BY Sequences, EventIs
<1>3. \A f \in DOMAIN disk : \A i \in 1..Len(disk[f].lines) :
        disk[f].lines[i].q \in Numbers /\ disk[f].lines[i].q \in Nat
  BY Sequences, EventIs
<1>4. \A d \in dropped : d.q \in Numbers /\ d.q \in Nat
  BY DEF TypeOK, Numbers
<1>5. CASE InRecord(n)
  BY <1>1, <1>2, <1>3, <1>5 DEF InRecord, Has, Layout, LineUp, Past, Waits
<1>6. CASE InDropped(n)
  BY <1>4, <1>6 DEF InDropped, Layout, Past
<1> QED
  BY <1>5, <1>6

RecInv == TypeOK /\ Layout /\ Counted /\ ManifestTrue

LEMMA InitRec == RecInit => RecInv
<1> SUFFICES ASSUME RecInit PROVE RecInv
  OBVIOUS
<1>1. TypeOK
  <2>1. /\ queue \in Seq(Event) /\ buf \in Seq(Event) /\ Len(queue) = 0
        /\ DOMAIN disk = {} /\ manifest = {}
    BY DEF RecInit
  <2>2. /\ proc \in {"off", "up", "closing", "stored"} /\ writer \in BOOLEAN
        /\ dropped = {} /\ cur \in Name \cup {NoFile}
    BY DEF RecInit
  <2>3. /\ life \in 0..MaxLives /\ seq \in SeqStart..MaxSeq /\ now \in 0..MaxBucket
        /\ crashes \in 0..MaxCrashes /\ 0 <= QueueMax
    BY RecAssumption DEF RecInit
  <2> QED
    BY <2>1, <2>2, <2>3 DEF TypeOK
<1>2. Idle /\ OpenFile /\ LineUp
  BY DEF RecInit, Idle, OpenFile, LineUp
<1>3. Past
  BY DEF RecInit, Past
<1>4. Listed
  BY DEF RecInit, Listed
<1>5. Counted /\ ManifestTrue
  BY DEF RecInit, Counted, ManifestTrue
<1> QED
  BY <1>1, <1>2, <1>3, <1>4, <1>5 DEF RecInv, Layout

(* An event is numbered, and queued or counted. *)
LEMMA EmitKeeps ==
  ASSUME RecInv, NEW r \in 0..MaxBucket, proc = "up", proc' \in {"up", "closing"}, Emit(r),
         UNCHANGED <<life, now, writer, cur, buf, disk, manifest, crashes>>
  PROVE  RecInv'
<1> USE DEF RecInv, Layout
<1>1. /\ seq \in Nat /\ seq + 1 \in Numbers /\ seq' = seq + 1 /\ life \in 1..MaxLives
      /\ queue \in Seq(Event) /\ SeqStart \in Nat /\ MaxSeq \in Nat /\ seq' \in SeqStart..MaxSeq
  BY RecAssumption DEF Emit, TypeOK, Idle, Numbers
<1> DEFINE new == [q |-> seq + 1, r |-> r, life |-> life]
<1>2. new \in Event
  BY <1>1 DEF Event
<1>3. /\ queue' \in Seq(Event) /\ Len(queue') <= QueueMax
      /\ Len(queue) <= Len(queue') /\ Len(queue') <= Len(queue) + 1
      /\ \A i \in 1..Len(queue') : queue'[i] = IF i <= Len(queue) THEN queue[i] ELSE new
  <2>1. CASE queue' = Append(queue, new) /\ Len(queue) < QueueMax
    <3>1. Len(queue') = Len(queue) + 1 /\ queue' \in Seq(Event)
      BY <1>1, <1>2, <2>1
    <3>2. \A i \in 1..Len(queue') : queue'[i] = IF i <= Len(queue) THEN queue[i] ELSE new
      BY <1>1, <1>2, <2>1
    <3> QED
      BY <1>1, <2>1, <3>1, <3>2, RecAssumption
  <2>2. CASE queue' = queue
    BY <1>1, <2>2 DEF TypeOK
  <2> QED
    BY <2>1, <2>2 DEF Emit
<1>4. /\ dropped' \subseteq [q : Numbers, life : 1..MaxLives]
      /\ \A d \in dropped' : d \in dropped \/ d = [q |-> seq + 1, life |-> life]
      /\ dropped \subseteq dropped'
  BY <1>1 DEF Emit, TypeOK
<1> HIDE DEF new
<1>5. new.q = seq + 1 /\ new.life = life
  BY DEF new
<1>6. TypeOK'
  BY <1>1, <1>3, <1>4 DEF TypeOK, Event
<1>7. Idle' /\ OpenFile'
  BY <1>1 DEF Idle, OpenFile
<1>8. LineUp'
  <2>1. \A i \in 1..Len(queue) : queue[i].q \in Nat
    BY <1>1, EventIs
  <2>2. ASSUME NEW i \in 1..Len(queue') PROVE queue'[i].life = life' /\ queue'[i].q <= seq'
    BY <1>1, <1>3, <1>5, <2>1, <2>2 DEF LineUp
  <2>3. ASSUME NEW i \in 1..Len(queue'), NEW j \in 1..Len(queue'), i < j
        PROVE  queue'[i].q < queue'[j].q
    <3>1. i \in 1..Len(queue) /\ queue'[i] = queue[i] /\ queue[i].q <= seq
      BY <1>1, <1>3, <2>3 DEF LineUp
    <3>2. CASE j <= Len(queue)
      BY <1>1, <1>3, <2>3, <3>1, <3>2 DEF LineUp
    <3>3. CASE ~(j <= Len(queue))
      BY <1>1, <1>3, <1>5, <2>1, <3>1, <3>3
    <3> QED
      BY <3>2, <3>3
  <2> QED
    BY <2>2, <2>3 DEF LineUp
<1>9. ASSUME NEW n \in Nat, Waits(n) PROVE Waits(n)'
  BY <1>1, <1>3, <1>5, <1>9 DEF Waits
<1>10. Past'
  <2>1. \A i \in 1..Len(buf) : buf[i].q \in Nat
    BY Sequences, EventIs
  <2>2. \A f \in DOMAIN disk : \A i \in 1..Len(disk[f].lines) : disk[f].lines[i].q \in Nat
    BY Sequences, EventIs
  <2>3. \A d \in dropped' : d.life <= life /\ (d.life = life => d.q <= seq + 1)
    BY <1>1, <1>4 DEF Past, TypeOK, Numbers
  <2> QED
    BY <1>1, <1>9, <2>1, <2>2, <2>3 DEF Past
<1>11. Listed'
  <2>1. \A m \in manifest : m.last \in Nat /\ m.file.q \in Nat
    BY <1>1 DEF TypeOK, Numbers, Name
  <2>2. ASSUME NEW m \in manifest PROVE m.last <= seq /\ m.last <= seq'
    BY <1>1, <2>1 DEF Listed
  <2>3. ASSUME NEW m \in manifest, NEW j \in 1..Len(queue') PROVE m.last < queue'[j].q
    <3>1. CASE j <= Len(queue)
      BY <1>1, <1>3, <3>1 DEF Listed
    <3>2. CASE ~(j <= Len(queue))
      BY <1>1, <1>3, <1>5, <2>1, <2>2, <3>2
    <3> QED
      BY <3>1, <3>2
  <2> QED
    BY <2>2, <2>3 DEF Listed
<1>12. Counted'
  <2>1. ASSUME NEW n PROVE InRecord(n) \/ InDropped(n) => n # seq + 1 /\ n \in Nat
    BY <1>1, SeqIsLast
  <2>2. CASE queue' = Append(queue, new) /\ dropped' = dropped
    <3>1. \A n : InRecord(n)' <=> InRecord(n) \/ n = seq + 1
      <4>1. Len(queue') = Len(queue) + 1
        BY <1>1, <1>2, <2>2
      <4> QED
        BY SMTT(30), <1>1, <1>3, <1>5, <4>1 DEF InRecord, Has
    <3>2. \A n : InDropped(n)' <=> InDropped(n)
      BY <2>2 DEF InDropped
    <3> QED
      BY <1>1, <2>1, <3>1, <3>2 DEF Counted, Numbers
  <2>3. CASE queue' = queue /\ dropped' = dropped \cup {[q |-> seq + 1, life |-> life]}
    <3>1. \A n : InRecord(n)' <=> InRecord(n)
      BY <2>3 DEF InRecord
    <3>2. ASSUME NEW n PROVE InDropped(n)' <=> InDropped(n) \/ n = seq + 1
      <4>1. \A d : d \in dropped' <=> d \in dropped \/ d = [q |-> seq + 1, life |-> life]
        BY <2>3
      <4>2. \A d \in {[q |-> seq + 1, life |-> life]} : d.q = seq + 1 /\ d.life = life
        OBVIOUS
      <4>3. InDropped(n)' <=> \E d \in dropped' : d.q = n /\ d.life = life
        BY DEF InDropped
      <4> QED
        BY <4>1, <4>2, <4>3 DEF InDropped
    <3> QED
      BY <1>1, <2>1, <3>1, <3>2 DEF Counted, Numbers
  <2> QED
    BY <2>2, <2>3 DEF Emit, new
<1>13. ManifestTrue'
  BY DEF ManifestTrue
<1> QED
  BY <1>6, <1>7, <1>8, <1>10, <1>11, <1>12, <1>13

LEMMA StartSeqIsLast ==
  ASSUME TypeOK, Listed
  PROVE  /\ StartSeq \in SeqStart..MaxSeq
         /\ StartSeq = SeqStart \/ \E m \in manifest : StartSeq = m.last
         /\ \A m \in manifest : m.last <= StartSeq
<1> DEFINE S == {SeqStart} \cup {m.last : m \in manifest}
           P(n) == \A m \in manifest : n >= m.last /\ n >= SeqStart
<1>1. /\ SeqStart \in Nat /\ MaxSeq \in SeqStart..99
      /\ \A m \in manifest : m.last \in 1..MaxSeq
  BY RecAssumption DEF TypeOK, Numbers
<1>2. \E n \in S : P(n)
  BY DEF Listed
<1>3. StartSeq = CHOOSE n \in S : P(n)
  BY DEF StartSeq
<1>4. StartSeq \in S /\ P(StartSeq)
  BY <1>2, <1>3
<1>5. CASE manifest = {}
  BY <1>1, <1>4, <1>5
<1>6. CASE manifest # {}
  BY <1>1, <1>4, <1>6
<1> QED
  BY <1>4, <1>5, <1>6

(* A new life: nothing of it is recorded yet but its first event. *)
LEMMA BootKeeps == RecInv /\ Boot => RecInv'
<1> SUFFICES ASSUME RecInv, Boot PROVE RecInv'
  OBVIOUS
<1> DEFINE first == [q |-> StartSeq + 1, r |-> now, life |-> life + 1]
<1> USE DEF RecInv, Layout
<1>1. /\ queue' = <<first>> /\ buf' = << >> /\ cur' = NoFile /\ life' = life + 1
      /\ seq' = StartSeq + 1 /\ StartSeq < MaxSeq
      /\ UNCHANGED <<now, dropped, disk, manifest, crashes>> /\ proc' = "up" /\ writer' = TRUE
      /\ life \in Nat /\ life + 1 \in 1..MaxLives
  BY RecAssumption DEF Boot, TypeOK
<1>2. /\ StartSeq \in SeqStart..MaxSeq /\ \A m \in manifest : m.last <= StartSeq
      /\ StartSeq \in Nat /\ StartSeq + 1 \in Numbers /\ StartSeq + 1 \in SeqStart..MaxSeq
      /\ \A m \in manifest : m.last \in Nat
  <2>1. StartSeq \in SeqStart..MaxSeq /\ \A m \in manifest : m.last <= StartSeq
    BY StartSeqIsLast
  <2>2. \A m \in manifest : m.last \in Nat
    BY DEF TypeOK, Numbers
  <2> QED
    BY <1>1, <2>1, <2>2, RecAssumption DEF Numbers
<1>3. first \in Event /\ first.q = StartSeq + 1 /\ first.life = life + 1
  BY <1>1, <1>2 DEF TypeOK, Event
<1> HIDE DEF first
<1>13. /\ queue' \in Seq(Event) /\ Len(queue') = 1 /\ queue'[1] = first
       /\ buf' \in Seq(Event) /\ Len(buf') = 0
  BY <1>1, <1>3
<1>4. \A f \in DOMAIN disk : \A i \in 1..Len(disk[f].lines) :
        disk[f].lines[i].life <= life /\ disk[f].lines[i].life \in Nat
  BY Sequences, EventIs DEF Past
<1>5. \A d \in dropped : d.life <= life /\ d.life \in Nat
  BY RecAssumption DEF Past, TypeOK
<1>6. TypeOK'
  BY <1>1, <1>2, <1>13, RecAssumption DEF TypeOK
<1>7. Idle' /\ OpenFile' /\ LineUp'
  <2>1. \A i \in 1..Len(queue') : i = 1
    BY <1>13
  <2> QED
    BY <1>1, <1>2, <1>3, <1>13, <2>1 DEF Idle, OpenFile, LineUp
<1>8. Past'
  BY <1>1, <1>13, <1>4, <1>5 DEF Past
<1>9. Listed'
  <2>1. \A m \in manifest : m.last <= StartSeq + 1 /\ m.last < StartSeq + 1
    BY <1>2
  <2>2. \A i \in 1..Len(queue') : queue'[i].q = StartSeq + 1
    BY <1>3, <1>13
  <2>3. /\ \A m \in manifest : m.file.q <= m.last
        /\ \E n \in {SeqStart} \cup {m.last : m \in manifest} :
              \A m \in manifest : n >= m.last /\ n >= SeqStart
    BY DEF Listed
  <2> QED
    BY <1>1, <2>1, <2>2, <2>3 DEF Listed
<1>10. \A n : (InRecord(n)' <=> n = StartSeq + 1) /\ ~InDropped(n)'
  <2>1. \A f \in DOMAIN disk : \A i \in 1..Len(disk[f].lines) : disk[f].lines[i].life # life + 1
    BY <1>1, <1>4
  <2>2. \A d \in dropped : d.life # life + 1
    BY <1>1, <1>5
  <2>3. \A n : Has(queue', n, life + 1) <=> n = StartSeq + 1
    BY <1>3, <1>13 DEF Has
  <2> QED
    BY <1>1, <1>13, <2>1, <2>2, <2>3 DEF InRecord, InDropped, Has
<1>11. Counted'
  BY <1>1, <1>2, <1>10 DEF Counted
<1>12. ManifestTrue'
  BY <1>1 DEF ManifestTrue
<1> QED
  BY <1>6, <1>7, <1>8, <1>9, <1>11, <1>12

LEMMA ExitKeeps == RecInv /\ Exit => RecInv'
<1> SUFFICES ASSUME RecInv, Exit PROVE RecInv'
  OBVIOUS
<1> USE DEF RecInv, Layout, Exit
<1>1. TypeOK'
  BY DEF TypeOK
<1>2. Idle' /\ OpenFile' /\ LineUp'
  BY DEF Idle, OpenFile, LineUp
<1>3. Past'
  BY DEF Past, Waits
<1>4. Listed' /\ Counted' /\ ManifestTrue'
  BY DEF Listed, Counted, ManifestTrue
<1> QED
  BY <1>1, <1>2, <1>3, <1>4

LEMMA HourKeeps == RecInv /\ Hour => RecInv'
<1> SUFFICES ASSUME RecInv, Hour PROVE RecInv'
  OBVIOUS
<1> USE DEF RecInv, Layout
<1>1. TypeOK'
  BY RecAssumption DEF TypeOK, Hour
<1>2. UNCHANGED <<proc, life, seq, queue, dropped, writer, cur, buf, disk, manifest, crashes>>
  BY DEF Hour
<1>3. Idle' /\ OpenFile' /\ LineUp'
  BY <1>2 DEF Idle, OpenFile, LineUp
<1>4. Past'
  BY <1>2 DEF Past, Waits
<1>5. Listed' /\ ManifestTrue'
  BY <1>2 DEF Listed, ManifestTrue
<1>6. Counted'
  <2>1. \A n : (InRecord(n)' <=> InRecord(n)) /\ (InDropped(n)' <=> InDropped(n))
    BY <1>2 DEF InRecord, InDropped, Has
  <2> QED
    BY <1>2, <2>1 DEF Counted
<1> QED
  BY <1>1, <1>3, <1>4, <1>5, <1>6

LEMMA PutIs ==
  ASSUME NEW d, NEW f, NEW x
  PROVE  /\ DOMAIN Put(d, f, x) = DOMAIN d \cup {f}
         /\ \A g \in DOMAIN d \cup {f} : Put(d, f, x)[g] = IF g = f THEN x ELSE d[g]
BY DEF Put

LEMMA ConcatIs ==
  ASSUME NEW S, NEW s \in Seq(S), NEW t \in Seq(S)
  PROVE  /\ s \o t \in Seq(S) /\ Len(s \o t) = Len(s) + Len(t)
         /\ \A i \in 1..Len(s) : (s \o t)[i] = s[i]
         /\ \A i \in 1..Len(t) : (s \o t)[Len(s) + i] = t[i]
         /\ \A i \in 1..Len(s \o t) : (\E j \in 1..Len(s) : (s \o t)[i] = s[j])
                                      \/ (\E j \in 1..Len(t) : (s \o t)[i] = t[j])
<1>1. Len(s) \in Nat /\ Len(t) \in Nat
  OBVIOUS
<1>2. /\ s \o t \in Seq(S) /\ Len(s \o t) = Len(s) + Len(t)
      /\ \A i \in 1..(Len(s) + Len(t)) :
            (s \o t)[i] = IF i <= Len(s) THEN s[i] ELSE t[i - Len(s)]
  BY ConcatProperties
<1>3. \A i \in 1..Len(s) : (s \o t)[i] = s[i]
  BY <1>1, <1>2
<1>4. ASSUME NEW i \in 1..Len(t) PROVE (s \o t)[Len(s) + i] = t[i]
  <2>1. Len(s) + i \in 1..(Len(s) + Len(t)) /\ ~(Len(s) + i <= Len(s)) /\ (Len(s) + i) - Len(s) = i
    BY <1>1
  <2> QED
    BY <1>2, <2>1
<1>5. ASSUME NEW i \in 1..Len(s \o t)
      PROVE  (\E j \in 1..Len(s) : (s \o t)[i] = s[j]) \/ (\E j \in 1..Len(t) : (s \o t)[i] = t[j])
  <2>1. CASE i <= Len(s)
    BY <1>1, <1>2, <2>1
  <2>2. CASE ~(i <= Len(s))
    <3>1. i - Len(s) \in 1..Len(t) /\ i \in 1..(Len(s) + Len(t))
      BY <1>1, <1>2, <2>2
    <3> QED
      BY <1>2, <2>2, <3>1
  <2> QED
    BY <2>1, <2>2
<1> QED
  BY <1>2, <1>3, <1>4, <1>5

LEMMA HasConcat ==
  ASSUME NEW s \in Seq(Event), NEW t \in Seq(Event), NEW n, NEW l
  PROVE  Has(s \o t, n, l) <=> Has(s, n, l) \/ Has(t, n, l)
<1>1. Len(s) \in Nat /\ Len(t) \in Nat /\ Len(s \o t) = Len(s) + Len(t)
  BY ConcatIs
<1>2. Has(s \o t, n, l) => Has(s, n, l) \/ Has(t, n, l)
  BY ConcatIs DEF Has
<1>3. Has(s, n, l) => Has(s \o t, n, l)
  <2>1. \A i \in 1..Len(s) : i \in 1..Len(s \o t) /\ (s \o t)[i] = s[i]
    BY <1>1, ConcatIs
  <2> QED
    BY <2>1 DEF Has
<1>4. Has(t, n, l) => Has(s \o t, n, l)
  <2>1. \A i \in 1..Len(t) : Len(s) + i \in 1..Len(s \o t) /\ (s \o t)[Len(s) + i] = t[i]
    BY <1>1, ConcatIs
  <2> QED
    BY <2>1 DEF Has
<1> QED
  BY <1>2, <1>3, <1>4

(* What the open file is when everything is flushed to it. *)
LEMMA FlushedIs ==
  ASSUME RecInv, cur # NoFile
  PROVE  /\ cur \in Name /\ cur \in DOMAIN disk /\ life \in 1..MaxLives
         /\ Flushed \in Seq(Event) /\ Len(Flushed) \in Nat \ {0}
         /\ \A n, l : Has(Flushed, n, l) <=> Has(disk[cur].lines, n, l) \/ Has(buf, n, l)
         /\ \A i \in 1..Len(Flushed) :
               /\ Flushed[i].life = life /\ Flushed[i].q \in Numbers /\ Flushed[i].q \in Nat
               /\ cur.q <= Flushed[i].q /\ Waits(Flushed[i].q)
         /\ \A m \in manifest : m.file # cur
<1> USE DEF RecInv, Layout
<1>1. /\ cur \in Name /\ cur \in DOMAIN disk /\ disk[cur].lines \in Seq(Event) /\ buf \in Seq(Event)
      /\ (disk[cur].lines # << >> \/ buf # << >>)
  BY Sequences DEF OpenFile
<1>2. proc # "off"
  BY DEF Idle
<1>3. Len(disk[cur].lines) \in Nat /\ Len(buf) \in Nat
      /\ Len(Flushed) = Len(disk[cur].lines) + Len(buf) /\ Flushed \in Seq(Event)
  BY <1>1, ConcatIs DEF Flushed
<1>4. Len(disk[cur].lines) # 0 \/ Len(buf) # 0
  BY <1>1, EmptySeq
<1>5. Len(Flushed) \in Nat \ {0}
  BY <1>3, <1>4
<1>6. \A n, l : Has(Flushed, n, l) <=> Has(disk[cur].lines, n, l) \/ Has(buf, n, l)
  BY <1>1, HasConcat DEF Flushed
<1>7. ASSUME NEW i \in 1..Len(Flushed)
      PROVE  /\ Flushed[i].life = life /\ Flushed[i].q \in Numbers /\ Flushed[i].q \in Nat
             /\ cur.q <= Flushed[i].q /\ Waits(Flushed[i].q)
  <2>1. Flushed[i].q \in Numbers /\ Flushed[i].q \in Nat
    BY <1>3, EventIs
  <2>2. CASE \E j \in 1..Len(disk[cur].lines) : Flushed[i] = disk[cur].lines[j]
    BY <1>1, <2>1, <2>2 DEF OpenFile, Past
  <2>3. CASE \E j \in 1..Len(buf) : Flushed[i] = buf[j]
    BY <1>1, <2>1, <2>3 DEF OpenFile, Past
  <2> QED
    BY <1>1, <2>2, <2>3, ConcatIs DEF Flushed
<1>8. \A m \in manifest : m.file # cur
  <2>1. \A m \in manifest : m.file.q \in Nat /\ m.last \in Nat /\ cur.q \in Nat
    BY SMTT(30), <1>1 DEF TypeOK, Name, Numbers
  <2> QED
    BY <2>1 DEF Listed
<1> QED
  BY <1>1, <1>2, <1>3, <1>5, <1>6, <1>7, <1>8 DEF Idle

LEMMA FlushKeeps == RecInv /\ Flush => RecInv'
<1> SUFFICES ASSUME RecInv, Flush PROVE RecInv'
  OBVIOUS
<1>1. /\ cur # NoFile /\ buf' = << >>
      /\ disk' = Put(disk, cur, [disk[cur] EXCEPT !.lines = Flushed])
      /\ UNCHANGED <<proc, life, seq, now, queue, dropped, writer, cur, manifest, crashes>>
  BY DEF Flush
<1>2. /\ cur \in Name /\ cur \in DOMAIN disk /\ Flushed \in Seq(Event) /\ Len(Flushed) \in Nat \ {0}
      /\ \A n, l : Has(Flushed, n, l) <=> Has(disk[cur].lines, n, l) \/ Has(buf, n, l)
      /\ \A i \in 1..Len(Flushed) :
            Flushed[i].life = life /\ cur.q <= Flushed[i].q /\ Waits(Flushed[i].q)
      /\ \A m \in manifest : m.file # cur
  BY <1>1, FlushedIs
<1> HIDE DEF Flushed
<1> DEFINE new == [disk[cur] EXCEPT !.lines = Flushed]
<1>3. disk[cur] \in [life : 1..MaxLives, lines : Seq(Event), whole : BOOLEAN]
  BY <1>2 DEF RecInv, TypeOK
<1>4. new \in [life : 1..MaxLives, lines : Seq(Event), whole : BOOLEAN] /\ new.lines = Flushed
  BY <1>2, <1>3
<1>4a. disk' = Put(disk, cur, new)
  BY <1>1
<1> HIDE DEF new
<1>5. DOMAIN disk' = DOMAIN disk /\ \A f \in DOMAIN disk : disk'[f] = IF f = cur THEN new ELSE disk[f]
  <2>1. DOMAIN disk \cup {cur} = DOMAIN disk
    BY <1>2
  <2> QED
    BY <1>4a, <2>1 DEF Put
<1>6. disk'[cur].lines = Flushed /\ \A f \in DOMAIN disk : f # cur => disk'[f] = disk[f]
  BY <1>2, <1>4, <1>5
<1> USE DEF RecInv, Layout
<1>7. TypeOK'
  <2>1. buf' \in Seq(Event)
    BY <1>1
  <2> QED
    BY <1>1, <1>4, <1>5, <2>1 DEF TypeOK
<1>8. Idle' /\ LineUp'
  BY <1>1 DEF Idle, LineUp
<1>9. OpenFile'
  <2>1. Flushed # << >> /\ Len(buf') = 0
    BY <1>1, <1>2
  <2> QED
    BY SMTT(30), <1>1, <1>2, <1>5, <1>6, <2>1 DEF OpenFile
<1>10. \A n : Waits(n)' <=> Waits(n)
  BY <1>1 DEF Waits
<1>11. Past'
  <2>1. Len(buf') = 0
    BY <1>1
  <2>2. ASSUME NEW f \in DOMAIN disk, NEW i \in 1..Len(disk'[f].lines)
        PROVE  /\ disk'[f].lines[i].life <= life
               /\ disk'[f].lines[i].life = life =>
                    f.q <= disk'[f].lines[i].q /\ Waits(disk'[f].lines[i].q)
    <3>1. CASE f = cur
      BY <1>2, <1>6, <2>2, <3>1, Sequences
    <3>2. CASE f # cur
      BY <1>6, <2>2, <3>2 DEF Past
    <3> QED
      BY <3>1, <3>2
  <2>3. \A d \in dropped : d.life <= life /\ (d.life = life => d.q <= seq)
    BY DEF Past
  <2> QED
    BY <1>1, <1>5, <1>10, <2>1, <2>2, <2>3 DEF Past
<1>12. Listed'
  BY <1>1 DEF Listed
<1>13. Counted'
  <2>1. Len(buf') = 0
    BY <1>1
  <2>2. \A n : (\E f \in DOMAIN disk' : Has(disk'[f].lines, n, life))
               <=> Has(buf, n, life) \/ \E f \in DOMAIN disk : Has(disk[f].lines, n, life)
    BY <1>2, <1>5, <1>6
  <2>3. \A n : ~Has(buf', n, life)
    BY <2>1 DEF Has
  <2>4. \A n : InRecord(n)' <=> InRecord(n)
    BY <1>1, <2>2, <2>3 DEF InRecord
  <2>5. \A n : InDropped(n)' <=> InDropped(n)
    BY <1>1 DEF InDropped
  <2> QED
    BY <1>1, <2>4, <2>5 DEF Counted
<1>14. ManifestTrue'
  BY <1>1, <1>2, <1>5, <1>6 DEF ManifestTrue
<1> QED
  BY <1>7, <1>8, <1>9, <1>11, <1>12, <1>13, <1>14

(* The files and the manifest when the open file has been closed. *)
FileType == [life : 1..MaxLives, lines : Seq(Event), whole : BOOLEAN]
LineType == [file : Name, last : Numbers, sha : Seq(Event)]

LEMMA ClosedIs ==
  ASSUME RecInv
  PROVE  /\ DOMAIN ClosedDisk = DOMAIN disk
         /\ \A f \in DOMAIN disk : ClosedDisk[f] \in FileType
         /\ \A f \in DOMAIN disk : \A i \in 1..Len(ClosedDisk[f].lines) :
               /\ ClosedDisk[f].lines[i].life <= life
               /\ ClosedDisk[f].lines[i].life = life =>
                    f.q <= ClosedDisk[f].lines[i].q /\ Waits(ClosedDisk[f].lines[i].q)
         /\ \A n : (\E f \in DOMAIN disk : Has(ClosedDisk[f].lines, n, life))
                   <=> Has(buf, n, life) \/ \E f \in DOMAIN disk : Has(disk[f].lines, n, life)
         /\ ClosedManifest \subseteq LineType
         /\ \A m \in ClosedManifest :
               /\ m.file \in DOMAIN disk
               /\ ClosedDisk[m.file].lines = m.sha /\ ClosedDisk[m.file].whole
               /\ m.file.q <= m.last /\ (proc # "off" => m.last <= seq)
               /\ \A j \in 1..Len(queue) : m.last < queue[j].q
         /\ \E n \in {SeqStart} \cup {m.last : m \in ClosedManifest} :
               \A m \in ClosedManifest : n >= m.last /\ n >= SeqStart
<1> USE DEF RecInv, Layout
<1>1. /\ \A f \in DOMAIN disk : disk[f] \in FileType /\ f \in Name
      /\ manifest \subseteq LineType /\ life \in Nat
  BY Sequences DEF TypeOK, FileType, LineType
<1>2. CASE cur = NoFile
  <2>1. ClosedDisk = disk /\ ClosedManifest = manifest /\ Len(buf) = 0
    BY <1>2 DEF ClosedDisk, ClosedManifest, OpenFile
  <2>2. \A n : ~Has(buf, n, life)
    BY <2>1 DEF Has
  <2> QED
    BY <1>1, <2>1, <2>2 DEF Past, Listed, ManifestTrue
<1>3. CASE cur # NoFile
  <2> DEFINE file == [life |-> life, lines |-> Flushed, whole |-> TRUE]
             line == [file |-> cur, last |-> Last(Flushed).q, sha |-> Flushed]
  <2>1. /\ cur \in Name /\ cur \in DOMAIN disk /\ life \in 1..MaxLives
        /\ Flushed \in Seq(Event) /\ Len(Flushed) \in Nat \ {0}
        /\ \A n, l : Has(Flushed, n, l) <=> Has(disk[cur].lines, n, l) \/ Has(buf, n, l)
        /\ \A i \in 1..Len(Flushed) :
              /\ Flushed[i].life = life /\ Flushed[i].q \in Numbers /\ Flushed[i].q \in Nat
              /\ cur.q <= Flushed[i].q /\ Waits(Flushed[i].q)
        /\ \A m \in manifest : m.file # cur
    BY <1>3, FlushedIs
  <2>2. ClosedDisk = Put(disk, cur, file) /\ ClosedManifest = manifest \cup {line}
    BY <1>3 DEF ClosedDisk, ClosedManifest
  <2>3. /\ Last(Flushed).q \in Numbers /\ Last(Flushed).q \in Nat
        /\ cur.q <= Last(Flushed).q /\ Waits(Last(Flushed).q)
    BY <2>1 DEF Last
  <2> HIDE DEF Flushed
  <2>4. file \in FileType /\ file.lines = Flushed /\ file.whole
    BY <2>1 DEF FileType
  <2>5. line \in LineType /\ line.file = cur /\ line.last = Last(Flushed).q /\ line.sha = Flushed
    BY <2>1, <2>3 DEF LineType
  <2> HIDE DEF file, line
  <2>6. DOMAIN ClosedDisk = DOMAIN disk
        /\ \A f \in DOMAIN disk : ClosedDisk[f] = IF f = cur THEN file ELSE disk[f]
    <3>1. DOMAIN disk \cup {cur} = DOMAIN disk
      BY <2>1
    <3> QED
      BY <2>2, <3>1 DEF Put
  <2>7. ClosedDisk[cur] = file /\ \A f \in DOMAIN disk : f # cur => ClosedDisk[f] = disk[f]
    BY <2>1, <2>6
  <2>8. \A f \in DOMAIN disk : ClosedDisk[f] \in FileType
    BY <1>1, <2>4, <2>6
  <2>9. ASSUME NEW f \in DOMAIN disk, NEW i \in 1..Len(ClosedDisk[f].lines)
        PROVE  /\ ClosedDisk[f].lines[i].life <= life
               /\ ClosedDisk[f].lines[i].life = life =>
                    f.q <= ClosedDisk[f].lines[i].q /\ Waits(ClosedDisk[f].lines[i].q)
    <3>1. CASE f = cur
      BY <1>1, <2>1, <2>4, <2>7, <2>9, <3>1
    <3>2. CASE f # cur
      BY <2>7, <2>9, <3>2 DEF Past
    <3> QED
      BY <3>1, <3>2
  <2>10. \A n : (\E f \in DOMAIN disk : Has(ClosedDisk[f].lines, n, life))
                <=> Has(buf, n, life) \/ \E f \in DOMAIN disk : Has(disk[f].lines, n, life)
    BY <2>1, <2>4, <2>7
  <2>11. ClosedManifest \subseteq LineType
    BY <1>1, <2>2, <2>5
  <2>12. ASSUME NEW m \in ClosedManifest
         PROVE  /\ m.file \in DOMAIN disk
                /\ ClosedDisk[m.file].lines = m.sha /\ ClosedDisk[m.file].whole
                /\ m.file.q <= m.last /\ (proc # "off" => m.last <= seq)
                /\ \A j \in 1..Len(queue) : m.last < queue[j].q
    <3>1. CASE m \in manifest
      BY <2>1, <2>7, <3>1 DEF ManifestTrue, Listed
    <3>2. CASE m = line
      BY <2>1, <2>3, <2>4, <2>5, <2>7, <3>2 DEF Waits
    <3> QED
      BY <2>2, <3>1, <3>2
  <2>13. \E n \in {SeqStart} \cup {m.last : m \in ClosedManifest} :
           \A m \in ClosedManifest : n >= m.last /\ n >= SeqStart
    <3>1. PICK n \in {SeqStart} \cup {m.last : m \in manifest} :
            \A m \in manifest : n >= m.last /\ n >= SeqStart
      BY DEF Listed
    <3>2. n \in Nat /\ SeqStart \in Nat /\ \A m \in manifest : m.last \in Nat
      BY <1>1, <3>1, Sequences DEF LineType, Numbers
    <3>3. \A m \in ClosedManifest : m \in manifest \/ m.last = line.last
      BY <2>2
    <3>4. line \in ClosedManifest /\ manifest \subseteq ClosedManifest /\ line.last \in Nat
      BY <2>2, <2>3, <2>5
    <3>5. n >= SeqStart
      BY <3>1, <3>2
    <3>6. CASE n >= line.last
      BY <3>1, <3>2, <3>3, <3>4, <3>5, <3>6
    <3>7. CASE ~(n >= line.last)
      <4>1. \A m \in ClosedManifest : line.last >= m.last /\ line.last >= SeqStart
        BY <3>1, <3>2, <3>3, <3>4, <3>5, <3>7
      <4> QED
        BY <3>4, <4>1
    <3> QED
      BY <3>6, <3>7
  <2> QED
    BY <2>6, <2>8, <2>9, <2>10, <2>11, <2>12, <2>13
<1> QED
  BY <1>2, <1>3

(* What is left when that has gone only so far: the file is complete, and  *)
(* its line may be missing.                                                *)
LEMMA PartlyIs ==
  ASSUME RecInv, PartlyClosed
  PROVE  /\ writer /\ cur # NoFile /\ disk' = ClosedDisk
         /\ manifest' = manifest \/ manifest' = ClosedManifest
         /\ manifest' \subseteq LineType
         /\ \A m \in manifest' :
               /\ m.file \in DOMAIN disk
               /\ ClosedDisk[m.file].lines = m.sha /\ ClosedDisk[m.file].whole
               /\ m.file.q <= m.last /\ (proc # "off" => m.last <= seq)
               /\ \A j \in 1..Len(queue) : m.last < queue[j].q
         /\ \E n \in {SeqStart} \cup {m.last : m \in manifest'} :
               \A m \in manifest' : n >= m.last /\ n >= SeqStart
<1>1. writer /\ cur # NoFile /\ disk' = ClosedDisk /\ manifest' \in {manifest, ClosedManifest}
  BY DEF PartlyClosed, Closing
<1>2. manifest \subseteq ClosedManifest
  BY DEF ClosedManifest
<1>3. manifest' \subseteq ClosedManifest
  BY <1>1, <1>2
<1>4. \E n \in {SeqStart} \cup {m.last : m \in manifest'} :
        \A m \in manifest' : n >= m.last /\ n >= SeqStart
  <2>1. CASE manifest' = manifest
    BY <2>1 DEF RecInv, Layout, Listed
  <2>2. CASE manifest' = ClosedManifest
    BY <2>2, ClosedIs
  <2> QED
    BY <1>1, <2>1, <2>2
<1> QED
  BY <1>1, <1>3, <1>4, ClosedIs

LEMMA CloseKeeps == RecInv /\ Close => RecInv'
<1> SUFFICES ASSUME RecInv, Close PROVE RecInv'
  OBVIOUS
<1>1. /\ queue = << >> /\ disk' = ClosedDisk /\ manifest' = ClosedManifest /\ proc = "closing"
      /\ proc' = "stored" /\ writer' = FALSE /\ cur' = NoFile /\ buf' = << >>
      /\ UNCHANGED <<life, seq, now, queue, dropped, crashes>>
  BY DEF Close
<1>2. /\ Len(queue) = 0 /\ buf' \in Seq(Event) /\ Len(buf') = 0
  BY <1>1
<1> USE DEF RecInv, Layout
<1>3. TypeOK'
  BY <1>1, <1>2, ClosedIs DEF TypeOK, FileType, LineType
<1>4. Idle' /\ OpenFile' /\ LineUp' /\ Counted'
  BY <1>1, <1>2 DEF Idle, OpenFile, LineUp, Counted
<1>5. \A n : Waits(n)' <=> Waits(n)
  BY <1>1 DEF Waits
<1>6. Past'
  <2>1. \A d \in dropped : d.life <= life /\ (d.life = life => d.q <= seq)
    BY DEF Past
  <2> QED
    BY <1>1, <1>2, <1>5, <2>1, ClosedIs DEF Past
<1>7. Listed'
  BY <1>1, ClosedIs DEF Listed
<1>8. ManifestTrue'
  BY <1>1, ClosedIs DEF ManifestTrue
<1> QED
  BY <1>3, <1>4, <1>6, <1>7, <1>8

(* The writer dies with the event it was writing, while it closes a file   *)
(* or not.                                                                 *)
LEMMA WriterDiesKeeps == RecInv /\ WriterDies => RecInv'
<1> SUFFICES ASSUME RecInv, WriterDies PROVE RecInv'
  OBVIOUS
<1> USE DEF RecInv, Layout
<1>1. /\ queue' = Tail(queue) /\ queue # << >> /\ writer' = FALSE
      /\ UNCHANGED <<proc, life, seq, now, dropped, crashes>>
  BY DEF WriterDies
<1>2. /\ queue' \in Seq(Event) /\ Len(queue') = Len(queue) - 1
      /\ \A i \in 1..Len(queue') : queue'[i] = queue[i + 1] /\ i + 1 \in 1..Len(queue)
  BY <1>1, Sequences
<1>3. Len(queue') <= QueueMax
  <2>1. Len(queue) \in Nat /\ QueueMax \in Nat
    BY Sequences, RecAssumption
  <2>2. Len(queue) <= QueueMax
    BY DEF TypeOK
  <2> QED
    BY <1>2, <2>1, <2>2
<1>4. LineUp'
  BY <1>1, <1>2 DEF LineUp
<1>5. \A n : Waits(n) => Waits(n)'
  BY <1>1, <1>2 DEF Waits
<1>6. Counted'
  BY <1>1 DEF Counted
<1>7. CASE UNCHANGED <<cur, buf, disk, manifest>>
  <2>1. TypeOK'
    BY <1>1, <1>2, <1>3, <1>7 DEF TypeOK
  <2>2. Idle' /\ OpenFile'
    BY <1>1, <1>7 DEF Idle, OpenFile
  <2>3. Past'
    BY <1>1, <1>5, <1>7 DEF Past
  <2>4. Listed'
    BY <1>1, <1>2, <1>7 DEF Listed
  <2>5. ManifestTrue'
    BY <1>7 DEF ManifestTrue
  <2> QED
    BY <1>4, <1>6, <2>1, <2>2, <2>3, <2>4, <2>5
<1>8. CASE PartlyClosed /\ cur' = NoFile /\ buf' = << >>
  <2>1. buf' \in Seq(Event) /\ Len(buf') = 0
    BY <1>8
  <2>2. TypeOK'
    BY <1>1, <1>2, <1>3, <1>8, <2>1, PartlyIs, ClosedIs DEF TypeOK, FileType, LineType
  <2>3. Idle' /\ OpenFile'
    BY <1>1, <1>8 DEF Idle, OpenFile
  <2>4. Past'
    <3>1. \A d \in dropped : d.life <= life /\ (d.life = life => d.q <= seq)
      BY DEF Past
    <3> QED
      BY <1>1, <1>5, <1>8, <2>1, <3>1, PartlyIs, ClosedIs DEF Past
  <2>5. Listed'
    BY <1>1, <1>2, <1>8, PartlyIs DEF Listed
  <2>6. ManifestTrue'
    BY <1>8, PartlyIs, ClosedIs DEF ManifestTrue
  <2> QED
    BY <1>4, <1>6, <2>2, <2>3, <2>4, <2>5, <2>6
<1> QED
  BY <1>7, <1>8 DEF WriterDies

(* Nothing of this life waits any more; what is on disk of the open file   *)
(* is the beginning of what was written, and no line of the manifest is    *)
(* about it; or it is all of it.                                           *)
LEMMA CrashKeeps == RecInv /\ Crash => RecInv'
<1> SUFFICES ASSUME RecInv, Crash PROVE RecInv'
  OBVIOUS
<1>1. /\ proc' = "off" /\ queue' = << >> /\ writer' = FALSE /\ cur' = NoFile /\ buf' = << >>
      /\ crashes < MaxCrashes /\ crashes' = crashes + 1
      /\ UNCHANGED <<life, seq, now, dropped>>
  BY DEF Crash
<1>2. /\ queue' \in Seq(Event) /\ Len(queue') = 0 /\ buf' \in Seq(Event) /\ Len(buf') = 0
  BY <1>1
<1>3. /\ DOMAIN disk' = DOMAIN disk
      /\ \A f \in DOMAIN disk :
           /\ disk'[f] \in [life : 1..MaxLives, lines : Seq(Event), whole : BOOLEAN]
           /\ \A i \in 1..Len(disk'[f].lines) :
                /\ disk'[f].lines[i].life <= life
                /\ disk'[f].lines[i].life = life =>
                     f.q <= disk'[f].lines[i].q /\ disk'[f].lines[i].q <= seq
      /\ manifest' \subseteq LineType
      /\ \A m \in manifest' :
           /\ m.file \in DOMAIN disk /\ m.file.q <= m.last
           /\ disk'[m.file].lines = m.sha /\ disk'[m.file].whole
      /\ \E n \in {SeqStart} \cup {m.last : m \in manifest'} :
           \A m \in manifest' : n >= m.last /\ n >= SeqStart
  <2>1. \A f \in DOMAIN disk :
          /\ disk[f] \in [life : 1..MaxLives, lines : Seq(Event), whole : BOOLEAN]
          /\ \A i \in 1..Len(disk[f].lines) :
               /\ disk[f].lines[i].life <= life
               /\ disk[f].lines[i].life = life => f.q <= disk[f].lines[i].q /\ disk[f].lines[i].q <= seq
    BY DEF RecInv, Layout, TypeOK, Past, Waits
  <2>1a. /\ manifest \subseteq LineType
         /\ \A m \in manifest :
              /\ m.file \in DOMAIN disk /\ m.file.q <= m.last
              /\ disk[m.file].lines = m.sha /\ disk[m.file].whole
         /\ \E n \in {SeqStart} \cup {m.last : m \in manifest} :
              \A m \in manifest : n >= m.last /\ n >= SeqStart
    BY DEF RecInv, Layout, TypeOK, LineType, ManifestTrue, Listed
  <2>2. CASE cur = NoFile /\ UNCHANGED <<disk, manifest>>
    BY <2>1, <2>1a, <2>2
  <2>3. CASE /\ cur # NoFile /\ UNCHANGED manifest
             /\ \E n \in 0..Len(buf) :
                   disk' = Put(disk, cur, [disk[cur] EXCEPT !.lines = @ \o SubSeq(buf, 1, n)])
    <3>1. PICK n \in 0..Len(buf) :
            disk' = Put(disk, cur, [disk[cur] EXCEPT !.lines = @ \o SubSeq(buf, 1, n)])
      BY <2>3
    <3>2. cur \in DOMAIN disk /\ \A m \in manifest : m.file # cur
      BY <2>3, FlushedIs
    <3> DEFINE head == SubSeq(buf, 1, n)
               new == [disk[cur] EXCEPT !.lines = @ \o head]
    <3>3. /\ disk[cur].lines \in Seq(Event) /\ buf \in Seq(Event) /\ Len(buf) \in Nat
          /\ disk[cur] \in [life : 1..MaxLives, lines : Seq(Event), whole : BOOLEAN]
      BY <2>1, <3>2, Sequences DEF RecInv
    <3>4. head \in Seq(Event) /\ Len(head) = n /\ \A i \in 1..n : head[i] = buf[i] /\ i \in 1..Len(buf)
      BY <3>1, <3>3
    <3> HIDE DEF head
    <3>5. disk[cur].lines \o head \in Seq(Event)
      BY <3>3, <3>4, ConcatIs
    <3>6. new \in [life : 1..MaxLives, lines : Seq(Event), whole : BOOLEAN]
          /\ new.lines = disk[cur].lines \o head
      BY <3>3, <3>5
    <3>6a. disk' = Put(disk, cur, new)
      BY <3>1 DEF head
    <3> HIDE DEF new
    <3>7. ASSUME NEW i \in 1..Len(new.lines)
          PROVE  new.lines[i].life = life /\ cur.q <= new.lines[i].q /\ new.lines[i].q <= seq
      <4>1. (\E j \in 1..Len(disk[cur].lines) : new.lines[i] = disk[cur].lines[j])
            \/ (\E j \in 1..Len(head) : new.lines[i] = head[j])
        <5>1. i \in 1..Len(disk[cur].lines \o head)
          BY <3>6, <3>7
        <5>2. new.lines[i] = (disk[cur].lines \o head)[i]
          BY <3>6
        <5> QED
          BY <3>3, <3>4, <5>1, <5>2, ConcatIs
      <4>2. CASE \E j \in 1..Len(disk[cur].lines) : new.lines[i] = disk[cur].lines[j]
        BY <2>1, <2>3, <3>2, <4>2 DEF RecInv, Layout, OpenFile
      <4>3. CASE \E j \in 1..Len(head) : new.lines[i] = head[j]
        BY <2>3, <3>4, <4>3 DEF RecInv, Layout, OpenFile, Past, Waits
      <4> QED
        BY <4>1, <4>2, <4>3
    <3>8. DOMAIN disk' = DOMAIN disk
          /\ \A f \in DOMAIN disk : disk'[f] = IF f = cur THEN new ELSE disk[f]
      <4>1. DOMAIN disk \cup {cur} = DOMAIN disk
        BY <3>2
      <4> QED
        BY <3>6a, <4>1 DEF Put
    <3>9. life \in Nat
      BY Sequences DEF RecInv
    <3>10. ASSUME NEW f \in DOMAIN disk, f = cur
           PROVE  \A i \in 1..Len(disk'[f].lines) :
                     /\ disk'[f].lines[i].life <= life
                     /\ disk'[f].lines[i].life = life =>
                          f.q <= disk'[f].lines[i].q /\ disk'[f].lines[i].q <= seq
      <4>1. disk'[f] = new
        BY <3>8, <3>10
      <4> QED
        BY <3>7, <3>9, <3>10, <4>1
    <3>11. \A f \in DOMAIN disk : disk'[f] \in FileType
      BY <2>1, <3>6, <3>8 DEF FileType
    <3>12. \A m \in manifest : disk'[m.file] = disk[m.file]
      BY <2>1a, <3>2, <3>8
    <3> QED
      BY <2>1, <2>1a, <2>3, <3>8, <3>10, <3>11, <3>12 DEF FileType
  <2>4. CASE PartlyClosed
    BY <2>4, PartlyIs, ClosedIs DEF Waits, FileType
  <2> QED
    BY <2>2, <2>3, <2>4 DEF Crash
<1> USE DEF RecInv, Layout
<1>4. TypeOK'
  <2>1. crashes' \in 0..MaxCrashes /\ 0 <= QueueMax
    BY <1>1, RecAssumption DEF TypeOK
  <2> QED
    BY <1>1, <1>2, <1>3, <2>1 DEF TypeOK, LineType
<1>5. Idle' /\ OpenFile' /\ LineUp' /\ Counted'
  BY <1>1, <1>2 DEF Idle, OpenFile, LineUp, Counted
<1>6. Past'
  BY <1>1, <1>2, <1>3 DEF Past, Waits
<1>7. Listed'
  BY <1>1, <1>2, <1>3 DEF Listed
<1>8. ManifestTrue'
  BY <1>1, <1>3 DEF ManifestTrue
<1> QED
  BY <1>4, <1>5, <1>6, <1>7, <1>8

(* The writer takes the next event: to the open file, or to a new one, of  *)
(* a name that no event of this life and no line of the manifest is under. *)
LEMMA WriterKeeps == RecInv /\ WriterStep => RecInv'
<1> SUFFICES ASSUME RecInv, WriterStep PROVE RecInv'
  OBVIOUS
<1> DEFINE ev == Head(queue)
           waits(n) == n <= seq /\ \A j \in 1..Len(queue') : n < queue'[j].q
<1>1. /\ queue # << >> /\ writer /\ queue' = Tail(queue) /\ Write(ev)
      /\ UNCHANGED <<proc, life, seq, now, dropped, writer, crashes>>
  BY DEF WriterStep
<1> USE DEF RecInv, Layout
<1>2. queue \in Seq(Event) /\ buf \in Seq(Event) /\ Len(queue) \in Nat /\ Len(buf) \in Nat
      /\ seq \in Nat /\ life \in Nat
  BY Sequences
<1>3. /\ queue' \in Seq(Event) /\ Len(queue') = Len(queue) - 1
      /\ \A i \in 1..Len(queue') : queue'[i] = queue[i + 1] /\ i + 1 \in 1..Len(queue)
      /\ ev = queue[1] /\ 1 \in 1..Len(queue)
  BY <1>1, <1>2
<1>4. ev \in Event /\ ev.q \in Numbers /\ ev.q \in Nat /\ ev.r \in 0..MaxBucket /\ ev.life = life
  <2>1. ev \in Event /\ ev.q \in Numbers /\ ev.q \in Nat
    BY <1>2, <1>3, EventIs
  <2> QED
    BY <1>3, <2>1 DEF Event, LineUp
<1>5. \A i \in 1..Len(queue') : queue'[i].q \in Nat /\ ev.q < queue'[i].q
  <2>1. ASSUME NEW i \in 1..Len(queue') PROVE queue'[i].q \in Nat /\ ev.q < queue'[i].q
    <3>1. queue'[i] = queue[i + 1] /\ i + 1 \in 1..Len(queue) /\ 1 < i + 1
      BY <1>2, <1>3
    <3> QED
      BY <1>2, <1>3, <3>1, EventIs DEF LineUp
  <2> QED
    BY <2>1
<1>6. Len(queue') <= QueueMax
  <2>1. Len(queue) <= QueueMax /\ QueueMax \in Nat
    BY RecAssumption DEF TypeOK
  <2> QED
    BY <1>2, <1>3, <2>1
<1>7. LineUp'
  <2>1. ASSUME NEW i \in 1..Len(queue'), NEW j \in 1..Len(queue'), i < j
        PROVE  queue'[i].q < queue'[j].q
    <3>1. queue'[i] = queue[i + 1] /\ i + 1 \in 1..Len(queue)
      BY <1>3
    <3>2. queue'[j] = queue[j + 1] /\ j + 1 \in 1..Len(queue)
      BY <1>3
    <3> QED
      BY <2>1, <3>1, <3>2 DEF LineUp
  <2> QED
    BY <1>1, <1>3, <2>1 DEF LineUp
<1>8. ASSUME NEW n, Waits(n) PROVE waits(n) /\ n < ev.q
  BY <1>1, <1>3, <1>8 DEF Waits
<1>9. waits(ev.q)
  <2>1. ev.q <= seq
    BY <1>3 DEF LineUp
  <2> QED
    BY <1>5, <2>1
<1>10. \A n : Has(queue, n, life) <=> Has(queue', n, life) \/ n = ev.q
  <2>1. ASSUME NEW n, Has(queue, n, life) PROVE Has(queue', n, life) \/ n = ev.q
    <3>1. PICK i \in 1..Len(queue) : queue[i].q = n /\ queue[i].life = life
      BY <2>1 DEF Has
    <3>2. CASE i = 1
      BY <1>3, <3>1, <3>2
    <3>3. CASE i # 1
      <4>1. i - 1 \in 1..Len(queue') /\ (i - 1) + 1 = i
        BY <1>2, <1>3, <3>1, <3>3
      <4>2. queue'[i - 1] = queue[i]
        BY <1>3, <4>1
      <4> QED
        BY <3>1, <4>1, <4>2 DEF Has
    <3> QED
      BY <3>2, <3>3
  <2>2. \A n : Has(queue', n, life) => Has(queue, n, life)
    BY <1>3 DEF Has
  <2>3. Has(queue, ev.q, life)
    BY <1>3, <1>4 DEF Has
  <2> QED
    BY <2>1, <2>2, <2>3
<1>11. Idle'
  <2>1. proc \in {"up", "closing"}
    BY <1>1 DEF Idle, TypeOK
  <2> QED
    BY <1>1, <2>1 DEF Idle
<1> HIDE DEF ev
<1>14. \A n : Waits(n) => waits(n) /\ n < ev.q
  BY <1>8
<1> HIDE DEF waits
<1>12. CASE cur # NoFile /\ ev.r = cur.r
  <2>1. buf' = Append(buf, ev) /\ UNCHANGED <<cur, disk, manifest>>
    BY <1>1, <1>12 DEF Write
  <2>2. /\ buf' \in Seq(Event) /\ Len(buf') = Len(buf) + 1
        /\ \A i \in 1..Len(buf') : buf'[i] = IF i <= Len(buf) THEN buf[i] ELSE ev
    BY <1>2, <1>4, <2>1
  <2>3. TypeOK'
    BY <1>1, <1>3, <1>6, <2>1, <2>2 DEF TypeOK
  <2>4. /\ cur \in Name /\ cur \in DOMAIN disk /\ cur.q \in Nat
        /\ disk[cur].lines # << >> \/ buf # << >>
    BY <1>12 DEF OpenFile, Name, Numbers
  <2>5. cur.q <= ev.q
    <3>1. PICK i \in 1..Len(Flushed) : TRUE
      BY <1>12, FlushedIs
    <3>2. cur.q <= Flushed[i].q /\ Flushed[i].q \in Nat /\ Waits(Flushed[i].q)
      BY <1>12, FlushedIs
    <3> QED
      BY <1>4, <1>8, <2>4, <3>2
  <2>6. OpenFile'
    <3>1. buf' # << >>
      BY <1>2, <2>2, EmptySeq
    <3>2. \A i \in 1..Len(buf') : buf'[i].life = life /\ cur.q <= buf'[i].q
      BY <1>2, <1>4, <1>12, <2>2, <2>5 DEF OpenFile
    <3> QED
      BY <1>1, <1>12, <2>1, <2>4, <3>1, <3>2 DEF OpenFile
  <2>7. Past'
    <3>1. \A i \in 1..Len(buf') : waits(buf'[i].q)
      BY <1>2, <1>14, <1>9, <2>2 DEF Past
    <3>2. \A f \in DOMAIN disk : \A i \in 1..Len(disk[f].lines) :
             /\ disk[f].lines[i].life <= life
             /\ disk[f].lines[i].life = life =>
                  f.q <= disk[f].lines[i].q /\ waits(disk[f].lines[i].q)
      BY <1>14 DEF Past
    <3>3. \A d \in dropped : d.life <= life /\ (d.life = life => d.q <= seq)
      BY DEF Past
    <3> QED
      BY <1>1, <2>1, <3>1, <3>2, <3>3 DEF Past, Waits, waits
  <2>8. Listed'
    <3>1. \A m \in manifest : \A j \in 1..Len(queue') : m.last < queue'[j].q
      BY <1>3 DEF Listed
    <3> QED
      BY <1>1, <2>1, <3>1 DEF Listed
  <2>9. Counted'
    <3>1. \A n : Has(buf', n, life) <=> Has(buf, n, life) \/ n = ev.q
      BY SMTT(30), <1>2, <1>4, <2>2 DEF Has
    <3>2. \A n : InRecord(n)' <=> InRecord(n)
      BY <1>1, <1>10, <2>1, <3>1 DEF InRecord
    <3>3. \A n : InDropped(n)' <=> InDropped(n)
      BY <1>1 DEF InDropped
    <3> QED
      BY <1>1, <3>2, <3>3 DEF Counted
  <2>10. ManifestTrue'
    BY <2>1 DEF ManifestTrue
  <2> QED
    BY <1>7, <1>11, <2>3, <2>6, <2>7, <2>8, <2>9, <2>10
<1>13. CASE ~(cur # NoFile /\ ev.r = cur.r)
  <2> DEFINE name == [r |-> ev.r, q |-> ev.q]
             file == [life |-> life, lines |-> << >>, whole |-> FALSE]
  <2>1. /\ cur' = name /\ buf' = <<ev>> /\ manifest' = ClosedManifest
        /\ disk' = Put(ClosedDisk, name, file)
    BY <1>1, <1>13 DEF Write
  <2>2. life \in 1..MaxLives
    BY <1>1 DEF Idle
  <2>3. name \in Name /\ name.q = ev.q /\ name # NoFile
    BY <1>4, RecAssumption DEF Name, NoFile, Numbers
  <2>4. file \in FileType /\ file.lines = << >> /\ Len(file.lines) = 0
    BY <2>2 DEF FileType
  <2> HIDE DEF name, file
  <2>5. /\ DOMAIN disk' = DOMAIN disk \cup {name}
        /\ disk'[name] = file /\ \A f \in DOMAIN disk : f # name => disk'[f] = ClosedDisk[f]
    <3>1. DOMAIN ClosedDisk = DOMAIN disk
      BY ClosedIs
    <3> QED
      BY <2>1, <3>1 DEF Put
  <2>6. buf' \in Seq(Event) /\ Len(buf') = 1 /\ buf'[1] = ev
    BY <1>4, <2>1
  <2>7. TypeOK'
    <3>1. \A f \in DOMAIN disk' : disk'[f] \in FileType /\ f \in Name
      BY <2>3, <2>4, <2>5, ClosedIs DEF TypeOK
    <3>2. manifest' \subseteq LineType
      BY <2>1, ClosedIs
    <3> QED
      BY <1>1, <1>3, <1>6, <2>1, <2>3, <2>6, <3>1, <3>2 DEF TypeOK, FileType, LineType
  <2>8. OpenFile'
    <3>1. buf' # << >>
      BY <2>6
    <3> QED
      BY <1>1, <1>4, <2>1, <2>3, <2>4, <2>5, <2>6, <3>1 DEF OpenFile
  <2>9. Past'
    <3>1. \A i \in 1..Len(buf') : waits(buf'[i].q)
      BY <1>9, <2>6
    <3>2. ASSUME NEW f \in DOMAIN disk', NEW i \in 1..Len(disk'[f].lines)
          PROVE  /\ disk'[f].lines[i].life <= life
                 /\ disk'[f].lines[i].life = life =>
                      f.q <= disk'[f].lines[i].q /\ waits(disk'[f].lines[i].q)
      BY <1>14, <2>4, <2>5, <3>2, ClosedIs
    <3>3. \A d \in dropped : d.life <= life /\ (d.life = life => d.q <= seq)
      BY DEF Past
    <3> QED
      BY <1>1, <3>1, <3>2, <3>3 DEF Past, Waits, waits
  <2>10. \A m \in ClosedManifest : m.last < ev.q /\ m.file.q <= m.last /\ m.last \in Nat /\ m.file.q \in Nat
    BY <1>3, ClosedIs DEF LineType, Numbers, Name
  <2>11. Listed'
    <3>1. \A m \in ClosedManifest : \A j \in 1..Len(queue') : m.last < queue'[j].q
      BY <1>4, <1>5, <2>10
    <3> QED
      BY <1>1, <2>1, <2>3, <2>10, <3>1, ClosedIs DEF Listed
  <2>12. Counted'
    <3>1. \A n : Has(buf', n, life) <=> n = ev.q
      BY <1>4, <2>6 DEF Has
    <3>2. name \in DOMAIN disk => \A n : ~Has(ClosedDisk[name].lines, n, life)
      <4>1. ASSUME name \in DOMAIN disk, NEW i \in 1..Len(ClosedDisk[name].lines),
                   ClosedDisk[name].lines[i].life = life
            PROVE  FALSE
        <5>1. name.q <= ClosedDisk[name].lines[i].q /\ Waits(ClosedDisk[name].lines[i].q)
          BY <4>1, ClosedIs
        <5>2. ClosedDisk[name].lines[i].q < ev.q
          BY <1>8, <5>1
        <5>3. ClosedDisk[name].lines \in Seq(Event)
          BY <4>1, ClosedIs DEF FileType
        <5>4. ClosedDisk[name].lines[i].q \in Nat
          BY <4>1, <5>3, EventIs
        <5> QED
          BY <1>4, <2>3, <5>1, <5>2, <5>4
      <4> QED
        BY <4>1 DEF Has
    <3>3. \A n : ~Has(disk'[name].lines, n, life)
      BY <2>4, <2>5 DEF Has
    <3>4. \A n : (\E f \in DOMAIN disk' : Has(disk'[f].lines, n, life))
                 <=> Has(buf, n, life) \/ \E f \in DOMAIN disk : Has(disk[f].lines, n, life)
      <4>1. \A n : (\E f \in DOMAIN disk' : Has(disk'[f].lines, n, life))
                   <=> \E f \in DOMAIN disk : Has(ClosedDisk[f].lines, n, life)
        BY <2>5, <3>2, <3>3
      <4> QED
        BY <4>1, ClosedIs
    <3>5. \A n : InRecord(n)' <=> InRecord(n)
      BY <1>1, <1>10, <3>1, <3>4 DEF InRecord
    <3>6. \A n : InDropped(n)' <=> InDropped(n)
      BY <1>1 DEF InDropped
    <3> QED
      BY <1>1, <3>5, <3>6 DEF Counted
  <2>13. ManifestTrue'
    <3>1. \A m \in ClosedManifest : m.file # name
      BY <1>4, <2>3, <2>10
    <3> QED
      BY <2>1, <2>5, <3>1, ClosedIs DEF ManifestTrue
  <2> QED
    BY <1>7, <1>11, <2>7, <2>8, <2>9, <2>11, <2>12, <2>13
<1> QED
  BY <1>12, <1>13

LEMMA RecStep ==
  ASSUME RecInv, [SysNext]_sysVars
  PROVE  RecInv'
<1>1. CASE RecNext
  <2>1. ASSUME NEW r \in 0..MaxBucket, Record(r) PROVE RecInv'
    BY <2>1, EmitKeeps DEF Record
  <2>2. ASSUME Stop PROVE RecInv'
    <3>1. now \in 0..MaxBucket
      BY DEF RecInv, TypeOK
    <3> QED
      BY <2>2, <3>1, EmitKeeps DEF Stop
  <2> QED
    BY <1>1, <2>1, <2>2, BootKeeps, CloseKeeps, ExitKeeps, CrashKeeps, WriterKeeps, FlushKeeps,
       WriterDiesKeeps, HourKeeps DEF RecNext
<1>2. CASE UNCHANGED recVars
  <2>1. UNCHANGED <<proc, life, seq, now, queue, dropped, writer, cur, buf, disk, manifest, crashes>>
    BY <1>2 DEF recVars
  <2>2. TypeOK'
    BY <2>1 DEF RecInv, TypeOK
  <2>3. Idle' /\ OpenFile' /\ LineUp'
    BY <2>1 DEF RecInv, Layout, Idle, OpenFile, LineUp
  <2>4. Past'
    BY <2>1 DEF RecInv, Layout, Past, Waits
  <2>5. Listed' /\ ManifestTrue'
    BY <2>1 DEF RecInv, Layout, Listed, ManifestTrue
  <2>6. \A n : (InRecord(n)' <=> InRecord(n)) /\ (InDropped(n)' <=> InDropped(n))
    BY <2>1 DEF InRecord, InDropped, Has
  <2>7. Counted'
    BY <2>1, <2>6 DEF RecInv, Counted
  <2> QED
    BY <2>2, <2>3, <2>4, <2>5, <2>7 DEF RecInv, Layout
<1>3. SysNext => RecNext \/ UNCHANGED recVars
  BY DEF SysNext, WithStore, TradeEvent, RecNext
<1>4. UNCHANGED sysVars => UNCHANGED recVars
  BY DEF sysVars
<1> QED
  BY <1>1, <1>2, <1>3, <1>4

LEMMA SysSteps == SysSpec => SysInit /\ [][SysNext]_sysVars
BY PTL DEF SysSpec

(* A file the manifest names is whole and holds what its line says for     *)
(* ever, over rotations, crashes and restarts; and while the writer runs,  *)
(* every number of this life is queued, written or counted as dropped.     *)
THEOREM RecordingIsAccounted == SysSpec => []Accounted
<1>1. SysInit => RecInv
  BY InitRec DEF SysInit
<1>2. RecInv /\ [SysNext]_sysVars => RecInv'
  BY RecStep
<1>3. RecInv => Accounted
  BY CountedIs DEF RecInv, Accounted
<1> QED
  BY <1>1, <1>2, <1>3, SysSteps, PTL

-----------------------------------------------------------------------------
(* The database beside the recorder. *)

(* Of two rows of one life the first has the smaller number; within a      *)
(* sequence, and from one sequence to another.                             *)
Before(x, y) == x.life = y.life => x.q < y.q
Sorted(s) == \A i, j \in 1..Len(s) : i < j => Before(s[i], s[j])
Leads(s, t) == \A i \in 1..Len(s), j \in 1..Len(t) : Before(s[i], t[j])
In(x, s) == \E i \in 1..Len(s) : s[i] = x
OfLife(s, l, n) == \A i \in 1..Len(s) : s[i].life = l /\ s[i].q <= n
UpToLife(s, l, n) ==
  \A i \in 1..Len(s) : s[i].life <= l /\ (s[i].life = l => s[i].q <= n)

LEMMA SortedConcat ==
  ASSUME NEW S, NEW s \in Seq(S), NEW t \in Seq(S)
  PROVE  Sorted(s \o t) <=> Sorted(s) /\ Sorted(t) /\ Leads(s, t)
<1> DEFINE u == s \o t
<1>1. /\ Len(s) \in Nat /\ Len(t) \in Nat /\ Len(u) = Len(s) + Len(t)
      /\ \A i \in 1..Len(s) : u[i] = s[i]
      /\ \A i \in 1..Len(t) : u[Len(s) + i] = t[i]
  BY ConcatIs
<1> HIDE DEF u
<1>2. Sorted(u) => Sorted(s) /\ Sorted(t) /\ Leads(s, t)
  <2>1. Sorted(u) => Sorted(s)
    BY <1>1 DEF Sorted
  <2>2. ASSUME Sorted(u), NEW i \in 1..Len(t), NEW j \in 1..Len(t), i < j
        PROVE  Before(t[i], t[j])
    <3>1. Len(s) + i \in 1..Len(u) /\ Len(s) + j \in 1..Len(u) /\ Len(s) + i < Len(s) + j
      BY <1>1, <2>2
    <3>2. Before(u[Len(s) + i], u[Len(s) + j])
      BY <2>2, <3>1 DEF Sorted
    <3> QED
      BY <1>1, <3>2
  <2>3. ASSUME Sorted(u), NEW i \in 1..Len(s), NEW j \in 1..Len(t)
        PROVE  Before(s[i], t[j])
    <3>1. i \in 1..Len(u) /\ Len(s) + j \in 1..Len(u) /\ i < Len(s) + j
      BY <1>1
    <3>2. Before(u[i], u[Len(s) + j])
      BY <2>3, <3>1 DEF Sorted
    <3> QED
      BY <1>1, <3>2
  <2> QED
    BY <2>1, <2>2, <2>3 DEF Sorted, Leads
<1>3. ASSUME Sorted(s), Sorted(t), Leads(s, t), NEW i \in 1..Len(u), NEW j \in 1..Len(u), i < j
      PROVE  Before(u[i], u[j])
  <2>1. CASE j <= Len(s)
    BY <1>1, <1>3, <2>1 DEF Sorted
  <2>2. CASE i > Len(s)
    <3>1. i - Len(s) \in 1..Len(t) /\ j - Len(s) \in 1..Len(t) /\ i - Len(s) < j - Len(s)
          /\ Len(s) + (i - Len(s)) = i /\ Len(s) + (j - Len(s)) = j
      BY <1>1, <1>3, <2>2
    <3>2. u[i] = t[i - Len(s)] /\ u[j] = t[j - Len(s)]
      BY <1>1, <3>1
    <3> QED
      BY <1>3, <3>1, <3>2 DEF Sorted
  <2>3. CASE i <= Len(s) /\ j > Len(s)
    <3>1. i \in 1..Len(s) /\ j - Len(s) \in 1..Len(t) /\ Len(s) + (j - Len(s)) = j
      BY <1>1, <2>3
    <3>2. u[i] = s[i] /\ u[j] = t[j - Len(s)]
      BY <1>1, <3>1
    <3> QED
      BY <1>3, <3>1, <3>2 DEF Leads
  <2> QED
    BY <1>1, <2>1, <2>2, <2>3
<1> QED
  BY <1>2, <1>3 DEF u, Sorted

(* Every element of the whole is one of a part, at the place it takes.     *)
Joins(u, s, t) ==
  /\ \A i \in 1..Len(s) : i \in 1..Len(u) /\ u[i] = s[i]
  /\ \A i \in 1..Len(t) : Len(s) + i \in 1..Len(u) /\ u[Len(s) + i] = t[i]
  /\ \A i \in 1..Len(u) : \/ \E j \in 1..Len(s) : u[i] = s[j]
                          \/ \E j \in 1..Len(t) : u[i] = t[j]

LEMMA ConcatJoins ==
  ASSUME NEW S, NEW s \in Seq(S), NEW t \in Seq(S)
  PROVE  Joins(s \o t, s, t)
<1> DEFINE u == s \o t
<1>1. /\ Len(s) \in Nat /\ Len(t) \in Nat /\ Len(u) = Len(s) + Len(t)
      /\ \A i \in 1..Len(s) : u[i] = s[i]
      /\ \A i \in 1..Len(t) : u[Len(s) + i] = t[i]
      /\ \A i \in 1..Len(u) : (\E j \in 1..Len(s) : u[i] = s[j]) \/ (\E j \in 1..Len(t) : u[i] = t[j])
  BY ConcatIs
<1> HIDE DEF u
<1>2. /\ \A i \in 1..Len(s) : i \in 1..Len(u)
      /\ \A i \in 1..Len(t) : Len(s) + i \in 1..Len(u)
  BY <1>1
<1>3. Joins(u, s, t)
  BY <1>1, <1>2 DEF Joins
<1> QED
  BY <1>3 DEF u

(* What holds of every element of two sequences holds of their concat.     *)
LEMMA LeadsConcat ==
  ASSUME NEW S, NEW s \in Seq(S), NEW t \in Seq(S), NEW u \in Seq(S)
  PROVE  /\ Leads(s \o t, u) <=> Leads(s, u) /\ Leads(t, u)
         /\ Leads(u, s \o t) <=> Leads(u, s) /\ Leads(u, t)
<1>1. Joins(s \o t, s, t)
  BY ConcatJoins
<1>2. Leads(s, u) /\ Leads(t, u) => Leads(s \o t, u)
  BY <1>1 DEF Joins, Leads
<1>3. Leads(s \o t, u) => Leads(s, u) /\ Leads(t, u)
  BY <1>1 DEF Joins, Leads
<1>4. Leads(u, s) /\ Leads(u, t) => Leads(u, s \o t)
  BY <1>1 DEF Joins, Leads
<1>5. Leads(u, s \o t) => Leads(u, s) /\ Leads(u, t)
  BY <1>1 DEF Joins, Leads
<1> QED
  BY <1>2, <1>3, <1>4, <1>5

LEMMA LifeConcat ==
  ASSUME NEW S, NEW s \in Seq(S), NEW t \in Seq(S), NEW l, NEW n
  PROVE  /\ OfLife(s \o t, l, n) <=> OfLife(s, l, n) /\ OfLife(t, l, n)
         /\ UpToLife(s \o t, l, n) <=> UpToLife(s, l, n) /\ UpToLife(t, l, n)
         /\ \A x : In(x, s \o t) <=> In(x, s) \/ In(x, t)
<1>1. Joins(s \o t, s, t)
  BY ConcatJoins
<1>2. OfLife(s, l, n) /\ OfLife(t, l, n) => OfLife(s \o t, l, n)
  BY <1>1 DEF Joins, OfLife
<1>7. ASSUME NEW i \in 1..Len(s) PROVE i \in 1..Len(s \o t) /\ s[i] = (s \o t)[i]
  BY <1>1 DEF Joins
<1>8. ASSUME NEW i \in 1..Len(t)
      PROVE  Len(s) + i \in 1..Len(s \o t) /\ t[i] = (s \o t)[Len(s) + i]
  BY <1>1 DEF Joins
<1>3. OfLife(s \o t, l, n) => OfLife(s, l, n) /\ OfLife(t, l, n)
  <2>1. ASSUME OfLife(s \o t, l, n), NEW i \in 1..Len(s) PROVE s[i].life = l /\ s[i].q <= n
    BY <1>7, <2>1 DEF OfLife
  <2>2. ASSUME OfLife(s \o t, l, n), NEW i \in 1..Len(t) PROVE t[i].life = l /\ t[i].q <= n
    BY <1>8, <2>2 DEF OfLife
  <2> QED
    BY <2>1, <2>2 DEF OfLife
<1>4. UpToLife(s, l, n) /\ UpToLife(t, l, n) => UpToLife(s \o t, l, n)
  BY <1>1 DEF Joins, UpToLife
<1>5. UpToLife(s \o t, l, n) => UpToLife(s, l, n) /\ UpToLife(t, l, n)
  <2>1. ASSUME UpToLife(s \o t, l, n), NEW i \in 1..Len(s)
        PROVE  s[i].life <= l /\ (s[i].life = l => s[i].q <= n)
    BY <1>7, <2>1 DEF UpToLife
  <2>2. ASSUME UpToLife(s \o t, l, n), NEW i \in 1..Len(t)
        PROVE  t[i].life <= l /\ (t[i].life = l => t[i].q <= n)
    BY <1>8, <2>2 DEF UpToLife
  <2> QED
    BY <2>1, <2>2 DEF UpToLife
<1>6. \A x : In(x, s \o t) <=> In(x, s) \/ In(x, t)
  <2>1. ASSUME NEW x, In(x, s) PROVE In(x, s \o t)
    BY <1>7, <2>1, Zenon DEF In
  <2>2. ASSUME NEW x, In(x, t) PROVE In(x, s \o t)
    BY <1>8, <2>2, Zenon DEF In
  <2>3. ASSUME NEW x, In(x, s \o t) PROVE In(x, s) \/ In(x, t)
    <3>1. PICK i \in 1..Len(s \o t) : (s \o t)[i] = x
      BY <2>3 DEF In
    <3>2. (\E j \in 1..Len(s) : (s \o t)[i] = s[j]) \/ (\E j \in 1..Len(t) : (s \o t)[i] = t[j])
      BY <1>1 DEF Joins
    <3> QED
      BY <3>1, <3>2, Zenon DEF In
  <2> QED
    BY <2>1, <2>2, <2>3
<1> QED
  BY <1>2, <1>3, <1>4, <1>5, <1>6

LEMMA EmptyIs ==
  /\ Len(<< >>) = 0 /\ Sorted(<< >>)
  /\ \A l, n : OfLife(<< >>, l, n) /\ UpToLife(<< >>, l, n)
  /\ \A s : Leads(<< >>, s) /\ Leads(s, << >>)
  /\ \A x : ~In(x, << >>)
<1>1. Len(<< >>) = 0 /\ 1..0 = {}
  BY EmptySeq
<1> QED
  BY <1>1 DEF Sorted, OfLife, UpToLife, Leads, In

LEMMA OneIs ==
  ASSUME NEW S, NEW x \in S
  PROVE  /\ <<x>> \in Seq(S) /\ Len(<<x>>) = 1 /\ Sorted(<<x>>)
         /\ \A s \in Seq(S) : Append(s, x) = s \o <<x>>
         /\ \A y : In(y, <<x>>) <=> y = x
<1>1. <<x>> \in Seq(S) /\ Len(<<x>>) = 1 /\ <<x>>[1] = x
  OBVIOUS
<1>2. \A i, j \in 1..Len(<<x>>) : ~(i < j)
  BY <1>1
<1>3. \A s \in Seq(S) : Append(s, x) = s \o <<x>>
  BY <1>1, AppendIsConcat
<1>4. \A y : In(y, <<x>>) <=> y = x
  BY <1>1 DEF In
<1> QED
  BY <1>1, <1>2, <1>3, <1>4 DEF Sorted

LEMMA HeadTailIs ==
  ASSUME NEW S, NEW s \in Seq(S), s # << >>
  PROVE  /\ Head(s) \in S /\ Tail(s) \in Seq(S) /\ Len(s) = Len(Tail(s)) + 1
         /\ s = <<Head(s)>> \o Tail(s)
<1>1. /\ Head(s) \in S /\ Tail(s) \in Seq(S) /\ Len(s) \in Nat \ {0} /\ Len(Tail(s)) = Len(s) - 1
      /\ \A i \in 1..Len(Tail(s)) : Tail(s)[i] = s[i + 1]
  BY HeadTailProperties, EmptySeq
<1>2. <<Head(s)>> \in Seq(S) /\ Len(<<Head(s)>>) = 1 /\ <<Head(s)>>[1] = s[1]
  BY <1>1
<1>3. /\ <<Head(s)>> \o Tail(s) \in Seq(S)
      /\ Len(<<Head(s)>> \o Tail(s)) = Len(s)
      /\ \A i \in 1..Len(s) : (<<Head(s)>> \o Tail(s))[i] =
            IF i <= 1 THEN <<Head(s)>>[i] ELSE Tail(s)[i - 1]
  BY <1>1, <1>2, ConcatProperties
<1>4. \A i \in 1..Len(s) : (<<Head(s)>> \o Tail(s))[i] = s[i]
  BY <1>1, <1>2, <1>3
<1> QED
  BY <1>1, <1>3, <1>4, SeqEqual

LEMMA SplitIs ==
  ASSUME NEW S, NEW s \in Seq(S), NEW n \in 1..Len(s)
  PROVE  /\ SubSeq(s, 1, n) \in Seq(S) /\ Len(SubSeq(s, 1, n)) = n
         /\ SubSeq(s, n + 1, Len(s)) \in Seq(S)
         /\ Len(SubSeq(s, n + 1, Len(s))) = Len(s) - n
         /\ s = SubSeq(s, 1, n) \o SubSeq(s, n + 1, Len(s))
<1> DEFINE u == SubSeq(s, 1, n)
           v == SubSeq(s, n + 1, Len(s))
<1>1. Len(s) \in Nat /\ n \in Nat /\ 1 <= n /\ n <= Len(s) /\ \A i \in 1..Len(s) : s[i] \in S
  OBVIOUS
<1>2. u \in Seq(S) /\ Len(u) = n /\ \A i \in 1..n : u[i] = s[i]
  BY <1>1, SubSeqProperties
<1>3. /\ v \in Seq(S) /\ Len(v) = Len(s) - n
      /\ \A i \in 1..(Len(s) - n) : v[i] = s[n + i]
  <2>1. \A i \in (n + 1)..Len(s) : s[i] \in S
    BY <1>1
  <2>2. /\ v \in Seq(S) /\ Len(v) = IF n + 1 <= Len(s) THEN Len(s) - (n + 1) + 1 ELSE 0
        /\ \A i \in 1..(Len(s) - (n + 1) + 1) : v[i] = s[(n + 1) + i - 1]
    BY <1>1, <2>1, SubSeqProperties
  <2> QED
    BY <1>1, <2>2
<1> HIDE DEF u, v
<1>4. /\ u \o v \in Seq(S) /\ Len(u \o v) = Len(s)
      /\ \A i \in 1..Len(u) : (u \o v)[i] = u[i]
      /\ \A i \in 1..Len(v) : (u \o v)[Len(u) + i] = v[i]
  <2>1. u \o v \in Seq(S) /\ Len(u \o v) = Len(u) + Len(v)
    BY <1>2, <1>3, ConcatIs
  <2>2. Len(u \o v) = Len(s)
    BY <1>1, <1>2, <1>3, <2>1
  <2> QED
    BY <1>2, <1>3, <2>1, <2>2, ConcatIs
<1>5. ASSUME NEW i \in 1..Len(s) PROVE (u \o v)[i] = s[i]
  <2> i \in Nat
    BY <1>1
  <2>1. CASE i <= n
    BY <1>1, <1>2, <1>4, <2>1
  <2>2. CASE i > n
    <3>1. i - n \in 1..Len(v) /\ n + (i - n) = i
      BY <1>1, <1>3, <2>2
    <3>2. (u \o v)[i] = v[i - n]
      BY <1>2, <1>4, <3>1
    <3>3. v[i - n] = s[i]
      BY <1>3, <3>1
    <3> QED
      BY <3>2, <3>3
  <2>3. i <= n \/ i > n
    BY <1>1
  <2> QED
    BY <2>1, <2>2, <2>3
<1>6. s = u \o v
  BY <1>4, <1>5, SeqEqual
<1> QED
  BY <1>2, <1>3, <1>6 DEF u, v

(* The rows on their way, from the database back to the queue, are in the  *)
(* order they were handed over; those not committed are of the life l,     *)
(* which has numbered n events.                                            *)
Line(a, b, c, d, l, n) ==
  /\ Sorted(a) /\ Sorted(b) /\ Sorted(c) /\ Sorted(d)
  /\ Leads(a, b) /\ Leads(a, c) /\ Leads(a, d)
  /\ Leads(b, c) /\ Leads(b, d) /\ Leads(c, d)
  /\ UpToLife(a, l, n) /\ OfLife(b, l, n) /\ OfLife(c, l, n) /\ OfLife(d, l, n)

LEMMA RowIs ==
  ASSUME NEW s \in Seq(Row), NEW i \in 1..Len(s)
  PROVE  s[i] \in Row /\ s[i].q \in Nat /\ s[i].life \in Nat
<1>1. s[i] \in Row
  OBVIOUS
<1>2. s[i].q \in 1..MaxSeq /\ s[i].life \in 1..MaxLives
  BY <1>1 DEF Row, Numbers
<1> QED
  BY <1>1, <1>2, RecAssumption

LEMMA OfIsUpTo ==
  ASSUME NEW s \in Seq(Row), NEW l \in Nat, NEW n, OfLife(s, l, n)
  PROVE  UpToLife(s, l, n)
BY DEF OfLife, UpToLife

LEMMA LineTake ==
  ASSUME NEW a \in Seq(Row), NEW b \in Seq(Row), NEW c \in Seq(Row), NEW d \in Seq(Row),
         NEW l \in Nat, NEW n, Line(a, b, << >>, c \o d, l, n)
  PROVE  Line(a, b, c, d, l, n)
<1>1. Sorted(c) /\ Sorted(d) /\ Leads(c, d)
  BY SortedConcat DEF Line
<1>2. Leads(a, c) /\ Leads(a, d) /\ Leads(b, c) /\ Leads(b, d)
  BY LeadsConcat DEF Line
<1>3. OfLife(c, l, n) /\ OfLife(d, l, n)
  BY LifeConcat DEF Line
<1> QED
  BY <1>1, <1>2, <1>3 DEF Line

LEMMA LineApply ==
  ASSUME NEW a \in Seq(Row), NEW b \in Seq(Row), NEW c \in Seq(Row), NEW d \in Seq(Row),
         NEW x \in Row, NEW l \in Nat, NEW n, Line(a, b, <<x>> \o c, d, l, n)
  PROVE  Line(a, b \o <<x>>, c, d, l, n)
<1>1. <<x>> \in Seq(Row)
  OBVIOUS
<1>2. Sorted(<<x>>) /\ Sorted(c) /\ Leads(<<x>>, c)
  BY <1>1, SortedConcat DEF Line
<1>3. /\ Leads(a, <<x>>) /\ Leads(a, c) /\ Leads(b, <<x>>) /\ Leads(b, c)
      /\ Leads(<<x>>, d) /\ Leads(c, d)
  BY <1>1, LeadsConcat DEF Line
<1>4. OfLife(<<x>>, l, n) /\ OfLife(c, l, n)
  BY <1>1, LifeConcat DEF Line
<1>5. Sorted(b \o <<x>>)
  BY <1>1, <1>2, <1>3, SortedConcat DEF Line
<1>6. Leads(a, b \o <<x>>) /\ Leads(b \o <<x>>, c) /\ Leads(b \o <<x>>, d)
  BY <1>1, <1>2, <1>3, LeadsConcat DEF Line
<1>7. OfLife(b \o <<x>>, l, n)
  BY <1>1, <1>4, LifeConcat DEF Line
<1> QED
  BY <1>2, <1>3, <1>4, <1>5, <1>6, <1>7 DEF Line

LEMMA LineCommit ==
  ASSUME NEW a \in Seq(Row), NEW b \in Seq(Row), NEW c \in Seq(Row), NEW d \in Seq(Row),
         NEW l \in Nat, NEW n, Line(a, b, c, d, l, n)
  PROVE  Line(a \o b, << >>, c, d, l, n)
<1>1. Sorted(a \o b)
  BY SortedConcat DEF Line
<1>2. Leads(a \o b, c) /\ Leads(a \o b, d)
  BY LeadsConcat DEF Line
<1>3. UpToLife(a \o b, l, n)
  BY OfIsUpTo, LifeConcat DEF Line
<1> QED
  BY <1>1, <1>2, <1>3, EmptyIs DEF Line

LEMMA LineDrop ==
  ASSUME NEW a, NEW b, NEW c, NEW d, NEW l, NEW n, Line(a, b, c, d, l, n)
  PROVE  /\ Line(a, b, << >>, d, l, n)
         /\ Line(a, << >>, << >>, << >>, l, n)
BY EmptyIs DEF Line

LEMMA LineLater ==
  ASSUME NEW a \in Seq(Row), NEW b \in Seq(Row), NEW c \in Seq(Row), NEW d \in Seq(Row),
         NEW l \in Nat, NEW n \in Nat, Line(a, b, c, d, l, n)
  PROVE  Line(a, b, c, d, l, n + 1)
<1>1. \A s \in Seq(Row) : \A i \in 1..Len(s) : s[i].q \in Nat
  BY RowIs
<1>2. \A s \in Seq(Row) : /\ OfLife(s, l, n) => OfLife(s, l, n + 1)
                          /\ UpToLife(s, l, n) => UpToLife(s, l, n + 1)
  BY SMTT(30), <1>1 DEF OfLife, UpToLife
<1> QED
  BY <1>2 DEF Line

LEMMA LinePut ==
  ASSUME NEW a \in Seq(Row), NEW b \in Seq(Row), NEW c \in Seq(Row), NEW d \in Seq(Row),
         NEW l \in Nat, NEW n \in Nat, Line(a, b, c, d, l, n),
         NEW x \in Row, x.life = l, x.q = n + 1
  PROVE  Line(a, b, c, d \o <<x>>, l, n + 1)
<1>1. <<x>> \in Seq(Row) /\ Len(<<x>>) = 1 /\ <<x>>[1] = x
  OBVIOUS
<1>2. \A s \in Seq(Row) : \A i \in 1..Len(s) : s[i].q \in Nat
  BY RowIs
<1>3. \A s \in Seq(Row) : OfLife(s, l, n) \/ UpToLife(s, l, n) => Leads(s, <<x>>)
  BY <1>1, <1>2 DEF OfLife, UpToLife, Leads, Before
<1>4. Line(a, b, c, d, l, n + 1)
  BY LineLater
<1>5. OfLife(<<x>>, l, n + 1)
  BY <1>1 DEF OfLife
<1>6. Sorted(d \o <<x>>)
  BY <1>1, <1>3, OneIs, SortedConcat DEF Line
<1>7. Leads(a, d \o <<x>>) /\ Leads(b, d \o <<x>>) /\ Leads(c, d \o <<x>>)
  BY <1>1, <1>3, LeadsConcat DEF Line
<1>8. OfLife(d \o <<x>>, l, n + 1)
  BY <1>1, <1>4, <1>5, LifeConcat DEF Line
<1> QED
  BY <1>4, <1>6, <1>7, <1>8 DEF Line

(* Another life: nothing is on its way. *)
LEMMA LineBoot ==
  ASSUME NEW a \in Seq(Row), NEW l \in Nat, NEW n, NEW m,
         Line(a, << >>, << >>, << >>, l, n)
  PROVE  Line(a, << >>, << >>, << >>, l + 1, m)
<1>1. \A i \in 1..Len(a) : a[i].life \in Nat
  BY RowIs
<1>2. UpToLife(a, l + 1, m)
  BY <1>1 DEF Line, UpToLife
<1> QED
  BY <1>2, EmptyIs DEF Line

LEMMA LineNothing == \A l, n : Line(<< >>, << >>, << >>, << >>, l, n)
BY EmptyIs DEF Line

(* The four in one sequence. *)
LEMMA LineIsOrder ==
  ASSUME db \in Seq(Row), tx \in Seq(Row), batch \in Seq(Row), sq \in Seq(Row),
         Line(db, tx, batch, sq, life, seq)
  PROVE  RowsInOrder
<1>1. db \o tx \in Seq(Row) /\ (db \o tx) \o batch \in Seq(Row)
      /\ ((db \o tx) \o batch) \o sq \in Seq(Row)
  BY ConcatProperties
<1>2. Sorted(db \o tx) /\ Leads(db \o tx, batch) /\ Leads(db \o tx, sq)
  BY SortedConcat, LeadsConcat DEF Line
<1>3. Sorted((db \o tx) \o batch) /\ Leads((db \o tx) \o batch, sq)
  BY <1>1, <1>2, SortedConcat, LeadsConcat DEF Line
<1>4. Sorted(((db \o tx) \o batch) \o sq)
  BY <1>1, <1>3, SortedConcat DEF Line
<1>5. DOMAIN (((db \o tx) \o batch) \o sq) = 1..Len(((db \o tx) \o batch) \o sq)
  BY <1>1
<1> QED
  BY <1>4, <1>5 DEF RowsInOrder, Sorted, Before

(* Rows of life l in a sequence. *)
RowsOf(s, l) == {i \in DOMAIN s : s[i].life = l}

LEMMA RowsFinite ==
  ASSUME NEW s \in Seq(Row), NEW l
  PROVE  IsFiniteSet(RowsOf(s, l)) /\ Cardinality(RowsOf(s, l)) \in Nat
<1>1. DOMAIN s = 1..Len(s) /\ Len(s) \in Nat
  OBVIOUS
<1>2. IsFiniteSet(DOMAIN s)
  BY <1>1, FS_Interval
<1>3. RowsOf(s, l) \in SUBSET DOMAIN s
  BY DEF RowsOf
<1> QED
  BY <1>2, <1>3, FS_Subset, FS_CardinalityType

(* Rows of life l, all of them, put behind a sequence. *)
LEMMA RowsBehind ==
  ASSUME NEW s \in Seq(Row), NEW t \in Seq(Row), NEW l, NEW n, OfLife(t, l, n)
  PROVE  Cardinality(RowsOf(s \o t, l)) = Cardinality(RowsOf(s, l)) + Len(t)
<1> DEFINE u == s \o t
           T == (Len(s) + 1)..(Len(s) + Len(t))
<1>1. /\ Len(s) \in Nat /\ Len(t) \in Nat /\ DOMAIN s = 1..Len(s)
      /\ u \in Seq(Row) /\ Len(u) = Len(s) + Len(t)
      /\ \A i \in 1..Len(s) : u[i] = s[i]
      /\ \A i \in 1..Len(t) : u[Len(s) + i] = t[i]
  BY ConcatIs
<1>2. DOMAIN u = 1..Len(u)
  BY <1>1
<1> HIDE DEF u
<1>3. ASSUME NEW i \in T PROVE i \in 1..Len(u) /\ u[i].life = l
  <2>1. i - Len(s) \in 1..Len(t) /\ Len(s) + (i - Len(s)) = i /\ i \in 1..Len(u)
    BY <1>1
  <2>2. u[i] = t[i - Len(s)]
    BY <1>1, <2>1
  <2> QED
    BY <2>1, <2>2 DEF OfLife
<1>4. \A i \in 1..Len(u) : i \in 1..Len(s) \/ i \in T
  BY <1>1
<1>5. \A i \in 1..Len(s) : i \in 1..Len(u) /\ i \notin T
  BY <1>1
<1> HIDE DEF T
<1>6. RowsOf(u, l) = RowsOf(s, l) \cup T /\ RowsOf(s, l) \cap T = {}
  BY <1>1, <1>2, <1>3, <1>4, <1>5 DEF RowsOf
<1>7. IsFiniteSet(T) /\ Cardinality(T) = Len(t)
  <2>1. Len(s) + 1 \in Int /\ Len(s) + Len(t) \in Int
    BY <1>1
  <2>2. IsFiniteSet(T) /\ Cardinality(T) =
          IF Len(s) + 1 > Len(s) + Len(t) THEN 0 ELSE (Len(s) + Len(t)) - (Len(s) + 1) + 1
    BY <2>1, FS_Interval DEF T
  <2> QED
    BY <1>1, <2>2
<1>8. IsFiniteSet(RowsOf(s, l)) /\ Cardinality(RowsOf(s, l)) \in Nat
  BY RowsFinite
<1>9. Cardinality(RowsOf(s, l) \cup T) = Cardinality(RowsOf(s, l)) + Cardinality(T) - Cardinality(RowsOf(s, l) \cap T)
  BY <1>7, <1>8, FS_Union
<1>10. Cardinality(RowsOf(s, l) \cap T) = 0
  BY <1>6, FS_EmptySet
<1> QED
  BY <1>1, <1>6, <1>7, <1>8, <1>9, <1>10 DEF u

-----------------------------------------------------------------------------
(* The store, step by step. *)

(* Without a process, or beside something else, nothing is on its way. *)
Nothing ==
  /\ proc = "off" \/ beside # "store" =>
       sq = << >> /\ batch = << >> /\ tx = << >> /\ size = 0
  /\ beside # "store" => db = << >> /\ written = 0 /\ put = {} /\ sdropped = {}
  /\ beside \in {"nothing", "store", "console", "export"}

InLine == Line(db, tx, batch, sq, life, seq)

(* Until a batch fails or the process dies, every row handed over is       *)
(* somewhere.                                                              *)
Somewhere(x) == In(x, db) \/ In(x, tx) \/ In(x, batch) \/ In(x, sq) \/ x \in sdropped
Kept == crashes = 0 /\ errors = 0 => \A x : x \in put <=> Somewhere(x)

(* A batch counts only the rows that were executed. *)
Reported ==
  /\ written + (size - Len(batch)) <= Cardinality(RowsOf(db, life)) + Len(tx)
  /\ written <= Cardinality(RowsOf(db, life))

StoreInv == StoreTypeOK(Row) /\ Nothing /\ InLine /\ Kept /\ Reported

LEMMA StoreTypes ==
  ASSUME RecInv, StoreInv
  PROVE  /\ sq \in Seq(Row) /\ batch \in Seq(Row) /\ tx \in Seq(Row) /\ db \in Seq(Row)
         /\ Len(sq) \in Nat /\ Len(batch) \in Nat /\ Len(tx) \in Nat /\ Len(db) \in Nat
         /\ size \in Nat /\ Len(batch) <= size /\ size <= BatchMax /\ Len(tx) < FlushEvery
         /\ written \in Nat /\ errors \in Nat /\ life \in Nat /\ seq \in Nat /\ crashes \in Nat
         /\ StoreMax \in Nat /\ BatchMax \in Nat /\ FlushEvery \in Nat \ {0}
         /\ IsFiniteSet(RowsOf(db, life)) /\ Cardinality(RowsOf(db, life)) \in Nat
<1>1. sq \in Seq(Row) /\ batch \in Seq(Row) /\ tx \in Seq(Row) /\ db \in Seq(Row)
  BY DEF StoreInv, StoreTypeOK
<1>2. size \in Len(batch)..BatchMax /\ Len(tx) < FlushEvery /\ written \in Nat /\ errors \in 0..MaxErrors
  BY DEF StoreInv, StoreTypeOK
<1>3. life \in Nat /\ seq \in Nat /\ crashes \in Nat
  BY RecAssumption DEF RecInv, TypeOK
<1>4. Len(sq) \in Nat /\ Len(batch) \in Nat /\ Len(tx) \in Nat /\ Len(db) \in Nat
  BY <1>1
<1> QED
  BY <1>1, <1>2, <1>3, <1>4, StoreAssumption, RowsFinite

LEMMA InitStore == SysInit => StoreInv
<1> SUFFICES ASSUME SysInit PROVE StoreInv
  OBVIOUS
<1>1. /\ sq = << >> /\ size = 0 /\ batch = << >> /\ tx = << >> /\ db = << >>
      /\ sdropped = {} /\ written = 0 /\ errors = 0 /\ put = {}
      /\ beside \in {"nothing", "store", "console", "export"}
  BY DEF SysInit, StoreInit
<1>2. Len(<< >>) = 0 /\ << >> \in Seq(Row)
  BY EmptySeq
<1>3. StoreTypeOK(Row)
  BY <1>1, <1>2, StoreAssumption DEF StoreTypeOK
<1>4. Nothing
  BY <1>1 DEF Nothing
<1>5. InLine
  BY <1>1, LineNothing DEF InLine
<1>6. Kept
  BY <1>1, EmptyIs DEF Kept, Somewhere
<1>7. Cardinality(RowsOf(<< >>, life)) \in Nat
  BY <1>2, RowsFinite
<1>8. Reported
  BY <1>1, <1>2, <1>7 DEF Reported
<1> QED
  BY <1>3, <1>4, <1>5, <1>6, <1>8 DEF StoreInv

(* Rows that are committed. *)
LEMMA Committed ==
  ASSUME RecInv, StoreInv, NEW t \in Seq(Row), OfLife(t, life, seq)
  PROVE  /\ db \o t \in Seq(Row)
         /\ Cardinality(RowsOf(db \o t, life)) = Cardinality(RowsOf(db, life)) + Len(t)
BY StoreTypes, RowsBehind, ConcatProperties

LEMMA CommitKeeps ==
  ASSUME RecInv, StoreInv, db' = db \o tx, tx' = << >>, UNCHANGED <<sq, sdropped, errors, put>>,
         life' = life, seq' = seq, crashes' = crashes,
         batch' = batch, \/ size' = size /\ written' = written
                         \/ batch = << >> /\ size' = 0 /\ written' = written + size
  PROVE  StoreTypeOK(Row)' /\ InLine' /\ Kept' /\ Reported'
<1>1. Line(db, tx, batch, sq, life, seq) /\ OfLife(tx, life, seq)
  BY DEF StoreInv, InLine, Line
<1>2. /\ db \o tx \in Seq(Row)
      /\ Cardinality(RowsOf(db \o tx, life)) = Cardinality(RowsOf(db, life)) + Len(tx)
  BY <1>1, StoreTypes, Committed
<1>3. << >> \in Seq(Row) /\ Len(<< >>) = 0
  BY EmptySeq
<1>4. StoreTypeOK(Row)'
  <2>1. size' \in Len(batch')..BatchMax /\ written' \in Nat
    BY SMTT(30), <1>3, StoreTypes
  <2>2. tx' \in Seq(Row) /\ Len(tx') < FlushEvery /\ db' \in Seq(Row)
    BY <1>2, <1>3, StoreTypes
  <2> QED
    BY <2>1, <2>2 DEF StoreInv, StoreTypeOK
<1>5. InLine'
  <2>1. Line(db \o tx, << >>, batch, sq, life, seq)
    BY <1>1, StoreTypes, LineCommit
  <2> QED
    BY <2>1 DEF InLine
<1>6. Kept'
  <2>1. \A x : Somewhere(x)' <=> Somewhere(x)
    <3>1. \A x : In(x, db \o tx) <=> In(x, db) \/ In(x, tx)
      BY StoreTypes, LifeConcat
    <3> QED
      BY <3>1, EmptyIs DEF Somewhere
  <2> QED
    BY <2>1 DEF StoreInv, Kept
<1>7. Reported'
  <2>1. written' + (size' - Len(batch')) <= Cardinality(RowsOf(db, life)) + Len(tx)
        /\ written' <= Cardinality(RowsOf(db, life)) + Len(tx)
    BY SMTT(30), <1>3, StoreTypes DEF StoreInv, Reported
  <2>2. Cardinality(RowsOf(db', life')) = Cardinality(RowsOf(db, life)) + Len(tx) /\ Len(tx') = 0
    BY <1>2, <1>3
  <2> QED
    BY <2>1, <2>2, StoreTypes DEF Reported
<1> QED
  BY <1>4, <1>5, <1>6, <1>7

(* A step of the rest, which does not touch the store. *)
LEMMA BesideKeeps ==
  ASSUME RecInv', StoreInv, beside # "store", beside' = beside, UNCHANGED storeVars
  PROVE  StoreInv'
<1>1. /\ sq = << >> /\ batch = << >> /\ tx = << >> /\ size = 0 /\ db = << >> /\ written = 0
      /\ put = {} /\ sdropped = {} /\ beside \in {"nothing", "store", "console", "export"}
  BY DEF StoreInv, Nothing
<1>2. /\ sq' = << >> /\ batch' = << >> /\ tx' = << >> /\ size' = 0 /\ db' = << >> /\ written' = 0
      /\ put' = {} /\ sdropped' = {} /\ errors' = errors
  BY <1>1 DEF storeVars
<1>3. StoreTypeOK(Row)'
  BY <1>1, <1>2 DEF StoreInv, StoreTypeOK
<1>4. Nothing'
  BY <1>1, <1>2 DEF Nothing
<1>5. InLine'
  BY <1>2, LineNothing DEF InLine
<1>6. Kept'
  BY <1>2, EmptyIs DEF Kept, Somewhere
<1>7. Cardinality(RowsOf(<< >>, life')) \in Nat /\ Len(<< >>) = 0
  BY EmptySeq, RowsFinite
<1>8. Reported'
  BY <1>2, <1>7 DEF Reported
<1> QED
  BY <1>3, <1>4, <1>5, <1>6, <1>8 DEF StoreInv

LEMMA QuietKeeps ==
  ASSUME RecInv, StoreInv, UNCHANGED storeVars, beside' = beside, crashes' = crashes,
         life' = life, seq' = seq \/ seq' = seq + 1, proc' = "off" => proc = "off"
  PROVE  StoreInv'
<1>1. /\ sq' = sq /\ batch' = batch /\ tx' = tx /\ size' = size /\ db' = db /\ written' = written
      /\ put' = put /\ sdropped' = sdropped /\ errors' = errors
  BY DEF storeVars
<1>2. StoreTypeOK(Row)'
  BY <1>1 DEF StoreInv, StoreTypeOK
<1>3. Nothing'
  BY <1>1 DEF StoreInv, Nothing
<1>4. InLine'
  <2>1. Line(db, tx, batch, sq, life, seq) /\ Line(db, tx, batch, sq, life, seq + 1)
    BY StoreTypes, LineLater DEF StoreInv, InLine
  <2> QED
    BY <1>1, <2>1 DEF InLine
<1>5. Kept'
  BY <1>1 DEF StoreInv, Kept, Somewhere
<1>6. Reported'
  BY <1>1 DEF StoreInv, Reported
<1> QED
  BY <1>2, <1>3, <1>4, <1>5, <1>6 DEF StoreInv

LEMMA StoreBootKeeps ==
  ASSUME RecInv, StoreInv, beside = "store", beside' = beside, Boot, StoreBoot
  PROVE  StoreInv'
<1>1. sq = << >> /\ batch = << >> /\ tx = << >> /\ size = 0
  BY DEF StoreInv, Nothing, Boot
<1>2. /\ sq' = sq /\ batch' = batch /\ tx' = tx /\ size' = size /\ db' = db /\ written' = 0
      /\ put' = put /\ sdropped' = sdropped /\ errors' = errors
  BY DEF StoreBoot
<1>3. life' = life + 1 /\ crashes' = crashes /\ proc' = "up"
  BY DEF Boot
<1>4. StoreTypeOK(Row)'
  BY <1>2 DEF StoreInv, StoreTypeOK
<1>5. Nothing'
  BY <1>2, <1>3 DEF Nothing
<1>6. InLine'
  <2>1. Line(db, << >>, << >>, << >>, life + 1, seq')
    BY <1>1, StoreTypes, LineBoot DEF StoreInv, InLine
  <2> QED
    BY <1>1, <1>2, <1>3, <2>1 DEF InLine
<1>7. Kept'
  BY <1>2, <1>3 DEF StoreInv, Kept, Somewhere
<1>8. Reported'
  <2>1. Cardinality(RowsOf(db, life')) \in Nat /\ Len(<< >>) = 0
    BY StoreTypes, RowsFinite, EmptySeq
  <2> QED
    BY <1>1, <1>2, <2>1 DEF Reported
<1> QED
  BY <1>4, <1>5, <1>6, <1>7, <1>8 DEF StoreInv

LEMMA StoreCrashKeeps ==
  ASSUME RecInv, StoreInv, beside = "store", beside' = beside, Crash, StoreCrash
  PROVE  StoreInv'
<1>1. /\ sq' = << >> /\ batch' = << >> /\ tx' = << >> /\ size' = 0 /\ db' = db
      /\ written' = written /\ put' = put /\ sdropped' = sdropped /\ errors' = errors
  BY DEF StoreCrash
<1>2. life' = life /\ seq' = seq /\ crashes' = crashes + 1
  BY DEF Crash
<1>3. Len(<< >>) = 0 /\ << >> \in Seq(Row)
  BY EmptySeq
<1>4. StoreTypeOK(Row)'
  <2>1. size' \in Len(batch')..BatchMax /\ Len(tx') < FlushEvery /\ Len(sq') <= StoreMax
    BY <1>1, <1>3, StoreTypes
  <2> QED
    BY <1>1, <1>3, <2>1 DEF StoreInv, StoreTypeOK
<1>5. Nothing'
  BY <1>1 DEF Nothing
<1>6. InLine'
  <2>1. Line(db, << >>, << >>, << >>, life, seq)
    BY LineDrop DEF StoreInv, InLine
  <2> QED
    BY <1>1, <1>2, <2>1 DEF InLine
<1>7. Kept'
  BY <1>2, StoreTypes DEF Kept
<1>8. Reported'
  <2>1. written <= Cardinality(RowsOf(db, life)) /\ RowsOf(db, life)' = RowsOf(db, life)
    BY <1>1, <1>2 DEF StoreInv, Reported, RowsOf
  <2> QED
    BY <1>1, <1>2, <1>3, <2>1, StoreTypes DEF Reported
<1> QED
  BY <1>4, <1>5, <1>6, <1>7, <1>8 DEF StoreInv

LEMMA CommitsKeep ==
  ASSUME RecInv, StoreInv, beside = "store", beside' = beside,
         \/ Exit /\ Aclose
         \/ proc # "off" /\ (BatchDone \/ Commit) /\ UNCHANGED recVars
  PROVE  StoreInv'
<1>1. CASE Exit /\ Aclose
  <2>1. /\ db' = db \o tx /\ tx' = << >> /\ sq = << >> /\ size = 0
        /\ UNCHANGED <<sq, size, batch, sdropped, written, errors, put>>
    BY <1>1 DEF Aclose
  <2>2. life' = life /\ seq' = seq /\ crashes' = crashes
    BY <1>1 DEF Exit
  <2>3. StoreTypeOK(Row)' /\ InLine' /\ Kept' /\ Reported'
    BY <2>1, <2>2, CommitKeeps
  <2>4. batch = << >>
    <3>1. Len(batch) = 0
      BY <2>1, StoreTypes
    <3> QED
      BY <3>1, StoreTypes, EmptySeq
  <2>5. Nothing'
    BY <2>1, <2>4 DEF StoreInv, Nothing
  <2> QED
    BY <2>3, <2>5 DEF StoreInv
<1>2. CASE proc # "off" /\ (BatchDone \/ Commit) /\ UNCHANGED recVars
  <2>1. /\ db' = db \o tx /\ tx' = << >> /\ UNCHANGED <<sq, sdropped, errors, put>> /\ batch' = batch
        /\ \/ size' = size /\ written' = written
           \/ batch = << >> /\ size' = 0 /\ written' = written + size
    BY <1>2 DEF BatchDone, Commit
  <2>2. life' = life /\ seq' = seq /\ crashes' = crashes /\ proc' # "off"
    BY <1>2 DEF recVars
  <2>3. StoreTypeOK(Row)' /\ InLine' /\ Kept' /\ Reported'
    BY <2>1, <2>2, CommitKeeps
  <2>4. Nothing'
    BY <2>2 DEF StoreInv, Nothing
  <2> QED
    BY <2>3, <2>4 DEF StoreInv
<1> QED
  BY <1>1, <1>2

LEMMA PutKeeps ==
  ASSUME RecInv, RecInv', StoreInv, beside = "store", beside' = beside, TradeEvent
  PROVE  StoreInv'
<1> DEFINE row == [q |-> seq + 1, life |-> life]
<1>1. /\ PutRow(row) /\ proc = "up" /\ proc' = "up" /\ life' = life /\ seq' = seq + 1
      /\ crashes' = crashes
  BY DEF TradeEvent, Record, Emit
<1>2. row \in Row /\ row.life = life /\ row.q = seq + 1
  <2>1. life \in 1..MaxLives
    BY <1>1 DEF RecInv, Layout, Idle
  <2>2. seq + 1 \in 1..MaxSeq
    <3>1. seq' \in Nat /\ seq' <= MaxSeq
      BY RecAssumption DEF RecInv, TypeOK
    <3> QED
      BY SMTT(30), <1>1, <3>1, StoreTypes, RecAssumption
  <2> QED
    BY <2>1, <2>2 DEF Row, Numbers
<1> HIDE DEF row
<1>3. /\ put' = put \cup {row} /\ UNCHANGED <<size, batch, tx, db, written, errors>>
      /\ \/ Len(sq) < StoreMax /\ sq' = Append(sq, row) /\ sdropped' = sdropped
         \/ sdropped' = sdropped \cup {row} /\ sq' = sq
  BY <1>1 DEF PutRow
<1>4. /\ sq' \in Seq(Row) /\ Len(sq') <= StoreMax
      /\ Append(sq, row) = sq \o <<row>> /\ (\A x : In(x, sq \o <<row>>) <=> In(x, sq) \/ x = row)
  <2>1. Len(Append(sq, row)) = Len(sq) + 1 /\ Append(sq, row) \in Seq(Row)
    BY <1>2, StoreTypes, AppendProperties
  <2>2. Len(sq) <= StoreMax
    BY DEF StoreInv, StoreTypeOK
  <2>3. /\ <<row>> \in Seq(Row) /\ Append(sq, row) = sq \o <<row>>
        /\ \A x : In(x, <<row>>) <=> x = row
    BY <1>2, StoreTypes, OneIs
  <2>4. \A x : In(x, sq \o <<row>>) <=> In(x, sq) \/ x = row
    BY <2>3, StoreTypes, LifeConcat
  <2>5. sq' \in Seq(Row) /\ Len(sq') <= StoreMax
    <3>1. CASE sq' = sq
      BY <2>2, <3>1, StoreTypes
    <3>2. CASE Len(sq) < StoreMax /\ sq' = Append(sq, row)
      BY SMTT(30), <2>1, <3>2, StoreTypes
    <3> QED
      BY <1>3, <3>1, <3>2
  <2> QED
    BY <2>3, <2>4, <2>5
<1>5. StoreTypeOK(Row)'
  BY <1>2, <1>3, <1>4 DEF StoreInv, StoreTypeOK
<1>6. Nothing'
  BY <1>1 DEF StoreInv, Nothing
<1>7. InLine'
  <2>1. Line(db, tx, batch, sq, life, seq)
    BY DEF StoreInv, InLine
  <2>2. Line(db, tx, batch, sq, life, seq + 1)
    BY <2>1, StoreTypes, LineLater
  <2>3. Line(db, tx, batch, sq \o <<row>>, life, seq + 1)
    BY <1>2, <2>1, StoreTypes, LinePut
  <2>4. Line(db, tx, batch, sq', life, seq + 1)
    BY <1>3, <1>4, <2>2, <2>3
  <2> QED
    BY <1>1, <1>3, <2>4 DEF InLine
<1>8. Kept'
  <2>1. \A x : Somewhere(x)' <=> Somewhere(x) \/ x = row
    BY <1>3, <1>4 DEF Somewhere
  <2>2. \A x : x \in put' <=> x \in put \/ x = row
    BY <1>3
  <2>3. crashes' = crashes /\ errors' = errors
    BY <1>1, <1>3
  <2> QED
    BY <2>1, <2>2, <2>3, Zenon DEF StoreInv, Kept
<1>9. Reported'
  BY <1>1, <1>3 DEF StoreInv, Reported
<1> QED
  BY <1>5, <1>6, <1>7, <1>8, <1>9 DEF StoreInv

LEMMA TakeKeeps ==
  ASSUME RecInv, StoreInv, proc # "off", beside' = beside, TakeBatch, UNCHANGED recVars
  PROVE  StoreInv'
<1>1. PICK n \in 1..BatchMax :
        /\ n <= Len(sq) /\ size' = n
        /\ batch' = SubSeq(sq, 1, n) /\ sq' = SubSeq(sq, n + 1, Len(sq))
  BY DEF TakeBatch
<1>2. size = 0 /\ UNCHANGED <<tx, db, sdropped, written, errors, put>>
  BY DEF TakeBatch
<1>3. life' = life /\ seq' = seq /\ crashes' = crashes /\ proc' = proc
  BY DEF recVars
<1>4. batch = << >> /\ Len(batch) = 0
  <2>1. Len(batch) = 0
    BY <1>2, StoreTypes
  <2> QED
    BY <2>1, StoreTypes, EmptySeq
<1>5. /\ batch' \in Seq(Row) /\ Len(batch') = n /\ sq' \in Seq(Row) /\ Len(sq') = Len(sq) - n
      /\ sq = batch' \o sq' /\ n \in Nat
  <2>1. n \in 1..Len(sq) /\ n \in Nat
    BY <1>1, StoreTypes
  <2>2. sq \in Seq(Row)
    BY StoreTypes
  <2> QED
    BY <1>1, <2>1, <2>2, SplitIs
<1>6. StoreTypeOK(Row)'
  <2>1. size' \in Len(batch')..BatchMax /\ Len(sq') <= StoreMax
    BY SMTT(30), <1>1, <1>5, StoreTypes DEF StoreInv, StoreTypeOK
  <2> QED
    BY <1>2, <1>5, <2>1 DEF StoreInv, StoreTypeOK
<1>7. Nothing'
  BY <1>2, <1>3, StoreTypes DEF StoreInv, Nothing, TakeBatch
<1>8. InLine'
  <2>1. Line(db, tx, << >>, batch' \o sq', life, seq)
    BY <1>4, <1>5 DEF StoreInv, InLine
  <2>2. Line(db, tx, batch', sq', life, seq)
    BY <1>5, <2>1, StoreTypes, LineTake
  <2> QED
    BY <1>2, <1>3, <2>2 DEF InLine
<1>9. Kept'
  <2>1. \A x : In(x, sq) <=> In(x, batch') \/ In(x, sq')
    BY <1>5, LifeConcat
  <2>2. \A x : Somewhere(x)' <=> Somewhere(x)
    BY <1>2, <1>4, <2>1, EmptyIs DEF Somewhere
  <2> QED
    BY <1>2, <1>3, <2>2 DEF StoreInv, Kept
<1>10. Reported'
  BY <1>1, <1>2, <1>3, <1>4, <1>5, StoreTypes DEF StoreInv, Reported
<1> QED
  BY <1>6, <1>7, <1>8, <1>9, <1>10 DEF StoreInv

LEMMA FailKeeps ==
  ASSUME RecInv, StoreInv, proc # "off", beside' = beside, BatchFails, UNCHANGED recVars
  PROVE  StoreInv'
<1>1. /\ size' = 0 /\ batch' = << >> /\ errors' = errors + 1 /\ errors < MaxErrors
      /\ UNCHANGED <<sq, tx, db, sdropped, written, put>>
  BY DEF BatchFails
<1>2. life' = life /\ seq' = seq /\ crashes' = crashes /\ proc' = proc
  BY DEF recVars
<1>3. Len(<< >>) = 0 /\ << >> \in Seq(Row)
  BY EmptySeq
<1>4. StoreTypeOK(Row)'
  <2>1. size' \in Len(batch')..BatchMax /\ errors' \in 0..MaxErrors
    BY SMTT(30), <1>1, <1>3, StoreTypes, StoreAssumption
  <2> QED
    BY <1>1, <1>3, <2>1 DEF StoreInv, StoreTypeOK
<1>5. Nothing'
  BY <1>1, <1>2 DEF StoreInv, Nothing
<1>6. InLine'
  <2>1. Line(db, tx, << >>, sq, life, seq)
    BY LineDrop DEF StoreInv, InLine
  <2> QED
    BY <1>1, <1>2, <2>1 DEF InLine
<1>7. Kept'
  BY <1>1, StoreTypes DEF Kept
<1>8. Reported'
  <2>1. RowsOf(db', life') = RowsOf(db, life) /\ written' = written /\ tx' = tx
    BY <1>1, <1>2
  <2>2. written <= Cardinality(RowsOf(db, life))
    BY DEF StoreInv, Reported
  <2>4. size' - Len(batch') = 0
    <3>1. size' = 0 /\ Len(batch') = 0
      BY <1>1, <1>3
    <3> QED
      BY <3>1
  <2>3. written + 0 <= Cardinality(RowsOf(db, life)) + Len(tx)
    BY SMTT(30), <2>2, StoreTypes
  <2> QED
    BY <2>1, <2>2, <2>3, <2>4 DEF Reported
<1> QED
  BY <1>4, <1>5, <1>6, <1>7, <1>8 DEF StoreInv

LEMMA ApplyKeeps ==
  ASSUME RecInv, StoreInv, proc # "off", beside' = beside, ApplyRow, UNCHANGED recVars
  PROVE  StoreInv'
<1> DEFINE x == Head(batch)
           t == tx \o <<x>>
<1>1. /\ batch # << >> /\ batch' = Tail(batch) /\ UNCHANGED <<sq, size, sdropped, written, errors, put>>
      /\ \/ db' = db \o Append(tx, x) /\ tx' = << >>
         \/ Len(tx) + 1 < FlushEvery /\ tx' = Append(tx, x) /\ db' = db
  <2>1. batch # << >> /\ batch' = Tail(batch) /\ UNCHANGED <<sq, size, sdropped, written, errors, put>>
    BY DEF ApplyRow
  <2>2. CASE Len(tx) + 1 >= FlushEvery
    BY <2>1, <2>2 DEF ApplyRow
  <2>3. CASE ~(Len(tx) + 1 >= FlushEvery)
    <3>1. Len(tx) + 1 < FlushEvery
      BY SMTT(30), <2>3, StoreTypes
    <3>2. tx' = Append(tx, x) /\ db' = db
      BY <2>3 DEF ApplyRow
    <3> QED
      BY <2>1, <3>1, <3>2
  <2> QED
    BY <2>2, <2>3
<1>2. life' = life /\ seq' = seq /\ crashes' = crashes /\ proc' = proc
  BY DEF recVars
<1>3. /\ x \in Row /\ batch' \in Seq(Row) /\ Len(batch) = Len(batch') + 1 /\ batch = <<x>> \o batch'
  BY <1>1, StoreTypes, HeadTailIs
<1> HIDE DEF x
<1>4. /\ <<x>> \in Seq(Row) /\ Len(<<x>>) = 1 /\ Append(tx, x) = t
      /\ \A y : In(y, <<x>>) <=> y = x
  BY <1>3, StoreTypes, OneIs
<1>5. t \in Seq(Row) /\ Len(t) = Len(tx) + 1
  BY <1>4, StoreTypes, ConcatProperties
<1>6. \A y : (In(y, t) <=> In(y, tx) \/ y = x) /\ (In(y, batch) <=> y = x \/ In(y, batch'))
  BY <1>3, <1>4, StoreTypes, LifeConcat
<1>7. Line(db, t, batch', sq, life, seq)
  <2>1. Line(db, tx, <<x>> \o batch', sq, life, seq)
    BY <1>3 DEF StoreInv, InLine
  <2> QED
    BY <1>3, <2>1, StoreTypes, LineApply
<1>8. /\ db \o t \in Seq(Row) /\ Line(db \o t, << >>, batch', sq, life, seq)
      /\ Cardinality(RowsOf(db \o t, life)) = Cardinality(RowsOf(db, life)) + Len(tx) + 1
  <2>1. Line(db \o t, << >>, batch', sq, life, seq)
    BY <1>3, <1>5, <1>7, StoreTypes, LineCommit
  <2>2. OfLife(t, life, seq)
    BY <1>7 DEF Line
  <2>3. db \o t \in Seq(Row) /\ Cardinality(RowsOf(db \o t, life)) = Cardinality(RowsOf(db, life)) + Len(t)
    BY <1>5, <2>2, Committed
  <2> HIDE DEF t
  <2>4. Cardinality(RowsOf(db, life)) + Len(t) = Cardinality(RowsOf(db, life)) + Len(tx) + 1
    BY SMTT(30), <1>5, StoreTypes
  <2> QED
    BY <2>1, <2>3, <2>4
<1>15. \A y : In(y, db \o t) <=> In(y, db) \/ In(y, tx) \/ y = x
  <2>1. \A y : In(y, db \o t) <=> In(y, db) \/ In(y, t)
    BY <1>5, StoreTypes, LifeConcat
  <2> QED
    BY <1>6, <2>1
<1> HIDE DEF t
<1>16. \/ db' = db \o t /\ tx' = << >>
       \/ tx' = t /\ db' = db /\ Len(tx) + 1 < FlushEvery
  BY <1>1, <1>4
<1>9. Len(<< >>) = 0 /\ << >> \in Seq(Row)
  BY EmptySeq
<1>10. StoreTypeOK(Row)'
  <2>1. size' \in Len(batch')..BatchMax
    BY <1>1, <1>3, StoreTypes
  <2>2. tx' \in Seq(Row) /\ Len(tx') < FlushEvery /\ db' \in Seq(Row)
    <3>1. CASE db' = db \o t /\ tx' = << >>
      BY SMTT(30), <1>8, <1>9, <3>1, StoreTypes
    <3>2. CASE tx' = t /\ db' = db /\ Len(tx) + 1 < FlushEvery
      BY <1>5, <3>2, StoreTypes
    <3> QED
      BY <1>16, <3>1, <3>2
  <2> QED
    BY <1>1, <1>3, <2>1, <2>2 DEF StoreInv, StoreTypeOK
<1>11. Nothing'
  BY <1>1, <1>2 DEF StoreInv, Nothing
<1>12. InLine'
  <2>1. Line(db', tx', batch', sq, life, seq)
    BY <1>7, <1>8, <1>16
  <2> QED
    BY <1>1, <1>2, <2>1 DEF InLine
<1>13. Kept'
  <2>1. \A y : In(y, db') \/ In(y, tx') <=> In(y, db) \/ In(y, tx) \/ y = x
    BY <1>6, <1>15, <1>16, EmptyIs
  <2>2. \A y : Somewhere(y)' <=> Somewhere(y)
    BY <1>1, <1>6, <2>1 DEF Somewhere
  <2> QED
    BY <1>1, <1>2, <2>2 DEF StoreInv, Kept
<1>14. Reported'
  <2>1. Cardinality(RowsOf(db', life)) + Len(tx') = Cardinality(RowsOf(db, life)) + Len(tx) + 1
        /\ Cardinality(RowsOf(db', life)) >= Cardinality(RowsOf(db, life))
        /\ Cardinality(RowsOf(db', life)) \in Nat /\ Len(tx') \in Nat
    <3>1. CASE db' = db \o t /\ tx' = << >>
      BY SMTT(30), <1>8, <1>9, <3>1, StoreTypes
    <3>2. CASE tx' = t /\ db' = db /\ Len(tx) + 1 < FlushEvery
      <4>1. Cardinality(RowsOf(db', life)) = Cardinality(RowsOf(db, life)) /\ Len(tx') = Len(tx) + 1
        BY <1>5, <3>2
      <4>2. Cardinality(RowsOf(db, life)) \in Nat /\ Len(tx) \in Nat
        BY StoreTypes
      <4> QED
        BY <4>1, <4>2
    <3> QED
      BY <1>16, <3>1, <3>2
  <2>2. written + (size - Len(batch)) <= Cardinality(RowsOf(db, life)) + Len(tx)
        /\ written <= Cardinality(RowsOf(db, life))
    BY DEF StoreInv, Reported
  <2>3. Len(batch') \in Nat /\ Len(batch) = Len(batch') + 1
    BY <1>3
  <2>4. written + (size - Len(batch')) <= Cardinality(RowsOf(db', life)) + Len(tx')
        /\ written <= Cardinality(RowsOf(db', life))
    <3> DEFINE c == Cardinality(RowsOf(db, life))
               e == Cardinality(RowsOf(db', life))
    <3>1. c \in Nat /\ e \in Nat /\ Len(tx) \in Nat /\ Len(tx') \in Nat /\ written \in Nat
          /\ size \in Nat /\ Len(batch) \in Nat /\ Len(batch') \in Nat
      BY <2>1, <2>3, StoreTypes
    <3>2. /\ e + Len(tx') = c + Len(tx) + 1 /\ e >= c /\ Len(batch) = Len(batch') + 1
          /\ written + (size - Len(batch)) <= c + Len(tx) /\ written <= c
      BY <2>1, <2>2, <2>3
    <3> HIDE DEF c, e
    <3>3. written + (size - Len(batch')) <= e + Len(tx') /\ written <= e
      BY <3>1, <3>2
    <3> QED
      BY <3>3 DEF e
  <2> QED
    BY <1>1, <1>2, <2>4 DEF Reported
<1> QED
  BY <1>10, <1>11, <1>12, <1>13, <1>14 DEF StoreInv

LEMMA StoreStepKeeps ==
  ASSUME RecInv, RecInv', StoreInv, [SysNext]_sysVars
  PROVE  StoreInv'
<1>1. CASE beside = "store" /\ WithStore /\ beside' = beside
  <2>1. CASE TradeEvent
    BY <1>1, <2>1, PutKeeps
  <2>2. CASE Boot /\ StoreBoot
    BY <1>1, <2>2, StoreBootKeeps
  <2>3. CASE Exit /\ Aclose
    BY <1>1, <2>3, CommitsKeep
  <2>4. CASE Crash /\ StoreCrash
    BY <1>1, <2>4, StoreCrashKeeps
  <2>5. CASE (Stop \/ Close \/ WriterStep \/ Flush) /\ UNCHANGED storeVars
    <3>1. /\ crashes' = crashes /\ life' = life /\ (seq' = seq \/ seq' = seq + 1)
          /\ proc' = "off" => proc = "off"
      BY <2>5 DEF Stop, Emit, Close, WriterStep, Flush
    <3> QED
      BY <1>1, <2>5, <3>1, QuietKeeps
  <2>6. CASE proc # "off" /\ StoreStep /\ UNCHANGED recVars
    BY <1>1, <2>6, TakeKeeps, ApplyKeeps, CommitsKeep, FailKeeps DEF StoreStep
  <2>7. CASE proc = "up" /\ Commit /\ UNCHANGED recVars
    BY <1>1, <2>7, CommitsKeep
  <2> QED
    BY <1>1, <2>1, <2>2, <2>3, <2>4, <2>5, <2>6, <2>7 DEF WithStore
<1>2. CASE beside # "store" /\ beside' = beside /\ UNCHANGED storeVars
  BY <1>2, BesideKeeps
<1>3. CASE beside' = beside /\ UNCHANGED storeVars /\ UNCHANGED recVars
  <2>1. crashes' = crashes /\ life' = life /\ seq' = seq /\ proc' = proc
    BY <1>3 DEF recVars
  <2> QED
    BY <1>3, <2>1, QuietKeeps
<1>4. \/ beside = "store" /\ WithStore /\ beside' = beside
      \/ beside # "store" /\ beside' = beside /\ UNCHANGED storeVars
      \/ beside' = beside /\ UNCHANGED storeVars /\ UNCHANGED recVars
  BY DEF SysNext, sysVars, storeVars, recVars, consVars, exportVars
<1> QED
  BY <1>1, <1>2, <1>3, <1>4

LEMMA StoreInvIs ==
  ASSUME RecInv, StoreInv
  PROVE  StoreExact
<1>1. RowsInOrder
  BY StoreTypes, LineIsOrder DEF StoreInv, InLine
<1>2. StopKeepsRows
  <2>1. \A x : In(x, db) <=> x \in {db[i] : i \in DOMAIN db}
    <3>1. DOMAIN db = 1..Len(db)
      BY StoreTypes
    <3> QED
      BY <3>1 DEF In
  <2>2. ASSUME beside = "store", proc = "off", crashes = 0, errors = 0
        PROVE  put = {db[i] : i \in DOMAIN db} \cup sdropped
    <3>1. sq = << >> /\ batch = << >> /\ tx = << >>
      BY <2>2 DEF StoreInv, Nothing
    <3>2. \A x : x \in put <=> In(x, db) \/ x \in sdropped
      BY <2>2, <3>1, EmptyIs DEF StoreInv, Kept, Somewhere
    <3> QED
      BY <2>1, <3>2
  <2> QED
    BY <2>2 DEF StopKeepsRows
<1>3. WrittenIsCommitted
  BY DEF StoreInv, Reported, RowsOf, WrittenIsCommitted
<1> QED
  BY <1>1, <1>2, <1>3 DEF StoreInv, StoreExact

(* The rows of every life are in the database in the order they were       *)
(* handed over and once, whatever commits on the shared connection in mid- *)
(* batch, whatever fails and whenever the process dies; a stop without a   *)
(* failure has committed all that were not counted as dropped, and what is *)
(* reported as written is committed.                                       *)
THEOREM StoreIsExact == SysSpec => []StoreExact
<1>1. SysInit => RecInv /\ StoreInv
  BY InitRec, InitStore DEF SysInit
<1>2. RecInv /\ StoreInv /\ [SysNext]_sysVars => RecInv' /\ StoreInv'
  <2>1. ASSUME RecInv, StoreInv, [SysNext]_sysVars PROVE RecInv' /\ StoreInv'
    <3>1. RecInv'
      BY <2>1, RecStep
    <3> QED
      BY <2>1, <3>1, StoreStepKeeps
  <2> QED
    BY <2>1
<1>3. RecInv /\ StoreInv => StoreExact
  BY StoreInvIs
<1> QED
  BY <1>1, <1>2, <1>3, SysSteps, PTL

-----------------------------------------------------------------------------
(* The order of the files, and what is read of them. *)

(* Induction over the naturals, for sets. *)
LEMMA Least ==
  ASSUME NEW T \in SUBSET Nat, T # {}
  PROVE  \E x \in T : \A y \in T : x <= y
<1>1. PICK x \in T : \A y \in T : ~(<<y, x>> \in OpToRel(<, Nat))
  BY NatLessThanWellFounded, WFMin
<1>2. \A y \in T : ~(y < x)
  BY <1>1 DEF OpToRel
<1> QED
  BY <1>2

LEMMA Induct ==
  ASSUME NEW T \in SUBSET Nat, 0 \in T, \A n \in T : n + 1 \in T
  PROVE  T = Nat
<1> SUFFICES ASSUME T # Nat PROVE FALSE
  OBVIOUS
<1>1. PICK x \in Nat \ T : \A y \in Nat \ T : x <= y
  <2>1. Nat \ T # {} /\ Nat \ T \in SUBSET Nat
    OBVIOUS
  <2> QED
    BY <2>1, Least
<1>2. x # 0 /\ x - 1 \in T
  BY <1>1
<1> QED
  BY <1>1, <1>2

LEMMA KeyIs ==
  ASSUME NEW n \in 1..99, NEW m \in 1..99, DecimalKey(n) = DecimalKey(m)
  PROVE  n = m
BY SMTT(60) DEF DecimalKey

LEMMA KeyType == \A n \in Nat : DecimalKey(n) \in Nat
BY SMTT(60) DEF DecimalKey

(* The names are in a strict total order. *)
LEMMA NamesAreOrdered ==
  /\ \A f \in Name : ~NameBefore(f, f)
  /\ \A f, g \in Name : f = g \/ NameBefore(f, g) \/ NameBefore(g, f)
  /\ \A f, g \in Name : ~(NameBefore(f, g) /\ NameBefore(g, f))
  /\ \A f, g, h \in Name : NameBefore(f, g) /\ NameBefore(g, h) => NameBefore(f, h)
<1>1. \A f \in Name : /\ f.r \in Nat /\ f.q \in 1..99 /\ DecimalKey(f.q) \in Nat
                      /\ f = [r |-> f.r, q |-> f.q]
  BY RecAssumption, KeyType DEF Name, Numbers
<1>2. ASSUME NEW f \in Name, NEW g \in Name PROVE f = g \/ NameBefore(f, g) \/ NameBefore(g, f)
  BY <1>1, KeyIs DEF NameBefore
<1>3. \A f \in Name : ~NameBefore(f, f)
  BY <1>1 DEF NameBefore
<1>4. \A f, g \in Name : ~(NameBefore(f, g) /\ NameBefore(g, f))
  BY <1>1 DEF NameBefore
<1>5. \A f, g, h \in Name : NameBefore(f, g) /\ NameBefore(g, h) => NameBefore(f, h)
  BY <1>1 DEF NameBefore
<1> QED
  BY <1>2, <1>3, <1>4, <1>5

(* The rank of a file among those of a finite set of names. *)
Lower(D, f) == {g \in D : NameBefore(g, f)}

LEMMA RankIs ==
  ASSUME NEW D \in SUBSET Name, IsFiniteSet(D), NEW f \in D
  PROVE  /\ IsFiniteSet(Lower(D, f)) /\ Cardinality(Lower(D, f)) \in 0..(Cardinality(D) - 1)
         /\ \A g \in D : NameBefore(f, g) => Cardinality(Lower(D, f)) < Cardinality(Lower(D, g))
<1>1. \A g \in D : /\ Lower(D, g) \in SUBSET D /\ IsFiniteSet(Lower(D, g)) /\ g \notin Lower(D, g)
                   /\ Cardinality(Lower(D, g)) \in Nat
  <2> TAKE g \in D
  <2>1. Lower(D, g) \in SUBSET D
    BY DEF Lower
  <2>2. IsFiniteSet(Lower(D, g))
    BY <2>1, FS_Subset
  <2>3. Cardinality(Lower(D, g)) \in Nat
    BY <2>2, FS_CardinalityType
  <2> QED
    BY <2>1, <2>2, <2>3, NamesAreOrdered DEF Lower
<1>2. Cardinality(D) \in Nat
  BY FS_CardinalityType
<1>3. Cardinality(Lower(D, f)) < Cardinality(D)
  <2>1. Cardinality(Lower(D, f)) <= Cardinality(D)
        /\ (Cardinality(D) = Cardinality(Lower(D, f)) => D = Lower(D, f))
    BY <1>1, FS_Subset
  <2> QED
    BY <1>1, <1>2, <2>1
<1>4. ASSUME NEW g \in D, NameBefore(f, g)
      PROVE  Cardinality(Lower(D, f)) < Cardinality(Lower(D, g))
  <2>1. Lower(D, f) \in SUBSET Lower(D, g) /\ f \in Lower(D, g)
    BY <1>4, NamesAreOrdered DEF Lower
  <2>2. /\ Cardinality(Lower(D, f)) <= Cardinality(Lower(D, g))
        /\ Cardinality(Lower(D, g)) = Cardinality(Lower(D, f)) => Lower(D, g) = Lower(D, f)
    BY <1>1, <2>1, FS_Subset
  <2> QED
    BY <1>1, <2>1, <2>2
<1> QED
  BY <1>1, <1>2, <1>3, <1>4

(* Every rank is taken: as many different ranks as files. *)
LEMMA RanksTaken ==
  ASSUME NEW D \in SUBSET Name, IsFiniteSet(D), NEW k \in 0..(Cardinality(D) - 1)
  PROVE  \E f \in D : Cardinality(Lower(D, f)) = k
<1> DEFINE N == Cardinality(D)
           rank == [f \in D |-> Cardinality(Lower(D, f))]
<1>1. N \in Nat
  BY FS_CardinalityType
<1>2. rank \in [D -> 0..(N - 1)]
  BY RankIs
<1>3. ASSUME NEW f \in D, NEW g \in D, rank[f] = rank[g] PROVE f = g
  <2>1. Cardinality(Lower(D, f)) = Cardinality(Lower(D, g)) /\ Cardinality(Lower(D, f)) \in Nat
    BY <1>3, RankIs
  <2>2. NameBefore(f, g) => Cardinality(Lower(D, f)) < Cardinality(Lower(D, g))
    BY RankIs
  <2>3. NameBefore(g, f) => Cardinality(Lower(D, g)) < Cardinality(Lower(D, f))
    BY RankIs
  <2> QED
    BY <2>1, <2>2, <2>3, NamesAreOrdered
<1>4. rank \in Injection(D, 0..(N - 1))
  BY <1>2, <1>3 DEF Injection, IsInjective
<1>5. IsFiniteSet(0..(N - 1)) /\ Cardinality(0..(N - 1)) = N
  BY <1>1, FS_Interval
<1>6. rank \in Surjection(D, 0..(N - 1))
  BY <1>4, <1>5, FS_Injection
<1>7. \E f \in D : rank[f] = k
  BY <1>6 DEF Surjection
<1> QED
  BY <1>7

(* Files: every file once, in the order of the names. *)
Listing(files) ==
  /\ Len(files) \in Nat /\ DOMAIN files = 1..Len(files)
  /\ \A i \in 1..Len(files) : files[i] \in DOMAIN disk
  /\ \A f \in DOMAIN disk : \E i \in 1..Len(files) : files[i] = f
  /\ \A i, j \in 1..Len(files) : i < j => NameBefore(files[i], files[j])

LEMMA NameFinite == TypeOK => IsFiniteSet(DOMAIN disk)
<1> SUFFICES ASSUME TypeOK PROVE IsFiniteSet(DOMAIN disk)
  OBVIOUS
<1> DEFINE Pairs == (0..MaxBucket) \X Numbers
           pair == [f \in Name |-> <<f.r, f.q>>]
<1>1. MaxBucket \in Nat /\ MaxSeq \in Nat
  BY RecAssumption
<1>2. IsFiniteSet(0..MaxBucket) /\ IsFiniteSet(Numbers)
  BY <1>1, FS_Interval DEF Numbers
<1>3. IsFiniteSet(Pairs)
  BY <1>2, FS_Product
<1>4. pair \in [Name -> Pairs]
  BY DEF Name
<1>5. \A f, g \in Name : pair[f] = pair[g] => f = g
  BY DEF Name
<1> HIDE DEF pair, Pairs
<1>6. pair \in Injection(Name, Pairs)
  BY <1>4, <1>5 DEF Injection, IsInjective
<1>7. IsFiniteSet(Name)
  BY <1>3, <1>6, FS_Injection
<1> QED
  BY <1>7, FS_Subset DEF TypeOK

LEMMA FilesAreListed ==
  ASSUME TypeOK
  PROVE  Listing(Files) /\ Len(Files) = Cardinality(DOMAIN disk)
<1> DEFINE D == DOMAIN disk
           N == Cardinality(D)
           Ranked(i) == CHOOSE f \in D : Cardinality({g \in D : NameBefore(g, f)}) = i - 1
<1>1. D \in SUBSET Name /\ IsFiniteSet(D) /\ N \in Nat
  BY NameFinite, FS_CardinalityType DEF TypeOK
<1>2. Files = [i \in 1..N |-> Ranked(i)]
  BY DEF Files
<1>3. DOMAIN Files = 1..N /\ Len(Files) = N
  BY <1>1, <1>2
<1>4. \A i \in 1..N : Files[i] \in D /\ Cardinality(Lower(D, Files[i])) = i - 1
  <2> TAKE i \in 1..N
  <2>1. i - 1 \in 0..(N - 1)
    BY <1>1
  <2>2. \E f \in D : Cardinality({g \in D : NameBefore(g, f)}) = i - 1
    BY <1>1, <2>1, RanksTaken DEF Lower
  <2>3. Ranked(i) \in D /\ Cardinality({g \in D : NameBefore(g, Ranked(i))}) = i - 1
    BY <2>2
  <2>4. Files[i] = Ranked(i)
    BY <1>2
  <2> QED
    BY <2>3, <2>4 DEF Lower
<1> HIDE DEF D, N, Ranked
<1>5. ASSUME NEW f \in D PROVE \E i \in 1..N : Files[i] = f
  <2> DEFINE i == Cardinality(Lower(D, f)) + 1
  <2>1. i \in 1..N /\ i - 1 = Cardinality(Lower(D, f)) /\ Cardinality(Lower(D, f)) \in Nat
    BY <1>1, RankIs DEF N
  <2>2. Files[i] \in D /\ Cardinality(Lower(D, Files[i])) = Cardinality(Lower(D, f))
    BY <1>4, <2>1
  <2>3. ~NameBefore(Files[i], f) /\ ~NameBefore(f, Files[i])
    BY <1>1, <2>1, <2>2, RankIs
  <2>4. Files[i] = f
    BY <1>1, <2>2, <2>3, NamesAreOrdered
  <2> QED
    BY <2>1, <2>4
<1>6. ASSUME NEW i \in 1..N, NEW j \in 1..N, i < j PROVE NameBefore(Files[i], Files[j])
  <2>1. Files[i] \in D /\ Files[j] \in D /\ Cardinality(Lower(D, Files[i])) = i - 1
        /\ Cardinality(Lower(D, Files[j])) = j - 1
    BY <1>4
  <2>2. Files[i] # Files[j]
    BY <1>1, <1>6, <2>1
  <2>3. ~NameBefore(Files[j], Files[i])
    <3>1. NameBefore(Files[j], Files[i]) => j - 1 < i - 1
      BY <1>1, <2>1, RankIs
    <3> QED
      BY <1>1, <1>6, <3>1
  <2> QED
    BY <1>1, <2>1, <2>2, <2>3, NamesAreOrdered
<1> QED
  BY <1>1, <1>3, <1>4, <1>5, <1>6 DEF Listing, D, N

-----------------------------------------------------------------------------
(* A definition by recursion over 1..n, with its steps given as functions. *)
Iteration(f, S, c, n, step) ==
  f \in [0..n -> S] /\ f[0] = c /\ \A i \in 1..n : f[i] = step[i][f[i - 1]]

LEMMA Iterates ==
  ASSUME NEW S, NEW c \in S, NEW n \in Nat, NEW step \in [1..n -> [S -> S]]
  PROVE  \E f : Iteration(f, S, c, n, step)
<1> USE DEF Iteration
<1> DEFINE Upto(f, k) == /\ f \in [0..k -> S]
                         /\ f[0] = c /\ \A i \in 1..k : f[i] = step[i][f[i - 1]]
           T == {k \in Nat : k <= n => \E f : Upto(f, k)}
<1>1. 0 \in T
  <2>1. Upto([i \in 0..0 |-> c], 0)
    OBVIOUS
  <2> QED
    BY <2>1
<1>2. ASSUME NEW k \in T PROVE k + 1 \in T
  <2>10. k \in Nat /\ k + 1 \in Nat
    OBVIOUS
  <2> SUFFICES ASSUME k + 1 <= n PROVE \E f : Upto(f, k + 1)
    BY <2>10
  <2>1. k \in Nat /\ k <= n /\ k + 1 \in 1..n
    OBVIOUS
  <2>2. PICK f : Upto(f, k)
    BY <1>2, <2>1
  <2>3. f \in [0..k -> S] /\ f[0] = c /\ \A i \in 1..k : f[i] = step[i][f[i - 1]]
    BY <2>2
  <2> DEFINE v == step[k + 1][f[k]]
             g == [i \in 0..(k + 1) |-> IF i <= k THEN f[i] ELSE v]
  <2>4. f[k] \in S /\ v \in S
    BY <2>1, <2>3
  <2> HIDE DEF v
  <2>5. g \in [0..(k + 1) -> S]
    BY <2>1, <2>3, <2>4
  <2>6. \A i \in 0..k : g[i] = f[i]
    BY <2>1
  <2>7. g[k + 1] = v
    BY <2>1
  <2> HIDE DEF g
  <2>8. g[0] = c
    BY <2>1, <2>3, <2>6
  <2>9. ASSUME NEW i \in 1..(k + 1) PROVE g[i] = step[i][g[i - 1]]
    <3>1. CASE i <= k
      <4>1. i \in 1..k /\ i \in 0..k /\ i - 1 \in 0..k
        BY <2>1, <3>1
      <4> QED
        BY <2>3, <2>6, <4>1
    <3>2. CASE i = k + 1
      <4>1. k \in 0..k /\ (k + 1) - 1 = k
        BY <2>1
      <4> QED
        BY <2>6, <2>7, <3>2, <4>1 DEF v
    <3> QED
      BY <2>1, <3>1, <3>2
  <2> QED
    BY <2>5, <2>8, <2>9
<1>3. T = Nat
  <2>1. T \in SUBSET Nat
    OBVIOUS
  <2> HIDE DEF T
  <2> QED
    BY <1>1, <1>2, <2>1, Induct
<1>4. n \in T
  BY <1>3
<1> QED
  BY <1>4

(* One sequence after the other. *)
LEMMA Concats ==
  ASSUME NEW n \in Nat, NEW ln \in [1..n -> Seq(Event)]
  PROVE  \E f \in [0..n -> Seq(Event)] :
           f[0] = << >> /\ \A i \in 1..n : f[i] = f[i - 1] \o ln[i]
<1> DEFINE S == Seq(Event)
           e == << >>
           step == [i \in 1..n |-> [s \in S |-> s \o ln[i]]]
<1>1. step \in [1..n -> [S -> S]] /\ \A s \in S, i \in 1..n : step[i][s] = s \o ln[i]
  <2>1. \A s \in S, i \in 1..n : s \o ln[i] \in S
    BY ConcatIs
  <2> QED
    BY <2>1
<1>2. e \in S /\ step \in [1..n -> [S -> S]]
  BY <1>1
<1> HIDE DEF S, e, step
<1>3. PICK f \in [0..n -> S] : f[0] = e /\ \A i \in 1..n : f[i] = step[i][f[i - 1]]
  <2>1. \E f : Iteration(f, S, e, n, step)
    BY <1>2, Iterates
  <2> QED
    BY <2>1 DEF Iteration
<1>5. ASSUME NEW i \in 1..n PROVE f[i] = f[i - 1] \o ln[i]
  <2>1. f[i - 1] \in S
    BY <1>3
  <2> QED
    BY <1>1, <1>3, <2>1
<1> QED
  BY <1>3, <1>5 DEF S, e

(* The lines of the first files, one file after the other. *)
LEMMA LinesAre ==
  ASSUME TypeOK, NEW files, Listing(files), NEW n \in 0..Len(files)
  PROVE  \E f \in [0..n -> Seq(Event)] :
           /\ LinesOf(files, n) = f[n] /\ f[0] = << >>
           /\ \A i \in 1..n : f[i] = f[i - 1] \o disk[files[i]].lines
<1> DEFINE Is(f) == f = [i \in 0..n |-> IF i = 0 THEN << >> ELSE f[i - 1] \o disk[files[i]].lines]
           ln == [i \in 1..n |-> disk[files[i]].lines]
<1>1. n \in Nat /\ \A i \in 1..n : files[i] \in DOMAIN disk /\ disk[files[i]].lines \in Seq(Event)
  <2>1. n \in Nat /\ \A i \in 1..n : files[i] \in DOMAIN disk
    BY DEF Listing
  <2> QED
    BY <2>1, Sequences
<1>2. ln \in [1..n -> Seq(Event)] /\ \A i \in 1..n : ln[i] = disk[files[i]].lines
  BY <1>1
<1>3. PICK f \in [0..n -> Seq(Event)] : f[0] = << >> /\ \A i \in 1..n : f[i] = f[i - 1] \o ln[i]
  <2> HIDE DEF ln
  <2> QED
    BY <1>1, <1>2, Concats
<1>5. \A i \in 1..n : f[i] = f[i - 1] \o disk[files[i]].lines
  BY <1>2, <1>3
<1>6. f[0] = << >>
  BY <1>3
<1>7. Is(f)
  <2>1. \A i \in 0..n : f[i] = IF i = 0 THEN << >> ELSE f[i - 1] \o disk[files[i]].lines
    <3> TAKE i \in 0..n
    <3>1. CASE i = 0
      BY <1>6, <3>1
    <3>2. CASE i # 0
      <4>1. i \in 1..n
        BY <1>1, <3>2
      <4> QED
        BY <1>5, <3>2, <4>1
    <3> QED
      BY <3>1, <3>2
  <2>2. f = [i \in 0..n |-> f[i]]
    BY <1>3
  <2> QED
    BY <2>1, <2>2
<1>8. ASSUME NEW g, Is(g) PROVE g[0] = << >> /\ \A i \in 1..n : g[i] = g[i - 1] \o disk[files[i]].lines
  <2>1. g[0] = << >>
    BY <1>1, <1>8
  <2>2. ASSUME NEW i \in 1..n PROVE g[i] = g[i - 1] \o disk[files[i]].lines
    <3>1. i \in 0..n /\ i # 0
      BY <1>1
    <3> QED
      BY <1>8, <3>1
  <2> QED
    BY <2>1, <2>2
<1>9. ASSUME NEW g, Is(g) PROVE g[n] = f[n]
  <2> DEFINE T == {k \in Nat : k <= n => g[k] = f[k]}
  <2>1. 0 \in T
    BY <1>6, <1>8, <1>9
  <2>2. ASSUME NEW k \in T PROVE k + 1 \in T
    <3> SUFFICES ASSUME k + 1 <= n PROVE g[k + 1] = f[k + 1]
      OBVIOUS
    <3>1. k + 1 \in 1..n /\ (k + 1) - 1 = k /\ g[k] = f[k]
      BY <1>1, <2>2
    <3>2. g[k + 1] = g[k] \o disk[files[k + 1]].lines
      BY <1>8, <1>9, <3>1
    <3>3. f[k + 1] = f[k] \o disk[files[k + 1]].lines
      BY <1>5, <3>1
    <3> QED
      BY <3>1, <3>2, <3>3
  <2>3. T \in SUBSET Nat
    OBVIOUS
  <2> HIDE DEF T
  <2>4. T = Nat
    BY <2>1, <2>2, <2>3, Induct
  <2> QED
    BY <1>1, <2>4 DEF T
<1>10. LinesOf(files, n) = f[n]
  <2>1. LinesOf(files, n) = (CHOOSE g : Is(g))[n]
    BY DEF LinesOf
  <2>2. Is(CHOOSE g : Is(g))
    BY <1>7, Zenon
  <2> HIDE DEF Is
  <2> QED
    BY <1>9, <2>1, <2>2
<1> QED
  BY <1>5, <1>6, <1>10

-----------------------------------------------------------------------------
(* The numbers go up along s; those of s are below those of t, or below n. *)
Climbs(s) == \A i, j \in 1..Len(s) : i < j => s[i].q < s[j].q
Under(s, t) == \A i \in 1..Len(s), j \in 1..Len(t) : s[i].q < t[j].q
Below(s, n) == \A i \in 1..Len(s) : s[i].q < n

LEMMA ClimbConcat ==
  ASSUME NEW s \in Seq(Event), NEW t \in Seq(Event), Climbs(s), Climbs(t), Under(s, t)
  PROVE  Climbs(s \o t)
<1>1. Len(s) \in Nat /\ Len(t) \in Nat /\ Len(s \o t) = Len(s) + Len(t)
  BY ConcatIs
<1>2. \A i \in 1..Len(s) : (s \o t)[i] = s[i]
  BY ConcatIs
<1>3. \A i \in 1..Len(t) : (s \o t)[Len(s) + i] = t[i]
  BY ConcatIs
<1>4. ASSUME NEW i \in 1..Len(s \o t), NEW j \in 1..Len(s \o t), i < j
      PROVE  (s \o t)[i].q < (s \o t)[j].q
  <2>1. CASE j <= Len(s)
    <3>1. i \in 1..Len(s) /\ j \in 1..Len(s)
      BY <1>1, <1>4, <2>1
    <3> QED
      BY <1>2, <1>4, <3>1 DEF Climbs
  <2>2. CASE i <= Len(s) /\ ~(j <= Len(s))
    <3>1. i \in 1..Len(s) /\ j - Len(s) \in 1..Len(t) /\ Len(s) + (j - Len(s)) = j
      BY <1>1, <1>4, <2>2
    <3>2. (s \o t)[i] = s[i] /\ (s \o t)[j] = t[j - Len(s)]
      BY <1>2, <1>3, <3>1
    <3> QED
      BY <3>1, <3>2 DEF Under
  <2>3. CASE ~(i <= Len(s))
    <3>1. /\ i - Len(s) \in 1..Len(t) /\ Len(s) + (i - Len(s)) = i
          /\ j - Len(s) \in 1..Len(t) /\ Len(s) + (j - Len(s)) = j
          /\ i - Len(s) < j - Len(s)
      BY <1>1, <1>4, <2>3
    <3>2. (s \o t)[i] = t[i - Len(s)] /\ (s \o t)[j] = t[j - Len(s)]
      BY <1>3, <3>1
    <3> QED
      BY <3>1, <3>2 DEF Climbs
  <2> QED
    BY <1>1, <1>4, <2>1, <2>2, <2>3
<1> QED
  BY <1>4 DEF Climbs

LEMMA InConcat ==
  ASSUME NEW s \in Seq(Event), NEW t \in Seq(Event), NEW x
  PROVE  In(x, s) \/ In(x, t) <=> In(x, s \o t)
<1>0. Len(s) \in Nat /\ Len(t) \in Nat /\ Len(s \o t) = Len(s) + Len(t)
  BY ConcatIs
<1>1. In(x, s) => In(x, s \o t)
  <2>1. \A i \in 1..Len(s) : i \in 1..Len(s \o t) /\ (s \o t)[i] = s[i]
    BY <1>0, ConcatIs
  <2> QED
    BY <2>1 DEF In
<1>2. In(x, t) => In(x, s \o t)
  <2>1. \A i \in 1..Len(t) : Len(s) + i \in 1..Len(s \o t) /\ (s \o t)[Len(s) + i] = t[i]
    BY <1>0, ConcatIs
  <2> QED
    BY <2>1 DEF In
<1>3. In(x, s \o t) => In(x, s) \/ In(x, t)
  BY ConcatIs DEF In
<1> QED
  BY <1>1, <1>2, <1>3

(* What is read of the first files: their lines, all of them, going up if  *)
(* they do in each file and from one file to the next.                     *)
LEMMA LinesRead ==
  ASSUME TypeOK, NEW files, Listing(files), NEW n \in 0..Len(files)
  PROVE  /\ LinesOf(files, n) \in Seq(Event)
         /\ \A i \in 1..n : \A k \in 1..Len(disk[files[i]].lines) :
              In(disk[files[i]].lines[k], LinesOf(files, n))
         /\ (/\ \A i \in 1..n : Climbs(disk[files[i]].lines)
             /\ \A i, j \in 1..n : i < j => Under(disk[files[i]].lines, disk[files[j]].lines))
            => Climbs(LinesOf(files, n))
<1> DEFINE ln(i) == disk[files[i]].lines
           Up == /\ \A i \in 1..n : Climbs(ln(i))
                 /\ \A i, j \in 1..n : i < j => Under(ln(i), ln(j))
           Good(s, k) ==
             /\ s \in Seq(Event)
             /\ \A i \in 1..k : \A l \in 1..Len(ln(i)) : In(ln(i)[l], s)
             /\ \A m \in 1..Len(s) : \E i \in 1..k : In(s[m], ln(i))
             /\ Up => Climbs(s)
<1>1. PICK f \in [0..n -> Seq(Event)] :
        /\ LinesOf(files, n) = f[n] /\ f[0] = << >>
        /\ \A i \in 1..n : f[i] = f[i - 1] \o disk[files[i]].lines
  BY LinesAre
<1>2. n \in Nat /\ \A i \in 1..n : ln(i) \in Seq(Event)
  <2>1. n \in Nat /\ \A i \in 1..n : files[i] \in DOMAIN disk
    BY DEF Listing
  <2> QED
    BY <2>1, Sequences
<1> DEFINE T == {k \in Nat : k <= n => Good(f[k], k)}
<1>3. Good(f[0], 0)
  <2>1. f[0] \in Seq(Event) /\ Len(f[0]) = 0 /\ \A i \in 1..0 : FALSE
    BY <1>1
  <2>2. Climbs(f[0])
    BY <2>1 DEF Climbs
  <2> QED
    BY <2>1, <2>2
<1>4. ASSUME NEW k \in Nat, k + 1 <= n, Good(f[k], k) PROVE Good(f[k + 1], k + 1)
  <2>1. k + 1 \in 1..n /\ (k + 1) - 1 = k
    BY <1>2, <1>4
  <2> DEFINE s == f[k]
             t == ln(k + 1)
  <2>2. f[k + 1] = s \o t /\ s \in Seq(Event) /\ t \in Seq(Event)
    BY <1>1, <1>2, <1>4, <2>1
  <2>3. s \o t \in Seq(Event) /\ Len(s) \in Nat /\ Len(t) \in Nat /\ Len(s \o t) = Len(s) + Len(t)
    BY <2>2, ConcatIs
  <2>4. ASSUME NEW x PROVE In(x, s) \/ In(x, t) <=> In(x, s \o t)
    <3> HIDE DEF s, t
    <3> QED
      BY <2>2, InConcat
  <2>5. /\ \A i \in 1..k : \A l \in 1..Len(ln(i)) : In(ln(i)[l], s)
        /\ \A m \in 1..Len(s) : \E i \in 1..k : In(s[m], ln(i))
        /\ Up => Climbs(s)
    BY <1>4
  <2>6. Up => Climbs(s \o t)
    <3> SUFFICES ASSUME Up PROVE Climbs(s \o t)
      OBVIOUS
    <3>1. Climbs(t)
      BY <2>1
    <3>2. Under(s, t)
      <4> SUFFICES ASSUME NEW m \in 1..Len(s), NEW j \in 1..Len(t) PROVE s[m].q < t[j].q
        BY DEF Under
      <4>1. PICK i \in 1..k : In(s[m], ln(i))
        BY <2>5
      <4>2. i \in 1..n /\ i < k + 1
        BY <1>2, <1>4
      <4>3. Under(ln(i), t)
        BY <2>1, <4>2
      <4>4. PICK l \in 1..Len(ln(i)) : ln(i)[l] = s[m]
        BY <4>1 DEF In
      <4>5. ln(i)[l].q < t[j].q
        BY <4>3 DEF Under
      <4> QED
        BY <4>4, <4>5
    <3> HIDE DEF s, t
    <3> QED
      BY <2>2, <2>5, <3>1, <3>2, ClimbConcat
  <2>7. ASSUME NEW i \in 1..(k + 1), NEW l \in 1..Len(ln(i)) PROVE In(ln(i)[l], s \o t)
    <3>1. CASE i = k + 1
      <4>1. In(ln(i)[l], t)
        BY <3>1 DEF In
      <4> QED
        BY <2>4, <4>1
    <3>2. CASE i # k + 1
      <4>1. i \in 1..k
        BY <1>4, <3>2
      <4> QED
        BY <2>4, <2>5, <4>1
    <3> QED
      BY <3>1, <3>2
  <2>8. ASSUME NEW m \in 1..Len(s \o t) PROVE \E i \in 1..(k + 1) : In((s \o t)[m], ln(i))
    <3> DEFINE x == (s \o t)[m]
    <3>1. In(x, s \o t)
      BY DEF In
    <3>2. CASE In(x, s)
      <4>1. PICK l \in 1..Len(s) : s[l] = x
        BY <3>2 DEF In
      <4>2. PICK i \in 1..k : In(s[l], ln(i))
        BY <2>5
      <4>3. i \in 1..(k + 1)
        BY <1>4
      <4> QED
        BY <4>1, <4>2, <4>3
    <3>3. CASE In(x, t)
      <4>1. k + 1 \in 1..(k + 1)
        BY <1>4
      <4> QED
        BY <3>3, <4>1
    <3> QED
      BY <2>4, <3>1, <3>2, <3>3
  <2> QED
    BY <2>2, <2>3, <2>6, <2>7, <2>8
<1> HIDE DEF Good
<1>5. T = Nat
  <2>1. 0 \in T
    BY <1>2, <1>3
  <2>2. \A k \in T : k + 1 \in T
    <3> TAKE k \in T
    <3>1. k \in Nat /\ k + 1 \in Nat /\ (k + 1 <= n => k <= n)
      BY <1>2
    <3> QED
      BY <1>4, <3>1
  <2>3. T \in SUBSET Nat
    OBVIOUS
  <2> HIDE DEF T
  <2> QED
    BY <2>1, <2>2, <2>3, Induct
<1>6. Good(f[n], n)
  BY <1>2, <1>5
<1> QED
  BY <1>1, <1>6 DEF Good

-----------------------------------------------------------------------------
(* The report of verify_recording. *)
Check == [last : Nat, missing : Nat, dups : Nat]

LEMMA FeedIs ==
  ASSUME NEW c \in Check, NEW n \in Nat \ {0}
  PROVE  /\ SeqFeed(c, n) \in Check
         /\ SeqFeed(c, n).missing = 0 => c.missing = 0 /\ (c.last # 0 => n <= c.last + 1)
         /\ SeqFeed(c, n).dups = 0 => c.dups = 0 /\ (c.last # 0 => c.last < n)
         /\ c.last < n => SeqFeed(c, n).last = n
<1>1. c.last \in Nat /\ c.missing \in Nat /\ c.dups \in Nat
  BY DEF Check
<1>2. /\ SeqFeed(c, n).last = IF n > c.last THEN n ELSE c.last
      /\ SeqFeed(c, n).missing = c.missing + (IF c.last # 0 /\ n > c.last + 1 THEN n - c.last - 1 ELSE 0)
      /\ SeqFeed(c, n).dups = c.dups + (IF c.last # 0 /\ n <= c.last THEN 1 ELSE 0)
  BY DEF SeqFeed
<1>3. /\ SeqFeed(c, n).last \in Nat /\ SeqFeed(c, n).missing \in Nat /\ SeqFeed(c, n).dups \in Nat
  BY <1>1, <1>2
<1>4. SeqFeed(c, n) \in Check
  BY <1>3 DEF SeqFeed, Check
<1> QED
  BY <1>1, <1>2, <1>4

LEMMA FedIs ==
  ASSUME NEW all \in Seq(Event),
         NEW fed, fed = CHOOSE g : g = [i \in 0..Len(all) |->
                          IF i = 0 THEN [last |-> 0, missing |-> 0, dups |-> 0]
                          ELSE SeqFeed(g[i - 1], all[i].q)]
  PROVE  /\ fed[0] = [last |-> 0, missing |-> 0, dups |-> 0]
         /\ \A i \in 1..Len(all) : fed[i] = SeqFeed(fed[i - 1], all[i].q)
<1> DEFINE n == Len(all)
           zero == [last |-> 0, missing |-> 0, dups |-> 0]
           Is(g) == g = [i \in 0..n |-> IF i = 0 THEN zero ELSE SeqFeed(g[i - 1], all[i].q)]
           step == [i \in 1..n |-> [c \in Check |-> SeqFeed(c, all[i].q)]]
<1>1. n \in Nat /\ \A i \in 1..n : all[i].q \in Nat \ {0}
  <2>1. \A i \in 1..n : all[i].q \in Numbers
    BY EventIs
  <2> QED
    BY <2>1, RecAssumption DEF Numbers
<1>2. zero \in Check
  BY DEF Check
<1>3. step \in [1..n -> [Check -> Check]]
      /\ \A i \in 1..n, c \in Check : step[i][c] = SeqFeed(c, all[i].q)
  BY <1>1, FeedIs
<1> HIDE DEF n, zero, step
<1>4. PICK f : Iteration(f, Check, zero, n, step)
  BY <1>1, <1>2, <1>3, Iterates
<1>5. f \in [0..n -> Check] /\ f[0] = zero /\ \A i \in 1..n : f[i] = SeqFeed(f[i - 1], all[i].q)
  <2>1. f \in [0..n -> Check] /\ f[0] = zero /\ \A i \in 1..n : f[i] = step[i][f[i - 1]]
    BY <1>4 DEF Iteration
  <2>2. \A i \in 1..n : f[i - 1] \in Check
    BY <1>1, <2>1
  <2> QED
    BY <1>3, <2>1, <2>2
<1>6. Is(f)
  <2>1. \A i \in 0..n : f[i] = IF i = 0 THEN zero ELSE SeqFeed(f[i - 1], all[i].q)
    <3> TAKE i \in 0..n
    <3>1. CASE i = 0
      BY <1>5, <3>1
    <3>2. CASE i # 0
      <4>1. i \in 1..n
        BY <1>1, <3>2
      <4> QED
        BY <1>5, <3>2, <4>1
    <3> QED
      BY <3>1, <3>2
  <2>2. f = [i \in 0..n |-> f[i]]
    BY <1>5
  <2> QED
    BY <2>1, <2>2
<1>7. Is(fed)
  <2>1. fed = CHOOSE g : Is(g)
    BY DEF n, zero
  <2> HIDE DEF Is
  <2> QED
    BY <1>6, <2>1, Zenon
<1>8. fed[0] = zero
  <2>1. 0 \in 0..n
    BY <1>1
  <2>2. \A i \in 0..n : fed[i] = IF i = 0 THEN zero ELSE SeqFeed(fed[i - 1], all[i].q)
    BY <1>7
  <2> QED
    BY <2>1, <2>2, Zenon
<1>9. ASSUME NEW i \in 1..n PROVE fed[i] = SeqFeed(fed[i - 1], all[i].q)
  <2>1. i \in 0..n /\ i # 0
    BY <1>1
  <2> QED
    BY <1>7, <2>1
<1> QED
  BY <1>8, <1>9 DEF n, zero

(* No gap and no number twice: the numbers are consecutive. *)
LEMMA CleanIsConsecutive ==
  ASSUME NEW all \in Seq(Event), NEW fed,
         fed[0] = [last |-> 0, missing |-> 0, dups |-> 0],
         \A i \in 1..Len(all) : fed[i] = SeqFeed(fed[i - 1], all[i].q),
         fed[Len(all)].missing = 0, fed[Len(all)].dups = 0
  PROVE  \A i \in 1..Len(all) - 1 : all[i + 1].q = all[i].q + 1
<1> DEFINE n == Len(all)
           Clean(k) ==
             /\ fed[k] \in Check
             /\ fed[k].missing = 0 /\ fed[k].dups = 0 =>
                  /\ fed[k].last = IF k = 0 THEN 0 ELSE all[k].q
                  /\ \A i \in 1..(k - 1) : all[i + 1].q = all[i].q + 1
           T == {k \in Nat : k <= n => Clean(k)}
<1>1. n \in Nat /\ \A i \in 1..n : all[i].q \in Nat \ {0}
  <2>1. \A i \in 1..n : all[i].q \in Numbers
    BY EventIs
  <2> QED
    BY <2>1, RecAssumption DEF Numbers
<1>2. Clean(0)
  BY DEF Check
<1>3. ASSUME NEW k \in Nat, k + 1 <= n, Clean(k) PROVE Clean(k + 1)
  <2>1. k + 1 \in 1..n /\ (k + 1) - 1 = k
    BY <1>1, <1>3
  <2>2. fed[k + 1] = SeqFeed(fed[k], all[k + 1].q) /\ fed[k] \in Check /\ all[k + 1].q \in Nat \ {0}
    BY <1>1, <1>3, <2>1
  <2>3. fed[k + 1] \in Check
    BY <2>2, FeedIs
  <2>4. ASSUME fed[k + 1].missing = 0, fed[k + 1].dups = 0
        PROVE  /\ fed[k + 1].last = all[k + 1].q
               /\ \A i \in 1..k : all[i + 1].q = all[i].q + 1
    <3>1. /\ fed[k].missing = 0 /\ fed[k].dups = 0
          /\ fed[k].last # 0 => all[k + 1].q <= fed[k].last + 1 /\ fed[k].last < all[k + 1].q
          /\ fed[k].last < all[k + 1].q => fed[k + 1].last = all[k + 1].q
      BY <2>2, <2>4, FeedIs
    <3>2. /\ fed[k].last = IF k = 0 THEN 0 ELSE all[k].q
          /\ \A i \in 1..(k - 1) : all[i + 1].q = all[i].q + 1
      BY <1>3, <3>1
    <3>3. fed[k].last \in Nat
      BY <2>2 DEF Check
    <3>4. fed[k].last < all[k + 1].q
      BY <2>2, <3>1, <3>3
    <3>5. ASSUME k # 0 PROVE all[k + 1].q = all[k].q + 1
      <4>1. k \in 1..n
        BY <1>1, <1>3, <3>5
      <4> QED
        BY <1>1, <2>2, <3>1, <3>2, <3>5, <4>1
    <3>6. ASSUME NEW i \in 1..k PROVE all[i + 1].q = all[i].q + 1
      <4>1. CASE i = k
        BY <3>5, <4>1
      <4>2. CASE i # k
        <5>1. i \in 1..(k - 1)
          BY <4>2
        <5> QED
          BY <3>2, <5>1
      <4> QED
        BY <4>1, <4>2
    <3> QED
      BY <3>1, <3>4, <3>6
  <2> QED
    BY <2>1, <2>3, <2>4
<1> HIDE DEF Clean
<1>4. T = Nat
  <2>1. 0 \in T
    BY <1>2
  <2>2. \A k \in T : k + 1 \in T
    <3> TAKE k \in T
    <3>1. k \in Nat /\ k + 1 \in Nat /\ (k + 1 <= n => k <= n)
      BY <1>1
    <3> QED
      BY <1>3, <3>1
  <2>3. T \in SUBSET Nat
    OBVIOUS
  <2> HIDE DEF T
  <2> QED
    BY <2>1, <2>2, <2>3, Induct
<1>5. Clean(n)
  BY <1>1, <1>4
<1>6. \A i \in 1..(n - 1) : all[i + 1].q = all[i].q + 1
  BY <1>5 DEF Clean
<1> QED
  BY <1>6

LEMMA CleanReplay == TypeOK => CleanReportCleanReplay
<1> SUFFICES ASSUME TypeOK,
                    Report.missing = 0, Report.dups = 0, Report.truncated = {}
             PROVE  /\ Len(Replay) = Len(AllLines)
                    /\ \A i \in 1..Len(Replay) - 1 : Replay[i + 1].q = Replay[i].q + 1
  BY DEF CleanReportCleanReplay
<1> DEFINE all == AllLines
           Fed == CHOOSE g : g = [i \in 0..Len(all) |->
                    IF i = 0 THEN [last |-> 0, missing |-> 0, dups |-> 0]
                    ELSE SeqFeed(g[i - 1], all[i].q)]
<1>1. Listing(Files)
  BY FilesAreListed
<1>2. all \in Seq(Event)
  <2>1. Len(Files) \in 0..Len(Files)
    BY <1>1 DEF Listing
  <2> QED
    BY <1>1, <2>1, LinesRead DEF AllLines
<1>3. Report.missing = Fed[Len(all)].missing /\ Report.dups = Fed[Len(all)].dups
      /\ Report.truncated = {f \in DOMAIN disk : ~disk[f].whole}
  BY DEF Report
<1>4. Replay = all
  <2>1. \A i \in DOMAIN Files : disk[Files[i]].whole
    BY <1>1, <1>3 DEF Listing
  <2>2. {i \in DOMAIN Files : ~disk[Files[i]].whole} = {}
    BY <2>1
  <2> QED
    BY <2>2 DEF Replay, AllLines
<1>5. PICK fed : fed = Fed
  OBVIOUS
<1> HIDE DEF all
<1>6. /\ fed[0] = [last |-> 0, missing |-> 0, dups |-> 0]
      /\ \A i \in 1..Len(all) : fed[i] = SeqFeed(fed[i - 1], all[i].q)
  BY <1>2, <1>5, FedIs
<1>7. fed[Len(all)].missing = 0 /\ fed[Len(all)].dups = 0
  BY <1>3, <1>5
<1>8. \A i \in 1..Len(all) - 1 : all[i + 1].q = all[i].q + 1
  BY <1>2, <1>6, <1>7, CleanIsConsecutive
<1> QED
  BY <1>4, <1>8 DEF all

-----------------------------------------------------------------------------
(* Why a replay is the recording: the files of a disk d with the lines mf  *)
(* of the manifest.                                                        *)

(* Numbers go up in a file, from the one in its name.  A file the manifest *)
(* names has no number above its line's, and two of them do not overlap.   *)
Named(mf, f) == \E m \in mf : m.file = f
Apart(d, f, g) == Below(d[f].lines, g.q) \/ Below(d[g].lines, f.q)
Tidy(d, mf) ==
  /\ \A f \in DOMAIN d : /\ Climbs(d[f].lines)
                         /\ \A i \in 1..Len(d[f].lines) : f.q <= d[f].lines[i].q
  /\ \A f \in DOMAIN d : Named(mf, f) =>
       \E m \in mf : m.file = f /\ \A i \in 1..Len(d[f].lines) : d[f].lines[i].q <= m.last
  /\ \A f, g \in DOMAIN d : f # g /\ Named(mf, f) /\ Named(mf, g) => Apart(d, f, g)

(* A file without a line, left by a crash or an error of the disk, does not *)
(* begin below one that has a line and comes behind it: its number was the *)
(* next one when it was opened.                                            *)
Earlier(f, g) == f.q < g.q \/ (f.q = g.q /\ f.r < g.r)
Shadows(d, mf) ==
  \A w, f \in DOMAIN d : Named(mf, w) /\ ~Named(mf, f) => Below(d[w].lines, f.q) \/ Earlier(f, w)
NextOf(k, mf) == k <= SeqStart + 1 \/ \E m \in mf : k <= m.last + 1
Starts(d, mf) == \A f \in DOMAIN d : ~Named(mf, f) => NextOf(f.q, mf)

Running == proc \in {"up", "closing"}
Sound == crashes = 0 /\ (Running => writer)
Shelf ==
  /\ Tidy(disk, manifest)
  /\ Climbs(buf) /\ (cur # NoFile => Under(disk[cur].lines, buf) /\ ~disk[cur].whole)
  /\ Sound => \A f \in DOMAIN disk : f = cur \/ Named(manifest, f)
  /\ dropped = {} => Shadows(disk, manifest) /\ Starts(disk, manifest)
  /\ \A f \in DOMAIN disk : f.r <= now
  /\ \A m \in manifest : m.last <= seq

(* While nothing is dropped, the numbers from the file over its buffer to  *)
(* the queue have no gap.                                                  *)
Handed == seq - Len(queue)
Gapless ==
  /\ \A j \in 1..Len(queue) : queue[j].q = Handed + j
  /\ cur = NoFile => NextOf(Handed + 1, manifest)
  /\ cur # NoFile => Flushed[Len(Flushed)].q = Handed
InRow == dropped = {} /\ writer => Gapless

(* What was left without a line comes before everything this life writes. *)
Behind(f) ==
  /\ f.q <= seq
  /\ \A j \in 1..Len(queue) : f.q < queue[j].q \/ (f.q = queue[j].q /\ f.r <= queue[j].r)
  /\ cur # NoFile => Earlier(f, cur)
Orphans ==
  dropped = {} /\ Running => \A f \in DOMAIN disk : ~Named(manifest, f) /\ f # cur => Behind(f)

(* As long as nothing crashed or failed, every number is somewhere. *)
InSome(x, d) == \E f \in DOMAIN d : In(x, d[f].lines)
Held(n) == \/ \E x : x.q = n /\ (In(x, queue) \/ In(x, buf) \/ InSome(x, disk))
           \/ \E d \in dropped : d.q = n
AllHeld == Sound => \A n \in SeqStart + 1..seq : Held(n)

Line1 == InRow /\ Orphans /\ AllHeld /\ \A j \in 1..Len(queue) : queue[j].r <= now
ReplayInv == Shelf /\ Line1

LEMMA NumberTypes ==
  ASSUME TypeOK
  PROVE  /\ \A f \in DOMAIN disk : f \in Name /\ f.q \in Nat /\ f.r \in Nat /\ f # NoFile
         /\ \A m \in manifest : m.last \in Nat /\ m.file \in Name
         /\ seq \in Nat /\ SeqStart \in Nat /\ now \in Nat /\ Len(queue) \in Nat
         /\ \A j \in 1..Len(queue) : queue[j].q \in Nat /\ queue[j].r \in Nat
<1>1. \A f \in Name : f.q \in Nat /\ f.r \in Nat /\ f # NoFile
  BY RecAssumption DEF Name, Numbers, NoFile
<1>2. \A m \in manifest : m.last \in Nat /\ m.file \in Name
  BY RecAssumption DEF TypeOK, Numbers
<1>3. seq \in Nat /\ SeqStart \in Nat /\ now \in Nat /\ queue \in Seq(Event) /\ DOMAIN disk \subseteq Name
  BY RecAssumption DEF TypeOK
<1>4. \A j \in 1..Len(queue) : queue[j].q \in Nat /\ queue[j].r \in Nat
  <2> TAKE j \in 1..Len(queue)
  <2>1. queue[j] \in Event
    BY <1>3
  <2>2. queue[j].r \in 0..MaxBucket /\ MaxBucket \in Nat
    BY <2>1, RecAssumption DEF Event
  <2> QED
    BY <1>3, <2>2, EventIs
<1> QED
  BY <1>1, <1>2, <1>3, <1>4

LEMMA InitReplay == RecInit => ReplayInv
<1> SUFFICES ASSUME RecInit PROVE ReplayInv
  OBVIOUS
<1>1. /\ DOMAIN disk = {} /\ manifest = {} /\ buf = << >> /\ Len(buf) = 0 /\ Len(queue) = 0
      /\ cur = NoFile /\ ~writer /\ proc = "off" /\ seq = SeqStart
  BY DEF RecInit
<1>2. Shelf
  BY <1>1 DEF Shelf, Tidy, Climbs, Shadows, Starts
<1>3. SeqStart + 1..seq = {}
  BY <1>1, RecAssumption
<1> QED
  BY <1>1, <1>2, <1>3 DEF ReplayInv, Line1, InRow, Orphans, AllHeld, Sound, Running

(* Nothing happens to the files. *)
LEMMA ShelfStays ==
  ASSUME RecInv, Shelf, UNCHANGED <<cur, buf, disk, manifest>>, Sound' => Sound,
         dropped \subseteq dropped', now' \in Nat, now' >= now, \A m \in manifest : m.last <= seq'
  PROVE  Shelf'
<1>1. dropped' = {} => dropped = {}
  OBVIOUS
<1>2. \A f \in DOMAIN disk : f.r <= now'
  BY NumberTypes DEF Shelf, RecInv
<1>3. /\ Tidy(disk, manifest)' = Tidy(disk, manifest)
      /\ Shadows(disk, manifest)' = Shadows(disk, manifest)
      /\ Starts(disk, manifest)' = Starts(disk, manifest)
      /\ Climbs(buf)' = Climbs(buf)
  BY DEF Tidy, Apart, Shadows, Starts, NextOf, Climbs, Below
<1> QED
  BY <1>1, <1>2, <1>3 DEF Shelf

LEMMA EmitReplay ==
  ASSUME RecInv, ReplayInv, NEW r \in 0..now, proc = "up", proc' \in {"up", "closing"}, Emit(r),
         UNCHANGED <<life, now, writer, cur, buf, disk, manifest, crashes>>
  PROVE  ReplayInv'
<1> DEFINE new == [q |-> seq + 1, r |-> r, life |-> life]
<1>1. /\ seq \in Nat /\ seq' = seq + 1 /\ queue \in Seq(Event) /\ Len(queue) \in Nat /\ now \in Nat
      /\ SeqStart \in Nat
  BY NumberTypes DEF RecInv, Emit, TypeOK
<1>2. new.q = seq + 1 /\ new.r = r
  OBVIOUS
<1>3. new \in Event
  <2>1. life \in 1..MaxLives /\ MaxBucket \in Nat /\ now \in 0..MaxBucket /\ seq + 1 \in Numbers
    BY <1>1, RecAssumption DEF RecInv, TypeOK, Layout, Idle, Emit, Numbers
  <2> QED
    BY <2>1 DEF Event
<1> HIDE DEF new
<1>4. \/ queue' = Append(queue, new) /\ dropped' = dropped
      \/ queue' = queue /\ \E d \in dropped' : d.q = seq + 1 /\ dropped' = dropped \cup {d}
  <2>1. CASE Len(queue) < QueueMax
    BY <2>1 DEF Emit, new
  <2>2. CASE ~(Len(queue) < QueueMax)
    BY <2>2 DEF Emit
  <2> QED
    BY <2>1, <2>2
<1>5. Shelf'
  <2>1. Sound' => Sound
    BY <1>1 DEF Sound, Running
  <2> QED
    BY <1>1, <1>4, <2>1, NumberTypes, ShelfStays DEF ReplayInv, RecInv, Shelf
<1>6. CASE queue' = Append(queue, new) /\ dropped' = dropped
  <2>1. /\ Len(queue') = Len(queue) + 1 /\ queue'[Len(queue) + 1] = new
        /\ \A j \in 1..Len(queue) : queue'[j] = queue[j]
    BY <1>1, <1>3, <1>6
  <2>2. Handed' = Handed
    BY <1>1, <2>1 DEF Handed
  <2>3. InRow'
    <3> SUFFICES ASSUME dropped = {}, writer PROVE Gapless'
      BY <1>6 DEF InRow
    <3>1. Gapless
      BY DEF InRow, ReplayInv, Line1
    <3>2. \A j \in 1..Len(queue') : queue'[j].q = Handed + j
      <4> TAKE j \in 1..Len(queue')
      <4>1. CASE j \in 1..Len(queue)
        BY <2>1, <3>1, <4>1 DEF Gapless
      <4>2. CASE j = Len(queue) + 1
        BY <1>1, <1>2, <2>1, <4>2 DEF Handed
      <4> QED
        BY <1>1, <2>1, <4>1, <4>2
    <3> QED
      BY <2>2, <3>1, <3>2 DEF Gapless, Flushed
  <2>4. Orphans'
    <3> SUFFICES ASSUME dropped = {}, NEW f \in DOMAIN disk, ~Named(manifest, f), f # cur PROVE Behind(f)'
      BY <1>6 DEF Orphans
    <3>1. Behind(f) /\ f.q \in Nat
      BY NumberTypes DEF Orphans, ReplayInv, Line1, Running, RecInv
    <3>2. \A j \in 1..Len(queue') :
             f.q < queue'[j].q \/ (f.q = queue'[j].q /\ f.r <= queue'[j].r)
      <4> TAKE j \in 1..Len(queue')
      <4>1. CASE j \in 1..Len(queue)
        BY <2>1, <3>1, <4>1 DEF Behind
      <4>2. CASE j = Len(queue) + 1
        BY <1>1, <1>2, <2>1, <3>1, <4>2 DEF Behind
      <4> QED
        BY <1>1, <2>1, <4>1, <4>2
    <3> QED
      BY <1>1, <3>1, <3>2 DEF Behind
  <2>5. \A j \in 1..Len(queue') : queue'[j].r <= now
    <3> TAKE j \in 1..Len(queue')
    <3>1. CASE j \in 1..Len(queue)
      BY <2>1, <3>1 DEF ReplayInv, Line1
    <3>2. CASE j = Len(queue) + 1
      BY <1>1, <1>2, <2>1, <3>2
    <3> QED
      BY <1>1, <2>1, <3>1, <3>2
  <2>6. (\A x : In(x, queue) => In(x, queue')) /\ In(new, queue')
    <3>1. \A j \in 1..Len(queue) : j \in 1..Len(queue')
      BY <1>1, <2>1
    <3>2. Len(queue) + 1 \in 1..Len(queue')
      BY <1>1, <2>1
    <3> QED
      BY <2>1, <3>1, <3>2 DEF In
  <2>7. AllHeld'
    <3> SUFFICES ASSUME crashes = 0, Running => writer, NEW n \in SeqStart + 1..(seq + 1)
                 PROVE  Held(n)'
      BY <1>1 DEF AllHeld, Sound, Running
    <3>1. CASE n = seq + 1
      BY <1>2, <2>6, <3>1 DEF Held
    <3>2. CASE n # seq + 1
      <4>1. Held(n)
        BY <1>1, <3>2 DEF AllHeld, Sound, ReplayInv, Line1
      <4> QED
        BY <1>6, <2>6, <4>1 DEF Held, InSome
    <3> QED
      BY <3>1, <3>2
  <2> QED
    BY <1>5, <2>3, <2>4, <2>5, <2>7 DEF ReplayInv, Line1
<1>7. CASE queue' = queue /\ \E d \in dropped' : d.q = seq + 1 /\ dropped' = dropped \cup {d}
  <2>1. PICK d \in dropped' : d.q = seq + 1 /\ dropped' = dropped \cup {d}
    BY <1>7
  <2>2. InRow' /\ Orphans'
    BY <2>1 DEF InRow, Orphans
  <2>3. AllHeld'
    <3> SUFFICES ASSUME crashes = 0, Running => writer, NEW n \in SeqStart + 1..(seq + 1)
                 PROVE  Held(n)'
      BY <1>1 DEF AllHeld, Sound, Running
    <3>1. CASE n = seq + 1
      BY <2>1, <3>1 DEF Held
    <3>2. CASE n # seq + 1
      <4>1. Held(n)
        BY <1>1, <3>2 DEF AllHeld, Sound, ReplayInv, Line1
      <4> QED
        BY <1>7, <2>1, <4>1 DEF Held, InSome
    <3> QED
      BY <3>1, <3>2
  <2> QED
    BY <1>5, <1>7, <2>2, <2>3 DEF ReplayInv, Line1
<1> QED
  BY <1>4, <1>6, <1>7

(* The first number of a life follows what is listed. *)
LEMMA BootReplay == RecInv /\ ReplayInv /\ Boot => ReplayInv'
<1> SUFFICES ASSUME RecInv, ReplayInv, Boot PROVE ReplayInv'
  OBVIOUS
<1> DEFINE first == [q |-> StartSeq + 1, r |-> now, life |-> life + 1]
<1>1. /\ proc = "off" /\ proc' = "up" /\ seq' = StartSeq + 1 /\ queue' = <<first>> /\ writer' = TRUE
      /\ cur' = NoFile /\ buf' = << >> /\ UNCHANGED <<now, dropped, disk, manifest, crashes>>
  BY DEF Boot
<1>2. /\ StartSeq \in Nat /\ \A m \in manifest : m.last <= StartSeq
      /\ StartSeq = SeqStart \/ \E m \in manifest : StartSeq = m.last
      /\ StartSeq >= SeqStart
  BY StartSeqIsLast, RecAssumption DEF RecInv, Layout
<1>3. cur = NoFile /\ buf = << >> /\ queue = << >> /\ ~writer
  BY <1>1 DEF RecInv, Layout, Idle, OpenFile
<1>4. first.q = StartSeq + 1 /\ first.r = now
  OBVIOUS
<1> HIDE DEF first
<1>5. Len(queue') = 1 /\ queue'[1] = first
  BY <1>1
<1>6. /\ seq \in Nat /\ SeqStart \in Nat /\ now \in Nat
      /\ \A f \in DOMAIN disk : f.q \in Nat /\ f.r \in Nat
      /\ \A m \in manifest : m.last \in Nat
  BY NumberTypes DEF RecInv
<1>7. Shelf'
  <2>1. \A m \in manifest : m.last <= seq'
    BY <1>1, <1>2, <1>6
  <2>2. Sound' => Sound
    BY <1>1 DEF Sound, Running
  <2> QED
    BY <1>1, <1>3, <1>6, <2>1, <2>2, ShelfStays DEF ReplayInv
<1>8. Handed' = StartSeq
  BY <1>1, <1>2, <1>5 DEF Handed
<1>9. NextOf(StartSeq + 1, manifest)
  BY <1>2, <1>6 DEF NextOf
<1>10. InRow'
  <2>1. Gapless'
    BY <1>1, <1>4, <1>5, <1>8, <1>9 DEF Gapless
  <2> QED
    BY <2>1 DEF InRow
<1>11. Orphans'
  <2> SUFFICES ASSUME dropped = {}, NEW f \in DOMAIN disk, ~Named(manifest, f) PROVE Behind(f)'
    BY <1>1 DEF Orphans
  <2>1. NextOf(f.q, manifest) /\ f.r <= now
    BY DEF ReplayInv, Shelf, Starts
  <2>2. f.q <= StartSeq + 1
    BY <1>2, <1>6, <2>1 DEF NextOf
  <2>3. f.q < first.q \/ (f.q = first.q /\ f.r <= first.r)
    BY <1>2, <1>4, <1>6, <2>1, <2>2
  <2>4. \A j \in 1..Len(queue') : queue'[j] = first
    BY <1>5
  <2> QED
    BY <1>1, <2>2, <2>3, <2>4 DEF Behind
<1>12. AllHeld'
  <2> SUFFICES ASSUME crashes = 0, NEW n \in SeqStart + 1..(StartSeq + 1) PROVE Held(n)'
    BY <1>1 DEF AllHeld, Sound
  <2>1. CASE n = StartSeq + 1
    <3>1. In(first, queue')
      BY <1>5 DEF In
    <3> QED
      BY <1>4, <2>1, <3>1 DEF Held
  <2>2. CASE n # StartSeq + 1
    <3>1. StartSeq <= seq
      <4>1. SeqStart <= seq
        BY RecAssumption DEF RecInv, TypeOK
      <4> QED
        BY <1>2, <4>1 DEF ReplayInv, Shelf
    <3>2. n \in SeqStart + 1..seq
      BY <1>2, <1>6, <2>2, <3>1
    <3>3. Held(n)
      BY <1>1, <3>2 DEF ReplayInv, Line1, AllHeld, Sound, Running
    <3>4. \A x : ~In(x, queue) /\ ~In(x, buf)
      BY <1>3 DEF In
    <3> QED
      BY <1>1, <3>3, <3>4 DEF Held, InSome
  <2> QED
    BY <2>1, <2>2
<1>13. \A j \in 1..Len(queue') : queue'[j].r <= now
  BY <1>4, <1>5, <1>6
<1> QED
  BY <1>1, <1>7, <1>10, <1>11, <1>12, <1>13 DEF ReplayInv, Line1

(* The clock, the end of a process, and whatever leaves all this alone. *)
LEMMA QuietReplay ==
  ASSUME RecInv, ReplayInv, proc' = proc \/ ~(Running \/ Running'), now' \in Nat, now' >= now,
         UNCHANGED <<life, seq, queue, dropped, writer, cur, buf, disk, manifest, crashes>>
  PROVE  ReplayInv'
<1>1. Shelf'
  BY ShelfStays DEF ReplayInv, Shelf, Sound, Running
<1>2. Running' = Running
  BY DEF Running
<1>3. InRow'
  BY DEF ReplayInv, Line1, InRow, Gapless, Handed, Flushed
<1>4. Orphans'
  BY <1>2 DEF ReplayInv, Line1, Orphans, Behind
<1>5. \A j \in 1..Len(queue) : queue[j].r <= now'
  BY NumberTypes DEF ReplayInv, Line1, RecInv
<1>6. AllHeld'
  BY <1>2 DEF ReplayInv, Line1, AllHeld, Sound, Held, InSome
<1> QED
  BY <1>1, <1>3, <1>4, <1>5, <1>6 DEF ReplayInv, Line1

-----------------------------------------------------------------------------
LEMMA FlushedClimbs ==
  ASSUME RecInv, Shelf, cur # NoFile
  PROVE  ~disk[cur].whole /\ Climbs(Flushed)
<1>1. cur \in DOMAIN disk
  BY FlushedIs
<1>2. ~disk[cur].whole
  BY DEF Shelf
<1>3. disk[cur].lines \in Seq(Event) /\ buf \in Seq(Event)
  BY <1>1, Sequences DEF RecInv
<1>4. Climbs(disk[cur].lines) /\ Climbs(buf) /\ Under(disk[cur].lines, buf)
  BY <1>1 DEF Shelf, Tidy
<1> QED
  BY <1>2, <1>3, <1>4, ClimbConcat DEF Flushed

LEMMA PutFile ==
  ASSUME NEW d, NEW f \in DOMAIN d, NEW x, NEW e, e = Put(d, f, x)
  PROVE  DOMAIN e = DOMAIN d /\ e[f] = x /\ \A g \in DOMAIN d : g # f => e[g] = d[g]
<1>1. DOMAIN d \cup {f} = DOMAIN d
  OBVIOUS
<1> QED
  BY <1>1 DEF Put

(* Only the open file gets other lines. *)
LEMMA ShelfGrows ==
  ASSUME RecInv, Shelf, cur # NoFile, NEW d, DOMAIN d = DOMAIN disk,
         Climbs(d[cur].lines), \A i \in 1..Len(d[cur].lines) : cur.q <= d[cur].lines[i].q,
         \A f \in DOMAIN disk : f # cur => d[f] = disk[f]
  PROVE  /\ Tidy(d, manifest)
         /\ dropped = {} => Shadows(d, manifest) /\ Starts(d, manifest)
<1>1. ~Named(manifest, cur)
  BY FlushedIs DEF Named
<1>2. \A f \in DOMAIN disk : Named(manifest, f) => f # cur /\ d[f] = disk[f]
  BY <1>1
<1>3. ASSUME NEW f \in DOMAIN d
      PROVE  Climbs(d[f].lines) /\ \A i \in 1..Len(d[f].lines) : f.q <= d[f].lines[i].q
  BY DEF Shelf, Tidy
<1>4. ASSUME NEW f \in DOMAIN d, Named(manifest, f)
      PROVE  \E m \in manifest : m.file = f /\ \A i \in 1..Len(d[f].lines) : d[f].lines[i].q <= m.last
  BY <1>2, <1>4 DEF Shelf, Tidy
<1>5. ASSUME NEW f \in DOMAIN d, NEW g \in DOMAIN d, f # g, Named(manifest, f), Named(manifest, g)
      PROVE  Apart(d, f, g)
  BY <1>2, <1>5 DEF Shelf, Tidy, Apart
<1>6. ASSUME dropped = {} PROVE Shadows(d, manifest) /\ Starts(d, manifest)
  <2>1. ASSUME NEW w \in DOMAIN d, NEW f \in DOMAIN d, Named(manifest, w), ~Named(manifest, f)
        PROVE  Below(d[w].lines, f.q) \/ Earlier(f, w)
    BY <1>2, <1>6, <2>1 DEF Shelf, Shadows
  <2>2. ASSUME NEW f \in DOMAIN d, ~Named(manifest, f) PROVE NextOf(f.q, manifest)
    BY <1>2, <1>6, <2>2 DEF Shelf, Starts
  <2> QED
    BY <2>1, <2>2 DEF Shadows, Starts
<1> QED
  BY <1>3, <1>4, <1>5, <1>6 DEF Tidy

LEMMA FlushReplay == RecInv /\ ReplayInv /\ Flush => ReplayInv'
<1> SUFFICES ASSUME RecInv, ReplayInv, Flush PROVE ReplayInv'
  OBVIOUS
<1>1. /\ cur # NoFile /\ buf' = << >>
      /\ disk' = Put(disk, cur, [disk[cur] EXCEPT !.lines = Flushed])
      /\ UNCHANGED <<proc, life, seq, now, queue, dropped, writer, cur, manifest, crashes>>
  BY DEF Flush
<1>2. /\ cur \in DOMAIN disk /\ Flushed \in Seq(Event)
      /\ \A i \in 1..Len(Flushed) : cur.q <= Flushed[i].q
  BY <1>1, FlushedIs
<1>3. ~disk[cur].whole /\ Climbs(Flushed)
  BY <1>1, FlushedClimbs DEF ReplayInv
<1>4. disk[cur] \in [life : 1..MaxLives, lines : Seq(Event), whole : BOOLEAN] /\ buf \in Seq(Event)
  BY <1>2 DEF RecInv, TypeOK
<1>5. \A x : In(x, Flushed) <=> In(x, disk[cur].lines) \/ In(x, buf)
  BY <1>4, InConcat DEF Flushed
<1> DEFINE F == Flushed
<1>6. F = Flushed
  OBVIOUS
<1> HIDE DEF F
<1>7. DOMAIN disk' = DOMAIN disk /\ disk'[cur].lines = F /\ disk'[cur].whole = disk[cur].whole
      /\ \A f \in DOMAIN disk : f # cur => disk'[f] = disk[f]
  <2> DEFINE new == [disk[cur] EXCEPT !.lines = F]
  <2>1. disk' = Put(disk, cur, new)
    BY <1>1, <1>6
  <2>2. new.lines = F /\ new.whole = disk[cur].whole
    BY <1>4
  <2> HIDE DEF new
  <2>3. DOMAIN disk' = DOMAIN disk /\ disk'[cur] = new
        /\ \A f \in DOMAIN disk : f # cur => disk'[f] = disk[f]
    BY <1>2, <2>1, PutFile
  <2> QED
    BY <2>2, <2>3
<1>8. /\ Tidy(disk', manifest)
      /\ dropped = {} => Shadows(disk', manifest) /\ Starts(disk', manifest)
  BY <1>1, <1>2, <1>3, <1>6, <1>7, ShelfGrows DEF ReplayInv
<1>9. Shelf'
  <2>1. Climbs(buf') /\ Under(disk'[cur].lines, buf')
    BY <1>1 DEF Climbs, Under
  <2>2. /\ Sound => \A f \in DOMAIN disk : f = cur \/ Named(manifest, f)
        /\ \A f \in DOMAIN disk : f.r <= now
        /\ \A m \in manifest : m.last <= seq
    BY DEF ReplayInv, Shelf
  <2>3. Sound' = Sound
    BY <1>1 DEF Sound, Running
  <2> QED
    BY <1>1, <1>3, <1>7, <1>8, <2>1, <2>2, <2>3 DEF Shelf
<1>10. Flushed' = Flushed
  <2>1. F \o << >> = F
    BY <1>2, <1>6
  <2> QED
    BY <1>1, <1>6, <1>7, <2>1 DEF Flushed
<1>11. InRow'
  BY <1>1, <1>10 DEF ReplayInv, Line1, InRow, Gapless, Handed
<1>12. Orphans'
  BY <1>1, <1>7 DEF ReplayInv, Line1, Orphans, Behind, Running
<1>13. AllHeld'
  <2>1. ASSUME NEW x, In(x, buf) \/ InSome(x, disk) PROVE InSome(x, disk')
    <3>1. CASE In(x, buf)
      BY <1>2, <1>5, <1>6, <1>7, <3>1 DEF InSome
    <3>2. CASE InSome(x, disk)
      <4>1. PICK f \in DOMAIN disk : In(x, disk[f].lines)
        BY <3>2 DEF InSome
      <4>2. In(x, disk'[f].lines)
        BY <1>5, <1>6, <1>7, <4>1
      <4> QED
        BY <1>7, <4>2 DEF InSome
    <3> QED
      BY <2>1, <3>1, <3>2
  <2>2. \A n : Held(n) => Held(n)'
    BY <1>1, <2>1 DEF Held
  <2> QED
    BY <1>1, <2>2 DEF ReplayInv, Line1, AllHeld, Sound, Running
<1> QED
  BY <1>1, <1>9, <1>11, <1>12, <1>13 DEF ReplayInv, Line1

-----------------------------------------------------------------------------
(* What closing the open file makes of the disk. *)
LEMMA ClosedFiles ==
  ASSUME RecInv
  PROVE  /\ manifest \subseteq ClosedManifest
         /\ \A f \in DOMAIN disk : f # cur => ClosedDisk[f] = disk[f]
         /\ cur # NoFile =>
              /\ ClosedDisk[cur].lines = Flushed /\ ClosedDisk[cur].whole
              /\ \E m \in ClosedManifest : m.file = cur /\ m.last = Flushed[Len(Flushed)].q
         /\ \A m \in ClosedManifest : m \in manifest \/ (cur # NoFile /\ m.file = cur)
         /\ \A f \in DOMAIN disk : Named(ClosedManifest, f) <=> f = cur \/ Named(manifest, f)
<1>1. CASE cur = NoFile
  <2>1. \A f \in DOMAIN disk : f # NoFile
    BY NumberTypes DEF RecInv
  <2> QED
    BY <1>1, <2>1 DEF ClosedDisk, ClosedManifest
<1>2. CASE cur # NoFile
  <2> DEFINE x == [life |-> life, lines |-> Flushed, whole |-> TRUE]
             m == [file |-> cur, last |-> Flushed[Len(Flushed)].q, sha |-> Flushed]
  <2>1. ClosedDisk = Put(disk, cur, x) /\ ClosedManifest = manifest \cup {m}
    BY <1>2 DEF ClosedDisk, ClosedManifest, Last
  <2>2. x.lines = Flushed /\ x.whole /\ m.file = cur /\ m.last = Flushed[Len(Flushed)].q
    OBVIOUS
  <2>3. cur \in DOMAIN disk
    BY <1>2, FlushedIs
  <2> HIDE DEF x, m
  <2>4. ClosedDisk[cur] = x /\ \A f \in DOMAIN disk : f # cur => ClosedDisk[f] = disk[f]
    BY <2>1, <2>3, PutFile
  <2>5. \A f : Named(ClosedManifest, f) <=> f = cur \/ Named(manifest, f)
    BY <2>1, <2>2 DEF Named
  <2> QED
    BY <1>2, <2>1, <2>2, <2>4, <2>5
<1> QED
  BY <1>1, <1>2

LEMMA ClosedTidy ==
  ASSUME RecInv, ReplayInv
  PROVE  /\ Tidy(ClosedDisk, ClosedManifest)
         /\ Sound => \A f \in DOMAIN disk : Named(ClosedManifest, f)
         /\ \A f \in DOMAIN disk : ~Named(ClosedManifest, f) => f # cur /\ ~Named(manifest, f)
<1>1. DOMAIN ClosedDisk = DOMAIN disk
  BY ClosedIs
<1>2. /\ manifest \subseteq ClosedManifest
      /\ \A f \in DOMAIN disk : f # cur => ClosedDisk[f] = disk[f]
      /\ cur # NoFile =>
           /\ ClosedDisk[cur].lines = Flushed /\ ClosedDisk[cur].whole
           /\ \E m \in ClosedManifest : m.file = cur /\ m.last = Flushed[Len(Flushed)].q
      /\ \A f \in DOMAIN disk : Named(ClosedManifest, f) <=> f = cur \/ Named(manifest, f)
  BY ClosedFiles
<1>3. \A f \in DOMAIN disk : f # NoFile
  BY NumberTypes DEF RecInv
<1>4. ASSUME NEW f \in DOMAIN disk
      PROVE  Climbs(ClosedDisk[f].lines)
             /\ \A i \in 1..Len(ClosedDisk[f].lines) : f.q <= ClosedDisk[f].lines[i].q
  <2>1. CASE f = cur
    BY <1>2, <1>3, <2>1, FlushedIs, FlushedClimbs DEF ReplayInv
  <2>2. CASE f # cur
    BY <1>2, <2>2 DEF ReplayInv, Shelf, Tidy
  <2> QED
    BY <2>1, <2>2
<1>5. ASSUME NEW f \in DOMAIN disk, Named(ClosedManifest, f)
      PROVE  \E m \in ClosedManifest :
               m.file = f /\ \A i \in 1..Len(ClosedDisk[f].lines) : ClosedDisk[f].lines[i].q <= m.last
  <2>1. CASE f = cur
    <3>1. cur # NoFile
      BY <1>3, <2>1
    <3>2. PICK m \in ClosedManifest : m.file = cur /\ m.last = Flushed[Len(Flushed)].q
      BY <1>2, <3>1
    <3>3. Climbs(Flushed) /\ Len(Flushed) \in Nat \ {0} /\ \A i \in 1..Len(Flushed) : Flushed[i].q \in Nat
      BY <3>1, FlushedIs, FlushedClimbs DEF ReplayInv
    <3>4. \A i \in 1..Len(Flushed) : Flushed[i].q <= Flushed[Len(Flushed)].q
      <4> TAKE i \in 1..Len(Flushed)
      <4>1. Len(Flushed) \in 1..Len(Flushed) /\ (i = Len(Flushed) \/ i < Len(Flushed))
        BY <3>3
      <4> QED
        BY <3>3, <4>1 DEF Climbs
    <3> QED
      BY <1>2, <2>1, <3>1, <3>2, <3>4
  <2>2. CASE f # cur
    BY <1>2, <1>5, <2>2 DEF ReplayInv, Shelf, Tidy
  <2> QED
    BY <2>1, <2>2
<1>6. ASSUME NEW f \in DOMAIN disk, f # cur, Named(ClosedManifest, f), cur # NoFile
      PROVE  Below(ClosedDisk[f].lines, cur.q)
  <2>1. ClosedDisk[f] = disk[f]
    BY <1>2, <1>6
  <2>2. PICK m \in manifest : m.file = f /\ \A i \in 1..Len(disk[f].lines) : disk[f].lines[i].q <= m.last
    BY <1>2, <1>6, <2>1 DEF ReplayInv, Shelf, Tidy
  <2>3. m.last < cur.q /\ m.last \in Nat /\ cur \in DOMAIN disk
    BY <1>6, NumberTypes, FlushedIs DEF RecInv, Layout, Listed
  <2>4. cur.q \in Nat /\ \A i \in 1..Len(disk[f].lines) : disk[f].lines[i].q \in Nat
    BY <2>3, NumberTypes, Sequences, EventIs DEF RecInv
  <2> QED
    BY <2>1, <2>2, <2>3, <2>4 DEF Below
<1>7. ASSUME NEW f \in DOMAIN disk, NEW g \in DOMAIN disk, f # g,
             Named(ClosedManifest, f), Named(ClosedManifest, g)
      PROVE  Apart(ClosedDisk, f, g)
  <2>1. CASE f = cur
    BY <1>3, <1>6, <1>7, <2>1 DEF Apart
  <2>2. CASE g = cur
    BY <1>3, <1>6, <1>7, <2>2 DEF Apart
  <2>3. CASE f # cur /\ g # cur
    BY <1>2, <1>7, <2>3 DEF ReplayInv, Shelf, Tidy, Apart
  <2> QED
    BY <2>1, <2>2, <2>3
<1>8. \A f \in DOMAIN disk : ~Named(ClosedManifest, f) => f # cur /\ ~Named(manifest, f)
  BY <1>2, <1>3
<1>9. Sound => \A f \in DOMAIN disk : Named(ClosedManifest, f)
  BY <1>2, <1>3 DEF ReplayInv, Shelf
<1> QED
  BY <1>1, <1>4, <1>5, <1>7, <1>8, <1>9 DEF Tidy

(* The last number handed over is in the file: the next one follows it. *)
LEMMA ClosedShadows ==
  ASSUME RecInv, ReplayInv, dropped = {}, writer
  PROVE  /\ Shadows(ClosedDisk, ClosedManifest) /\ Starts(ClosedDisk, ClosedManifest)
         /\ NextOf(Handed + 1, ClosedManifest)
<1>1. DOMAIN ClosedDisk = DOMAIN disk /\ manifest \subseteq ClosedManifest
      /\ \A f \in DOMAIN disk : f # cur => ClosedDisk[f] = disk[f]
  BY ClosedIs, ClosedFiles
<1>open. \A f \in DOMAIN disk : ~Named(ClosedManifest, f) => f # cur /\ ~Named(manifest, f)
  BY ClosedTidy
<1>2. Running
  BY DEF RecInv, Layout, Idle, TypeOK, Running
<1>3. \A f \in DOMAIN disk : f # NoFile
  BY NumberTypes DEF RecInv
<1>4. ASSUME NEW w \in DOMAIN disk, NEW f \in DOMAIN disk, Named(ClosedManifest, w), ~Named(ClosedManifest, f)
      PROVE  Below(ClosedDisk[w].lines, f.q) \/ Earlier(f, w)
  <2>1. f # cur /\ ~Named(manifest, f)
    BY <1>open, <1>4
  <2>2. CASE w = cur
    BY <1>2, <1>3, <2>1, <2>2 DEF ReplayInv, Line1, Orphans, Behind
  <2>3. CASE w # cur
    <3>1. Named(manifest, w)
      BY <1>4, <2>3, ClosedFiles
    <3> QED
      BY <1>1, <2>1, <2>3, <3>1 DEF ReplayInv, Shelf, Shadows
  <2> QED
    BY <2>2, <2>3
<1>5. ASSUME NEW f \in DOMAIN disk, ~Named(ClosedManifest, f) PROVE NextOf(f.q, ClosedManifest)
  <2>1. f # cur /\ ~Named(manifest, f)
    BY <1>open, <1>5
  <2>2. Starts(disk, manifest)
    BY DEF ReplayInv, Shelf
  <2>3. NextOf(f.q, manifest)
    BY <2>1, <2>2 DEF Starts
  <2> QED
    BY <1>1, <2>3 DEF NextOf
<1>6. NextOf(Handed + 1, ClosedManifest)
  <2>1. Gapless
    BY DEF ReplayInv, Line1, InRow
  <2>2. CASE cur = NoFile
    BY <1>1, <2>1, <2>2 DEF Gapless, NextOf
  <2>3. CASE cur # NoFile
    <3>1. PICK m \in ClosedManifest : m.last = Handed
      BY <2>1, <2>3, ClosedFiles DEF Gapless
    <3>2. Handed \in Int
      BY NumberTypes DEF Handed, RecInv
    <3>3. Handed + 1 <= m.last + 1
      BY <3>1, <3>2
    <3> QED
      BY <3>3 DEF NextOf
  <2> QED
    BY <2>2, <2>3
<1> QED
  BY <1>1, <1>4, <1>5, <1>6 DEF Shadows, Starts

(* Nothing that was written is lost with it. *)
LEMMA ClosedHolds ==
  ASSUME RecInv, NEW x, In(x, buf) \/ InSome(x, disk)
  PROVE  InSome(x, ClosedDisk)
<1>1. DOMAIN ClosedDisk = DOMAIN disk
  BY ClosedIs
<1>other. \A f \in DOMAIN disk : f # cur => ClosedDisk[f] = disk[f]
  BY ClosedFiles
<1>open. cur # NoFile => ClosedDisk[cur].lines = Flushed
  BY ClosedFiles
<1>2. ASSUME cur # NoFile
      PROVE  cur \in DOMAIN disk /\ (In(x, Flushed) <=> In(x, disk[cur].lines) \/ In(x, buf))
  <2>1. cur \in DOMAIN disk
    BY <1>2, FlushedIs
  <2>2. disk[cur].lines \in Seq(Event) /\ buf \in Seq(Event)
    BY <2>1, Sequences DEF RecInv
  <2> QED
    BY <2>1, <2>2, InConcat DEF Flushed
<1>3. CASE In(x, buf)
  <2>1. cur # NoFile
    BY <1>3 DEF RecInv, Layout, OpenFile, In
  <2>2. cur \in DOMAIN ClosedDisk
    BY <1>1, <1>2, <2>1
  <2>3. In(x, ClosedDisk[cur].lines)
    BY <1>open, <1>2, <1>3, <2>1
  <2> QED
    BY <2>2, <2>3 DEF InSome
<1>4. CASE InSome(x, disk)
  <2>1. PICK f \in DOMAIN disk : In(x, disk[f].lines)
    BY <1>4 DEF InSome
  <2>2. CASE f = cur
    <3>1. cur # NoFile
      BY <2>2, NumberTypes DEF RecInv
    <3>2. cur \in DOMAIN ClosedDisk
      BY <1>1, <1>2, <3>1
    <3>3. In(x, ClosedDisk[cur].lines)
      BY <1>open, <1>2, <2>1, <2>2, <3>1
    <3> QED
      BY <3>2, <3>3 DEF InSome
  <2>3. CASE f # cur
    <3>1. f \in DOMAIN ClosedDisk
      BY <1>1
    <3>2. ClosedDisk[f] = disk[f]
      BY <1>other, <2>3
    <3>3. In(x, ClosedDisk[f].lines)
      BY <2>1, <3>2
    <3> QED
      BY <3>1, <3>3 DEF InSome
  <2> QED
    BY <2>2, <2>3
<1> QED
  BY <1>3, <1>4

LEMMA CloseReplay == RecInv /\ ReplayInv /\ Close => ReplayInv'
<1> SUFFICES ASSUME RecInv, ReplayInv, Close PROVE ReplayInv'
  OBVIOUS
<1>1. /\ queue = << >> /\ writer /\ disk' = ClosedDisk /\ manifest' = ClosedManifest
      /\ proc = "closing" /\ proc' = "stored" /\ writer' = FALSE /\ cur' = NoFile /\ buf' = << >>
      /\ UNCHANGED <<life, seq, now, queue, dropped, crashes>>
  BY DEF Close
<1>2. DOMAIN ClosedDisk = DOMAIN disk /\ \A m \in ClosedManifest : m.last <= seq
  BY <1>1, ClosedIs
<1>3. Shelf'
  <2>1. Climbs(buf') /\ \A f \in DOMAIN disk : f.r <= now
    BY <1>1 DEF Climbs, ReplayInv, Shelf
  <2>2. Tidy(ClosedDisk, ClosedManifest) /\ (Sound => \A f \in DOMAIN disk : Named(ClosedManifest, f))
    BY ClosedTidy
  <2>3. dropped = {} => Shadows(ClosedDisk, ClosedManifest) /\ Starts(ClosedDisk, ClosedManifest)
    BY <1>1, ClosedShadows
  <2>4. Sound' => Sound
    BY <1>1 DEF Sound
  <2> QED
    BY <1>1, <1>2, <2>1, <2>2, <2>3, <2>4 DEF Shelf
<1>4. AllHeld'
  <2>1. ASSUME NEW n, Held(n) PROVE Held(n)'
    <3>1. \A x : ~In(x, queue)
      BY <1>1 DEF In
    <3> QED
      BY <1>1, <2>1, <3>1, ClosedHolds DEF Held, InSome
  <2> QED
    BY <1>1, <2>1 DEF ReplayInv, Line1, AllHeld, Sound, Running
<1>5. InRow' /\ Orphans'
  BY <1>1 DEF InRow, Orphans, Running
<1> QED
  BY <1>1, <1>3, <1>4, <1>5 DEF ReplayInv, Line1

(* What a closing that goes only so far leaves: a file with its line, or   *)
(* one more without.                                                       *)
LEMMA PartTidy ==
  ASSUME RecInv, ReplayInv, PartlyClosed
  PROVE  /\ DOMAIN disk' = DOMAIN disk /\ Tidy(disk', manifest')
         /\ dropped = {} => Shadows(disk', manifest') /\ Starts(disk', manifest')
         /\ \A f \in DOMAIN disk : ~Named(manifest', f) => ~Named(manifest, f)
<1>1. /\ writer /\ cur # NoFile /\ disk' = ClosedDisk
      /\ manifest' = manifest \/ manifest' = ClosedManifest
  BY PartlyIs
<1>2. DOMAIN ClosedDisk = DOMAIN disk
  BY ClosedIs
<1>3. CASE manifest' = manifest
  <2>1. /\ ClosedDisk[cur].lines = Flushed
        /\ \A f \in DOMAIN disk : f # cur => ClosedDisk[f] = disk[f]
    BY <1>1, ClosedFiles
  <2>2. Climbs(Flushed) /\ \A i \in 1..Len(Flushed) : cur.q <= Flushed[i].q
    BY <1>1, FlushedIs, FlushedClimbs DEF ReplayInv
  <2>3. /\ Tidy(ClosedDisk, manifest)
        /\ dropped = {} => Shadows(ClosedDisk, manifest) /\ Starts(ClosedDisk, manifest)
    BY <1>1, <1>2, <2>1, <2>2, ShelfGrows DEF ReplayInv
  <2> QED
    BY <1>1, <1>2, <1>3, <2>3
<1>4. CASE manifest' = ClosedManifest
  BY <1>1, <1>2, <1>4, ClosedTidy, ClosedShadows
<1> QED
  BY <1>1, <1>3, <1>4

(* The writer dies with an event: nothing is claimed of the queue then. *)
LEMMA WriterDiesReplay == RecInv /\ ReplayInv /\ WriterDies => ReplayInv'
<1> SUFFICES ASSUME RecInv, ReplayInv, WriterDies PROVE ReplayInv'
  OBVIOUS
<1>1. /\ queue' = Tail(queue) /\ queue # << >> /\ writer /\ writer' = FALSE
      /\ UNCHANGED <<proc, life, seq, now, dropped, crashes>>
  BY DEF WriterDies
<1>2. /\ Len(queue') = Len(queue) - 1
      /\ \A i \in 1..Len(queue') : queue'[i] = queue[i + 1] /\ i + 1 \in 1..Len(queue)
  BY <1>1, Sequences DEF RecInv
<1>3. Running
  BY <1>1 DEF RecInv, Layout, Idle, TypeOK, Running
<1>4. ~Sound'
  BY <1>1, <1>3 DEF Sound, Running
<1>5. \A j \in 1..Len(queue') : queue'[j].r <= now
  BY <1>2 DEF ReplayInv, Line1
<1>6. Shelf' /\ Orphans'
  <2>1. CASE UNCHANGED <<cur, buf, disk, manifest>>
    <3>1. Shelf'
      BY <1>1, <1>4, <2>1, NumberTypes, ShelfStays DEF ReplayInv, RecInv, Shelf
    <3>2. Orphans'
      BY <1>1, <1>2, <2>1 DEF ReplayInv, Line1, Orphans, Behind, Running
    <3> QED
      BY <3>1, <3>2
  <2>2. CASE PartlyClosed /\ cur' = NoFile /\ buf' = << >>
    <3>1. Shelf'
      <4>1. Climbs(buf') /\ \A f \in DOMAIN disk : f.r <= now
        BY <2>2 DEF Climbs, ReplayInv, Shelf
      <4>2. \A m \in manifest' : m.last <= seq
        BY <1>3, <2>2, PartlyIs DEF Running
      <4> QED
        BY <1>1, <1>4, <2>2, <4>1, <4>2, PartTidy DEF Shelf
    <3>2. Orphans'
      <4> SUFFICES ASSUME dropped = {}, NEW f \in DOMAIN disk, ~Named(manifest', f) PROVE Behind(f)'
        BY <1>1, <2>2, PartTidy DEF Orphans
      <4>1. CASE f = cur
        <5>1. cur # NoFile
          BY <2>2, PartlyIs
        <5>2. /\ Len(Flushed) \in Nat \ {0} /\ cur.q <= Flushed[1].q /\ Waits(Flushed[1].q)
              /\ Flushed[1].q \in Nat
          BY <5>1, FlushedIs
        <5>3. cur.q \in Nat /\ seq \in Nat /\ \A j \in 1..Len(queue) : queue[j].q \in Nat
          BY <4>1, NumberTypes DEF RecInv
        <5>4. cur.q <= seq /\ \A j \in 1..Len(queue) : cur.q < queue[j].q
          BY <5>2, <5>3 DEF Waits
        <5> QED
          BY <1>1, <1>2, <2>2, <4>1, <5>4 DEF Behind
      <4>2. CASE f # cur
        <5>1. Behind(f)
          BY <1>3, <2>2, <4>2, PartTidy DEF ReplayInv, Line1, Orphans
        <5> QED
          BY <1>1, <1>2, <2>2, <5>1 DEF Behind
      <4> QED
        BY <4>1, <4>2
    <3> QED
      BY <3>1, <3>2
  <2> QED
    BY <2>1, <2>2 DEF WriterDies
<1> QED
  BY <1>1, <1>4, <1>5, <1>6 DEF ReplayInv, Line1, InRow, AllHeld

LEMMA CrashReplay == RecInv /\ ReplayInv /\ Crash => ReplayInv'
<1> SUFFICES ASSUME RecInv, ReplayInv, Crash PROVE ReplayInv'
  OBVIOUS
<1>1. /\ proc' = "off" /\ queue' = << >> /\ writer' = FALSE /\ cur' = NoFile /\ buf' = << >>
      /\ crashes' = crashes + 1 /\ UNCHANGED <<life, seq, now, dropped>>
  BY DEF Crash
<1>2. crashes' # 0
  BY <1>1, RecAssumption DEF RecInv, TypeOK
<1>3. /\ Tidy(disk', manifest') /\ DOMAIN disk' = DOMAIN disk
      /\ dropped = {} => Shadows(disk', manifest') /\ Starts(disk', manifest')
      /\ \A m \in manifest' : m.last <= seq
  <2>1. CASE cur = NoFile /\ UNCHANGED <<disk, manifest>>
    BY <2>1 DEF ReplayInv, Shelf
  <2>2. CASE /\ cur # NoFile /\ UNCHANGED manifest
             /\ \E n \in 0..Len(buf) :
                   disk' = Put(disk, cur, [disk[cur] EXCEPT !.lines = @ \o SubSeq(buf, 1, n)])
    <3>1. PICK n \in 0..Len(buf) :
            disk' = Put(disk, cur, [disk[cur] EXCEPT !.lines = @ \o SubSeq(buf, 1, n)])
      BY <2>2
    <3>2. /\ cur \in DOMAIN disk /\ disk[cur].lines \in Seq(Event) /\ buf \in Seq(Event)
          /\ disk[cur] \in [life : 1..MaxLives, lines : Seq(Event), whole : BOOLEAN]
      BY <2>2, FlushedIs, Sequences DEF RecInv, TypeOK
    <3> DEFINE head == SubSeq(buf, 1, n)
               F == disk[cur].lines \o head
    <3>3. head \in Seq(Event) /\ Len(head) = n /\ \A i \in 1..n : head[i] = buf[i] /\ i \in 1..Len(buf)
      BY <3>1, <3>2
    <3> HIDE DEF head
    <3>4. Climbs(head) /\ Under(disk[cur].lines, head)
      <4>1. Climbs(buf) /\ Under(disk[cur].lines, buf)
        BY <2>2 DEF ReplayInv, Shelf
      <4> QED
        BY <3>3, <4>1 DEF Climbs, Under
    <3>5. Climbs(F)
      <4>1. Climbs(disk[cur].lines)
        BY <3>2 DEF ReplayInv, Shelf, Tidy
      <4> QED
        BY <3>2, <3>3, <3>4, <4>1, ClimbConcat
    <3>6. \A i \in 1..Len(F) : cur.q <= F[i].q
      <4> TAKE i \in 1..Len(F)
      <4>1. CASE \E j \in 1..Len(disk[cur].lines) : F[i] = disk[cur].lines[j]
        BY <3>2, <4>1 DEF ReplayInv, Shelf, Tidy
      <4>2. CASE \E j \in 1..Len(head) : F[i] = head[j]
        BY <2>2, <3>3, <4>2 DEF RecInv, Layout, OpenFile
      <4> QED
        BY <3>2, <3>3, <4>1, <4>2, ConcatIs
    <3>7. disk' = Put(disk, cur, [disk[cur] EXCEPT !.lines = F])
      BY <3>1 DEF head
    <3> HIDE DEF F
    <3>8. DOMAIN disk' = DOMAIN disk /\ disk'[cur].lines = F /\ disk'[cur].whole = disk[cur].whole
          /\ \A f \in DOMAIN disk : f # cur => disk'[f] = disk[f]
      <4> DEFINE new == [disk[cur] EXCEPT !.lines = F]
      <4>1. disk' = Put(disk, cur, new)
        BY <3>7
      <4>2. new.lines = F /\ new.whole = disk[cur].whole
        BY <3>2
      <4> HIDE DEF new
      <4>3. DOMAIN disk' = DOMAIN disk /\ disk'[cur] = new
            /\ \A f \in DOMAIN disk : f # cur => disk'[f] = disk[f]
        BY <3>2, <4>1, PutFile
      <4> QED
        BY <4>2, <4>3
    <3>9. /\ Tidy(disk', manifest)
          /\ dropped = {} => Shadows(disk', manifest) /\ Starts(disk', manifest)
      BY <2>2, <3>5, <3>6, <3>8, ShelfGrows DEF ReplayInv
    <3>10. \A m \in manifest : m.last <= seq
      BY DEF ReplayInv, Shelf
    <3> QED
      BY <2>2, <3>8, <3>9, <3>10
  <2>3. CASE PartlyClosed
    <3>1. proc # "off"
      BY DEF Crash
    <3> QED
      BY <2>3, <3>1, PartTidy, PartlyIs
  <2> QED
    BY <2>1, <2>2, <2>3 DEF Crash
<1>4. Shelf'
  <2>1. Climbs(buf')
    BY <1>1 DEF Climbs
  <2>2. \A f \in DOMAIN disk : f.r <= now
    BY DEF ReplayInv, Shelf
  <2> QED
    BY <1>1, <1>2, <1>3, <2>1, <2>2 DEF Shelf, Sound
<1> QED
  BY <1>1, <1>2, <1>4 DEF ReplayInv, Line1, InRow, Orphans, AllHeld, Sound, Running

-----------------------------------------------------------------------------
(* The writer takes the first of the queue. *)
LEMMA TakenIs ==
  ASSUME RecInv, ReplayInv, WriterStep, NEW ev, ev = Head(queue)
  PROVE  /\ ev \in Event /\ ev.q \in Nat /\ ev.r \in Nat /\ ev.r \in 0..MaxBucket /\ ev.q \in Numbers
         /\ ev.r <= now /\ Running /\ proc # "off" /\ writer
         /\ 1 \in 1..Len(queue) /\ queue[1] = ev /\ Handed' = Handed + 1 /\ Handed \in Int
         /\ \A i \in 1..Len(queue') : queue'[i] = queue[i + 1] /\ i + 1 \in 1..Len(queue)
         /\ \A x : In(x, queue) => In(x, queue') \/ x = ev
         /\ dropped = {} => ev.q = Handed + 1 /\ \A j \in 1..Len(queue') : queue'[j].q = Handed' + j
         /\ UNCHANGED <<proc, life, seq, now, dropped, writer, crashes>>
<1>1. /\ queue # << >> /\ writer /\ queue' = Tail(queue)
      /\ UNCHANGED <<proc, life, seq, now, dropped, writer, crashes>>
  BY DEF WriterStep
<1>2. queue \in Seq(Event) /\ Len(queue) \in Nat /\ seq \in Nat
  BY Sequences DEF RecInv
<1>3. /\ queue' \in Seq(Event) /\ Len(queue') = Len(queue) - 1
      /\ \A i \in 1..Len(queue') : queue'[i] = queue[i + 1] /\ i + 1 \in 1..Len(queue)
      /\ ev = queue[1] /\ 1 \in 1..Len(queue)
  BY <1>1, <1>2
<1>4. ev \in Event /\ ev.q \in Numbers /\ ev.q \in Nat
  BY <1>2, <1>3, EventIs
<1>5. ev.r \in 0..MaxBucket /\ ev.r \in Nat
  BY <1>4, RecAssumption DEF Event
<1>6. ev.r <= now
  BY <1>3 DEF ReplayInv, Line1
<1>7. Running /\ proc # "off"
  BY <1>1 DEF RecInv, Layout, Idle, TypeOK, Running
<1>8. Handed' = Handed + 1 /\ Handed \in Int
  BY <1>1, <1>2, <1>3 DEF Handed
<1>9. \A x : In(x, queue) => In(x, queue') \/ x = ev
  <2> SUFFICES ASSUME NEW i \in 1..Len(queue) PROVE In(queue[i], queue') \/ queue[i] = ev
    BY DEF In
  <2>1. CASE i = 1
    BY <1>3, <2>1
  <2>2. CASE i # 1
    <3>1. i - 1 \in 1..Len(queue') /\ (i - 1) + 1 = i
      BY <1>2, <1>3, <2>2
    <3>2. queue'[i - 1] = queue[i]
      BY <1>3, <3>1
    <3> QED
      BY <3>1, <3>2 DEF In
  <2> QED
    BY <2>1, <2>2
<1>10. ASSUME dropped = {}
       PROVE  ev.q = Handed + 1 /\ \A j \in 1..Len(queue') : queue'[j].q = Handed' + j
  <2>1. \A j \in 1..Len(queue) : queue[j].q = Handed + j
    BY <1>1, <1>10 DEF ReplayInv, Line1, InRow, Gapless
  <2>2. \A j \in 1..Len(queue') : queue'[j].q = Handed + (j + 1) /\ Handed + (j + 1) = Handed' + j
    BY <1>3, <1>8, <2>1
  <2> QED
    BY <1>3, <2>1, <2>2
<1> QED
  BY <1>1, <1>3, <1>4, <1>5, <1>6, <1>7, <1>8, <1>9, <1>10

(* The event goes behind the buffer of the open file. *)
LEMMA AppendReplay ==
  ASSUME RecInv, ReplayInv, WriterStep, cur # NoFile, Head(queue).r = cur.r
  PROVE  ReplayInv'
<1> DEFINE ev == Head(queue)
<1>1. buf' = Append(buf, ev) /\ UNCHANGED <<cur, disk, manifest>>
  BY DEF WriterStep, Write
<1>0. ev = Head(queue)
  OBVIOUS
<1> HIDE DEF ev
<1>2. /\ ev \in Event /\ ev.q \in Nat /\ ev.r <= now /\ Running /\ proc # "off" /\ writer
      /\ 1 \in 1..Len(queue) /\ queue[1] = ev /\ Handed' = Handed + 1 /\ Handed \in Int
      /\ UNCHANGED <<proc, life, seq, now, dropped, writer, crashes>>
  BY <1>0, TakenIs
<1>3. \A i \in 1..Len(queue') : queue'[i] = queue[i + 1] /\ i + 1 \in 1..Len(queue)
  BY <1>0, TakenIs
<1>4. \A x : In(x, queue) => In(x, queue') \/ x = ev
  BY <1>0, TakenIs
<1>5. dropped = {} => ev.q = Handed + 1 /\ \A j \in 1..Len(queue') : queue'[j].q = Handed' + j
  BY <1>0, TakenIs
<1>6. /\ cur \in DOMAIN disk /\ disk[cur].lines \in Seq(Event) /\ buf \in Seq(Event)
      /\ Len(buf) \in Nat /\ Len(disk[cur].lines) \in Nat
  BY FlushedIs, Sequences DEF RecInv
<1>7. /\ buf' \in Seq(Event) /\ Len(buf') = Len(buf) + 1 /\ buf'[Len(buf) + 1] = ev
      /\ \A i \in 1..Len(buf) : buf'[i] = buf[i]
  BY <1>1, <1>2, <1>6
<1>8. Shelf'
  <2>1. Climbs(buf) /\ Under(disk[cur].lines, buf)
    BY DEF ReplayInv, Shelf
  <2>2. \A i \in 1..Len(buf) : buf[i].q < ev.q
    BY <1>2 DEF RecInv, Layout, Past, Waits
  <2>3. \A i \in 1..Len(disk[cur].lines) : disk[cur].lines[i].q < ev.q
    BY <1>2, <1>6 DEF RecInv, Layout, Past, Waits, OpenFile
  <2>4. \A i \in 1..Len(buf') : i \in 1..Len(buf) \/ i = Len(buf) + 1
    BY <1>6, <1>7
  <2>5. Climbs(buf')
    <3> SUFFICES ASSUME NEW i \in 1..Len(buf'), NEW j \in 1..Len(buf'), i < j
                 PROVE  buf'[i].q < buf'[j].q
      BY DEF Climbs
    <3>1. i \in 1..Len(buf)
      BY <1>6, <1>7
    <3>2. CASE j \in 1..Len(buf)
      BY <1>7, <2>1, <3>1, <3>2 DEF Climbs
    <3>3. CASE j = Len(buf) + 1
      BY <1>7, <2>2, <3>1, <3>3
    <3> QED
      BY <2>4, <3>2, <3>3
  <2>6. Under(disk[cur].lines, buf')
    <3> SUFFICES ASSUME NEW i \in 1..Len(disk[cur].lines), NEW j \in 1..Len(buf')
                 PROVE  disk[cur].lines[i].q < buf'[j].q
      BY DEF Under
    <3>1. CASE j \in 1..Len(buf)
      BY <1>7, <2>1, <3>1 DEF Under
    <3>2. CASE j = Len(buf) + 1
      BY <1>7, <2>3, <3>2
    <3> QED
      BY <2>4, <3>1, <3>2
  <2>7. /\ Tidy(disk, manifest)
        /\ ~disk[cur].whole
        /\ Sound => \A f \in DOMAIN disk : f = cur \/ Named(manifest, f)
        /\ dropped = {} => Shadows(disk, manifest) /\ Starts(disk, manifest)
        /\ \A f \in DOMAIN disk : f.r <= now
        /\ \A m \in manifest : m.last <= seq
    BY DEF ReplayInv, Shelf
  <2>8. Sound' = Sound
    BY <1>2 DEF Sound, Running
  <2> QED
    BY <1>1, <1>2, <2>5, <2>6, <2>7, <2>8 DEF Shelf
<1>9. InRow'
  <2> SUFFICES ASSUME dropped = {} PROVE Gapless'
    BY <1>2 DEF InRow
  <2>1. Flushed' = disk[cur].lines \o buf'
    BY <1>1 DEF Flushed
  <2>2. /\ Len(disk[cur].lines \o buf') = Len(disk[cur].lines) + Len(buf')
        /\ (disk[cur].lines \o buf')[Len(disk[cur].lines) + Len(buf')] = buf'[Len(buf')]
    <3>1. Len(buf') \in 1..Len(buf')
      BY <1>6, <1>7
    <3>2. \A i \in 1..Len(buf') : (disk[cur].lines \o buf')[Len(disk[cur].lines) + i] = buf'[i]
      BY <1>6, <1>7, ConcatIs
    <3>3. Len(disk[cur].lines \o buf') = Len(disk[cur].lines) + Len(buf')
      BY <1>6, <1>7, ConcatIs
    <3> QED
      BY <3>1, <3>2, <3>3
  <2>3. Flushed'[Len(Flushed')].q = Handed'
    BY <1>2, <1>5, <1>7, <2>1, <2>2
  <2> QED
    BY <1>1, <1>5, <2>3 DEF Gapless
<1>10. Orphans'
  <2> SUFFICES ASSUME dropped = {}, NEW f \in DOMAIN disk, ~Named(manifest, f), f # cur PROVE Behind(f)'
    BY <1>1, <1>2 DEF Orphans
  <2>1. Behind(f)
    BY <1>2 DEF ReplayInv, Line1, Orphans
  <2> QED
    BY <1>1, <1>2, <1>3, <2>1 DEF Behind
<1>11. AllHeld'
  <2>1. In(ev, buf') /\ \A x : In(x, buf) => In(x, buf')
    <3>1. Len(buf) + 1 \in 1..Len(buf') /\ \A i \in 1..Len(buf) : i \in 1..Len(buf')
      BY <1>6, <1>7
    <3> QED
      BY <1>7, <3>1 DEF In
  <2>2. \A x : In(x, queue) \/ In(x, buf) => In(x, queue') \/ In(x, buf')
    BY <1>4, <2>1
  <2>3. \A n : Held(n) => Held(n)'
    BY <1>1, <1>2, <2>2 DEF Held, InSome
  <2> QED
    BY <1>2, <2>3 DEF ReplayInv, Line1, AllHeld, Sound, Running
<1>12. \A j \in 1..Len(queue') : queue'[j].r <= now'
  BY <1>2, <1>3 DEF ReplayInv, Line1
<1> QED
  BY <1>8, <1>9, <1>10, <1>11, <1>12 DEF ReplayInv, Line1

(* The open file is closed and the event opens the next one. *)
LEMMA RotateReplay ==
  ASSUME RecInv, ReplayInv, WriterStep, ~(cur # NoFile /\ Head(queue).r = cur.r)
  PROVE  ReplayInv'
<1> DEFINE ev == Head(queue)
           name == [r |-> ev.r, q |-> ev.q]
           file == [life |-> life, lines |-> << >>, whole |-> FALSE]
<1>1. /\ cur' = name /\ buf' = <<ev>> /\ manifest' = ClosedManifest
      /\ disk' = Put(ClosedDisk, name, file)
  BY DEF WriterStep, Write
<1>0. ev = Head(queue)
  OBVIOUS
<1>n. name.r = ev.r /\ name.q = ev.q /\ file.lines = << >> /\ Len(file.lines) = 0 /\ ~file.whole
      /\ name = [r |-> ev.r, q |-> ev.q]
  OBVIOUS
<1> HIDE DEF ev, name, file
<1>2. /\ ev \in Event /\ ev.q \in Nat /\ ev.r \in Nat /\ ev.r \in 0..MaxBucket /\ ev.q \in Numbers
      /\ ev.r <= now /\ Running /\ proc # "off" /\ writer
      /\ 1 \in 1..Len(queue) /\ queue[1] = ev /\ Handed' = Handed + 1 /\ Handed \in Int
      /\ UNCHANGED <<proc, life, seq, now, dropped, writer, crashes>>
  BY <1>0, TakenIs
<1>3. \A i \in 1..Len(queue') : queue'[i] = queue[i + 1] /\ i + 1 \in 1..Len(queue)
  BY <1>0, TakenIs
<1>4. \A x : In(x, queue) => In(x, queue') \/ x = ev
  BY <1>0, TakenIs
<1>5. dropped = {} => ev.q = Handed + 1 /\ \A j \in 1..Len(queue') : queue'[j].q = Handed' + j
  BY <1>0, TakenIs
<1>6. buf' \in Seq(Event) /\ Len(buf') = 1 /\ buf'[1] = ev
  BY <1>1, <1>2
<1>7. name \in Name /\ name # NoFile
  BY <1>n, <1>2, RecAssumption DEF Name, NoFile, Numbers
<1>8. DOMAIN ClosedDisk = DOMAIN disk
  BY ClosedIs
<1>9. /\ DOMAIN disk' = DOMAIN disk \cup {name} /\ disk'[name] = file
      /\ \A f \in DOMAIN disk : f # name => disk'[f] = ClosedDisk[f]
  BY <1>1, <1>8 DEF Put
<1>10. \A m \in ClosedManifest : m.last < ev.q /\ m.file.q <= m.last /\ m.last <= seq
  BY <1>2, ClosedIs
<1>11. \A m \in ClosedManifest : m.last \in Nat /\ m.file.q \in Nat
  BY ClosedIs DEF LineType, Numbers, Name
<1>12. Tidy(ClosedDisk, ClosedManifest)
  BY ClosedTidy
<1>13. \A f \in DOMAIN disk : ~Named(ClosedManifest, f) => f # cur /\ ~Named(manifest, f)
  BY ClosedTidy
<1>14. Sound => \A f \in DOMAIN disk : Named(ClosedManifest, f)
  BY ClosedTidy
<1>15. ~Named(ClosedManifest, name)
  <2> SUFFICES ASSUME NEW m \in ClosedManifest, m.file = name PROVE FALSE
    BY DEF Named
  <2> QED
    BY <1>n, <1>2, <1>10, <1>11
<1>16. \A f \in DOMAIN disk' : Named(ClosedManifest, f) =>
         f \in DOMAIN disk /\ f # name /\ disk'[f] = ClosedDisk[f]
  BY <1>9, <1>15
<1>17. Tidy(disk', manifest')
  <2>1. ASSUME NEW f \in DOMAIN disk'
        PROVE  Climbs(disk'[f].lines) /\ \A i \in 1..Len(disk'[f].lines) : f.q <= disk'[f].lines[i].q
    <3>1. CASE f = name
      BY <1>n, <1>9, <3>1 DEF Climbs
    <3>2. CASE f # name
      BY <1>8, <1>9, <1>12, <3>2 DEF Tidy
    <3> QED
      BY <3>1, <3>2
  <2>2. ASSUME NEW f \in DOMAIN disk', Named(ClosedManifest, f)
        PROVE  \E m \in ClosedManifest :
                 m.file = f /\ \A i \in 1..Len(disk'[f].lines) : disk'[f].lines[i].q <= m.last
    BY <1>8, <1>12, <1>16, <2>2 DEF Tidy
  <2>3. ASSUME NEW f \in DOMAIN disk', NEW g \in DOMAIN disk', f # g,
               Named(ClosedManifest, f), Named(ClosedManifest, g)
        PROVE  Apart(disk', f, g)
    BY <1>8, <1>12, <1>16, <2>3 DEF Tidy, Apart
  <2> QED
    BY <1>1, <2>1, <2>2, <2>3 DEF Tidy
<1>18. ASSUME dropped = {} PROVE Shadows(disk', manifest') /\ Starts(disk', manifest')
  <2>0. Shadows(ClosedDisk, ClosedManifest) /\ Starts(ClosedDisk, ClosedManifest) /\ NextOf(Handed + 1, ClosedManifest)
    BY <1>2, <1>18, ClosedShadows
  <2>1. ASSUME NEW w \in DOMAIN disk', NEW f \in DOMAIN disk',
               Named(ClosedManifest, w), ~Named(ClosedManifest, f)
        PROVE  Below(disk'[w].lines, f.q) \/ Earlier(f, w)
    <3>1. w \in DOMAIN disk /\ Named(ClosedManifest, w) /\ disk'[w] = ClosedDisk[w]
      BY <1>16, <2>1
    <3>2. CASE f = name
      <4>1. PICK m \in ClosedManifest :
               m.file = w /\ \A i \in 1..Len(ClosedDisk[w].lines) : ClosedDisk[w].lines[i].q <= m.last
        BY <1>8, <1>12, <3>1 DEF Tidy
      <4>2. \A i \in 1..Len(ClosedDisk[w].lines) : ClosedDisk[w].lines[i].q \in Nat
        <5>1. ClosedDisk[w].lines \in Seq(Event)
          BY <3>1, ClosedIs DEF FileType
        <5> QED
          BY <5>1, EventIs
      <4>3. m.last \in Nat /\ m.last < ev.q
        BY <1>10, <1>11
      <4>4. Below(ClosedDisk[w].lines, ev.q)
        BY <1>2, <4>1, <4>2, <4>3 DEF Below
      <4> QED
        BY <1>n, <3>1, <3>2, <4>4
    <3>3. CASE f # name
      <4>1. f \in DOMAIN disk /\ disk'[f] = ClosedDisk[f]
        BY <1>9, <3>3
      <4> QED
        BY <1>8, <2>0, <2>1, <3>1, <4>1 DEF Shadows
    <3> QED
      BY <3>2, <3>3
  <2>2. ASSUME NEW f \in DOMAIN disk', ~Named(ClosedManifest, f) PROVE NextOf(f.q, ClosedManifest)
    <3>1. CASE f = name
      BY <1>n, <1>5, <1>18, <2>0, <3>1
    <3>2. CASE f # name
      <4>1. f \in DOMAIN disk /\ disk'[f] = ClosedDisk[f]
        BY <1>9, <3>2
      <4> QED
        BY <1>8, <2>0, <2>2, <4>1 DEF Starts
    <3> QED
      BY <3>1, <3>2
  <2> QED
    BY <1>1, <2>1, <2>2 DEF Shadows, Starts
<1>19. Shelf'
  <2>1. Climbs(buf')
    BY <1>6 DEF Climbs
  <2>2. Under(disk'[cur'].lines, buf')
    BY <1>n, <1>1, <1>9 DEF Under
  <2>3. Sound' => \A f \in DOMAIN disk' : f = cur' \/ Named(manifest', f)
    <3>1. Sound' = Sound
      BY <1>2 DEF Sound, Running
    <3> QED
      BY <1>1, <1>9, <1>14, <3>1
  <2>3a. ~disk'[cur'].whole
    BY <1>n, <1>1, <1>9
  <2>4. \A f \in DOMAIN disk' : f.r <= now
    BY <1>n, <1>2, <1>9 DEF ReplayInv, Shelf
  <2>5. \A m \in manifest' : m.last <= seq
    BY <1>1, <1>10
  <2> QED
    BY <1>2, <1>17, <1>18, <2>1, <2>2, <2>3, <2>3a, <2>4, <2>5 DEF Shelf
<1>20. InRow'
  <2> SUFFICES ASSUME dropped = {} PROVE Gapless'
    BY <1>2 DEF InRow
  <2>1. Flushed' = << >> \o buf'
    BY <1>n, <1>1, <1>9 DEF Flushed
  <2>2. << >> \o buf' = buf'
    BY <1>6
  <2>3. Flushed'[Len(Flushed')].q = Handed'
    BY <1>2, <1>5, <1>6, <2>1, <2>2
  <2> QED
    BY <1>1, <1>5, <1>7, <2>3 DEF Gapless
<1>21. Orphans'
  <2> SUFFICES ASSUME dropped = {}, NEW f \in DOMAIN disk', ~Named(ClosedManifest, f), f # name
               PROVE  Behind(f)'
    BY <1>1, <1>2 DEF Orphans
  <2>1. f \in DOMAIN disk /\ disk'[f] = ClosedDisk[f]
    BY <1>9
  <2>2. f # cur /\ ~Named(manifest, f)
    BY <1>13, <2>1
  <2>3. Behind(f)
    BY <1>2, <2>1, <2>2 DEF ReplayInv, Line1, Orphans
  <2>4. f.q < ev.q \/ (f.q = ev.q /\ f.r <= ev.r)
    BY <1>2, <2>3 DEF Behind
  <2>5. f \in Name /\ f.q \in Nat /\ f.r \in Nat
    BY <2>1, NumberTypes DEF RecInv
  <2>6. f = [r |-> f.r, q |-> f.q]
    BY <2>5 DEF Name
  <2>7. f.q = ev.q => f.r # ev.r
    BY <1>n, <2>6
  <2>8. Earlier(f, name)
    BY <1>n, <1>2, <2>4, <2>5, <2>7 DEF Earlier
  <2> QED
    BY <1>1, <1>2, <1>3, <2>3, <2>8 DEF Behind
<1>22. AllHeld'
  <2> SUFFICES ASSUME crashes = 0, NEW n \in SeqStart + 1..seq PROVE Held(n)'
    BY <1>2 DEF AllHeld, Sound, Running
  <2>1. Held(n)
    BY <1>2 DEF ReplayInv, Line1, AllHeld, Sound
  <2>2. In(ev, buf')
    BY <1>6 DEF In
  <2>3. ASSUME NEW x, In(x, buf) \/ InSome(x, disk) PROVE InSome(x, disk')
    <3>1. InSome(x, ClosedDisk)
      BY <2>3, ClosedHolds
    <3>2. PICK f \in DOMAIN disk : In(x, ClosedDisk[f].lines)
      BY <1>8, <3>1 DEF InSome
    <3>3. f \in DOMAIN disk' /\ disk'[f] = ClosedDisk[f]
      BY <1>2, <1>9, <1>14, <1>15 DEF Sound
    <3>4. In(x, disk'[f].lines)
      BY <3>2, <3>3
    <3> QED
      BY <3>3, <3>4 DEF InSome
  <2> QED
    BY <1>2, <1>4, <2>1, <2>2, <2>3 DEF Held
<1>23. \A j \in 1..Len(queue') : queue'[j].r <= now'
  BY <1>2, <1>3 DEF ReplayInv, Line1
<1> QED
  BY <1>19, <1>20, <1>21, <1>22, <1>23 DEF ReplayInv, Line1

-----------------------------------------------------------------------------
LEMMA ReplayStep ==
  ASSUME RecInv, ReplayInv, [SysNext]_sysVars
  PROVE  ReplayInv'
<1>1. CASE RecNext
  <2>0. now \in Nat /\ now \in 0..MaxBucket /\ MaxBucket \in Nat
    BY RecAssumption DEF RecInv, TypeOK
  <2>1. ASSUME NEW r \in 0..MaxBucket, Record(r) PROVE ReplayInv'
    <3>1. r \in 0..now
      BY <2>0, <2>1 DEF Record
    <3> QED
      BY <2>1, <3>1, EmitReplay DEF Record
  <2>2. ASSUME Stop PROVE ReplayInv'
    <3>1. now \in 0..now
      BY <2>0
    <3> QED
      BY <2>2, <3>1, EmitReplay DEF Stop
  <2>3. ASSUME WriterStep PROVE ReplayInv'
    BY <2>3, AppendReplay, RotateReplay
  <2>4. ASSUME Exit PROVE ReplayInv'
    BY <2>0, <2>4, QuietReplay DEF Exit, Running
  <2>5. ASSUME Hour PROVE ReplayInv'
    BY <2>0, <2>5, QuietReplay DEF Hour
  <2> QED
    BY <1>1, <2>1, <2>2, <2>3, <2>4, <2>5, BootReplay, CloseReplay, CrashReplay, FlushReplay,
       WriterDiesReplay DEF RecNext
<1>2. CASE UNCHANGED recVars
  <2>1. UNCHANGED <<proc, life, seq, now, queue, dropped, writer, cur, buf, disk, manifest, crashes>>
    BY <1>2 DEF recVars
  <2>2. now' \in Nat /\ now' >= now
    BY <2>1, NumberTypes DEF RecInv
  <2> QED
    BY <2>1, <2>2, QuietReplay
<1>3. SysNext => RecNext \/ UNCHANGED recVars
  BY DEF SysNext, WithStore, TradeEvent, RecNext
<1>4. UNCHANGED sysVars => UNCHANGED recVars
  BY DEF sysVars
<1> QED
  BY <1>1, <1>2, <1>3, <1>4

(* What is replayed: the files up to the first that ends early. *)
LEMMA ReplayIs ==
  ASSUME TypeOK
  PROVE  \E n \in 0..Len(Files) :
           /\ Replay = LinesOf(Files, n)
           /\ \A i \in 1..n : i < n => disk[Files[i]].whole
           /\ n = Len(Files) \/ (n # 0 /\ ~disk[Files[n]].whole)
<1> DEFINE early == {i \in DOMAIN Files : ~disk[Files[i]].whole}
           first == CHOOSE i \in early : \A j \in early : i <= j
<1>1. Len(Files) \in Nat /\ DOMAIN Files = 1..Len(Files)
  BY FilesAreListed DEF Listing
<1>2. Replay = LinesOf(Files, IF early = {} THEN Len(Files) ELSE first)
  BY DEF Replay
<1>3. CASE early = {}
  <2>1. Replay = LinesOf(Files, Len(Files)) /\ Len(Files) \in 0..Len(Files)
    BY <1>1, <1>2, <1>3
  <2>2. \A i \in 1..Len(Files) : disk[Files[i]].whole
    BY <1>1, <1>3
  <2> QED
    BY <2>1, <2>2
<1>4. CASE early # {}
  <2>1. early \in SUBSET Nat
    BY <1>1
  <2>2. \E i \in early : \A j \in early : i <= j
    <3> HIDE DEF early
    <3> QED
      BY <1>4, <2>1, Least
  <2>3. first \in early /\ \A j \in early : first <= j
    <3> HIDE DEF early
    <3> QED
      BY <2>2
  <2>4. Replay = LinesOf(Files, first)
    BY <1>2, <1>4
  <2> HIDE DEF first
  <2>5. first \in 0..Len(Files) /\ first \in 1..Len(Files) /\ ~disk[Files[first]].whole
    BY <1>1, <2>3
  <2>6. \A i \in 1..first : i < first => disk[Files[i]].whole
    <3> SUFFICES ASSUME NEW i \in 1..first, i < first, ~disk[Files[i]].whole PROVE FALSE
      OBVIOUS
    <3>1. i \in early
      BY <1>1, <2>5
    <3> QED
      BY <2>3, <2>5, <3>1
  <2> QED
    BY <2>4, <2>5, <2>6
<1> QED
  BY <1>3, <1>4

LEMMA AllIsReplayed == RecInv /\ ReplayInv => ReplayIsTheRecording
<1> SUFFICES ASSUME RecInv, ReplayInv, crashes = 0, proc = "stored", NEW n \in SeqStart + 1..seq,
                    \A d \in dropped : d.q # n
             PROVE  \E i \in DOMAIN Replay : Replay[i].q = n
  BY DEF ReplayIsTheRecording
<1>1. queue = << >> /\ cur = NoFile /\ buf = << >>
  BY DEF RecInv, Layout, Idle, OpenFile
<1>2. TypeOK /\ Listing(Files)
  BY FilesAreListed DEF RecInv
<1>3. \A f \in DOMAIN disk : disk[f].whole
  <2>1. \A f \in DOMAIN disk : Named(manifest, f)
    BY <1>1, NumberTypes DEF RecInv, ReplayInv, Shelf, Sound, Running
  <2> QED
    BY <2>1 DEF Named, RecInv, ManifestTrue
<1>4. PICK k \in 0..Len(Files) :
        Replay = LinesOf(Files, k) /\ (k = Len(Files) \/ (k # 0 /\ ~disk[Files[k]].whole))
           /\ \A i \in 1..k : i < k => disk[Files[i]].whole
  BY <1>2, ReplayIs
<1>5. \E x : x.q = n /\ InSome(x, disk)
  <2>1. Held(n)
    BY DEF ReplayInv, Line1, AllHeld, Sound, Running
  <2>2. \A x : ~In(x, queue) /\ ~In(x, buf)
    BY <1>1, EmptyIs
  <2> QED
    BY <2>1, <2>2 DEF Held
<1>6. PICK x : x.q = n /\ InSome(x, disk)
  BY <1>5
<1>7. PICK f \in DOMAIN disk : In(x, disk[f].lines)
  BY <1>6 DEF InSome
<1>8. PICK i \in 1..Len(Files) : Files[i] = f
  BY <1>2 DEF Listing
<1>9. k = Len(Files)
  <2> SUFFICES ASSUME k # 0, ~disk[Files[k]].whole PROVE FALSE
    BY <1>4
  <2>1. Len(Files) \in Nat /\ \A j \in 1..Len(Files) : Files[j] \in DOMAIN disk
    BY <1>2 DEF Listing
  <2>2. k \in 1..Len(Files)
    BY <1>4, <2>1
  <2> QED
    BY <1>3, <2>1, <2>2
<1>10. PICK l \in 1..Len(disk[f].lines) : disk[f].lines[l] = x
  BY <1>7 DEF In
<1>11. In(x, Replay) /\ Replay \in Seq(Event)
  BY <1>2, <1>4, <1>8, <1>9, <1>10, LinesRead
<1>12. PICK j \in 1..Len(Replay) : Replay[j] = x
  BY <1>11 DEF In
<1>13. j \in DOMAIN Replay
  BY <1>11, <1>12
<1> QED
  BY <1>6, <1>12, <1>13

LEMMA GoesForward == RecInv /\ ReplayInv => ReplayGoesForward
<1> SUFFICES ASSUME RecInv, ReplayInv, NamesFollowNumbers, WholeAreListed, dropped = {}
             PROVE  \A i, j \in DOMAIN Replay : i < j => Replay[i].q < Replay[j].q
  BY DEF ReplayGoesForward
<1>1. TypeOK /\ Listing(Files)
  BY FilesAreListed DEF RecInv
<1>2. PICK n \in 0..Len(Files) :
        Replay = LinesOf(Files, n) /\ \A i \in 1..n : i < n => disk[Files[i]].whole
  BY <1>1, ReplayIs
<1>3. Len(Files) \in Nat /\ \A i \in 1..Len(Files) : Files[i] \in DOMAIN disk
  BY <1>1 DEF Listing
<1>4. \A i \in 1..n : i \in 1..Len(Files)
  BY <1>2, <1>3
<1>5. Tidy(disk, manifest) /\ Shadows(disk, manifest)
  BY DEF ReplayInv, Shelf
<1>5a. \A f \in DOMAIN disk : disk[f].whole => Named(manifest, f)
  BY DEF WholeAreListed, Named
<1>6. ASSUME NEW f \in DOMAIN disk, NEW g \in DOMAIN disk, disk[f].whole, NameBefore(f, g)
      PROVE  Under(disk[f].lines, disk[g].lines)
  <2> SUFFICES ASSUME NEW k \in 1..Len(disk[f].lines), NEW l \in 1..Len(disk[g].lines)
               PROVE  disk[f].lines[k].q < disk[g].lines[l].q
    BY DEF Under
  <2>1. /\ f \in Name /\ f.q \in Nat /\ f.r \in Nat /\ g \in Name /\ g.q \in Nat /\ g.r \in Nat
    BY <1>1, NumberTypes
  <2>2. disk[f].lines[k].q \in Nat /\ disk[g].lines[l].q \in Nat
    BY <1>1, Sequences, EventIs
  <2>3. g.q <= disk[g].lines[l].q
    BY <1>5 DEF Tidy
  <2>4. ~(f.q > g.q)
    BY <1>6 DEF NamesFollowNumbers
  <2>5. ~NameBefore(g, f) /\ f # g
    BY <1>6, <2>1, NamesAreOrdered
  <2>6. CASE Below(disk[f].lines, g.q)
    <3>1. disk[f].lines[k].q < g.q
      BY <2>6 DEF Below
    <3> QED
      BY <2>1, <2>2, <2>3, <3>1
  <2>7. CASE Below(disk[g].lines, f.q)
    <3>1. disk[g].lines[l].q < f.q
      BY <2>7 DEF Below
    <3> QED
      BY <2>1, <2>2, <2>3, <2>4, <3>1
  <2>8. ~Earlier(g, f)
    BY <2>1, <2>4, <2>5 DEF Earlier, NameBefore
  <2>9. CASE Named(manifest, g)
    BY <1>5, <1>5a, <1>6, <2>5, <2>6, <2>7, <2>9 DEF Tidy, Apart
  <2>10. CASE ~Named(manifest, g)
    BY <1>5, <1>5a, <1>6, <2>6, <2>8, <2>10 DEF Shadows
  <2> QED
    BY <2>9, <2>10
<1>7. ASSUME NEW i \in 1..n, NEW j \in 1..n, i < j
      PROVE  Under(disk[Files[i]].lines, disk[Files[j]].lines)
  <2>1. i < n
    BY <1>2, <1>3, <1>7
  <2>2. NameBefore(Files[i], Files[j])
    BY <1>1, <1>4, <1>7 DEF Listing
  <2> QED
    BY <1>2, <1>3, <1>4, <1>6, <2>1, <2>2
<1>8. \A i \in 1..n : Climbs(disk[Files[i]].lines)
  BY <1>3, <1>4, <1>5 DEF Tidy
<1>9. Climbs(Replay) /\ Replay \in Seq(Event)
  BY <1>1, <1>2, <1>7, <1>8, LinesRead
<1>10. DOMAIN Replay = 1..Len(Replay)
  BY <1>9
<1> QED
  BY <1>9, <1>10 DEF Climbs

(* What is replayed is what was recorded: after a stop without a crash all *)
(* of it; never backwards, even past the numbers that a life after a crash *)
(* gives again, unless the crash left a whole file without its line; and a *)
(* report that finds nothing wrong says so truly.                          *)
THEOREM ReplayIsExact == SysSpec => []ReplayExact
<1>1. SysInit => RecInv /\ ReplayInv
  BY InitRec, InitReplay DEF SysInit
<1>2. RecInv /\ ReplayInv /\ [SysNext]_sysVars => (RecInv /\ ReplayInv)'
  BY RecStep, ReplayStep
<1>3. RecInv /\ ReplayInv => ReplayExact
  BY AllIsReplayed, GoesForward, CleanReplay DEF RecInv, ReplayExact
<1> QED
  BY <1>1, <1>2, <1>3, SysSteps, PTL

-----------------------------------------------------------------------------
(* The files of the lives: what a step of the recorder does to the disk,   *)
(* as a reader sees it.                                                    *)

(* Every life has files of its own, one behind the other; while its writer *)
(* lasts, only the open one has no line in the manifest.                   *)
OneLife(d) ==
  /\ \A f \in DOMAIN d : /\ d[f].life <= life
                         /\ \A i \in 1..Len(d[f].lines) : d[f].lines[i].life = d[f].life
  /\ \A f, g \in DOMAIN d : f # g /\ d[f].life = d[g].life => Apart(d, f, g)
OpenLife ==
  /\ cur # NoFile => /\ disk[cur].life = life
                     /\ \A g \in DOMAIN disk : g # cur /\ disk[g].life = life => Below(disk[g].lines, cur.q)
  /\ writer => \A f \in DOMAIN disk : disk[f].life = life => f = cur \/ Named(manifest, f)
  /\ crashes = 0 => \A f \in DOMAIN disk : f = cur \/ disk[f].whole
OfLives == OneLife(disk) /\ OpenLife

(* The open file got more of its buffer. *)
Extends(s, t) == Len(s) <= Len(t) /\ \A i \in 1..Len(s) : t[i] = s[i]
Grown(d) ==
  /\ DOMAIN d = DOMAIN disk /\ \A f \in DOMAIN disk : f # cur => d[f] = disk[f]
  /\ cur # NoFile =>
       /\ d[cur].life = life /\ Extends(disk[cur].lines, d[cur].lines) /\ Len(d[cur].lines) \in Nat
       /\ \A i \in 1..Len(d[cur].lines) : In(d[cur].lines[i], disk[cur].lines) \/ In(d[cur].lines[i], buf)

(* An event is nowhere on disk. *)
Unwritten(x) == \A g \in DOMAIN disk : ~In(x, disk[g].lines)

LEMMA BufferIsNew ==
  ASSUME RecInv, ReplayInv, OfLives, cur # NoFile, NEW i \in 1..Len(buf)
  PROVE  buf[i].life = life /\ cur.q <= buf[i].q /\ Unwritten(buf[i])
<1>1. /\ cur \in DOMAIN disk /\ buf[i].life = life /\ cur.q <= buf[i].q /\ cur.q \in Nat
      /\ buf[i].q \in Nat
  BY FlushedIs, NumberTypes, Sequences, EventIs DEF RecInv, Layout, OpenFile
<1>2. ASSUME NEW g \in DOMAIN disk, NEW k \in 1..Len(disk[g].lines), disk[g].lines[k] = buf[i]
      PROVE  FALSE
  <2>0. disk[g].lines[k].q \in Nat
    BY Sequences, EventIs DEF RecInv
  <2>1. CASE g = cur
    <3>1. disk[g].lines[k].q < buf[i].q
      BY <1>2, <2>1 DEF ReplayInv, Shelf, Under
    <3> QED
      BY <1>1, <1>2, <3>1
  <2>2. CASE g # cur
    <3>1. disk[g].life = life
      BY <1>1, <1>2 DEF OfLives, OneLife
    <3>2. disk[g].lines[k].q < cur.q
      BY <2>2, <3>1 DEF OfLives, OpenLife, Below
    <3> QED
      BY <1>1, <1>2, <2>0, <3>2
  <2> QED
    BY <2>1, <2>2
<1> QED
  BY <1>1, <1>2 DEF Unwritten, In

LEMMA GrownIs ==
  ASSUME RecInv, ReplayInv, OfLives, NEW d, Grown(d)
  PROVE  /\ DOMAIN d = DOMAIN disk /\ OneLife(d)
         /\ \A f \in DOMAIN disk :
              /\ d[f].life = disk[f].life /\ Extends(disk[f].lines, d[f].lines)
              /\ disk[f].whole => d[f] = disk[f]
              /\ \A x : In(x, d[f].lines) => In(x, disk[f].lines) \/ (f = cur /\ x.life = life /\ Unwritten(x))
         /\ cur # NoFile => \A g \in DOMAIN disk : g # cur /\ disk[g].life = life => Below(d[g].lines, cur.q)
<1>1. \A f \in DOMAIN disk : f # NoFile /\ f.q \in Nat /\ disk[f].lines \in Seq(Event) /\ Len(disk[f].lines) \in Nat
  BY NumberTypes, Sequences DEF RecInv
<1>2. \A f \in DOMAIN disk : Extends(disk[f].lines, disk[f].lines)
  BY <1>1 DEF Extends
<1>3. ASSUME cur # NoFile
      PROVE  /\ cur \in DOMAIN disk /\ ~disk[cur].whole /\ disk[cur].life = life
             /\ \A g \in DOMAIN disk : g # cur /\ disk[g].life = life => Below(d[g].lines, cur.q)
             /\ \A i \in 1..Len(d[cur].lines) : d[cur].lines[i].life = life /\ cur.q <= d[cur].lines[i].q
             /\ \A x : In(x, d[cur].lines) => In(x, disk[cur].lines) \/ (x.life = life /\ Unwritten(x))
  <2>1. cur \in DOMAIN disk /\ ~disk[cur].whole /\ disk[cur].life = life
    BY <1>3, FlushedIs, FlushedClimbs DEF ReplayInv, OfLives, OpenLife
  <2>2. \A g \in DOMAIN disk : g # cur /\ disk[g].life = life => Below(d[g].lines, cur.q)
    BY <1>3 DEF OfLives, OpenLife, Grown
  <2>3. ASSUME NEW x, In(x, buf) PROVE x.life = life /\ cur.q <= x.q /\ Unwritten(x)
    BY <1>3, <2>3, BufferIsNew DEF In
  <2>4. ASSUME NEW x, In(x, disk[cur].lines) PROVE x.life = life /\ cur.q <= x.q
    BY <1>3, <2>1, <2>4 DEF In, RecInv, Layout, OpenFile
  <2>5. \A i \in 1..Len(d[cur].lines) : In(d[cur].lines[i], disk[cur].lines) \/ In(d[cur].lines[i], buf)
    BY <1>3 DEF Grown
  <2>6. \A i \in 1..Len(d[cur].lines) : d[cur].lines[i].life = life /\ cur.q <= d[cur].lines[i].q
    BY <2>3, <2>4, <2>5
  <2>7. \A x : In(x, d[cur].lines) => In(x, disk[cur].lines) \/ (x.life = life /\ Unwritten(x))
    BY <2>3, <2>5 DEF In
  <2> QED
    BY <2>1, <2>2, <2>6, <2>7
<1>4. ASSUME NEW f \in DOMAIN disk
      PROVE  /\ d[f].life = disk[f].life /\ Extends(disk[f].lines, d[f].lines)
             /\ disk[f].whole => d[f] = disk[f]
             /\ \A x : In(x, d[f].lines) => In(x, disk[f].lines) \/ (f = cur /\ x.life = life /\ Unwritten(x))
             /\ \A i \in 1..Len(d[f].lines) : d[f].lines[i].life = d[f].life
  <2>1. CASE f # cur
    BY <1>2, <2>1 DEF Grown, OfLives, OneLife
  <2>2. CASE f = cur
    <3>1. d[cur].life = life /\ Extends(disk[cur].lines, d[cur].lines)
      BY <1>1, <2>2 DEF Grown
    <3> QED
      BY <1>1, <1>3, <2>2, <3>1
  <2> QED
    BY <2>1, <2>2
<1>5. DOMAIN d = DOMAIN disk
  BY DEF Grown
<1>6. ASSUME NEW f \in DOMAIN disk, NEW g \in DOMAIN disk, f # g, d[f].life = d[g].life
      PROVE  Apart(d, f, g)
  <2>1. disk[f].life = disk[g].life
    BY <1>4, <1>6
  <2>2. CASE f # cur /\ g # cur
    <3>1. d[f] = disk[f] /\ d[g] = disk[g]
      BY <2>2 DEF Grown
    <3>2. Apart(disk, f, g)
      BY <1>6, <2>1 DEF OfLives, OneLife
    <3> QED
      BY <3>1, <3>2 DEF Apart
  <2>3. CASE f = cur
    BY <1>1, <1>3, <1>6, <2>1, <2>3 DEF Apart
  <2>4. CASE g = cur
    BY <1>1, <1>3, <1>6, <2>1, <2>4 DEF Apart
  <2> QED
    BY <2>2, <2>3, <2>4
<1>7. OneLife(d)
  BY <1>4, <1>5, <1>6 DEF OneLife, OfLives
<1> QED
  BY <1>3, <1>4, <1>5, <1>7

-----------------------------------------------------------------------------
(* What a reader relies on in a step of the recorder: an old file goes on, *)
(* or was left open by a former life and begins anew; a line is new or was *)
(* in its file; and in the order of the names only the last one changes.   *)
Sane == NamesFollowNumbers /\ dropped = {}
GoesOn(f) == /\ disk'[f].life = disk[f].life /\ Extends(disk[f].lines, disk'[f].lines)
             /\ disk[f].whole => disk'[f] = disk[f]
Cut(f) == /\ Len(disk'[f].lines) = 0 /\ disk[f].life < disk'[f].life /\ disk'[f].life = life'
          /\ crashes' # 0 /\ f \notin Closed
LastOnDisk(f) == \A g \in DOMAIN disk : ~NameBefore(f, g)
Grows ==
  /\ DOMAIN disk \subseteq DOMAIN disk' /\ life <= life' /\ Closed \subseteq Closed'
  /\ dropped \subseteq dropped' /\ (crashes' = 0 => crashes = 0)
  /\ \A f \in DOMAIN disk : GoesOn(f) \/ Cut(f)
  /\ \A f \in DOMAIN disk' : \A x : In(x, disk'[f].lines) =>
       f \in DOMAIN disk /\ (In(x, disk[f].lines) \/ (x.life = life /\ Unwritten(x)))
  /\ Sane' => /\ \A f \in DOMAIN disk' \ DOMAIN disk, g \in DOMAIN disk : NameBefore(g, f)
              /\ \A f \in DOMAIN disk : disk'[f] = disk[f] \/ LastOnDisk(f)

LEMMA SaneStays ==
  ASSUME DOMAIN disk \subseteq DOMAIN disk', dropped \subseteq dropped', Sane'
  PROVE  Sane
BY DEF Sane, NamesFollowNumbers

(* A number below that of the open file, or of the next event, is earlier. *)
LEMMA ListedIsBelow ==
  ASSUME RecInv, NEW f \in DOMAIN disk, Named(manifest, f)
  PROVE  /\ cur # NoFile => f.q < cur.q
         /\ \A j \in 1..Len(queue) : f.q < queue[j].q
<1>1. PICK m \in manifest : m.file = f
  BY DEF Named
<1>2. /\ f.q \in Nat /\ m.last \in Nat /\ f.q <= m.last
      /\ \A j \in 1..Len(queue) : queue[j].q \in Nat /\ m.last < queue[j].q
      /\ cur # NoFile => m.last < cur.q
  BY <1>1, NumberTypes DEF RecInv, Layout, Listed
<1>3. cur # NoFile => cur.q \in Nat
  BY FlushedIs, NumberTypes DEF RecInv
<1> QED
  BY <1>2, <1>3

LEMMA CurIsLast ==
  ASSUME RecInv, ReplayInv, Sane, cur # NoFile
  PROVE  cur \in DOMAIN disk /\ LastOnDisk(cur)
<1>1. cur \in DOMAIN disk /\ cur \in Name
  BY FlushedIs
<1>2. Running
  BY DEF RecInv, TypeOK, Layout, Idle, Running
<1>3. ASSUME NEW g \in DOMAIN disk PROVE ~NameBefore(cur, g)
  <2>1. /\ g \in Name /\ g.q \in Nat /\ g.r \in Nat /\ cur.q \in Nat /\ cur.r \in Nat
    BY <1>1, NumberTypes DEF RecInv
  <2>2. CASE g = cur
    BY <1>1, <2>2, NamesAreOrdered
  <2>3. CASE Named(manifest, g)
    <3>1. cur.q > g.q
      BY <2>1, <2>3, ListedIsBelow
    <3> QED
      BY <1>1, <3>1 DEF Sane, NamesFollowNumbers
  <2>4. CASE ~Named(manifest, g) /\ g # cur
    <3>1. Earlier(g, cur)
      BY <1>2, <2>4 DEF ReplayInv, Line1, Orphans, Behind, Sane
    <3>2. CASE cur.q > g.q
      BY <1>1, <3>2 DEF Sane, NamesFollowNumbers
    <3>3. CASE g.q = cur.q /\ g.r < cur.r
      BY <2>1, <3>3 DEF NameBefore
    <3> QED
      BY <2>1, <3>1, <3>2, <3>3 DEF Earlier
  <2> QED
    BY <2>2, <2>3, <2>4
<1> QED
  BY <1>1, <1>3 DEF LastOnDisk

LEMMA GrownGoesOn ==
  ASSUME RecInv, ReplayInv, OfLives, Grown(disk'), life' = life, dropped' = dropped,
         crashes' = 0 => crashes = 0, manifest \subseteq manifest'
  PROVE  Grows /\ OneLife(disk)'
<1>1. /\ DOMAIN disk' = DOMAIN disk /\ OneLife(disk)'
      /\ \A f \in DOMAIN disk :
           /\ disk'[f].life = disk[f].life /\ Extends(disk[f].lines, disk'[f].lines)
           /\ disk[f].whole => disk'[f] = disk[f]
           /\ \A x : In(x, disk'[f].lines) => In(x, disk[f].lines) \/ (f = cur /\ x.life = life /\ Unwritten(x))
  BY GrownIs DEF OneLife
<1>2. Closed \subseteq Closed' /\ life <= life'
  BY Sequences DEF Closed, RecInv
<1>3. \A f \in DOMAIN disk : GoesOn(f)
  BY <1>1 DEF GoesOn
<1>4. Sane' => \A f \in DOMAIN disk : disk'[f] = disk[f] \/ LastOnDisk(f)
  <2> SUFFICES ASSUME Sane', NEW f \in DOMAIN disk, disk'[f] # disk[f]
               PROVE  LastOnDisk(f)
    OBVIOUS
  <2>1. Sane
    BY <1>1, SaneStays
  <2>2. f = cur
    BY DEF Grown
  <2>3. cur # NoFile
    BY <2>2, NumberTypes DEF RecInv
  <2> QED
    BY <2>1, <2>2, <2>3, CurIsLast
<1> QED
  BY <1>1, <1>2, <1>3, <1>4 DEF Grows

LEMMA SameIsGrown ==
  ASSUME RecInv, OfLives, disk' = disk
  PROVE  Grown(disk')
<1>1. cur # NoFile => cur \in DOMAIN disk /\ disk[cur].life = life /\ disk[cur].lines \in Seq(Event)
  BY FlushedIs, Sequences DEF RecInv, OfLives, OpenLife
<1> QED
  BY <1>1 DEF Grown, Extends, In

(* A part of the buffer goes to the open file. *)
LEMMA MoreIsGrown ==
  ASSUME RecInv, OfLives, cur # NoFile, NEW s \in Seq(Event), \A x : In(x, s) => In(x, buf),
         NEW d, DOMAIN d = DOMAIN disk, d[cur].lines = disk[cur].lines \o s, d[cur].life = life,
         \A f \in DOMAIN disk : f # cur => d[f] = disk[f]
  PROVE  Grown(d)
<1>1. cur \in DOMAIN disk /\ disk[cur].lines \in Seq(Event)
  BY FlushedIs, Sequences DEF RecInv
<1>2. /\ d[cur].lines \in Seq(Event) /\ Len(d[cur].lines) = Len(disk[cur].lines) + Len(s)
      /\ \A i \in 1..Len(disk[cur].lines) : d[cur].lines[i] = disk[cur].lines[i]
  BY <1>1, ConcatIs
<1>3. Len(d[cur].lines) \in Nat /\ Len(disk[cur].lines) \in Nat /\ Len(s) \in Nat
  BY <1>1, <1>2
<1>4. Extends(disk[cur].lines, d[cur].lines)
  BY <1>2, <1>3 DEF Extends
<1>5. ASSUME NEW i \in 1..Len(d[cur].lines)
      PROVE  In(d[cur].lines[i], disk[cur].lines) \/ In(d[cur].lines[i], buf)
  <2>1. In(d[cur].lines[i], d[cur].lines)
    BY DEF In
  <2> QED
    BY <1>1, <2>1, InConcat
<1> QED
  BY <1>3, <1>4, <1>5 DEF Grown

LEMMA FlushIsGrown == RecInv /\ OfLives /\ Flush => Grown(disk') /\ \A f \in DOMAIN disk : disk'[f].whole = disk[f].whole
<1> SUFFICES ASSUME RecInv, OfLives, Flush
             PROVE  Grown(disk') /\ \A f \in DOMAIN disk : disk'[f].whole = disk[f].whole
  OBVIOUS
<1>1. cur # NoFile /\ cur \in DOMAIN disk /\ buf \in Seq(Event)
  BY FlushedIs, Sequences DEF Flush, RecInv
<1>2. /\ DOMAIN disk' = DOMAIN disk /\ disk'[cur] = [disk[cur] EXCEPT !.lines = Flushed]
      /\ \A g \in DOMAIN disk : g # cur => disk'[g] = disk[g]
  BY <1>1, PutFile DEF Flush
<1>3. disk[cur] \in FileType /\ disk[cur].life = life
  BY <1>1 DEF RecInv, TypeOK, FileType, OfLives, OpenLife
<1>4. disk'[cur].lines = disk[cur].lines \o buf /\ disk'[cur].life = life /\ disk'[cur].whole = disk[cur].whole
  BY <1>2, <1>3 DEF Flushed, FileType
<1>5. Grown(disk')
  BY <1>1, <1>2, <1>4, MoreIsGrown
<1> QED
  BY <1>2, <1>4, <1>5

LEMMA ClosedIsGrown ==
  ASSUME RecInv, OfLives
  PROVE  /\ Grown(ClosedDisk)
         /\ crashes = 0 => \A f \in DOMAIN disk : ClosedDisk[f].whole
<1>1. CASE cur = NoFile
  <2>1. ClosedDisk = disk
    BY <1>1 DEF ClosedDisk
  <2>2. Grown(disk)
    BY <1>1 DEF Grown
  <2>3. \A f \in DOMAIN disk : f # NoFile
    BY NumberTypes DEF RecInv
  <2> QED
    BY <1>1, <2>1, <2>2, <2>3 DEF OfLives, OpenLife
<1>2. CASE cur # NoFile
  <2>1. cur \in DOMAIN disk /\ buf \in Seq(Event)
    BY <1>2, FlushedIs, Sequences DEF RecInv
  <2>2. /\ DOMAIN ClosedDisk = DOMAIN disk
        /\ ClosedDisk[cur] = [life |-> life, lines |-> Flushed, whole |-> TRUE]
        /\ \A g \in DOMAIN disk : g # cur => ClosedDisk[g] = disk[g]
    BY <1>2, <2>1, PutFile DEF ClosedDisk
  <2>3. ClosedDisk[cur].lines = disk[cur].lines \o buf /\ ClosedDisk[cur].life = life /\ ClosedDisk[cur].whole
    BY <2>2 DEF Flushed
  <2>4. Grown(ClosedDisk)
    BY <1>2, <2>1, <2>2, <2>3, MoreIsGrown
  <2> QED
    BY <2>2, <2>3, <2>4 DEF OfLives, OpenLife
<1> QED
  BY <1>1, <1>2

LEMMA CrashIsGrown == RecInv /\ OfLives /\ Crash => Grown(disk')
<1> SUFFICES ASSUME RecInv, OfLives, Crash PROVE Grown(disk')
  OBVIOUS
<1>1. CASE disk' = disk
  BY <1>1, SameIsGrown
<1>2. CASE cur # NoFile /\ \E n \in 0..Len(buf) :
             disk' = Put(disk, cur, [disk[cur] EXCEPT !.lines = @ \o SubSeq(buf, 1, n)])
  <2>1. PICK n \in 0..Len(buf) : disk' = Put(disk, cur, [disk[cur] EXCEPT !.lines = @ \o SubSeq(buf, 1, n)])
    BY <1>2
  <2>2. cur \in DOMAIN disk /\ buf \in Seq(Event)
    BY <1>2, FlushedIs, Sequences DEF RecInv
  <2>3. disk[cur] \in FileType /\ disk[cur].life = life
    BY <1>2, <2>2 DEF RecInv, TypeOK, FileType, OfLives, OpenLife
  <2> DEFINE s == SubSeq(buf, 1, n)
  <2>4. s \in Seq(Event) /\ Len(s) = n /\ \A i \in 1..n : s[i] = buf[i] /\ i \in 1..Len(buf)
    BY <2>2, SubSeqProperties
  <2>5. \A x : In(x, s) => In(x, buf)
    BY <2>4 DEF In
  <2> HIDE DEF s
  <2>6. /\ DOMAIN disk' = DOMAIN disk /\ disk'[cur] = [disk[cur] EXCEPT !.lines = @ \o s]
        /\ \A g \in DOMAIN disk : g # cur => disk'[g] = disk[g]
    BY <2>1, <2>2, PutFile DEF s
  <2>7. disk'[cur].lines = disk[cur].lines \o s /\ disk'[cur].life = life
    BY <2>3, <2>6 DEF FileType
  <2> QED
    BY <1>2, <2>4, <2>5, <2>6, <2>7, MoreIsGrown
<1>3. CASE PartlyClosed
  BY <1>3, PartlyIs, ClosedIsGrown
<1> QED
  BY <1>1, <1>2, <1>3 DEF Crash

-----------------------------------------------------------------------------
(* The files of the lives stay as they are while the open one does. *)
LEMMA LivesStay ==
  ASSUME OfLives, UNCHANGED <<life, cur, disk, manifest, crashes>>, writer' => writer
  PROVE  OfLives'
BY DEF OfLives, OneLife, OpenLife

LEMMA SameGoesOn ==
  ASSUME RecInv, ReplayInv, OfLives, disk' = disk, life' = life, dropped \subseteq dropped',
         crashes' = crashes, manifest \subseteq manifest'
  PROVE  Grows
<1>1. \A f \in DOMAIN disk : GoesOn(f)
  BY Sequences DEF GoesOn, Extends, RecInv
<1>2. life <= life' /\ Closed \subseteq Closed'
  BY Sequences DEF RecInv, Closed
<1> QED
  BY <1>1, <1>2 DEF Grows

(* A life begins with no file of its own. *)
LEMMA BootGrows == RecInv /\ ReplayInv /\ OfLives /\ Boot => OfLives' /\ Grows
<1> SUFFICES ASSUME RecInv, ReplayInv, OfLives, Boot PROVE OfLives' /\ Grows
  OBVIOUS
<1>1. /\ life' = life + 1 /\ life \in Nat /\ cur' = NoFile /\ disk' = disk
      /\ UNCHANGED <<dropped, manifest, crashes>>
  BY Sequences DEF Boot, RecInv
<1>2. \A f \in DOMAIN disk : disk[f].life \in Nat /\ disk[f].life <= life
  BY RecAssumption DEF OfLives, OneLife, RecInv, TypeOK
<1>3. \A f \in DOMAIN disk : disk[f].life <= life' /\ disk[f].life # life'
  BY <1>1, <1>2
<1>3a. cur = NoFile
  BY DEF Boot, RecInv, Layout, Idle
<1>4. OfLives'
  BY <1>1, <1>3, <1>3a DEF OfLives, OneLife, OpenLife
<1>5. \A f \in DOMAIN disk : GoesOn(f)
  BY <1>1, Sequences DEF GoesOn, Extends, RecInv
<1>6. life <= life' /\ Closed \subseteq Closed'
  BY <1>1 DEF Closed
<1> QED
  BY <1>1, <1>4, <1>5, <1>6 DEF Grows

LEMMA RotateGrows ==
  ASSUME RecInv, ReplayInv, OfLives, WriterStep, ~(cur # NoFile /\ Head(queue).r = cur.r)
  PROVE  OfLives' /\ Grows
<1> DEFINE ev == Head(queue)
           name == [r |-> ev.r, q |-> ev.q]
           file == [life |-> life, lines |-> << >>, whole |-> FALSE]
<1>1. /\ cur' = name /\ manifest' = ClosedManifest /\ disk' = Put(ClosedDisk, name, file)
  BY DEF WriterStep, Write
<1>0. ev = Head(queue)
  OBVIOUS
<1>n. name.r = ev.r /\ name.q = ev.q /\ Len(file.lines) = 0 /\ ~file.whole /\ file.life = life
  OBVIOUS
<1> HIDE DEF ev, name, file
<1>2. /\ ev \in Event /\ ev.q \in Nat /\ ev.r \in Nat /\ ev.r \in 0..MaxBucket /\ ev.q \in Numbers
      /\ Running /\ writer /\ proc # "off" /\ 1 \in 1..Len(queue) /\ queue[1] = ev
      /\ UNCHANGED <<proc, life, seq, now, dropped, writer, crashes>>
  BY <1>0, TakenIs
<1>3. name \in Name
  BY <1>n, <1>2, RecAssumption DEF Name, NoFile, Numbers, ev, name
<1>4. DOMAIN ClosedDisk = DOMAIN disk /\ \A f \in DOMAIN disk : ClosedDisk[f] \in FileType
  BY ClosedIs
<1>5. /\ DOMAIN disk' = DOMAIN disk \cup {name} /\ disk'[name] = file
      /\ \A f \in DOMAIN disk : f # name => disk'[f] = ClosedDisk[f]
  BY <1>1, <1>4 DEF Put
<1>6. /\ OneLife(ClosedDisk)
      /\ \A f \in DOMAIN disk :
           /\ ClosedDisk[f].life = disk[f].life /\ Extends(disk[f].lines, ClosedDisk[f].lines)
           /\ disk[f].whole => ClosedDisk[f] = disk[f]
           /\ \A x : In(x, ClosedDisk[f].lines) =>
                In(x, disk[f].lines) \/ (f = cur /\ x.life = life /\ Unwritten(x))
      /\ crashes = 0 => \A f \in DOMAIN disk : ClosedDisk[f].whole
  BY <1>2, ClosedIsGrown, GrownIs
<1>6a. \A f \in DOMAIN disk : /\ Named(ClosedManifest, f) <=> f = cur \/ Named(manifest, f)
                              /\ disk[f].life = life => Named(ClosedManifest, f)
  BY <1>2, ClosedFiles DEF OfLives, OpenLife
<1>7. manifest \subseteq manifest' /\ life <= life' /\ life' = life /\ dropped' = dropped /\ crashes' = crashes
  BY <1>1, <1>2, ClosedFiles, Sequences DEF RecInv
<1>8. \A f \in DOMAIN disk : f \in Name /\ f.q \in Nat /\ f.r \in Nat
  BY NumberTypes DEF RecInv
(* A listed file is below the next event, so the name is new or that of a  *)
(* file which a former life left without a line.                           *)
<1>9. ASSUME NEW f \in DOMAIN disk, Named(ClosedManifest, f) PROVE f.q < ev.q
  <2>1. PICK m \in ClosedManifest : m.file = f
    BY <1>9 DEF Named
  <2>2. m.last < ev.q /\ m.file.q <= m.last /\ m.last \in Nat
    BY <1>2, ClosedIs DEF LineType, Numbers
  <2> QED
    BY <1>2, <1>8, <2>1, <2>2
<1>10. ASSUME name \in DOMAIN disk
       PROVE  Cut(name)
  <2>1. ~Named(ClosedManifest, name)
    BY <1>n, <1>2, <1>9, <1>10
  <2>2. name \notin Closed /\ crashes # 0
    BY <1>2, <1>6a, <1>10, <2>1, ClosedTidy DEF Closed, Named, Sound
  <2>3. disk[name].life <= life /\ disk[name].life \in Nat /\ disk[name].life # life
    BY <1>6a, <1>10, <2>1, RecAssumption DEF OfLives, OneLife, RecInv, TypeOK
  <2>4. disk[name].life < life /\ life \in Nat
    BY <2>3, Sequences DEF RecInv
  <2> QED
    BY <1>n, <1>5, <1>7, <2>2, <2>4 DEF Cut
<1>11. \A f \in DOMAIN disk : GoesOn(f) \/ Cut(f)
  BY <1>5, <1>6, <1>10 DEF GoesOn
<1>12. \A f \in DOMAIN disk' : \A x : In(x, disk'[f].lines) =>
         f \in DOMAIN disk /\ (In(x, disk[f].lines) \/ (x.life = life /\ Unwritten(x)))
  <2>1. \A x : ~In(x, disk'[name].lines)
    BY <1>n, <1>5 DEF In
  <2> QED
    BY <1>5, <1>6, <2>1
(* The new file is the last one. *)
<1>13. ASSUME Sane', NEW g \in DOMAIN disk
       PROVE  ~NameBefore(name, g)
  <2>1. name \in DOMAIN disk' /\ g \in DOMAIN disk' /\ dropped = {}
    BY <1>5, <1>7, <1>13 DEF Sane
  <2>2. CASE name.q > g.q
    BY <1>13, <2>1, <2>2 DEF Sane, NamesFollowNumbers
  <2>3. CASE g.q = ev.q /\ g.r <= ev.r
    <3>1. DecimalKey(name.q) = DecimalKey(g.q) /\ DecimalKey(g.q) \in Nat
      BY <1>n, <1>8, <2>3, KeyType
    <3>2. ~(DecimalKey(name.q) < DecimalKey(g.q))
      BY <3>1
    <3> QED
      BY <1>n, <1>2, <1>8, <2>3, <3>2 DEF NameBefore
  <2>4. CASE Named(ClosedManifest, g)
    BY <1>n, <1>2, <1>8, <1>9, <2>2, <2>4
  <2>5. CASE ~Named(ClosedManifest, g)
    <3>1. g # cur /\ ~Named(manifest, g)
      BY <2>5, ClosedTidy
    <3>2. Behind(g)
      BY <1>2, <2>1, <3>1 DEF ReplayInv, Line1, Orphans
    <3>3. g.q < ev.q \/ (g.q = ev.q /\ g.r <= ev.r)
      BY <1>2, <3>2 DEF Behind
    <3> QED
      BY <1>n, <1>2, <1>8, <2>2, <2>3, <3>3
  <2> QED
    BY <2>4, <2>5
<1>14. Sane' => \A f \in DOMAIN disk' \ DOMAIN disk, g \in DOMAIN disk : NameBefore(g, f)
  <2> SUFFICES ASSUME Sane', NEW f \in DOMAIN disk' \ DOMAIN disk, NEW g \in DOMAIN disk
               PROVE  NameBefore(g, f)
    OBVIOUS
  <2>1. f = name /\ g # name /\ g \in Name
    BY <1>5, <1>8
  <2> QED
    BY <1>3, <1>13, <2>1, NamesAreOrdered
<1>15. Sane' => \A f \in DOMAIN disk : disk'[f] = disk[f] \/ LastOnDisk(f)
  <2> SUFFICES ASSUME Sane', NEW f \in DOMAIN disk, disk'[f] # disk[f]
               PROVE  LastOnDisk(f)
    OBVIOUS
  <2>1. CASE f = name
    BY <1>13, <2>1 DEF LastOnDisk
  <2>2. CASE f # name
    <3>1. disk'[f] = ClosedDisk[f]
      BY <1>5, <2>2
    <3>2. f = cur /\ f # NoFile
      BY <3>1, ClosedFiles, NumberTypes DEF RecInv
    <3>3. Sane
      BY <1>5, <1>7, SaneStays
    <3> QED
      BY <3>2, <3>3, CurIsLast
  <2> QED
    BY <2>1, <2>2
<1>16. Closed \subseteq Closed' /\ DOMAIN disk \subseteq DOMAIN disk' /\ dropped \subseteq dropped'
  BY <1>5, <1>7 DEF Closed
<1>17. Grows
  BY <1>7, <1>11, <1>12, <1>14, <1>15, <1>16 DEF Grows
(* The events of this life came before the one that opens the file. *)
<1>18. ASSUME NEW g \in DOMAIN disk, g # name, disk'[g].life = life
       PROVE  Named(ClosedManifest, g) /\ Below(disk'[g].lines, name.q)
  <2>1. disk'[g] = ClosedDisk[g] /\ disk[g].life = life /\ ClosedDisk[g].life = life
    BY <1>5, <1>6, <1>18
  <2>2. \A i \in 1..Len(ClosedDisk[g].lines) : ClosedDisk[g].lines[i].life = life
    BY <1>4, <1>6, <2>1 DEF OneLife
  <2>3. \A i \in 1..Len(ClosedDisk[g].lines) : Waits(ClosedDisk[g].lines[i].q)
    BY <2>2, ClosedIs
  <2>4. \A i \in 1..Len(ClosedDisk[g].lines) : ClosedDisk[g].lines[i].q < name.q
    BY <1>n, <1>2, <2>3 DEF Waits
  <2> QED
    BY <1>5, <1>6a, <1>18, <2>1, <2>4 DEF Below
<1>19. ASSUME NEW f \in DOMAIN disk', NEW g \in DOMAIN disk', f # g, disk'[f].life = disk'[g].life
       PROVE  Apart(disk', f, g)
  <2>1. CASE f = name
    BY <1>n, <1>5, <1>18, <1>19, <2>1 DEF Apart
  <2>2. CASE g = name
    BY <1>n, <1>5, <1>18, <1>19, <2>2 DEF Apart
  <2>3. CASE f # name /\ g # name
    <3>1. disk'[f] = ClosedDisk[f] /\ disk'[g] = ClosedDisk[g] /\ f \in DOMAIN ClosedDisk /\ g \in DOMAIN ClosedDisk
      BY <1>4, <1>5, <2>3
    <3>2. Apart(ClosedDisk, f, g)
      BY <1>6, <1>19, <3>1 DEF OneLife
    <3> QED
      BY <3>1, <3>2 DEF Apart
  <2> QED
    BY <2>1, <2>2, <2>3
<1>20. ASSUME NEW f \in DOMAIN disk'
       PROVE  /\ disk'[f].life <= life
              /\ \A i \in 1..Len(disk'[f].lines) : disk'[f].lines[i].life = disk'[f].life
  <2>1. CASE f = name
    BY <1>n, <1>5, <1>7, <2>1, Sequences DEF RecInv
  <2>2. CASE f # name
    <3>1. disk'[f] = ClosedDisk[f] /\ f \in DOMAIN ClosedDisk
      BY <1>4, <1>5, <2>2
    <3> QED
      BY <1>6, <3>1 DEF OneLife
  <2> QED
    BY <2>1, <2>2
<1>21. OneLife(disk)'
  BY <1>7, <1>19, <1>20 DEF OneLife
<1>22. OpenLife'
  BY <1>n, <1>1, <1>5, <1>6, <1>7, <1>18 DEF OpenLife
<1> QED
  BY <1>17, <1>21, <1>22 DEF OfLives

LEMMA LivesStep ==
  ASSUME RecInv, ReplayInv, OfLives, [SysNext]_sysVars
  PROVE  OfLives' /\ Grows
<1>1. CASE RecNext
  <2>1. ASSUME NEW r \in 0..MaxBucket, Record(r) PROVE OfLives' /\ Grows
    BY <2>1, LivesStay, SameGoesOn DEF Record, Emit
  <2>2. ASSUME Stop PROVE OfLives' /\ Grows
    BY <2>2, LivesStay, SameGoesOn DEF Stop, Emit
  <2>3. ASSUME Exit \/ Hour PROVE OfLives' /\ Grows
    BY <2>3, LivesStay, SameGoesOn DEF Exit, Hour
  <2>4. ASSUME WriterStep PROVE OfLives' /\ Grows
    <3>1. CASE cur # NoFile /\ Head(queue).r = cur.r
      <4>1. UNCHANGED <<proc, life, writer, cur, disk, dropped, crashes, manifest>>
        BY <2>4, <3>1 DEF WriterStep, Write
      <4> QED
        BY <4>1, LivesStay, SameGoesOn
    <3> QED
      BY <2>4, <3>1, RotateGrows
  <2>5. ASSUME Flush PROVE OfLives' /\ Grows
    <3>1. /\ Grown(disk') /\ DOMAIN disk' = DOMAIN disk
          /\ \A f \in DOMAIN disk : disk'[f].whole = disk[f].whole /\ disk'[f].life = disk[f].life
          /\ cur # NoFile => \A g \in DOMAIN disk : g # cur /\ disk[g].life = life => Below(disk'[g].lines, cur.q)
      BY <2>5, FlushIsGrown, GrownIs
    <3>2. UNCHANGED <<proc, life, writer, cur, dropped, crashes, manifest>>
      BY <2>5 DEF Flush
    <3>3. Grows /\ OneLife(disk)'
      BY <3>1, <3>2, GrownGoesOn
    <3>4. cur # NoFile => cur \in DOMAIN disk
      BY FlushedIs
    <3>5. OpenLife'
      BY <3>1, <3>2, <3>4 DEF OpenLife, OfLives
    <3> QED
      BY <3>3, <3>5 DEF OfLives
  <2>6. ASSUME Crash PROVE OfLives' /\ Grows
    <3>1. Grown(disk')
      BY <2>6, CrashIsGrown
    <3>2. UNCHANGED <<life, dropped>> /\ crashes' = crashes + 1 /\ crashes \in Nat
          /\ writer' = FALSE /\ cur' = NoFile
      BY <2>6, RecAssumption DEF Crash, RecInv, TypeOK
    <3>3. crashes' # 0 /\ manifest \subseteq manifest'
      <4>1. manifest \subseteq ClosedManifest
        BY ClosedFiles
      <4> QED
        BY <2>6, <3>2, <4>1, PartlyIs DEF Crash
    <3>4. Grows /\ OneLife(disk)'
      BY <3>1, <3>2, <3>3, GrownGoesOn
    <3> QED
      BY <3>2, <3>3, <3>4 DEF OfLives, OpenLife
  <2>7. ASSUME disk' = ClosedDisk, manifest' \in {manifest, ClosedManifest}, cur' = NoFile,
               writer' = FALSE, UNCHANGED <<life, dropped, crashes>>
        PROVE  OfLives' /\ Grows
    <3>1. manifest \subseteq manifest'
      BY <2>7, ClosedFiles
    <3>2. Grown(disk') /\ (crashes = 0 => \A f \in DOMAIN disk : disk'[f].whole)
      BY <2>7, ClosedIsGrown
    <3>3. DOMAIN disk' = DOMAIN disk
      BY <3>2, GrownIs
    <3>4. Grows /\ OneLife(disk)'
      BY <2>7, <3>1, <3>2, GrownGoesOn
    <3> QED
      BY <2>7, <3>2, <3>3, <3>4 DEF OfLives, OpenLife
  <2>8. ASSUME Close PROVE OfLives' /\ Grows
    BY <2>7, <2>8 DEF Close
  <2>9. ASSUME WriterDies PROVE OfLives' /\ Grows
    <3>1. UNCHANGED <<life, dropped, crashes>> /\ writer' = FALSE
      BY <2>9 DEF WriterDies
    <3>2. CASE UNCHANGED <<cur, buf, disk, manifest>>
      BY <3>1, <3>2, LivesStay, SameGoesOn
    <3>3. CASE PartlyClosed /\ cur' = NoFile
      BY <2>7, <3>1, <3>3 DEF PartlyClosed
    <3> QED
      BY <2>9, <3>2, <3>3 DEF WriterDies
  <2> QED
    BY <1>1, <2>1, <2>2, <2>3, <2>4, <2>5, <2>6, <2>8, <2>9, BootGrows DEF RecNext
<1>2. CASE UNCHANGED recVars
  BY <1>2, LivesStay, SameGoesOn DEF recVars
<1>3. SysNext => RecNext \/ UNCHANGED recVars
  BY DEF SysNext, WithStore, TradeEvent, RecNext
<1>4. UNCHANGED sysVars => UNCHANGED recVars
  BY DEF sysVars
<1> QED
  BY <1>1, <1>2, <1>3, <1>4

-----------------------------------------------------------------------------
(* The console: what its parts name exists. *)
Shape ==
  /\ done \subseteq DOMAIN disk /\ old \subseteq DOMAIN disk /\ known \subseteq Closed
  /\ \A i \in 1..Len(pend) : pend[i] \in DOMAIN disk
  /\ cache = NoCache \/ cache.after \in Closed
  /\ cons = "off" => view = << >>
  /\ cons \in {"off", "history"} => at = NoReader
  /\ cons = "ask" => at.f # NoFile
  /\ at.f = NoFile => at.n = 0
  /\ at.f # NoFile => at.f \in DOMAIN disk

(* How far the reader is in its file, unless the file began anew. *)
Place ==
  at.n > 0 => /\ at.life <= disk[at.f].life
              /\ at.life = disk[at.f].life => at.n <= Len(disk[at.f].lines)

(* What was shown is on disk, or of a former life. *)
Known(v) == \A i \in 1..Len(v) :
  v[i].life <= life /\ (v[i].life = life \/ crashes = 0 => InSome(v[i], disk))
Shown == Known(view) /\ Known(cache.view)

(* What was shown and is on disk is in a file left behind, or behind the   *)
(* position of the reader; for a checkpoint, in a file up to its own.      *)
Ahead(s, n, x) == \E i \in 1..Len(s) : i <= n /\ s[i] = x
Seen(f, x) == f \in done \/ (f = at.f /\ at.life = disk[f].life /\ Ahead(disk[f].lines, at.n, x))
UpTo(f, g) == f = g \/ NameBefore(f, g)
Once(v) == \A i, j \in 1..Len(v) : i # j => v[i] # v[j]
Marked ==
  /\ \A f \in DOMAIN disk : \A x : In(x, view) /\ In(x, disk[f].lines) => Seen(f, x)
  /\ \A f \in DOMAIN disk : \A x : In(x, cache.view) /\ In(x, disk[f].lines) => UpTo(f, cache.after)
  /\ Once(view) /\ Once(cache.view)

(* The files are taken in their order. *)
InTurn ==
  /\ \A i \in 1..Len(pend) : /\ \A g \in done : NameBefore(g, pend[i])
                             /\ \A j \in 1..Len(pend) : i < j => NameBefore(pend[i], pend[j])
  /\ cons \in {"read", "ask"} => pend = << >>
  /\ at.f # NoFile => at.f \in done \/ \A g \in DOMAIN disk \ done : ~NameBefore(g, at.f)

(* Without a crash: a file left behind is complete and all of it was       *)
(* shown, unless a start left it before its window.                        *)
Covers(f, v) == \A i \in 1..Len(disk[f].lines) : In(disk[f].lines[i], v)
LeftRead == \A f \in done : disk[f].whole /\ (f \in old \/ Covers(f, view))
PlaceRead ==
  /\ at.n > 0 => /\ at.life = disk[at.f].life
                 /\ \A i \in 1..Len(disk[at.f].lines) : i <= at.n => In(disk[at.f].lines[i], view)
  /\ at.finished \/ (cons = "ask" /\ at.many) => disk[at.f].whole /\ at.n = Len(disk[at.f].lines)
  /\ at.finished => at.f # NoFile
CacheRead ==
  cache # NoCache => \A f \in DOMAIN disk : UpTo(f, cache.after) => f \in old \/ Covers(f, cache.view)
PendRead ==
  /\ \A i \in 1..Len(pend) : disk[pend[i]].whole
  /\ cons = "history" => \A f \in DOMAIN disk, i \in 1..Len(pend) :
       NameBefore(f, pend[i]) => f \in done \/ f \in old \/ \E j \in 1..Len(pend) : f = pend[j]
AllRead == LeftRead /\ PlaceRead /\ CacheRead /\ PendRead

(* If no start left any file before its window, nothing comes out of turn. *)
InSequence ==
  /\ Climbs(view) /\ Climbs(cache.view)
  /\ \A g \in done, f \in DOMAIN disk : f \in done \/ NameBefore(g, f)

ConsoleInv ==
  /\ dropped = {} /\ Shape /\ Place /\ Shown
  /\ Sane => Marked /\ InTurn
  /\ Sane /\ crashes = 0 => AllRead
  /\ Sane /\ crashes = 0 /\ old = {} => InSequence
ReaderInv == IF beside = "console" THEN ConsoleInv ELSE cons = "off" /\ view = << >>

ConsoleTyped ==
  /\ cons \in {"off", "history", "read", "ask"} /\ done \subseteq Name
  /\ pend \in Seq(Name) /\ known \subseteq Name /\ old \subseteq Name
  /\ at \in [f : Name \cup {NoFile}, life : 0..MaxLives, n : Nat, finished : BOOLEAN, many : BOOLEAN]
  /\ view \in Seq(Event) /\ cache \in [after : Name \cup {NoFile}, view : Seq(Event)]
  /\ starts \in 0..MaxConsoles

-----------------------------------------------------------------------------
(* The recorder goes on while the console stays as it is. *)
LEMMA ClosedExist ==
  ASSUME RecInv
  PROVE  /\ Closed \subseteq DOMAIN disk /\ NoFile \notin DOMAIN disk
         /\ \A f \in Closed : disk[f].whole
BY NumberTypes DEF RecInv, ManifestTrue, Closed

DiskTyped ==
  /\ life \in Nat /\ \A f \in DOMAIN disk : disk[f].life \in Nat /\ Len(disk[f].lines) \in Nat
  /\ \A f \in DOMAIN disk : f \in Name

LEMMA Types == RecInv => DiskTyped
<1> SUFFICES ASSUME RecInv PROVE DiskTyped
  OBVIOUS
<1>1. life \in Nat /\ \A f \in DOMAIN disk : disk[f].lines \in Seq(Event) /\ f \in Name
  BY Sequences, NumberTypes DEF RecInv
<1>2. \A f \in DOMAIN disk : disk[f].life \in Nat
  BY RecAssumption DEF RecInv, TypeOK
<1> QED
  BY <1>1, <1>2 DEF DiskTyped

LEMMA TypesNext == RecInv' => DiskTyped'
BY Types, PTL

LEMMA TurnShape ==
  ASSUME Grows, Shape, UNCHANGED consVars
  PROVE  Shape'
<1>1. UNCHANGED <<cons, done, pend, known, at, view, cache, old>>
  BY DEF consVars
<1>2. DOMAIN disk \subseteq DOMAIN disk' /\ Closed \subseteq Closed'
  BY DEF Grows
<1> QED
  BY <1>1, <1>2 DEF Shape

LEMMA TurnPlace ==
  ASSUME RecInv, RecInv', Grows, Shape, Place, ConsoleTyped, UNCHANGED consVars
  PROVE  Place'
<1>1. UNCHANGED at
  BY DEF consVars
<1> SUFFICES ASSUME at.n > 0
             PROVE  /\ at.life <= disk'[at.f].life
                    /\ at.life = disk'[at.f].life => at.n <= Len(disk'[at.f].lines)
  BY <1>1 DEF Place
<1>2. at.n \in Nat /\ at.life \in Nat
  BY RecAssumption DEF ConsoleTyped
<1>3. at.f \in DOMAIN disk /\ at.f \in DOMAIN disk'
  BY <1>2 DEF Shape, Grows
<1>4. /\ disk[at.f].life \in Nat /\ Len(disk[at.f].lines) \in Nat
      /\ disk'[at.f].life \in Nat /\ Len(disk'[at.f].lines) \in Nat
  BY <1>3, Types, TypesNext DEF DiskTyped
<1>5. CASE GoesOn(at.f)
  <2>1. disk'[at.f].life = disk[at.f].life /\ Len(disk[at.f].lines) <= Len(disk'[at.f].lines)
    BY <1>5 DEF GoesOn, Extends
  <2> QED
    BY <1>2, <1>4, <2>1 DEF Place
<1>6. CASE Cut(at.f)
  BY <1>2, <1>4, <1>6 DEF Place, Cut
<1> QED
  BY <1>3, <1>5, <1>6 DEF Grows

LEMMA TurnKnown ==
  ASSUME RecInv, RecInv', OfLives, Grows, NEW v, Known(v), v \in Seq(Event)
  PROVE  Known(v)'
<1> SUFFICES ASSUME NEW i \in 1..Len(v)
             PROVE  v[i].life <= life' /\ (v[i].life = life' \/ crashes' = 0 => InSome(v[i], disk'))
  BY DEF Known
<1>1. v[i].life \in Nat /\ v[i].life <= life /\ life \in Nat /\ life' \in Nat /\ life <= life'
  BY EventIs, Types, TypesNext DEF Known, Grows, DiskTyped
<1>2. ASSUME v[i].life = life' \/ crashes' = 0
      PROVE  InSome(v[i], disk')
  <2>1. v[i].life = life \/ crashes = 0
    BY <1>1, <1>2 DEF Grows
  <2>2. PICK f \in DOMAIN disk : In(v[i], disk[f].lines)
    BY <2>1 DEF Known, InSome
  <2>3. PICK k \in 1..Len(disk[f].lines) : disk[f].lines[k] = v[i]
    BY <2>2 DEF In
  <2>4. disk[f].life = v[i].life
    BY <2>3 DEF OfLives, OneLife
  <2>5. f \in DOMAIN disk' /\ Len(disk[f].lines) \in Nat /\ Len(disk'[f].lines) \in Nat
    BY Types, TypesNext DEF Grows, DiskTyped
  <2>6. ~Cut(f)
    <3>1. disk[f].life \in Nat /\ disk'[f].life \in Nat
      BY <2>5, Types, TypesNext DEF DiskTyped
    <3> QED
      BY <1>2, <2>4, <3>1 DEF Cut
  <2>7. Extends(disk[f].lines, disk'[f].lines)
    BY <2>6 DEF Grows, GoesOn
  <2>8. disk'[f].lines[k] = v[i] /\ k \in 1..Len(disk'[f].lines)
    BY <2>3, <2>5, <2>7 DEF Extends
  <2> QED
    BY <2>5, <2>8 DEF InSome, In
<1> QED
  BY <1>1, <1>2

(* What was shown gets into no other file. *)
LEMMA TurnIn ==
  ASSUME OfLives, Grows, NEW v, Known(v), NEW f \in DOMAIN disk', NEW x, In(x, v), In(x, disk'[f].lines)
  PROVE  f \in DOMAIN disk /\ In(x, disk[f].lines)
<1>1. f \in DOMAIN disk /\ (In(x, disk[f].lines) \/ (x.life = life /\ Unwritten(x)))
  BY DEF Grows
<1>2. x.life = life => InSome(x, disk)
  BY DEF Known, In
<1> QED
  BY <1>1, <1>2 DEF InSome, Unwritten

LEMMA TurnMarked ==
  ASSUME RecInv, RecInv', OfLives, Grows, Shown, Marked, UNCHANGED consVars
  PROVE  Marked'
<1>1. UNCHANGED <<cons, done, pend, known, at, view, cache, old>>
  BY DEF consVars
<1>2. ASSUME NEW f \in DOMAIN disk', NEW x, In(x, view), In(x, disk'[f].lines)
      PROVE  Seen(f, x)'
  <2>1. f \in DOMAIN disk /\ In(x, disk[f].lines)
    BY <1>2, TurnIn DEF Shown
  <2>2. CASE f \in done
    BY <1>1, <2>2 DEF Seen
  <2>3. CASE f \notin done
    <3>1. f = at.f /\ at.life = disk[f].life /\ Ahead(disk[f].lines, at.n, x)
      BY <1>2, <2>1, <2>3 DEF Marked, Seen
    <3>2. Len(disk[f].lines) \in Nat /\ Len(disk'[f].lines) \in Nat
      BY <2>1, Types, TypesNext DEF DiskTyped
    <3>3. ~Cut(f)
      BY <1>2, <3>2 DEF Cut, In
    <3>4. disk'[f].life = disk[f].life /\ Extends(disk[f].lines, disk'[f].lines)
      BY <2>1, <3>3 DEF Grows, GoesOn
    <3>5. Ahead(disk'[f].lines, at.n, x)
      BY <3>1, <3>2, <3>4 DEF Ahead, Extends
    <3> QED
      BY <1>1, <3>1, <3>4, <3>5 DEF Seen
  <2> QED
    BY <2>2, <2>3
<1>3. ASSUME NEW f \in DOMAIN disk', NEW x, In(x, cache.view), In(x, disk'[f].lines)
      PROVE  UpTo(f, cache.after)
  BY <1>3, TurnIn DEF Shown, Marked
<1> QED
  BY <1>1, <1>2, <1>3 DEF Marked, UpTo

LEMMA TurnInTurn ==
  ASSUME RecInv, RecInv', Grows, Sane', Shape, InTurn, UNCHANGED consVars
  PROVE  InTurn'
<1>1. UNCHANGED <<cons, done, pend, known, at, view, cache, old>>
  BY DEF consVars
<1>2. ASSUME at.f # NoFile, at.f \notin done, NEW g \in DOMAIN disk' \ done
      PROVE  ~NameBefore(g, at.f)
  <2>1. at.f \in DOMAIN disk /\ at.f \in Name /\ g \in Name
    BY <1>2, Types, TypesNext DEF Shape, DiskTyped
  <2>2. CASE g \in DOMAIN disk
    BY <1>2, <2>2 DEF InTurn
  <2>3. CASE g \notin DOMAIN disk
    <3>1. NameBefore(at.f, g)
      BY <1>2, <2>1, <2>3 DEF Grows
    <3> QED
      BY <2>1, <3>1, NamesAreOrdered
  <2> QED
    BY <2>2, <2>3
<1> QED
  BY <1>1, <1>2 DEF InTurn

LEMMA TurnAllRead ==
  ASSUME RecInv, RecInv', Grows, Sane', crashes' = 0, ConsoleTyped, Shape, Place, AllRead, UNCHANGED consVars
  PROVE  AllRead'
<1>1. UNCHANGED <<cons, done, pend, known, at, view, cache, old>>
  BY DEF consVars
<1>2. \A f \in DOMAIN disk : f \in DOMAIN disk' /\ GoesOn(f)
  BY DEF Grows, Cut
<1>3. \A f \in DOMAIN disk : disk[f].whole => disk'[f] = disk[f]
  BY <1>2 DEF GoesOn
<1>4. done \subseteq DOMAIN disk /\ \A i \in 1..Len(pend) : pend[i] \in DOMAIN disk
  BY DEF Shape
<1>5. \A f \in DOMAIN disk : disk[f].whole => (Covers(f, view) <=> Covers(f, view)')
  BY <1>1, <1>3 DEF Covers
<1>6. \A f \in done : disk'[f].whole /\ (f \in old \/ Covers(f, view)')
  BY <1>3, <1>4, <1>5 DEF AllRead, LeftRead, PlaceRead, CacheRead, PendRead
<1>7. \A i \in 1..Len(pend) : disk'[pend[i]].whole
  BY <1>3, <1>4 DEF AllRead, LeftRead, PlaceRead, CacheRead, PendRead
<1>8. ASSUME at.n > 0
      PROVE  /\ at.life = disk'[at.f].life
             /\ \A i \in 1..Len(disk'[at.f].lines) : i <= at.n => In(disk'[at.f].lines[i], view)
  <2>1. at.n \in Nat
    BY DEF ConsoleTyped
  <2>2. at.f \in DOMAIN disk
    BY <1>8, <2>1 DEF Shape
  <2>3. /\ at.life = disk[at.f].life /\ at.n <= Len(disk[at.f].lines)
        /\ \A i \in 1..Len(disk[at.f].lines) : i <= at.n => In(disk[at.f].lines[i], view)
    BY <1>8 DEF AllRead, LeftRead, PlaceRead, CacheRead, PendRead, Place
  <2>4. Len(disk[at.f].lines) \in Nat /\ Len(disk'[at.f].lines) \in Nat
    BY <1>2, <2>2, Types, TypesNext DEF DiskTyped
  <2>5. disk'[at.f].life = disk[at.f].life /\ Extends(disk[at.f].lines, disk'[at.f].lines)
    BY <1>2, <2>2 DEF GoesOn
  <2>6. ASSUME NEW i \in 1..Len(disk'[at.f].lines), i <= at.n
        PROVE  In(disk'[at.f].lines[i], view)
    <3>1. i \in 1..Len(disk[at.f].lines)
      BY <2>1, <2>3, <2>4, <2>6
    <3> QED
      BY <2>3, <2>5, <2>6, <3>1 DEF Extends
  <2> QED
    BY <2>3, <2>5, <2>6
<1>9. at.finished \/ (cons = "ask" /\ at.many) => disk'[at.f].whole /\ at.n = Len(disk'[at.f].lines)
  <2>1. at.finished \/ cons = "ask" => at.f \in DOMAIN disk
    BY DEF Shape, AllRead, LeftRead, PlaceRead, CacheRead, PendRead
  <2> QED
    BY <1>3, <2>1 DEF AllRead, LeftRead, PlaceRead, CacheRead, PendRead
<1>10. ASSUME cache # NoCache, NEW f \in DOMAIN disk', UpTo(f, cache.after)
       PROVE  f \in old \/ Covers(f, cache.view)'
  <2>1. cache.after \in Closed /\ cache.after \in DOMAIN disk /\ disk[cache.after].whole
    BY <1>10, ClosedExist DEF Shape
  <2>2. f \in Name /\ cache.after \in Name
    BY <2>1, Types, TypesNext DEF DiskTyped
  <2>3. f \in DOMAIN disk
    <3>1. f \notin DOMAIN disk => NameBefore(cache.after, f)
      BY <2>1 DEF Grows
    <3> QED
      BY <1>10, <2>1, <2>2, <3>1, NamesAreOrdered DEF UpTo
  <2>4. disk'[f] = disk[f]
    <3>1. CASE f = cache.after
      BY <1>3, <2>1, <3>1
    <3>2. CASE NameBefore(f, cache.after)
      BY <2>1, <2>3, <3>2 DEF Grows, LastOnDisk
    <3> QED
      BY <1>10, <3>1, <3>2 DEF UpTo
  <2> QED
    BY <1>1, <1>10, <2>3, <2>4 DEF AllRead, LeftRead, PlaceRead, CacheRead, PendRead, Covers
<1>11. ASSUME cons = "history", NEW f \in DOMAIN disk', NEW i \in 1..Len(pend), NameBefore(f, pend[i])
       PROVE  f \in done \/ f \in old \/ \E j \in 1..Len(pend) : f = pend[j]
  <2>1. f \in Name /\ pend[i] \in DOMAIN disk /\ pend[i] \in Name
    BY <1>4, Types, TypesNext DEF DiskTyped
  <2>2. f \notin DOMAIN disk => NameBefore(pend[i], f)
    BY <2>1 DEF Grows
  <2>3. f \in DOMAIN disk
    BY <1>11, <2>1, <2>2, NamesAreOrdered
  <2> QED
    BY <1>11, <2>3 DEF AllRead, LeftRead, PlaceRead, CacheRead, PendRead
<1>13. (at.finished => at.f # NoFile)'
  BY <1>1 DEF AllRead, LeftRead, PlaceRead, CacheRead, PendRead
<1>14. (cache # NoCache => \A f \in DOMAIN disk : UpTo(f, cache.after) => f \in old \/ Covers(f, cache.view))'
  BY <1>1, <1>10 DEF UpTo
<1>15. (cons = "history" => \A f \in DOMAIN disk, i \in 1..Len(pend) :
         NameBefore(f, pend[i]) => f \in done \/ f \in old \/ \E j \in 1..Len(pend) : f = pend[j])'
  BY <1>1, <1>11
<1> QED
  BY <1>1, <1>6, <1>7, <1>8, <1>9, <1>13, <1>14, <1>15 DEF AllRead, LeftRead, PlaceRead, CacheRead, PendRead

LEMMA TurnInSequence ==
  ASSUME Grows, Sane', Shape, InSequence, UNCHANGED consVars
  PROVE  InSequence'
<1>1. UNCHANGED <<done, view, cache>>
  BY DEF consVars
<1>2. \A f \in DOMAIN disk' : f \notin DOMAIN disk => \A g \in done : NameBefore(g, f)
  BY DEF Grows, Shape
<1> QED
  BY <1>1, <1>2 DEF InSequence

LEMMA TurnKeeps ==
  ASSUME RecInv, RecInv', OfLives, Grows, ConsoleTyped, ConsoleInv, dropped' = {}, UNCHANGED consVars
  PROVE  ConsoleInv'
<1>1. Sane' => Sane
  BY SaneStays DEF Grows
<1>2. crashes' = 0 => crashes = 0
  BY DEF Grows
<1>3. UNCHANGED <<view, cache, old>>
  BY DEF consVars
<1>4. Shown'
  <2>1. Known(view) /\ Known(cache.view) /\ view \in Seq(Event) /\ cache.view \in Seq(Event)
    BY DEF ConsoleInv, Shown, ConsoleTyped
  <2>2. \A v \in Seq(Event) : Known(v) => Known(v)'
    BY TurnKnown
  <2> QED
    BY <1>3, <2>1, <2>2 DEF Shown, Known
<1>5. Shape' /\ Place'
  BY TurnShape, TurnPlace DEF ConsoleInv
<1>6. Sane' => Marked' /\ InTurn'
  BY <1>1, TurnMarked, TurnInTurn DEF ConsoleInv
<1>7. Sane' /\ crashes' = 0 => AllRead'
  BY <1>1, <1>2, TurnAllRead DEF ConsoleInv
<1>8. Sane' /\ crashes' = 0 /\ old' = {} => InSequence'
  BY <1>1, <1>2, <1>3, TurnInSequence DEF ConsoleInv
<1> QED
  BY <1>4, <1>5, <1>6, <1>7, <1>8 DEF ConsoleInv

-----------------------------------------------------------------------------
(* What is on the shelf, as a reader finds it. *)

(* Without a crash only the last file is not complete. *)
LEMMA BeforeIsWhole ==
  ASSUME RecInv, ReplayInv, OfLives, Sane, crashes = 0,
         NEW f \in DOMAIN disk, NEW g \in DOMAIN disk, NameBefore(f, g)
  PROVE  disk[f].whole
<1>1. f = cur \/ disk[f].whole
  BY DEF OfLives, OpenLife
<1>2. f # cur
  <2>1. cur = f => cur # NoFile
    BY NumberTypes DEF RecInv
  <2> QED
    BY <2>1, CurIsLast DEF LastOnDisk
<1> QED
  BY <1>1, <1>2

(* A complete file is below the ones behind it, as it has its line.        *)
LEMMA WholeIsUnder ==
  ASSUME RecInv, ReplayInv, Sane, Sound, NEW f \in DOMAIN disk, NEW g \in DOMAIN disk,
         disk[f].whole, NameBefore(f, g)
  PROVE  Under(disk[f].lines, disk[g].lines)
<1> SUFFICES ASSUME NEW k \in 1..Len(disk[f].lines), NEW l \in 1..Len(disk[g].lines)
             PROVE  disk[f].lines[k].q < disk[g].lines[l].q
  BY DEF Under
<1>1. TypeOK /\ Tidy(disk, manifest) /\ Shadows(disk, manifest)
  BY DEF RecInv, ReplayInv, Shelf, Sane
<1>1a. Named(manifest, f)
  BY <1>1, NumberTypes DEF ReplayInv, Shelf
<1>2. /\ f \in Name /\ f.q \in Nat /\ f.r \in Nat /\ g \in Name /\ g.q \in Nat /\ g.r \in Nat
  BY <1>1, NumberTypes
<1>3. disk[f].lines[k].q \in Nat /\ disk[g].lines[l].q \in Nat
  BY <1>1, Sequences, EventIs
<1>4. g.q <= disk[g].lines[l].q
  BY <1>1 DEF Tidy
<1>5. ~(f.q > g.q)
  BY DEF Sane, NamesFollowNumbers
<1>6. ~NameBefore(g, f) /\ f # g
  BY <1>2, NamesAreOrdered
<1>7. CASE Below(disk[f].lines, g.q)
  BY <1>2, <1>3, <1>4, <1>7 DEF Below
<1>8. CASE Below(disk[g].lines, f.q)
  BY <1>2, <1>3, <1>4, <1>5, <1>8 DEF Below
<1>9. ~Earlier(g, f)
  BY <1>2, <1>5, <1>6 DEF Earlier, NameBefore
<1>10. CASE Named(manifest, g)
  BY <1>1, <1>1a, <1>6, <1>7, <1>8, <1>10 DEF Tidy, Apart
<1>11. CASE ~Named(manifest, g)
  BY <1>1, <1>1a, <1>7, <1>9, <1>11 DEF Shadows
<1> QED
  BY <1>10, <1>11

(* No event is twice in a file, or in two files. *)
LEMMA OnePlace ==
  ASSUME RecInv, ReplayInv, NEW f \in DOMAIN disk, NEW i \in 1..Len(disk[f].lines), NEW j \in 1..Len(disk[f].lines),
         disk[f].lines[i] = disk[f].lines[j]
  PROVE  i = j
<1>1. Climbs(disk[f].lines)
  BY DEF ReplayInv, Shelf, Tidy
<1>2. disk[f].lines[i].q \in Nat
  BY Sequences, EventIs DEF RecInv
<1>3. ~(i < j) /\ ~(j < i)
  BY <1>1, <1>2 DEF Climbs
<1> QED
  BY <1>3, Types DEF DiskTyped

LEMMA OneFile ==
  ASSUME RecInv, ReplayInv, OfLives, NEW f \in DOMAIN disk, NEW g \in DOMAIN disk, NEW x,
         In(x, disk[f].lines), In(x, disk[g].lines)
  PROVE  f = g
<1>1. PICK i \in 1..Len(disk[f].lines) : disk[f].lines[i] = x
  BY DEF In
<1>2. PICK j \in 1..Len(disk[g].lines) : disk[g].lines[j] = x
  BY DEF In
<1>3. x.life = disk[f].life /\ x.life = disk[g].life
  BY <1>1, <1>2 DEF OfLives, OneLife
<1>4. x.q \in Nat /\ f.q \in Nat /\ g.q \in Nat
  BY <1>1, Sequences, EventIs, NumberTypes DEF RecInv
<1>5. f.q <= x.q /\ g.q <= x.q
  BY <1>1, <1>2 DEF ReplayInv, Shelf, Tidy
<1>6. ASSUME Apart(disk, f, g) PROVE FALSE
  <2>1. CASE Below(disk[f].lines, g.q)
    <3>1. x.q < g.q
      BY <1>1, <2>1 DEF Below
    <3> QED
      BY <1>4, <1>5, <3>1
  <2>2. CASE Below(disk[g].lines, f.q)
    <3>1. x.q < f.q
      BY <1>2, <2>2 DEF Below
    <3> QED
      BY <1>4, <1>5, <3>1
  <2> QED
    BY <1>6, <2>1, <2>2 DEF Apart
<1> QED
  BY <1>3, <1>6 DEF OfLives, OneLife

-----------------------------------------------------------------------------
(* The window of a console that starts. *)
(* A part of a sequence: what is behind its first a, up to b. *)
LEMMA SliceIs ==
  ASSUME NEW S, NEW s, NEW a \in Nat, NEW b \in Int, \A i \in (a + 1)..b : s[i] \in S,
         NEW w, w = SubSeq(s, a + 1, b)
  PROVE  /\ w \in Seq(S) /\ Len(w) \in Nat /\ (a <= b => Len(w) = b - a) /\ (b <= a => Len(w) = 0)
         /\ \A i \in 1..Len(w) : w[i] = s[a + i] /\ a + i \in (a + 1)..b
         /\ \A k \in (a + 1)..b : k - a \in 1..Len(w) /\ w[k - a] = s[k]
<1> DEFINE c == a + 1
           n == b - c + 1
<1>1. c \in Int /\ n = b - a /\ c = a + 1
  OBVIOUS
<1>2. /\ SubSeq(s, c, b) \in Seq(S)
      /\ Len(SubSeq(s, c, b)) = IF c <= b THEN b - c + 1 ELSE 0
      /\ \A i \in 1..(b - c + 1) : SubSeq(s, c, b)[i] = s[c + i - 1]
  <2> HIDE DEF c, n
  <2>1. \A i \in c..b : s[i] \in S
    BY <1>1
  <2> QED
    BY <1>1, <2>1, SubSeqProperties
<1>3. /\ w \in Seq(S) /\ Len(w) = IF c <= b THEN n ELSE 0
      /\ \A i \in 1..n : w[i] = s[c + i - 1]
  BY <1>2
<1> HIDE DEF c, n
<1>4. Len(w) \in Nat /\ (a <= b => Len(w) = b - a) /\ (b <= a => Len(w) = 0)
  BY <1>1, <1>3
<1>5. ASSUME NEW i \in 1..Len(w) PROVE w[i] = s[a + i] /\ a + i \in (a + 1)..b
  <2>1. i \in 1..n /\ c + i - 1 = a + i
    BY <1>1, <1>3, <1>4
  <2>2. a + i \in (a + 1)..b
    BY <1>1, <2>1
  <2> QED
    BY <1>3, <2>1, <2>2
<1>6. ASSUME NEW k \in (a + 1)..b PROVE k - a \in 1..Len(w) /\ w[k - a] = s[k]
  <2>1. k - a \in 1..n /\ k - a \in 1..Len(w) /\ c + (k - a) - 1 = k
    BY <1>1, <1>3
  <2> QED
    BY <1>3, <2>1
<1> QED
  BY <1>3, <1>4, <1>5, <1>6

LEMMA FilesAreNames ==
  ASSUME RecInv
  PROVE  Listing(Files) /\ Files \in Seq(Name) /\ Len(Files) \in Nat
<1>1. Listing(Files)
  BY FilesAreListed DEF RecInv
<1>2. Files \in Seq(Name)
  <2>1. \A i \in 1..Len(Files) : Files[i] \in Name
    BY <1>1, Types DEF Listing, DiskTyped
  <2>2. Files = [i \in DOMAIN Files |-> Files[i]]
    BY DEF Files
  <2>3. Len(Files) \in Nat /\ DOMAIN Files = 1..Len(Files)
    BY <1>1 DEF Listing
  <2> QED
    BY <2>1, <2>2, <2>3
<1> QED
  BY <1>1, <1>2 DEF Listing

(* The first m files. *)
Leading(p, m) == \A f : f \in Names(p) <=> \E k \in 1..m : k \in 1..Len(Files) /\ f = Files[k]

LEMMA FirstFiles ==
  ASSUME RecInv, NEW m \in 0..Len(Files), NEW p, p = SubSeq(Files, 1, m)
  PROVE  p \in Seq(Name) /\ Leading(p, m)
<1>1. Files \in Seq(Name) /\ Len(Files) \in Nat
  BY FilesAreNames
<1>2. p \in Seq(Name) /\ Len(p) = m /\ \A k \in 1..m : p[k] = Files[k] /\ k \in 1..Len(Files)
  BY <1>1, SubSeqProperties
<1> QED
  BY <1>2 DEF Names, Leading

LEMMA FirstAre ==
  ASSUME RecInv, NEW m \in 0..Len(Files), NEW p, p = SubSeq(Files, 1, m)
  PROVE  /\ Names(p) \subseteq DOMAIN disk
         /\ \A g \in Names(p), f \in DOMAIN disk : f \in Names(p) \/ NameBefore(g, f)
         /\ m # 0 => \A f \in DOMAIN disk : f \in Names(p) <=> UpTo(f, Files[m])
<1>a. Leading(p, m)
  BY FirstFiles
<1>1. /\ \A f : f \in Names(p) <=> \E k \in 1..m : k \in 1..Len(Files) /\ f = Files[k]
      /\ Listing(Files) /\ Len(Files) \in Nat
  BY <1>a, FilesAreNames, Zenon DEF Leading
<1>2. Names(p) \subseteq DOMAIN disk
  BY <1>1 DEF Listing
<1>3. ASSUME NEW g \in Names(p), NEW f \in DOMAIN disk, f \notin Names(p)
      PROVE  NameBefore(g, f)
  <2>1. PICK k \in 1..m : k \in 1..Len(Files) /\ g = Files[k]
    BY <1>1
  <2>2. PICK l \in 1..Len(Files) : f = Files[l]
    BY <1>1 DEF Listing
  <2>3. ~(l \in 1..m)
    BY <1>1, <1>3, <2>2
  <2>4. k < l
    BY <1>1, <2>1, <2>3
  <2> QED
    BY <1>1, <2>1, <2>2, <2>4 DEF Listing
<1>4. ASSUME m # 0, NEW f \in DOMAIN disk
      PROVE  f \in Names(p) <=> UpTo(f, Files[m])
  <2>1. m \in 1..m /\ m \in 1..Len(Files)
    BY <1>1, <1>4
  <2>2. Files[m] \in Names(p) /\ Files[m] \in DOMAIN disk
    BY <1>1, <2>1 DEF Listing
  <2>3. ASSUME f \in Names(p) PROVE UpTo(f, Files[m])
    <3>1. PICK k \in 1..m : k \in 1..Len(Files) /\ f = Files[k]
      BY <1>1, <2>3
    <3>2. k = m \/ k < m
      OBVIOUS
    <3> QED
      BY <1>1, <2>1, <3>1, <3>2 DEF Listing, UpTo
  <2>4. ASSUME f \notin Names(p) PROVE ~UpTo(f, Files[m])
    <3>1. NameBefore(Files[m], f) /\ f # Files[m] /\ f \in Name /\ Files[m] \in Name
      BY <1>3, <2>2, <2>4, Types DEF DiskTyped
    <3> QED
      BY <3>1, NamesAreOrdered DEF UpTo
  <2> QED
    BY <2>3, <2>4
<1> QED
  BY <1>2, <1>3, <1>4

(* The files behind the first m, without the last: every file before one   *)
(* of them is one of them or of the first, S.                              *)
Queued(w, S) ==
  \A i \in 1..Len(w) :
    /\ w[i] \in DOMAIN disk /\ \E g \in DOMAIN disk : NameBefore(w[i], g)
    /\ \A g \in S : NameBefore(g, w[i])
    /\ \A j \in 1..Len(w) : i < j => NameBefore(w[i], w[j])
    /\ \A f \in DOMAIN disk : NameBefore(f, w[i]) => f \in S \/ \E j \in 1..Len(w) : f = w[j]

LEMMA PendAre ==
  ASSUME RecInv, NEW m \in 0..Len(Files), NEW p, p = SubSeq(Files, 1, m),
         NEW w, w = SubSeq(Files, m + 1, Len(Files) - 1)
  PROVE  w \in Seq(Name) /\ Queued(w, Names(p))
<1>a. Leading(p, m)
  BY FirstFiles
<1>1. /\ \A f : f \in Names(p) <=> \E k \in 1..m : k \in 1..Len(Files) /\ f = Files[k]
      /\ Listing(Files) /\ Len(Files) \in Nat /\ Files \in Seq(Name)
  BY <1>a, FilesAreNames, Zenon DEF Leading
<1> DEFINE n == Len(Files) - 1
<1>2. n \in Int /\ n <= Len(Files) /\ m + 1 \in Nat /\ m \in Nat /\ (n + 1 = Len(Files))
  BY <1>1
<1>3. /\ w \in Seq(Name) /\ Len(w) \in Nat
      /\ \A i \in 1..Len(w) : w[i] = Files[m + i] /\ m + i \in 1..n
      /\ \A k \in 1..n : m < k => k - m \in 1..Len(w)
  <2>1. w = SubSeq(Files, m + 1, n) /\ \A i \in (m + 1)..n : Files[i] \in Name
    <3>1. \A i \in (m + 1)..n : i \in 1..Len(Files)
      BY <1>2
    <3>2. \A i \in 1..Len(Files) : Files[i] \in Name
      BY <1>1, ElementOfSeq
    <3> QED
      BY <3>1, <3>2
  <2> HIDE DEF n
  <2>2. /\ w \in Seq(Name) /\ Len(w) \in Nat
        /\ \A i \in 1..Len(w) : w[i] = Files[m + i] /\ m + i \in (m + 1)..n
        /\ \A k \in (m + 1)..n : k - m \in 1..Len(w)
    BY <1>2, <2>1, SliceIs
  <2>3. \A i : i \in (m + 1)..n => i \in 1..n
    BY <1>2
  <2>4. \A k \in 1..n : m < k => k \in (m + 1)..n
    BY <1>2
  <2> QED
    BY <2>2, <2>3, <2>4
<1> HIDE DEF n
<1>4. ASSUME NEW i \in 1..Len(w)
      PROVE  m + i \in 1..Len(Files) /\ w[i] = Files[m + i] /\ m + i < Len(Files) /\ Len(Files) \in 1..Len(Files)
  BY <1>1, <1>2, <1>3
<1>5. ASSUME NEW i \in 1..Len(w)
      PROVE  w[i] \in DOMAIN disk /\ \E g \in DOMAIN disk : NameBefore(w[i], g)
  BY <1>1, <1>4 DEF Listing
<1>6. ASSUME NEW i \in 1..Len(w), NEW g \in Names(p)
      PROVE  NameBefore(g, w[i])
  <2>1. PICK k \in 1..m : k \in 1..Len(Files) /\ g = Files[k]
    BY <1>1
  <2>2. k < m + i
    BY <1>2, <1>3
  <2> QED
    BY <1>1, <1>4, <2>1, <2>2 DEF Listing
<1>7. ASSUME NEW i \in 1..Len(w), NEW j \in 1..Len(w), i < j
      PROVE  NameBefore(w[i], w[j])
  <2>1. m + i < m + j
    BY <1>2, <1>3, <1>7
  <2> QED
    BY <1>1, <1>4, <2>1 DEF Listing
<1>8. ASSUME NEW i \in 1..Len(w), NEW f \in DOMAIN disk, NameBefore(f, w[i]), f \notin Names(p)
      PROVE  \E j \in 1..Len(w) : f = w[j]
  <2>1. PICK l \in 1..Len(Files) : f = Files[l]
    BY <1>1 DEF Listing
  <2>2. ~(l \in 1..m)
    BY <1>1, <1>8, <2>1
  <2>3. ~(m + i < l)
    <3>1. m + i < l => NameBefore(w[i], f)
      BY <1>1, <1>4, <2>1 DEF Listing
    <3> QED
      BY <1>5, <1>8, <3>1, Types, NamesAreOrdered DEF DiskTyped
  <2>4. l \in 1..n /\ m < l
    BY <1>1, <1>2, <1>3, <2>2, <2>3
  <2>5. l - m \in 1..Len(w) /\ w[l - m] = Files[m + (l - m)] /\ m + (l - m) = l
    BY <1>2, <1>3, <2>4
  <2> QED
    BY <2>1, <2>5
<1> QED
  BY <1>3, <1>5, <1>6, <1>7, <1>8 DEF Queued

-----------------------------------------------------------------------------
(* The console goes on while the recorder stays as it is. *)
LEMMA FrozenIs ==
  ASSUME UNCHANGED recVars
  PROVE  /\ UNCHANGED <<life, cur, disk, manifest, dropped, crashes>>
         /\ (Sane' <=> Sane) /\ Closed' = Closed
         /\ \A v : Known(v)' <=> Known(v)
         /\ \A f, v : Covers(f, v)' <=> Covers(f, v)
BY DEF recVars, Sane, NamesFollowNumbers, Closed, Known, Covers

LEMMA HistoryDoneKeeps ==
  ASSUME ConsoleTyped, ConsoleInv, HistoryDone, UNCHANGED recVars
  PROVE  ConsoleTyped' /\ ConsoleInv'
<1>1. /\ UNCHANGED <<done, pend, known, at, view, cache, old, starts>>
      /\ cons = "history" /\ cons' = "read" /\ pend = << >>
  BY DEF HistoryDone
<1>2. /\ UNCHANGED <<life, cur, disk, manifest, dropped, crashes>>
      /\ (Sane' <=> Sane) /\ Closed' = Closed
      /\ \A v : Known(v)' <=> Known(v)
      /\ \A f, v : Covers(f, v)' <=> Covers(f, v)
  BY FrozenIs
<1>3. ConsoleTyped'
  BY <1>1 DEF ConsoleTyped
<1>4. Shape' /\ Place' /\ Shown'
  BY <1>1, <1>2 DEF ConsoleInv, Shape, Place, Shown
<1>5. Sane' => Marked' /\ InTurn'
  BY <1>1, <1>2 DEF ConsoleInv, Marked, InTurn, Seen, Once
<1>6. Sane' /\ crashes' = 0 => AllRead'
  BY <1>1, <1>2 DEF ConsoleInv, AllRead, LeftRead, PlaceRead, CacheRead, PendRead
<1>7. Sane' /\ crashes' = 0 /\ old' = {} => InSequence'
  BY <1>1, <1>2 DEF ConsoleInv, InSequence
<1> QED
  BY <1>2, <1>3, <1>4, <1>5, <1>6, <1>7 DEF ConsoleInv

LEMMA NoReaderIs ==
  /\ NoReader.f = NoFile /\ NoReader.n = 0 /\ NoReader.life = 0 /\ ~NoReader.finished /\ ~NoReader.many
  /\ NoReader \in [f : Name \cup {NoFile}, life : 0..MaxLives, n : Nat, finished : BOOLEAN, many : BOOLEAN]
BY RecAssumption DEF NoReader

LEMMA NothingShown ==
  /\ << >> \in Seq(Event) /\ Known(<< >>) /\ Once(<< >>) /\ Climbs(<< >>) /\ \A x : ~In(x, << >>)
BY DEF Known, Once, Climbs, In

LEMMA ConsoleStopKeeps ==
  ASSUME RecInv, ConsoleTyped, ConsoleInv, ConsoleStop, UNCHANGED recVars
  PROVE  ConsoleTyped' /\ ConsoleInv'
<1>1. /\ UNCHANGED <<cache, old, starts>> /\ cons' = "off" /\ done' = {} /\ pend' = << >> /\ known' = {}
      /\ at' = NoReader /\ view' = << >>
  BY DEF ConsoleStop
<1>2. /\ UNCHANGED <<life, cur, disk, manifest, dropped, crashes>>
      /\ (Sane' <=> Sane) /\ Closed' = Closed
      /\ \A v : Known(v)' <=> Known(v)
      /\ \A f, v : Covers(f, v)' <=> Covers(f, v)
  BY FrozenIs
<1>3. ConsoleTyped'
  BY <1>1, NoReaderIs DEF ConsoleTyped
<1>4. Shape' /\ Place' /\ Shown'
  BY <1>1, <1>2, NoReaderIs, NothingShown DEF ConsoleInv, Shape, Place, Shown
<1>5. ASSUME Sane' PROVE Marked' /\ InTurn'
  <2>1. Marked
    BY <1>2, <1>5 DEF ConsoleInv
  <2> QED
    BY <1>1, <1>2, <2>1, NoReaderIs, NothingShown DEF Marked, InTurn, Once
<1>6. Sane' /\ crashes' = 0 => AllRead'
  BY <1>1, <1>2, NoReaderIs DEF ConsoleInv, AllRead, LeftRead, PlaceRead, CacheRead, PendRead
<1>7. Sane' /\ crashes' = 0 /\ old' = {} => InSequence'
  BY <1>1, <1>2, NothingShown DEF ConsoleInv, InSequence
<1> QED
  BY <1>2, <1>3, <1>4, <1>5, <1>6, <1>7 DEF ConsoleInv

(* The reader leaves its file, or turns to it again. *)
LEMMA AskKeeps ==
  ASSUME RecInv, ConsoleTyped, ConsoleInv, Ask, UNCHANGED recVars
  PROVE  ConsoleTyped' /\ ConsoleInv'
<1>1. /\ UNCHANGED <<pend, known, at, view, cache, old, starts>> /\ cons = "ask" /\ cons' = "read"
      /\ done' = IF at.finished \/ (at.many /\ at.f \in Closed) THEN done \cup {at.f} ELSE done
  BY DEF Ask
<1>2. /\ UNCHANGED <<life, cur, disk, manifest, dropped, crashes>>
      /\ (Sane' <=> Sane) /\ Closed' = Closed
      /\ \A v : Known(v)' <=> Known(v)
      /\ \A f, v : Covers(f, v)' <=> Covers(f, v)
  BY FrozenIs
<1>3. /\ at.f # NoFile /\ at.f \in DOMAIN disk /\ at.f \in Name
      /\ done \subseteq done' /\ done' \subseteq done \cup {at.f}
      /\ at.f \in done' => at.f \in done \/ at.finished \/ at.many
  BY <1>1, Types DEF ConsoleInv, Shape, DiskTyped
<1>4. ConsoleTyped'
  BY <1>1, <1>3 DEF ConsoleTyped
<1>5. Shape' /\ Place' /\ Shown'
  BY <1>1, <1>2, <1>3 DEF ConsoleInv, Shape, Place, Shown
<1>6. ASSUME Sane' PROVE Marked' /\ InTurn'
  <2>1. Marked /\ InTurn
    BY <1>2, <1>6 DEF ConsoleInv
  <2>2. \A f, x : Seen(f, x) => Seen(f, x)'
    BY <1>1, <1>2, <1>3 DEF Seen
  <2>3. Marked'
    BY <1>1, <1>2, <2>1, <2>2 DEF Marked, Once
  <2>4. pend = << >>
    BY <1>1, <2>1 DEF InTurn
  <2> QED
    BY <1>1, <1>2, <1>3, <2>1, <2>3, <2>4 DEF InTurn
<1>7. ASSUME Sane', crashes' = 0 PROVE AllRead'
  <2>1. AllRead /\ Place /\ InTurn
    BY <1>2, <1>7 DEF ConsoleInv
  <2>2. ASSUME at.f \in done', at.f \notin done
        PROVE  disk[at.f].whole /\ Covers(at.f, view)
    <3>1. disk[at.f].whole /\ at.n = Len(disk[at.f].lines) /\ at.n \in Nat
      BY <1>1, <1>3, <2>1, <2>2 DEF AllRead, LeftRead, PlaceRead, CacheRead, PendRead, ConsoleTyped
    <3>2. \A i \in 1..Len(disk[at.f].lines) : In(disk[at.f].lines[i], view)
      BY <2>1, <3>1 DEF AllRead, LeftRead, PlaceRead, CacheRead, PendRead
    <3> QED
      BY <3>1, <3>2 DEF Covers
  <2>3. \A f \in done' : disk[f].whole /\ (f \in old \/ Covers(f, view))
    BY <1>3, <2>1, <2>2 DEF AllRead, LeftRead, PlaceRead, CacheRead, PendRead
  <2>4. pend = << >> /\ (at.finished => disk[at.f].whole /\ at.n = Len(disk[at.f].lines))
    BY <1>1, <2>1 DEF InTurn, AllRead, LeftRead, PlaceRead, CacheRead, PendRead
  <2> QED
    BY <1>1, <1>2, <1>3, <2>1, <2>3, <2>4 DEF AllRead, LeftRead, PlaceRead, CacheRead, PendRead
<1>8. ASSUME Sane', crashes' = 0, old' = {} PROVE InSequence'
  <2>1. InSequence /\ InTurn
    BY <1>1, <1>2, <1>8 DEF ConsoleInv
  <2>2. \A f \in DOMAIN disk : f \in done \/ f = at.f \/ at.f \in done \/ NameBefore(at.f, f)
    BY <1>3, <2>1, Types, NamesAreOrdered DEF InTurn, DiskTyped
  <2>3. \A g \in done', f \in DOMAIN disk : f \in done' \/ NameBefore(g, f)
    BY <1>3, <2>1, <2>2 DEF InSequence
  <2> QED
    BY <1>1, <1>2, <2>1, <2>3 DEF InSequence
<1> QED
  BY <1>2, <1>4, <1>5, <1>6, <1>7, <1>8 DEF ConsoleInv

-----------------------------------------------------------------------------
(* A console starts: with nothing, or with its checkpoint. *)
StartRest == cons' = "history" /\ at' = NoReader /\ known' = Closed /\ UNCHANGED cache
Window == IF Len(Files) > HistoryFiles THEN Len(Files) - HistoryFiles ELSE 0
StartNew ==
  /\ StartRest /\ done' = {} /\ view' = << >>
  /\ pend' = SubSeq(Files, Window + 1, Len(Files) - 1)
  /\ old' = old \cup Names(SubSeq(Files, 1, Window))
StartFrom(i) ==
  /\ StartRest /\ cache # NoCache /\ Files[i] = cache.after
  /\ done' = Names(SubSeq(Files, 1, i)) /\ view' = cache.view
  /\ pend' = SubSeq(Files, i + 1, Len(Files) - 1) /\ UNCHANGED old

LEMMA StartIs ==
  ASSUME RecInv, ConsoleTyped, ConsoleStart
  PROVE  /\ cons = "off" /\ starts' \in 0..MaxConsoles /\ Window \in 0..Len(Files)
         /\ StartNew \/ \E i \in 1..Len(Files) : StartFrom(i)
<1>1. Len(Files) \in Nat /\ DOMAIN Files = 1..Len(Files)
  BY FilesAreNames DEF Listing
<1>2. Window \in 0..Len(Files)
  BY <1>1, ReadersAssumption DEF Window
<1>3. cons = "off" /\ starts' \in 0..MaxConsoles
  BY ReadersAssumption DEF ConsoleStart, ConsoleTyped
<1> QED
  BY <1>1, <1>2, <1>3 DEF ConsoleStart, Window, StartNew, StartFrom, StartRest

LEMMA StartNewKeeps ==
  ASSUME RecInv, ReplayInv, OfLives, ConsoleTyped, ConsoleInv, Window \in 0..Len(Files), starts' \in 0..MaxConsoles,
         StartNew, UNCHANGED recVars
  PROVE  ConsoleTyped' /\ ConsoleInv'
<1> DEFINE p == SubSeq(Files, 1, Window)
<1>1. /\ UNCHANGED cache /\ cons' = "history" /\ at' = NoReader /\ known' = Closed
      /\ done' = {} /\ view' = << >> /\ pend' = SubSeq(Files, Window + 1, Len(Files) - 1)
      /\ old' = old \cup Names(p)
  BY DEF StartNew, StartRest
<1>2. /\ UNCHANGED <<life, cur, disk, manifest, dropped, crashes>>
      /\ (Sane' <=> Sane) /\ Closed' = Closed
      /\ \A v : Known(v)' <=> Known(v)
      /\ \A f, v : Covers(f, v)' <=> Covers(f, v)
  BY FrozenIs
<1>3. Names(p) \subseteq DOMAIN disk
  BY FirstAre
<1>4. pend' \in Seq(Name) /\ Queued(pend', Names(p))
  BY <1>1, PendAre
<1> HIDE DEF p
<1>5. Closed \subseteq DOMAIN disk /\ \A f \in DOMAIN disk : f \in Name
  BY ClosedExist, Types DEF DiskTyped
<1>6. ConsoleTyped'
  BY <1>1, <1>3, <1>4, <1>5, NoReaderIs, NothingShown DEF ConsoleTyped
<1>7. Shape' /\ Place' /\ Shown'
  <2>1. at'.f = NoFile /\ at'.n = 0
    BY <1>1, NoReaderIs
  <2>2. \A i \in 1..Len(pend') : pend'[i] \in DOMAIN disk
    BY <1>4 DEF Queued
  <2>3. Shape'
    BY <1>1, <1>2, <1>3, <2>1, <2>2 DEF ConsoleInv, Shape
  <2> QED
    BY <1>1, <1>2, <2>1, <2>3, NothingShown DEF ConsoleInv, Place, Shown
<1>8. ASSUME Sane' PROVE Marked' /\ InTurn'
  <2>1. Marked
    BY <1>2, <1>8 DEF ConsoleInv
  <2>2. Marked'
    BY <1>1, <1>2, <2>1, NothingShown DEF Marked, Once
  <2> QED
    BY <1>1, <1>2, <1>4, <2>2, NoReaderIs DEF InTurn, Queued
<1>9. ASSUME Sane', crashes' = 0 PROVE AllRead'
  <2>1. AllRead /\ Sane /\ crashes = 0
    BY <1>2, <1>9 DEF ConsoleInv
  <2>2. \A i \in 1..Len(pend') : disk[pend'[i]].whole
    BY <1>4, <2>1, BeforeIsWhole DEF Queued
  <2>3. cache # NoCache => \A f \in DOMAIN disk : UpTo(f, cache.after) => f \in old' \/ Covers(f, cache.view)
    BY <1>1, <2>1 DEF AllRead, LeftRead, PlaceRead, CacheRead, PendRead
  <2>4. at'.n = 0 /\ ~at'.finished /\ cons' = "history" /\ done' = {}
    BY <1>1, NoReaderIs
  <2>5. \A f \in DOMAIN disk, i \in 1..Len(pend') :
          NameBefore(f, pend'[i]) => f \in old' \/ \E j \in 1..Len(pend') : f = pend'[j]
    BY <1>1, <1>4 DEF Queued
  <2> QED
    <3>1. LeftRead' /\ PlaceRead'
      BY <1>1, <1>2, <2>4 DEF LeftRead, PlaceRead
    <3>2. CacheRead'
      BY <1>1, <1>2, <2>3 DEF CacheRead
    <3>3. PendRead'
      BY <1>2, <2>2, <2>5 DEF PendRead
    <3> QED
      BY <3>1, <3>2, <3>3 DEF AllRead
<1>10. ASSUME Sane', crashes' = 0, old' = {} PROVE InSequence'
  <2>1. InSequence
    BY <1>1, <1>2, <1>10 DEF ConsoleInv
  <2> QED
    BY <1>1, <1>2, <2>1, NothingShown DEF InSequence
<1> QED
  BY <1>2, <1>6, <1>7, <1>8, <1>9, <1>10 DEF ConsoleInv

LEMMA StartFromKeeps ==
  ASSUME RecInv, ReplayInv, OfLives, ConsoleTyped, ConsoleInv, starts' \in 0..MaxConsoles,
         NEW m \in 1..Len(Files), StartFrom(m), UNCHANGED recVars
  PROVE  ConsoleTyped' /\ ConsoleInv'
<1>0. m \in 0..Len(Files) /\ m # 0
  BY FilesAreNames
<1>1. /\ UNCHANGED <<cache, old>> /\ cons' = "history" /\ at' = NoReader /\ known' = Closed
      /\ done' = Names(SubSeq(Files, 1, m)) /\ view' = cache.view
      /\ pend' = SubSeq(Files, m + 1, Len(Files) - 1)
      /\ cache # NoCache /\ Files[m] = cache.after
  BY DEF StartFrom, StartRest
<1>2. /\ UNCHANGED <<life, cur, disk, manifest, dropped, crashes>>
      /\ (Sane' <=> Sane) /\ Closed' = Closed
      /\ \A v : Known(v)' <=> Known(v)
      /\ \A f, v : Covers(f, v)' <=> Covers(f, v)
  BY FrozenIs
<1>3. /\ done' \subseteq DOMAIN disk
      /\ \A g \in done', f \in DOMAIN disk : f \in done' \/ NameBefore(g, f)
      /\ \A f \in DOMAIN disk : f \in done' <=> UpTo(f, cache.after)
  BY <1>0, <1>1, FirstAre
<1>4. pend' \in Seq(Name) /\ Queued(pend', done')
  BY <1>0, <1>1, PendAre
<1>5. /\ Closed \subseteq DOMAIN disk /\ \A f \in DOMAIN disk : f \in Name
      /\ cache.after \in DOMAIN disk /\ disk[cache.after].whole
  BY <1>1, ClosedExist, Types DEF DiskTyped, ConsoleInv, Shape
<1>6. ConsoleTyped'
  BY <1>1, <1>3, <1>4, <1>5, NoReaderIs DEF ConsoleTyped
<1>7. Shape' /\ Place' /\ Shown'
  <2>1. at'.f = NoFile /\ at'.n = 0
    BY <1>1, NoReaderIs
  <2>2. \A i \in 1..Len(pend') : pend'[i] \in DOMAIN disk
    BY <1>4 DEF Queued
  <2>3. Shape'
    BY <1>1, <1>2, <1>3, <2>1, <2>2 DEF ConsoleInv, Shape
  <2> QED
    BY <1>1, <1>2, <2>1, <2>3 DEF ConsoleInv, Place, Shown
<1>8. ASSUME Sane' PROVE Marked' /\ InTurn'
  <2>1. Marked
    BY <1>2, <1>8 DEF ConsoleInv
  <2>2. \A f \in DOMAIN disk : \A x : In(x, cache.view) /\ In(x, disk[f].lines) => f \in done'
    BY <1>3, <2>1 DEF Marked
  <2>3. Marked'
    BY <1>1, <1>2, <2>1, <2>2 DEF Marked, Once, Seen
  <2> QED
    BY <1>1, <1>2, <1>4, <2>3, NoReaderIs DEF InTurn, Queued
<1>9. ASSUME Sane', crashes' = 0 PROVE AllRead'
  <2>1. AllRead /\ Sane /\ crashes = 0
    BY <1>2, <1>9 DEF ConsoleInv
  <2>2. \A i \in 1..Len(pend') : disk[pend'[i]].whole
    BY <1>4, <2>1, BeforeIsWhole DEF Queued
  <2>3. \A f \in DOMAIN disk : UpTo(f, cache.after) => f \in old \/ Covers(f, cache.view)
    BY <1>1, <2>1 DEF AllRead, LeftRead, PlaceRead, CacheRead, PendRead
  <2>4. \A f \in done' : disk[f].whole /\ (f \in old \/ Covers(f, cache.view))
    BY <1>3, <1>5, <2>1, <2>3, BeforeIsWhole DEF UpTo
  <2>5. at'.n = 0 /\ ~at'.finished /\ cons' = "history"
    BY <1>1, NoReaderIs
  <2>6. \A f \in DOMAIN disk, i \in 1..Len(pend') :
          NameBefore(f, pend'[i]) => f \in done' \/ \E j \in 1..Len(pend') : f = pend'[j]
    BY <1>4 DEF Queued
  <2> QED
    <3>1. LeftRead' /\ PlaceRead'
      BY <1>1, <1>2, <2>4, <2>5 DEF LeftRead, PlaceRead
    <3>2. CacheRead'
      BY <1>1, <1>2, <2>3 DEF CacheRead
    <3>3. PendRead'
      BY <1>2, <2>2, <2>6 DEF PendRead
    <3> QED
      BY <3>1, <3>2, <3>3 DEF AllRead
<1>10. ASSUME Sane', crashes' = 0, old' = {} PROVE InSequence'
  <2>1. InSequence
    BY <1>1, <1>2, <1>10 DEF ConsoleInv
  <2> QED
    BY <1>1, <1>2, <1>3, <2>1 DEF InSequence
<1> QED
  BY <1>2, <1>6, <1>7, <1>8, <1>9, <1>10 DEF ConsoleInv

-----------------------------------------------------------------------------
(* The view is fed with lines of a file. *)
LEMMA KnownConcat ==
  ASSUME NEW s \in Seq(Event), NEW t \in Seq(Event), Known(s), Known(t)
  PROVE  Known(s \o t)
<1>1. \A i \in 1..Len(s \o t) : \/ \E j \in 1..Len(s) : (s \o t)[i] = s[j]
                                \/ \E j \in 1..Len(t) : (s \o t)[i] = t[j]
  BY ConcatIs
<1> HIDE DEF Known
<1> DEFINE u == s \o t
<1>2. \A i \in 1..Len(u) : \/ \E j \in 1..Len(s) : u[i] = s[j]
                           \/ \E j \in 1..Len(t) : u[i] = t[j]
  BY <1>1
<1> HIDE DEF u
<1>3. Known(u)
  BY <1>2 DEF Known
<1> QED
  BY <1>3 DEF u

LEMMA LinesKnown ==
  ASSUME RecInv, OfLives, NEW f \in DOMAIN disk, NEW t \in Seq(Event), \A x : In(x, t) => In(x, disk[f].lines)
  PROVE  Known(t)
<1> SUFFICES ASSUME NEW i \in 1..Len(t)
             PROVE  t[i].life <= life /\ InSome(t[i], disk)
  BY DEF Known
<1>1. In(t[i], disk[f].lines)
  BY DEF In
<1>2. t[i].life = disk[f].life /\ disk[f].life <= life
  BY <1>1 DEF In, OfLives, OneLife
<1> QED
  BY <1>1, <1>2 DEF InSome

LEMMA OnceConcat ==
  ASSUME NEW s \in Seq(Event), NEW t \in Seq(Event), Once(s), Once(t), \A x : ~(In(x, s) /\ In(x, t))
  PROVE  Once(s \o t)
<1> DEFINE u == s \o t
<1>1. /\ Len(s) \in Nat /\ Len(t) \in Nat /\ Len(u) = Len(s) + Len(t)
      /\ \A i \in 1..Len(s) : u[i] = s[i]
      /\ \A i \in 1..Len(t) : u[Len(s) + i] = t[i]
  BY ConcatIs
<1> HIDE DEF u
<1>2. \A i \in 1..Len(u) : i \in 1..Len(s) \/ (i - Len(s) \in 1..Len(t) /\ i = Len(s) + (i - Len(s)))
  BY <1>1
<1>3. \A i \in 1..Len(s), j \in 1..Len(t) : s[i] # t[j]
  BY DEF In
<1>4. \A i \in 1..Len(u) : i \in 1..Len(s) \/ \E k \in 1..Len(t) : i = Len(s) + k
  BY <1>2
<1>5. ASSUME NEW i \in 1..Len(u), NEW j \in 1..Len(u), i # j PROVE u[i] # u[j]
  <2>1. CASE i \in 1..Len(s) /\ j \in 1..Len(s)
    BY <1>1, <1>5, <2>1 DEF Once
  <2>2. CASE i \in 1..Len(s) /\ \E k \in 1..Len(t) : j = Len(s) + k
    BY <1>1, <1>3, <2>2
  <2>3. CASE j \in 1..Len(s) /\ \E k \in 1..Len(t) : i = Len(s) + k
    BY <1>1, <1>3, <2>3
  <2>4. ASSUME NEW k \in 1..Len(t), i = Len(s) + k, NEW l \in 1..Len(t), j = Len(s) + l
        PROVE  u[i] # u[j]
    <3>1. t[k] # t[l]
      BY <1>5, <2>4 DEF Once
    <3>2. u[i] = t[k] /\ u[j] = t[l]
      BY <1>1, <2>4
    <3> QED
      BY <3>1, <3>2
  <2> QED
    BY <1>4, <2>1, <2>2, <2>3, <2>4
<1> QED
  BY <1>5 DEF Once, u

(* Lines at different places are different, and every line of a file that  *)
(* is left behind is below those of the files that follow.                 *)
LEMMA LinesOnce ==
  ASSUME RecInv, ReplayInv, NEW f \in DOMAIN disk
  PROVE  Once(disk[f].lines)
BY OnePlace DEF Once

LEMMA BehindIsUnder ==
  ASSUME RecInv, ReplayInv, Sane, Sound, NEW v, NEW f \in DOMAIN disk, NEW t,
         \A x : In(x, t) => In(x, disk[f].lines),
         \A x : In(x, v) => \E g \in DOMAIN disk : disk[g].whole /\ NameBefore(g, f) /\ In(x, disk[g].lines)
  PROVE  Under(v, t)
<1> SUFFICES ASSUME NEW i \in 1..Len(v), NEW j \in 1..Len(t)
             PROVE  v[i].q < t[j].q
  BY DEF Under
<1>1. In(v[i], v) /\ In(t[j], t)
  BY DEF In
<1>2. PICK g \in DOMAIN disk : disk[g].whole /\ NameBefore(g, f) /\ In(v[i], disk[g].lines)
  BY <1>1
<1>3. Under(disk[g].lines, disk[f].lines) /\ In(t[j], disk[f].lines)
  BY <1>1, <1>2, WholeIsUnder
<1> QED
  BY <1>2, <1>3 DEF Under, In

LEMMA TailIs ==
  ASSUME NEW S, NEW s \in Seq(S), s # << >>
  PROVE  /\ Tail(s) \in Seq(S) /\ 1 \in 1..Len(s) /\ s[1] = Head(s) /\ Head(s) \in S
         /\ \A i \in 1..Len(Tail(s)) : i + 1 \in 1..Len(s) /\ Tail(s)[i] = s[i + 1] /\ 1 < i + 1
         /\ \A i, j \in 1..Len(Tail(s)) : i < j => i + 1 < j + 1
         /\ \A j \in 1..Len(s) : s[j] = Head(s) \/ \E i \in 1..Len(Tail(s)) : s[j] = Tail(s)[i]
<1>1. /\ Tail(s) \in Seq(S) /\ Len(Tail(s)) = Len(s) - 1 /\ Len(s) \in Nat /\ Len(s) > 0
      /\ \A i \in 1..Len(Tail(s)) : Tail(s)[i] = s[i + 1]
  OBVIOUS
<1>2. s[1] = Head(s) /\ Head(s) \in S
  OBVIOUS
<1>3. ASSUME NEW j \in 1..Len(s), j # 1 PROVE \E i \in 1..Len(Tail(s)) : s[j] = Tail(s)[i]
  <2>1. j - 1 \in 1..Len(Tail(s)) /\ (j - 1) + 1 = j
    BY <1>1, <1>3
  <2> QED
    BY <1>1, <2>1
<1>4. \A i \in 1..Len(Tail(s)) : i + 1 \in 1..Len(s) /\ 1 < i + 1
  BY <1>1
<1>5. \A i, j \in 1..Len(Tail(s)) : i < j => i + 1 < j + 1
  BY <1>1
<1> QED
  BY <1>1, <1>2, <1>3, <1>4, <1>5

(* A file of the history is played. *)
LEMMA HistoryStepKeeps ==
  ASSUME RecInv, ReplayInv, OfLives, ConsoleTyped, ConsoleInv, Running => writer,
         HistoryStep, UNCHANGED recVars
  PROVE  ConsoleTyped' /\ ConsoleInv'
<1> DEFINE h == Head(pend)
           ls == disk[h].lines
<1>1. /\ UNCHANGED <<cons, known, at, old, starts>> /\ cons = "history" /\ pend # << >>
      /\ view' = view \o ls /\ done' = done \cup {h} /\ pend' = Tail(pend)
      /\ cache' = IF h \in known THEN [after |-> h, view |-> view'] ELSE cache
  BY DEF HistoryStep
<1>2. /\ UNCHANGED <<life, cur, disk, manifest, dropped, crashes>>
      /\ (Sane' <=> Sane) /\ Closed' = Closed
      /\ \A v : Known(v)' <=> Known(v)
      /\ \A f, v : Covers(f, v)' <=> Covers(f, v)
  BY FrozenIs
<1>3. /\ pend' \in Seq(Name) /\ 1 \in 1..Len(pend) /\ pend[1] = h /\ h \in Name
      /\ \A i \in 1..Len(pend') : i + 1 \in 1..Len(pend) /\ pend'[i] = pend[i + 1] /\ 1 < i + 1
      /\ \A i, j \in 1..Len(pend') : i < j => i + 1 < j + 1
      /\ \A j \in 1..Len(pend) : pend[j] = h \/ \E i \in 1..Len(pend') : pend[j] = pend'[i]
  BY <1>1, TailIs DEF ConsoleTyped
<1>4. h \in DOMAIN disk /\ view \in Seq(Event) /\ ls \in Seq(Event)
  BY <1>3, Sequences DEF ConsoleInv, Shape, ConsoleTyped, RecInv
<1> HIDE DEF h
<1>5. view' \in Seq(Event) /\ \A x : In(x, view') <=> In(x, view) \/ In(x, ls)
  BY <1>1, <1>4, ConcatIs, InConcat
<1>6. /\ cache' = cache \/ (cache' = [after |-> h, view |-> view'] /\ h \in Closed)
      /\ at.f = NoFile /\ at.n = 0 /\ ~at.finished
  BY <1>1, NoReaderIs DEF ConsoleInv, Shape
<1>7. ASSUME cache' # cache
      PROVE  /\ cache'.after = h /\ cache'.view = view' /\ h \in Closed
             /\ cache' \in [after : Name \cup {NoFile}, view : Seq(Event)]
  BY <1>3, <1>5, <1>6, <1>7
<1>8. ConsoleTyped'
  BY <1>1, <1>3, <1>5, <1>7 DEF ConsoleTyped
<1>9. Shape' /\ Place' /\ Shown'
  <2>1. Known(view')
    <3>1. Known(ls) /\ Known(view)
      BY <1>4, LinesKnown DEF ConsoleInv, Shown
    <3> QED
      BY <1>1, <1>4, <3>1, KnownConcat
  <2>2. Known(cache'.view)
    BY <1>7, <2>1 DEF ConsoleInv, Shown
  <2>3. Shown'
    BY <1>2, <2>1, <2>2 DEF Shown
  <2>4. cache' = NoCache \/ cache'.after \in Closed
    BY <1>7 DEF ConsoleInv, Shape
  <2>5. \A i \in 1..Len(pend') : pend'[i] \in DOMAIN disk
    BY <1>3 DEF ConsoleInv, Shape
  <2>6. Shape'
    BY <1>1, <1>2, <1>4, <1>6, <2>4, <2>5 DEF ConsoleInv, Shape
  <2> QED
    BY <1>1, <1>2, <1>6, <2>3, <2>6 DEF Place
(* The order of the window: what is done, h, what waits. *)
<1>10. ASSUME Sane
       PROVE  /\ \A g \in done : NameBefore(g, h)
              /\ \A i \in 1..Len(pend') : NameBefore(h, pend'[i])
              /\ h \notin done
  <2>1. InTurn
    BY <1>10 DEF ConsoleInv
  <2>2. \A g \in done : NameBefore(g, h)
    BY <1>3, <2>1 DEF InTurn
  <2>3. \A i \in 1..Len(pend') : NameBefore(h, pend'[i])
    BY <1>3, <2>1 DEF InTurn
  <2> QED
    BY <1>3, <2>2, <2>3, NamesAreOrdered
<1>11. ASSUME Sane, NEW f \in DOMAIN disk, NEW x, In(x, view), In(x, disk[f].lines)
       PROVE  f \in done
  <2>1. Seen(f, x)
    BY <1>11 DEF ConsoleInv, Marked
  <2>2. f # NoFile
    BY <1>11, ClosedExist
  <2> QED
    BY <1>6, <2>1, <2>2 DEF Seen
<1>12. ASSUME Sane PROVE Marked' /\ InTurn'
  <2>1. Marked /\ InTurn
    BY <1>12 DEF ConsoleInv
  <2>2. \A f \in DOMAIN disk : \A x : In(x, view') /\ In(x, disk[f].lines) => f \in done'
    BY <1>1, <1>4, <1>5, <1>11, <1>12, OneFile
  <2>3. Once(view')
    <3>1. \A x : ~(In(x, view) /\ In(x, ls))
      BY <1>4, <1>10, <1>11, <1>12
    <3> QED
      BY <1>1, <1>4, <2>1, <3>1, LinesOnce, OnceConcat DEF Marked
  <2>4. \A f \in done' : UpTo(f, h)
    BY <1>1, <1>10, <1>12 DEF UpTo
  <2>5. \A f \in DOMAIN disk : \A x : In(x, cache'.view) /\ In(x, disk[f].lines) => UpTo(f, cache'.after)
    BY <1>7, <2>1, <2>2, <2>4 DEF Marked
  <2>6. Once(cache'.view)
    BY <1>7, <2>1, <2>3 DEF Marked
  <2>7. Marked'
    BY <1>2, <2>2, <2>3, <2>5, <2>6 DEF Marked, Seen, Once
  <2>8. \A i \in 1..Len(pend') : /\ \A g \in done' : NameBefore(g, pend'[i])
                                 /\ \A j \in 1..Len(pend') : i < j => NameBefore(pend'[i], pend'[j])
    BY <1>1, <1>3, <1>10, <1>12, <2>1 DEF InTurn
  <2>9. InTurn'
    BY <1>1, <1>2, <1>6, <2>8 DEF InTurn
  <2> QED
    BY <2>7, <2>9
<1>13. ASSUME Sane, crashes = 0 PROVE AllRead'
  <2>1. AllRead
    BY <1>13 DEF ConsoleInv
  <2>2. \A f : Covers(f, view) => Covers(f, view')
    BY <1>5 DEF Covers
  <2>3. Covers(h, view')
    BY <1>5 DEF Covers, In
  <2>4. disk[h].whole
    BY <1>3, <2>1 DEF AllRead, PendRead
  <2>5. LeftRead'
    BY <1>1, <1>2, <2>1, <2>2, <2>3, <2>4 DEF AllRead, LeftRead
  <2>6. PlaceRead'
    BY <1>1, <1>2, <1>6 DEF PlaceRead
  <2>7. \A f \in DOMAIN disk, i \in 1..Len(pend) :
          NameBefore(f, pend[i]) => f \in done' \/ f \in old \/ \E j \in 1..Len(pend') : f = pend'[j]
    <3>1. \A f \in DOMAIN disk, i \in 1..Len(pend) :
            NameBefore(f, pend[i]) => f \in done \/ f \in old \/ \E j \in 1..Len(pend) : f = pend[j]
      BY <1>1, <2>1 DEF AllRead, PendRead
    <3>2. \A f : (\E j \in 1..Len(pend) : f = pend[j]) => f = h \/ \E j \in 1..Len(pend') : f = pend'[j]
      BY <1>3
    <3>3. \A f : f \in done' <=> f \in done \/ f = h
      BY <1>1
    <3> QED
      BY <3>1, <3>2, <3>3
  <2>8. PendRead'
    <3>1. \A i \in 1..Len(pend') : disk[pend'[i]].whole
      BY <1>3, <2>1 DEF AllRead, PendRead
    <3>2. \A f \in DOMAIN disk, i \in 1..Len(pend') :
            NameBefore(f, pend'[i]) => f \in done' \/ f \in old \/ \E j \in 1..Len(pend') : f = pend'[j]
      BY <1>3, <2>7
    <3> QED
      BY <1>1, <1>2, <3>1, <3>2 DEF PendRead
  <2>9. \A f \in DOMAIN disk : UpTo(f, h) => f \in old \/ Covers(f, view')
    <3> SUFFICES ASSUME NEW f \in DOMAIN disk, NameBefore(f, h), f \notin old
                 PROVE  Covers(f, view')
      BY <2>3 DEF UpTo
    <3>1. f \in done' \/ \E j \in 1..Len(pend') : f = pend'[j]
      BY <1>3, <2>7
    <3>2. ~\E j \in 1..Len(pend') : f = pend'[j]
      BY <1>3, <1>10, <1>13, Types, NamesAreOrdered DEF DiskTyped
    <3> QED
      BY <1>1, <2>1, <2>2, <2>3, <3>1, <3>2 DEF AllRead, LeftRead
  <2>10. CacheRead'
    <3>1. CASE cache' = cache
      BY <1>1, <1>2, <2>1, <3>1 DEF AllRead, CacheRead
    <3>2. CASE cache' # cache
      BY <1>1, <1>2, <1>7, <2>9, <3>2 DEF CacheRead
    <3> QED
      BY <3>1, <3>2
  <2> QED
    BY <2>5, <2>6, <2>8, <2>10 DEF AllRead
<1>14. ASSUME Sane, crashes = 0, old = {} PROVE InSequence'
  <2>1. InSequence /\ AllRead
    BY <1>14 DEF ConsoleInv
  <2>2. \A x : In(x, view) => \E g \in DOMAIN disk : disk[g].whole /\ NameBefore(g, h) /\ In(x, disk[g].lines)
    <3>1. \A x : In(x, view) => InSome(x, disk)
      BY <1>14 DEF ConsoleInv, Shown, Known, In
    <3> QED
      BY <1>10, <1>11, <1>14, <2>1, <3>1 DEF InSome, AllRead, LeftRead
  <2>3. Under(view, ls)
    BY <1>4, <1>14, <2>2, BehindIsUnder DEF Sound
  <2>4. Climbs(view')
    <3>1. Climbs(view) /\ Climbs(ls)
      BY <1>4, <2>1 DEF InSequence, ReplayInv, Shelf, Tidy
    <3> QED
      BY <1>1, <1>4, <2>3, <3>1, ClimbConcat
  <2>5. Climbs(cache'.view)
    BY <1>7, <2>1, <2>4 DEF InSequence
  <2>6. ASSUME NEW f \in DOMAIN disk, f \notin done' PROVE \A g \in done' : NameBefore(g, f)
    <3>1. f \notin done /\ f # h
      BY <1>1, <2>6
    <3>2. ~NameBefore(f, h)
      <4>1. ASSUME NameBefore(f, h) PROVE \E j \in 1..Len(pend') : f = pend'[j]
        <5>1. NameBefore(f, pend[1]) /\ 1 \in 1..Len(pend) /\ cons = "history"
          BY <1>1, <1>3, <4>1
        <5>2. f \in done \/ f \in old \/ \E j \in 1..Len(pend) : f = pend[j]
          BY <2>1, <5>1 DEF AllRead, PendRead
        <5>3. PICK j \in 1..Len(pend) : f = pend[j]
          BY <1>14, <3>1, <5>2
        <5> QED
          BY <1>3, <3>1, <5>3
      <4> QED
        BY <1>3, <1>10, <1>14, <4>1, Types, NamesAreOrdered DEF DiskTyped
    <3>3. NameBefore(h, f)
      BY <1>3, <3>1, <3>2, Types, NamesAreOrdered DEF DiskTyped
    <3> QED
      BY <1>1, <2>1, <3>1, <3>3 DEF InSequence
  <2> QED
    BY <1>2, <2>4, <2>5, <2>6 DEF InSequence
<1>15. old' = old
  BY <1>1
<1> QED
  BY <1>2, <1>8, <1>9, <1>12, <1>13, <1>14, <1>15 DEF ConsoleInv

-----------------------------------------------------------------------------
(* A turn of the reader. *)
LEMMA FirstIs ==
  ASSUME RecInv, NEW S, S \subseteq DOMAIN disk, S # {}
  PROVE  First(S) \in S /\ \A g \in S : ~NameBefore(g, First(S))
<1>1. Listing(Files) /\ Len(Files) \in Nat
  BY FilesAreNames
<1> DEFINE T == {i \in 1..Len(Files) : Files[i] \in S}
<1>2. T \in SUBSET Nat /\ T # {}
  BY <1>1 DEF Listing
<1>3. PICK i \in T : \A j \in T : i <= j
  <2> HIDE DEF T
  <2> QED
    BY <1>2, Least
<1>4. i \in 1..Len(Files) /\ Files[i] \in S
  BY <1>3
<1>5. ASSUME NEW g \in S PROVE ~NameBefore(g, Files[i])
  <2>1. PICK j \in 1..Len(Files) : Files[j] = g
    BY <1>1 DEF Listing
  <2>2. i <= j
    BY <1>3, <2>1
  <2>3. i = j \/ NameBefore(Files[i], g)
    BY <1>1, <1>4, <2>1, <2>2 DEF Listing
  <2>4. Files[i] \in Name /\ g \in Name
    BY <1>4, Types DEF DiskTyped
  <2> QED
    BY <2>1, <2>3, <2>4, NamesAreOrdered
<1> QED
  BY <1>4, <1>5 DEF First

ReaderType == [f : Name \cup {NoFile}, life : 0..MaxLives, n : Nat, finished : BOOLEAN, many : BOOLEAN]

(* The reader stands in f, or begins with it; what it reads there. *)
StandsIn(r, f) == r = at \/ (at.f # f /\ r.n = 0 /\ ~r.finished)
Stuck(r, f) == r.finished \/ (r.n > 0 /\ r.life # disk[f].life)
Goes(r, f, new) ==
  /\ f \in Waiting /\ \A g \in Waiting : ~NameBefore(g, f)
  /\ r \in ReaderType /\ r.f = f /\ StandsIn(r, f)
  /\ new = NewLines(r, f) /\ view' = view \o new /\ at' \in ReaderType
  /\ at'.f = f /\ at'.life = (IF new = << >> THEN r.life ELSE disk[f].life)
  /\ at'.n = r.n + Len(new)
  /\ at'.finished => r.finished \/ ((r.n = 0 \/ r.life = disk[f].life) /\ disk[f].whole)
  /\ at'.many => new = << >> /\ \E g \in Waiting : g # f
  /\ cons' = (IF new = << >> THEN "ask" ELSE "read")

(* The lines behind its position. *)
LEMMA NewLinesAre ==
  ASSUME RecInv, NEW f \in DOMAIN disk, NEW r \in ReaderType, NEW new, new = NewLines(r, f)
  PROVE  /\ new \in Seq(Event) /\ Len(new) \in Nat /\ r.n \in Nat
         /\ \A i \in 1..Len(new) :
              new[i] = disk[f].lines[r.n + i] /\ r.n + i \in 1..Len(disk[f].lines) /\ r.n < r.n + i
         /\ Stuck(r, f) => new = << >>
         /\ ~Stuck(r, f) => \A k \in 1..Len(disk[f].lines) : r.n < k => In(disk[f].lines[k], new)
         /\ ~Stuck(r, f) /\ r.n <= Len(disk[f].lines) => r.n + Len(new) = Len(disk[f].lines)
         /\ new = << >> => Len(new) = 0
         /\ Len(new) = 0 => new = << >>
<1>1. /\ disk[f].lines \in Seq(Event) /\ Len(disk[f].lines) \in Nat /\ r.n \in Nat
      /\ \A i \in 1..Len(disk[f].lines) : disk[f].lines[i] \in Event
  BY Sequences, ElementOfSeq DEF RecInv, ReaderType
<1>2. CASE Stuck(r, f)
  <2>1. new = << >>
    BY <1>2 DEF Stuck, NewLines
  <2> QED
    BY <1>1, <1>2, <2>1
<1>3. CASE ~Stuck(r, f)
  <2>1. new = SubSeq(disk[f].lines, r.n + 1, Len(disk[f].lines))
    BY <1>3 DEF Stuck, NewLines
  <2>2. \A i \in (r.n + 1)..Len(disk[f].lines) : disk[f].lines[i] \in Event
    BY <1>1
  <2>3. /\ new \in Seq(Event) /\ Len(new) \in Nat
        /\ (r.n <= Len(disk[f].lines) => Len(new) = Len(disk[f].lines) - r.n)
        /\ \A i \in 1..Len(new) : new[i] = disk[f].lines[r.n + i] /\ r.n + i \in (r.n + 1)..Len(disk[f].lines)
        /\ \A k \in (r.n + 1)..Len(disk[f].lines) : k - r.n \in 1..Len(new) /\ new[k - r.n] = disk[f].lines[k]
    <3> DEFINE s == disk[f].lines
               n == r.n
    <3>1. s \in Seq(Event) /\ Len(s) \in Int /\ n \in Nat /\ new = SubSeq(s, n + 1, Len(s))
          /\ \A i \in (n + 1)..Len(s) : s[i] \in Event
      BY <1>1, <2>1, <2>2
    <3> HIDE DEF s, n
    <3>2. /\ new \in Seq(Event) /\ Len(new) \in Nat /\ (n <= Len(s) => Len(new) = Len(s) - n)
          /\ \A i \in 1..Len(new) : new[i] = s[n + i] /\ n + i \in (n + 1)..Len(s)
          /\ \A k \in (n + 1)..Len(s) : k - n \in 1..Len(new) /\ new[k - n] = s[k]
      BY <3>1, SliceIs
    <3> QED
      BY <3>2 DEF s, n
  <2>4. \A i \in 1..Len(new) : r.n + i \in 1..Len(disk[f].lines) /\ r.n < r.n + i
    BY <1>1, <2>3
  <2>5. ASSUME NEW k \in 1..Len(disk[f].lines), r.n < k
        PROVE  In(disk[f].lines[k], new)
    <3>1. k \in (r.n + 1)..Len(disk[f].lines)
      BY <1>1, <2>5
    <3> QED
      BY <2>3, <3>1 DEF In
  <2>6. r.n <= Len(disk[f].lines) => r.n + Len(new) = Len(disk[f].lines)
    BY <1>1, <2>3
  <2>7. (new = << >> => Len(new) = 0) /\ (Len(new) = 0 => new = << >>)
    BY <2>3
  <2> QED
    BY <1>1, <1>3, <2>3, <2>4, <2>5, <2>6, <2>7
<1> QED
  BY <1>2, <1>3

LEMMA PassIs ==
  ASSUME RecInv, ConsoleTyped, Pass
  PROVE  \E f \in DOMAIN disk : \E r, new : Goes(r, f, new)
<1> DEFINE f == First(Waiting)
           r == IF at.f = f THEN at ELSE [NoReader EXCEPT !.f = f]
           new == NewLines(r, f)
           same == r.n = 0 \/ r.life = disk[f].life
<1>1. /\ Waiting # {} /\ view' = view \o new
      /\ at' = [f |-> f, life |-> IF new = << >> THEN r.life ELSE disk[f].life,
                n |-> r.n + Len(new), finished |-> r.finished \/ (same /\ disk[f].whole),
                many |-> new = << >> /\ Cardinality(Waiting) > 1]
      /\ cons' = IF new = << >> THEN "ask" ELSE "read"
  BY DEF Pass
<1>2. f \in Waiting /\ \A g \in Waiting : ~NameBefore(g, f)
  BY <1>1, FirstIs DEF Waiting
<1>3. f \in DOMAIN disk /\ f \in Name /\ disk[f].life \in 0..MaxLives
  BY <1>2, Types, RecAssumption DEF Waiting, DiskTyped, RecInv, TypeOK
<1> HIDE DEF f
<1>4. r \in ReaderType /\ r.f = f /\ StandsIn(r, f)
  <2>1. CASE at.f = f
    BY <2>1 DEF ConsoleTyped, ReaderType, StandsIn
  <2>2. CASE at.f # f
    <3>1. r = [NoReader EXCEPT !.f = f]
      BY <2>2
    <3>2. /\ r = [f |-> f, life |-> 0, n |-> 0, finished |-> FALSE, many |-> FALSE]
      BY <3>1 DEF NoReader
    <3> HIDE DEF r
    <3>3. r.f = f /\ r.life = 0 /\ r.n = 0 /\ r.finished = FALSE /\ r.many = FALSE
      BY <3>2
    <3>4. 0 \in 0..MaxLives /\ f \in Name \cup {NoFile}
      BY <1>3, RecAssumption
    <3>5. r \in ReaderType
      BY <3>2, <3>4 DEF ReaderType
    <3> QED
      BY <2>2, <3>3, <3>5 DEF StandsIn
  <2> QED
    BY <2>1, <2>2
<1> HIDE DEF r
<1>5. new \in Seq(Event) /\ Len(new) \in Nat /\ r.n \in Nat
  BY <1>3, <1>4, NewLinesAre
<1>6. Cardinality(Waiting) > 1 => \E g \in Waiting : g # f
  <2> SUFFICES ASSUME Cardinality(Waiting) > 1, \A g \in Waiting : g = f
               PROVE  FALSE
    OBVIOUS
  <2>1. Waiting = {f}
    BY <1>2
  <2>2. Cardinality({f}) = 1
    BY FS_Singleton
  <2> QED
    BY <2>1, <2>2
<1> HIDE DEF new
<1>7. at' \in ReaderType
  BY <1>1, <1>3, <1>4, <1>5 DEF ReaderType
<1>8. /\ at'.f = f /\ at'.life = (IF new = << >> THEN r.life ELSE disk[f].life)
      /\ at'.n = r.n + Len(new)
      /\ at'.finished => r.finished \/ (same /\ disk[f].whole)
      /\ at'.many => new = << >> /\ \E g \in Waiting : g # f
  BY <1>1, <1>6
<1>9. Goes(r, f, new)
  BY <1>1, <1>2, <1>4, <1>7, <1>8 DEF Goes, new
<1> QED
  BY <1>3, <1>9

LEMMA PassKeeps ==
  ASSUME RecInv, ReplayInv, OfLives, ConsoleTyped, ConsoleInv, Running => writer,
         Pass, UNCHANGED recVars
  PROVE  ConsoleTyped' /\ ConsoleInv'
<1>1. UNCHANGED <<done, pend, known, cache, old, starts>> /\ cons = "read" /\ cons' \in {"ask", "read"}
  BY DEF Pass
<1>2. /\ UNCHANGED <<life, cur, disk, manifest, dropped, crashes>>
      /\ (Sane' <=> Sane) /\ Closed' = Closed
      /\ \A v : Known(v)' <=> Known(v)
      /\ \A f, v : Covers(f, v)' <=> Covers(f, v)
  BY FrozenIs
<1>3. PICK f \in DOMAIN disk : \E r, new : Goes(r, f, new)
  BY PassIs
<1>4. PICK r, new : Goes(r, f, new)
  BY <1>3
<1> DEFINE ls == disk[f].lines
<1>5. /\ f \notin done /\ \A g \in DOMAIN disk \ done : ~NameBefore(g, f)
      /\ r \in ReaderType /\ r.f = f /\ view' = view \o new /\ at' \in ReaderType
      /\ at'.f = f /\ at'.n = r.n + Len(new)
      /\ (at'.finished => r.finished \/ ((r.n = 0 \/ r.life = disk[f].life) /\ disk[f].whole))
      /\ (at'.many => new = << >> /\ \E g \in Waiting : g # f)
  BY <1>4 DEF Goes, Waiting
<1>6. /\ (new = << >> => at'.life = r.life) /\ (new # << >> => at'.life = disk[f].life /\ cons' = "read")
      /\ new = NewLines(r, f) /\ StandsIn(r, f)
  BY <1>4 DEF Goes
<1>7. /\ new \in Seq(Event) /\ Len(new) \in Nat /\ r.n \in Nat
      /\ \A i \in 1..Len(new) : new[i] = ls[r.n + i] /\ r.n + i \in 1..Len(ls) /\ r.n < r.n + i
      /\ Stuck(r, f) => new = << >>
      /\ ~Stuck(r, f) => \A k \in 1..Len(ls) : r.n < k => In(ls[k], new)
      /\ ~Stuck(r, f) /\ r.n <= Len(ls) => r.n + Len(new) = Len(ls)
      /\ new = << >> => Len(new) = 0
      /\ Len(new) = 0 => new = << >>
  BY <1>5, <1>6, NewLinesAre
<1>8. ls \in Seq(Event) /\ Len(ls) \in Nat /\ f \in Name /\ f # NoFile /\ view \in Seq(Event)
  BY Sequences, Types, ClosedExist DEF DiskTyped, RecInv, ConsoleTyped
<1> HIDE DEF ls
<1>9. r.n = 0 \/ (r = at /\ at.f = f)
  BY <1>5, <1>6 DEF StandsIn
<1>10. r.finished => r = at /\ at.f = f
  BY <1>5, <1>6 DEF StandsIn
<1>11. at.f = f => r = at
  BY <1>6 DEF StandsIn
(* Where it goes on it has not read past the end. *)
<1>12. ~Stuck(r, f) => r.n <= Len(ls) /\ at'.n = Len(ls)
  <2>1. r.n = 0 => r.n <= Len(ls)
    BY <1>8
  <2>2. r.n # 0 => r.n > 0
    BY <1>7
  <2>3. ~Stuck(r, f) => r.n <= Len(ls)
    BY <1>9, <2>1, <2>2 DEF Stuck, ConsoleInv, Place, ls
  <2> QED
    BY <1>5, <1>7, <2>3
<1>13. new # << >> => at'.n = Len(ls) /\ at'.life = disk[f].life
  BY <1>6, <1>7, <1>12
<1>14. new = << >> => at'.n = r.n /\ at'.life = r.life
  BY <1>5, <1>6, <1>7
<1>15. \A x : In(x, new) => In(x, ls)
  BY <1>7 DEF In
<1>16. view' \in Seq(Event) /\ \A x : In(x, view') <=> In(x, view) \/ In(x, new)
  BY <1>5, <1>7, <1>8, ConcatIs, InConcat
<1>17. ConsoleTyped'
  BY <1>1, <1>5, <1>16 DEF ConsoleTyped, ReaderType
<1>18. Shape' /\ Place' /\ Shown'
  <2>1. Known(view')
    <3>1. Known(new) /\ Known(view)
      BY <1>7, <1>15, LinesKnown DEF ConsoleInv, Shown, ls
    <3> QED
      BY <1>5, <1>7, <1>8, <3>1, KnownConcat
  <2>2. Shown'
    BY <1>1, <1>2, <2>1 DEF ConsoleInv, Shown
  <2>3. at'.n > 0 => /\ at'.life <= disk[f].life
                     /\ at'.life = disk[f].life => at'.n <= Len(ls)
    <3>1. CASE new = << >>
      BY <1>9, <1>14, <3>1 DEF ConsoleInv, Place, ls
    <3>2. CASE new # << >>
      BY <1>8, <1>13, <3>2, Types DEF DiskTyped
    <3> QED
      BY <3>1, <3>2
  <2>4. Place'
    BY <1>2, <1>5, <2>3 DEF Place, ls
  <2>5. Shape'
    BY <1>1, <1>2, <1>5, <1>8 DEF ConsoleInv, Shape
  <2> QED
    BY <2>2, <2>4, <2>5
(* What it leaves was read. *)
<1>19. ASSUME Sane, at.f # f, at.f # NoFile PROVE at.f \in done
  <2>1. at.f \in DOMAIN disk /\ at.f \in Name
    BY <1>19, Types DEF DiskTyped, ConsoleInv, Shape
  <2>2. at.f \in done \/ ~NameBefore(f, at.f)
    BY <1>5, <1>19 DEF ConsoleInv, InTurn
  <2>3. at.f \in done \/ ~NameBefore(at.f, f)
    BY <1>5, <2>1
  <2> QED
    BY <1>8, <1>19, <2>1, <2>2, <2>3, NamesAreOrdered
<1>20. ASSUME Sane, NEW g \in DOMAIN disk, NEW x, In(x, view), In(x, disk[g].lines)
       PROVE  g \in done \/ (g = f /\ r = at /\ at.f = f /\ at.life = disk[f].life /\ Ahead(ls, at.n, x))
  <2>1. Seen(g, x) /\ g # NoFile
    BY <1>20, ClosedExist DEF ConsoleInv, Marked
  <2> QED
    BY <1>11, <1>19, <1>20, <2>1 DEF Seen, ls
<1>21. ASSUME Sane PROVE Marked' /\ InTurn'
  <2>1. Marked /\ InTurn
    BY <1>21 DEF ConsoleInv
  <2>2. ASSUME NEW g \in DOMAIN disk, NEW x, In(x, view), In(x, disk[g].lines), g \notin done
        PROVE  g = f /\ at'.life = disk[f].life /\ Ahead(ls, at'.n, x)
    <3>1. g = f /\ r = at /\ at.life = disk[f].life /\ Ahead(ls, at.n, x)
      BY <1>20, <1>21, <2>2
    <3>2. at.n <= at'.n /\ at.n \in Nat /\ at'.n \in Nat
      BY <1>5, <1>7, <3>1
    <3>3. Ahead(ls, at'.n, x)
      BY <1>8, <3>1, <3>2 DEF Ahead
    <3> QED
      BY <1>13, <1>14, <3>1, <3>3
  <2>3. ASSUME NEW g \in DOMAIN disk, NEW x, In(x, new), In(x, disk[g].lines)
        PROVE  g = f /\ at'.life = disk[f].life /\ Ahead(ls, at'.n, x)
    <3>1. In(x, ls)
      BY <1>15, <2>3
    <3>2. g = f
      BY <2>3, <3>1, OneFile DEF ls
    <3>3. new # << >>
      BY <2>3, <1>7 DEF In
    <3> QED
      BY <1>8, <1>13, <3>1, <3>2, <3>3 DEF Ahead, In
  <2>4. \A g \in DOMAIN disk : \A x : In(x, view') /\ In(x, disk[g].lines) => Seen(g, x)'
    BY <1>1, <1>2, <1>5, <1>16, <2>2, <2>3 DEF Seen, ls
  <2>5. ASSUME NEW x, In(x, view), In(x, new) PROVE FALSE
    <3>1. In(x, ls)
      BY <1>15, <2>5
    <3>2. r = at /\ Ahead(ls, at.n, x)
      BY <1>5, <1>20, <1>21, <2>5, <3>1 DEF ls
    <3>3. PICK i \in 1..Len(ls) : i <= r.n /\ ls[i] = x
      BY <3>2 DEF Ahead
    <3>4. PICK j \in 1..Len(new) : new[j] = x
      BY <2>5 DEF In
    <3>5. r.n + j \in 1..Len(ls) /\ ls[r.n + j] = ls[i] /\ r.n < r.n + j
      BY <1>7, <3>3, <3>4
    <3>6. i = r.n + j
      BY <3>5, OnePlace DEF ls
    <3> QED
      BY <1>7, <3>3, <3>5, <3>6
  <2>6. Once(new)
    <3> SUFFICES ASSUME NEW i \in 1..Len(new), NEW j \in 1..Len(new), new[i] = new[j]
                 PROVE  i = j
      BY DEF Once
    <3>1. r.n + i = r.n + j
      BY <1>7, OnePlace DEF ls
    <3> QED
      BY <1>7, <3>1
  <2>7. Once(view')
    BY <1>5, <1>7, <1>8, <2>1, <2>5, <2>6, OnceConcat DEF Marked
  <2>8. Marked'
    BY <1>1, <1>2, <2>1, <2>4, <2>7 DEF Marked, Once
  <2>9. InTurn'
    BY <1>1, <1>2, <1>5, <2>1 DEF InTurn
  <2> QED
    BY <2>8, <2>9
<1>22. ASSUME Sane, crashes = 0 PROVE AllRead'
  <2>1. AllRead
    BY <1>22 DEF ConsoleInv
  <2>2. LeftRead'
    <3>1. \A g : Covers(g, view) => Covers(g, view')
      BY <1>16 DEF Covers
    <3> QED
      BY <1>1, <1>2, <2>1, <3>1 DEF AllRead, LeftRead
  <2>3. r.n > 0 => r = at /\ at.f = f /\ at.life = disk[f].life /\ \A i \in 1..Len(ls) : i <= r.n => In(ls[i], view)
    <3>1. r.n > 0 => r = at /\ at.f = f
      BY <1>7, <1>9
    <3> QED
      BY <2>1, <3>1 DEF AllRead, PlaceRead, ls
  <2>4. Stuck(r, f) => r.finished
    BY <2>3 DEF Stuck
  <2>5. r.finished => disk[f].whole /\ r.n = Len(ls)
    BY <1>10, <2>1 DEF AllRead, PlaceRead, ls
  <2>6. at'.n > 0 => /\ at'.life = disk[f].life
                     /\ \A i \in 1..Len(ls) : i <= at'.n => In(ls[i], view')
    <3>1. CASE new = << >>
      BY <1>14, <1>16, <2>3, <3>1
    <3>2. CASE new # << >>
      <4>1. ~Stuck(r, f)
        BY <1>7, <3>2
      <4>2. \A i \in 1..Len(ls) : r.n < i \/ i <= r.n
        BY <1>7
      <4>3. \A i \in 1..Len(ls) : i <= r.n => r.n > 0
        BY <1>7
      <4> QED
        BY <1>7, <1>13, <1>16, <2>3, <3>2, <4>1, <4>2, <4>3
    <3> QED
      BY <3>1, <3>2
  <2>7. at'.finished => disk[f].whole
    BY <1>5, <2>5
  <2>8. at'.n = Len(ls)
    <3>1. CASE Stuck(r, f)
      BY <1>7, <1>14, <2>4, <2>5, <3>1
    <3> QED
      BY <1>12, <3>1
  <2>9. at'.many => disk[f].whole
    <3> SUFFICES ASSUME NEW g \in Waiting, g # f PROVE disk[f].whole
      BY <1>5
    <3>1. g \in DOMAIN disk /\ g \in Name /\ ~NameBefore(g, f)
      BY <1>5, Types DEF Waiting, DiskTyped
    <3>2. NameBefore(f, g)
      BY <1>8, <3>1, NamesAreOrdered
    <3> QED
      BY <1>22, <3>1, <3>2, BeforeIsWhole
  <2>10. PlaceRead'
    BY <1>2, <1>5, <1>8, <2>6, <2>7, <2>8, <2>9 DEF PlaceRead, ls
  <2>11. CacheRead'
    BY <1>1, <1>2, <2>1 DEF AllRead, CacheRead
  <2>12. PendRead'
    BY <1>1, <1>2, <2>1 DEF AllRead, PendRead
  <2> QED
    BY <2>2, <2>10, <2>11, <2>12 DEF AllRead
<1>23. ASSUME Sane, crashes = 0, old = {} PROVE InSequence'
  <2>1. InSequence /\ AllRead
    BY <1>23 DEF ConsoleInv
  <2>2. Climbs(ls)
    BY DEF ReplayInv, Shelf, Tidy, ls
  <2>3. Climbs(new)
    <3>1. \A i, j \in 1..Len(new) : i < j => r.n + i < r.n + j
      BY <1>7
    <3> QED
      BY <1>7, <2>2, <3>1 DEF Climbs
  <2>4. ASSUME NEW i \in 1..Len(view), NEW j \in 1..Len(new)
        PROVE  view[i].q < new[j].q
    <3>1. In(view[i], view) /\ InSome(view[i], disk)
      BY <1>23 DEF ConsoleInv, Shown, Known, In
    <3>2. PICK g \in DOMAIN disk : In(view[i], disk[g].lines)
      BY <3>1 DEF InSome
    <3>3. CASE g \in done
      <4>1. disk[g].whole /\ NameBefore(g, f)
        BY <1>5, <2>1, <3>3 DEF AllRead, LeftRead, InSequence
      <4>2. Under(disk[g].lines, ls)
        BY <1>23, <4>1, WholeIsUnder DEF ls, Sound
      <4> QED
        BY <1>7, <3>2, <4>2 DEF Under, In
    <3>4. CASE g \notin done
      <4>1. r = at /\ Ahead(ls, at.n, view[i])
        BY <1>20, <1>23, <3>1, <3>2, <3>4
      <4>2. PICK k \in 1..Len(ls) : k <= r.n /\ ls[k] = view[i]
        BY <4>1 DEF Ahead
      <4>3. k < r.n + j
        BY <1>7, <4>2
      <4> QED
        BY <1>7, <2>2, <4>2, <4>3 DEF Climbs
    <3> QED
      BY <3>3, <3>4
  <2>5. Climbs(view')
    <3>1. Under(view, new)
      BY <2>4 DEF Under
    <3> QED
      BY <1>5, <1>7, <1>8, <2>1, <2>3, <3>1, ClimbConcat DEF InSequence
  <2> QED
    BY <1>1, <1>2, <2>1, <2>5 DEF InSequence
<1> QED
  BY <1>1, <1>2, <1>17, <1>18, <1>21, <1>22, <1>23 DEF ConsoleInv

-----------------------------------------------------------------------------
(* The export of bars, file by file. *)
Bars == UNION {[D -> Seq(Event)] : D \in SUBSET Name}
ExportState == [state : Seq(Event), bars : Bars]

LEMMA BarsIs ==
  ASSUME NEW b
  PROVE  /\ b \in Bars => /\ DOMAIN b \subseteq Name /\ b = [f \in DOMAIN b |-> b[f]]
                          /\ \A f \in DOMAIN b : b[f] \in Seq(Event)
         /\ (/\ DOMAIN b \subseteq Name /\ b = [f \in DOMAIN b |-> b[f]]
             /\ \A f \in DOMAIN b : b[f] \in Seq(Event)) => b \in Bars
<1>1. ASSUME b \in Bars
      PROVE  /\ DOMAIN b \subseteq Name /\ b = [f \in DOMAIN b |-> b[f]]
             /\ \A f \in DOMAIN b : b[f] \in Seq(Event)
  <2>1. PICK D \in SUBSET Name : b \in [D -> Seq(Event)]
    BY <1>1 DEF Bars
  <2> QED
    BY <2>1
<1>2. ASSUME DOMAIN b \subseteq Name, b = [f \in DOMAIN b |-> b[f]], \A f \in DOMAIN b : b[f] \in Seq(Event)
      PROVE  b \in Bars
  <2>1. b \in [DOMAIN b -> Seq(Event)] /\ DOMAIN b \in SUBSET Name
    BY <1>2
  <2> QED
    BY <2>1 DEF Bars
<1> QED
  BY <1>1, <1>2

LEMMA ExportFileIs ==
  ASSUME RecInv, NEW acc \in ExportState, NEW f \in DOMAIN disk
  PROVE  ExportFile(acc, f) \in ExportState
<1>1. acc.state \in Seq(Event) /\ acc.bars \in Bars /\ acc = [state |-> acc.state, bars |-> acc.bars]
  BY DEF ExportState
<1>2. disk[f].lines \in Seq(Event) /\ f \in Name
  BY Sequences, Types DEF RecInv, DiskTyped
<1>3. CASE f \in DOMAIN acc.bars
  <2>1. acc.bars[f] \in Seq(Event)
    BY <1>1, <1>3, BarsIs
  <2>2. ExportFile(acc, f) = [state |-> acc.bars[f], bars |-> acc.bars]
    BY <1>1, <1>3 DEF ExportFile
  <2> QED
    BY <1>1, <2>1, <2>2 DEF ExportState
<1>4. CASE f \notin DOMAIN acc.bars
  <2> DEFINE s == acc.state \o disk[f].lines
             b == Put(acc.bars, f, s)
             c == IF f \in Closed /\ disk[f].whole THEN b ELSE acc.bars
  <2>1. s \in Seq(Event)
    BY <1>1, <1>2, ConcatIs
  <2>2. ExportFile(acc, f) = [state |-> s, bars |-> c]
    BY <1>4 DEF ExportFile
  <2> HIDE DEF s
  <2>3. DOMAIN b = DOMAIN acc.bars \cup {f} /\ b = [g \in DOMAIN b |-> b[g]]
    BY DEF Put
  <2>4. \A g \in DOMAIN acc.bars \cup {f} : b[g] = IF g = f THEN s ELSE acc.bars[g]
    BY Zenon DEF Put
  <2> HIDE DEF b
  <2>5. b \in Bars
    <3>1. DOMAIN acc.bars \subseteq Name /\ \A g \in DOMAIN acc.bars : acc.bars[g] \in Seq(Event)
      BY <1>1, BarsIs
    <3>2. \A g \in DOMAIN b : b[g] \in Seq(Event)
      BY <2>1, <2>3, <2>4, <3>1
    <3>3. DOMAIN b \subseteq Name
      BY <1>2, <2>3, <3>1
    <3> QED
      BY <2>3, <3>2, <3>3, BarsIs
  <2>6. c \in Bars
    BY <1>1, <2>5
  <2> QED
    BY <2>1, <2>2, <2>6 DEF ExportState
<1> QED
  BY <1>3, <1>4

(* An export goes through the files in their order. *)
LEMMA ExportIs ==
  ASSUME RecInv, bars \in Bars
  PROVE  \E f \in [0..Len(Files) -> ExportState] :
           /\ Exported = f[Len(Files)] /\ f[0] = [state |-> << >>, bars |-> bars]
           /\ \A i \in 1..Len(Files) : f[i] = ExportFile(f[i - 1], Files[i])
<1> DEFINE n == Len(Files)
           c == [state |-> << >>, bars |-> bars]
           Is(f) == f = [i \in 0..n |-> IF i = 0 THEN c ELSE ExportFile(f[i - 1], Files[i])]
           step == [i \in 1..n |-> [a \in ExportState |-> ExportFile(a, Files[i])]]
<1>1. n \in Nat /\ \A i \in 1..n : Files[i] \in DOMAIN disk
  BY FilesAreNames DEF Listing
<1>2. c \in ExportState
  BY DEF ExportState
<1>3. \A i \in 1..n : \A a \in ExportState : ExportFile(a, Files[i]) \in ExportState
  BY <1>1, ExportFileIs
<1>4. step \in [1..n -> [ExportState -> ExportState]]
  BY <1>3
<1>5. \A i \in 1..n : \A a \in ExportState : step[i][a] = ExportFile(a, Files[i])
  OBVIOUS
<1> HIDE DEF n, c, step
<1>6. PICK f : Iteration(f, ExportState, c, n, step)
  BY <1>1, <1>2, <1>4, Iterates
<1>7. f \in [0..n -> ExportState] /\ f[0] = c /\ \A i \in 1..n : f[i] = step[i][f[i - 1]]
  BY <1>6 DEF Iteration
<1>8. ASSUME NEW i \in 1..n PROVE f[i] = ExportFile(f[i - 1], Files[i])
  <2>1. i - 1 \in 0..n
    BY <1>1
  <2>2. f[i - 1] \in ExportState
    BY <1>7, <2>1
  <2> QED
    BY <1>5, <1>7, <2>2
<1>9. Is(f)
  <2>1. \A i \in 0..n : f[i] = IF i = 0 THEN c ELSE ExportFile(f[i - 1], Files[i])
    <3> TAKE i \in 0..n
    <3>1. CASE i = 0
      BY <1>7, <3>1
    <3>2. CASE i # 0
      <4>1. i \in 1..n
        BY <1>1, <3>2
      <4> QED
        BY <1>8, <3>2, <4>1
    <3> QED
      BY <3>1, <3>2
  <2>2. f = [i \in 0..n |-> f[i]]
    BY <1>7
  <2> QED
    BY <2>1, <2>2
<1>10. ASSUME NEW g, Is(g) PROVE g[n] = f[n]
  <2>1. g[0] = c
    BY <1>1, <1>10
  <2>2. ASSUME NEW i \in 1..n PROVE g[i] = ExportFile(g[i - 1], Files[i])
    <3>1. i \in 0..n /\ i # 0
      BY <1>1
    <3> QED
      BY <1>10, <3>1
  <2> DEFINE T == {k \in Nat : k <= n => g[k] = f[k]}
  <2>3. 0 \in T
    BY <1>7, <2>1
  <2>4. ASSUME NEW k \in T PROVE k + 1 \in T
    <3> SUFFICES ASSUME k + 1 <= n PROVE g[k + 1] = f[k + 1]
      OBVIOUS
    <3>1. k + 1 \in 1..n /\ (k + 1) - 1 = k /\ g[k] = f[k]
      BY <1>1, <2>4
    <3>2. g[k + 1] = ExportFile(g[k], Files[k + 1])
      BY <2>2, <3>1
    <3>3. f[k + 1] = ExportFile(f[k], Files[k + 1])
      BY <1>8, <3>1
    <3> QED
      BY <3>1, <3>2, <3>3
  <2>5. T = Nat
    <3>1. T \in SUBSET Nat
      OBVIOUS
    <3> HIDE DEF T
    <3> QED
      BY <2>3, <2>4, <3>1, Induct
  <2>6. n \in T
    BY <1>1, <2>5
  <2> QED
    BY <1>1, <2>6
<1>11. Exported = (CHOOSE g : Is(g))[n]
  BY Zenon DEF Exported, n, c
<1>12. Exported = f[n]
  <2> HIDE DEF Is
  <2>1. Is(CHOOSE g : Is(g))
    BY <1>9, Zenon
  <2>2. (CHOOSE g : Is(g))[n] = f[n]
    BY <1>10, <2>1
  <2> QED
    BY <1>11, <2>2
<1> QED
  BY <1>7, <1>8, <1>12 DEF n, c

-----------------------------------------------------------------------------
(* The invariant, and what it says of the readers. *)
ReadersTyped ==
  /\ ConsoleTyped /\ exports \in 0..MaxExports /\ exported \in Seq(Event)
  /\ bars \in Bars
ReadersInv == ReadersTyped /\ ReaderInv /\ (beside = "console" /\ Running => writer)

LEMMA InitReaders == SysInit => OfLives /\ ReadersInv
<1> SUFFICES ASSUME SysInit PROVE OfLives /\ ReadersInv
  OBVIOUS
<1>1. /\ DOMAIN disk = {} /\ cur = NoFile /\ life = 0 /\ dropped = {} /\ crashes = 0
  BY DEF SysInit, RecInit
<1>2. /\ cons = "off" /\ done = {} /\ pend = << >> /\ known = {} /\ at = NoReader
      /\ view = << >> /\ cache = NoCache /\ old = {} /\ starts = 0
      /\ exports = 0 /\ bars = [f \in {} |-> << >>] /\ exported = << >>
  BY DEF SysInit, ReadersInit
<1>3. OfLives
  BY <1>1 DEF OfLives, OneLife, OpenLife
<1>4. cache.view = << >> /\ cache \in [after : Name \cup {NoFile}, view : Seq(Event)]
  BY <1>2 DEF NoCache
<1>5. bars \in Bars
  <2>1. DOMAIN bars = {} /\ bars = [f \in DOMAIN bars |-> bars[f]]
    BY <1>2
  <2> QED
    BY <2>1, BarsIs
<1>6. ReadersTyped
  BY <1>2, <1>4, <1>5, NoReaderIs, ReadersAssumption DEF ReadersTyped, ConsoleTyped
<1>7. Shape /\ Place /\ Shown
  BY <1>1, <1>2, <1>4, NoReaderIs, NothingShown DEF Shape, Place, Shown
<1>8. Marked /\ InTurn
  BY <1>1, <1>2, <1>4, NoReaderIs, NothingShown DEF Marked, InTurn
<1>9. AllRead /\ InSequence
  BY <1>1, <1>2, <1>4, NoReaderIs, NothingShown DEF AllRead, LeftRead, PlaceRead, CacheRead, PendRead, InSequence
<1>10. ReaderInv
  BY <1>1, <1>2, <1>7, <1>8, <1>9 DEF ReaderInv, ConsoleInv
<1>11. ~Running
  BY DEF SysInit, RecInit, Running
<1> QED
  BY <1>3, <1>6, <1>10, <1>11 DEF ReadersInv

LEMMA ReadersStep ==
  ASSUME RecInv, RecInv', ReplayInv, OfLives, ReadersInv, [SysNext]_sysVars
  PROVE  ReadersInv'
<1>1. OfLives' /\ Grows
  BY LivesStep
<1>2. /\ ConsoleTyped /\ ReaderInv /\ exports \in 0..MaxExports /\ exported \in Seq(Event) /\ bars \in Bars
      /\ beside = "console" /\ Running => writer
  BY DEF ReadersInv, ReadersTyped
<1>3. ASSUME UNCHANGED <<consVars, beside>>, beside = "console" => dropped' = {}
      PROVE  ConsoleTyped' /\ ReaderInv'
  <2>1. ConsoleTyped'
    BY <1>2, <1>3 DEF ConsoleTyped, consVars
  <2>2. ASSUME beside = "console" PROVE ReaderInv'
    <3>1. ConsoleInv /\ ConsoleTyped /\ UNCHANGED consVars /\ dropped' = {} /\ beside' = "console"
      BY <1>2, <1>3, <2>2 DEF ReaderInv
    <3>2. ConsoleInv'
      BY <1>1, <3>1, TurnKeeps
    <3> QED
      BY <3>1, <3>2 DEF ReaderInv
  <2>3. ASSUME beside # "console" PROVE ReaderInv'
    <3>1. UNCHANGED consVars /\ beside' = beside
      BY <1>3
    <3> QED
      BY <1>2, <2>3, <3>1 DEF ReaderInv, consVars
  <2> QED
    BY <2>1, <2>2, <2>3
<1>4. CASE beside = "store" /\ WithStore /\ Bounded /\ UNCHANGED <<consVars, exportVars, beside>>
  BY <1>2, <1>3, <1>4 DEF ReadersInv, ReadersTyped, exportVars
<1>5. CASE /\ beside # "store" /\ RecNext /\ (Bounded \/ beside = "nothing")
           /\ UNCHANGED <<consVars, exportVars, storeVars, beside>>
  <2>1. beside' = beside /\ (beside = "console" /\ Running' => writer')
    BY <1>5 DEF Bounded, Running
  <2> QED
    BY <1>2, <1>3, <1>5, <2>1 DEF ReadersInv, ReadersTyped, exportVars, Bounded
<1>6. CASE beside = "console" /\ ConsoleNext /\ UNCHANGED <<recVars, exportVars, storeVars, beside>>
  <2>1. ConsoleInv /\ UNCHANGED recVars /\ (Running => writer) /\ (Running' => writer')
    BY <1>2, <1>6 DEF ReaderInv, recVars, Running
  <2>2. ASSUME ConsoleStart PROVE ConsoleTyped' /\ ConsoleInv'
    BY <1>2, <2>1, <2>2, StartIs, StartNewKeeps, StartFromKeeps
  <2>3. ConsoleTyped' /\ ConsoleInv'
    BY <1>2, <1>6, <2>1, <2>2, HistoryStepKeeps, HistoryDoneKeeps, PassKeeps, AskKeeps, ConsoleStopKeeps
       DEF ConsoleNext, ConsoleStep
  <2> QED
    BY <1>2, <1>6, <2>1, <2>3 DEF ReadersInv, ReadersTyped, ReaderInv, exportVars
<1>7. CASE beside = "export" /\ Export /\ UNCHANGED <<recVars, consVars, storeVars, beside>>
  <2>1. Exported \in ExportState
    <3>1. PICK f \in [0..Len(Files) -> ExportState] : Exported = f[Len(Files)]
      BY <1>2, ExportIs
    <3>2. Len(Files) \in 0..Len(Files)
      BY FilesAreNames
    <3> QED
      BY <3>1, <3>2
  <2>2. exported' \in Seq(Event) /\ bars' \in Bars
    BY <1>7, <2>1 DEF Export, ExportState
  <2>3. exports' \in 0..MaxExports
    BY <1>2, <1>7, ReadersAssumption DEF Export
  <2>4. beside' # "console"
    BY <1>7
  <2> QED
    BY <1>2, <1>3, <1>7, <2>2, <2>3, <2>4 DEF ReadersInv, ReadersTyped
<1>8. CASE UNCHANGED sysVars
  <2>1. UNCHANGED <<consVars, beside, exports, exported, bars, dropped, proc, writer>>
    BY <1>8 DEF sysVars, exportVars, recVars
  <2>2. beside = "console" => dropped = {}
    BY <1>2 DEF ReaderInv, ConsoleInv
  <2> QED
    BY <1>2, <1>3, <2>1, <2>2 DEF ReadersInv, ReadersTyped, Running
<1> QED
  BY <1>4, <1>5, <1>6, <1>7, <1>8 DEF SysNext

LEMMA ReadersInvIs ==
  ASSUME RecInv, ReadersInv
  PROVE  ReadersExact
<1>1. ConsoleTyped /\ ReaderInv /\ exports \in 0..MaxExports /\ exported \in Seq(Event) /\ bars \in Bars
  BY DEF ReadersInv, ReadersTyped
<1>2. ReadersTypeOK
  BY <1>1, BarsIs DEF ReadersTypeOK, ConsoleTyped
<1>3. view \in Seq(Event) /\ DOMAIN view = 1..Len(view)
  BY <1>1 DEF ConsoleTyped
<1>4. SeenOnce
  <2> SUFFICES ASSUME view # << >>, NamesFollowNumbers, dropped = {}
               PROVE  \A i, j \in DOMAIN view : i # j => view[i] # view[j]
    BY DEF SeenOnce
  <2>1. Marked
    BY <1>1 DEF ReaderInv, ConsoleInv, Sane
  <2> QED
    BY <1>3, <2>1 DEF Marked, Once
<1>5. NothingSkipped
  <2> SUFFICES ASSUME cons # "off", crashes = 0, NamesFollowNumbers, NEW f \in done \ old
               PROVE  Names(disk[f].lines) \subseteq Names(view)
    BY DEF NothingSkipped
  <2>1. AllRead /\ Shape
    BY <1>1 DEF ReaderInv, ConsoleInv, Sane
  <2>2. Covers(f, view) /\ f \in DOMAIN disk
    BY <2>1 DEF AllRead, LeftRead, Shape
  <2>3. disk[f].lines \in Seq(Event) /\ DOMAIN disk[f].lines = 1..Len(disk[f].lines)
    BY <2>2, Sequences DEF RecInv
  <2> QED
    BY <1>3, <2>2, <2>3 DEF Covers, In, Names
<1>6. SeenInOrder
  <2> SUFFICES ASSUME crashes = 0, NamesFollowNumbers, old = {}
               PROVE  \A i, j \in DOMAIN view : i < j => view[i].q < view[j].q
    BY DEF SeenInOrder
  <2>1. CASE beside = "console"
    <3>1. InSequence
      BY <1>1, <2>1 DEF ReaderInv, ConsoleInv, Sane
    <3> QED
      BY <1>3, <3>1 DEF InSequence, Climbs
  <2>2. CASE beside # "console"
    BY <1>1, <1>3, <2>2 DEF ReaderInv
  <2> QED
    BY <2>1, <2>2
<1> QED
  BY <1>2, <1>4, <1>5, <1>6 DEF ReadersExact

(* A console shows no event twice, over its checkpoints, its restarts and  *)
(* those of the recorder, crashes and files written again; without a crash *)
(* it has shown every line of a file it leaves behind, and shows them in   *)
(* the order of their numbers.                                             *)
THEOREM ReadersAreExact == SysSpec => []ReadersExact
<1>1. SysInit => RecInv /\ ReplayInv /\ OfLives /\ ReadersInv
  BY InitRec, InitReplay, InitReaders DEF SysInit
<1>2. RecInv /\ ReplayInv /\ OfLives /\ ReadersInv /\ [SysNext]_sysVars
        => (RecInv /\ ReplayInv /\ OfLives /\ ReadersInv)'
  BY RecStep, ReplayStep, LivesStep, ReadersStep
<1>3. RecInv /\ ReplayInv /\ OfLives /\ ReadersInv => ReadersExact
  BY ReadersInvIs
<1> QED
  BY <1>1, <1>2, <1>3, SysSteps, PTL

-----------------------------------------------------------------------------
(* What the cache of an export holds is a beginning of the recording. *)
Played(f, files, d, n) ==
  /\ f \in [0..n -> Seq(Event)] /\ f[0] = << >>
  /\ \A i \in 1..n : f[i] = f[i - 1] \o d[files[i]].lines
LinesPlayed ==
  \A i \in 0..Len(Files) : \E f : Played(f, Files, disk, i) /\ LinesOf(Files, i) = f[i]

LEMMA PlayedIs == RecInv => LinesPlayed
<1> SUFFICES ASSUME RecInv, NEW i \in 0..Len(Files)
             PROVE  \E f : Played(f, Files, disk, i) /\ LinesOf(Files, i) = f[i]
  BY DEF LinesPlayed
<1>1. TypeOK /\ Listing(Files)
  BY FilesAreNames DEF RecInv
<1>2. PICK f \in [0..i -> Seq(Event)] :
        /\ LinesOf(Files, i) = f[i] /\ f[0] = << >>
        /\ \A k \in 1..i : f[k] = f[k - 1] \o disk[Files[k]].lines
  BY <1>1, LinesAre
<1> QED
  BY <1>2 DEF Played

LEMMA PlayedIsNext == RecInv' => LinesPlayed'
BY PlayedIs, PTL

(* Two plays of the same lines read the same. *)
LEMMA SamePlay ==
  ASSUME NEW n \in Nat, NEW m \in Nat, n <= m, NEW s, NEW t, NEW d, NEW e, NEW f, NEW g,
         Played(f, s, d, n), Played(g, t, e, m),
         \A i \in 1..n : d[s[i]].lines = e[t[i]].lines
  PROVE  f[n] = g[n]
<1> DEFINE T == {k \in Nat : k <= n => f[k] = g[k]}
<1>1. 0 \in T
  BY DEF Played
<1>2. ASSUME NEW k \in T PROVE k + 1 \in T
  <2> SUFFICES ASSUME k + 1 <= n PROVE f[k + 1] = g[k + 1]
    OBVIOUS
  <2>1. k + 1 \in 1..n /\ k + 1 \in 1..m /\ (k + 1) - 1 = k /\ f[k] = g[k]
    BY <1>2
  <2>2. f[k + 1] = f[k] \o d[s[k + 1]].lines
    BY <2>1 DEF Played
  <2>3. g[k + 1] = g[k] \o e[t[k + 1]].lines
    BY <2>1 DEF Played
  <2> QED
    BY <2>1, <2>2, <2>3
<1>3. T = Nat
  <2>1. T \in SUBSET Nat
    OBVIOUS
  <2> HIDE DEF T
  <2> QED
    BY <1>1, <1>2, <2>1, Induct
<1>4. n \in T
  BY <1>3
<1> QED
  BY <1>4

LEMMA LinesStart == RecInv => LinesOf(Files, 0) = << >>
<1> SUFFICES ASSUME RecInv PROVE LinesOf(Files, 0) = << >>
  OBVIOUS
<1>1. 0 \in 0..Len(Files)
  BY FilesAreNames
<1>2. PICK f : Played(f, Files, disk, 0) /\ LinesOf(Files, 0) = f[0]
  BY <1>1, PlayedIs DEF LinesPlayed
<1> QED
  BY <1>2 DEF Played

LEMMA LinesGoOn ==
  ASSUME RecInv, NEW i \in 1..Len(Files)
  PROVE  LinesOf(Files, i) = LinesOf(Files, i - 1) \o disk[Files[i]].lines
<1>1. i \in Nat /\ i - 1 \in Nat /\ i - 1 <= i /\ i \in 0..Len(Files) /\ i - 1 \in 0..Len(Files) /\ i \in 1..i
  BY FilesAreNames
<1> DEFINE h == i - 1
<1> HIDE DEF h
<1>2. PICK f : Played(f, Files, disk, h) /\ LinesOf(Files, h) = f[h]
  BY <1>1, PlayedIs DEF LinesPlayed, h
<1>3. PICK g : Played(g, Files, disk, i) /\ LinesOf(Files, i) = g[i]
  BY <1>1, PlayedIs DEF LinesPlayed
<1>4. f[h] = g[h]
  <2>1. h \in Nat /\ i \in Nat /\ h <= i
    BY <1>1 DEF h
  <2> QED
    BY <1>2, <1>3, <2>1, SamePlay
<1>5. g[i] = g[h] \o disk[Files[i]].lines
  BY <1>1, <1>3 DEF Played, h
<1> QED
  BY <1>2, <1>3, <1>4, <1>5 DEF h

(* A list goes on when what comes to it is behind it. *)
Lists(s, D) ==
  /\ Len(s) \in Nat /\ \A i \in 1..Len(s) : s[i] \in D
  /\ \A f \in D : \E i \in 1..Len(s) : s[i] = f
  /\ \A i, j \in 1..Len(s) : i < j => NameBefore(s[i], s[j])

LEMMA ListGoesOn ==
  ASSUME NEW D, NEW E, D \subseteq E, E \subseteq Name,
         \A f \in E \ D, g \in D : NameBefore(g, f),
         NEW s, NEW t, Lists(s, D), Lists(t, E)
  PROVE  \A i \in 1..Len(s) : i \in 1..Len(t) /\ t[i] = s[i]
<1> DEFINE Same(k) == k \in 1..Len(t) /\ t[k] = s[k]
           T == {k \in Nat : k <= Len(s) => \A i \in 1..k : Same(i)}
<1>0. Len(s) \in Nat /\ Len(t) \in Nat
  BY DEF Lists
<1>1. 0 \in T
  BY <1>0
<1>2. ASSUME NEW k \in T PROVE k + 1 \in T
  <2> SUFFICES ASSUME k + 1 <= Len(s) PROVE Same(k + 1)
    <3>1. \A i \in 1..(k + 1) : i \in 1..k \/ i = k + 1
      OBVIOUS
    <3>2. k + 1 <= Len(s) => \A i \in 1..k : Same(i)
      BY <1>0, <1>2
    <3> HIDE DEF Same
    <3> QED
      BY <3>1, <3>2
  <2>1. k \in Nat /\ k + 1 \in 1..Len(s) /\ \A i \in 1..k : Same(i) /\ i \in 1..Len(s) /\ i < k + 1
    BY <1>0, <1>2
  <2> DEFINE n == k + 1
  <2>2. n \in 1..Len(s) /\ n \in Nat /\ \A i \in Nat : i < n <=> i <= k
    BY <2>1
  <2> HIDE DEF n
  <2>3. s[n] \in D /\ s[n] \in E /\ s[n] \in Name
    BY <2>2 DEF Lists
  <2>4. PICK j \in 1..Len(t) : t[j] = s[n]
    BY <2>3 DEF Lists
  <2>5. ASSUME j \in 1..k PROVE FALSE
    <3>1. t[j] = s[j] /\ j \in 1..Len(s) /\ j < n
      BY <2>1, <2>5 DEF n
    <3>2. NameBefore(s[j], s[n])
      BY <2>2, <3>1 DEF Lists
    <3> QED
      BY <2>3, <2>4, <3>1, <3>2, NamesAreOrdered
  <2>6. n <= j /\ n \in 1..Len(t)
    BY <1>0, <2>1, <2>2, <2>4, <2>5 DEF n
  <2>7. ASSUME n < j PROVE FALSE
    <3>1. t[n] \in E /\ t[n] \in Name /\ NameBefore(t[n], s[n])
      BY <2>4, <2>6, <2>7 DEF Lists
    <3>2. t[n] \in D
      BY <2>3, <3>1, NamesAreOrdered
    <3>3. PICK l \in 1..Len(s) : s[l] = t[n]
      BY <3>2 DEF Lists
    <3>4. ~(n < l) /\ n # l
      <4>1. n < l => NameBefore(s[n], s[l])
        BY <2>2 DEF Lists
      <4> QED
        BY <2>3, <3>1, <3>3, <4>1, NamesAreOrdered
    <3>5. l < n /\ l \in 1..k
      BY <1>0, <2>1, <2>2, <3>4
    <3>6. t[l] = s[l] /\ l \in 1..Len(t)
      BY <2>1, <3>5
    <3>7. NameBefore(t[l], t[n])
      BY <2>6, <3>5, <3>6 DEF Lists
    <3> QED
      BY <3>1, <3>3, <3>6, <3>7, NamesAreOrdered
  <2>8. n = j
    BY <1>0, <2>2, <2>6, <2>7
  <2> QED
    BY <2>4, <2>6, <2>8 DEF n
<1>3. T = Nat
  <2>1. T \in SUBSET Nat
    OBVIOUS
  <2> HIDE DEF T
  <2> QED
    BY <1>1, <1>2, <2>1, Induct
<1>4. Len(s) \in T /\ Len(s) <= Len(s)
  BY <1>0, <1>3
<1> QED
  BY <1>4

-----------------------------------------------------------------------------
(* A cached file has its line, and the state behind it. *)
HoldsUpTo(b, f, i) == Files[i] = f /\ b[f] = LinesOf(Files, i)
Cached(b) ==
  \A f \in DOMAIN b : f \in Closed /\ \E i \in 1..Len(Files) : HoldsUpTo(b, f, i)
ExportInv ==
  /\ beside = "export" => dropped = {} /\ (Sane => Cached(bars))
  /\ beside # "export" => DOMAIN bars = {}

LEMMA ListingIs == RecInv => Listing(Files)
BY FilesAreNames

LEMMA ListingNext == RecInv' => Listing(Files)'
BY ListingIs, PTL

(* The files that are there keep their places. *)
LEMMA PlacesStay ==
  ASSUME RecInv, RecInv', Grows, Sane'
  PROVE  \A i \in 1..Len(Files) : i \in 1..Len(Files') /\ Files'[i] = Files[i]
<1>1. Lists(Files, DOMAIN disk)
  BY FilesAreNames DEF Listing, Lists
<1>2. Lists(Files', DOMAIN disk')
  <2>1. Listing(Files)'
    BY ListingNext
  <2> QED
    BY <2>1 DEF Listing, Lists
<1>3. /\ DOMAIN disk \subseteq DOMAIN disk' /\ DOMAIN disk' \subseteq Name
      /\ \A f \in DOMAIN disk' \ DOMAIN disk, g \in DOMAIN disk : NameBefore(g, f)
  BY TypesNext DEF Grows, DiskTyped
<1> QED
  BY <1>1, <1>2, <1>3, ListGoesOn

LEMMA CachedStays ==
  ASSUME RecInv, RecInv', Grows, Sane', NEW b, Cached(b)
  PROVE  Cached(b)'
<1> SUFFICES ASSUME NEW f \in DOMAIN b
             PROVE  f \in Closed' /\ \E i \in 1..Len(Files') : HoldsUpTo(b, f, i)'
  BY DEF Cached
<1>1. f \in Closed /\ f \in DOMAIN disk /\ disk[f].whole /\ Closed \subseteq Closed'
  BY ClosedExist DEF Cached, Grows
<1>2. PICK i \in 1..Len(Files) : Files[i] = f /\ b[f] = LinesOf(Files, i)
  BY DEF Cached, HoldsUpTo
<1>3. f \in DOMAIN disk' /\ disk'[f] = disk[f]
  BY <1>1 DEF Grows, GoesOn, Cut
<1>4. /\ Listing(Files) /\ Len(Files) \in Nat
  BY FilesAreNames
<1>5. \A k \in 1..i : k \in 1..Len(Files) /\ k \in 1..Len(Files') /\ Files'[k] = Files[k]
  BY <1>4, PlacesStay
<1>6. ASSUME NEW k \in 1..i PROVE disk[Files[k]].lines = disk'[Files'[k]].lines
  <2>1. k \in 1..Len(Files) /\ Files'[k] = Files[k]
    BY <1>5
  <2>2. CASE k = i
    BY <1>2, <1>3, <2>1, <2>2
  <2>3. CASE k # i
    <3>1. k < i
      BY <2>3
    <3>2. Files[k] \in DOMAIN disk /\ NameBefore(Files[k], f)
      BY <1>2, <1>4, <2>1, <3>1 DEF Listing
    <3>3. ~LastOnDisk(Files[k])
      BY <1>1, <3>2 DEF LastOnDisk
    <3>4. disk'[Files[k]] = disk[Files[k]]
      BY <3>2, <3>3 DEF Grows
    <3> QED
      BY <2>1, <3>4
  <2> QED
    BY <2>2, <2>3
<1>7. i \in Nat /\ i <= i /\ i \in 0..Len(Files) /\ i \in 1..i
  BY <1>4
<1>8. i \in 1..Len(Files') /\ Files'[i] = f
  BY <1>2, <1>5, <1>7
<1>9. LinesOf(Files, i)' = LinesOf(Files, i)
  <2>1. PICK p : Played(p, Files, disk, i) /\ LinesOf(Files, i) = p[i]
    BY <1>7, PlayedIs DEF LinesPlayed
  <2>2. PICK q : Played(q, Files', disk', i) /\ LinesOf(Files, i)' = q[i]
    <3>1. LinesPlayed'
      BY PlayedIsNext
    <3>2. i \in 0..Len(Files')
      BY <1>8
    <3> QED
      BY <3>1, <3>2 DEF LinesPlayed, Played
  <2>3. p[i] = q[i]
    BY <1>6, <1>7, <2>1, <2>2, SamePlay
  <2> QED
    BY <2>1, <2>2, <2>3
<1>10. HoldsUpTo(b, f, i)'
  BY <1>2, <1>8, <1>9 DEF HoldsUpTo
<1> QED
  BY <1>3, <1>1, <1>8, <1>10

(* One file of an export. *)
LEMMA ExportFileExact ==
  ASSUME RecInv, NEW acc \in ExportState, NEW i \in 1..Len(Files),
         acc.state = LinesOf(Files, i - 1), Cached(acc.bars)
  PROVE  /\ ExportFile(acc, Files[i]).state = LinesOf(Files, i)
         /\ Cached(ExportFile(acc, Files[i]).bars)
<1> DEFINE f == Files[i]
           r == ExportFile(acc, f)
<1>1. /\ Listing(Files) /\ f \in DOMAIN disk /\ f \in Name
  BY FilesAreNames, Types DEF Listing, DiskTyped
<1>2. \A k \in 1..Len(Files) : Files[k] = f => k = i
  <2> TAKE k \in 1..Len(Files)
  <2> HAVE Files[k] = f
  <2>1. k < i => NameBefore(f, f)
    BY <1>1 DEF Listing
  <2>2. i < k => NameBefore(f, f)
    BY <1>1 DEF Listing
  <2>3. ~NameBefore(f, f)
    BY <1>1, NamesAreOrdered
  <2> QED
    BY <2>1, <2>2, <2>3
<1>3. LinesOf(Files, i) = acc.state \o disk[f].lines
  BY LinesGoOn
<1>4. acc = [state |-> acc.state, bars |-> acc.bars] /\ acc.bars \in Bars
  BY DEF ExportState
<1> HIDE DEF f
<1>5. CASE f \in DOMAIN acc.bars
  <2>1. r = [state |-> acc.bars[f], bars |-> acc.bars]
    BY <1>4, <1>5 DEF ExportFile
  <2>2. PICK k \in 1..Len(Files) : Files[k] = f /\ acc.bars[f] = LinesOf(Files, k)
    BY <1>5 DEF Cached, HoldsUpTo
  <2>3. r.state = LinesOf(Files, i) /\ r.bars = acc.bars
    BY <1>2, <2>1, <2>2
  <2> QED
    BY <2>3 DEF f
<1>6. CASE f \notin DOMAIN acc.bars
  <2> DEFINE s == acc.state \o disk[f].lines
             b == Put(acc.bars, f, s)
             c == IF f \in Closed /\ disk[f].whole THEN b ELSE acc.bars
  <2>1. r = [state |-> s, bars |-> c]
    BY <1>6 DEF ExportFile
  <2> HIDE DEF s
  <2>2. DOMAIN b = DOMAIN acc.bars \cup {f}
    BY DEF Put
  <2>3. \A g \in DOMAIN acc.bars \cup {f} : b[g] = IF g = f THEN s ELSE acc.bars[g]
    BY Zenon DEF Put
  <2>4. s = LinesOf(Files, i)
    BY <1>3 DEF s
  <2> HIDE DEF b
  <2>5. ASSUME f \in Closed PROVE Cached(b)
    <3>1. ASSUME NEW g \in DOMAIN b
          PROVE  g \in Closed /\ \E k \in 1..Len(Files) : HoldsUpTo(b, g, k)
      <4>1. CASE g = f
        <5>1. b[g] = LinesOf(Files, i) /\ Files[i] = g
          BY <2>3, <2>4, <4>1 DEF f
        <5>2. HoldsUpTo(b, g, i)
          BY <5>1 DEF HoldsUpTo
        <5> QED
          BY <1>1, <2>5, <4>1, <5>2
      <4>2. CASE g # f
        <5>1. g \in DOMAIN acc.bars /\ b[g] = acc.bars[g]
          BY <2>2, <2>3, <3>1, <4>2
        <5>2. g \in Closed
          BY <5>1 DEF Cached
        <5>3. PICK k \in 1..Len(Files) : HoldsUpTo(acc.bars, g, k)
          BY <5>1 DEF Cached
        <5>4. HoldsUpTo(b, g, k)
          BY <5>1, <5>3 DEF HoldsUpTo
        <5> QED
          BY <5>2, <5>4
      <4> QED
        BY <4>1, <4>2
    <3> QED
      BY <3>1 DEF Cached
  <2>6. Cached(c)
    BY <2>5
  <2>7. r.state = s /\ r.bars = c
    BY <2>1
  <2> QED
    BY <2>4, <2>6, <2>7 DEF f
<1> QED
  BY <1>5, <1>6

(* An export, from whatever is cached. *)
LEMMA ExportExact ==
  ASSUME RecInv, bars \in Bars, Cached(bars)
  PROVE  Exported.state = AllLines /\ Cached(Exported.bars)
<1> DEFINE n == Len(Files)
<1>1. n \in Nat
  BY FilesAreNames
<1>2. PICK e \in [0..n -> ExportState] :
        /\ Exported = e[n] /\ e[0] = [state |-> << >>, bars |-> bars]
        /\ \A i \in 1..n : e[i] = ExportFile(e[i - 1], Files[i])
  BY ExportIs
<1> DEFINE Right(k) == e[k].state = LinesOf(Files, k) /\ Cached(e[k].bars)
           T == {k \in Nat : k <= n => Right(k)}
<1>3. 0 \in T
  <2>1. e[0].state = << >> /\ e[0].bars = bars
    BY <1>2
  <2>2. Right(0)
    BY <2>1, LinesStart
  <2> QED
    BY <2>2
<1>4. ASSUME NEW k \in T PROVE k + 1 \in T
  <2> SUFFICES ASSUME k + 1 <= n PROVE Right(k + 1)
    OBVIOUS
  <2>1. k \in Nat /\ k \in 0..n /\ k + 1 \in 1..n /\ (k + 1) - 1 = k /\ Right(k)
    BY <1>1, <1>4
  <2>2. e[k] \in ExportState /\ e[k + 1] = ExportFile(e[k], Files[k + 1])
    BY <1>2, <2>1
  <2> QED
    BY <2>1, <2>2, ExportFileExact
<1>5. T = Nat
  <2>1. T \in SUBSET Nat
    OBVIOUS
  <2> HIDE DEF T
  <2> QED
    BY <1>3, <1>4, <2>1, Induct
<1>6. Right(n)
  <2>1. n \in T /\ n <= n
    BY <1>1, <1>5
  <2> HIDE DEF Right, n
  <2> QED
    BY <2>1
<1> QED
  BY <1>2, <1>6 DEF AllLines

LEMMA InitExport == SysInit => ExportInv
<1> SUFFICES ASSUME SysInit PROVE ExportInv
  OBVIOUS
<1>1. dropped = {} /\ DOMAIN bars = {}
  BY DEF SysInit, RecInit, ReadersInit
<1> QED
  BY <1>1 DEF ExportInv, Cached

LEMMA ExportStep ==
  ASSUME RecInv, RecInv', ReplayInv, OfLives, ReadersInv, ExportInv, [SysNext]_sysVars
  PROVE  /\ ExportInv'
         /\ exports' # exports /\ NamesFollowNumbers => exported' = AllLines
<1>1. Grows /\ bars \in Bars
  BY LivesStep DEF ReadersInv, ReadersTyped
<1>2. ASSUME UNCHANGED <<exportVars, beside>>, beside = "export" => dropped' = {}
      PROVE  ExportInv' /\ exports' = exports
  <2>1. bars' = bars /\ exports' = exports /\ beside' = beside
    BY <1>2 DEF exportVars
  <2>2. ASSUME beside = "export", Sane' PROVE Cached(bars)'
    <3>1. Sane
      BY <1>1, <2>2, SaneStays DEF Grows
    <3>2. Cached(bars)
      BY <2>2, <3>1 DEF ExportInv
    <3>3. \A b : Cached(b) => Cached(b)'
      BY <1>1, <2>2, CachedStays
    <3>4. PICK b : b = bars
      OBVIOUS
    <3>5. Cached(b)'
      BY <3>2, <3>3, <3>4
    <3> QED
      BY <2>1, <3>4, <3>5 DEF Cached, HoldsUpTo
  <2> QED
    BY <1>2, <2>1, <2>2 DEF ExportInv
<1>3. CASE beside = "export" /\ Export /\ UNCHANGED <<recVars, consVars, storeVars, beside>>
  <2>1. /\ exported' = Exported.state /\ bars' = Exported.bars /\ UNCHANGED recVars
        /\ beside' = "export" /\ dropped' = {}
    BY <1>3, FrozenIs DEF Export, ExportInv
  <2>2. ASSUME NamesFollowNumbers PROVE exported' = AllLines /\ Cached(bars')
    <3>1. Sane
      BY <1>3, <2>2 DEF Sane, ExportInv
    <3> QED
      BY <1>1, <1>3, <2>1, <3>1, ExportExact DEF ExportInv
  <2>3. ASSUME Sane' PROVE Cached(bars)'
    <3>1. Sane
      BY <2>1, <2>3, FrozenIs
    <3>2. Cached(bars')
      BY <2>2, <3>1 DEF Sane
    <3>3. \A b : Cached(b) => Cached(b)'
      BY <1>1, <2>3, CachedStays
    <3>4. PICK b : b = bars'
      OBVIOUS
    <3>5. Cached(b)'
      BY <3>2, <3>3, <3>4
    <3> QED
      BY <3>4, <3>5 DEF Cached, HoldsUpTo
  <2>4. ExportInv'
    BY <2>1, <2>3 DEF ExportInv
  <2> QED
    BY <2>2, <2>4
<1>4. CASE /\ beside # "store" /\ RecNext /\ (Bounded \/ beside = "nothing")
           /\ UNCHANGED <<consVars, exportVars, storeVars, beside>>
  BY <1>2, <1>4 DEF Bounded
<1>5. CASE beside = "store" /\ WithStore /\ Bounded /\ UNCHANGED <<consVars, exportVars, beside>>
  BY <1>2, <1>5 DEF Bounded
<1>6. CASE beside = "console" /\ ConsoleNext /\ UNCHANGED <<recVars, exportVars, storeVars, beside>>
  BY <1>2, <1>6
<1>7. CASE UNCHANGED sysVars
  <2>1. UNCHANGED <<exportVars, beside, dropped>>
    BY <1>7 DEF sysVars, recVars
  <2>2. beside = "export" => dropped' = {}
    BY <2>1 DEF ExportInv
  <2> QED
    BY <1>2, <2>1, <2>2
<1> QED
  BY <1>3, <1>4, <1>5, <1>6, <1>7 DEF SysNext

(* An export of bars that takes files from its cache has gone through the  *)
(* lines that one from scratch goes through, whatever was recorded, closed *)
(* or crashed between two exports.                                         *)
THEOREM ExportsAreExact == SysSpec => ExportFromScratch
<1> DEFINE J == RecInv /\ ReplayInv /\ OfLives /\ ReadersInv /\ ExportInv
<1>1. SysInit => J
  BY InitRec, InitReplay, InitReaders, InitExport DEF SysInit
<1>2. J /\ [SysNext]_sysVars => J'
  BY RecStep, ReplayStep, LivesStep, ReadersStep, ExportStep
<1>3. J /\ [SysNext]_sysVars
        => [exports' # exports /\ NamesFollowNumbers => exported' = AllLines]_<<exportVars, recVars>>
  BY RecStep, ExportStep
<1> HIDE DEF J
<1> QED
  BY <1>1, <1>2, <1>3, SysSteps, PTL DEF ExportFromScratch
=============================================================================
