----------------------------- MODULE Recording -----------------------------
(***************************************************************************)
(* The recording a trader's life is replayed from: the single ordering     *)
(* point (Recorder.emit, Sequencer), the bounded queue behind it, the      *)
(* writer task, the rotating gzip files with their manifest, an orderly    *)
(* stop, a crash, and the next start, which continues from the manifest.   *)
(* The readers (replay, the verification report) are operators over what   *)
(* is on disk.                                                             *)
(*                                                                         *)
(* An event is its sequence number, the rotation bucket of its receive     *)
(* time and the life of the process that emitted it: after a crash a       *)
(* number may come back with another event.  A file is named by its bucket *)
(* and its first number.                                                   *)
(***************************************************************************)
EXTENDS Naturals, Sequences, FiniteSets, SequencesExt

CONSTANTS
  QueueMax,   \* the maxsize of Recorder.queue, 500 000 in the code
  SeqStart,   \* last_seq of the newest line of the manifest at the start
  MaxSeq,     \* bound: sequence numbers
  MaxBucket,  \* bound: rotation periods
  MaxLives, MaxCrashes   \* bounds: starts and crashes of the process

ASSUME RecAssumption ==
  /\ QueueMax \in Nat \ {0} /\ SeqStart \in Nat /\ MaxSeq \in SeqStart..99
  /\ MaxBucket \in Nat /\ MaxLives \in Nat /\ MaxCrashes \in Nat

Numbers == 1..MaxSeq
Event   == [q : Numbers, r : 0..MaxBucket, life : 1..MaxLives]
Name    == [r : 0..MaxBucket, q : Numbers]
NoFile  == [r |-> 0, q |-> 0]

VARIABLES
  proc,      \* "off", "up", "closing" (run_end is queued), "stored" (log closed)
  life,      \* lines of runs.jsonl: how often the process was started
  seq,       \* Sequencer.last_seq
  now,       \* bucket of the wall clock
  queue,     \* Recorder.queue
  dropped,   \* events that found the queue full (the code counts them)
  writer,    \* the writer task runs; a failing disk ends it
  cur, buf,  \* RotatingGzipWriter: the open file, lines not yet flushed to it
  disk,      \* name -> the life that opened it, its readable lines, whether
             \* the gzip trailer is written
  manifest,  \* lines of manifest.jsonl
  crashes

recVars == <<proc, life, seq, now, queue, dropped, writer, cur, buf, disk,
             manifest, crashes>>

RecInit ==
  /\ proc = "off" /\ life = 0 /\ seq = SeqStart /\ now = 0
  /\ queue = << >> /\ dropped = {} /\ writer = FALSE
  /\ cur = NoFile /\ buf = << >>
  /\ disk = [f \in {} |-> [life |-> 0, lines |-> << >>, whole |-> FALSE]]
  /\ manifest = {} /\ crashes = 0

-----------------------------------------------------------------------------
(* The writer. *)

Put(d, f, x) == [g \in DOMAIN d \cup {f} |-> IF g = f THEN x ELSE d[g]]

(* What the open file holds once everything is flushed to it. *)
Flushed == disk[cur].lines \o buf

(* Mutant: the line of the manifest is written before the last flush. *)
ClosedManifestEarly ==
  IF cur = NoFile \/ disk[cur].lines = << >> THEN manifest
  ELSE manifest \cup {[file |-> cur, last |-> Last(disk[cur].lines).q, sha |-> disk[cur].lines]}

(* _close_current: the trailer, then the line of the manifest. *)
ClosedDisk ==
  IF cur = NoFile THEN disk
  ELSE Put(disk, cur, [life |-> life, lines |-> Flushed, whole |-> TRUE])
ClosedManifest ==
  IF cur = NoFile THEN manifest
  ELSE manifest \cup {[file |-> cur, last |-> Last(Flushed).q, sha |-> Flushed]}

(* RotatingGzipWriter.write: another bucket closes the file and opens the  *)
(* next one; opening truncates a file of that name.                        *)
Write(ev) ==
  IF cur # NoFile /\ ev.r = cur.r
  THEN buf' = Append(buf, ev) /\ UNCHANGED <<cur, disk, manifest>>
  ELSE LET name == [r |-> ev.r, q |-> ev.q]
       IN /\ cur' = name /\ buf' = <<ev>> /\ manifest' = ClosedManifest
          /\ disk' = Put(ClosedDisk, name, [life |-> life, lines |-> << >>, whole |-> FALSE])

(* The writer closes a file: the next event belongs to another bucket, or  *)
(* the stop has found the queue empty.                                     *)
Closing ==
  /\ writer /\ cur # NoFile
  /\ IF queue = << >> THEN proc = "closing" ELSE Head(queue).r # cur.r

(* What the first steps of it leave: the file with its trailer, and its    *)
(* line or not.                                                            *)
PartlyClosed ==
  Closing /\ disk' = ClosedDisk /\ manifest' \in {manifest, ClosedManifest}

(* writer_task: one event; the flush comes with a write, every 5 s. *)
WriterStep ==
  /\ writer /\ queue # << >>
  /\ queue' = Tail(queue) /\ Write(Head(queue))
  /\ UNCHANGED <<proc, life, seq, now, dropped, writer, crashes>>

Flush ==
  /\ writer /\ cur # NoFile /\ buf # << >>
  /\ disk' = Put(disk, cur, [disk[cur] EXCEPT !.lines = Flushed]) /\ buf' = << >>
  /\ UNCHANGED <<proc, life, seq, now, queue, dropped, writer, cur, manifest, crashes>>

(* An error of the disk ends the task; nobody waits for it. *)
WriterDies ==
  /\ writer /\ queue # << >> /\ crashes < MaxCrashes
  /\ writer' = FALSE /\ queue' = Tail(queue)
  /\ \/ UNCHANGED <<cur, buf, disk, manifest>>
     \/ PartlyClosed /\ cur' = NoFile /\ buf' = << >>
  /\ UNCHANGED <<proc, life, seq, now, dropped, crashes>>

-----------------------------------------------------------------------------
(* The ordering point. *)

(* emit: the number is taken before the queue is tried. *)
Emit(r) ==
  /\ seq < MaxSeq /\ seq' = seq + 1
  /\ IF Len(queue) < QueueMax
     THEN queue' = Append(queue, [q |-> seq + 1, r |-> r, life |-> life]) /\ UNCHANGED dropped
     ELSE dropped' = dropped \cup {[q |-> seq + 1, life |-> life]} /\ UNCHANGED queue

(* A frame, a tick, or an event of the trader.  What comes back from the   *)
(* send worker carries the time its command was queued, which may lie in   *)
(* the bucket before.                                                      *)
Record(r) ==
  /\ proc = "up" /\ r \in {now} \cup (IF now > 0 THEN {now - 1} ELSE {})
  /\ Emit(r)
  /\ UNCHANGED <<proc, life, now, writer, cur, buf, disk, manifest, crashes>>

Hour ==
  /\ now < MaxBucket /\ now' = now + 1
  /\ UNCHANGED <<proc, life, seq, queue, dropped, writer, cur, buf, disk, manifest, crashes>>

-----------------------------------------------------------------------------
(* Start, stop and crash. *)

(* last_seq_from_manifest: files the manifest does not name do not count. *)
StartSeq == CHOOSE n \in {SeqStart} \cup {m.last : m \in manifest} :
              \A m \in manifest : n >= m.last /\ n >= SeqStart

(* main: run_start is the first event of a life, stamped when it is made.  *)
Boot ==
  /\ proc = "off" /\ life < MaxLives /\ StartSeq < MaxSeq
  /\ proc' = "up" /\ life' = life + 1 /\ seq' = StartSeq + 1
  /\ queue' = <<[q |-> StartSeq + 1, r |-> now, life |-> life + 1]>> /\ writer' = TRUE
  /\ cur' = NoFile /\ buf' = << >>
  /\ UNCHANGED <<now, dropped, disk, manifest, crashes>>

(* main, once the signal came: the tasks are cancelled and run_end queued. *)
Stop ==
  /\ proc = "up" /\ Emit(now) /\ proc' = "closing"
  /\ UNCHANGED <<life, now, writer, cur, buf, disk, manifest, crashes>>

(* Mutant: the file is closed without waiting for the queue. *)
CloseNoJoin ==
  /\ proc = "closing" /\ disk' = ClosedDisk /\ manifest' = ClosedManifest
  /\ proc' = "stored" /\ writer' = FALSE /\ cur' = NoFile /\ buf' = << >>
  /\ UNCHANGED <<life, seq, now, queue, dropped, crashes>>

(* queue.join, then the writer is cancelled and its file closed. *)
Close ==
  /\ proc = "closing" /\ queue = << >> /\ writer
  /\ disk' = ClosedDisk /\ manifest' = ClosedManifest
  /\ proc' = "stored" /\ writer' = FALSE /\ cur' = NoFile /\ buf' = << >>
  /\ UNCHANGED <<life, seq, now, queue, dropped, crashes>>

Exit ==
  /\ proc = "stored" /\ proc' = "off"
  /\ UNCHANGED <<life, seq, now, queue, dropped, writer, cur, buf, disk, manifest, crashes>>

(* The process dies: of what was not flushed a prefix may be on disk, or   *)
(* all of it and the trailer, with the line of the manifest or without.    *)
Crash ==
  /\ proc \in {"up", "closing", "stored"} /\ crashes < MaxCrashes
  /\ crashes' = crashes + 1 /\ proc' = "off"
  /\ queue' = << >> /\ writer' = FALSE /\ cur' = NoFile /\ buf' = << >>
  /\ \/ cur = NoFile /\ UNCHANGED <<disk, manifest>>
     \/ /\ cur # NoFile /\ UNCHANGED manifest
        /\ \E n \in 0..Len(buf) :
             disk' = Put(disk, cur, [disk[cur] EXCEPT !.lines = @ \o SubSeq(buf, 1, n)])
     \/ PartlyClosed
  /\ UNCHANGED <<life, seq, now, dropped>>

RecNext ==
  \/ Boot \/ Stop \/ Close \/ Exit \/ Crash
  \/ \E r \in 0..MaxBucket : Record(r)
  \/ WriterStep \/ Flush \/ WriterDies \/ Hour

-----------------------------------------------------------------------------
(* The readers. *)

(* Files are read in the order of their names, and the number in a name is *)
(* written in decimal without leading zeros: 12 comes before 9.            *)
DecimalKey(n) == IF n < 10 THEN 11 * n ELSE (11 * (n \div 10)) + 1 + (n % 10)
NameBefore(f, g) == f.r < g.r \/ (f.r = g.r /\ DecimalKey(f.q) < DecimalKey(g.q))
Files == [i \in 1..Cardinality(DOMAIN disk) |->
            CHOOSE f \in DOMAIN disk : Cardinality({g \in DOMAIN disk : NameBefore(g, f)}) = i - 1]

(* The lines of the first n of the given files. *)
LinesOf(files, n) ==
  LET upto[i \in 0..n] == IF i = 0 THEN << >> ELSE upto[i - 1] \o disk[files[i]].lines
  IN upto[n]

(* What verify_recording and export_bars read: every line of every file. *)
AllLines == LinesOf(Files, Len(Files))

(* iter_lines: a gzip that ends early ends the replay. *)
Replay ==
  LET files == Files
      early == {i \in DOMAIN files : ~disk[files[i]].whole}
  IN LinesOf(files, IF early = {} THEN Len(files) ELSE CHOOSE i \in early : \A j \in early : i <= j)

(* SeqChecker.feed; 0 stands for no number yet. *)
SeqFeed(c, n) ==
  [last |-> IF n > c.last THEN n ELSE c.last,
   missing |-> c.missing + (IF c.last # 0 /\ n > c.last + 1 THEN n - c.last - 1 ELSE 0),
   dups |-> c.dups + (IF c.last # 0 /\ n <= c.last THEN 1 ELSE 0)]

(* verify_recording: numbers, files that end early, and files that are not *)
(* what the manifest says.                                                 *)
Report ==
  LET all == AllLines
      fed[i \in 0..Len(all)] == IF i = 0 THEN [last |-> 0, missing |-> 0, dups |-> 0]
                                ELSE SeqFeed(fed[i - 1], all[i].q)
      c == fed[Len(all)]
  IN [missing |-> c.missing, dups |-> c.dups,
      truncated |-> {f \in DOMAIN disk : ~disk[f].whole},
      bad |-> {m.file : m \in {x \in manifest : disk[x.file].lines # x.sha}}]

-----------------------------------------------------------------------------
(* Properties. *)

TypeOK ==
  /\ proc \in {"off", "up", "closing", "stored"} /\ life \in 0..MaxLives
  /\ seq \in SeqStart..MaxSeq /\ now \in 0..MaxBucket
  /\ queue \in Seq(Event) /\ Len(queue) <= QueueMax
  /\ dropped \subseteq [q : Numbers, life : 1..MaxLives] /\ writer \in BOOLEAN
  /\ cur \in Name \cup {NoFile} /\ buf \in Seq(Event)
  /\ DOMAIN disk \subseteq Name
  /\ \A f \in DOMAIN disk : disk[f] \in [life : 1..MaxLives, lines : Seq(Event), whole : BOOLEAN]
  /\ manifest \subseteq [file : Name, last : Numbers, sha : Seq(Event)]
  /\ crashes \in 0..MaxCrashes

(* A file the manifest names is complete and holds what its line says, for *)
(* ever: through crashes and restarts nothing opens it again.              *)
ManifestTrue ==
  \A m \in manifest : /\ m.file \in DOMAIN disk
                      /\ disk[m.file].lines = m.sha /\ disk[m.file].whole

(* While the writer runs, every number of this life is in the queue, in a  *)
(* file or counted as dropped, once: no gap in a recording goes uncounted. *)
Mine(s) == {s[i].q : i \in {j \in DOMAIN s : s[j].life = life}}
Recorded == UNION {Mine(s) : s \in {queue, buf} \cup {disk[f].lines : f \in DOMAIN disk}}
Dropped == {d.q : d \in {x \in dropped : x.life = life}}
NothingUnaccounted ==
  (proc \in {"up", "closing"} /\ writer) =>
    /\ Recorded \cap Dropped = {}
    /\ \A n \in Recorded \cup Dropped : n..seq \subseteq Recorded \cup Dropped

(* The names of the files sort like their numbers.  They do not after a    *)
(* start in the same hour that adds a digit, nor after a late stamp.       *)
NamesFollowNumbers ==
  \A f, g \in DOMAIN disk : f.q > g.q => ~NameBefore(f, g)

(* As long as nothing crashed, what is replayed after a stop, with what    *)
(* was counted as dropped, has every number given up to then.  (A number   *)
(* dropped last is given again.)                                           *)
ReplayIsTheRecording ==
  (crashes = 0 /\ proc = "stored") =>
    LET lines == Replay
    IN SeqStart + 1..seq \subseteq {lines[i].q : i \in DOMAIN lines} \cup {d.q : d \in dropped}

(* A crash between the trailer and the line of the manifest leaves a file  *)
(* that looks whole and does not count at the next start.                  *)
WholeAreListed == \A f \in DOMAIN disk : disk[f].whole => \E m \in manifest : m.file = f

(* While no event was dropped, a replay never goes back or repeats a       *)
(* number, even where a life after a crash used the numbers again: it ends *)
(* before the file that repeats them.  (Not so where the crash left a      *)
(* whole file without its line: the replay reads on into the repetition.)  *)
ReplayGoesForward ==
  (NamesFollowNumbers /\ WholeAreListed /\ dropped = {}) =>
    LET lines == Replay
    IN \A i, j \in DOMAIN lines : i < j => lines[i].q < lines[j].q

(* A report without an error means that the replay reads consecutive       *)
(* numbers and leaves no line out, whatever happened before.               *)
CleanReportCleanReplay ==
  LET report == Report
      lines == Replay
  IN (report.missing = 0 /\ report.dups = 0 /\ report.truncated = {} /\ report.bad = {}) =>
       /\ Len(lines) = Len(AllLines)
       /\ \A i \in 1..Len(lines) - 1 : lines[i + 1].q = lines[i].q + 1
=============================================================================
