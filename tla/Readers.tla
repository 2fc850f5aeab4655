------------------------------ MODULE Readers ------------------------------
(***************************************************************************)
(* Two readers that keep state of their own about a recording: the console *)
(* (Tailer with its ViewCache and GrowingGzipReader) and the bar export    *)
(* with its cache per file.  Both run beside the recorder, see only what   *)
(* is on disk, and start and stop on their own.                            *)
(***************************************************************************)
EXTENDS Recording

CONSTANTS
  HistoryFiles,   \* --history-files: how far back a console starts
  MaxConsoles, MaxExports   \* bounds: starts of the console, exports

ASSUME ReadersAssumption ==
  HistoryFiles \in Nat /\ MaxConsoles \in Nat /\ MaxExports \in Nat

NoReader == [f |-> NoFile, life |-> 0, n |-> 0, finished |-> FALSE, many |-> FALSE]
NoCache  == [after |-> NoFile, view |-> << >>]

VARIABLES
  cons,      \* the Tailer: "off", "history", "read", or "ask" (nothing was new)
  done,      \* Tailer.done
  pend,      \* files replay_history still has to play
  known,     \* names of the manifest when replay_history began
  at,        \* the reader: file, the life whose lines it has seen, their
             \* number, whether it saw the trailer, whether other files waited
  view,      \* the events the view was fed
  cache,     \* view.pkl
  old,       \* history: files that a start left before its window
  starts,
  exports, bars, exported   \* exports made; the cache: file -> the state
                            \* behind it; the state after the last export

consVars   == <<cons, done, pend, known, at, view, cache, old, starts>>
exportVars == <<exports, bars, exported>>

ReadersInit ==
  /\ cons = "off" /\ done = {} /\ pend = << >> /\ known = {} /\ at = NoReader
  /\ view = << >> /\ cache = NoCache /\ old = {} /\ starts = 0
  /\ exports = 0 /\ bars = [f \in {} |-> << >>] /\ exported = << >>

Closed == {m.file : m \in manifest}
Names(s) == {s[i] : i \in DOMAIN s}

-----------------------------------------------------------------------------
(* The console. *)

(* Mutant: the files the cached view has seen are not marked. *)
ConsoleStartForgets ==
  LET first == IF Len(Files) > HistoryFiles THEN Len(Files) - HistoryFiles ELSE 0
      hits == {i \in DOMAIN Files : cache # NoCache /\ Files[i] = cache.after /\ i > first}
  IN /\ cons = "off" /\ starts < MaxConsoles /\ starts' = starts + 1 /\ cons' = "history"
     /\ at' = NoReader /\ known' = Closed /\ done' = {}
     /\ pend' = SubSeq(Files, first + 1, Len(Files) - 1)
     /\ view' = (IF hits = {} THEN << >> ELSE cache.view)
     /\ old' = old \cup Names(SubSeq(Files, 1, first))
     /\ UNCHANGED cache

(* Tailer.__init__ and the head of replay_history: the window, and the     *)
(* view that was saved after a file inside it.                             *)
ConsoleStart ==
  LET files == Files
      first == IF Len(files) > HistoryFiles THEN Len(files) - HistoryFiles ELSE 0
      hits == {i \in DOMAIN files : cache # NoCache /\ files[i] = cache.after /\ i > first}
  IN /\ cons = "off" /\ starts < MaxConsoles /\ starts' = starts + 1 /\ cons' = "history"
     /\ at' = NoReader /\ known' = Closed
     /\ \/ /\ hits = {} /\ done' = {} /\ view' = << >>
           /\ pend' = SubSeq(files, first + 1, Len(files) - 1)
           /\ old' = old \cup Names(SubSeq(files, 1, first))
        \/ \E i \in hits : /\ done' = Names(SubSeq(files, 1, i)) /\ view' = cache.view
                           /\ pend' = SubSeq(files, i + 1, Len(files) - 1)
                           /\ UNCHANGED old
     /\ UNCHANGED cache

(* One file of the history; a checkpoint after it if it was closed. *)
HistoryStep ==
  /\ cons = "history" /\ pend # << >>
  /\ view' = view \o disk[Head(pend)].lines /\ done' = done \cup {Head(pend)}
  /\ pend' = Tail(pend)
  /\ cache' = IF Head(pend) \in known THEN [after |-> Head(pend), view |-> view'] ELSE cache
  /\ UNCHANGED <<cons, known, at, old, starts>>

HistoryDone ==
  /\ cons = "history" /\ pend = << >> /\ cons' = "read"
  /\ UNCHANGED <<done, pend, known, at, view, cache, old, starts>>

Waiting == DOMAIN disk \ done
First(S) == CHOOSE f \in S : \A g \in S : ~NameBefore(g, f)

(* What read_new yields: lines behind the position.  A file that was       *)
(* truncated and written again is not at the position any more.            *)
NewLines(r, f) ==
  IF r.finished \/ (r.n > 0 /\ r.life # disk[f].life) THEN << >>
  ELSE SubSeq(disk[f].lines, r.n + 1, Len(disk[f].lines))

(* A turn of run: the first file that is not done, and its new lines. *)
Pass ==
  /\ cons = "read" /\ Waiting # {}
  /\ LET f == First(Waiting)
         r == IF at.f = f THEN at ELSE [NoReader EXCEPT !.f = f]
         new == NewLines(r, f)
         same == r.n = 0 \/ r.life = disk[f].life
     IN /\ view' = view \o new
        /\ at' = [f |-> f, life |-> IF new = << >> THEN r.life ELSE disk[f].life,
                  n |-> r.n + Len(new), finished |-> r.finished \/ (same /\ disk[f].whole),
                  many |-> new = << >> /\ Cardinality(Waiting) > 1]
        /\ cons' = IF new = << >> THEN "ask" ELSE "read"
  /\ UNCHANGED <<done, pend, known, cache, old, starts>>

(* Mutant: only the last file is left behind. *)
AskLast ==
  /\ cons = "ask" /\ cons' = "read"
  /\ done' = IF at.finished /\ ~at.many THEN done \cup {at.f} ELSE done
  /\ UNCHANGED <<pend, known, at, view, cache, old, starts>>

(* The rest of a turn without new lines: the manifest is read only now. *)
Ask ==
  /\ cons = "ask" /\ cons' = "read"
  /\ done' = IF at.finished \/ (at.many /\ at.f \in Closed) THEN done \cup {at.f} ELSE done
  /\ UNCHANGED <<pend, known, at, view, cache, old, starts>>

ConsoleStop ==
  /\ cons # "off" /\ cons' = "off" /\ done' = {} /\ pend' = << >> /\ known' = {}
  /\ at' = NoReader /\ view' = << >>
  /\ UNCHANGED <<cache, old, starts>>

ConsoleStep == HistoryStep \/ HistoryDone \/ Pass \/ Ask
ConsoleNext == ConsoleStart \/ ConsoleStep \/ ConsoleStop

-----------------------------------------------------------------------------
(* The export of bars. *)

(* export_bars: a cached file gives its rows and the state behind it; any  *)
(* other is played, and cached if it is closed and whole.                  *)
ExportFile(acc, f) ==
  IF f \in DOMAIN acc.bars THEN [acc EXCEPT !.state = acc.bars[f]]
  ELSE LET s == acc.state \o disk[f].lines
       IN [state |-> s, bars |-> IF f \in Closed /\ disk[f].whole THEN Put(acc.bars, f, s) ELSE acc.bars]
Exported ==
  LET files == Files
      upto[i \in 0..Len(files)] == IF i = 0 THEN [state |-> << >>, bars |-> bars]
                                   ELSE ExportFile(upto[i - 1], files[i])
  IN upto[Len(files)]

Export ==
  /\ exports < MaxExports /\ exports' = exports + 1
  /\ exported' = Exported.state /\ bars' = Exported.bars

-----------------------------------------------------------------------------

ReadersTypeOK ==
  /\ cons \in {"off", "history", "read", "ask"} /\ done \subseteq Name
  /\ pend \in Seq(Name) /\ known \subseteq Name /\ old \subseteq Name
  /\ at \in [f : Name \cup {NoFile}, life : 0..MaxLives, n : Nat, finished : BOOLEAN, many : BOOLEAN]
  /\ view \in Seq(Event) /\ cache \in [after : Name \cup {NoFile}, view : Seq(Event)]
  /\ starts \in 0..MaxConsoles /\ exports \in 0..MaxExports
  /\ DOMAIN bars \subseteq Name /\ exported \in Seq(Event)

(* No event is fed to a view twice: over checkpoints, restarts of either   *)
(* side, crashes, and files that are truncated and written again.  (When a *)
(* later file sorts before the one that is read, its lines are fed again.) *)
SeenOnce ==
  (view # << >> /\ NamesFollowNumbers /\ dropped = {}) =>
    \A i, j \in DOMAIN view : i # j => view[i] # view[j]

(* A console that has left a file behind has seen all of its lines, the    *)
(* ones before a checkpoint included, unless a start left the file before  *)
(* its window.                                                             *)
NothingSkipped ==
  (cons # "off" /\ done # {} /\ crashes = 0 /\ NamesFollowNumbers) =>
    \A f \in done \ old : Names(disk[f].lines) \subseteq Names(view)

(* The view is fed in the order of the numbers, while no start left files  *)
(* before its window (those are shown after the newer ones).               *)
SeenInOrder ==
  (crashes = 0 /\ NamesFollowNumbers /\ old = {}) =>
    \A i, j \in DOMAIN view : i < j => view[i].q < view[j].q

(* An export that takes files from its cache has run through the same      *)
(* lines as one from scratch.                                              *)
ExportFromScratch ==
  [][(exports' # exports /\ NamesFollowNumbers) => exported' = AllLines]_<<exportVars, recVars>>

(* A console that stays up catches up with what is on disk, again and      *)
(* again.  Not so after a crash: it waits for ever on the file that nobody *)
(* will close, with the later ones unread.                                 *)
CatchesUp ==
  []<>(\/ cons = "off" \/ crashes > 0 \/ ~NamesFollowNumbers \/ old # {}
       \/ \A f \in DOMAIN disk : Names(disk[f].lines) \subseteq Names(view))
=============================================================================
