----------------------------- MODULE KillSwitch -----------------------------
(***************************************************************************)
(* The persistent kill switch: its file and object (gateway/killswitch.py),*)
(* the console that triggers and resets it from another process            *)
(* (api/server.py), the trader that reads the file on every beat of the    *)
(* status task and writes CoreState.kill_switch (paper/main.py), and, on   *)
(* the testnet, the runaway detector and the 418 ban that trip it from     *)
(* inside the trader (testnet/main.py).                                    *)
(*                                                                         *)
(* The console answers every request in a thread of its own, and a kill    *)
(* reads the file, asks git for the version, and writes: requests overlap. *)
(* An await between the reading of the file and the writing of the flag    *)
(* exists only on the testnet, where _pre_beat talks to the exchange.      *)
(***************************************************************************)
EXTENDS Naturals

CONSTANTS
  Console,     \* reasons the console gives
  Trips,       \* reasons the trader gives
  Posts,       \* threads of the console, kills under way at a time
  MaxResets,   \* bound: manual resets
  MaxRestarts  \* bound: restarts of the trader

ASSUME KSAssumption ==
  /\ Console \cap Trips = {}
  /\ "none" \notin Console \cup Trips
  /\ MaxResets \in Nat /\ MaxRestarts \in Nat

VARIABLES
  testnet,  \* which trader runs: the testnet one, or the paper one
  file,     \* reason in the file, "none" when it is not active
  mem,      \* the same of the trader's own object, self.kill
  flag,     \* CoreState.kill_switch, what K1 reads
  ks,       \* what this beat read from the file
  pc,       \* the status task: "sleep", or "await" in _pre_beat
  banned,   \* RateLimiter.banned
  post,     \* by thread: the reason it will write, and whether it saw the switch active
  resets, restarts

killVars == <<testnet, file, mem, flag, ks, pc, banned, post, resets, restarts>>

Reason == Console \cup Trips \cup {"none"}
Active(r) == r # "none"
Idle == [why |-> "none", seen |-> FALSE]

KillInit ==
  /\ testnet \in BOOLEAN
  /\ file \in {"none"} \cup Console
  /\ mem = file /\ flag = Active(file)
  /\ ks = FALSE /\ pc = "sleep" /\ banned = FALSE
  /\ post = [p \in Posts |-> Idle]
  /\ resets = 0 /\ restarts = 0

-----------------------------------------------------------------------------
(* The console makes a new object for every request: POST /api/kill reads  *)
(* the file ...                                                            *)
ConsoleAsk(p, r) ==
  /\ post[p] = Idle
  /\ post' = [post EXCEPT ![p] = [why |-> r, seen |-> Active(file)]]
  /\ UNCHANGED <<testnet, file, mem, flag, ks, pc, banned, resets, restarts>>

(* Mutant: trigger does not look at what was read. *)
ConsoleTriggerOver(p) ==
  /\ post[p] # Idle
  /\ file' = post[p].why
  /\ post' = [post EXCEPT ![p] = Idle]
  /\ UNCHANGED <<testnet, mem, flag, ks, pc, banned, resets, restarts>>

(* ... and, after git_sha, trigger looks at what was read.                 *)
ConsoleTrigger(p) ==
  /\ post[p] # Idle
  /\ file' = IF post[p].seen THEN file ELSE post[p].why
  /\ post' = [post EXCEPT ![p] = Idle]
  /\ UNCHANGED <<testnet, mem, flag, ks, pc, banned, resets, restarts>>

(* POST /api/kill/reset writes whatever it read, and is one step for that. *)
ConsoleReset ==
  /\ resets < MaxResets
  /\ file' = "none" /\ resets' = resets + 1
  /\ UNCHANGED <<testnet, mem, flag, ks, pc, banned, post, restarts>>

-----------------------------------------------------------------------------
(* _trip_kill_switch: trigger looks at the trader's own object.            *)
Tripped(r) ==
  /\ mem' = IF Active(mem) THEN mem ELSE r
  /\ file' = IF Active(mem) THEN file ELSE r
  /\ flag' = TRUE

(* The runaway detector, on a command or on the result of one. *)
Runaway(r) ==
  /\ testnet
  /\ Tripped(r)
  /\ UNCHANGED <<testnet, ks, pc, banned, post, resets, restarts>>

(* The exchange answers 418 to some request. *)
Ban ==
  /\ testnet /\ ~banned /\ banned' = TRUE
  /\ UNCHANGED <<testnet, file, mem, flag, ks, pc, post, resets, restarts>>

(* A beat of the paper trader: nothing runs between reading and writing.   *)
Beat ==
  /\ pc = "sleep" /\ ~testnet
  /\ flag' = Active(file)
  /\ UNCHANGED <<testnet, file, mem, ks, pc, banned, post, resets, restarts>>

(* A beat of the testnet trader: the file is read, _check_ban may trip,    *)
(* and _pre_beat awaits its threads ...                                    *)
BeatRead ==
  /\ pc = "sleep" /\ testnet
  /\ ks' = Active(file) /\ pc' = "await"
  /\ IF banned /\ ~Active(mem)
     THEN \E r \in Trips : Tripped(r)
     ELSE UNCHANGED <<file, mem, flag>>
  /\ UNCHANGED <<testnet, banned, post, resets, restarts>>

(* Mutant: the beat never lowers the flag. *)
BeatWriteSticky ==
  /\ pc = "await" /\ pc' = "sleep"
  /\ flag' = (flag \/ ks)
  /\ UNCHANGED <<testnet, file, mem, ks, banned, post, resets, restarts>>

(* ... and writes what it read then. *)
BeatWrite ==
  /\ pc = "await" /\ pc' = "sleep"
  /\ flag' = ks
  /\ UNCHANGED <<testnet, file, mem, ks, banned, post, resets, restarts>>

(* The trader stops or crashes and comes back, before its first beat. *)
Restart ==
  /\ restarts < MaxRestarts /\ restarts' = restarts + 1
  /\ mem' = file /\ flag' = Active(file)
  /\ ks' = FALSE /\ pc' = "sleep" /\ banned' = FALSE
  /\ UNCHANGED <<testnet, file, post, resets>>

Beats == Beat \/ BeatRead \/ BeatWrite

KillNext ==
  \/ \E p \in Posts, r \in Console : ConsoleAsk(p, r)
  \/ \E p \in Posts : ConsoleTrigger(p)
  \/ ConsoleReset
  \/ \E r \in Trips : Runaway(r)
  \/ Ban \/ Beats \/ Restart

-----------------------------------------------------------------------------
KillTypeOK ==
  /\ testnet \in BOOLEAN
  /\ file \in Reason /\ mem \in Reason
  /\ flag \in BOOLEAN /\ ks \in BOOLEAN /\ banned \in BOOLEAN
  /\ pc \in {"sleep", "await"}
  /\ post \in [Posts -> [why : Console \cup {"none"}, seen : BOOLEAN]]
  /\ resets \in 0..MaxResets /\ restarts \in 0..MaxRestarts

(* A kill that stays in the file reaches the core, and a reset that stays  *)
(* opens it again, whoever gave them and whatever restarts in between.     *)
FlagFollowsFile ==
  /\ <>[]Active(file) => <>[]flag
  /\ <>[]~Active(file) => []<>~flag

(* Kills that saw the switch open and have still to write. *)
Late == {p \in Posts : post[p] # Idle /\ ~post[p].seen}

(* testnet/main.py:260: the switch is not opened without a manual reset,   *)
(* and killswitch.py:30: the first reason is kept.  The paper trader,      *)
(* restarts included, keeps to the first.  The console keeps the reason    *)
(* against every kill that begins once it is written: only one that read   *)
(* the file before may replace it, once, and while the switch is active    *)
(* no kill joins those (with none of them left the reason is final until   *)
(* the reset).  The testnet trader keeps to neither: it writes the flag    *)
(* with an answer it read before an await, and is another writer of the    *)
(* file.                                                                   *)
SwitchKept ==
  [][ ~testnet =>
        /\ flag /\ ~flag' => ~Active(file)
        /\ Active(file) /\ Active(file') => /\ Late' \subseteq Late
                                           /\ (file' # file => Late' # Late) ]_killVars
=============================================================================
