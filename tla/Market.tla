------------------------------- MODULE Market -------------------------------
(***************************************************************************)
(* The parts that turn what the exchange publishes into an entry, and the  *)
(* ones that watch over it: the order book, the engine's view of the       *)
(* market, the monitors, the studies its rules come from, and the risk     *)
(* engine over the account.  They share definitions and no state, so a     *)
(* behaviour follows one of them.                                          *)
(***************************************************************************)
EXTENDS DepthBook, MarketView, Monitors, Research, Account

VARIABLE part   \* "book", "view", "monitor", "research" or "account"
allVars == <<depthVars, marketVars, monVars, resVars, riskVars, part>>

Part == {"book", "view", "monitor", "research", "account"}

(* The parts a behaviour does not follow stay as one of them begins. *)
AllInit ==
  /\ part \in Part
  /\ BookInit /\ MarketInit /\ (part # "view" => reconciled)
  /\ IF part = "monitor" THEN MonInit
     ELSE watch = "runaway" /\ seen = << >> /\ memory = Fresh("runaway") /\ raised = {}
  /\ IF part = "research" THEN ResInit ELSE study = "labels" /\ tape = << >> /\ kept = << >>
  /\ IF part = "account" THEN AccInit ELSE AccRest

AllNext ==
  \/ part = "book" /\ BookNext /\ UNCHANGED <<marketVars, monVars, resVars, riskVars, part>>
  \/ part = "view" /\ MarketNext /\ UNCHANGED <<depthVars, monVars, resVars, riskVars, part>>
  \/ part = "monitor" /\ MonNext /\ UNCHANGED <<depthVars, marketVars, resVars, riskVars, part>>
  \/ part = "research" /\ ResNext /\ UNCHANGED <<depthVars, marketVars, monVars, riskVars, part>>
  \/ part = "account" /\ AccNext /\ UNCHANGED <<depthVars, marketVars, monVars, resVars, part>>

AllSpec == AllInit /\ [][AllNext]_allVars

-----------------------------------------------------------------------------
(* The local book is the exchange's whenever it says so, and a snapshot    *)
(* that the buffered events reach over makes it say so.                    *)
BookFollows == [](BookTypeOK /\ BookExact) /\ CoveredSnapshotSyncs

(* Entries are decided, and exits held back, on data whose age is known,   *)
(* and no entry takes the name of an earlier one.                          *)
ActsOnFresh == [](MarketTypeOK /\ EntriesAreFresh /\ NamesAreNew) /\ ExitModeTrue
=============================================================================
