-------------------------- MODULE RecordingSystem --------------------------
(***************************************************************************)
(* A recorder with what works beside it: the database of its trader (the   *)
(* same process and event loop, so they start, crash and stop together),   *)
(* or a console, or exports of bars.  One of them per behaviour, or none:  *)
(* they share nothing but the recording.                                   *)
(***************************************************************************)
EXTENDS Readers, AsyncStore

CONSTANTS SideSeq, SideLives   \* bounds, as MaxSeq and MaxLives, of the
                               \* behaviours with something beside
ASSUME SystemAssumption == SideSeq \in Nat /\ SideLives \in Nat

VARIABLE beside    \* "nothing", "store", "console" or "export"
sysVars == <<recVars, consVars, exportVars, storeVars, beside>>

SysInit == /\ RecInit /\ ReadersInit /\ StoreInit
           /\ beside \in {"nothing", "store", "console", "export"}

(* on_event: the trader makes rows of the event that was just numbered,    *)
(* also of one that found the recorder's queue full.                       *)
TradeEvent == \E r \in 0..MaxBucket : Record(r) /\ PutRow([q |-> seq + 1, life |-> life])

(* PaperRecorder.main: the store is started before the recorder and closed *)
(* behind it.  Nothing of it depends on the hour, which stands still.      *)
WithStore ==
  \/ TradeEvent
  \/ Boot /\ StoreBoot
  \/ Exit /\ Aclose
  \/ Crash /\ StoreCrash
  \/ (Stop \/ Close \/ WriterStep \/ Flush) /\ UNCHANGED storeVars
  \/ proc # "off" /\ StoreStep /\ UNCHANGED recVars
  \/ proc = "up" /\ Commit /\ UNCHANGED recVars

(* Bounds: with something beside, the recorder's queue is never full and   *)
(* its writer does not die alone.                                          *)
Bounded ==
  /\ seq' <= SideSeq /\ life' <= SideLives /\ dropped' = {}
  /\ writer' = (proc' \in {"up", "closing"})

SysNext ==
  \/ beside = "store" /\ WithStore /\ Bounded /\ UNCHANGED <<consVars, exportVars, beside>>
  \/ /\ beside # "store" /\ RecNext /\ (Bounded \/ beside = "nothing")
     /\ UNCHANGED <<consVars, exportVars, storeVars, beside>>
  \/ beside = "console" /\ ConsoleNext /\ UNCHANGED <<recVars, exportVars, storeVars, beside>>
  \/ beside = "export" /\ Export /\ UNCHANGED <<recVars, consVars, storeVars, beside>>

(* The thread of the console runs as long as its process does.             *)
SysSpec == SysInit /\ [][SysNext]_sysVars /\ WF_consVars(ConsoleStep)

Row == [q : Numbers, life : 1..MaxLives]

(* When the process has stopped without a crash, every row was committed   *)
(* or counted as dropped, unless a batch failed.                           *)
StopKeepsRows ==
  (beside = "store" /\ proc = "off" /\ crashes = 0 /\ errors = 0) =>
    put = {db[i] : i \in DOMAIN db} \cup sdropped

(* What the store reports as written is committed.                         *)
WrittenIsCommitted ==
  proc # "off" => written <= Cardinality({i \in DOMAIN db : db[i].life = life})

-----------------------------------------------------------------------------
(* No event of a recording is lost without a trace. *)
Accounted == TypeOK /\ ManifestTrue /\ NothingUnaccounted

(* What is replayed is what was recorded, in its order, and a report that  *)
(* finds nothing wrong says so truly.                                      *)
ReplayExact == ReplayIsTheRecording /\ ReplayGoesForward /\ CleanReportCleanReplay

(* A console shows every event of the recording once and in its order.     *)
ReadersExact == ReadersTypeOK /\ SeenOnce /\ NothingSkipped /\ SeenInOrder

(* The database has the rows the trader made, in their order.              *)
StoreExact == StoreTypeOK(Row) /\ RowsInOrder /\ StopKeepsRows /\ WrittenIsCommitted

(* What reads a recording that grows ends up with all of it, by way of its *)
(* checkpoint or its cache, too.                                           *)
ReadersFollow == CatchesUp /\ ExportFromScratch
=============================================================================
