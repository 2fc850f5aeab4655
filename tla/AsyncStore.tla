---------------------------- MODULE AsyncStore ----------------------------
(***************************************************************************)
(* The database of a trader: AsyncStore takes rows into a bounded queue,   *)
(* a task hands them in batches to a thread, and the thread executes them  *)
(* in one open transaction of the shared connection.  The heartbeat of the *)
(* event loop commits on the same connection, in mid-batch too.            *)
(*                                                                         *)
(* A row is named by the event it was made from and the life that made it; *)
(* the history variable put holds every row the trader handed over.        *)
(***************************************************************************)
EXTENDS Naturals, Sequences, SequencesExt

CONSTANTS
  StoreMax,     \* maxsize of AsyncStore.q, 20 000 in the code
  BatchMax,     \* AsyncStore.batch, 500
  FlushEvery,   \* PaperStore.flush_every, 200
  MaxErrors     \* bound: statements or commits that fail

ASSUME StoreAssumption ==
  /\ StoreMax \in Nat \ {0} /\ BatchMax \in Nat \ {0} /\ FlushEvery \in Nat \ {0}
  /\ MaxErrors \in Nat

VARIABLES
  sq,         \* AsyncStore.q
  size,       \* rows of the batch the thread has; 0: it has none
  batch,      \* those not executed yet
  tx,         \* rows executed and not committed (PaperStore.pending of them)
  db,         \* rows committed
  sdropped,   \* rows that found the queue full
  written,    \* AsyncStore.written of this life
  errors,     \* AsyncStore.errors, over all lives
  put         \* history

storeVars == <<sq, size, batch, tx, db, sdropped, written, errors, put>>

StoreInit ==
  /\ sq = << >> /\ size = 0 /\ batch = << >> /\ tx = << >> /\ db = << >>
  /\ sdropped = {} /\ written = 0 /\ errors = 0 /\ put = {}

(* _put *)
PutRow(row) ==
  /\ put' = put \cup {row}
  /\ IF Len(sq) < StoreMax THEN sq' = Append(sq, row) /\ UNCHANGED sdropped
     ELSE sdropped' = sdropped \cup {row} /\ UNCHANGED sq
  /\ UNCHANGED <<size, batch, tx, db, written, errors>>

(* run: everything that waits, up to a batch. *)
TakeBatch ==
  /\ size = 0 /\ sq # << >>
  /\ \E n \in 1..BatchMax :
       /\ n = BatchMax \/ n = Len(sq)
       /\ n <= Len(sq)
       /\ size' = n /\ batch' = SubSeq(sq, 1, n) /\ sq' = SubSeq(sq, n + 1, Len(sq))
  /\ UNCHANGED <<tx, db, sdropped, written, errors, put>>

(* Mutant: the rows of a batch are executed from its end. *)
ApplyRowLast ==
  /\ batch # << >> /\ batch' = Front(batch)
  /\ IF Len(tx) + 1 >= FlushEvery THEN db' = db \o Append(tx, Last(batch)) /\ tx' = << >>
     ELSE tx' = Append(tx, Last(batch)) /\ UNCHANGED db
  /\ UNCHANGED <<sq, size, sdropped, written, errors, put>>

(* _apply: one statement; _maybe_flush commits when enough are pending. *)
ApplyRow ==
  /\ batch # << >> /\ batch' = Tail(batch)
  /\ IF Len(tx) + 1 >= FlushEvery THEN db' = db \o Append(tx, Head(batch)) /\ tx' = << >>
     ELSE tx' = Append(tx, Head(batch)) /\ UNCHANGED db
  /\ UNCHANGED <<sq, size, sdropped, written, errors, put>>

(* The flush that ends _apply; then the batch counts as written. *)
BatchDone ==
  /\ size > 0 /\ batch = << >>
  /\ db' = db \o tx /\ tx' = << >> /\ written' = written + size /\ size' = 0
  /\ UNCHANGED <<sq, batch, sdropped, errors, put>>

(* A statement or the commit raises: the rest of the batch is given up and *)
(* not counted; what was executed stays in the open transaction.           *)
BatchFails ==
  /\ size > 0 /\ errors < MaxErrors
  /\ errors' = errors + 1 /\ size' = 0 /\ batch' = << >>
  /\ UNCHANGED <<sq, tx, db, sdropped, written, put>>

(* heartbeat, and the flush of paper_status_task. *)
Commit ==
  /\ tx # << >> /\ db' = db \o tx /\ tx' = << >>
  /\ UNCHANGED <<sq, size, batch, sdropped, written, errors, put>>

StoreStep == TakeBatch \/ ApplyRow \/ BatchDone \/ BatchFails

StoreBoot == written' = 0 /\ UNCHANGED <<sq, size, batch, tx, db, sdropped, errors, put>>

(* aclose and the last flush of main. *)
Aclose ==
  /\ sq = << >> /\ size = 0 /\ db' = db \o tx /\ tx' = << >>
  /\ UNCHANGED <<sq, size, batch, sdropped, written, errors, put>>

(* The process dies: the open transaction is rolled back. *)
StoreCrash ==
  /\ sq' = << >> /\ size' = 0 /\ batch' = << >> /\ tx' = << >>
  /\ UNCHANGED <<db, sdropped, written, errors, put>>

-----------------------------------------------------------------------------

StoreTypeOK(Row) ==
  /\ sq \in Seq(Row) /\ Len(sq) <= StoreMax
  /\ batch \in Seq(Row) /\ size \in Len(batch)..BatchMax
  /\ tx \in Seq(Row) /\ Len(tx) < FlushEvery /\ db \in Seq(Row)
  /\ sdropped \subseteq put /\ put \subseteq Row
  /\ written \in Nat /\ errors \in 0..MaxErrors

(* The rows of a life reach the database in the order they were handed     *)
(* over and once, over heartbeats in mid-batch, errors and crashes.        *)
RowsInOrder ==
  LET all == db \o tx \o batch \o sq
  IN \A i, j \in DOMAIN all : (i < j /\ all[i].life = all[j].life) => all[i].q < all[j].q
=============================================================================
