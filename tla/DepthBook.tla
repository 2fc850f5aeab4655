------------------------------ MODULE DepthBook ------------------------------
(***************************************************************************)
(* The local order book of one symbol (fbot/orderbook.py, LocalOrderBook), *)
(* fed by the paper trader with the depth stream and with the recorder's   *)
(* periodic REST snapshots.                                                *)
(*                                                                         *)
(* The exchange numbers its book changes 1, 2, 3, ...; change n touches    *)
(* level n % Levels and its quantity is written n, so that the book after  *)
(* change n is BookAt(n).  A depth event carries the changes U..u of one   *)
(* publication, as absolute quantities, and pu, the u of the one before.   *)
(* A snapshot is BookAt(L), taken at any change, delivered later.          *)
(***************************************************************************)
EXTENDS Naturals, Sequences, SequencesExt

CONSTANTS
  Levels,   \* number of price levels
  Widths,   \* how many changes one event may carry
  MaxId,    \* bound: changes of the exchange's book
  MaxLost,  \* bound: events lost with the connection
  MaxSnaps  \* bound: snapshots requested

ASSUME DBAssumption ==
  /\ Levels \in Nat \ {0} /\ Widths \subseteq Nat \ {0}
  /\ MaxId \in Nat /\ MaxLost \in Nat /\ MaxSnaps \in Nat

NoU == 0

PriceLevel == 0..(Levels - 1)
DepthEvent == [U : 1..MaxId, u : 1..MaxId, pu : 0..MaxId]

(* The last change of every level up to change n, 0 if it never changed. *)
BookAt(n) == [l \in PriceLevel |-> LET c == {i \in 1..n : i % Levels = l}
                              IN IF c = {} THEN 0 ELSE Max(c)]

VARIABLES
  ob,      \* the LocalOrderBook
  chan,    \* depth events on their way
  snap,    \* the lastUpdateId of the snapshot on its way, or Absent
  last,    \* exchange: changes so far
  lost, snaps  \* how many events were lost, snapshots requested

depthVars == <<ob, chan, snap, last, lost, snaps>>

Absent == MaxId + 1

(* lastU is None (NoU) until the first event after a snapshot is applied. *)
LocalBook == [book : [PriceLevel -> 0..MaxId], id : 0..MaxId, lastU : 0..MaxId,
              synced : BOOLEAN, buffer : Seq(DepthEvent)]

BookInit ==
  /\ ob = [book |-> BookAt(0), id |-> 0, lastU |-> NoU, synced |-> FALSE, buffer |-> << >>]
  /\ chan = << >> /\ snap = Absent /\ last = 0 /\ lost = 0 /\ snaps = 0

-----------------------------------------------------------------------------
Resync(b) == [b EXCEPT !.synced = FALSE, !.lastU = NoU]

(* _apply: the event's quantities replace those of its levels. *)
Written(book, d) ==
  [l \in PriceLevel |-> LET c == {i \in d.U..d.u : i % Levels = l}
                   IN IF c = {} THEN book[l] ELSE Max(c)]

Apply(b, d) == [b EXCEPT !.book = Written(@, d), !.lastU = d.u]

(* Mutant: the continuity of the stream (pu) is not checked. *)
ProcessNoPu(b, d) ==
  IF b.lastU = NoU
  THEN IF d.u < b.id THEN b
       ELSE IF d.U <= b.id /\ b.id <= d.u THEN Apply(b, d) ELSE Resync(b)
  ELSE Apply(b, d)

(* _process: before the first applied event an old one is dropped and the  *)
(* first must straddle the snapshot; after it every pu must be the last u. *)
Process(b, d) ==
  IF b.lastU = NoU
  THEN IF d.u < b.id THEN b
       ELSE IF d.U <= b.id /\ b.id <= d.u THEN Apply(b, d) ELSE Resync(b)
  ELSE IF d.pu = b.lastU THEN Apply(b, d) ELSE Resync(b)

(* apply_snapshot goes through the buffer and stops at a resync; what was  *)
(* behind it is gone with the buffer.                                      *)
Pending(b, d) == IF b.synced THEN Process(b, d) ELSE b

Taken(L) == [book |-> BookAt(L), id |-> L, lastU |-> NoU, synced |-> TRUE, buffer |-> << >>]

ApplySnapshot(b, L) ==
  LET after[i \in 0..Len(b.buffer)] ==
        IF i = 0 THEN Taken(L) ELSE Pending(after[i - 1], b.buffer[i])
  IN after[Len(b.buffer)]

Feed(b, d) == IF b.synced THEN Process(b, d) ELSE [b EXCEPT !.buffer = Append(@, d)]

-----------------------------------------------------------------------------
(* The exchange publishes its next changes; the connection may lose them. *)
Publish ==
  /\ \E w \in Widths :
        /\ last + w <= MaxId
        /\ last' = last + w
        /\ \/ chan' = Append(chan, [U |-> last + 1, u |-> last + w, pu |-> last]) /\ UNCHANGED lost
           \/ lost < MaxLost /\ lost' = lost + 1 /\ UNCHANGED chan
  /\ UNCHANGED <<ob, snap, snaps>>

(* snapshot_task: one request at a time, whatever the state of the book;   *)
(* the exchange answers with its book in the middle of a publication, too.  *)
RequestSnapshot ==
  /\ snap = Absent /\ snaps < MaxSnaps
  /\ snaps' = snaps + 1
  /\ \E w \in Widths, k \in 0..MaxId :
        /\ k < w /\ last + k <= MaxId
        /\ snap' = last + k
  /\ UNCHANGED <<ob, chan, last, lost>>

(* PaperTrader._on_snapshot. *)
OnSnapshot ==
  /\ snap # Absent
  /\ ob' = ApplySnapshot(ob, snap)
  /\ snap' = Absent
  /\ UNCHANGED <<chan, last, lost, snaps>>

(* PaperTrader._on_depth. *)
OnDepth ==
  /\ chan # << >>
  /\ ob' = Feed(ob, Head(chan)) /\ chan' = Tail(chan)
  /\ UNCHANGED <<snap, last, lost, snaps>>

BookNext == Publish \/ RequestSnapshot \/ OnSnapshot \/ OnDepth

-----------------------------------------------------------------------------
BookTypeOK ==
  /\ ob \in LocalBook /\ (ob.synced => ob.buffer = << >>)
  /\ chan \in Seq(DepthEvent)
  /\ snap \in 0..Absent /\ last \in 0..MaxId /\ lost \in 0..MaxLost /\ snaps \in 0..MaxSnaps

(* A book that says it is synchronised and has applied an event is the     *)
(* exchange's book at that event, level by level, through lost events,     *)
(* snapshots taken in the middle of an event and late snapshots.           *)
BookExact == ob.synced /\ ob.lastU # NoU => ob.book = BookAt(ob.lastU)

(* A snapshot that an event of the buffer straddles, followed there by an  *)
(* unbroken chain, synchronises the book up to the end of the buffer.      *)
Chained(s) == \A i \in 2..Len(s) : s[i].pu = s[i - 1].u

CoveredSnapshotSyncs ==
  [][ LET s == ob.buffer
      IN OnSnapshot /\ Chained(s) /\ (\E i \in 1..Len(s) : s[i].U <= snap /\ snap <= s[i].u)
         => ob'.synced /\ ob'.lastU = s[Len(s)].u ]_depthVars
=============================================================================
