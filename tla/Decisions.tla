------------------------------ MODULE Decisions ------------------------------
(***************************************************************************)
(* From the features of a closed bar to an entry intent: the label of the  *)
(* market's state (research/states.py) and the decision rule               *)
(* (core/decision.py: decide_explain).  Pure functions; a feature          *)
(* percentile is "lo", "mid", "hi" against p_lo and p_hi, or "none" while  *)
(* the window is too short.  The bounds belong to "mid", but p_hi of the   *)
(* spread to "hi".                                                         *)
(***************************************************************************)
EXTENDS Integers, Sequences

Percentile == {"none", "lo", "mid", "hi"}
Features   == [retLong : Percentile, rvLong : Percentile, rvShort : Percentile,
               volRatio : Percentile, spread : Percentile, lean : {-1, 0, 1}]

(* label_state: S4 before the trends before the squeeze. *)
LabelOf(f) ==
  LET extreme == f.rvShort = "hi" /\ f.volRatio = "hi"
      trend   == ~extreme /\ f.rvLong = "mid"
  IN CASE extreme                         -> "S4"
       [] trend /\ f.retLong = "hi"       -> "S1"
       [] trend /\ f.retLong = "lo"       -> "S2"
       [] ~extreme /\ f.rvLong = "lo" /\ f.spread # "hi" -> "S3"
       [] OTHER                           -> "S0"

(* directions: the sides a label speaks for.  lean is the sign of the      *)
(* order flow (S3) or of the last return (S4), 0 when it is not known.     *)
Directions(label, lean) ==
  CASE label = "S1" -> <<"long">>
    [] label = "S2" -> <<"short">>
    [] label = "S3" -> IF lean = 0 THEN << >> ELSE IF lean > 0 THEN <<"long">> ELSE <<"short">>
    [] label = "S4" -> IF lean >= 0 THEN <<"long", "short">> ELSE <<"short", "long">>
    [] OTHER        -> << >>

Sides(label, lean) == {Directions(label, lean)[k] : k \in DOMAIN Directions(label, lean)}

-----------------------------------------------------------------------------
(* decide_explain.  v is the engine's view of the symbol, d the decision   *)
(* configuration: d.cells is the list of allowed <<label, side>>, a guard  *)
(* or an age of -1 is off.                                                 *)
Matching(v, d) ==
  {k \in DOMAIN d.cells : d.cells[k][1] = v.label /\ d.cells[k][2] \in Sides(v.label, v.lean)}
InGuard(v, d) == d.guard # -1 /\ v.toFunding >= 0 /\ v.toFunding < d.guard

Blocked(v, d) ==
  \/ v.hasPosition
  \/ v.label = "S0" \/ Matching(v, d) = {}                  \* D1
  \/ d.maxAge # -1 /\ v.age > d.maxAge                      \* D2
  \/ v.stale \/ v.spread # "tight" \/ InGuard(v, d)         \* D3
  \/ v.label \notin d.measured                              \* no stop, no target

Chosen(v, d) == d.cells[CHOOSE k \in Matching(v, d) : \A j \in Matching(v, d) : k <= j][2]
Decided(v, d) == IF Blocked(v, d) THEN {} ELSE {Chosen(v, d)}
=============================================================================
