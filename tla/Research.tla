------------------------------ MODULE Research ------------------------------
(***************************************************************************)
(* The studies over recorded bars (research/features.py, timeframe.py,     *)
(* barrier.py, forward.py) and the engine that labels the same bars as     *)
(* they close (core/state_engine.py).  A behaviour is the recording: one   *)
(* bar more in every step, for one of the studies.                         *)
(*                                                                         *)
(* What can go wrong is looking ahead: a study that uses what was not      *)
(* known yet, or an engine that labels otherwise than the study its rules  *)
(* were chosen by.  Times are minutes, prices small integers.              *)
(***************************************************************************)
EXTENDS RiskChecks, Decisions, SequencesExt

CONSTANTS
  W, NShort, NLong,  \* windows of the features, in bars; no code compares
                     \* them, and what the engine keeps covers a short one
                     \* of up to W + NLong + 1
  PLo, PHi,          \* percentiles of the labels, in percent
  Span,              \* minutes of an upper time frame
  MaxHold,           \* bars a study holds a position
  Horizons,          \* bars ahead a forward sample looks
  MaxBars            \* bound: bars, by study

Study == {"labels", "timeframe", "barrier", "forward"}

ASSUME ResAssumption ==
  /\ W \in Nat \ {0} /\ NShort \in Nat \ {0} /\ NLong \in Nat \ {0} /\ NShort <= W + NLong + 1
  /\ PLo \in 0..100 /\ PHi \in 0..100 /\ Span \in Nat \ {0} /\ MaxHold \in Nat \ {0}
  /\ Horizons \subseteq Nat \ {0} /\ MaxBars \in [Study -> Nat]

VARIABLES
  study,
  tape,  \* the recording
  kept   \* the bars the state engine still has (labels)

resVars == <<study, tape, kept>>

Beginnings == Prefixes(tape) \ {<< >>}
LeastOf(S) == CHOOSE a \in S : \A b \in S : a <= b
MostOf(S)  == CHOOSE a \in S : \A b \in S : b <= a
TotalOf(s) == FoldLeft(LAMBDA a, b : a + b, 0, s)

-----------------------------------------------------------------------------
(* The features of bar k of a series: the return (a ratio), the realised   *)
(* volatility (how often the price moved) and the volume against its       *)
(* average; 12 makes the ratios integers.                                  *)
LabelBar == {[close |-> c, vol |-> v] : c \in (IF tape = << >> THEN {1} ELSE {1, 2}), v \in {1, 2}}

Ret(b, k, n) == IF k <= n THEN NA ELSE (12 * b[k].close) \div b[k - n].close
Rv(b, k, n)  ==
  IF k <= n THEN NA ELSE Cardinality({j \in (k - n + 1)..k : b[j].close # b[j - 1].close})
VolRatio(b, k) ==
  IF k <= W THEN NA
  ELSE (12 * W * b[k].vol) \div TotalOf([j \in 1..W |-> b[k - j].vol])

(* rolling_pct: the rank of the last value of a series among the W before  *)
(* it; none while one is missing, or when none of them differs.            *)
RollingPct(f, k) ==
  LET window == (k - W)..(k - 1)
      rank   == Cardinality({j \in window : f[j] <= f[k]})
  IN IF k <= W \/ f[k] = NA \/ (\E j \in window : f[j] = NA) \/ (\A j \in window : f[j] = f[k])
     THEN "none"
     ELSE IF rank * 100 < PLo * W THEN "lo" ELSE IF rank * 100 > PHi * W THEN "hi" ELSE "mid"

(* compute_features; the spread of the recording is constant. *)
FeaturesAt(b, k) ==
  [retLong  |-> RollingPct([j \in 1..k |-> Ret(b, j, NLong)], k),
   rvLong   |-> RollingPct([j \in 1..k |-> Rv(b, j, NLong)], k),
   rvShort  |-> RollingPct([j \in 1..k |-> Rv(b, j, NShort)], k),
   volRatio |-> RollingPct([j \in 1..k |-> VolRatio(b, j)], k),
   spread   |-> "none", lean |-> 0]

(* Mutant: the window of the engine forgets that a percentile of a moving  *)
(* average needs the bars of both.                                         *)
KeepShort == W + NLong + 1
Keep == 2 * W + NLong + 2
(* SymbolStateEngine.on_bar. *)
OnBarKept(b) ==
  LET all == Append(kept, b)
  IN kept' = IF Len(all) > Keep THEN SubSeq(all, Len(all) - Keep + 1, Len(all)) ELSE all

(* The engine's label, from the bars it kept, is the one the study gives   *)
(* the same bar from the whole recording.                                  *)
LabelsAgree == LabelOf(FeaturesAt(kept, Len(kept))) = LabelOf(FeaturesAt(tape, Len(tape)))

-----------------------------------------------------------------------------
(* aggregate and _fold: bars of one minute into bars of Span minutes.      *)
LastMinute   == IF tape = << >> THEN 0 ELSE tape[Len(tape)].t
TimeframeBar == {[t |-> LastMinute + d, px |-> p] : d \in 1..3, p \in {1, 2}}

Folded(group, key) ==
  IF Len(group) # Span THEN << >>
  ELSE << [t |-> key, open |-> group[1].px, close |-> group[Span].px,
           high |-> MostOf({group[k].px : k \in DOMAIN group}),
           low |-> LeastOf({group[k].px : k \in DOMAIN group})] >>

IntoBucket(a, x) ==
  LET key == x.t \div Span
  IN IF key = a.key THEN [a EXCEPT !.cur = Append(a.cur, x)]
     ELSE [out |-> a.out \o Folded(a.cur, a.key), cur |-> <<x>>, key |-> key]

Aggregate(b) ==
  LET upto[i \in 0..Len(b)] == IF i = 0 THEN [out |-> << >>, cur |-> << >>, key |-> NA]
                               ELSE IntoBucket(upto[i - 1], b[i])
      end == upto[Len(b)]
  IN end.out \o Folded(end.cur, end.key)

(* The upper frame has a bar for every bucket of which all minutes were    *)
(* recorded, and no later minute changes one that is there.                *)
FramesExact ==
  LET At(m)   == {k \in DOMAIN tape : tape[k].t = m}
      Whole   == {b \in 0..(LastMinute \div Span) : \A m \in (b * Span)..(b * Span + Span - 1) : At(m) # {}}
      frames  == Aggregate(tape)
      Px(m)   == tape[CHOOSE k \in At(m) : TRUE].px
  IN /\ {frames[k].t : k \in DOMAIN frames} = Whole /\ Len(frames) = Cardinality(Whole)
     /\ \A k \in DOMAIN frames :
          /\ frames[k].open = Px(frames[k].t * Span)
          /\ frames[k].close = Px(frames[k].t * Span + Span - 1)
     /\ \A b \in Beginnings : IsPrefix(Aggregate(b), frames)

-----------------------------------------------------------------------------
(* evaluate: a position entered at 10 with its stop and its target two     *)
(* away.  A bar has its extremes, its close and the next settlement of the *)
(* funding (NA when it is not known); a settlement costs a long one unit.  *)
LastSettle == LET known == {tape[k].nf : k \in DOMAIN tape} \ {NA}
              IN IF known = {} THEN 1 ELSE MostOf(known)
BarrierBar ==
  {[low |-> x[1], high |-> x[2], close |-> x[3], nf |-> f] :
     x \in {<<9, 10, 9>>, <<10, 11, 11>>, <<8, 10, 10>>, <<10, 12, 10>>, <<8, 12, 10>>},
     f \in {NA} \cup LastSettle..2}

HitSl(side, b) == IF side = "long" THEN b.low <= 8 ELSE b.high >= 12
HitTp(side, b) == IF side = "long" THEN b.high >= 12 ELSE b.low <= 8
Toward(side)   == IF side = "long" THEN 1 ELSE -1
CostOf(reason) == IF reason = "tp" THEN 1 ELSE 2
Result(side, reason, px, n, fund) ==
  [reason |-> reason, bars |-> n, net |-> (px - 10) * Toward(side) - CostOf(reason) - fund]

HoldBar(side, a, x) ==
  IF a.reason # "timeout" THEN a
  ELSE IF HitSl(side, x)
  THEN [a EXCEPT !.reason = "sl", !.px = 10 - 2 * Toward(side), !.n = a.n + 1]
  ELSE IF HitTp(side, x)
  THEN [a EXCEPT !.reason = "tp", !.px = 10 + 2 * Toward(side), !.n = a.n + 1]
  ELSE [reason |-> "timeout", px |-> x.close, n |-> a.n + 1,
        fund |-> a.fund + (IF x.nf # NA /\ a.settle # NA /\ x.nf # a.settle THEN Toward(side) ELSE 0),
        settle |-> IF x.nf # NA THEN x.nf ELSE a.settle]

Evaluate(side, b) ==
  LET longest == Lesser(MaxHold, Len(b))
      after[i \in 0..longest] ==
        IF i = 0 THEN [reason |-> "timeout", px |-> NA, n |-> 0, fund |-> 0, settle |-> b[1].nf]
        ELSE HoldBar(side, after[i - 1], b[i])
      end == after[longest]
  IN Result(side, end.reason, end.px, end.n, end.fund)

(* The outcome is the worst of those the bars leave open (which of two     *)
(* barriers of one bar was touched first is not known), funding is paid    *)
(* for the settlements of the bars held through, and once a barrier or the *)
(* longest hold is reached no later bar changes it.                        *)
BarriersExact ==
  \A side \in {"long", "short"} :
    LET held    == 1..Lesser(MaxHold, Len(tape))
        hits    == {k \in held : HitSl(side, tape[k]) \/ HitTp(side, tape[k])}
        through == IF hits = {} THEN held ELSE 1..(LeastOf(hits) - 1)
        nfs     == {tape[k].nf : k \in through} \ {NA}
        paid    == Toward(side) * (IF nfs = {} THEN 0 ELSE Cardinality(nfs) - 1)
        open    == IF hits = {} THEN {tape[MostOf(held)].close * Toward(side) - 10 * Toward(side) - 2}
                   ELSE {IF s THEN -4 ELSE 1 : s \in {t \in BOOLEAN :
                           IF t THEN HitSl(side, tape[LeastOf(hits)]) ELSE HitTp(side, tape[LeastOf(hits)])}}
    IN /\ Evaluate(side, tape).net = LeastOf(open) - paid
       /\ \A b \in Beginnings : (Evaluate(side, b).reason # "timeout" \/ Len(b) >= MaxHold)
                                => Evaluate(side, b) = Evaluate(side, tape)

-----------------------------------------------------------------------------
(* forward_samples: a label's entry is the open of the next bar, its exit  *)
(* the close h bars on, without a gap between, and samples of one horizon  *)
(* do not overlap.                                                         *)
ForwardBar == {[t |-> LastMinute + d, label |-> l] : d \in {1, 2}, l \in {"S0", "S1"}}

Candidates(b, h) ==
  {i \in DOMAIN b : b[i].label = "S1" /\ i + h <= Len(b) /\ b[i + h].t - b[i].t = h}
ForwardSamples(b, h) ==
  LET taken[i \in 0..Len(b)] ==
        IF i = 0 THEN {}
        ELSE IF i \in Candidates(b, h) /\ \A j \in taken[i - 1] : i >= j + h
        THEN taken[i - 1] \cup {i} ELSE taken[i - 1]
  IN taken[Len(b)]

(* No two samples overlap, a candidate is left out only for an earlier     *)
(* sample it overlaps, and a later bar only adds samples that end with it. *)
SamplesExact ==
  \A h \in Horizons :
    LET taken == ForwardSamples(tape, h)
    IN /\ \A i, j \in taken : i # j => (i >= j + h \/ j >= i + h)
       /\ \A i \in Candidates(tape, h) \ taken : \E j \in taken : j < i /\ i < j + h
       /\ \A b \in Beginnings : ForwardSamples(b, h) = {i \in taken : i + h <= Len(b)}

-----------------------------------------------------------------------------
ResInit == study \in Study /\ tape = << >> /\ kept = << >>

Recorded(s, b) == Len(tape) < MaxBars[s] /\ tape' = Append(tape, b) /\ UNCHANGED study

RecordLabels    == study = "labels" /\ \E b \in LabelBar : Recorded("labels", b) /\ OnBarKept(b)
RecordTimeframe == study = "timeframe" /\ \E b \in TimeframeBar : Recorded("timeframe", b) /\ UNCHANGED kept
RecordBarrier   == study = "barrier" /\ \E b \in BarrierBar : Recorded("barrier", b) /\ UNCHANGED kept
RecordForward   == study = "forward" /\ \E b \in ForwardBar : Recorded("forward", b) /\ UNCHANGED kept

ResNext == RecordLabels \/ RecordTimeframe \/ RecordBarrier \/ RecordForward

(* No study looks ahead, and each one's result is what its definition over *)
(* the whole recording says.                                               *)
BacktestExact ==
  tape # << >> =>
    CASE study = "labels"  -> LabelsAgree   [] study = "timeframe" -> FramesExact
      [] study = "barrier" -> BarriersExact [] study = "forward"   -> SamplesExact
=============================================================================
