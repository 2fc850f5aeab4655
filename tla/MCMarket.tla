------------------------------ MODULE MCMarket ------------------------------
(* Model-checking instance of Market: short windows, a few events of each  *)
(* monitor and bars of each study, two kinds of features.                  *)
EXTENDS Market

MCLimit   == [c \in Category |-> 2]
Middling  == [retLong |-> "mid", rvLong |-> "mid", rvShort |-> "mid", volRatio |-> "mid",
              spread |-> "mid", lean |-> 0]
MCSamples == {Middling, [Middling EXCEPT !.retLong = "hi"]}
MCMaxSeen == [runaway |-> 5, breaker |-> 5, drift |-> 4, stream |-> 4, beta |-> 7, histogram |-> 4]
MCMaxBars == [labels |-> 8, timeframe |-> 5, barrier |-> 4, forward |-> 6]
=============================================================================
