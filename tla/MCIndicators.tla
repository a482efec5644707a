------------------------------ MODULE MCIndicators ------------------------------
(***************************************************************************)
(* TLC instance: every indicator that keeps a state, with short lengths,   *)
(* over all sequences of a few bars: falls, rises, repeats and na.         *)
(***************************************************************************)
EXTENDS Indicators

Values == {[c |-> v] : v \in {1, 2, 5, NA}}
Wide == {[c |-> v] : v \in {-2, 0, 3}}
Traffic == {[c |-> 1, v |-> 1], [c |-> 4, v |-> 0], [c |-> 2, v |-> 3],
            [c |-> NA, v |-> 2], [c |-> 3, v |-> NA]}
Days == {[c |-> 1, v |-> 1, day |-> 1], [c |-> 4, v |-> 0, day |-> 2],
         [c |-> 2, v |-> 3, day |-> 2], [c |-> NA, v |-> 2, day |-> 3],
         [c |-> 3, v |-> 2, day |-> 3]}
Candles == {[h |-> 4, l |-> 2, c |-> 3], [h |-> 7, l |-> 4, c |-> 7],
            [h |-> 2, l |-> 1, c |-> 1], [h |-> 2, l |-> 2, c |-> 2],
            [h |-> 8, l |-> 1, c |-> 4]}

\* Candles wide enough for the bands of supertrend to cross.
WideCandles == {[h |-> 4, l |-> 2, c |-> 3], [h |-> 7, l |-> 1, c |-> 7],
                [h |-> 10, l |-> 1, c |-> 2], [h |-> 20, l |-> 3, c |-> 4],
                [h |-> 9, l |-> 8, c |-> 9], [h |-> 5, l |-> 5, c |-> 5]}

World(fns, lens, bars) == [fn : fns, len : lens, bars : {bars}]

MCWorlds ==
  UNION {World({"sma", "median", "mode", "highest", "lowest", "wma", "change"}, {2, 3}, Values),
         World({"variance", "dev"}, {2, 3}, Values),
         World({"hma"}, {4}, Values),
         World({"ema", "rma", "rsi", "macd"}, {2}, Values),
         World({"roc", "cmo", "tsi"}, {1, 2}, Wide),
         World({"vwma", "mfi", "correlation", "cross"}, {2}, Traffic),
         World({"vwap"}, {1}, Days),
         World({"dmi", "supertrend", "sar"}, {2}, Candles),
         World({"supertrend"}, {3}, WideCandles),
         World({"window"}, {3}, Values)}
=============================================================================
