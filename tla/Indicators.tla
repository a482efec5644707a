------------------------------- MODULE Indicators -------------------------------
(***************************************************************************)
(* A script that calls one indicator of pinelib.ta once per bar, and what  *)
(* its answers must be: the state a runtime keeps between bars, against    *)
(* the indicator's definition over all bars so far.                        *)
(***************************************************************************)
EXTENDS IndicatorStates

CONSTANTS
  Worlds,       \* [fn, len, bars]: an indicator, its length, the bars it may see
  MaxBars       \* bound on the bars of a run

\* The helpers that keep a state told bar by bar, and that answer from it.
Stated == {"sma", "median", "mode", "highest", "lowest", "change", "roc", "dev", "wma", "hma",
           "vwma", "mfi", "cmo", "variance", "correlation", "ema", "rma", "rsi", "macd", "tsi",
           "dmi", "vwap", "cross"}

\* The indicators that read whole bars, and those that weigh by volume.
Charted == {"dmi", "supertrend", "sar"}
Weighing == {"vwma", "mfi", "vwap", "correlation", "cross"}

\* Bar.validate: a close lies between the low and the high.
ASSUME IndicatorsAssumption ==
  /\ NA \notin Int /\ NA \notin Int \X Int
  /\ \A w \in Worlds :
       /\ w.fn \in Stated \cup {"supertrend", "sar", "window"}
       /\ w.len \in Nat \ {0}
       /\ NA \notin w.bars
       /\ \A b \in w.bars :
            /\ w.fn \notin Charted => b.c \in Int \cup {NA}
            /\ w.fn \in Charted => b.h \in Int /\ b.l \in Int /\ b.c \in b.l..b.h
            /\ w.fn \in Weighing => b.v \in Int \cup {NA}
            /\ w.fn = "vwap" => b.day \in Int

VARIABLES
  world,
  state,        \* indicator_state[state_id]; its out is the last answer
  fed           \* history: the bars so far

taVars == <<world, state, fed>>

\* The state the factory given to _state makes on the first call.
Fresh(fn) ==
  CASE fn = "sma" -> NewSma
    [] fn \in {"median", "mode", "highest", "lowest", "change", "roc", "dev"} -> NewWindow
    [] fn = "wma" -> NewWma
    [] fn = "hma" -> NewHma
    [] fn = "vwma" -> NewVwma
    [] fn = "mfi" -> NewFlow
    [] fn = "cmo" -> NewCmo
    [] fn = "variance" -> NewVariance
    [] fn = "correlation" -> NewPair
    [] fn \in {"ema", "rma"} -> NewSmooth
    [] fn = "rsi" -> NewRsi
    [] fn = "macd" -> NewMacd
    [] fn = "tsi" -> NewTsi
    [] fn = "dmi" -> NewDmi
    [] fn = "supertrend" -> NewSupertrend
    [] fn = "sar" -> NewSar
    [] fn = "vwap" -> NewVwap
    [] fn = "cross" -> NewCross
    [] fn = "window" -> [out |-> NA]

Update(fn, s, x, L) ==
  CASE fn = "sma" -> SmaUpdate(s, x, L)
    [] fn = "median" -> MedianUpdate(s, x, L)
    [] fn = "mode" -> ModeUpdate(s, x, L)
    [] fn = "highest" -> HighestUpdate(s, x, L)
    [] fn = "lowest" -> LowestUpdate(s, x, L)
    [] fn = "change" -> ChangeUpdate(s, x, L)
    [] fn = "roc" -> RocUpdate(s, x, L)
    [] fn = "dev" -> CciUpdate(s, x, L)
    [] fn = "wma" -> WmaUpdate(s, x, L)
    [] fn = "hma" -> HmaUpdate(s, x, L)
    [] fn = "vwma" -> VwmaUpdate(s, x, L)
    [] fn = "mfi" -> MfiUpdate(s, x, L)
    [] fn = "cmo" -> CmoUpdate(s, x, L)
    [] fn = "variance" -> VarianceUpdate(s, x, L)
    [] fn = "correlation" -> CorrelationUpdate(s, x, L)
    [] fn = "ema" -> EmaUpdate(s, Lift(x.c), L)
    [] fn = "rma" -> RmaUpdate(s, Lift(x.c), L)
    [] fn = "rsi" -> RsiUpdate(s, x, L)
    [] fn = "macd" -> MacdUpdate(s, x, L)
    [] fn = "tsi" -> TsiUpdate(s, x, L)
    [] fn = "dmi" -> DmiUpdate(s, x, L)
    [] fn = "supertrend" -> SupertrendUpdate(s, x, L)
    [] fn = "sar" -> SarUpdate(s, x, L)
    [] fn = "vwap" -> VwapUpdate(s, x, L)
    [] fn = "cross" -> CrossUpdate(s, x, L)
    [] fn = "window" -> s      \* an indicator without a state

Init ==
  /\ world \in Worlds
  /\ state = Fresh(world.fn)
  /\ fed = <<>>

Feed(x) ==
  /\ Len(fed) < MaxBars
  /\ (world.fn = "vwap" /\ fed # <<>>) => Last(fed).day <= x.day     \* time goes on
  /\ fed' = Append(fed, x)
  /\ state' = Update(world.fn, state, x, world.len)
  /\ UNCHANGED world

Next == \E x \in world.bars : Feed(x)

Spec == Init /\ [][Next]_taVars

-----------------------------------------------------------------------------
(* The definitions over all bars so far *)

Closes(bars) == [i \in 1..Len(bars) |-> bars[i].c]
Volumes(bars) == [i \in 1..Len(bars) |-> bars[i].v]
Highs(bars) == [i \in 1..Len(bars) |-> bars[i].h]
Lows(bars) == [i \in 1..Len(bars) |-> bars[i].l]
Seen(bars) == Clean(Closes(bars))

\* The last n of seq answered by F, na while there are fewer.
Over(seq, n, F(_)) == IF Len(seq) < n THEN NA ELSE F(LastN(seq, n))

\* As Over, for the helpers whose window counts na and is na with one in it.
Strict(seq, n, F(_)) ==
  IF Len(seq) < n \/ HasBlank(LastN(seq, n)) THEN NA ELSE F(LastN(seq, n))

\* The extreme of the last n, or of as many as there are.
Extreme(seq, n, F(_)) ==
  IF seq = <<>> THEN NA ELSE Whole(F(LastN(seq, IF Len(seq) < n THEN Len(seq) ELSE n)))

Biased(win) == Variance(win, TRUE)

\* The bars on which both the close and the volume are known.
KeepTraded(kept, b) == IF IsBlank(b.c) \/ IsBlank(b.v) THEN kept ELSE Append(kept, b)
Traded(bars) == FoldLeft(KeepTraded, <<>>, bars)

Gains(seq) == [i \in 1..Len(seq) |-> Whole(IF seq[i] > 0 THEN seq[i] ELSE 0)]
Losses(seq) == [i \in 1..Len(seq) |-> Whole(IF seq[i] < 0 THEN -seq[i] ELSE 0)]

Rsi(seq, n) ==
  LET gain == Rma(Gains(Differences(seq)), n)
      loss == Rma(Losses(Differences(seq)), n)
  IN  CASE Len(seq) <= n -> NA
        [] Len(seq) > n /\ Add(gain, loss) = Zero -> Whole(50)
        [] Len(seq) > n /\ Add(gain, loss) # Zero -> Div(Mul(Whole(100), gain), Add(gain, loss))

\* An average over the averages, of all moves but the first n.
EmasFrom(seq, n) == [i \in 1..Len(seq) |-> EmaFrom(SubSeq(seq, 1, i), n)]
Twice(moves, n) == EmaFrom(EmasFrom(SubSeq(moves, n + 1, Len(moves)), n), n + 1)

Sizes(moves) == [i \in 1..Len(moves) |-> Abs(moves[i])]

Tsi(seq, n) ==
  LET moves == Wholes(Differences(seq))
  IN  IF Len(moves) <= n \/ Twice(Sizes(moves), n) = Zero THEN NA
      ELSE Div(Twice(moves, n), Twice(Sizes(moves), n))

\* The bars of the last day, where days is not empty.
LastDay(days) ==
  LET n == Len(days)
      Opens(i) == i = 1 \/ days[i - 1].day # days[n].day
      first == CHOOSE i \in 1..n : Opens(i) /\ \A j \in i..n : days[j].day = days[n].day
  IN  SubSeq(days, first, n)

Vwap(bars) ==
  LET days == Traded(bars)
  IN  IF days = <<>> THEN NA ELSE Vwma(Closes(LastDay(days)), Volumes(LastDay(days)))

\* crossover and crossunder without a state: sources read one bar back.
Cross(bars) ==
  LET n == Len(bars)
  IN  IF n < 2 THEN <<FALSE, FALSE>>
      ELSE <<PineLt(bars[n].v, bars[n].c) /\ PineLte(bars[n - 1].c, bars[n - 1].v),
             PineLt(bars[n].c, bars[n].v) /\ PineLte(bars[n - 1].v, bars[n - 1].c)>>

VwmaOfBars(bars) == Vwma(Closes(bars), Volumes(bars))
MfiOfBars(bars) == Mfi(Closes(bars), Volumes(bars))

CorrelationOfBars(bars, n) ==
  LET xs == LastN(Closes(bars), n)
      ys == LastN(Volumes(bars), n)
  IN  IF Len(bars) < n \/ HasBlank(xs) \/ HasBlank(ys) THEN NA ELSE Correlation(xs, ys)

\* dmi answers na while there is no range.
DmiOfBars(bars, n) ==
  LET all == Dmi(bars, n, n) IN IF all[1] = NA THEN <<NA, NA, NA>> ELSE all

Defined(fn, bars, L) ==
  CASE fn = "sma" -> Over(Seen(bars), L, Sma)
    [] fn = "median" -> Over(Seen(bars), L, Median)
    [] fn = "mode" -> Over(Seen(bars), L, Mode)
    [] fn = "highest" -> Extreme(Seen(bars), L, Largest)
    [] fn = "lowest" -> Extreme(Seen(bars), L, Smallest)
    [] fn = "change" -> Over(Seen(bars), L + 1, Change)
    [] fn = "roc" -> Over(Seen(bars), L + 1, Roc)
    [] fn = "dev" -> Strict(Closes(bars), L, Cci)
    [] fn = "wma" -> Over(Seen(bars), L, Wma)
    [] fn = "hma" -> Hma(Seen(bars), L)
    [] fn = "vwma" -> Over(Traded(bars), L, VwmaOfBars)
    [] fn = "mfi" -> Over(Traded(bars), L + 1, MfiOfBars)
    [] fn = "cmo" -> Over(Seen(bars), L + 1, Cmo)
    [] fn = "variance" -> Strict(Closes(bars), L, Biased)
    [] fn = "correlation" -> CorrelationOfBars(bars, L)
    [] fn = "ema" -> Ema(Wholes(Seen(bars)), L)
    [] fn = "rma" -> Rma(Wholes(Seen(bars)), L)
    [] fn = "rsi" -> Rsi(Seen(bars), L)
    [] fn = "macd" -> Macd(Closes(bars), L, L + 1, L)
    [] fn = "tsi" -> Tsi(Seen(bars), L)
    [] fn = "dmi" -> DmiOfBars(bars, L)
    [] fn = "vwap" -> Vwap(bars)
    [] fn = "cross" -> Cross(bars)

-----------------------------------------------------------------------------
(* Properties *)

\* Helpers that answer an na with na and go on behind it.
Skips == {"wma", "hma", "vwma", "cmo", "change", "roc", "mfi", "tsi", "rsi", "vwap"}

LastIsBlank(fn, bars) ==
  /\ bars # <<>>
  /\ \/ IsBlank(Last(bars).c)
     \/ fn \in {"vwma", "mfi", "vwap"} /\ IsBlank(Last(bars).v)

Answer(fn, bars, L) ==
  IF fn \in Skips /\ LastIsBlank(fn, bars) THEN NA ELSE Defined(fn, bars, L)

\* Whatever a state has kept (running totals that drop the oldest value, counts
\* of na, warm-up windows, seeds, the last value of a smoothing), its answer is
\* the indicator's definition over all bars so far: an na in the series neither
\* shifts a window nor stays in a total.
StateIsDefinition ==
  world.fn \in Stated =>
    state.out = Answer(world.fn, fed, world.len)

Within(v, low, high) == v = NA \/ (Leq(low, v) /\ Leq(v, high))
Scaled(v) == Within(v, Zero, Whole(100))
Among(v, seq) == Within(v, Whole(Smallest(seq)), Whole(Largest(seq)))

\* Volumes are amounts; money flow takes prices for amounts too.
Amounts(seq) == \A i \in 1..Len(seq) : seq[i] # NA => seq[i] >= 0

\* An average stays between the lowest and the highest value seen.
AveragesInRange ==
  /\ world.fn \in {"sma", "median", "mode", "wma", "ema", "rma"} /\ Seen(fed) # <<>> =>
       Among(state.out, Seen(fed))
  /\ world.fn \in {"vwma", "vwap"} /\ Amounts(Volumes(fed)) /\ Seen(fed) # <<>> =>
       Among(state.out, Seen(fed))

\* An oscillator stays inside its scale.
OscillatorsInRange ==
  /\ world.fn = "rsi" => Scaled(state.out)
  /\ world.fn = "mfi" /\ Amounts(Volumes(fed)) /\ Amounts(Closes(fed)) => Scaled(state.out)
  /\ world.fn = "cmo" => Within(state.out, Whole(-100), Whole(100))
  /\ world.fn = "tsi" => Within(state.out, Whole(-1), Whole(1))
  /\ world.fn = "dmi" => \A i \in 1..3 : Scaled(state.out[i])

\* A rank stays inside its scale, or among the values it ranks.
RanksInRange ==
  LET recent == LastN(fed, world.len)
  IN  /\ world.fn \in Charted /\ Len(fed) >= world.len =>
           Scaled(Stoch(Last(fed).c, Highs(recent), Lows(recent)))
      /\ world.fn = "window" =>
           /\ Scaled(Strict(Closes(fed), world.len, PercentRank))
           /\ Len(fed) >= world.len /\ Seen(fed) # <<>> =>
                \A p \in 0..100 : Among(NearestRank(LastN(Closes(fed), world.len), p), Seen(fed))
           /\ Seen(fed) # <<>> => Among(Strict(Closes(fed), 4, Swma), Seen(fed))

\* From the first bar it answers on, an answer is in its range.
AnswersInRange == AveragesInRange /\ OscillatorsInRange /\ RanksInRange

\* A pivot a runtime tells rightbars after the fact is the one the batch form
\* marks on the pivot's own bar: told once its right side is complete, about
\* the bar it is about, whatever comes later.
PivotsConfirmed ==
  world.fn = "window" =>
    \A left, right \in 1..MaxBars, high \in BOOLEAN :
      Pivot(Closes(fed), left, right, high)
        = PivotBatch(Closes(fed), Len(fed) - right, left, right, high)

Trails(up, a, b) == IF up THEN Leq(a, b) ELSE Leq(b, a)

\* The close of the bar before is on the side of its line that the direction
\* says: the first line after the warm-up and crossed bands leave it.
Held(s) == IF s.out[2] = -1 THEN ~Less(Whole(s.close), s.line)
                            ELSE ~Less(s.line, Whole(s.close))

\* A trailing stop only moves with its trend: while the direction holds, the
\* sar never gives ground, nor does the line of supertrend that the close
\* before has not crossed.
TrailsTrend ==
  [][/\ world.fn = "supertrend" /\ state.line # NA /\ state.out[2] = state'.out[2]
          /\ Held(state) => Trails(state'.out[2] = -1, state.line, state'.line)
     /\ world.fn = "sar" /\ state.out # NA /\ state.long = state'.long =>
          Trails(state'.long, state.sar, state'.sar)]_taVars

=============================================================================
