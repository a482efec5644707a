------------------------------ MODULE PineRuntime ------------------------------
(***************************************************************************)
(* The bar runtime of pinelib/core/runtime.py with the history series of   *)
(* pinelib/core/series.py.  A host opens a historical or a realtime bar,   *)
(* feeds ticks to a realtime one, runs the script (which creates series,   *)
(* sets and reads them, and updates its indicator and varip state), and    *)
(* ends the bar, which commits every registered series.  export_state and  *)
(* restore_state roll an attempt back or resume a run in a new process.    *)
(*                                                                         *)
(* Abstractions.  The eight built-in series are set and committed together *)
(* and are one series, BarName, whose values pair the exposed bar index    *)
(* with the bar.  Everything the snapshot copies as a whole and the        *)
(* runtime never looks into (indicator state, plots, drawings, request     *)
(* caches, input metadata, diagnostics) is the one variable memory.  A     *)
(* bar's open price never changes and is left out, as are isfirst, islast  *)
(* and ishistory, which follow from the index and isrealtime.  A call the  *)
(* code rejects is a step that is not enabled.                             *)
(***************************************************************************)
EXTENDS Integers, Sequences

CONSTANTS
  Names,        \* names a script gives its series
  BarName,      \* the built-in series
  NA,           \* the na value
  FalseValue,   \* what a bool series reads before its first bar
  BoolValues,   \* the two values of a bool
  Values,       \* values a script sets, the bool ones included
  Initials,     \* values a script gives a series it creates
  Dtypes,       \* dtypes a script gives its series
  Marks,        \* contents of indicator and of varip state
  Bars,         \* bars a host may open
  Ticks,        \* ticks a host may feed
  None,         \* an absent time, bar or state
  Interval,     \* timeframe.interval_ms
  InferClose,   \* config.allow_incomplete_bar_time_close
  Offset,       \* bar_index_offset
  Careful,      \* TRUE: the host opens, works on and ends bars in turn
  MaxBars,      \* bound on the bars opened
  MaxVolume     \* bound on the volume ticks add up to

BarRecords ==
  [time : Nat, timeClose : Nat \cup {None}, high : Nat, low : Nat,
   close : Nat, volume : Nat]

TickRecords ==
  [price : Nat, volume : Nat, time : Nat \cup {None}, final : BOOLEAN]

ASSUME RuntimeAssumption ==
  /\ BarName \notin Names
  /\ Dtypes \subseteq {"float", "bool", "array"}
  /\ FalseValue \in BoolValues
  /\ NA \notin Values
  /\ Initials \subseteq Values \cup {NA}
  /\ None \notin Nat
  /\ None \notin BarRecords
  /\ Bars \subseteq BarRecords
  /\ Ticks \subseteq TickRecords
  /\ Interval \in Nat \ {0}
  /\ Offset \in Int
  /\ InferClose \in BOOLEAN
  /\ Careful \in BOOLEAN
  /\ MaxBars \in Nat
  /\ MaxVolume \in Nat

VARIABLES
  barIndex,    \* bar_index, -1 before the first commit
  currentBar,
  chartBars,
  series,      \* series_registry: name -> dtype, current, history, between
  barstate,
  memory,      \* indicator_state and all that is copied with it
  varip,       \* varip_state
  saved,       \* <<>>, or the one snapshot the host holds
  open,        \* history: a bar was begun and not ended
  truth        \* history: the values the registered series had at each end_bar

runtimeVars == <<barIndex, currentBar, chartBars, series, barstate, memory,
                 varip, open, truth>>
vars == <<runtimeVars, saved>>

-----------------------------------------------------------------------------
(* Series *)

NewSeriesOf(dtype, initial) ==
  [dtype |-> dtype, initial |-> initial, current |-> initial,
   history |-> <<>>, between |-> FALSE]

KeepsHistory(s) == s.dtype # "array"

Blank(s) == IF s.dtype = "bool" THEN FalseValue ELSE NA

Settable(s, v) == s.dtype = "bool" => v # NA

SetTo(s, v) == [s EXCEPT !.current = v, !.between = FALSE]

InBar(s) == [s EXCEPT !.between = FALSE]

Committed(s) ==
  [s EXCEPT !.history = IF KeepsHistory(s) THEN Append(@, s.current) ELSE <<>>]

\* Series.__getitem__: history is 1-based here.
At(s, offset) ==
  LET index == IF s.between THEN Len(s.history) - offset
                            ELSE Len(s.history) - offset + 1
  IN  CASE offset = 0                   -> s.current
        [] offset > 0 /\ index \geq 1   -> s.history[index]
        [] offset > 0 /\ ~(index \geq 1) -> Blank(s)

WithSeries(registry, name, s) ==
  [n \in DOMAIN registry \cup {name} |-> IF n = name THEN s ELSE registry[n]]

-----------------------------------------------------------------------------

EmptyRegistry == [n \in {BarName} |-> NewSeriesOf("float", NA)]

FreshBarState ==
  [realtime |-> FALSE, isnew |-> TRUE, confirmed |-> FALSE, lastHistory |-> FALSE]

ExposedBar(bar) == [index |-> barIndex + 1 + Offset, bar |-> bar]

Init ==
  /\ barIndex = -1
  /\ currentBar = None
  /\ chartBars = <<>>
  /\ series = EmptyRegistry
  /\ barstate = FreshBarState
  /\ memory = None
  /\ varip = None
  /\ saved = <<>>
  /\ open = FALSE
  /\ truth = <<>>

\* Mutant: the missing close time is not inferred.
NotNormalized(bar) == bar

Normalized(bar) ==
  IF bar.timeClose # None THEN bar
  ELSE [bar EXCEPT !.timeClose = bar.time + Interval - 1]

\* begin_bar and begin_realtime_bar differ in the bar state alone.
OpenBar(bar, realtime) ==
  /\ Careful => ~open
  /\ Len(chartBars) < MaxBars
  /\ bar.timeClose # None \/ InferClose
  /\ currentBar' = Normalized(bar)
  /\ chartBars' = Append(chartBars, Normalized(bar))
  /\ barstate' = [FreshBarState EXCEPT !.realtime = realtime]
  /\ series' = [n \in DOMAIN series |->
                  IF n = BarName
                  THEN SetTo(series[n], ExposedBar(Normalized(bar)))
                  ELSE InBar(series[n])]
  /\ open' = TRUE
  /\ UNCHANGED <<barIndex, memory, varip, saved, truth>>

BeginBar(bar) == OpenBar(bar, FALSE)

BeginRealtimeBar(bar) == OpenBar(bar, TRUE)

Larger(a, b) == IF a < b THEN b ELSE a
Smaller(a, b) == IF a < b THEN a ELSE b

\* Mutant: the high follows the price down.
TickedToPrice(bar, tick) ==
  [bar EXCEPT !.high = tick.price, !.low = Smaller(@, tick.price),
              !.close = tick.price, !.volume = @ + tick.volume]

Ticked(bar, tick) ==
  [bar EXCEPT !.high = Larger(@, tick.price),
              !.low = Smaller(@, tick.price),
              !.close = tick.price,
              !.volume = @ + tick.volume]

\* Mutant: chart_bars[bar_index], the bar committed last, for chart_bars[-1].
CommittedPlace == IF barIndex < 0 THEN Len(chartBars) ELSE barIndex + 1

LastPlace == Len(chartBars)

UpdateRealtimeTick(tick) ==
  /\ Careful => open
  /\ currentBar # None
  /\ barstate.realtime
  /\ tick.time # None => /\ currentBar.time \leq tick.time
                         /\ tick.time \leq currentBar.timeClose
  /\ currentBar.volume + tick.volume \leq MaxVolume
  /\ currentBar' = Ticked(currentBar, tick)
  /\ chartBars' = [chartBars EXCEPT ![LastPlace] = Ticked(currentBar, tick)]
  /\ barstate' = [realtime |-> TRUE, isnew |-> FALSE, confirmed |-> tick.final,
                  lastHistory |-> FALSE]
  /\ series' = [series EXCEPT ![BarName] =
                  SetTo(@, ExposedBar(Ticked(currentBar, tick)))]
  /\ UNCHANGED <<barIndex, memory, varip, saved, open, truth>>

EndBar ==
  /\ Careful => open
  /\ currentBar # None
  /\ barIndex + 1 < MaxBars
  /\ series' = [n \in DOMAIN series |->
                  [Committed(series[n]) EXCEPT !.between = @ \/ ~barstate.realtime]]
  /\ barIndex' = barIndex + 1
  /\ barstate' = [barstate EXCEPT !.isnew = FALSE, !.confirmed = TRUE]
  /\ open' = FALSE
  /\ truth' = Append(truth, [n \in DOMAIN series |-> series[n].current])
  /\ UNCHANGED <<currentBar, chartBars, memory, varip, saved>>

SetLastConfirmedHistory(value) ==
  /\ barstate' = [barstate EXCEPT !.lastHistory = value]
  /\ UNCHANGED <<barIndex, currentBar, chartBars, series, memory, varip, saved,
                 open, truth>>

\* What a script or a host changes between the bar calls.
ScriptStep ==
  UNCHANGED <<barIndex, currentBar, chartBars, barstate, saved, open, truth>>

NewSeries(name, dtype, initial) ==
  /\ name \notin DOMAIN series
  /\ series' = WithSeries(series, name, NewSeriesOf(dtype, initial))
  /\ ScriptStep
  /\ UNCHANGED <<memory, varip>>

SetCurrent(name, v) ==
  /\ Careful => open
  /\ name \in DOMAIN series
  /\ Settable(series[name], v)
  /\ series' = [series EXCEPT ![name] = SetTo(@, v)]
  /\ ScriptStep
  /\ UNCHANGED <<memory, varip>>

\* expr_history registers its series on the first use, typed by the value.
ExprDtype(v) == IF v \in BoolValues THEN "bool" ELSE "float"

ExprHistory(name, v) ==
  LET s == IF name \in DOMAIN series THEN series[name]
                                     ELSE NewSeriesOf(ExprDtype(v), NA)
  IN  /\ Careful => open
      /\ s.dtype = ExprDtype(v)
      /\ series' = WithSeries(series, name, SetTo(s, v))
      /\ ScriptStep
      /\ UNCHANGED <<memory, varip>>

UpdateMemory(m) ==
  /\ memory' = m
  /\ ScriptStep
  /\ UNCHANGED <<series, varip>>

UpdateVarip(m) ==
  /\ varip' = m
  /\ ScriptStep
  /\ UNCHANGED <<series, memory>>

ResetVaripState ==
  /\ varip' = None
  /\ ScriptStep
  /\ UNCHANGED <<series, memory>>

\* The snapshot; its varip is <<>> under the policy preserve_existing.
Snapshot(includeVarip) ==
  [barIndex |-> barIndex, currentBar |-> currentBar, chartBars |-> chartBars,
   series |-> series, barstate |-> barstate, memory |-> memory,
   varip |-> IF includeVarip THEN <<varip>> ELSE <<>>,
   open |-> open, truth |-> truth]

ExportState(includeVarip) ==
  /\ saved' = <<Snapshot(includeVarip)>>
  /\ UNCHANGED runtimeVars

\* restore_state refuses a snapshot that lacks a series of the runtime.
Restorable(state) ==
  \A n \in DOMAIN series : /\ n \in DOMAIN state.series
                           /\ state.series[n].dtype = series[n].dtype
                           /\ state.series[n].initial = series[n].initial

\* Mutant: a series that exists keeps its own between flag.
LiveFlags(state) ==
  [n \in DOMAIN state.series |->
     [state.series[n] EXCEPT !.between = IF n \in DOMAIN series
                                         THEN series[n].between ELSE FALSE]]

RestoredSeries(state) == state.series

\* Mutant: a snapshot without varip clears it.
ClearedVarip(state) == IF state.varip = <<>> THEN None ELSE state.varip[1]

RestoredVarip(state) == IF state.varip = <<>> THEN varip ELSE state.varip[1]

RestoreState ==
  /\ saved # <<>>
  /\ Restorable(saved[1])
  /\ barIndex' = saved[1].barIndex
  /\ currentBar' = saved[1].currentBar
  /\ chartBars' = saved[1].chartBars
  /\ series' = RestoredSeries(saved[1])
  /\ barstate' = saved[1].barstate
  /\ memory' = saved[1].memory
  /\ varip' = RestoredVarip(saved[1])
  /\ open' = saved[1].open
  /\ truth' = saved[1].truth
  /\ UNCHANGED saved

\* The process ends and a new runtime is constructed; the snapshot survives.
NewRuntime ==
  /\ barIndex' = -1
  /\ currentBar' = None
  /\ chartBars' = <<>>
  /\ series' = EmptyRegistry
  /\ barstate' = FreshBarState
  /\ memory' = None
  /\ varip' = None
  /\ open' = FALSE
  /\ truth' = <<>>
  /\ UNCHANGED saved

Next ==
  \/ \E bar \in Bars : BeginBar(bar) \/ BeginRealtimeBar(bar)
  \/ \E tick \in Ticks : UpdateRealtimeTick(tick)
  \/ EndBar
  \/ \E value \in BOOLEAN : SetLastConfirmedHistory(value)
  \/ \E name \in Names :
       \/ \E dtype \in Dtypes, initial \in Initials : NewSeries(name, dtype, initial)
       \/ \E v \in Values \cup {NA} : SetCurrent(name, v) \/ ExprHistory(name, v)
  \/ \E m \in Marks : UpdateMemory(m) \/ UpdateVarip(m)
  \/ ResetVaripState
  \/ \E includeVarip \in BOOLEAN : ExportState(includeVarip)
  \/ RestoreState
  \/ NewRuntime

Spec == Init /\ [][Next]_vars
-----------------------------------------------------------------------------
(* Properties *)

BarValues == [index : Int, bar : BarRecords]

SeriesOf(values) ==
  [dtype : Dtypes \cup {"float", "bool"}, initial : Values \cup {NA}, current : values \cup {NA},
   history : Seq(values \cup {NA}), between : BOOLEAN]

BarStates ==
  [realtime : BOOLEAN, isnew : BOOLEAN, confirmed : BOOLEAN, lastHistory : BOOLEAN]

ClosedRecords == {bar \in BarRecords : bar.timeClose # None}

\* Every variable of the runtime has its type; the bars of the chart have a
\* close time, and there is a bar index for every commit.
TypeOK ==
  /\ barIndex \in Nat \cup {-1}
  /\ currentBar \in ClosedRecords \cup {None}
  /\ chartBars \in Seq(ClosedRecords)
  /\ BarName \in DOMAIN series
  /\ DOMAIN series \subseteq Names \cup {BarName}
  /\ \A n \in DOMAIN series :
       series[n] \in SeriesOf(IF n = BarName THEN BarValues ELSE Values)
  /\ barstate \in BarStates
  /\ memory \in Marks \cup {None}
  /\ varip \in Marks \cup {None}
  /\ open \in BOOLEAN
  /\ Len(truth) = barIndex + 1

\* The value a series had offset bars before the bar the host works on: the
\* open bar, or the one ended last when none is open.
Past(name, offset) ==
  LET n == Len(truth) + (IF open THEN 1 ELSE 0) - offset
  IN  IF n \geq 1 /\ n \in DOMAIN truth /\ name \in DOMAIN truth[n]
      THEN truth[n][name]
      ELSE Blank(series[name])

\* Reading a series offset bars back gives the value it was committed with
\* offset bars ago, and na (false for a bool) where it did not exist: in
\* every bar, for a series created late, after a rollback in the middle of a
\* bar and in a process that resumed.  Between two bars it does so after a
\* historical bar only: end_bar leaves the flag of a realtime bar down.
ReadsCommitted ==
  (open \/ ~barstate.realtime) =>
    \A n \in DOMAIN series, offset \in 1..(MaxBars + 1) :
      KeepsHistory(series[n]) => At(series[n], offset) = Past(n, offset)

\* The chart, the bar index and the built-in series agree: one chart bar per
\* committed index and one more while a bar is open, the built-in history
\* holds those bars with consecutive exposed indices, and the last chart bar
\* is the current bar.
BarsAligned ==
  /\ Len(chartBars) = barIndex + 1 + (IF open THEN 1 ELSE 0)
  /\ series[BarName].history =
       [i \in 1..(barIndex + 1) |-> [index |-> i - 1 + Offset, bar |-> chartBars[i]]]
  /\ chartBars # <<>> => currentBar = chartBars[Len(chartBars)]
  /\ open => series[BarName].current = [index |-> barIndex + 1 + Offset,
                                        bar |-> currentBar]

Replaced == RestoreState \/ NewRuntime

\* What was committed stays: no call drops or rewrites a chart bar whose index
\* was committed, or a history entry of a series, unless a snapshot or a new
\* process replaces the runtime.
CommittedFrozen ==
  [][\/ Replaced
     \/ /\ barIndex \leq barIndex'
        /\ \A i \in 1..(barIndex + 1) : chartBars'[i] = chartBars[i]
        /\ \A n \in DOMAIN series : \A i \in DOMAIN series[n].history :
             series'[n].history[i] = series[n].history[i]]_vars

\* A snapshot exported without varip during a realtime bar can be restored as
\* long as that bar is open (runtime.py: "Realtime rollback callers should use
\* include_varip=False so normal runtime state rolls back").
RollbackPossible ==
  (/\ saved # <<>>
   /\ saved[1].varip = <<>>
   /\ saved[1].open /\ open
   /\ saved[1].barstate.realtime
   /\ saved[1].truth = truth) => Restorable(saved[1])

\* While a bar stays open its high only rises, its low only falls, its volume
\* only grows and its times stay (types.py: "The runtime mutates the active
\* bar monotonically using these ticks").
TicksMonotone ==
  [][(open /\ open' /\ ~Replaced) =>
       /\ currentBar'.high \geq currentBar.high
       /\ currentBar'.low \leq currentBar.low
       /\ currentBar'.volume \geq currentBar.volume
       /\ currentBar'.time = currentBar.time
       /\ currentBar'.timeClose = currentBar.timeClose]_vars

\* The committed rows of a registry: per bar, the values of the series that
\* were registered when it ended.
RowsOf(registry, count) ==
  [i \in 1..count |->
     [n \in {m \in DOMAIN registry : count - i < Len(registry[m].history)} |->
        registry[n].history[i - count + Len(registry[n].history)]]]

NowOf(registry) ==
  [n \in {m \in DOMAIN registry : KeepsHistory(registry[m])} |-> registry[n].current]

History == INSTANCE BarHistory WITH
  past <- RowsOf(series, barIndex + 1),
  now <- NowOf(series),
  memory <- memory,
  sticky <- varip,
  kept <- [i \in DOMAIN saved |->
             [past |-> RowsOf(saved[i].series, saved[i].barIndex + 1),
              now |-> NowOf(saved[i].series), memory |-> saved[i].memory,
              sticky |-> saved[i].varip, open |-> saved[i].open]]

\* The runtime implements the bar history: a row is added only by ending a bar,
\* with the values of that moment, a rollback returns exactly to what was
\* exported, and varip survives the rollbacks whose snapshot left it out.
ImplementsHistory == History!HistorySpec
=============================================================================
