--------------------------- MODULE PineRuntimeProofs ---------------------------
(***************************************************************************)
(* Proofs about PineRuntime, for every value of its constants and a host   *)
(* that opens, works on and ends bars in turn.  A read is right only while *)
(* the history of a series mirrors the rows that were committed and its    *)
(* between flag tells where the host stands, in the runtime and in the     *)
(* snapshot it may return to: Sound says so of either.                     *)
(***************************************************************************)
EXTENDS PineRuntime, TLAPS

AllNames == Names \cup {BarName}

ValuesOf(name) == IF name = BarName THEN BarValues ELSE Values

Cells == BarValues \cup Values \cup {NA}

CommittedRows == UNION {[D -> Cells] : D \in SUBSET AllNames}

\* The history of a series holds its values in the rows since it exists.
Mirrors(history, rows, name) ==
  LET before == Len(rows) - Len(history)
  IN  /\ before \geq 0
      /\ \A k \in 1..Len(rows) : name \in DOMAIN rows[k] <=> before < k
      /\ \A k \in 1..Len(rows) : before < k => rows[k][name] = history[k - before]

SeriesSound(name, s, rows) ==
  /\ s \in SeriesOf(ValuesOf(name))
  /\ name = BarName => s.dtype = "float"
  /\ s.dtype = "array" => s.history = <<>>
  /\ s.dtype # "array" => Mirrors(s.history, rows, name)

\* The flag of a series is down in a bar and up after a historical one.
FlagSound(s, isopen, realtime) ==
  /\ isopen => ~s.between
  /\ ~isopen /\ ~realtime /\ s.history # <<>> => s.between

ChartSound(index, bar, chart, builtin, isopen) ==
  /\ index \in Nat \cup {-1}
  /\ bar \in ClosedRecords \cup {None}
  /\ chart \in Seq(ClosedRecords)
  /\ Len(chart) = index + 1 + (IF isopen THEN 1 ELSE 0)
  /\ Len(builtin.history) = index + 1
  /\ \A i \in 1..(index + 1) :
       builtin.history[i] = [index |-> i - 1 + Offset, bar |-> chart[i]]
  /\ Len(chart) # 0 => bar = chart[Len(chart)]
  /\ isopen => builtin.current = [index |-> index + 1 + Offset, bar |-> bar]

Sound(index, bar, chart, registry, state, mem, isopen, rows) ==
  /\ isopen \in BOOLEAN
  /\ state \in BarStates
  /\ mem \in Marks \cup {None}
  /\ rows \in Seq(CommittedRows)
  /\ Len(rows) = index + 1
  /\ BarName \in DOMAIN registry
  /\ DOMAIN registry \subseteq AllNames
  /\ \A k \in 1..Len(rows) : DOMAIN rows[k] \subseteq DOMAIN registry
  /\ ChartSound(index, bar, chart, registry[BarName], isopen)
  /\ \A n \in DOMAIN registry :
       /\ SeriesSound(n, registry[n], rows)
       /\ FlagSound(registry[n], isopen, state.realtime)

Live == Sound(barIndex, currentBar, chartBars, series, barstate, memory, open, truth)

SavedSound(st) ==
  /\ Sound(st.barIndex, st.currentBar, st.chartBars, st.series, st.barstate,
           st.memory, st.open, st.truth)
  /\ st.varip # <<>> => st.varip[1] \in Marks \cup {None}

IInv ==
  /\ Live
  /\ varip \in Marks \cup {None}
  /\ saved # <<>> => saved = <<saved[1]>> /\ SavedSound(saved[1])

-----------------------------------------------------------------------------
(* Bars *)

\* A bar the runtime accepts has a close time once it is normalized.
LEMMA NormalizedCloses ==
  ASSUME NEW bar \in Bars
  PROVE  Normalized(bar) \in ClosedRecords
<1>1. bar \in BarRecords /\ None \notin Nat /\ Interval \in Nat \ {0}
  BY RuntimeAssumption
<1>2. bar.time + Interval - 1 \in Nat
  BY <1>1 DEF BarRecords
<1>3. [bar EXCEPT !.timeClose = bar.time + Interval - 1] \in BarRecords
  BY <1>1, <1>2 DEF BarRecords
<1>4. [bar EXCEPT !.timeClose = bar.time + Interval - 1].timeClose # None
  BY <1>1, <1>2 DEF BarRecords
<1>5. QED
  BY <1>1, <1>3, <1>4 DEF Normalized, ClosedRecords

\* A tick keeps the type and the times of a bar, raises its high, lowers its
\* low and adds to its volume.
LEMMA TickedBar ==
  ASSUME NEW bar \in ClosedRecords, NEW tick \in Ticks
  PROVE  /\ Ticked(bar, tick) \in ClosedRecords
         /\ Ticked(bar, tick).high \geq bar.high
         /\ Ticked(bar, tick).low \leq bar.low
         /\ Ticked(bar, tick).volume \geq bar.volume
         /\ Ticked(bar, tick).time = bar.time
         /\ Ticked(bar, tick).timeClose = bar.timeClose
<1>1. /\ bar \in BarRecords /\ bar.timeClose # None
      /\ tick.price \in Nat /\ tick.volume \in Nat
  BY RuntimeAssumption DEF ClosedRecords, TickRecords
<1>2. Larger(bar.high, tick.price) \in Nat /\ Smaller(bar.low, tick.price) \in Nat
  BY <1>1 DEF BarRecords, Larger, Smaller
<1>3. Larger(bar.high, tick.price) \geq bar.high /\ Smaller(bar.low, tick.price) \leq bar.low
  BY <1>1 DEF BarRecords, Larger, Smaller
<1>4. bar.volume + tick.volume \in Nat /\ bar.volume + tick.volume \geq bar.volume
  BY <1>1 DEF BarRecords
<1>5. /\ Ticked(bar, tick) \in BarRecords
      /\ Ticked(bar, tick).high = Larger(bar.high, tick.price)
      /\ Ticked(bar, tick).low = Smaller(bar.low, tick.price)
      /\ Ticked(bar, tick).volume = bar.volume + tick.volume
      /\ Ticked(bar, tick).time = bar.time
      /\ Ticked(bar, tick).timeClose = bar.timeClose
  BY <1>1, <1>2, <1>4 DEF Ticked, BarRecords
<1>6. QED
  BY <1>1, <1>3, <1>4, <1>5 DEF ClosedRecords

-----------------------------------------------------------------------------
(* Series *)

\* Setting a series keeps it sound and takes its flag down.
LEMMA SetSound ==
  ASSUME NEW name, NEW s, NEW rows, SeriesSound(name, s, rows),
         NEW v \in ValuesOf(name) \cup {NA}
  PROVE  /\ SeriesSound(name, SetTo(s, v), rows)
         /\ ~SetTo(s, v).between
         /\ SetTo(s, v).current = v
         /\ SetTo(s, v).history = s.history
         /\ SetTo(s, v).dtype = s.dtype
<1>1. s \in SeriesOf(ValuesOf(name))
  BY DEF SeriesSound
<1>2. /\ SetTo(s, v) \in SeriesOf(ValuesOf(name))
      /\ SetTo(s, v).dtype = s.dtype /\ SetTo(s, v).history = s.history
      /\ SetTo(s, v).current = v /\ ~SetTo(s, v).between
  BY <1>1 DEF SetTo, SeriesOf
<1>3. QED
  BY <1>2 DEF SeriesSound

\* Opening a bar keeps the series that are not set sound.
LEMMA InBarSound ==
  ASSUME NEW name, NEW s, NEW rows, SeriesSound(name, s, rows)
  PROVE  /\ SeriesSound(name, InBar(s), rows)
         /\ ~InBar(s).between
         /\ InBar(s).history = s.history
         /\ InBar(s).dtype = s.dtype
<1>1. s \in SeriesOf(ValuesOf(name))
  BY DEF SeriesSound
<1>2. /\ InBar(s) \in SeriesOf(ValuesOf(name))
      /\ InBar(s).dtype = s.dtype /\ InBar(s).history = s.history
      /\ ~InBar(s).between
  BY <1>1 DEF InBar, SeriesOf
<1>3. QED
  BY <1>2 DEF SeriesSound

\* A series nobody has set is sound in every place where it has no rows.
LEMMA NewSeriesSound ==
  ASSUME NEW name \in AllNames, NEW rows \in Seq(CommittedRows),
         \A k \in 1..Len(rows) : name \notin DOMAIN rows[k],
         NEW dtype \in Dtypes \cup {"float", "bool"}, NEW initial \in Values \cup {NA},
         name = BarName => dtype = "float" /\ initial = NA
  PROVE  SeriesSound(name, NewSeriesOf(dtype, initial), rows)
<1>1. NewSeriesOf(dtype, initial) \in SeriesOf(ValuesOf(name))
  BY DEF NewSeriesOf, SeriesOf, ValuesOf
<1>2. Len(rows) \in Nat
  OBVIOUS
<1>3. Mirrors(<<>>, rows, name)
  BY <1>2 DEF Mirrors
<1>4. QED
  BY <1>1, <1>3 DEF SeriesSound, NewSeriesOf

LEMMA AppendFacts ==
  ASSUME NEW S, NEW q \in Seq(S), NEW x \in S
  PROVE  /\ Append(q, x) \in Seq(S)
         /\ Len(q) \in Nat
         /\ Len(Append(q, x)) = Len(q) + 1
         /\ \A i \in 1..Len(q) : Append(q, x)[i] = q[i]
         /\ Append(q, x)[Len(q) + 1] = x
OBVIOUS

\* Ending a bar appends the current value to the history of a series and the
\* row to the rows: the history still mirrors them.
LEMMA CommitSound ==
  ASSUME NEW name, NEW s, NEW rows \in Seq(CommittedRows), NEW realtime \in BOOLEAN,
         SeriesSound(name, s, rows),
         NEW row \in CommittedRows, name \in DOMAIN row, row[name] = s.current
  PROVE  LET committed == [Committed(s) EXCEPT !.between = @ \/ ~realtime]
         IN  /\ SeriesSound(name, committed, Append(rows, row))
             /\ ~realtime => committed.between
             /\ committed.dtype = s.dtype
             /\ committed.history =
                  IF KeepsHistory(s) THEN Append(s.history, s.current) ELSE <<>>
<1> DEFINE history2 == IF KeepsHistory(s) THEN Append(s.history, s.current) ELSE <<>>
           s2 == [Committed(s) EXCEPT !.between = @ \/ ~realtime]
           V == ValuesOf(name) \cup {NA}
<1>1. /\ s \in SeriesOf(ValuesOf(name))
      /\ s.dtype # "array" => Mirrors(s.history, rows, name)
      /\ name = BarName => s.dtype = "float"
  BY DEF SeriesSound
<1>2. s.history \in Seq(V) /\ s.current \in V
  BY <1>1 DEF SeriesOf
<1>3. history2 \in Seq(V)
  BY <1>2
<1>4. Committed(s) = [s EXCEPT !.history = history2]
  BY DEF Committed
<1>5. /\ Committed(s) \in SeriesOf(ValuesOf(name))
      /\ Committed(s).dtype = s.dtype /\ Committed(s).history = history2
  BY <1>1, <1>3, <1>4 DEF SeriesOf
<1>6. /\ s2 \in SeriesOf(ValuesOf(name))
      /\ s2.dtype = s.dtype /\ s2.history = history2
      /\ ~realtime => s2.between
  BY <1>5 DEF SeriesOf
<1>7. ASSUME s.dtype # "array"
      PROVE  Mirrors(history2, Append(rows, row), name)
  <2>1. history2 = Append(s.history, s.current)
    BY <1>7 DEF KeepsHistory
  <2>2. /\ Len(history2) = Len(s.history) + 1 /\ Len(s.history) \in Nat
        /\ \A i \in 1..Len(s.history) : history2[i] = s.history[i]
        /\ history2[Len(s.history) + 1] = s.current
    BY <1>2, <2>1, AppendFacts
  <2>3. /\ Len(Append(rows, row)) = Len(rows) + 1 /\ Len(rows) \in Nat
        /\ \A i \in 1..Len(rows) : Append(rows, row)[i] = rows[i]
        /\ Append(rows, row)[Len(rows) + 1] = row
    BY AppendFacts
  <2>4. Mirrors(s.history, rows, name)
    BY <1>1, <1>7
  <2> HIDE DEF history2
  <2>5. \A k \in 1..(Len(rows) + 1) : k \in 1..Len(rows) \/ k = Len(rows) + 1
    BY <2>3
  <2>6. Len(rows) + 1 - Len(history2) = Len(rows) - Len(s.history)
    BY <2>2, <2>3
  <2> DEFINE before == Len(rows) - Len(s.history)
             rows2 == Append(rows, row)
  <2>7. /\ before \geq 0 /\ before \in Nat
        /\ \A k \in 1..Len(rows) : name \in DOMAIN rows[k] <=> before < k
        /\ \A k \in 1..Len(rows) : before < k => rows[k][name] = s.history[k - before]
    BY <2>2, <2>3, <2>4 DEF Mirrors
  <2>8. \A k \in 1..Len(rows2) : name \in DOMAIN rows2[k] <=> before < k
    BY <2>2, <2>3, <2>5, <2>7
  <2>9. ASSUME NEW k \in 1..Len(rows2), before < k
        PROVE  rows2[k][name] = history2[k - before]
    <3>1. CASE k \in 1..Len(rows)
      <4>1. k - before \in 1..Len(s.history)
        BY <2>2, <2>3, <2>7, <2>9, <3>1
      <4>2. QED
        BY <2>2, <2>3, <2>7, <2>9, <3>1, <4>1
    <3>2. rows2[Len(rows) + 1][name] = history2[Len(rows) + 1 - before]
      <4>1. Len(rows) \in Nat /\ Len(s.history) \in Nat
        BY <2>2, <2>3
      <4>2. Len(rows) + 1 - before = Len(s.history) + 1
        BY <4>1
      <4>3. QED
        BY <2>2, <2>3, <4>2
    <3>3. QED
      BY <2>3, <2>5, <3>1, <3>2
  <2>10. Len(rows2) - Len(history2) = before
    BY <2>2, <2>3
  <2> HIDE DEF before, rows2
  <2>11. QED
    BY <2>7, <2>8, <2>9, <2>10 DEF Mirrors, rows2
<1>8. s.dtype = "array" => history2 = <<>>
  BY DEF KeepsHistory
<1>9. QED
  BY <1>1, <1>6, <1>7, <1>8 DEF SeriesSound

-----------------------------------------------------------------------------
(* The actions *)

\* A runtime that was just constructed.
LEMMA FreshSound ==
  Sound(-1, None, <<>>, EmptyRegistry, FreshBarState, None, FALSE, <<>>)
<1>1. /\ <<>> \in Seq(CommittedRows) /\ Len(<<>>) = 0
      /\ \A k \in 1..Len(<<>>) : FALSE
  OBVIOUS
<1>2. /\ SeriesSound(BarName, NewSeriesOf("float", NA), <<>>)
      /\ FlagSound(NewSeriesOf("float", NA), FALSE, FALSE)
  <2>1. BarName \in AllNames /\ "float" \in Dtypes \cup {"float", "bool"} /\ NA \in Values \cup {NA}
    BY DEF AllNames
  <2>2. QED
    BY <1>1, <2>1, NewSeriesSound DEF FlagSound, NewSeriesOf
<1>3. DOMAIN EmptyRegistry = {BarName} /\ EmptyRegistry[BarName] = NewSeriesOf("float", NA)
  BY DEF EmptyRegistry
<1>4. ChartSound(-1, None, <<>>, NewSeriesOf("float", NA), FALSE)
  BY DEF ChartSound, NewSeriesOf
<1>5. FreshBarState \in BarStates /\ FreshBarState.realtime = FALSE
  BY DEF FreshBarState, BarStates
<1>6. \A n \in DOMAIN EmptyRegistry :
        /\ SeriesSound(n, EmptyRegistry[n], <<>>)
        /\ FlagSound(EmptyRegistry[n], FALSE, FreshBarState.realtime)
  BY <1>2, <1>3, <1>5
<1>7. /\ ChartSound(-1, None, <<>>, EmptyRegistry[BarName], FALSE)
      /\ BarName \in DOMAIN EmptyRegistry /\ DOMAIN EmptyRegistry \subseteq AllNames
  BY <1>3, <1>4 DEF AllNames
<1>8. Len(<<>>) = -1 + 1
  OBVIOUS
<1>9. QED
  BY <1>1, <1>5, <1>6, <1>7, <1>8 DEF Sound

LEMMA InitSound == Init => IInv
BY FreshSound DEF Init, IInv, Live

\* What opening a bar leaves of the series.
LEMMA OpenSound ==
  ASSUME Careful, IInv, NEW bar \in Bars, NEW realtime \in BOOLEAN, OpenBar(bar, realtime)
  PROVE  Live'
<1> DEFINE newBar == Normalized(bar)
<1>1. /\ ~open /\ open' /\ barIndex' = barIndex /\ truth' = truth /\ memory' = memory
      /\ currentBar' = newBar /\ chartBars' = Append(chartBars, newBar)
      /\ barstate' = [FreshBarState EXCEPT !.realtime = realtime]
      /\ DOMAIN series' = DOMAIN series
      /\ series'[BarName] = SetTo(series[BarName], ExposedBar(newBar))
      /\ \A n \in DOMAIN series : n # BarName => series'[n] = InBar(series[n])
  BY DEF OpenBar, IInv, Live, Sound
<1>2. newBar \in ClosedRecords
  BY NormalizedCloses
<1>3. barstate' \in BarStates /\ barstate'.realtime = realtime
  BY <1>1 DEF FreshBarState, BarStates
<1>4. /\ barstate.realtime \in BOOLEAN /\ open \in BOOLEAN
      /\ barIndex \in Nat \cup {-1} /\ BarName \in DOMAIN series
      /\ chartBars \in Seq(ClosedRecords)
  BY DEF IInv, Live, Sound, ChartSound, BarStates
<1>5. ExposedBar(newBar) \in BarValues
  BY <1>2, <1>4, RuntimeAssumption DEF ExposedBar, BarValues, ClosedRecords
<1>6. /\ SeriesSound(BarName, series'[BarName], truth)
      /\ ~series'[BarName].between
      /\ series'[BarName].current = ExposedBar(newBar)
      /\ series'[BarName].history = series[BarName].history
  <2>1. SeriesSound(BarName, series[BarName], truth)
    BY <1>4 DEF IInv, Live, Sound
  <2>2. ExposedBar(newBar) \in ValuesOf(BarName) \cup {NA}
    BY <1>5 DEF ValuesOf
  <2>3. QED
    BY <2>1, <2>2, <1>1, SetSound
<1>7. ASSUME NEW n \in DOMAIN series, n # BarName
      PROVE  SeriesSound(n, series'[n], truth) /\ ~series'[n].between
  <2>1. SeriesSound(n, series[n], truth)
    BY DEF IInv, Live, Sound
  <2>2. QED
    BY <2>1, <1>1, <1>7, InBarSound
<1>8. ChartSound(barIndex, newBar, chartBars', series'[BarName], TRUE)
  <2>1. ChartSound(barIndex, currentBar, chartBars, series[BarName], FALSE)
    BY <1>1, <1>4 DEF IInv, Live, Sound
  <2>2. /\ chartBars' \in Seq(ClosedRecords) /\ Len(chartBars') = Len(chartBars) + 1
        /\ \A i \in 1..Len(chartBars) : chartBars'[i] = chartBars[i]
        /\ chartBars'[Len(chartBars) + 1] = newBar
    BY <1>1, <1>2, <1>4, AppendFacts
  <2>3. Len(chartBars) = barIndex + 1
    BY <2>1, <1>4 DEF ChartSound
  <2> HIDE DEF newBar
  <2>4. QED
    BY <2>1, <2>2, <2>3, <1>2, <1>4, <1>6 DEF ChartSound, ExposedBar
<1>9. QED
  <2> HIDE DEF newBar
  <2>1. \A n \in DOMAIN series' : /\ SeriesSound(n, series'[n], truth')
                                  /\ FlagSound(series'[n], open', barstate'.realtime)
    BY <1>1, <1>6, <1>7 DEF FlagSound
  <2>2. QED
    BY <2>1, <1>1, <1>3, <1>4, <1>8 DEF IInv, Live, Sound, OpenBar

\* A tick replaces the open bar, in the chart and in the built-in series.
LEMMA TickSound ==
  ASSUME Careful, IInv, NEW tick \in Ticks, UpdateRealtimeTick(tick)
  PROVE  Live'
<1> DEFINE newBar == Ticked(currentBar, tick)
           exposed == ExposedBar(newBar)
<1>1. /\ open /\ barstate.realtime /\ currentBar # None
      /\ currentBar' = newBar /\ chartBars' = [chartBars EXCEPT ![Len(chartBars)] = newBar]
      /\ series' = [series EXCEPT ![BarName] = SetTo(series[BarName], exposed)]
      /\ UNCHANGED <<barIndex, memory, open, truth>>
  BY DEF UpdateRealtimeTick, LastPlace
<1>2. /\ barIndex \in Nat \cup {-1} /\ BarName \in DOMAIN series
      /\ currentBar \in ClosedRecords /\ chartBars \in Seq(ClosedRecords)
      /\ ChartSound(barIndex, currentBar, chartBars, series[BarName], open)
  BY <1>1 DEF IInv, Live, Sound, ChartSound
<1>3. newBar \in ClosedRecords
  BY <1>2, TickedBar
<1>4. exposed \in ValuesOf(BarName) \cup {NA}
  BY <1>2, <1>3, RuntimeAssumption DEF ExposedBar, BarValues, ClosedRecords, ValuesOf
<1>5. barstate' \in BarStates
  BY RuntimeAssumption DEF UpdateRealtimeTick, BarStates, TickRecords
<1> HIDE DEF newBar, exposed
<1>6. /\ DOMAIN series' = DOMAIN series
      /\ series'[BarName] = SetTo(series[BarName], exposed)
      /\ \A n \in DOMAIN series : n # BarName => series'[n] = series[n]
  BY <1>1, <1>2
<1>7. SeriesSound(BarName, series[BarName], truth)
  BY <1>2 DEF IInv, Live, Sound
<1>8. /\ SeriesSound(BarName, series'[BarName], truth)
      /\ ~series'[BarName].between
      /\ series'[BarName].current = exposed
      /\ series'[BarName].history = series[BarName].history
  BY <1>4, <1>6, <1>7, SetSound
<1>9. \A n \in DOMAIN series' : /\ SeriesSound(n, series'[n], truth)
                                /\ FlagSound(series'[n], TRUE, barstate'.realtime)
  BY <1>1, <1>6, <1>8 DEF IInv, Live, Sound, FlagSound
<1>10. ChartSound(barIndex, newBar, chartBars', series'[BarName], TRUE)
  <2>1. /\ chartBars' \in Seq(ClosedRecords) /\ Len(chartBars') = Len(chartBars)
        /\ \A i \in 1..Len(chartBars) : i # Len(chartBars) => chartBars'[i] = chartBars[i]
        /\ chartBars'[Len(chartBars)] = newBar
        /\ Len(chartBars) = barIndex + 2
    <3>1. Len(chartBars) = barIndex + 2 /\ Len(chartBars) \in 1..Len(chartBars)
      BY <1>1, <1>2 DEF ChartSound
    <3>2. QED
      BY <1>1, <1>2, <1>3, <3>1
  <2>2. QED
    BY <2>1, <1>1, <1>2, <1>3, <1>8 DEF ChartSound, ExposedBar, exposed
<1>11. open' = TRUE
  BY <1>1 DEF IInv, Live, Sound
<1>12. QED
  BY <1>1, <1>5, <1>6, <1>9, <1>10, <1>11 DEF IInv, Live, Sound

\* Ending a bar commits every series and the row of their values.
LEMMA EndSound ==
  ASSUME Careful, IInv, EndBar
  PROVE  Live'
<1> DEFINE row == [n \in DOMAIN series |-> series[n].current]
<1>1. /\ open /\ ~open' /\ open' = FALSE /\ barIndex' = barIndex + 1
      /\ truth' = Append(truth, row)
      /\ barstate' = [barstate EXCEPT !.isnew = FALSE, !.confirmed = TRUE]
      /\ UNCHANGED <<currentBar, chartBars, memory>>
      /\ DOMAIN series' = DOMAIN series
      /\ \A n \in DOMAIN series :
           series'[n] = [Committed(series[n]) EXCEPT !.between = @ \/ ~barstate.realtime]
  BY DEF EndBar
<1>2. /\ barIndex \in Nat \cup {-1} /\ BarName \in DOMAIN series
      /\ DOMAIN series \subseteq AllNames
      /\ truth \in Seq(CommittedRows) /\ Len(truth) = barIndex + 1
      /\ chartBars \in Seq(ClosedRecords) /\ barstate \in BarStates
      /\ ChartSound(barIndex, currentBar, chartBars, series[BarName], TRUE)
  BY <1>1 DEF IInv, Live, Sound, ChartSound
<1>3. \A n \in DOMAIN series : SeriesSound(n, series[n], truth)
  BY DEF IInv, Live, Sound
<1>4. row \in CommittedRows
  <2>1. \A n \in DOMAIN series : series[n].current \in Cells
    BY <1>3 DEF SeriesSound, SeriesOf, Cells, ValuesOf
  <2>2. row \in [DOMAIN series -> Cells]
    BY <2>1
  <2>3. QED
    BY <1>2, <2>2 DEF CommittedRows
<1>5. /\ DOMAIN row = DOMAIN series
      /\ \A n \in DOMAIN series : row[n] = series[n].current
  OBVIOUS
<1> HIDE DEF row
<1>6. /\ truth' \in Seq(CommittedRows) /\ Len(truth') = Len(truth) + 1
      /\ \A k \in 1..Len(truth) : truth'[k] = truth[k]
      /\ truth'[Len(truth) + 1] = row
  BY <1>1, <1>2, <1>4, AppendFacts
<1>7. barstate' \in BarStates /\ barstate'.realtime = barstate.realtime
  BY <1>1, <1>2 DEF BarStates
<1>8. ASSUME NEW n \in DOMAIN series
      PROVE  /\ SeriesSound(n, series'[n], truth')
             /\ ~barstate.realtime => series'[n].between
             /\ series'[n].history = IF KeepsHistory(series[n])
                   THEN Append(series[n].history, series[n].current) ELSE <<>>
  <2>1. /\ SeriesSound(n, series[n], truth) /\ truth \in Seq(CommittedRows)
        /\ row \in CommittedRows /\ n \in DOMAIN row /\ row[n] = series[n].current
        /\ barstate.realtime \in BOOLEAN
    BY <1>2, <1>3, <1>4, <1>5 DEF BarStates
  <2> DEFINE committed == [Committed(series[n]) EXCEPT !.between = @ \/ ~barstate.realtime]
  <2>2. /\ SeriesSound(n, committed, Append(truth, row))
        /\ ~barstate.realtime => committed.between
        /\ committed.history = IF KeepsHistory(series[n])
              THEN Append(series[n].history, series[n].current) ELSE <<>>
    BY <2>1, CommitSound
  <2> HIDE DEF committed
  <2>3. series'[n] = committed
    BY <1>1 DEF committed
  <2>4. QED
    BY <2>2, <2>3, <1>1
<1>9. \A n \in DOMAIN series' : FlagSound(series'[n], FALSE, barstate'.realtime)
  BY <1>1, <1>7, <1>8 DEF FlagSound
<1>10. ChartSound(barIndex + 1, currentBar, chartBars, series'[BarName], FALSE)
  <2> DEFINE h == series[BarName].history
             c == series[BarName].current
             h2 == series'[BarName].history
  <2>1. h \in Seq(BarValues \cup {NA}) /\ c \in BarValues \cup {NA}
        /\ KeepsHistory(series[BarName])
    BY <1>2, <1>3 DEF SeriesSound, SeriesOf, ValuesOf, KeepsHistory
  <2>2. h2 = Append(h, c)
    BY <1>2, <1>8, <2>1
  <2>3. /\ Len(h2) = Len(h) + 1
        /\ \A i \in 1..Len(h) : h2[i] = h[i]
        /\ h2[Len(h) + 1] = c
    <3> HIDE DEF h, c, h2
    <3>1. QED
      BY <2>1, <2>2, AppendFacts
  <2>4. /\ Len(h) = barIndex + 1 /\ Len(chartBars) = barIndex + 2
        /\ \A i \in 1..(barIndex + 1) : h[i] = [index |-> i - 1 + Offset, bar |-> chartBars[i]]
        /\ currentBar = chartBars[barIndex + 2]
        /\ c = [index |-> barIndex + 1 + Offset, bar |-> currentBar]
        /\ currentBar \in ClosedRecords \cup {None}
    BY <1>2 DEF ChartSound
  <2> HIDE DEF h, c
  <2>5. ASSUME NEW i \in 1..(barIndex + 2)
        PROVE  h2[i] = [index |-> i - 1 + Offset, bar |-> chartBars[i]]
    <3> HIDE DEF h2
    <3>1. CASE i \in 1..(barIndex + 1)
      BY <2>3, <2>4, <3>1
    <3>2. h2[barIndex + 2] = [index |-> (barIndex + 2) - 1 + Offset, bar |-> chartBars[barIndex + 2]]
      <4>1. Len(h) + 1 = barIndex + 2 /\ (barIndex + 2) - 1 + Offset = barIndex + 1 + Offset
        BY <1>2, <2>4, RuntimeAssumption
      <4>2. h2[barIndex + 2] = c
        BY <2>3, <4>1
      <4>3. QED
        BY <2>4, <4>1, <4>2
    <3>3. i \in 1..(barIndex + 1) \/ i = barIndex + 2
      BY <1>2
    <3>4. QED
      BY <3>1, <3>2, <3>3
  <2>6. QED
    BY <1>2, <2>3, <2>4, <2>5 DEF ChartSound
<1>11. /\ \A k \in 1..Len(truth') : DOMAIN truth'[k] \subseteq DOMAIN series'
       /\ Len(truth') = barIndex' + 1
  <2>1. \A k \in 1..Len(truth) : DOMAIN truth[k] \subseteq DOMAIN series
    BY DEF IInv, Live, Sound
  <2>2. \A k \in 1..(Len(truth) + 1) : k \in 1..Len(truth) \/ k = Len(truth) + 1
    BY <1>2
  <2>3. QED
    BY <2>1, <2>2, <1>1, <1>2, <1>5, <1>6
<1>12. \A n \in DOMAIN series' : SeriesSound(n, series'[n], truth')
  BY <1>1, <1>8
<1>13. QED
  BY <1>1, <1>2, <1>6, <1>7, <1>9, <1>10, <1>11, <1>12 DEF IInv, Live, Sound

\* Giving a script name a sound series keeps the runtime sound.
LEMMA ScriptSound ==
  ASSUME IInv, NEW name \in Names, NEW s, SeriesSound(name, s, truth),
         FlagSound(s, open, barstate.realtime),
         series' = WithSeries(series, name, s), ScriptStep, UNCHANGED memory
  PROVE  Live'
<1>1. /\ DOMAIN series' = DOMAIN series \cup {name}
      /\ series'[name] = s
      /\ \A n \in DOMAIN series : n # name => series'[n] = series[n]
  BY DEF WithSeries
<1>2. name # BarName /\ name \in AllNames
  BY RuntimeAssumption DEF AllNames
<1>3. BarName \in DOMAIN series /\ series'[BarName] = series[BarName]
  BY <1>1, <1>2 DEF IInv, Live, Sound
<1>4. \A n \in DOMAIN series' : /\ SeriesSound(n, series'[n], truth)
                                /\ FlagSound(series'[n], open, barstate.realtime)
  BY <1>1 DEF IInv, Live, Sound
<1>5. UNCHANGED <<barIndex, currentBar, chartBars, barstate, open, truth, memory>>
  BY DEF ScriptStep
<1>6. QED
  BY <1>1, <1>2, <1>3, <1>4, <1>5 DEF IInv, Live, Sound

\* A series that is set while a bar is open.
LEMMA SetLive ==
  ASSUME IInv, open, NEW name \in Names, NEW s, SeriesSound(name, s, truth),
         NEW v \in Values \cup {NA},
         series' = WithSeries(series, name, SetTo(s, v)), ScriptStep, UNCHANGED memory
  PROVE  Live'
<1>1. v \in ValuesOf(name) \cup {NA}
  BY RuntimeAssumption DEF ValuesOf
<1>2. SeriesSound(name, SetTo(s, v), truth) /\ ~SetTo(s, v).between
  BY <1>1, SetSound
<1>3. FlagSound(SetTo(s, v), open, barstate.realtime)
  BY <1>2 DEF FlagSound
<1>4. QED
  BY <1>2, <1>3, ScriptSound

\* A name that is not registered has no rows.
LEMMA NamesKnown ==
  ASSUME IInv, NEW name, name \notin DOMAIN series
  PROVE  /\ truth \in Seq(CommittedRows)
         /\ \A k \in 1..Len(truth) : name \notin DOMAIN truth[k]
BY DEF IInv, Live, Sound

LEMMA NewSeriesLive ==
  ASSUME IInv, NEW name \in Names, NEW dtype \in Dtypes, NEW initial \in Initials,
         NewSeries(name, dtype, initial)
  PROVE  Live'
<1>1. name # BarName /\ name \in AllNames /\ initial \in Values \cup {NA}
  BY RuntimeAssumption DEF AllNames
<1>2. name \notin DOMAIN series
  BY DEF NewSeries
<1>3. SeriesSound(name, NewSeriesOf(dtype, initial), truth)
  BY <1>1, <1>2, NamesKnown, NewSeriesSound
<1>4. FlagSound(NewSeriesOf(dtype, initial), open, barstate.realtime)
  BY DEF FlagSound, NewSeriesOf
<1>5. QED
  BY <1>3, <1>4, ScriptSound DEF NewSeries

LEMMA SetCurrentLive ==
  ASSUME Careful, IInv, NEW name \in Names, NEW v \in Values \cup {NA}, SetCurrent(name, v)
  PROVE  Live'
<1>1. open /\ name \in DOMAIN series /\ ScriptStep /\ UNCHANGED memory
  BY DEF SetCurrent
<1>2. SeriesSound(name, series[name], truth)
  BY <1>1 DEF IInv, Live, Sound
<1>3. SeriesSound(name, SetTo(series[name], v), truth) /\ ~SetTo(series[name], v).between
  BY <1>2, RuntimeAssumption, SetSound DEF ValuesOf
<1>4. name # BarName
  BY RuntimeAssumption
<1>5. series' = [series EXCEPT ![name] = SetTo(series[name], v)]
  BY DEF SetCurrent
<1>6. \A n \in DOMAIN series' : /\ SeriesSound(n, series'[n], truth)
                                /\ FlagSound(series'[n], open, barstate.realtime)
  BY <1>1, <1>3, <1>5 DEF IInv, Live, Sound, FlagSound
<1>7. BarName \in DOMAIN series /\ series'[BarName] = series[BarName] /\ DOMAIN series' = DOMAIN series
  BY <1>4, <1>5 DEF IInv, Live, Sound
<1>8. UNCHANGED <<barIndex, currentBar, chartBars, barstate, open, truth, memory>>
  BY <1>1 DEF ScriptStep
<1>9. QED
  BY <1>6, <1>7, <1>8 DEF IInv, Live, Sound

LEMMA ExprHistoryLive ==
  ASSUME Careful, IInv, NEW name \in Names, NEW v \in Values \cup {NA}, ExprHistory(name, v)
  PROVE  Live'
<1> DEFINE s == IF name \in DOMAIN series THEN series[name] ELSE NewSeriesOf(ExprDtype(v), NA)
<1>1. /\ open /\ ScriptStep /\ UNCHANGED memory
      /\ series' = WithSeries(series, name, SetTo(s, v))
  BY DEF ExprHistory
<1>2. SeriesSound(name, s, truth)
  <2>1. CASE name \in DOMAIN series
    BY <2>1 DEF IInv, Live, Sound
  <2>2. CASE name \notin DOMAIN series
    <3>1. ExprDtype(v) \in Dtypes \cup {"float", "bool"} /\ NA \in Values \cup {NA}
      BY DEF ExprDtype
    <3>2. name # BarName /\ name \in AllNames
      BY RuntimeAssumption DEF AllNames
    <3>3. SeriesSound(name, NewSeriesOf(ExprDtype(v), NA), truth)
      BY <2>2, <3>1, <3>2, NamesKnown, NewSeriesSound
    <3>4. QED
      BY <2>2, <3>3
  <2>3. QED
    BY <2>1, <2>2
<1> HIDE DEF s
<1>3. QED
  BY <1>1, <1>2, SetLive

\* The steps that leave chart, rows and series alone.
LEMMA QuietSound ==
  ASSUME IInv, UNCHANGED <<barIndex, currentBar, chartBars, series, open, truth>>,
         memory' \in Marks \cup {None}, barstate' \in BarStates,
         barstate'.realtime = barstate.realtime
  PROVE  Live'
BY DEF IInv, Live, Sound

LEMMA RestoreSound ==
  ASSUME IInv, RestoreState
  PROVE  Live' /\ varip' \in Marks \cup {None}
BY DEF IInv, Live, SavedSound, RestoreState, RestoredSeries, RestoredVarip

LEMMA ExportSound ==
  ASSUME IInv, NEW includeVarip \in BOOLEAN, ExportState(includeVarip)
  PROVE  Live' /\ saved' = <<saved'[1]>> /\ SavedSound(saved'[1])
<1>1. Live'
  BY DEF ExportState, runtimeVars, IInv, Live
<1>2. saved'[1] = Snapshot(includeVarip) /\ saved' = <<saved'[1]>>
  BY DEF ExportState
<1>3. SavedSound(Snapshot(includeVarip))
  BY DEF SavedSound, Snapshot, IInv, Live
<1>4. QED
  BY <1>1, <1>2, <1>3

\* Every step of a careful host keeps the runtime and the snapshot sound.
LEMMA StepSound == Careful /\ IInv /\ [Next]_vars => IInv'
<1> SUFFICES ASSUME Careful, IInv, [Next]_vars
             PROVE  IInv'
  OBVIOUS
<1>1. ASSUME NEW bar \in Bars, BeginBar(bar) \/ BeginRealtimeBar(bar)
      PROVE  IInv'
  <2>1. Live'
    BY <1>1, OpenSound DEF BeginBar, BeginRealtimeBar
  <2>2. QED
    BY <2>1, <1>1 DEF IInv, BeginBar, BeginRealtimeBar, OpenBar
<1>2. ASSUME NEW tick \in Ticks, UpdateRealtimeTick(tick)
      PROVE  IInv'
  BY <1>2, TickSound DEF IInv, UpdateRealtimeTick
<1>3. CASE EndBar
  BY <1>3, EndSound DEF IInv, EndBar
<1>4. ASSUME NEW value \in BOOLEAN, SetLastConfirmedHistory(value)
      PROVE  IInv'
  <2>1. barstate' \in BarStates /\ barstate'.realtime = barstate.realtime
    BY <1>4 DEF SetLastConfirmedHistory, IInv, Live, Sound, BarStates
  <2>2. memory' \in Marks \cup {None}
    BY <1>4 DEF SetLastConfirmedHistory, IInv, Live, Sound
  <2>3. QED
    BY <2>1, <2>2, <1>4, QuietSound DEF SetLastConfirmedHistory, IInv
<1>5. ASSUME NEW name \in Names, NEW dtype \in Dtypes, NEW initial \in Initials,
             NewSeries(name, dtype, initial)
      PROVE  IInv'
  BY <1>5, NewSeriesLive DEF IInv, NewSeries, ScriptStep
<1>6. ASSUME NEW name \in Names, NEW v \in Values \cup {NA}, SetCurrent(name, v)
      PROVE  IInv'
  BY <1>6, SetCurrentLive DEF IInv, SetCurrent, ScriptStep
<1>7. ASSUME NEW name \in Names, NEW v \in Values \cup {NA}, ExprHistory(name, v)
      PROVE  IInv'
  BY <1>7, ExprHistoryLive DEF IInv, ExprHistory, ScriptStep
<1>8. ASSUME NEW m \in Marks, UpdateMemory(m) \/ UpdateVarip(m)
      PROVE  IInv'
  <2>1. memory' \in Marks \cup {None} /\ varip' \in Marks \cup {None}
    BY <1>8 DEF UpdateMemory, UpdateVarip, IInv, Live, Sound
  <2>2. UNCHANGED <<barIndex, currentBar, chartBars, series, open, truth, barstate, saved>>
    BY <1>8 DEF UpdateMemory, UpdateVarip, ScriptStep
  <2>3. barstate \in BarStates
    BY DEF IInv, Live, Sound
  <2>4. QED
    BY <2>1, <2>2, <2>3, QuietSound DEF IInv
<1>9. CASE ResetVaripState
  <2>1. /\ UNCHANGED <<barIndex, currentBar, chartBars, series, open, truth, barstate, saved, memory>>
        /\ varip' = None
    BY <1>9 DEF ResetVaripState, ScriptStep
  <2>2. QED
    BY <2>1 DEF IInv, Live
<1>10. ASSUME NEW includeVarip \in BOOLEAN, ExportState(includeVarip)
       PROVE  IInv'
  BY <1>10, ExportSound DEF IInv, ExportState, runtimeVars
<1>11. CASE RestoreState
  BY <1>11, RestoreSound DEF IInv, RestoreState
<1>12. CASE NewRuntime
  BY <1>12, FreshSound DEF IInv, Live, NewRuntime
<1>13. CASE UNCHANGED vars
  BY <1>13 DEF IInv, Live, vars, runtimeVars
<1>14. QED
  BY <1>1, <1>2, <1>3, <1>4, <1>5, <1>6, <1>7, <1>8, <1>9, <1>10, <1>11, <1>12, <1>13 DEF Next

-----------------------------------------------------------------------------
(* The theorems.  Each assumes that the host opens, works on and ends bars in *)
(* turn; without that, end_bar and update_realtime_tick act on a bar that was *)
(* ended, see the README.                                                     *)

\* The strengthened invariant of the runtime and of its snapshot, which none of
\* the runtime's own checks establishes alone.
THEOREM Inductive == ASSUME Careful PROVE Spec => []IInv
<1>1. Init => IInv
  BY InitSound
<1>2. IInv /\ [Next]_vars => IInv'
  BY StepSound
<1>3. QED
  BY <1>1, <1>2, PTL DEF Spec

\* Whatever the host does in turn, every variable keeps its type: begin_bar
\* gives every chart bar a close time and end_bar one index per commit.
THEOREM TypeCorrect == ASSUME Careful PROVE Spec => []TypeOK
<1>1. IInv => TypeOK
  BY DEF IInv, Live, Sound, ChartSound, SeriesSound, ValuesOf, AllNames, TypeOK
<1>2. QED
  BY <1>1, Inductive, PTL

\* Chart, bar index and the built-in series describe the same bars, in every
\* bar and after every rollback.
THEOREM ChartAligned == ASSUME Careful PROVE Spec => []BarsAligned
<1>1. IInv => BarsAligned
  <2> SUFFICES ASSUME IInv PROVE BarsAligned
    OBVIOUS
  <2>1. /\ ChartSound(barIndex, currentBar, chartBars, series[BarName], open)
        /\ SeriesSound(BarName, series[BarName], truth)
    BY DEF IInv, Live, Sound
  <2> DEFINE h == series[BarName].history
  <2>2. h \in Seq(BarValues \cup {NA})
    BY <2>1 DEF SeriesSound, SeriesOf, ValuesOf
  <2>3. /\ barIndex \in Nat \cup {-1} /\ Len(h) = barIndex + 1
        /\ \A i \in 1..(barIndex + 1) :
             h[i] = [index |-> i - 1 + Offset, bar |-> chartBars[i]]
    BY <2>1 DEF ChartSound
  <2>4. h = [i \in 1..(barIndex + 1) |-> [index |-> i - 1 + Offset, bar |-> chartBars[i]]]
    <3> HIDE DEF h
    <3>1. h = [i \in 1..Len(h) |-> h[i]]
      BY <2>2
    <3>2. QED
      BY <2>3, <3>1
  <2>5. chartBars # <<>> => Len(chartBars) # 0
    BY <2>1 DEF ChartSound
  <2>6. QED
    BY <2>1, <2>4, <2>5 DEF ChartSound, BarsAligned
<1>2. QED
  BY <1>1, Inductive, PTL

\* s[offset] is the value committed offset bars ago, for every kind of series,
\* however late it was created and whatever was rolled back.
THEOREM ReadsCorrect == ASSUME Careful PROVE Spec => []ReadsCommitted
<1>1. IInv /\ MaxBars \in Nat => ReadsCommitted
  <2> SUFFICES ASSUME IInv, MaxBars \in Nat, open \/ ~barstate.realtime,
                      NEW n \in DOMAIN series, NEW offset \in 1..(MaxBars + 1),
                      KeepsHistory(series[n])
               PROVE  At(series[n], offset) = Past(n, offset)
    BY DEF ReadsCommitted
  <2> DEFINE s == series[n]
             rows == Len(truth)
             before == Len(truth) - Len(s.history)
             place == rows + (IF open THEN 1 ELSE 0) - offset
  <2>1. /\ SeriesSound(n, s, truth) /\ FlagSound(s, open, barstate.realtime)
        /\ truth \in Seq(CommittedRows) /\ open \in BOOLEAN
    BY DEF IInv, Live, Sound
  <2>2. Mirrors(s.history, truth, n)
    BY <2>1 DEF SeriesSound, KeepsHistory
  <2>3. /\ Len(s.history) \in Nat /\ rows \in Nat /\ DOMAIN truth = 1..rows
        /\ s.history = <<>> <=> Len(s.history) = 0
    BY <2>1 DEF SeriesSound, SeriesOf
  <2>4. /\ before \in Nat
        /\ \A k \in 1..rows : n \in DOMAIN truth[k] <=> before < k
        /\ \A k \in 1..rows : before < k => truth[k][n] = s.history[k - before]
    BY <2>2, <2>3 DEF Mirrors
  <2>5. Past(n, offset) = IF place \geq 1 /\ place \in 1..rows /\ n \in DOMAIN truth[place]
                          THEN truth[place][n] ELSE Blank(s)
    BY <2>3 DEF Past
  <2>6. place \in Int /\ place \leq rows
    BY <2>1, <2>3
  <2>7. Past(n, offset) = IF before < place THEN s.history[place - before] ELSE Blank(s)
    <3> HIDE DEF place, s, before, rows
    <3>1. CASE before < place
      <4>1. place \in 1..rows
        BY <2>4, <2>6, <2>3, <3>1
      <4>2. QED
        BY <2>4, <2>5, <3>1, <4>1
    <3>2. CASE ~(before < place)
      BY <2>4, <2>5, <3>2
    <3>3. QED
      BY <3>1, <3>2
  <2>8. At(s, offset) = IF before < place THEN s.history[place - before] ELSE Blank(s)
    <3>1. CASE s.history = <<>>
      <4>1. /\ ~(before < place)
            /\ ~(Len(s.history) - offset \geq 1) /\ ~(Len(s.history) - offset + 1 \geq 1)
        BY <2>1, <2>3, <3>1
      <4>2. QED
        BY <4>1 DEF At
    <3>2. CASE s.history # <<>> /\ open
      <4>1. ~s.between
        BY <2>1, <3>2 DEF FlagSound
      <4>2. place = rows + 1 - offset
        BY <2>3, <3>2
      <4>3. Len(s.history) - offset + 1 = (rows + 1 - offset) - before
        <5>1. \A a, b, c \in Int : a - c + 1 = (b + 1 - c) - (b - a)
          OBVIOUS
        <5>2. Len(s.history) \in Int /\ rows \in Int /\ offset \in Int
          BY <2>3
        <5>3. QED
          BY ONLY <5>1, <5>2
      <4>4. before < place <=> Len(s.history) - offset + 1 \geq 1
        BY <2>3, <4>2
      <4>5. QED
        BY <4>1, <4>2, <4>3, <4>4 DEF At
    <3>3. CASE s.history # <<>> /\ ~open
      <4>1. /\ s.between /\ Len(s.history) - offset = place - before
            /\ before < place <=> place - before \geq 1
        BY <2>1, <2>3, <3>3 DEF FlagSound
      <4>2. QED
        BY <4>1 DEF At
    <3>4. QED
      BY <3>1, <3>2, <3>3
  <2>9. QED
    BY <2>7, <2>8
<1>2. MaxBars \in Nat
  BY RuntimeAssumption
<1>3. QED
  BY <1>1, <1>2, Inductive, PTL

\* What a sound runtime knows of its chart and its histories.
LEMMA ChartFacts ==
  ASSUME IInv
  PROVE  /\ barIndex \in Nat \cup {-1} /\ chartBars \in Seq(ClosedRecords)
         /\ open \in BOOLEAN /\ BarName \in DOMAIN series
         /\ Len(chartBars) = barIndex + 1 + (IF open THEN 1 ELSE 0)
         /\ open => currentBar \in ClosedRecords
         /\ \A n \in DOMAIN series :
              /\ series[n] \in SeriesOf(ValuesOf(n))
              /\ series[n].history \in Seq(ValuesOf(n) \cup {NA})
              /\ ~KeepsHistory(series[n]) => series[n].history = <<>>
<1>1. /\ ChartSound(barIndex, currentBar, chartBars, series[BarName], open)
      /\ open \in BOOLEAN /\ BarName \in DOMAIN series
      /\ \A n \in DOMAIN series : SeriesSound(n, series[n], truth)
  BY DEF IInv, Live, Sound
<1>2. /\ barIndex \in Nat \cup {-1} /\ chartBars \in Seq(ClosedRecords)
      /\ Len(chartBars) = barIndex + 1 + (IF open THEN 1 ELSE 0)
  BY <1>1 DEF ChartSound
<1>3. open => currentBar \in ClosedRecords
  BY <1>1, <1>2 DEF ChartSound
<1>4. QED
  BY <1>1, <1>2, <1>3 DEF SeriesSound, SeriesOf, KeepsHistory

\* Setting a series and opening a bar leave its history alone.
LEMMA HistoryStays ==
  ASSUME NEW values, NEW s \in SeriesOf(values), NEW v
  PROVE  SetTo(s, v).history = s.history /\ InBar(s).history = s.history
BY DEF SeriesOf, SetTo, InBar

\* No entry of a history that was there is changed.
HistoriesKept ==
  \A n \in DOMAIN series : \A i \in DOMAIN series[n].history :
    series'[n].history[i] = series[n].history[i]

\* No call rewrites a committed bar or a history entry, but a restore or a new
\* process: ticks reach the open bar alone and end_bar only appends.
THEOREM CommitsFinal == ASSUME Careful PROVE Spec => CommittedFrozen
<1> DEFINE Chart == barIndex \leq barIndex' /\ \A i \in 1..(barIndex + 1) : chartBars'[i] = chartBars[i]
           Frozen == Replaced \/ (Chart /\ HistoriesKept)
<1>1. ASSUME IInv, Next PROVE Frozen
  <2> USE <1>1, ChartFacts
  <2>1. ASSUME NEW bar \in Bars, BeginBar(bar) \/ BeginRealtimeBar(bar)
        PROVE  Frozen
    <3>1. barIndex' = barIndex /\ chartBars' = Append(chartBars, Normalized(bar))
      BY <2>1 DEF BeginBar, BeginRealtimeBar, OpenBar
    <3>2. \A n \in DOMAIN series : series'[n].history = series[n].history
      <4>1. PICK realtime \in BOOLEAN : OpenBar(bar, realtime)
        BY <2>1 DEF BeginBar, BeginRealtimeBar
      <4>2. series' = [n \in DOMAIN series |->
              IF n = BarName THEN SetTo(series[n], ExposedBar(Normalized(bar)))
                             ELSE InBar(series[n])]
        BY <4>1 DEF OpenBar
      <4>3. ASSUME NEW n \in DOMAIN series PROVE series'[n].history = series[n].history
        <5>1. series[n] \in SeriesOf(ValuesOf(n))
          OBVIOUS
        <5>2. series'[n] = SetTo(series[n], ExposedBar(Normalized(bar))) \/ series'[n] = InBar(series[n])
          BY <4>2
        <5>3. QED
          BY ONLY <5>1, <5>2, HistoryStays
      <4>4. QED
        BY <4>3
    <3>3. Normalized(bar) \in ClosedRecords
      BY NormalizedCloses
    <3>4. Chart
      BY <3>1, <3>3, AppendFacts
    <3>5. QED
      BY <3>2, <3>4 DEF HistoriesKept
  <2>2. ASSUME NEW tick \in Ticks, UpdateRealtimeTick(tick)
        PROVE  Frozen
    <3>1. /\ open /\ barIndex' = barIndex
          /\ chartBars' = [chartBars EXCEPT ![Len(chartBars)] = Ticked(currentBar, tick)]
      BY <2>2 DEF UpdateRealtimeTick, LastPlace
    <3>2. \A n \in DOMAIN series : series'[n].history = series[n].history
      BY <2>2 DEF UpdateRealtimeTick, SetTo, SeriesOf
    <3>3. Chart
      BY <3>1
    <3>4. QED
      BY <3>2, <3>3 DEF HistoriesKept
  <2>3. CASE EndBar
    <3>1. barIndex' = barIndex + 1 /\ chartBars' = chartBars
      BY <2>3 DEF EndBar
    <3>2. ASSUME NEW n \in DOMAIN series, NEW i \in DOMAIN series[n].history
          PROVE  series'[n].history[i] = series[n].history[i]
      <4>1. KeepsHistory(series[n])
        <5>1. series[n].history # <<>>
          BY <3>2
        <5>2. ~KeepsHistory(series[n]) => series[n].history = <<>>
          OBVIOUS
        <5>3. QED
          BY <5>1, <5>2
      <4>2. series'[n].history = Append(series[n].history, series[n].current)
        BY <2>3, <4>1 DEF EndBar, Committed, SeriesOf
      <4>3. /\ series[n].history \in Seq(ValuesOf(n) \cup {NA})
            /\ series[n].current \in ValuesOf(n) \cup {NA}
        BY DEF SeriesOf
      <4>4. QED
        BY <4>2, <4>3, AppendFacts
    <3>3. QED
      BY <3>1, <3>2 DEF HistoriesKept
  <2>4. ASSUME NEW name \in Names, NEW dtype \in Dtypes, NEW initial \in Initials,
               NewSeries(name, dtype, initial)
        PROVE  Frozen
    BY <2>4 DEF NewSeries, ScriptStep, WithSeries, HistoriesKept
  <2>5. ASSUME NEW name \in Names, NEW v \in Values \cup {NA},
               SetCurrent(name, v) \/ ExprHistory(name, v)
        PROVE  Frozen
    <3>1. \A n \in DOMAIN series : series'[n].history = series[n].history
      <4>1. ASSUME NEW n \in DOMAIN series PROVE series'[n].history = series[n].history
        <5>1. series[n] \in SeriesOf(ValuesOf(n))
          OBVIOUS
        <5>2. series'[n] = series[n] \/ series'[n] = SetTo(series[n], v)
          BY <2>5 DEF SetCurrent, ExprHistory, WithSeries
        <5>3. QED
          BY ONLY <5>1, <5>2, HistoryStays
      <4>2. QED
        BY <4>1
    <3>2. QED
      BY <2>5, <3>1 DEF SetCurrent, ExprHistory, ScriptStep, HistoriesKept
  <2>6. ASSUME UNCHANGED <<barIndex, chartBars, series>>
        PROVE  Frozen
    BY <2>6 DEF HistoriesKept
  <2>7. CASE Replaced
    BY <2>7
  <2> HIDE DEF Frozen
  <2>8. QED
    BY <2>1, <2>2, <2>3, <2>4, <2>5, <2>6, <2>7
    DEF Next, Replaced, SetLastConfirmedHistory, UpdateMemory, UpdateVarip,
        ResetVaripState, ScriptStep, ExportState, runtimeVars
<1>2. IInv /\ [Next]_vars => [Frozen]_vars
  <2> HIDE DEF Frozen
  <2>1. QED
    BY <1>1
<1>3. QED
  BY <1>2, Inductive, PTL DEF Spec, CommittedFrozen, HistoriesKept

\* While a bar stays open, ticks only widen it and add to its volume.
THEOREM TicksWiden == ASSUME Careful PROVE Spec => TicksMonotone
<1> DEFINE Wider == /\ currentBar'.high \geq currentBar.high
                    /\ currentBar'.low \leq currentBar.low
                    /\ currentBar'.volume \geq currentBar.volume
                    /\ currentBar'.time = currentBar.time
                    /\ currentBar'.timeClose = currentBar.timeClose
           Widened == open /\ open' /\ ~Replaced => Wider
<1>1. ASSUME IInv, Next PROVE Widened
  <2> SUFFICES ASSUME open, open', ~Replaced PROVE Wider
    OBVIOUS
  <2>1. currentBar \in ClosedRecords
    BY <1>1, ChartFacts
  <2>2. ASSUME currentBar' = currentBar PROVE Wider
    BY <2>1, <2>2 DEF ClosedRecords, BarRecords
  <2>3. ASSUME NEW tick \in Ticks, UpdateRealtimeTick(tick) PROVE Wider
    BY <2>1, <2>3, TickedBar DEF UpdateRealtimeTick
  <2> HIDE DEF Wider
  <2>4. QED
    BY <1>1, <2>2, <2>3
    DEF Next, Replaced, BeginBar, BeginRealtimeBar, OpenBar, EndBar, SetLastConfirmedHistory,
        NewSeries, SetCurrent, ExprHistory, UpdateMemory, UpdateVarip, ResetVaripState,
        ScriptStep, ExportState, runtimeVars
<1>2. IInv /\ [Next]_vars => [Widened]_vars
  <2> HIDE DEF Widened
  <2>1. QED
    BY <1>1
<1>3. QED
  BY <1>2, Inductive, PTL DEF Spec, TicksMonotone

-----------------------------------------------------------------------------
(* The runtime implements the bar history. *)

\* The rows depend on the histories alone: registries that differ in a series
\* without history only have the same rows.
LEMMA SameRows ==
  ASSUME NEW r1, NEW r2, NEW count \in Nat, DOMAIN r1 \subseteq DOMAIN r2,
         \A n \in DOMAIN r1 : r2[n].history = r1[n].history,
         \A n \in DOMAIN r2 : n \notin DOMAIN r1 => r2[n].history = <<>>
  PROVE  RowsOf(r2, count) = RowsOf(r1, count)
<1> SUFFICES ASSUME NEW i \in 1..count
             PROVE  [n \in {m \in DOMAIN r2 : count - i < Len(r2[m].history)} |->
                       r2[n].history[i - count + Len(r2[n].history)]]
                  = [n \in {m \in DOMAIN r1 : count - i < Len(r1[m].history)} |->
                       r1[n].history[i - count + Len(r1[n].history)]]
  BY DEF RowsOf
<1>1. \A m \in DOMAIN r2 : m \notin DOMAIN r1 => ~(count - i < Len(r2[m].history))
  <2>1. Len(<<>>) = 0 /\ ~(count - i < 0)
    OBVIOUS
  <2>2. QED
    BY <2>1
<1>2. {m \in DOMAIN r2 : count - i < Len(r2[m].history)}
        = {m \in DOMAIN r1 : count - i < Len(r1[m].history)}
  BY <1>1
<1>3. QED
  BY <1>2

\* What ending a bar makes of the history of a series.
LEMMA CommittedHistory ==
  ASSUME NEW values, NEW s \in SeriesOf(values), NEW flag
  PROVE  [Committed(s) EXCEPT !.between = flag].history
           = IF KeepsHistory(s) THEN Append(s.history, s.current) ELSE <<>>
<1>1. s.history \in Seq(values \cup {NA}) /\ s.current \in values \cup {NA}
  BY DEF SeriesOf
<1>2. Committed(s).history = IF KeepsHistory(s) THEN Append(s.history, s.current) ELSE <<>>
  BY DEF Committed, SeriesOf
<1>3. DOMAIN Committed(s) = DOMAIN s /\ "history" \in DOMAIN s
  BY DEF Committed, SeriesOf
<1>4. QED
  BY <1>2, <1>3

LEMMA Shifts ==
  /\ \A a, b, c \in Int : a - (b + 1) + (c + 1) = a - b + c
  /\ \A a, b, c \in Int : b - a < c /\ a \leq b => a - b + c \in 1..c
  /\ \A a, c \in Int : (a + 1) - (a + 1) + c = c
OBVIOUS

\* Ending a bar adds the row of the current values.
LEMMA EndRow ==
  ASSUME IInv, EndBar
  PROVE  RowsOf(series', barIndex' + 1) = Append(RowsOf(series, barIndex + 1), NowOf(series))
<1> DEFINE count == barIndex + 1
           now == NowOf(series)
           old == RowsOf(series, count)
           new == RowsOf(series', count + 1)
           H(n) == series[n].history
           H2(n) == series'[n].history
<1>1. count \in Nat /\ barIndex' + 1 = count + 1 /\ DOMAIN series' = DOMAIN series
  BY ChartFacts DEF EndBar
<1>2. ASSUME NEW n \in DOMAIN series
      PROVE  /\ Len(H(n)) \in Nat
             /\ KeepsHistory(series[n]) =>
                  /\ Len(H2(n)) = Len(H(n)) + 1
                  /\ \A i \in 1..Len(H(n)) : H2(n)[i] = H(n)[i]
                  /\ H2(n)[Len(H(n)) + 1] = series[n].current
             /\ ~KeepsHistory(series[n]) => Len(H(n)) = 0 /\ Len(H2(n)) = 0
  <2>1. /\ series[n] \in SeriesOf(ValuesOf(n))
        /\ H(n) \in Seq(ValuesOf(n) \cup {NA}) /\ series[n].current \in ValuesOf(n) \cup {NA}
        /\ ~KeepsHistory(series[n]) => H(n) = <<>>
    BY ChartFacts DEF SeriesOf
  <2>2. series'[n] = [Committed(series[n]) EXCEPT !.between = @ \/ ~barstate.realtime]
    BY DEF EndBar
  <2>3. H2(n) = IF KeepsHistory(series[n]) THEN Append(H(n), series[n].current) ELSE <<>>
    BY <2>1, <2>2, CommittedHistory
  <2>4. Len(<<>>) = 0
    OBVIOUS
  <2> HIDE DEF H, H2
  <2>5. /\ Len(H(n)) \in Nat
        /\ Len(Append(H(n), series[n].current)) = Len(H(n)) + 1
        /\ \A i \in 1..Len(H(n)) : Append(H(n), series[n].current)[i] = H(n)[i]
        /\ Append(H(n), series[n].current)[Len(H(n)) + 1] = series[n].current
    BY <2>1, AppendFacts
  <2>6. QED
    BY <2>1, <2>3, <2>4, <2>5
<1> HIDE DEF count, H, H2
<1>3. ASSUME NEW i \in 1..count
      PROVE  new[i] = old[i]
  <2>1. \A m \in DOMAIN series : (count + 1) - i < Len(H2(m)) <=> count - i < Len(H(m))
    BY <1>1, <1>2
  <2>2. {m \in DOMAIN series' : (count + 1) - i < Len(H2(m))}
          = {m \in DOMAIN series : count - i < Len(H(m))}
    BY <1>1, <2>1
  <2>3. ASSUME NEW n \in DOMAIN series, count - i < Len(H(n))
        PROVE  H2(n)[i - (count + 1) + Len(H2(n))] = H(n)[i - count + Len(H(n))]
    <3>1. KeepsHistory(series[n])
      BY <1>1, <1>2, <2>3
    <3>2. Len(H2(n)) = Len(H(n)) + 1 /\ Len(H(n)) \in Nat
      BY <1>2, <3>1
    <3>3. /\ i - (count + 1) + (Len(H(n)) + 1) = i - count + Len(H(n))
          /\ i - count + Len(H(n)) \in 1..Len(H(n))
      BY <1>1, <2>3, <3>2, Shifts
    <3>4. QED
      BY <1>2, <3>1, <3>2, <3>3
  <2>4. i \in 1..(count + 1)
    BY <1>1
  <2> DEFINE count2 == count + 1
  <2> HIDE DEF count2
  <2>5. RowsOf(series', count2)[i]
          = [n \in {m \in DOMAIN series' : count2 - i < Len(series'[m].history)} |->
               series'[n].history[i - count2 + Len(series'[n].history)]]
    BY <2>4, Zenon DEF RowsOf, count2
  <2>6. new[i] = [n \in {m \in DOMAIN series' : (count + 1) - i < Len(H2(m))} |->
                    H2(n)[i - (count + 1) + Len(H2(n))]]
    BY <2>5 DEF count2, H2
  <2>7. old[i] = [n \in {m \in DOMAIN series : count - i < Len(H(m))} |->
                    H(n)[i - count + Len(H(n))]]
    BY Zenon DEF RowsOf, H
  <2>8. QED
    BY <2>2, <2>3, <2>6, <2>7
<1>4. new[count + 1] = now
  <2>1. \A m \in DOMAIN series :
          (count + 1) - (count + 1) < Len(H2(m)) <=> KeepsHistory(series[m])
    BY <1>1, <1>2
  <2>2. {m \in DOMAIN series' : (count + 1) - (count + 1) < Len(H2(m))}
          = {m \in DOMAIN series : KeepsHistory(series[m])}
    BY <1>1, <2>1
  <2>3. ASSUME NEW n \in DOMAIN series, KeepsHistory(series[n])
        PROVE  H2(n)[(count + 1) - (count + 1) + Len(H2(n))] = series[n].current
    <3>1. Len(H2(n)) = Len(H(n)) + 1 /\ Len(H2(n)) \in Int
      BY <1>2, <2>3
    <3>2. (count + 1) - (count + 1) + Len(H2(n)) = Len(H2(n))
      BY <1>1, <3>1, Shifts
    <3>3. QED
      BY <1>2, <2>3, <3>1, <3>2
  <2>4. count + 1 \in 1..(count + 1)
    BY <1>1
  <2> DEFINE count2 == count + 1
  <2> HIDE DEF count2
  <2>5. RowsOf(series', count2)[count2]
          = [n \in {m \in DOMAIN series' : count2 - count2 < Len(series'[m].history)} |->
               series'[n].history[count2 - count2 + Len(series'[n].history)]]
    BY <2>4, Zenon DEF RowsOf, count2
  <2>6. new[count + 1] = [n \in {m \in DOMAIN series' : (count + 1) - (count + 1) < Len(H2(m))} |->
                            H2(n)[(count + 1) - (count + 1) + Len(H2(n))]]
    BY <2>5 DEF count2, H2
  <2>7. now = [n \in {m \in DOMAIN series : KeepsHistory(series[m])} |-> series[n].current]
    BY DEF NowOf
  <2>8. QED
    BY <2>2, <2>3, <2>6, <2>7
<1>5. /\ new = [i \in 1..(count + 1) |-> new[i]]
      /\ old = [i \in 1..count |-> old[i]]
  BY DEF RowsOf
<1> HIDE DEF new, old, now
<1>6. Append(old, now) = [i \in 1..(count + 1) |-> IF i = count + 1 THEN now ELSE old[i]]
  <2> DEFINE Old == {old[i] : i \in 1..count} \cup {now}
  <2>1. old \in Seq(Old) /\ Len(old) = count
    BY <1>1, <1>5
  <2>2. now \in Old
    OBVIOUS
  <2> HIDE DEF Old
  <2>3. /\ Append(old, now) \in Seq(Old)
        /\ Len(Append(old, now)) = count + 1
        /\ \A i \in 1..count : Append(old, now)[i] = old[i]
        /\ Append(old, now)[count + 1] = now
    BY <2>1, <2>2, AppendFacts
  <2>4. Append(old, now) = [i \in 1..(count + 1) |-> Append(old, now)[i]]
    <3>1. \A q \in Seq(Old) : q = [i \in 1..Len(q) |-> q[i]]
      OBVIOUS
    <3>2. QED
      BY <2>3, <3>1
  <2>5. \A i \in 1..(count + 1) : i \in 1..count \/ i = count + 1
    BY <1>1
  <2>6. \A i \in 1..(count + 1) : Append(old, now)[i] = IF i = count + 1 THEN now ELSE old[i]
    BY <2>3, <2>5
  <2>7. QED
    BY <2>4, <2>6
<1>7. new = Append(old, now)
  <2>1. \A i \in 1..(count + 1) : i \in 1..count \/ i = count + 1
    BY <1>1
  <2>2. \A i \in 1..(count + 1) : new[i] = IF i = count + 1 THEN now ELSE old[i]
    BY <2>1, <1>3, <1>4
  <2>3. QED
    BY <1>5, <1>6, <2>2
<1>8. QED
  BY <1>1, <1>7 DEF new, old, now, count

\* The abstract snapshot that the snapshot of the runtime stands for.
AbstractKept ==
  [i \in DOMAIN saved |->
     [past |-> RowsOf(saved[i].series, saved[i].barIndex + 1),
      now |-> NowOf(saved[i].series), memory |-> saved[i].memory,
      sticky |-> saved[i].varip, open |-> saved[i].open]]

\* A step that leaves histories, snapshot and bar alone is an attempt.
LEMMA AttemptMaps ==
  ASSUME IInv, UNCHANGED <<barIndex, open, saved>>, DOMAIN series \subseteq DOMAIN series',
         \A n \in DOMAIN series : series'[n].history = series[n].history,
         \A n \in DOMAIN series' : n \notin DOMAIN series => series'[n].history = <<>>
  PROVE  History!Attempt
<1>1. barIndex + 1 \in Nat
  BY ChartFacts
<1>2. RowsOf(series', barIndex + 1) = RowsOf(series, barIndex + 1)
  BY <1>1, SameRows
<1>3. QED
  BY <1>2 DEF History!Attempt

LEMMA OpenMaps ==
  ASSUME Careful, IInv, NEW bar, NEW realtime, OpenBar(bar, realtime)
  PROVE  History!OpenRow
<1>1. /\ ~open /\ open' = TRUE /\ UNCHANGED <<barIndex, memory, varip, saved>>
      /\ series' = [n \in DOMAIN series |->
           IF n = BarName THEN SetTo(series[n], ExposedBar(Normalized(bar)))
                          ELSE InBar(series[n])]
  BY DEF OpenBar
<1>2. ASSUME NEW n \in DOMAIN series PROVE series'[n].history = series[n].history
  <2>1. series[n] \in SeriesOf(ValuesOf(n))
    BY ChartFacts
  <2>2. series'[n] = SetTo(series[n], ExposedBar(Normalized(bar))) \/ series'[n] = InBar(series[n])
    BY <1>1
  <2>3. QED
    BY ONLY <2>1, <2>2, HistoryStays
<1>3. DOMAIN series' = DOMAIN series /\ barIndex + 1 \in Nat
  BY <1>1, ChartFacts
<1>4. RowsOf(series', barIndex + 1) = RowsOf(series, barIndex + 1)
  BY <1>2, <1>3, SameRows
<1>5. QED
  BY <1>1, <1>4 DEF History!OpenRow

LEMMA EndMaps ==
  ASSUME Careful, IInv, EndBar
  PROVE  History!CloseRow
<1>1. open /\ open' = FALSE /\ UNCHANGED <<memory, varip, saved>>
  BY DEF EndBar
<1>2. RowsOf(series', barIndex' + 1) = Append(RowsOf(series, barIndex + 1), NowOf(series))
  BY EndRow
<1>3. NowOf(series') = NowOf(series)
  <2>1. ASSUME NEW n \in DOMAIN series
        PROVE  series'[n].current = series[n].current /\ series'[n].dtype = series[n].dtype
    <3>1. series[n] \in SeriesOf(ValuesOf(n))
      BY ChartFacts
    <3>2. series'[n] = [Committed(series[n]) EXCEPT !.between = @ \/ ~barstate.realtime]
      BY DEF EndBar
    <3>3. QED
      BY <3>1, <3>2 DEF Committed, SeriesOf
  <2>2. DOMAIN series' = DOMAIN series
    BY DEF EndBar
  <2>3. {m \in DOMAIN series' : KeepsHistory(series'[m])} = {m \in DOMAIN series : KeepsHistory(series[m])}
    BY <2>1, <2>2 DEF KeepsHistory
  <2>4. QED
    BY <2>1, <2>3 DEF NowOf
<1>4. QED
  BY <1>1, <1>2, <1>3 DEF History!CloseRow

LEMMA ExportMaps ==
  ASSUME NEW includeVarip \in BOOLEAN, ExportState(includeVarip)
  PROVE  History!Keep
<1>1. /\ saved' = <<Snapshot(includeVarip)>>
      /\ UNCHANGED <<barIndex, series, memory, varip, open>>
  BY DEF ExportState, runtimeVars
<1>2. DOMAIN saved' = {1} /\ saved'[1] = Snapshot(includeVarip)
  BY <1>1
<1>3. AbstractKept' = <<History!Kept(includeVarip)>>
  BY <1>2 DEF AbstractKept, Snapshot, History!Kept
<1>4. QED
  BY <1>1, <1>3 DEF History!Keep, AbstractKept

LEMMA RestoreMaps ==
  ASSUME IInv, RestoreState
  PROVE  History!RollBack
<1>1. /\ saved # <<>> /\ saved = <<saved[1]>> /\ saved' = saved
      /\ series' = saved[1].series /\ barIndex' = saved[1].barIndex
      /\ memory' = saved[1].memory /\ open' = saved[1].open
      /\ varip' = IF saved[1].varip = <<>> THEN varip ELSE saved[1].varip[1]
  BY DEF IInv, RestoreState, RestoredSeries, RestoredVarip
<1>2. DOMAIN saved = {1}
  BY <1>1
<1>3. /\ AbstractKept[1] =
           [past |-> RowsOf(saved[1].series, saved[1].barIndex + 1),
            now |-> NowOf(saved[1].series), memory |-> saved[1].memory,
            sticky |-> saved[1].varip, open |-> saved[1].open]
      /\ AbstractKept # <<>> /\ AbstractKept' = AbstractKept
  BY <1>1, <1>2 DEF AbstractKept
<1>4. QED
  BY <1>1, <1>3 DEF History!RollBack, AbstractKept

LEMMA RestartMaps ==
  ASSUME NewRuntime
  PROVE  History!StartOver
<1>1. barIndex' = -1 /\ open' = FALSE /\ saved' = saved
  BY DEF NewRuntime
<1>2. RowsOf(series', -1 + 1) = <<>>
  BY DEF RowsOf
<1>3. QED
  BY <1>1, <1>2 DEF History!StartOver

\* The runtime implements the bar history for every value of the constants:
\* a row is added by end_bar alone and restore_state returns to what was
\* exported, varip aside where the snapshot leaves it out.
THEOREM RuntimeImplementsHistory == ASSUME Careful PROVE Spec => ImplementsHistory
<1>1. Init => History!HistoryInit
  <2>1. RowsOf(EmptyRegistry, -1 + 1) = <<>>
    BY DEF RowsOf
  <2>2. QED
    BY <2>1 DEF Init, History!HistoryInit
<1>2. IInv /\ [Next]_vars => [History!HistoryNext]_(History!historyVars)
  <2> SUFFICES ASSUME IInv, [Next]_vars
               PROVE  History!HistoryNext \/ UNCHANGED History!historyVars
    OBVIOUS
  <2>1. ASSUME NEW bar \in Bars, BeginBar(bar) \/ BeginRealtimeBar(bar)
        PROVE  History!HistoryNext
    BY <2>1, OpenMaps DEF BeginBar, BeginRealtimeBar, History!HistoryNext
  <2>2. ASSUME NEW tick \in Ticks, UpdateRealtimeTick(tick)
        PROVE  History!HistoryNext
    <3>1. /\ UNCHANGED <<barIndex, open, saved>> /\ DOMAIN series' = DOMAIN series
          /\ series' = [series EXCEPT ![BarName] =
                          SetTo(series[BarName], ExposedBar(Ticked(currentBar, tick)))]
      BY <2>2 DEF UpdateRealtimeTick
    <3>2. ASSUME NEW n \in DOMAIN series PROVE series'[n].history = series[n].history
      <4>1. series[n] \in SeriesOf(ValuesOf(n))
        BY ChartFacts
      <4>2. series'[n] = series[n] \/ series'[n] = SetTo(series[n], ExposedBar(Ticked(currentBar, tick)))
        BY <3>1
      <4>3. QED
        BY ONLY <4>1, <4>2, HistoryStays
    <3>3. QED
      BY <3>1, <3>2, AttemptMaps DEF History!HistoryNext
  <2>3. CASE EndBar
    BY <2>3, EndMaps DEF History!HistoryNext
  <2>4. ASSUME NEW name \in Names, NEW dtype \in Dtypes, NEW initial \in Initials,
               NewSeries(name, dtype, initial)
        PROVE  History!HistoryNext
    <3>1. /\ UNCHANGED <<barIndex, open, saved>> /\ DOMAIN series \subseteq DOMAIN series'
          /\ \A n \in DOMAIN series : series'[n].history = series[n].history
          /\ \A n \in DOMAIN series' : n \notin DOMAIN series => series'[n].history = <<>>
      BY <2>4 DEF NewSeries, ScriptStep, WithSeries, NewSeriesOf
    <3>2. QED
      BY <3>1, AttemptMaps DEF History!HistoryNext
  <2>5. ASSUME NEW name \in Names, NEW v \in Values \cup {NA},
               SetCurrent(name, v) \/ ExprHistory(name, v)
        PROVE  History!HistoryNext
    <3>1. /\ UNCHANGED <<barIndex, open, saved>> /\ DOMAIN series \subseteq DOMAIN series'
          /\ \A n \in DOMAIN series : series'[n] = series[n] \/ series'[n] = SetTo(series[n], v)
          /\ \A n \in DOMAIN series' : n \notin DOMAIN series =>
               series'[n] = SetTo(NewSeriesOf(ExprDtype(v), NA), v)
      BY <2>5 DEF SetCurrent, ExprHistory, ScriptStep, WithSeries
    <3>2. ASSUME NEW n \in DOMAIN series PROVE series'[n].history = series[n].history
      <4>1. series[n] \in SeriesOf(ValuesOf(n))
        BY ChartFacts
      <4>2. QED
        BY ONLY <3>1, <4>1, HistoryStays
    <3>3. SetTo(NewSeriesOf(ExprDtype(v), NA), v).history = <<>>
      BY DEF SetTo, NewSeriesOf
    <3>4. QED
      BY <3>1, <3>2, <3>3, AttemptMaps DEF History!HistoryNext
  <2>6. ASSUME UNCHANGED <<barIndex, open, saved, series>>
        PROVE  History!HistoryNext
    <3>1. \A n \in DOMAIN series' : n \in DOMAIN series
      BY <2>6
    <3>2. QED
      BY <2>6, <3>1, AttemptMaps DEF History!HistoryNext
  <2>7. ASSUME NEW includeVarip \in BOOLEAN, ExportState(includeVarip)
        PROVE  History!HistoryNext
    BY <2>7, ExportMaps DEF History!HistoryNext
  <2>8. CASE RestoreState
    BY <2>8, RestoreMaps DEF History!HistoryNext
  <2>9. CASE NewRuntime
    BY <2>9, RestartMaps DEF History!HistoryNext
  <2>10. CASE UNCHANGED vars
    BY <2>6, <2>10 DEF vars, runtimeVars
  <2>11. QED
    BY <2>1, <2>2, <2>3, <2>4, <2>5, <2>6, <2>7, <2>8, <2>9, <2>10
    DEF Next, SetLastConfirmedHistory, UpdateMemory, UpdateVarip, ResetVaripState, ScriptStep
<1>3. QED
  BY <1>1, <1>2, Inductive, PTL DEF Spec, ImplementsHistory, History!HistorySpec
=============================================================================
