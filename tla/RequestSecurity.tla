---------------------------- MODULE RequestSecurity ----------------------------
(***************************************************************************)
(* request.security and request.security_lower_tf, request/security.py and *)
(* request/providers.py: the bars of another timeframe are fetched once    *)
(* per cache key, a child runtime evaluates the expression on the bars it  *)
(* has not seen, the values are merged onto the chart bars that are new    *)
(* since the last call, and the answer is looked up by the bar index.  All *)
(* caches are part of the runtime checkpoint.                              *)
(*                                                                         *)
(* Abstractions.  One call site of each kind, whose arguments, data and    *)
(* runtime settings are the world, chosen at the start.  Of the four       *)
(* cursors and two held values of a cache entry only those of the key's    *)
(* mode ever move, and they are the entry's cursor and held.  A child is   *)
(* the bars it began (chart_bars), the bars it ended (its series) and the  *)
(* bars the expression's indicator states were fed; the value of an        *)
(* expression tells its bar and all that the child held, so that whatever  *)
(* an expression may read is in it.  A nested request raises from the      *)
(* expression.  Times are small integers and a closing time is the last    *)
(* instant of its bar.                                                     *)
(***************************************************************************)
EXTENDS Integers, Sequences, FiniteSets, SequencesExt

CONSTANTS
  Worlds,      \* calls and data to explore
  None,        \* an absent closing time, cap or end of the data
  NA,          \* the na value
  ChartMs,     \* interval of the chart
  Period,      \* interval of the requested timeframe
  Day,         \* one day
  MaxBack,     \* config.extra["max_bars_back"]
  MaxLog,      \* bound on the lower-timeframe calls
  MaxRaises    \* bound on the calls that raise

VARIABLES
  world,
  chart,       \* how many bars of world.chart the runtime has begun
  barIndex,    \* bar_index, -1 before the first commit
  open,        \* the script may run
  cache,       \* request_security_cache
  lowerCache,  \* request_lower_tf_cache
  log,         \* lower_tf_metadata_log
  answer,      \* history: the last answer of security, and where
  lowerAnswer, \* history: the last answer of security_lower_tf, and where
  raises,      \* history: calls that raised
  saved        \* <<>>, or the one checkpoint the host holds

runtimeVars == <<chart, barIndex, open, cache, lowerCache, log>>
vars == <<world, runtimeVars, answer, lowerAnswer, raises, saved>>

BarRecords == [time : Int, close : Int \cup {None}, na : BOOLEAN]

\* What an expression tells.
Tellings ==
  [bar : Int, begun : Seq(BarRecords), ended : Seq(BarRecords), fed : Seq(BarRecords)]

\* Feeds are in ascending order (providers.py:120), a bar does not close before it
\* opens (bar.py:33), nor after the next one opened; and the requested ones open at
\* least their timeframe apart.
ASSUME SecurityAssumption ==
  /\ ChartMs \in Nat \ {0} /\ Period \in Nat \ {0} /\ Day \in Nat \ {0}
  /\ MaxBack \in Nat /\ MaxLog \in Nat /\ MaxRaises \in Nat
  /\ None \notin Int /\ NA \notin Tellings
  /\ \A w \in Worlds :
       /\ w.asks \subseteq {"security", "lower"}
       /\ w.gaps \in BOOLEAN /\ w.lookahead \in BOOLEAN /\ w.legacy \in BOOLEAN
       /\ w.ignore \in BOOLEAN /\ w.intrabar \in BOOLEAN
       /\ w.count \in Nat \cup {None} /\ w.dataEnd \in Nat \cup {None}
       /\ \A feed \in {w.chart, w.bars, w.lower} :
            /\ feed \in Seq(BarRecords)
            /\ \A i \in 1..Len(feed) : feed[i].close # None => feed[i].time <= feed[i].close
            /\ \A i, j \in 1..Len(feed) : i < j =>
                 /\ feed[i].time < feed[j].time
                 /\ feed[i].close # None => feed[i].close <= feed[j].time
       /\ \A i, j \in 1..Len(w.bars) : i < j => w.bars[i].time + Period <= w.bars[j].time

-----------------------------------------------------------------------------
(* Bars and providers *)

Smaller(x, y) == IF x < y THEN x ELSE y
Larger(x, y) == IF x < y THEN y ELSE x

CloseTime(bar) == IF bar.close = None THEN bar.time ELSE bar.close

FirstBars(bars, count) ==
  IF count = None THEN bars ELSE SubSeq(bars, 1, Smaller(count, Len(bars)))

\* The bars at these places, in their order.
Pick(bars, places) ==
  FlattenSeq([i \in 1..Len(bars) |-> IF i \in places THEN <<bars[i]>> ELSE <<>>])

GetBars(bars, start, end, count) ==
  FirstBars(Pick(bars, {i \in 1..Len(bars) : start <= bars[i].time /\ bars[i].time < end}),
            count)

\* Mutant: a bar that opens inside the chart bar is taken whatever its close.
OpensInside(bars, c) ==
  Pick(bars, {i \in 1..Len(bars) : c.time <= bars[i].time /\ bars[i].time <= CloseTime(c)})

Inside(bars, c) ==
  Pick(bars, {i \in 1..Len(bars) :
                c.time <= bars[i].time /\ CloseTime(bars[i]) <= CloseTime(c)})

GetIntrabarBars(bars, c, count) == FirstBars(Inside(bars, c), count)

ChartSoFar == SubSeq(world.chart, 1, chart)
ChartBar == world.chart[chart]

RequestStart(chartStart) ==
  IF Period <= ChartMs THEN chartStart
  ELSE LET preroll == Larger(2 * Period, Period * Smaller(MaxBack, 500))
           start   == Larger(0, chartStart - preroll)
       IN  (start \div Period) * Period

RequestEnd == IF world.dataEnd = None THEN CloseTime(ChartBar) ELSE world.dataEnd

CacheKey == [start |-> RequestStart(world.chart[1].time), end |-> RequestEnd]

-----------------------------------------------------------------------------
(* The merge *)

\* Mutant: a bar without a close counts as closed when it opens.
OpenAsClose(bars, i) == CloseTime(bars[i])

EffectiveCloseTime(bars, i) ==
  CASE bars[i].close # None -> bars[i].close
    [] bars[i].close = None /\ i < Len(bars) -> bars[i + 1].time - 1
    [] bars[i].close = None /\ i = Len(bars) ->
         bars[i].time - 1 + (IF i > 1 THEN bars[i].time - bars[i - 1].time ELSE Day)

\* The first place from the cursor on where the while loop stops.
Skip(cursor, n, passed) ==
  CHOOSE k \in cursor..(n + 1) :
    /\ cursor..(k - 1) \subseteq passed
    /\ k <= n => k \notin passed

\* gaps_on: a value appears on the chart bar in which its stamp lies.
MergeGap(entry, c) ==
  LET n        == Len(entry.values)
      Stamp(i) == IF world.lookahead THEN entry.bars[i].time ELSE CloseTime(entry.bars[i])
      first    == Skip(entry.cursor, n, {i \in 1..n : Stamp(i) < c.time})
      beyond   == Skip(first, n, {i \in 1..n : Stamp(i) <= CloseTime(c)})
      value    == IF beyond > first THEN entry.values[beyond - 1] ELSE NA
  IN  [entry EXCEPT !.cursor = first, !.merged = Append(@, value)]

\* gaps_off: the last value reached is held.
MergeHeld(entry, c) ==
  LET Reached(i) == /\ entry.bars[i].time <= c.time
                    /\ ~world.lookahead =>
                         EffectiveCloseTime(entry.bars, i) <= CloseTime(c)
      next  == Skip(entry.cursor, Len(entry.values),
                    {i \in 1..Len(entry.values) : Reached(i)})
      value == IF next > entry.cursor THEN entry.values[next - 1] ELSE entry.held
  IN  [entry EXCEPT !.cursor = next, !.held = value, !.merged = Append(@, value)]

MergeBar(entry, c) == IF world.gaps THEN MergeGap(entry, c) ELSE MergeHeld(entry, c)

\* Mutant: the held value is not kept from call to call.
AppendForgetting(entry) ==
  FoldLeft(MergeBar, [entry EXCEPT !.held = NA],
           SubSeq(ChartSoFar, Len(entry.merged) + 1, chart))

AppendMerged(entry) ==
  FoldLeft(MergeBar, entry, SubSeq(ChartSoFar, Len(entry.merged) + 1, chart))

-----------------------------------------------------------------------------
(* The child and the cache *)

\* The value of the expression on this bar, of a child that holds this much before it.
Expression(child, bar) ==
  IF bar.na THEN NA
  ELSE [bar |-> bar.time, begun |-> child.begun, ended |-> child.ended, fed |-> child.fed]

NewEntry(bars) ==
  [bars |-> bars, values |-> <<>>, begun |-> <<>>, ended |-> <<>>, fed |-> <<>>,
   merged |-> <<>>, cursor |-> 1, held |-> NA]

Evaluate(entry, bar) ==
  [entry EXCEPT !.begun = Append(@, bar),
                !.values = Append(@, Expression(entry, bar)),
                !.ended = Append(@, bar),
                !.fed = Append(@, bar)]

Pending(entry) == SubSeq(entry.bars, Len(entry.values) + 1, Len(entry.bars))

\* Mutant: a call begins with the child on the first bar again.
EvaluateAll(entry, n) == FoldLeft(Evaluate, entry, SubSeq(entry.bars, 1, n))

EvaluateNext(entry, n) == FoldLeft(Evaluate, entry, SubSeq(Pending(entry), 1, n))

EntryOf ==
  IF CacheKey \in DOMAIN cache THEN cache[CacheKey]
  ELSE NewEntry(GetBars(world.bars, CacheKey.start, RequestEnd, world.count))

Put(function, key, value) ==
  [k \in DOMAIN function \cup {key} |-> IF k = key THEN value ELSE function[k]]

LookupIndex == IF world.legacy THEN barIndex + 1 ELSE barIndex

Lookup(merged) ==
  IF LookupIndex \in 0..(Len(merged) - 1) THEN merged[LookupIndex + 1] ELSE NA

\* The child has begun each bar once: no expression has raised in it.
Intact(entry) == entry.begun = entry.ended

Told(value, entry) ==
  answer' = [value |-> value, chart |-> chart, index |-> LookupIndex,
             intact |-> Intact(entry)]

-----------------------------------------------------------------------------
(* Actions *)

NoAnswer == [value |-> NA, chart |-> 0, index |-> 0, intact |-> TRUE]
NoLowerAnswer == [bars |-> <<>>, chart |-> 0]

Init ==
  /\ world \in Worlds
  /\ chart = 0
  /\ barIndex = -1
  /\ open = FALSE
  /\ cache = <<>>
  /\ lowerCache = <<>>
  /\ log = <<>>
  /\ answer = NoAnswer
  /\ lowerAnswer = NoLowerAnswer
  /\ raises = 0
  /\ saved = <<>>

BeginBar ==
  /\ ~open /\ chart < Len(world.chart)
  /\ chart' = chart + 1
  /\ open' = TRUE
  /\ UNCHANGED <<world, barIndex, cache, lowerCache, log, answer, lowerAnswer, raises, saved>>

EndBar ==
  /\ open
  /\ open' = FALSE
  /\ barIndex' = barIndex + 1
  /\ UNCHANGED <<world, chart, cache, lowerCache, log, answer, lowerAnswer, raises, saved>>

\* The script runs in an open bar and has a call site of this kind.
Asks(kind) == open /\ kind \in world.asks

\* No bars and ignore_invalid_symbol: na, and the empty entry stays.
SecurityInvalid ==
  /\ Asks("security") /\ EntryOf.bars = <<>> /\ world.ignore
  /\ cache' = Put(cache, CacheKey, EntryOf)
  /\ Told(NA, EntryOf)
  /\ UNCHANGED <<world, chart, barIndex, open, lowerCache, log, lowerAnswer, raises, saved>>

Security ==
  /\ Asks("security") /\ ~(EntryOf.bars = <<>> /\ world.ignore)
  /\ LET entry == AppendMerged(EvaluateNext(EntryOf, Len(Pending(EntryOf))))
     IN  /\ cache' = Put(cache, CacheKey, entry)
         /\ Told(Lookup(entry.merged), entry)
  /\ UNCHANGED <<world, chart, barIndex, open, lowerCache, log, lowerAnswer, raises, saved>>

\* The child begins a bar that it neither ends nor values; its states may be fed it.
Stopped(entry, bar, updated) ==
  [entry EXCEPT !.begun = Append(@, bar),
                !.fed = IF updated THEN Append(@, bar) ELSE @]

\* The expression raises on the bar after the first n pending ones, before or after
\* it has updated its indicator states.
SecurityRaises ==
  /\ Asks("security") /\ raises < MaxRaises
  /\ \E n \in 0..(Len(Pending(EntryOf)) - 1), updated \in BOOLEAN :
       LET done == EvaluateNext(EntryOf, n)
       IN  cache' = Put(cache, CacheKey, Stopped(done, Pending(done)[1], updated))
  /\ raises' = raises + 1
  /\ UNCHANGED <<world, chart, barIndex, open, lowerCache, log, answer, lowerAnswer, saved>>

LowerKey == [start |-> world.chart[1].time, end |-> RequestEnd]

LowerBars ==
  IF LowerKey \in DOMAIN lowerCache THEN lowerCache[LowerKey]
  ELSE GetBars(world.lower, LowerKey.start, LowerKey.end, world.count)

RequestLower(requested, selected) ==
  /\ Asks("lower") /\ Len(log) < MaxLog
  /\ log' = Append(log, [index |-> barIndex + 1, time |-> ChartBar.time,
                         requested |-> Len(requested),
                         selected |-> [i \in 1..Len(selected) |-> selected[i].time]])
  /\ lowerAnswer' = [bars |-> selected, chart |-> chart]
  /\ UNCHANGED <<world, chart, barIndex, open, cache, answer, raises, saved>>

SecurityLowerTf ==
  /\ ~world.intrabar
  /\ RequestLower(LowerBars, Inside(LowerBars, ChartBar))
  /\ lowerCache' = Put(lowerCache, LowerKey, LowerBars)

SecurityLowerTfIntrabar ==
  /\ world.intrabar
  /\ LET bars == GetIntrabarBars(world.lower, ChartBar, world.count)
     IN  RequestLower(bars, Inside(bars, ChartBar))
  /\ UNCHANGED lowerCache

Checkpoint ==
  [chart |-> chart, barIndex |-> barIndex, open |-> open, cache |-> cache,
   lowerCache |-> lowerCache, log |-> log]

Export ==
  /\ saved' = <<Checkpoint>>
  /\ UNCHANGED <<world, runtimeVars, answer, lowerAnswer, raises>>

\* Mutant: a restore that keeps the log, as a child created before it would.
RestoreKeepingLog ==
  /\ saved # <<>>
  /\ chart' = saved[1].chart /\ barIndex' = saved[1].barIndex
  /\ open' = saved[1].open /\ cache' = saved[1].cache
  /\ lowerCache' = saved[1].lowerCache
  /\ UNCHANGED <<world, log, answer, lowerAnswer, raises, saved>>

\* A rollback, or a resume in another process.
Restore ==
  /\ saved # <<>>
  /\ chart' = saved[1].chart /\ barIndex' = saved[1].barIndex
  /\ open' = saved[1].open /\ cache' = saved[1].cache
  /\ lowerCache' = saved[1].lowerCache /\ log' = saved[1].log
  /\ UNCHANGED <<world, answer, lowerAnswer, raises, saved>>

Next ==
  \/ BeginBar \/ EndBar
  \/ SecurityInvalid \/ Security \/ SecurityRaises
  \/ SecurityLowerTf \/ SecurityLowerTfIntrabar
  \/ Export \/ Restore

Spec == Init /\ [][Next]_vars

-----------------------------------------------------------------------------
(* Properties *)

\* The bars a request made now may use.
Available ==
  GetBars(world.bars, RequestStart(world.chart[1].time),
          IF world.dataEnd = None THEN CloseTime(world.chart[answer.chart])
                                  ELSE world.dataEnd, world.count)

\* What each merge mode promises on chart bar c, with no cursor and no cache.
Shown(bars, c) ==
  {i \in 1..Len(bars) :
     CASE world.gaps /\ world.lookahead ->
            bars[i].time \in c.time..CloseTime(c)
       [] world.gaps /\ ~world.lookahead ->
            CloseTime(bars[i]) \in c.time..CloseTime(c)
       [] ~world.gaps /\ world.lookahead -> bars[i].time <= c.time
       [] ~world.gaps /\ ~world.lookahead ->
            bars[i].time <= c.time /\ EffectiveCloseTime(bars, i) <= CloseTime(c)}

\* The value on the bar at place i of a child that has seen the bars before it once.
Fresh(bars, i) ==
  LET before == SubSeq(bars, 1, i - 1)
  IN  Expression([begun |-> before, ended |-> before, fed |-> before], bars[i])

Promised(bars, c) ==
  LET shown == Shown(bars, c)
      last  == CHOOSE i \in shown : \A j \in shown : j <= i
  IN  IF shown = {} THEN NA ELSE Fresh(bars, last)

\* What an expression without indicator state and without a look at chart_bars can tell.
Series(value) == IF value = NA THEN <<>> ELSE <<value.bar, value.ended>>

Scratch ==
  IF answer.index < 0 THEN NA ELSE Promised(Available, world.chart[answer.index + 1])

\* security.py:164-256 and 296-347: whatever calls and rollbacks went before, an answer
\* is the one a single merge over freshly fetched bars and a fresh child would give on
\* the chart bar the lookup index names.  If an expression has raised in the child that
\* answers, that holds for the bar and the series behind the answer, but not for what the
\* raise left in indicator states and chart_bars.
AnswersFromScratch ==
  answer.chart > 0 =>
    /\ Series(answer.value) = Series(Scratch)
    /\ answer.intact => answer.value = Scratch

\* security.py:313-336: the values a cache entry holds are those of its first bars, one
\* each and in order, and the child has ended exactly these bars, however often an
\* expression raised; the bars its indicator states were fed are no fewer than those it
\* ended and no more than those it began.  Where none raised, the values are those of a
\* fresh child.
ChildInStep ==
  \A key \in DOMAIN cache :
    LET entry == cache[key]
    IN  /\ entry.ended = SubSeq(entry.bars, 1, Len(entry.values))
        /\ \A i \in 1..Len(entry.values) :
             /\ Series(entry.values[i]) = Series(Fresh(entry.bars, i))
             /\ Intact(entry) => entry.values[i] = Fresh(entry.bars, i)
        /\ Len(entry.fed) \in Len(entry.ended)..Len(entry.begun)

Closes(bar) == IF bar.close = None THEN bar.time + Period - 1 ELSE bar.close

\* The value a call told was known when the chart bar it is told for closed.
KnownAtClose ==
  \A i \in 1..Len(world.bars) :
    (answer.value # NA /\ answer.value.bar = world.bars[i].time) =>
      Closes(world.bars[i]) <= CloseTime(world.chart[answer.index + 1])

\* security.py:65-100: with lookahead_off and gaps_off no answer comes from a bar
\* that has not closed, though its closing time may be missing and is inferred
\* from its neighbours (timeframes up to a day; see the findings for gaps_on).
NoLookahead ==
  (~world.lookahead /\ ~world.gaps /\ Period <= Day) => KnownAtClose

\* The docstring of _effective_close_time, for both gap modes: an aggregated bar
\* is only exposed after its period closed.  Refuted with gaps_on.
ExposedAfterClose == ~world.lookahead => KnownAtClose

\* security.py:351-400 and providers.py:125-176: an array holds exactly the
\* lower bars that lie in the chart bar of the call, oldest first, up to the
\* cap: global from the first chart bar for a data provider, per chart bar for
\* an intrabar provider.  A data provider also stops before the requested end, so
\* both agree when there is no cap and no bar opens at the last instant.
IntrabarsInside ==
  lowerAnswer.chart > 0 =>
    LET c     == world.chart[lowerAnswer.chart]
        end   == IF world.dataEnd = None THEN CloseTime(c) ELSE world.dataEnd
        fit   == {i \in 1..Len(world.lower) :
                    /\ c.time <= world.lower[i].time /\ CloseTime(world.lower[i]) <= CloseTime(c)
                    /\ world.intrabar \/ world.lower[i].time < end}
        Rank(i) == Cardinality({j \in 1..i : world.lower[j].time >= world.chart[1].time})
        Nth(i)  == Cardinality({j \in fit : j <= i})
        told  == {i \in fit : world.count # None =>
                    (IF world.intrabar THEN Nth(i) ELSE Rank(i)) <= world.count}
    IN  /\ {lowerAnswer.bars[i] : i \in 1..Len(lowerAnswer.bars)} = {world.lower[i] : i \in told}
        /\ Len(lowerAnswer.bars) = Cardinality(told)
        /\ \A i, j \in 1..Len(lowerAnswer.bars) :
             i < j => lowerAnswer.bars[i].time < lowerAnswer.bars[j].time

\* security.py:446-468: every entry of the metadata log names the chart bar it
\* was written on, by index and by time, after rollbacks too.
LogNamesBars ==
  \A i \in 1..Len(log) :
    /\ log[i].index + 1 \in 1..chart
    /\ world.chart[log[i].index + 1].time = log[i].time
    /\ i > 1 => log[i - 1].index <= log[i].index

=============================================================================
