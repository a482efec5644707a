# Verification of pinelib

TLA+ models of the parts of pinelib that keep state, the TLC runs that check
them on small instances, and the theorems proved of them with TLAPS. pinelib
runs the Python translation of a Pine script bar by bar. It keeps the history of
every series, evaluates indicators and requests of other timeframes, records the
orders and risk rules the script asks for as a tape of intents, and can save and
restore all of it. It simulates no broker.

## 1. Inventory

| component | source | state | operations |
|---|---|---|---|
| Intent tape | `strategy/intent_tape.py` | identity, events, ordinals, index by delivery key, sealed bars, callback scope, invocation counts | set_series_identity, begin_callback, record, commit_bar, export/restore |
| Intent checkpoint | `strategy/intent_checkpoint.py` | none | validate and rebuild a tape |
| Strategy facade | `strategy/context.py`, `strategy/intent_context.py` | pending orders, risk rules, scope, closedtrades | entry, order, exit, close, close_all, cancel, cancel_all, risk_*, begin/commit of a callback, attach_runtime |
| Strategy checkpoint | `strategy/strategy_checkpoint.py` | none | export, validating restore of facade and tape |
| Pine runtime | `core/runtime.py` | bar index, current bar, chart bars, series registry, bar state, indicator and varip state, request caches, recorders | begin_bar, begin_realtime_bar, update_realtime_tick, end_bar, series, expr_history, export/restore |
| Series | `core/series.py` | current value, history, between-bars flag | set_current, commit_current, history read |
| Runner | `backtest.py` | the loop of one call, its snapshots | run_generated_strategy |
| request.security | `request/security.py`, `request/providers.py` | requested bars, values, merge cursors, held value, child runtime, metadata log | security, security_lower_tf |
| Technical analysis | `ta/*.py` | one state per indicator and call site, in the runtime; window caches, in the module | one update per function and bar |
| Time functions | `core/timefunc.py` | none (reads the chart) | sessions, time, time_close, change, buckets |
| Recorders | `plot.py`, `visual.py` | plot records, drawing objects, ids, event log | record, new, set, delete |
| Inputs, validation, fixtures, tooling | `core/inputs.py`, `execution_context.py`, `parity.py`, `io.py`, `release.py`, ... | input metadata or none | registration, pure checks, file formats, packaging |

The runner owns the order of calls: it opens a bar on the runtime, opens a
callback on the facade (which opens it on the tape, at the position it reads
from the runtime), runs the script, seals the bar on the tape, ends the bar on
the runtime, takes a snapshot and commits the scalar history. The facade calls
the tape before it changes its own book. While a bar is open the script calls
indicators and requests, whose states are part of the runtime, and recorders.
Runtime and facade have separate checkpoints.

There are no threads. What is hard is order and repetition: ticks that run a bar
several times, callbacks delivered again, exceptions between two calls, a
rollback of the attempt at a tick, a checkpoint taken in the middle of a callback
and restored in a new process, state that is kept twice (list and index, book
and tape, chart and history, scope of facade and tape) and must not part, answers
computed incrementally that must equal a computation from scratch, and caches
that outlive what they were computed from.

What makes each component correct:

- tape: a delivery is recorded exactly once, sealed bars never change, events
  never change identity, every checkpoint can be restored;
- facade: book and tape tell of the same calls, the scope is the tape's;
- runtime: `s[n]` is the value committed n bars ago, committed bars are final,
  chart, bar index and built-in series are aligned, rollback is exact except for
  varip;
- runner: the tape of a disturbed run is the tape of the undisturbed one, the
  two objects are never a bar apart, and the run ends;
- request.security: the incremental merge is the merge from scratch, without
  looking ahead; arrays of lower bars hold the bars inside the chart bar;
- technical analysis: a state answers what the definition says of all bars so
  far; a cache answers from the bars of its own run;
- time functions: sessions, buckets, time and time_close agree with one calendar;
- recorders: objects are what the event log replays to, plots follow the bars.

The hazards of the code, line by line, are in `PROJECT.json`, each with the
properties that cover it or the reason none does.

## 2. Modules

| module | models |
|---|---|
| `IntentLog` | abstract: an append-only log with keys at most once, seals, one kept state |
| `IntentTape` | tape and checkpoint |
| `BarHistory` | abstract: rows of committed values, the present row, memory, and a sticky part that a rollback may leave alone |
| `PineRuntime` | runtime and series |
| `StrategyContext` | facade and its checkpoint; extends `IntentTape` |
| `StrategyRunner` | the runner and its host; extends `StrategyContext`, instantiates `PineRuntime` |
| `RequestSecurity` | request.security and request.security_lower_tf with child, caches and log |
| `Fractions`, `IndicatorWindows`, `IndicatorStates`, `Indicators` | exact numbers; what each indicator is of a window; the states a runtime keeps; a script that calls one of them per bar |
| `TimeFunctions` | sessions, buckets, time, time_close, change |
| `ScriptState` | module-level window caches, drawings and plots, under ticks and rollbacks |
| `StrategyProofs`, `PineRuntimeProofs`, `FoldLemmas`, `RequestSecurityProofs`, `ScriptStateProofs`, `TimeFunctionsProofs`, `IndicatorLemmas`, `IndicatorsProofs` | theorems |
| `MC*` | the values and bounds of the runs |

**IntentTape.** Variables carry the names of the fields (`events` is `_events`,
`byKey` is `_by_key`, `counts` is `_invocation_counts`); `saved` is the
checkpoint a host holds and `handed` records which event each automatic
invocation of the open callback was given. Hashes are the identities they hash.
A bar position is the pair of index and open time; the business fields and the
source span of an event are one opaque body. `record` is `RecordAutomatic` or
`RecordExplicit`, both ending in `Deliver`, which is `StoreNew` or `RepeatOld`.
A call that raises before it assigns is a disabled step. `BeginCallbackNoPhase`
is the one rejected call that has already assigned, the position.

**PineRuntime.** The eight built-in series are one, whose values pair exposed
index and bar. What the snapshot copies as a whole is `memory`. `open` and
`truth` are history variables: is a bar begun and not ended, and what were the
series at every end. With `Careful` the host begins, works on and ends bars in
turn. The runner's instance has `Careful` FALSE, so that a retry may begin an
open bar again; what is proved of it in section 4 includes that it takes turns
when it does not retry on the same objects.

**StrategyContext.** A command is its kind and id, and the kinds that place an
order are one. Every command is `RecordIntent` on the tape and then the change of
the book, in one step, because nothing runs between the two. Begins that fail are
steps of their own since the scope is assigned before the tape refuses it. The
counter closedtrades is part of the checkpoint.

**StrategyRunner.** `pc` walks through run_generated_strategy: call, bar, flag or
tick, pass, script, commit, end, snapshot, progress. Feed and script are chosen
at the start; a script is a function from bar and recalculation to commands.
The code in the callbacks may raise (`Raise`) and the process may end at any
point (`Die`). The host then calls again on the same objects (`Retry`), restores
both checkpoints on the same objects (`RollBack`), or starts with new objects
(`Discard`, `Resume`), each time with the bars the runtime has not ended. The
host is not part of the repository; what it does is what the two pairs of
export_state and restore_state and the progress callback are for.

**RequestSecurity.** The world fixes the arguments of the call site, the chart,
the requested bars and the settings (gaps, lookahead, legacy lookup, caps, end of
the data, kind of provider). `Security` is one call: fetch or find the cache
entry, evaluate the expression in the child on the bars it has not seen, merge
the values onto the chart bars that are new, look the answer up. The cursor loops
are `Skip`: the first place where the loop condition fails. The value of the
expression tells the bar it was evaluated on and all that the child holds at that
moment: the bars it has begun (`chart_bars`), the bars it has ended (the series)
and the bars its indicator states were fed. A value from the wrong bar, or from a
child that has seen a bar twice, cannot go unnoticed. `SecurityRaises` leaves the
entry as an exception in the expression does: a bar begun and not ended, with the
indicator states fed or not, depending on where it was raised.

**Indicators.** `IndicatorWindows` holds the batch definitions (a window to a
number), `IndicatorStates` one update operator per state class of the code, from
state and bar to state with the answer in `out`. `Indicators` feeds every state
all sequences of bars and compares with the definition over all bars so far.
The definitions know no state: `Defined` is said of the series as it stands, with
its na (`Closes`) or without (`Seen`, `Traded`), and recurs only where the
indicator is a recursion by nature (`Ema`, `Rma`). Recursion is by recursive
functions and folds, so that the same definitions can be proved about. Floats are
exact fractions in lowest terms: rounding and the drift of running totals are out
of the model. A deviation is its variance and a correlation its parts, since
there is no square root.

`IndicatorsAssumption` says what the bars of a world are: a close is a number or
na, volume likewise where it is a weight, and where whole bars are read the close
lies between low and high, as `Bar.validate` demands (`bar.py`). Volumes may be
negative and prices too: the averages by volume and mfi keep to their range only
while weights are amounts, which `AveragesInRange` and `OscillatorsInRange` say
in their premises.

A stop of supertrend is compared with the stop before it only while the close
before has not crossed it (`Held`): the line in the first bar of a direction is
the band of that bar, whatever the warm-up left behind, and may then give ground
once.

**TimeFunctions.** Time is an integer of units, a day has `Day` of them, and a
zone is one change of its offset. Bars above `Threshold` are in the finer unit of
a microsecond feed, as in the code. The times of a feed tell their unit
(`TellsUnit`): those of a microsecond feed are above the threshold, as they are
from September 2001 on. Bars come with their closing time or without. A missing
one is inferred in milliseconds (`runtime.py:563`), also for a bar that opens at a
time in microseconds.

**ScriptState.** The caches of the rolling extremes and of valuewhen live in the
Python module, keyed by id(source); a new runtime's series finds the entries of a
dead one's, or none. Scripts are of three kinds. One asks its helpers whenever it
runs; one skips bars, as a script does that asks in a branch, and a bar may end or
be revised without a question; one draws and plots. `seen` is a history variable:
the rows at the last question, and whether the caches hold rows of these alone.
Drawings and plots are part of the checkpoint. `Limit` is the number of objects a
strategy declaration allows (`context.py:178` hands it to the recorder), and NA
where there is none.

## 3. Runs

| run | shows | instance |
|---|---|---|
| `tape_deliveries` | the index is faithful, invocations distinct, sealed bars frozen, the tape append-only | strict tape, two commands and bodies, automatic and explicit ordinals, three events |
| `tape_checkpoints` | exports restorable, one identity, refinement of `IntentLog` | two profiles, two positions and a negative one, two events |
| `runtime_history` | every history read, aligned chart, final commits, monotone ticks, refinement of `BarHistory` | up to three bars, historical and live, two kinds of tick, series of three kinds created at any moment, exports with and without varip, restarts |
| `strategy_book` | book and tape agree, cancels are recorded, the scope follows the tape, checkpoints restorable | four commands, two recalculations, two events, two orders |
| `runner_failures` | the tape is delivered exactly once and sealed in step with the chart; book, chart, scalars and snapshots follow it; the run ends | four feeds of one to three bars, two scripts, three failures, all recoveries, index offset -1, under fairness |
| `security_merge` | answers are those of a merge from scratch, the child stays in step, nothing of the future shows, arrays hold the bars inside, the log names its bars | three chart bars, also with a hole; requested bars closed, open-ended, holed, na or none; all merge modes, caps, both providers; one raise, before or after the states of the expression are updated; one checkpoint |
| `indicators_functions` | every state is its definition, answers in range, pivots told once and late, stops only trail | 25 indicators and windows without a state, lengths 1 to 4, all sequences of up to six bars over three to five values with na |
| `time_sessions` | sessions, buckets, time, time_close, change | five bars around a change of the offset and a weekend, both units, closing times given or inferred, all sessions inside a day, over night and around the clock |
| `script_caches` | caches answer from the bars of the run to a script that asks on every bar, and to one that skips bars unless the rows it asked about were replaced by as many others; drawings replay, plots follow the bars | three bars, ticks, one checkpoint, a second runtime in the process |

Three more runs show a disagreement each (below).

**Bounds.** Each property of tape, facade and runtime relates at most two
deliveries, two scopes or two bars with one checkpoint between them: two events,
two positions and one checkpoint make every pair, and a third bar or failure
makes a repeat after a recovery. A merge answers from the requested bars around
one chart bar: three chart bars put one before and one after, and requested bars
of twice their length make a closing time fall inside, at the edge of and after
each. A window of length L is full after L bars, drops a value at L + 1 and has
dropped a whole window at 2L: six bars reach that for lengths two and three. Five
bars cross a day, a week and the change of an offset.

Deadlock is checked in the tape, runtime, facade and runner runs; the runner has
an explicit stuttering step where it has ended. In `security_*`,
`indicators_functions`, `time_sessions` and `script_*` it is not: the data of a
world end, and the program with them.

State constraints: `tape_deliveries` explores one life of a tape, since what
happens past an export is the subject of `tape_checkpoints`. `runtime_history`
explores all bars, ticks and types up to the first export, and from then on two
bars, float series and ticks that raise. `strategy_book` keeps the tape and its
checkpoint at three events together and moves the scalar history on an empty tape
only, which no property of the run reads. `script_caches` shows a script that asks on
every bar all four rows, one that skips bars three of them; both export between
bars only. A script that draws has two bars, no na, one export in the middle of a
bar and at most three events and plots together.

**Fairness.** Only `Finishes` of `runner_failures` needs it: weak fairness of the
loop, which is sequential code that nothing suspends, and of the host's recovery,
since a run that nobody calls again does not end. Failures are finitely many
(`MaxFailures`) by the same reason: no run ends under a script that raises for
ever. The other properties are safety.

**Disagreements found.** Runs with `expect: violation` show what the code does
against what its comments or documents say:

| run | what happens |
|---|---|
| `runtime_lazyseries` | a series created after the export makes the rollback of the same bar impossible |
| `security_lookahead` | with gaps_on and lookahead_off a bar without a closing time is shown when it opens |
| `script_resumed` | after a checkpoint is restored where another run of the same length has asked, ta.highest answers with a value of the abandoned bars, to a script that asks on every bar |

Other things a reader of the code should know, which the models contain or
exclude as said:

- after a realtime bar the series are not marked as between bars
  (`runtime.py:175`), so `s[1]` repeats the value just committed until the next
  begin: `ReadsCommitted` speaks of reads in a bar and after a historical one;
- a tick after end_bar passes the guard (`runtime.py:133`) and rewrites the
  committed chart bar, and a second end_bar commits everything twice
  (`runtime.py:168`): with `Careful` the host does neither;
- a bool series that is never set commits na (`series.py:55`);
- a begin that fails leaves the facade with a scope the tape has refused
  (`intent_context.py:83`), and a checkpoint taken then cannot be restored:
  `CheckpointRestorable` excludes it;
- commit_bar accepts a bar with a negative position and restore_state refuses it:
  `ExportRestorable` excludes it;
- after a bar with several ticks the progress callback is told a count of ticks
  (`backtest.py:292`), which may exceed the total; the model does the same;
- a retry on the same objects leaves duplicates in the book and on the chart
  while the tape stays exact: `BookIsReplay`, `RowsAligned` and `SnapshotsTrue`
  are claimed of runs without one, `DeliveredExactlyOnce` and `SealedAreEnded` of
  all;
- the batch form of supertrend compares with the band it has just moved
  (`_impl_trend.py:283`) and differs from the runtime form, which `TrailsTrend`
  is about;
- a time is taken for microseconds when it is above 10^15 (`timefunc.py:80`), so
  an older bar of a microsecond feed, whose open or close is not, is told in
  microseconds: `TellsUnit` keeps such bars out;
- change() compares with `chart_bars[bar_index - 1]`, which during a bar is two
  bars back, and divides the times as stored, in a microsecond feed by
  milliseconds, where its siblings normalise them first (`timefunc.py:131-141`).
  So it tells a new day a second time on the bar after, and in a microsecond feed
  on every bar longer than some 43 seconds. `ChangeMissesNone` claims only that no
  new day or week is missed;
- without closing times a microsecond feed gets closes that are a thousandth of a
  bar behind the open, so time_close() is not the last unit of the bar there:
  `TimeAndCloseAgree` says where it is;
- an expression that raises leaves its child with a bar begun twice after the next
  call, and, if it was raised behind an update, with indicator states that were
  fed the bar twice (`security.py:331-334`). ta.sma or ta.ema in it then answer
  otherwise than in a fresh child, for good. `AnswersFromScratch` and
  `ChildInStep` promise all of the value only while no expression has raised in
  the child (`intact`), and else its bar and the series behind it. Without that
  condition `security_merge` finds a counterexample of four states: begin a bar,
  raise before an update, ask;
- the window caches notice a rollback by the length of the history alone. A script
  that skips bars gets a stale answer if a rollback is followed by as many bars in
  which it did not ask, or if a runtime that inherits the id of a dead series is
  first asked when its history is as long as the dead one's. `AnswersFromHistory`
  excludes both by `seen.whole`; without it `script_caches` finds such an
  answer.

## 4. Proofs

All theorems hold for every value of the constants that satisfies the named
assumptions of the modules (`TapeAssumption`, `RuntimeAssumption`,
`ContextAssumption`, `RunnerAssumption`, `SecurityAssumption`,
`ScriptAssumption`, `TimeAssumption`, `IndicatorsAssumption`), which TLC evaluates
in the runs; the theorems about recorders use none.

**`StrategyProofs`, of the tape**

| theorem | property |
|---|---|
| `TypeCorrect` | `TypeOK` |
| `IndexCorrect` | `IndexFaithful` |
| `IdentityCorrect` | `OneIdentity` |
| `InvocationsDistinct` | `DistinctInvocations` |
| `ExportsRestorable` | `ExportRestorable` |
| `SealsHold` | `SealedBarsFrozen` |
| `TapeGrows` | `AppendOnly` |
| `TapeImplementsLog` | `ImplementsLog` |

All rest on `Inductive`: `IInv` holds in every reachable state. None of the
properties is inductive alone. A step that repeats a delivery keeps the index
only if the event found carries its own key; a restore keeps everything only if
the same facts hold of the checkpoint; and two invocations get distinct events
because each event handed out in a callback belongs to the ordinal it was handed
out for. `IInv` is therefore the type invariant, the faithful index, one
identity, the link from `handed` to the ordinals of the events, and the same
statements of the saved checkpoint. Each action has a lemma that it preserves
`IInv`. Refinement is proved step by step: a new delivery is `Append1`, a repeat
stutters, export and restore are `Keep` and `RollBack`.

**`PineRuntimeProofs`**, for a host that takes turns (`ASSUME Careful`)

| theorem | property |
|---|---|
| `TypeCorrect` | `TypeOK` |
| `ReadsCorrect` | `ReadsCommitted` |
| `ChartAligned` | `BarsAligned` |
| `CommitsFinal` | `CommittedFrozen` |
| `TicksWiden` | `TicksMonotone` |
| `RuntimeImplementsHistory` | `ImplementsHistory` |

A read is right only while the history of a series mirrors the rows that were
committed and its between flag tells where the host stands. `Sound` says so: the
types, `ChartSound` (chart, index and built-in series), and for every series
`SeriesSound` (its history is a suffix of its column in `truth`) and `FlagSound`.
`IInv` is `Sound` of the runtime and of the snapshot it may return to. The
refinement maps the committed rows and the present values of all series; the
lemma `EndRow` shows that ending a bar appends the present row even when series
were registered at different times.

**`StrategyProofs`, of the facade**

| theorem | property |
|---|---|
| `FacadeImplementsTape` | `ContextSpec => Spec` of the tape |
| `BookCorrect` | `BookMatchesTape` |
| `CancelsCorrect` | `CancelsRecorded` |
| `ScopesAgree` | `ScopeFollowsTape` |
| `CheckpointsRestorable` | `CheckpointRestorable` |

Every step of the facade is a step of the tape or leaves it alone, also the ones
that fail half way, so the theorems about the tape hold under the facade. `CInv`
adds what relates the two: the book to the events, the scope to the open
callback, and the same of the saved pair (`ContextInductive`).

**`StrategyProofs`, of the runner**

| theorem | property |
|---|---|
| `RunnerUsesFacade` | `RunnerSpec => ContextSpec` |
| `SealsFollowRuntime` | `SealedAreEnded` |
| `RunKeepsBook` | `BookMatchesTape` in every run |
| `RunKeepsRows` | `RowsAligned` |

These hold for every feed, script and number of failures. The runner computes the
position and the recalculation it hands to the facade from the runtime and its
own counters; that they are positions and recalculations the tape accepts needs
`RInv`: where the loop is in a bar, the runtime shows that bar and the tick is one
of its ticks, and the seals are the bars that have ended, in the live objects and
in the two checkpoints. A call attaches the
identity the tape already has, which the tape's invariant types; so the
invariants are proved together (`RunnerInductive`). `RowInv` adds the contents of chart, built-in series and
scalar history and that a bar is open exactly where the loop is in one.

**`StrategyProofs`, of what a run delivers**

| theorem | property |
|---|---|
| `RunDeliversOnce` | `DeliveredExactlyOnce` |
| `RunReplaysBook` | `BookIsReplay` |
| `RunSnapshotsTrue` | `SnapshotsTrue` |

They compare a run that fails and recovers with one that is never disturbed,
whose deliveries are concatenated bar by bar and pass by pass. `DInv`
(`DeliveryInductive`) says where each run stands in that sequence: the tape is a
start of it, what the loop has delivered is a start of the tape, and the two are
equal unless a retry on the same objects is under way or a call has raised; in a
pass the counts of the tape are those of the lines done; and a saved tape holds
exactly the bars its runtime has ended, or more after a retry. A delivery of the
loop is then either the next of the sequence, and appended, or already at its
place, and found there. It is new because the position tells bars apart that are
not sealed, the recalculation passes, and the ordinal equal commands of one
pass; two bars of one position cannot both deliver, since the first is sealed.

`BookIsReplay` names the order of a place by CHOOSE. `BookInv` says instead that
the order of an intent stands at the rank of the intent among the order intents,
cancelled exactly if a later intent cancels it, and that each order belongs to
an intent. `SnapInv` (`SnapshotsInductive`) says of each snapshot of a call which
bar it is of and that its counts are those of the sequence up to that bar, which
do not depend on the series.

**`FoldLemmas`** makes the folds of the models reachable. Its operator is a
constant, and a proof module instantiates it with the operator it folds
(`F == INSTANCE FoldLemmas WITH Op <- Applied`): what a fold of nothing and of
one element more is, and the same of FlattenSeq. Induction over numbers
(`SetInduction`) is said of a set and proved from the well-foundedness of <.
It states the few definitions it needs itself, since the prover spends minutes on
reading the community modules again for every instance.

**`RequestSecurityProofs`**

| theorem | property |
|---|---|
| `LogCorrect` | `LogNamesBars` |
| `ChildStaysInStep` | `ChildInStep` |
| `AnswersCorrect` | `AnswersFromScratch` |
| `AnswersLookBack` | `NoLookahead` |
| `ArraysCorrect` | `IntrabarsInside` |

A log entry is written with `bar_index + 1` because the index counts ended bars
and the request runs in an open one; `LogInv` relates chart, index and open bar,
live and in the checkpoint, and says of every entry which bar it names.

An answer is incremental: the cursor goes on where the last call left it, the held
value is remembered, and the child evaluates only the bars it has not seen. That
the result is the promise made of all bars at once (`Promised`, which knows no
cursor) needs `SecurityInv` (`SecurityInductive`) of each cache entry, live and
saved: the bars are those a fetch for the key gives; the child has one value for
each of its first bars, of the right bar and series, and the value of a fresh child
if it is intact (`ChildOK`); each merged answer is the child's value of the last
bar the mode shows (`Pledge`); and the bars before the cursor are behind every
chart bar to come, or with gaps_off reached by it, while the held value is that of
the bar before the cursor (`MergeOK`). So nothing is assumed of what a raise
leaves in a child, and the two halves of `AnswersFromScratch` both follow from the
one pledge. One chart bar more is `GapMerged` and `HeldMerged`; the calls fold
these steps over the chart bars that are new and over the bars pending.
`AnswersLookBack` then follows from the promise alone, with the three ways a
missing closing time is inferred. `LowerInv` says that an entry of the lower cache
is what a fetch for its key gives, so an array is the same whether it is cut from
an old entry or a fresh one.

What is used of the data is `SecurityAssumption`: na is no value of an
expression, feeds ascend
(`providers.py:120`), a bar closes neither before it opens (`bar.py:33`) nor after
the next one opens, and requested bars open at least a period apart. `PickAlong`,
that picking bars by their places gives these bars in their order, is where the
induction over the data is.

**`ScriptStateProofs`**

| theorem | property |
|---|---|
| `PlotsCorrect` | `PlotsFollowBars` |
| `DrawingsCorrect` | `DrawingsReplay` |
| `HelpersCorrect` (assumes `~Resumes`) | `AnswersFromHistory` |

`PlotInv` says that each ended bar has a record that is the last of its time and
tells its value, and that a script that has run has left such a record for the
open bar; the ticks that ran before leave older records, which the last one
hides. `ReplayInv` says of the live recorder and of every kept one that the fold
of the event log is the table of objects and that ids of log and table are below
the next one.

`CacheInv` carries `HelpersCorrect`. An entry of a cache may be behind the history
or, after a rollback, ahead of it; when it is not ahead, it is what the rows up to
the one it has processed say. For the extremes that is `QueueHolds`: the deque has
rows of the window in their order, none beaten by a later one of the deque, and
for every row of the window one that is as good and not earlier. Popping and
expiring keep it (`PushHolds`, `DroppedHolds`), so its first entry is the
extreme (`FirstIsBest`). For valuewhen it is `HitsHold`: the k-th hit is the value
on the occasion with k - 1 later ones. The kept answer is the best of the history it
was asked in, and its token has the length the entries have processed. A rollback
is noticed by its length alone. For a script that asks on every bar that is enough:
the history then is a start of the old one, and a bar ends only after the question,
so no entry that is ahead is met by a history that has grown past it. For a script
that skips bars it is not. `CacheInv` therefore says that the entries are true of
the rows in `seen` while these are whole, and that for a script that always asks
they are whole and the run goes on from them. Both halves fail
when a host restores a checkpoint of another run: the theorem assumes `~Resumes`,
and run `script_resumed` shows the wrong answer without it.

**`TimeFunctionsProofs`**

| theorem | property |
|---|---|
| `SessionsCorrect` | `SessionsDeclared` |
| `BucketsCorrect` | `BucketsTile` |
| `TimesCorrect` | `TimeAndCloseAgree` |
| `ChangeCorrect` | `ChangeMissesNone` |

`TimeInv` says that each bar was stored from a time that tells its unit, that the
times ascend (`InOrder`), and that the index is two short of the bars while one is
open. Reading a stored time back (`StoredRead`) turns every property into
arithmetic of days and weeks. For sessions, a trading day whose window holds the
time can only be the day of its wall clock or, over night, the next
(`OwnedIs`, `BoundsAre`). For weeks, the Monday of a wall clock opens a week that
contains it, and the instants of two Mondays are ordered as the Mondays are.

The last step needs an assumption on the zone tables, `MondayShows`: no change of
an offset skips or repeats a Monday midnight. After
a repeated midnight the clock shows the old week again, whose bucket has closed;
at a skipped one the new week's bucket opens only after its first bars. `TimeAssumption` has also that the clocks of a session lie inside a
day, as `_parse_clock` makes them, and that the times of a feed ascend.

**`IndicatorLemmas` and `IndicatorsProofs`**

| theorem | property |
|---|---|
| `AnswersAreDefinitions` | `StateIsDefinition` |
| `PivotsAreConfirmed` | `PivotsConfirmed` |
| `StopsTrailTrend` | `TrailsTrend` |

That an answer is its definition says nothing of what the state holds besides, and
is not inductive. `TAInv` says that the state is what `Kept` restates from the bars
so far: for an average the last L values and their total, for an exponential
average the value of the definition and, before its seed, the values and their sum,
and so on for each of the twenty-three helpers. Each has three lemmas: `...Starts`,
that the new state is what no bars leave; `...Step`, that one update of what must be
held of a series gives what must be held of the series and one value more; and
`...Follows`, which says the same of the helper and a bar, an na in it included.
`InitTAInv` and `NextTAInv` put them together.

`IndicatorLemmas` has what the steps compute with. A total, a weighted total or a
total of squares after a push and a drop is that of the new window. The smoothed
averages, defined by recursion over the series, get one lemma for one value more.
Answers are fractions in lowest terms and are compared as such, so that the greatest
common divisor exists, is unique and cancels is proved first. The provers have no
induction over sequences; `SeqInduction` is proved of sets of numbers from the
well-founded induction of the library, and used with a set in each lemma.

A pivot needs no state, and is read from the definitions. The trailing stops have an
invariant of their own: in `SarSound` the extreme point lies on the side of the
stop that the trend says (`Risen`, `Fallen`), in `TrendSound` there is no line
before the average has begun (`Quiet`), and after that the line is on the band of
its direction, with the close of the bar before (`Leading`).

`IndicatorsAssumption` is all that is used of the bars.

**Only model-checked.** `AnswersInRange` has no theorem: it bounds answers that
are proved to be their definitions, and is checked for each helper. `Finishes` of
the runner is a liveness property under fairness, and ENABLED and fairness are out
of the provers' reach. What the three violation runs show is a trace, and needs no
proof.

## 5. Not modelled

- Inputs: registration writes one dictionary entry; validation of single values
  is the rest. The entries are part of the opaque `memory` of the runtime.
- Footprint requests hand on the provider's answer and keep nothing.
- Expression histories share a series when two ids differ only in punctuation
  (`runtime.py:500`): the models have one name per series.
- The growth of the request cache when no end of the data is given
  (`security.py:278`) costs time and breaks no answer.
- Of request.security: sequences of values instead of expressions, nested
  requests (which raise), file providers and provider logs.
- Of technical analysis: floats, bands and channels composed of modelled
  indicators, linear regression, the gaussian average, obv and the legacy forms
  of cci and mfi.
- Of the time functions: calendar fields and the parsing of session strings and
  timeframe names.
- Of the recorders: the time window of plots, and ids of objects that a script
  keeps in varip, which a rollback does not take back with the objects.
- Children of a request share the metadata log of their parent, which a restore of
  the parent replaces: the models have the log of one runtime.
- Of the facade and runner: the broker ledger view, declaration settings and the
  report builder, which only format.
- String, colour and math helpers, schema and hash validation of single values,
  file formats and parity reports, packaging and release tooling: pure functions
  or input and output.
