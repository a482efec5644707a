----------------------------- MODULE StrategyRunner -----------------------------
(***************************************************************************)
(* run_generated_strategy of pinelib/backtest.py: the loop that drives a   *)
(* PineRuntime, a StrategyContext with its intent tape, and a generated    *)
(* script over the bars of a feed; and the host around it, which keeps     *)
(* checkpoints of both objects and calls the loop again, with the bars not *)
(* yet ended, when a call raised or the process died.                      *)
(*                                                                         *)
(* Abstractions.  A script is the function from a bar and a recalculation  *)
(* to the commands it submits: a generated script is deterministic.  The   *)
(* position of a bar is the pair of its exposed index and its time.        *)
(***************************************************************************)
EXTENDS StrategyContext, FiniteSets, SequencesExt

CONSTANTS
  BarName, NA, None, Interval, InferClose, Offset, MaxBars, MaxVolume,
                 \* as in PineRuntime
  Feeds,         \* feeds: sequences of bars, each with its ticks
  Scripts,       \* scripts: functions from bar number and recalc iteration
  Settings,      \* values of calc_on_every_tick, of the strategy and the schedule
  TheBody,       \* what the script's commands say
  Recoveries,    \* what a host does after a call raised
  MaxFailures    \* bound on the calls that raise and the processes that die

VARIABLES
  barIndex, currentBar, chartBars, series, barstate, memory, varip, rtSaved,
  open, truth,   \* the runtime
  feed, script, everyTick,
  pc,            \* where the loop stands
  first,         \* the place in feed of the first bar this call was given
  bar,           \* the place in feed of the bar the loop is at
  tick,          \* the tick of that bar the pass is for, 0 before the first
  line,          \* the command of the script submitted next
  snapshots,     \* the snapshots of this call
  progress,      \* what the progress callback was told last
  failures,
  retried        \* history variable: has a host called again on the same objects

rtVars == <<barIndex, currentBar, chartBars, series, barstate, memory, varip,
            rtSaved, open, truth>>
loopVars == <<first, bar, tick, line, snapshots, progress>>
inputs == <<feed, script, everyTick>>
hostVars == <<inputs, failures, retried>>
runnerVars == <<allVars, rtVars, pc, loopVars, hostVars>>

R == INSTANCE PineRuntime WITH
       Names <- {}, FalseValue <- FALSE, BoolValues <- BOOLEAN, Values <- BOOLEAN,
       Initials <- {}, Dtypes <- {}, Marks <- {}, Bars <- {}, Ticks <- {}, Careful <- FALSE,
       saved <- rtSaved

-----------------------------------------------------------------------------

NonNegative(n) == IF n < 0 THEN 0 ELSE n

FeedBars == [bar : R!BarRecords, ticks : Seq(R!TickRecords)]

\* Bars and ticks are well-formed, scripts submit what the tape accepts, and the
\* tape's bounds leave room for the positions and recalculations of the feeds.
ASSUME RunnerAssumption ==
  /\ Interval \in Nat \ {0}
  /\ Offset \in Int
  /\ None \notin R!BarRecords
  /\ NA \notin [index : Int, bar : R!BarRecords]
  /\ TheBody \in Bodies
  /\ "BAR_BEGIN" \in Phases
  /\ Feeds \subseteq Seq(FeedBars)
  /\ \A f \in Feeds : \A n \in 1..Len(f) :
       /\ Len(f[n].ticks) \leq MaxRecalc + 1
       /\ <<NonNegative(n - 1 + Offset), f[n].bar.time>> \in Positions
       /\ \A s \in Scripts, r \in 0..MaxRecalc : s[<<n, r>>] \in Seq(Commands)

NoProgress == [done |-> 0, total |-> 0]

RunnerInit ==
  /\ ContextInit
  /\ R!Init
  /\ feed \in Feeds
  /\ script \in Scripts
  /\ everyTick \in Settings
  /\ pc = "call"
  /\ first = 1 /\ bar = 1 /\ tick = 0 /\ line = 1
  /\ snapshots = <<>>
  /\ progress = NoProgress
  /\ failures = 0
  /\ retried = FALSE

\* _intent_bar_identity; the built-in series keep the bar that ended last.
BarPosition ==
  LET exposed == series[BarName].current
  IN  <<NonNegative(IF exposed = NA THEN barIndex ELSE exposed.index),
        IF currentBar = None THEN 0 ELSE currentBar.time>>

TicksOf(n) == feed[n].ticks

Realtime(n) == everyTick /\ TicksOf(n) # <<>>

\* The bar before the first one with ticks, or the last bar of the call.
LastConfirmedHistory ==
  LET live == {n \in first..Len(feed) : TicksOf(n) # <<>>}
  IN  IF live = {} THEN Len(feed)
      ELSE (CHOOSE n \in live : \A m \in live : n \leq m) - 1

\* A call attaches the runtime and starts at the first bar that has not ended.
Call ==
  /\ pc = "call"
  /\ AttachRuntime(identity)
  /\ first' = barIndex + 2
  /\ bar' = barIndex + 2
  /\ snapshots' = <<>>
  /\ progress' = NoProgress
  /\ pc' = IF barIndex + 2 > Len(feed) THEN "done" ELSE "bar"
  /\ UNCHANGED <<rtVars, tick, line, hostVars>>

BeginHistoricalBar ==
  /\ pc = "bar"
  /\ ~Realtime(bar)
  /\ R!BeginBar(feed[bar].bar)
  /\ pc' = "flag"
  /\ UNCHANGED <<allVars, loopVars, hostVars>>

\* Under calc_on_every_tick a bar without ticks is refused here.
FlagHistory ==
  /\ pc = "flag"
  /\ R!SetLastConfirmedHistory(bar = LastConfirmedHistory)
  /\ pc' = IF everyTick THEN "unsupported" ELSE "pass"
  /\ UNCHANGED <<allVars, loopVars, hostVars>>

BeginLiveBar ==
  /\ pc = "bar"
  /\ Realtime(bar)
  /\ R!BeginRealtimeBar(feed[bar].bar)
  /\ tick' = 0
  /\ pc' = "tick"
  /\ UNCHANGED <<allVars, first, bar, line, snapshots, progress, hostVars>>

\* The last tick of a bar is made final.
FeedTick ==
  /\ pc = "tick"
  /\ R!UpdateRealtimeTick([TicksOf(bar)[tick + 1] EXCEPT
                             !.final = @ \/ tick + 1 = Len(TicksOf(bar))])
  /\ tick' = tick + 1
  /\ pc' = "pass"
  /\ UNCHANGED <<allVars, first, bar, line, snapshots, progress, hostVars>>

\* Mutant: the recalculations of a bar are not told apart.
NoRecalc == 0

\* enumerate() counts the ticks from 0; a historical bar has one pass.
Recalc == IF Realtime(bar) THEN tick - 1 ELSE 0

BeginPass ==
  /\ pc = "pass"
  /\ BeginIntentCallback(BarPosition, "BAR_BEGIN", Recalc)
  /\ line' = 1
  /\ pc' = "script"
  /\ UNCHANGED <<rtVars, first, bar, tick, snapshots, progress, hostVars>>

Lines == script[<<bar, Recalc>>]

RunLine ==
  /\ pc = "script"
  /\ line \leq Len(Lines)
  /\ Submit(BarPosition, Lines[line], TheBody)
  /\ line' = line + 1
  /\ UNCHANGED <<rtVars, pc, first, bar, tick, snapshots, progress, hostVars>>

\* Mutant: a pass that submits nothing is run again.
PassUntilSubmitted ==
  /\ pc = "script"
  /\ line > Len(Lines)
  /\ pc' = IF Lines = <<>> THEN "pass"
           ELSE IF Realtime(bar) /\ tick < Len(TicksOf(bar)) THEN "tick" ELSE "commit"
  /\ UNCHANGED <<allVars, rtVars, loopVars, hostVars>>

EndPass ==
  /\ pc = "script"
  /\ line > Len(Lines)
  /\ pc' = IF Realtime(bar) /\ tick < Len(TicksOf(bar)) THEN "tick" ELSE "commit"
  /\ UNCHANGED <<allVars, rtVars, loopVars, hostVars>>

\* Mutant: the intents of the bar are not sealed.
CommitNothing ==
  /\ pc = "commit"
  /\ pc' = "end"
  /\ UNCHANGED <<allVars, rtVars, loopVars, hostVars>>

CommitTheIntents ==
  /\ pc = "commit"
  /\ CommitIntents(BarPosition)
  /\ pc' = "end"
  /\ UNCHANGED <<rtVars, loopVars, hostVars>>

EndTheBar ==
  /\ pc = "end"
  /\ R!EndBar
  /\ pc' = "snapshot"
  /\ UNCHANGED <<allVars, loopVars, hostVars>>

\* Mutant: the snapshot counts the events of the tape.
SnapshotOfTape ==
  [index |-> barIndex, time |-> currentBar.time, orders |-> Len(events),
   rules |-> Len(rules)]

Snapshot ==
  [index |-> barIndex, time |-> currentBar.time, orders |-> Len(pending),
   rules |-> Len(rules)]

\* Mutant: the scalar history misses the bar.
SnapshotOnly ==
  /\ pc = "snapshot"
  /\ snapshots' = Append(snapshots, Snapshot)
  /\ pc' = "progress"
  /\ UNCHANGED <<allVars, rtVars, first, bar, tick, line, progress, hostVars>>

TakeSnapshot ==
  /\ pc = "snapshot"
  /\ snapshots' = Append(snapshots, Snapshot)
  /\ CommitScalarHistory
  /\ pc' = "progress"
  /\ UNCHANGED <<rtVars, first, bar, tick, line, progress, hostVars>>

\* The loop over the ticks counts in the variable of the loop over the bars.
DoneAtProgress == IF Realtime(bar) THEN tick ELSE bar - first + 1

\* The progress callback of a host that keeps checkpoints exports both objects.
ReportProgress(keep) ==
  /\ pc = "progress"
  /\ progress' = [done |-> DoneAtProgress, total |-> Len(feed) - first + 1]
  /\ IF keep THEN ExportStrategy /\ R!ExportState(TRUE)
             ELSE UNCHANGED <<allVars, rtVars>>
  /\ bar' = bar + 1
  /\ pc' = IF bar = Len(feed) THEN "done" ELSE "bar"
  /\ UNCHANGED <<first, tick, line, snapshots, hostVars>>

\* The projection callback, the script or the progress callback raises.
Raise ==
  /\ pc \in {"pass", "script", "progress"}
  /\ failures < MaxFailures
  /\ failures' = failures + 1
  /\ pc' = "raised"
  /\ UNCHANGED <<allVars, rtVars, loopVars, inputs, retried>>

\* The host calls again with the same objects as they are.
Retry ==
  /\ pc = "raised"
  /\ "retry" \in Recoveries
  /\ retried' = TRUE
  /\ pc' = "call"
  /\ UNCHANGED <<allVars, rtVars, loopVars, inputs, failures>>

\* Mutant: only the runtime is put back.
RollBackRuntime ==
  /\ pc = "raised"
  /\ "rollback" \in Recoveries
  /\ R!RestoreState
  /\ pc' = "call"
  /\ UNCHANGED <<allVars, loopVars, hostVars>>

\* The host puts the same objects back to the checkpoints.
RollBack ==
  /\ pc = "raised"
  /\ "rollback" \in Recoveries
  /\ RestoreStrategy
  /\ R!RestoreState
  /\ pc' = "call"
  /\ UNCHANGED <<loopVars, hostVars>>

\* The process ends at any point of the loop; a new one has new objects.
Die ==
  /\ pc \notin {"done", "unsupported", "died", "raised"}
  /\ failures < MaxFailures
  /\ failures' = failures + 1
  /\ NewContext
  /\ R!NewRuntime
  /\ pc' = "died"
  /\ UNCHANGED <<loopVars, inputs, retried>>

\* The host gives up the objects of a call that raised.
Discard ==
  /\ pc = "raised"
  /\ NewContext
  /\ R!NewRuntime
  /\ pc' = "died"
  /\ UNCHANGED <<loopVars, hostVars>>

Resume ==
  /\ pc = "died"
  /\ IF savedContext = <<>> THEN UNCHANGED <<allVars, rtVars>>
                            ELSE RestoreStrategy /\ R!RestoreState
  /\ pc' = "call"
  /\ UNCHANGED <<loopVars, hostVars>>

Finished == pc \in {"done", "unsupported"} /\ UNCHANGED runnerVars

Loop ==
  \/ Call
  \/ BeginHistoricalBar
  \/ FlagHistory
  \/ BeginLiveBar
  \/ FeedTick
  \/ BeginPass
  \/ RunLine
  \/ EndPass
  \/ CommitTheIntents
  \/ EndTheBar
  \/ TakeSnapshot
  \/ \E keep \in BOOLEAN : ReportProgress(keep)

Recover == Retry \/ RollBack \/ Discard \/ Resume

RunnerNext == Loop \/ Recover \/ Raise \/ Die \/ Finished

RunnerSpec == RunnerInit /\ [][RunnerNext]_runnerVars

FairRunnerSpec == RunnerSpec /\ WF_runnerVars(Loop) /\ WF_runnerVars(Recover)
-----------------------------------------------------------------------------
(* Properties *)

PositionOf(n) == <<NonNegative(n - 1 + Offset), feed[n].bar.time>>

PassesOf(n) == IF Realtime(n) THEN Len(TicksOf(n)) ELSE 1

\* The deliveries of a pass, and of the run when nothing goes wrong.
PassKeys(n, recalc) ==
  LET lines == script[<<n, recalc>>]
  IN  [i \in DOMAIN lines |->
         [series |-> identity.series, pos |-> PositionOf(n), phase |-> "BAR_BEGIN",
          recalc |-> recalc, command |-> lines[i],
          ordinal |-> Cardinality({j \in 1..(i - 1) : lines[j] = lines[i]})]]

BarKeys(n) == FlattenSeq([k \in 1..PassesOf(n) |-> PassKeys(n, k - 1)])

KeysUpTo(n) == FlattenSeq([m \in 1..n |-> BarKeys(m)])

Recorded == [i \in DOMAIN events |-> events[i].key]

\* The tape is delivered exactly once: wherever a call raised, the process died,
\* and the host retried, rolled back or resumed, the tape is a prefix of what
\* the undisturbed run records, without a gap, a duplicate or a reordering, and
\* it holds every delivery of the bars that have ended.
DeliveredExactlyOnce ==
  /\ IsPrefix(Recorded, KeysUpTo(Len(feed)))
  /\ IsPrefix(KeysUpTo(barIndex + 1), Recorded)

EndedPositions == {PositionOf(n) : n \in 1..(barIndex + 1)}

\* The bars sealed on the tape are the bars the runtime has ended; between the
\* two calls that seal and end a bar that bar is sealed as well.
SealedAreEnded ==
  committed = EndedPositions \cup (IF pc = "end" THEN {PositionOf(bar)} ELSE {})

IsOrder(key) == key.command.kind = "order"

Cancels(key, id) ==
  \/ key.command.kind = "cancel_all"
  \/ key.command.kind = "cancel" /\ key.command.id = id

\* The book is the replay of the tape: one order per order intent, in the order
\* of the tape, cancelled exactly by the cancels that came after it.  A retry on
\* the same objects breaks this, a rollback or a resume does not.
BookIsReplay ==
  ~retried =>
  LET places == {i \in DOMAIN events : IsOrder(events[i].key)}
      book == [i \in places |->
                 LET id == events[i].key.command.id
                 IN  [id |-> id,
                      status |-> IF \E j \in DOMAIN events :
                                      j > i /\ Cancels(events[j].key, id)
                                 THEN "cancelled" ELSE "pending"]]
  IN  pending = [n \in 1..Cardinality(places) |->
                   book[CHOOSE i \in places :
                          Cardinality({j \in places : j \leq i}) = n]]

\* Whenever the loop is between two bars, the chart, the built-in series, the
\* committed rows of closedtrades and the bar index count the same bars.  A retry
\* on the same objects puts its open bar on the chart twice.
RowsAligned ==
  ~retried /\ pc \in {"call", "bar", "done"} =>
    /\ R!BarsAligned
    /\ ~open
    /\ Len(closedtrades.history) = barIndex + 1
    /\ \A n \in 1..(barIndex + 1) : chartBars[n].time = feed[n].bar.time

CountIn(keys, kind) == Cardinality({i \in DOMAIN keys : keys[i].command.kind = kind})

\* Every snapshot tells of the bar it was taken for: its index and time, and the
\* orders and rules submitted up to that bar, also in a call that resumed; a
\* retry on the same objects counts orders twice.
SnapshotsTrue ==
  ~retried =>
  \A i \in DOMAIN snapshots :
    LET n == first + i - 1
    IN  /\ snapshots[i].index = n - 1
        /\ snapshots[i].time = feed[n].bar.time
        /\ snapshots[i].orders = CountIn(KeysUpTo(n), "order")
        /\ snapshots[i].rules = CountIn(KeysUpTo(n), "risk")

\* However often calls raise and processes die, as long as that happens finitely
\* often and the host calls again, the run ends: with the whole tape recorded, or
\* at a bar the runner refuses.
Finishes ==
  <>(pc = "unsupported" \/ (pc = "done" /\ Recorded = KeysUpTo(Len(feed))))
=============================================================================
