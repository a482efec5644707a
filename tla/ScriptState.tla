------------------------------ MODULE ScriptState ------------------------------
(***************************************************************************)
(* What a script leaves behind besides its series: the window caches of    *)
(* ta/_impl_core.py and ta/_impl_stats2.py, which live in the module and   *)
(* not in the runtime, the drawings of pinelib/visual.py and the plots of  *)
(* pinelib/plot.py.  A bar is begun, revised by ticks and ended; a host    *)
(* exports and restores checkpoints and starts runtimes in one process.    *)
(* The other parts of a checkpoint are in PineRuntime.                     *)
(*                                                                         *)
(* Scripts.  One asks its helpers whenever it runs, one only on the bars   *)
(* on which a branch of it is taken, one draws and plots; a plot stands at *)
(* the top of a script, so every run of it on a bar plots.                 *)
(*                                                                         *)
(* Abstractions.  A runtime has the series src and cond.  Objects are of   *)
(* one kind, their attributes one value.  The keys of the caches are       *)
(* id(source), so a new runtime's series finds the entries of a dead one's *)
(* or none.  The time window of the plots is left out.                     *)
(***************************************************************************)
EXTENDS Integers, Sequences, FiniteSets, SequencesExt

CONSTANTS
  NA,
  Rows,         \* [src, cond]: what a bar may show
  Length,       \* the window of highest and lowest
  Attrs,        \* attributes of an object
  Limit,        \* the most objects at a time, NA for no limit
  Scripts,      \* subset of {"always", "sometimes", "drawings"}
  Resumes,      \* TRUE if a host resumes a run where another one was asked
  MaxBars,      \* bound on the bars
  MaxKept,      \* bound on the checkpoints
  MaxObjects    \* bound on the objects made

ASSUME ScriptAssumption ==
  /\ Length \in Nat \ {0} /\ MaxKept \in Nat
  /\ Limit \in Nat \cup {NA}
  /\ Scripts \subseteq {"always", "sometimes", "drawings"}
  /\ Resumes \in BOOLEAN
  /\ NA \notin Int \cup BOOLEAN
  /\ Rows \subseteq [src : Int \cup {NA}, cond : BOOLEAN \cup {NA}]

Modes == {"high", "low"}

VARIABLES
  script,
  past,         \* the committed rows: _history of src and cond
  now,          \* <<row>> between begin and end of a bar, else <<>>
  extremes,     \* _extreme_cache: mode -> [processed, queue]
  answers,      \* _rolling_bar_cache: <<>> or <<[token, told]>>
  occasions,    \* _valuewhen_cache: [processed, hits]
  seen,         \* history variable, [rows, whole]: the rows at the last question,
                \* and whether the caches hold rows of these alone
  told,         \* what the helpers answered in this attempt, <<>> before
  visual,       \* [next, objects, events]
  plots,        \* PlotRecorder._records
  kept          \* the checkpoints the host holds

caches == <<extremes, answers, occasions>>
recorders == <<visual, plots>>
scriptVars == <<script, past, now, caches, seen, told, recorders, kept>>

-----------------------------------------------------------------------------
(* The window caches *)

Beats(mode, a, b) == IF mode = "high" THEN a >= b ELSE a <= b

\* How many entries of the deque are left when it is popped at its end until one is
\* not beaten by v.
Unbeaten(queue, mode, v) ==
  CHOOSE k \in 0..Len(queue) :
    /\ k > 0 => ~Beats(mode, v, queue[k].value)
    /\ \A j \in (k + 1)..Len(queue) : Beats(mode, v, queue[j].value)

\* A committed value is pushed; na is passed over.
Pushed(queue, bar) ==
  IF bar.value = NA THEN queue
  ELSE Append(SubSeq(queue, 1, Unbeaten(queue, bar.mode, bar.value)),
              [at |-> bar.at, value |-> bar.value])

\* How many entries at the front have left the window.
Expired(queue, cutoff) ==
  CHOOSE k \in 0..Len(queue) :
    /\ \A j \in 1..k : queue[j].at < cutoff
    /\ k < Len(queue) => queue[k + 1].at >= cutoff

\* Mutant: a history that got shorter is not noticed.
KeptQueue(entry, committed) == entry

\* A rollback is noticed by the length alone.
Rewound(entry, committed) ==
  IF entry.processed > committed THEN [processed |-> 0, queue |-> <<>>] ELSE entry

\* _rolling_extreme: the entry after the call.
Caught(entry, mode) ==
  LET from == Rewound(entry, Len(past))
      fresh == [k \in 1..(Len(past) - from.processed) |->
                  [mode |-> mode, at |-> from.processed + k,
                   value |-> past[from.processed + k].src]]
      queue == FoldLeft(Pushed, from.queue, fresh)
      gone == Expired(queue, Len(past) + 2 - Length)
  IN  [processed |-> Len(past), queue |-> SubSeq(queue, gone + 1, Len(queue))]

\* highest or lowest and its bars, from the entry and the current value.
Best(entry, mode) ==
  LET v == now[1].src
      q == entry.queue
  IN  CASE v # NA /\ (q = <<>> \/ Beats(mode, v, q[1].value)) -> [value |-> v, bars |-> 0]
        [] q # <<>> /\ (v = NA \/ ~Beats(mode, v, q[1].value)) ->
             [value |-> q[1].value, bars |-> q[1].at - (Len(past) + 1)]
        [] q = <<>> /\ v = NA -> [value |-> NA, bars |-> NA]

\* _cached_bar_value: the last answer while committed length and value are the same.
AskExtremes ==
  LET token == <<Len(past), now[1].src>>
      caught == [m \in Modes |-> Caught(extremes[m], m)]
      best == [m \in Modes |-> Best(caught[m], m)]
  IN  IF answers # <<>> /\ answers[1].token = token
      THEN UNCHANGED <<extremes, answers>>
      ELSE /\ extremes' = caught
           /\ answers' = <<[token |-> token, best |-> best]>>

True(c) == c # NA /\ c

\* Mutant: the hits of a longer history are kept.
KeptHits(entry, committed) == entry

RewoundHits(entry, committed) ==
  IF entry.processed > committed THEN [processed |-> 0, hits |-> <<>>] ELSE entry

\* A committed bar on which the condition holds is the newest hit.
Hit(hits, row) == IF True(row.cond) THEN <<row.src>> \o hits ELSE hits

\* valuewhen: the hits of the committed bars, newest first.
AskOccasions ==
  LET from == RewoundHits(occasions, Len(past))
  IN  occasions' =
        [processed |-> Len(past),
         hits |-> FoldLeft(Hit, from.hits, SubSeq(past, from.processed + 1, Len(past)))]

ValueWhen(found, occurrence) ==
  LET hits == (IF True(now[1].cond) THEN <<now[1].src>> ELSE <<>>) \o found
  IN  IF occurrence < Len(hits) THEN hits[occurrence + 1] ELSE NA

Asks == script \in {"always", "sometimes"}

\* The script asks its helpers once in an attempt.
Ask ==
  /\ Asks /\ now # <<>> /\ told = <<>>
  /\ AskExtremes
  /\ AskOccasions
  /\ told' = <<[best |-> answers'[1].best,
                when |-> [n \in 0..1 |-> ValueWhen(occasions'.hits, n)]]>>
  /\ seen' = [rows |-> past,
              whole |-> Len(seen.rows) > Len(past) \/ (seen.whole /\ IsPrefix(seen.rows, past))]
  /\ UNCHANGED <<script, past, now, recorders, kept>>

-----------------------------------------------------------------------------
(* Drawings and plots *)

NewVisual == [next |-> 1, objects |-> [i \in {} |-> 0], events |-> <<>>]

Draws == script = "drawings" /\ now # <<>>

\* _check_limit: above the limit of the strategy's declaration new raises.
WithinLimit == Limit = NA \/ Cardinality(DOMAIN visual.objects) < Limit

\* VisualRecorder.new
New(attr) ==
  /\ Draws /\ WithinLimit /\ visual.next <= MaxObjects
  /\ LET id == visual.next
     IN  visual' = [next |-> id + 1,
                    objects |-> [i \in DOMAIN visual.objects \cup {id} |->
                      IF i = id THEN attr ELSE visual.objects[i]],
                    events |-> Append(visual.events, [action |-> "new", id |-> id, attr |-> attr])]
  /\ UNCHANGED <<script, past, now, caches, seen, told, plots, kept>>

\* VisualRecorder.set: an unknown or deleted id raises.
Set(id, attr) ==
  /\ Draws /\ id \in DOMAIN visual.objects
  /\ visual.objects[id] # attr
  /\ visual' = [visual EXCEPT !.objects[id] = attr,
                  !.events = Append(@, [action |-> "set", id |-> id, attr |-> attr])]
  /\ UNCHANGED <<script, past, now, caches, seen, told, plots, kept>>

\* VisualRecorder.delete: of an unknown id it is ignored.
Delete(id) ==
  /\ Draws /\ id \in DOMAIN visual.objects
  /\ visual' = [visual EXCEPT
                  !.objects = [i \in DOMAIN @ \ {id} |-> @[i]],
                  !.events = Append(@, [action |-> "delete", id |-> id])]
  /\ UNCHANGED <<script, past, now, caches, seen, told, plots, kept>>

\* record_plot: the bar's time, here its place, and the current value.
RecordPlot ==
  /\ Draws /\ told = <<>>
  /\ plots' = Append(plots, [time |-> Len(past) + 1, value |-> now[1].src])
  /\ told' = <<"plotted">>
  /\ UNCHANGED <<script, past, now, caches, seen, visual, kept>>

\* get_data_by_time: the last record of a bar wins.
DataByTime ==
  [t \in {plots[i].time : i \in DOMAIN plots} |->
     plots[CHOOSE i \in DOMAIN plots : /\ plots[i].time = t
                                       /\ \A j \in DOMAIN plots : plots[j].time = t => j <= i].value]

-----------------------------------------------------------------------------
(* Bars, ticks and checkpoints *)

Begin(row) ==
  /\ now = <<>> /\ Len(past) < MaxBars
  /\ now' = <<row>> /\ told' = <<>>
  /\ UNCHANGED <<script, past, caches, seen, recorders, kept>>

\* The script has run on the bar.
Ran == script = "sometimes" \/ told # <<>>

\* A tick revises the bar and the script runs on it again.
Tick(row) ==
  /\ now # <<>> /\ Ran /\ row # now[1]
  /\ now' = <<row>> /\ told' = <<>>
  /\ UNCHANGED <<script, past, caches, seen, recorders, kept>>

End ==
  /\ now # <<>> /\ Ran
  /\ past' = Append(past, now[1])
  /\ now' = <<>> /\ told' = <<>>
  /\ UNCHANGED <<script, caches, seen, recorders, kept>>

\* Mutant: the plots are not exported.
SnapshotUnplotted == [past |-> past, now |-> now, visual |-> visual, plots |-> <<>>]

\* export_state: the caches are no part of it.
Snapshot == [past |-> past, now |-> now, visual |-> visual, plots |-> plots]

\* A host exports before the script runs on a bar, and runs it after a restore.
Export ==
  /\ told = <<>>
  /\ Len(kept) < MaxKept
  /\ kept' = Append(kept, Snapshot)
  /\ UNCHANGED <<script, past, now, caches, seen, told, recorders>>

\* Mutant: the objects come back, the next id does not.
RestoredWithoutNext(snapshot) == [snapshot.visual EXCEPT !.next = 1]

RestoredVisual(snapshot) == snapshot.visual

\* A host rolls a run back to what it committed, or resumes one where the caches
\* have not been asked, in a new process say; with Resumes it does so anywhere.
Restore(snapshot) ==
  /\ Resumes \/ IsPrefix(snapshot.past, past) \/ answers = <<>>
  /\ past' = snapshot.past /\ now' = snapshot.now /\ told' = <<>>
  /\ visual' = RestoredVisual(snapshot) /\ plots' = snapshot.plots
  /\ UNCHANGED <<script, caches, seen, kept>>

Fresh(entries) ==
  /\ extremes' = [m \in Modes |-> [processed |-> 0, queue |-> <<>>]]
  /\ answers' = <<>>
  /\ occasions' = [processed |-> 0, hits |-> <<>>]
  /\ seen' = [rows |-> <<>>, whole |-> TRUE]

\* Another runtime, its series at new addresses or, in this process, at old ones.
NewRuntime ==
  /\ past' = <<>> /\ now' = <<>> /\ told' = <<>>
  /\ visual' = NewVisual /\ plots' = <<>>
  /\ Fresh(caches) \/ UNCHANGED <<caches, seen>>
  /\ UNCHANGED <<script, kept>>

Init ==
  /\ script \in Scripts
  /\ past = <<>> /\ now = <<>> /\ told = <<>>
  /\ extremes = [m \in Modes |-> [processed |-> 0, queue |-> <<>>]]
  /\ answers = <<>>
  /\ occasions = [processed |-> 0, hits |-> <<>>]
  /\ seen = [rows |-> <<>>, whole |-> TRUE]
  /\ visual = NewVisual /\ plots = <<>>
  /\ kept = <<>>

Next ==
  \/ \E row \in Rows : Begin(row) \/ Tick(row)
  \/ Ask
  \/ \E attr \in Attrs : New(attr) \/ \E id \in DOMAIN visual.objects : Set(id, attr)
  \/ \E id \in DOMAIN visual.objects : Delete(id)
  \/ RecordPlot
  \/ End
  \/ Export
  \/ \E i \in DOMAIN kept : Restore(kept[i])
  \/ NewRuntime

Spec == Init /\ [][Next]_scriptVars

-----------------------------------------------------------------------------
(* Properties *)

Shown == past \o now                            \* the bars up to the current one
Window == {i \in 1..Len(Shown) : i > Len(Shown) - Length /\ Shown[i].src # NA}

Extreme(mode) ==
  LET best == CHOOSE i \in Window : \A j \in Window :
                /\ Beats(mode, Shown[i].src, Shown[j].src)
                /\ Shown[j].src = Shown[i].src => j <= i
  IN  IF Window = {} THEN [value |-> NA, bars |-> NA]
      ELSE [value |-> Shown[best].src, bars |-> best - Len(Shown)]

\* The bars of the occasion with n later ones.
Occasion(n) ==
  {i \in 1..Len(Shown) :
     /\ True(Shown[i].cond)
     /\ Cardinality({j \in (i + 1)..Len(Shown) : True(Shown[j].cond)}) = n}

\* highest, lowest, their bars and valuewhen answer from the bars of the run
\* they are asked in, the last ones before the current value: not from bars
\* that were rolled back, and not from a run whose series had the same address.
\* A script that asks on every bar is always answered so.  One that skips bars
\* is, unless the rows have been replaced by as many others since the last question.
AnswersFromHistory ==
  Asks /\ told # <<>> /\ (script = "always" \/ seen.whole) =>
    /\ \A m \in Modes : told[1].best[m] = Extreme(m)
    /\ \A n \in 0..1 :
         told[1].when[n] = IF Occasion(n) = {} THEN NA
                           ELSE Shown[CHOOSE i \in Occasion(n) : TRUE].src

\* What an event of the log does to a table of objects.
Applied(objects, e) ==
  IF e.action = "delete" THEN [i \in DOMAIN objects \ {e.id} |-> objects[i]]
  ELSE [i \in DOMAIN objects \cup {e.id} |-> IF i = e.id THEN e.attr ELSE objects[i]]

Replayed == FoldLeft(Applied, [i \in {} |-> 0], visual.events)

\* The object table is what the event log replays to, and no id is made twice
\* in one log, across rollbacks as well.
DrawingsReplay ==
  /\ Replayed = visual.objects
  /\ \A i, j \in DOMAIN visual.events :
       /\ visual.events[i].action = "new" /\ visual.events[j].action = "new"
       /\ visual.events[i].id = visual.events[j].id
       => i = j
  /\ \A i \in DOMAIN visual.events : visual.events[i].id < visual.next

\* The plot of an ended bar is the value the bar ended with, whatever ticks and
\* rolled back attempts plotted before, and no bar has a plot that did not run.
PlotsFollowBars ==
  script = "drawings" =>
    /\ \A i \in 1..Len(past) : i \in DOMAIN DataByTime /\ DataByTime[i] = past[i].src
    /\ DOMAIN DataByTime \subseteq 1..Len(Shown)
=============================================================================
