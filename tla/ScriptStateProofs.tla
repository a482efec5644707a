--------------------------- MODULE ScriptStateProofs ---------------------------
(***************************************************************************)
(* Proofs about ScriptState, for every value of its constants: the plots   *)
(* tell the value each bar ended with, and the objects are what the event  *)
(* log replays to, no id made twice in one log, through ticks, rollbacks,  *)
(* resumes and new runtimes.  For a host that resumes no run where another *)
(* one was asked, the window caches answer a script that asks on every bar *)
(* from the bars of its run, and one that skips bars as long as no other   *)
(* rows have taken the place of those it last asked about.                 *)
(***************************************************************************)
EXTENDS ScriptState, FiniteSetTheorems, SequenceTheorems, TLAPS

Values == {row.src : row \in Rows}
Records == [time : Nat, value : Values]

\* The record at k is the last one of the bar at place t, and tells value v.
LastOf(records, t, v, k) ==
  /\ records[k].time = t /\ records[k].value = v
  /\ \A j \in 1..Len(records) : records[j].time = t => j <= k

Tells(records, t, v) == \E k \in 1..Len(records) : LastOf(records, t, v, k)

\* The records of a run whose ended bars are rows and whose open bar is bar.
RecordsOK(rows, bar, records) ==
  /\ rows \in Seq(Rows) /\ bar \in {<<>>} \cup {<<row>> : row \in Rows}
  /\ records \in Seq(Records)
  /\ \A k \in 1..Len(records) :
       records[k].time \in 1..(Len(rows) + (IF bar = <<>> THEN 0 ELSE 1))
  /\ \A t \in 1..Len(rows) : Tells(records, t, rows[t].src)

\* The ids of a visual recorder: each made once, and below the next.
IdsOK(recorder) ==
  /\ DOMAIN recorder = {"next", "objects", "events"}
  /\ recorder.next \in Nat
  /\ \E S : recorder.events \in Seq(S)
  /\ \A i \in 1..Len(recorder.events) :
       recorder.events[i].id \in Int /\ recorder.events[i].id < recorder.next
  /\ \A id \in DOMAIN recorder.objects : id \in Int /\ id < recorder.next
  /\ \A i, j \in 1..Len(recorder.events) :
       /\ recorder.events[i].action = "new" /\ recorder.events[j].action = "new"
       /\ recorder.events[i].id = recorder.events[j].id
       => i = j

PlotInv ==
  script = "drawings" =>
    /\ RecordsOK(past, now, plots)
    /\ told # <<>> => now # <<>> /\ Tells(plots, Len(past) + 1, now[1].src)
    /\ \E S : kept \in Seq(S)
    /\ \A i \in 1..Len(kept) : RecordsOK(kept[i].past, kept[i].now, kept[i].plots)

-----------------------------------------------------------------------------
(* Records *)

\* A record appended for the open bar is its last one.
LEMMA AppendTells ==
  ASSUME NEW records \in Seq(Records), NEW r \in Records
  PROVE  Tells(Append(records, r), r.time, r.value)
<1> DEFINE longer == Append(records, r)
<1>1. /\ Len(longer) = Len(records) + 1 /\ Len(records) \in Nat
      /\ longer[Len(records) + 1] = r
  OBVIOUS
<1>2. LastOf(longer, r.time, r.value, Len(records) + 1)
  BY <1>1 DEF LastOf
<1>3. QED
  BY <1>1, <1>2 DEF Tells

\* It leaves the last records of the other bars what they are.
LEMMA AppendKeeps ==
  ASSUME NEW records \in Seq(Records), NEW r \in Records,
         NEW t, NEW v, Tells(records, t, v), t # r.time
  PROVE  Tells(Append(records, r), t, v)
<1> DEFINE longer == Append(records, r)
<1>1. /\ Len(longer) = Len(records) + 1 /\ Len(records) \in Nat
      /\ longer[Len(records) + 1] = r
      /\ \A i \in 1..Len(records) : longer[i] = records[i]
  OBVIOUS
<1>2. PICK k \in 1..Len(records) : LastOf(records, t, v, k)
  BY DEF Tells
<1>3. k \in 1..Len(longer) /\ longer[k] = records[k]
  BY <1>1
<1>4. \A j \in 1..Len(longer) : longer[j].time = t => j <= k
  <2>1. ASSUME NEW j \in 1..Len(longer), longer[j].time = t
        PROVE  j \in 1..Len(records) /\ longer[j] = records[j]
    BY <1>1, <2>1
  <2>2. QED
    BY <1>2, <2>1 DEF LastOf
<1>5. LastOf(longer, t, v, k)
  BY <1>2, <1>3, <1>4 DEF LastOf
<1>6. QED
  BY <1>3, <1>5 DEF Tells

-----------------------------------------------------------------------------
(* Steps *)

\* A run starts with no records.
LEMMA NothingTold == RecordsOK(<<>>, <<>>, <<>>)
BY DEF RecordsOK

\* A bar that begins, or changes, has no ended value yet.
LEMMA BarShown ==
  ASSUME NEW rows, NEW bar, NEW records, RecordsOK(rows, bar, records), NEW row \in Rows
  PROVE  RecordsOK(rows, <<row>>, records)
BY DEF RecordsOK

\* The script plots the value of the open bar.
LEMMA PlotRecorded ==
  ASSUME PlotInv, script = "drawings", RecordPlot
  PROVE  /\ RecordsOK(past, now, plots')
         /\ now # <<>> /\ Tells(plots', Len(past) + 1, now[1].src)
<1> DEFINE r == [time |-> Len(past) + 1, value |-> now[1].src]
<1>1. /\ now # <<>> /\ plots' = Append(plots, r)
      /\ past \in Seq(Rows) /\ plots \in Seq(Records) /\ Len(past) \in Nat
  BY DEF RecordPlot, Draws, PlotInv, RecordsOK
<1>2. PICK row \in Rows : now = <<row>>
  BY <1>1 DEF PlotInv, RecordsOK
<1>3. r \in Records /\ r.time = Len(past) + 1 /\ r.value = now[1].src
  BY <1>1, <1>2 DEF Records, Values
<1> HIDE DEF r
<1>4. Tells(plots', Len(past) + 1, now[1].src)
  BY <1>1, <1>3, AppendTells
<1>5. \A t \in 1..Len(past) : Tells(plots', t, past[t].src)
  <2>1. TAKE t \in 1..Len(past)
  <2>2. Tells(plots, t, past[t].src) /\ t # r.time
    BY <1>1, <1>3 DEF PlotInv, RecordsOK
  <2>3. QED
    BY <1>1, <1>3, <2>2, AppendKeeps
<1>6. /\ plots' \in Seq(Records) /\ Len(plots') = Len(plots) + 1 /\ Len(plots) \in Nat
      /\ plots'[Len(plots) + 1] = r
      /\ \A k \in 1..Len(plots) : plots'[k] = plots[k]
  BY <1>1, <1>3
<1>7. \A k \in 1..Len(plots') : plots'[k].time \in 1..(Len(past) + 1)
  <2>1. TAKE k \in 1..Len(plots')
  <2>2. CASE k \in 1..Len(plots)
    BY <1>1, <1>6, <2>2 DEF PlotInv, RecordsOK
  <2>3. CASE k = Len(plots) + 1
    BY <1>1, <1>3, <1>6, <2>3
  <2>4. QED
    BY <1>6, <2>2, <2>3
<1>8. QED
  BY <1>1, <1>4, <1>5, <1>6, <1>7 DEF PlotInv, RecordsOK

\* The bar ends with the value its last record tells.
LEMMA BarEnded ==
  ASSUME PlotInv, script = "drawings", End
  PROVE  RecordsOK(past', now', plots')
<1>1. /\ now # <<>> /\ told # <<>> /\ past' = Append(past, now[1]) /\ now' = <<>>
      /\ plots' = plots /\ past \in Seq(Rows) /\ Len(past) \in Nat
      /\ plots \in Seq(Records)
  BY DEF End, Ran, recorders, PlotInv, RecordsOK
<1>2. PICK row \in Rows : now = <<row>>
  BY <1>1 DEF PlotInv, RecordsOK
<1>3. /\ past' \in Seq(Rows) /\ Len(past') = Len(past) + 1
      /\ past'[Len(past) + 1] = now[1]
      /\ \A t \in 1..Len(past) : past'[t] = past[t]
  BY <1>1, <1>2
<1>4. \A t \in 1..Len(past') : Tells(plots, t, past'[t].src)
  <2>1. TAKE t \in 1..Len(past')
  <2>2. CASE t \in 1..Len(past)
    BY <1>3, <2>2 DEF PlotInv, RecordsOK
  <2>3. CASE t = Len(past) + 1
    BY <1>1, <1>3, <2>3 DEF PlotInv
  <2>4. QED
    BY <1>1, <1>3, <2>2, <2>3
<1>5. \A k \in 1..Len(plots) : plots[k].time \in 1..Len(past')
  BY <1>1, <1>3 DEF PlotInv, RecordsOK
<1>6. QED
  BY <1>1, <1>3, <1>4, <1>5 DEF RecordsOK

\* A checkpoint is taken of the records, or a step leaves the checkpoints.
LEMMA KeptKeeps ==
  ASSUME PlotInv, script = "drawings", NEW s, kept' = Append(kept, s),
         RecordsOK(s.past, s.now, s.plots)
  PROVE  /\ \E S : kept' \in Seq(S)
         /\ \A i \in 1..Len(kept') : RecordsOK(kept'[i].past, kept'[i].now, kept'[i].plots)
<1>1. PICK S : kept \in Seq(S)
  BY DEF PlotInv
<1>2. kept \in Seq(S \cup {s}) /\ s \in S \cup {s}
  BY <1>1
<1>3. /\ kept' \in Seq(S \cup {s}) /\ Len(kept') = Len(kept) + 1 /\ Len(kept) \in Nat
      /\ kept'[Len(kept) + 1] = s
      /\ \A i \in 1..Len(kept) : kept'[i] = kept[i]
  BY <1>2
<1>4. ASSUME NEW i \in 1..Len(kept')
      PROVE  RecordsOK(kept'[i].past, kept'[i].now, kept'[i].plots)
  <2>1. CASE i \in 1..Len(kept)
    BY <1>3, <2>1 DEF PlotInv
  <2>2. CASE i = Len(kept) + 1
    BY <1>3, <2>2
  <2>3. QED
    BY <1>3, <2>1, <2>2
<1>5. QED
  BY <1>3, <1>4

\* Every step keeps the records, live and kept, in order.
LEMMA PlotsKept == PlotInv /\ [Next]_scriptVars => PlotInv'
<1> SUFFICES ASSUME PlotInv, [Next]_scriptVars, script' = "drawings" PROVE PlotInv'
  BY DEF PlotInv
<1>0. script = "drawings"
  BY DEF Next, Begin, Tick, Ask, New, Set, Delete, RecordPlot, End, Export, Restore,
         NewRuntime, scriptVars
<1>1. ASSUME NEW row \in Rows, Begin(row) \/ Tick(row) PROVE PlotInv'
  <2>1. /\ now' = <<row>> /\ told' = <<>> /\ UNCHANGED <<past, plots, kept>>
    BY <1>1 DEF Begin, Tick, recorders
  <2>2. RecordsOK(past, <<row>>, plots)
    BY <1>0, BarShown DEF PlotInv
  <2>3. QED
    BY <1>0, <2>1, <2>2 DEF PlotInv
<1>2. CASE Ask
  BY <1>0, <1>2 DEF Ask, Asks
<1>3. ASSUME UNCHANGED <<past, now, told, plots, kept>> PROVE PlotInv'
  BY <1>0, <1>3 DEF PlotInv
<1>4. CASE RecordPlot
  <2>1. UNCHANGED <<past, now, kept>>
    BY <1>4 DEF RecordPlot
  <2>2. QED
    BY <1>0, <1>4, <2>1, PlotRecorded DEF PlotInv
<1>5. CASE End
  <2>1. told' = <<>> /\ UNCHANGED kept
    BY <1>5 DEF End
  <2>2. QED
    BY <1>0, <1>5, <2>1, BarEnded DEF PlotInv
<1>6. CASE Export
  <2>1. /\ kept' = Append(kept, Snapshot) /\ told = <<>>
        /\ UNCHANGED <<past, now, told, plots>>
    BY <1>6 DEF Export, recorders
  <2>2. RecordsOK(Snapshot.past, Snapshot.now, Snapshot.plots)
    BY <1>0 DEF Snapshot, PlotInv
  <2>3. QED
    BY <1>0, <2>1, <2>2, KeptKeeps DEF PlotInv
<1>7. ASSUME NEW i \in DOMAIN kept, Restore(kept[i]) PROVE PlotInv'
  <2>1. /\ past' = kept[i].past /\ now' = kept[i].now /\ plots' = kept[i].plots
        /\ told' = <<>> /\ UNCHANGED kept
    BY <1>7 DEF Restore
  <2>2. i \in 1..Len(kept)
    BY <1>0 DEF PlotInv
  <2>3. QED
    BY <1>0, <2>1, <2>2 DEF PlotInv
<1>8. CASE NewRuntime
  <2>1. /\ past' = <<>> /\ now' = <<>> /\ told' = <<>> /\ plots' = <<>>
        /\ kept' = kept
    BY <1>8 DEF NewRuntime
  <2>2. QED
    BY <1>0, <2>1, NothingTold DEF PlotInv
<1>9. QED
  BY <1>1, <1>2, <1>3, <1>4, <1>5, <1>6, <1>7, <1>8
  DEF Next, New, Set, Delete, scriptVars, recorders

\* plot.py:81-125: records in order give the plots their reader sees.
LEMMA PlotsRead == PlotInv => PlotsFollowBars
<1> SUFFICES ASSUME PlotInv, script = "drawings"
             PROVE  /\ \A i \in 1..Len(past) : i \in DOMAIN DataByTime
                                              /\ DataByTime[i] = past[i].src
                    /\ DOMAIN DataByTime \subseteq 1..Len(Shown)
  BY DEF PlotsFollowBars
<1>1. RecordsOK(past, now, plots)
  BY DEF PlotInv
<1>2. DOMAIN plots = 1..Len(plots) /\ Len(plots) \in Nat /\ Len(past) \in Nat
  BY <1>1 DEF RecordsOK
<1>3. DOMAIN DataByTime = {plots[i].time : i \in DOMAIN plots}
  BY DEF DataByTime
<1>4. ASSUME NEW t \in 1..Len(past)
      PROVE  t \in DOMAIN DataByTime /\ DataByTime[t] = past[t].src
  <2>1. PICK k \in 1..Len(plots) : LastOf(plots, t, past[t].src, k)
    BY <1>1 DEF RecordsOK, Tells
  <2>2. t \in DOMAIN DataByTime
    BY <1>2, <1>3, <2>1 DEF LastOf
  <2> DEFINE Latest(i) == /\ plots[i].time = t
                          /\ \A j \in DOMAIN plots : plots[j].time = t => j <= i
             chosen == CHOOSE i \in DOMAIN plots : Latest(i)
  <2>3. k \in DOMAIN plots /\ Latest(k)
    BY <1>2, <2>1 DEF LastOf
  <2>4. chosen \in DOMAIN plots /\ Latest(chosen)
    BY <2>3
  <2>5. chosen = k
    BY <1>2, <2>3, <2>4
  <2>6. DataByTime[t] = plots[chosen].value
    BY <1>3, <2>2 DEF DataByTime
  <2>7. QED
    BY <2>1, <2>2, <2>5, <2>6 DEF LastOf
<1>5. DOMAIN DataByTime \subseteq 1..Len(Shown)
  <2>1. Len(Shown) = Len(past) + (IF now = <<>> THEN 0 ELSE 1)
    <3>1. CASE now = <<>>
      <4>1. now \in Seq(Rows) /\ Len(now) = 0 /\ past \in Seq(Rows)
        BY <1>1, <3>1 DEF RecordsOK
      <4>2. QED
        BY <3>1, <4>1 DEF Shown
    <3>2. CASE now # <<>>
      <4>1. PICK row \in Rows : now = <<row>>
        BY <1>1, <3>2 DEF RecordsOK
      <4>2. now \in Seq(Rows) /\ Len(now) = 1 /\ past \in Seq(Rows)
        BY <1>1, <4>1 DEF RecordsOK
      <4>3. Len(past \o now) = Len(past) + 1
        <5>1. \A p \in Seq(Rows), q \in Seq(Rows) : Len(p \o q) = Len(p) + Len(q)
          OBVIOUS
        <5>2. QED
          BY <4>2, <5>1
      <4>4. QED
        BY <3>2, <4>3 DEF Shown
    <3>3. QED
      BY <3>1, <3>2
  <2>2. QED
    BY <1>1, <1>2, <1>3, <2>1 DEF RecordsOK
<1>6. QED
  BY <1>4, <1>5

\* plot.py:81-125 and core/runtime.py: through ticks, rollbacks and
\* resumes into other runs, the plot of an ended bar is the value it ended with.
THEOREM PlotsCorrect == Spec => []PlotsFollowBars
<1>1. Init => PlotInv
  <2>1. Init => /\ past = <<>> /\ now = <<>> /\ told = <<>> /\ plots = <<>>
                /\ kept = <<>> /\ Len(kept) = 0 /\ kept \in Seq({})
    BY DEF Init
  <2>2. QED
    BY <2>1, NothingTold DEF PlotInv
<1>2. QED
  BY <1>1, PlotsKept, PlotsRead, PTL DEF Spec

-----------------------------------------------------------------------------
(* Object ids *)

\* An event is appended, of an id the recorder has or of the next one.
LEMMA EventAppended ==
  ASSUME NEW old, IdsOK(old), NEW new, NEW e,
         DOMAIN new = {"next", "objects", "events"},
         new.events = Append(old.events, e), new.next \in Nat, old.next <= new.next,
         e.id \in Int, e.id < new.next, e.action = "new" => e.id = old.next,
         \A id \in DOMAIN new.objects : id \in DOMAIN old.objects \cup {e.id}
  PROVE  IdsOK(new)
<1>1. PICK S : old.events \in Seq(S)
  BY DEF IdsOK
<1>2. old.events \in Seq(S \cup {e}) /\ e \in S \cup {e}
  BY <1>1
<1>3. /\ new.events \in Seq(S \cup {e})
      /\ Len(new.events) = Len(old.events) + 1 /\ Len(old.events) \in Nat
      /\ new.events[Len(old.events) + 1] = e
      /\ \A i \in 1..Len(old.events) : new.events[i] = old.events[i]
  BY <1>2
<1>4. \A i \in 1..Len(new.events) : i \in 1..Len(old.events) \/ i = Len(old.events) + 1
  BY <1>3
<1>5. \A i \in 1..Len(new.events) :
        new.events[i].id \in Int /\ new.events[i].id < new.next
  BY <1>3, <1>4 DEF IdsOK
<1>6. \A id \in DOMAIN new.objects : id \in Int /\ id < new.next
  BY DEF IdsOK
<1>7. ASSUME NEW i \in 1..Len(new.events), NEW j \in 1..Len(new.events),
             new.events[i].action = "new", new.events[j].action = "new",
             new.events[i].id = new.events[j].id
      PROVE  i = j
  <2>1. ASSUME NEW k \in 1..Len(old.events), e.action = "new"
        PROVE  new.events[k].id # e.id
    <3>1. old.events[k].id \in Int /\ old.events[k].id < old.next
      BY DEF IdsOK
    <3>2. new.events[k].id = old.events[k].id /\ e.id = old.next /\ old.next \in Nat
      BY <1>3, <2>1 DEF IdsOK
    <3>3. QED
      BY <3>1, <3>2
  <2>2. CASE i \in 1..Len(old.events) /\ j \in 1..Len(old.events)
    BY <1>3, <1>7, <2>2 DEF IdsOK
  <2>3. CASE i = Len(old.events) + 1 /\ j \in 1..Len(old.events)
    BY <1>3, <1>7, <2>1, <2>3
  <2>4. CASE j = Len(old.events) + 1 /\ i \in 1..Len(old.events)
    BY <1>3, <1>7, <2>1, <2>4
  <2>5. QED
    BY <1>4, <2>2, <2>3, <2>4
<1>8. QED
  BY <1>3, <1>5, <1>6, <1>7 DEF IdsOK

\* A new recorder has made none.
LEMMA NewIds == IdsOK(NewVisual)
<1>1. /\ DOMAIN NewVisual = {"next", "objects", "events"}
      /\ NewVisual.next = 1 /\ NewVisual.events = <<>>
      /\ NewVisual.events \in Seq({}) /\ Len(NewVisual.events) = 0
      /\ DOMAIN NewVisual.objects = {}
  BY DEF NewVisual
<1>2. QED
  BY <1>1 DEF IdsOK

\* Making, changing and deleting an object keep the ids of the recorder.
LEMMA DrawingKeepsIds ==
  ASSUME IdsOK(visual),
         NEW attr, NEW id,
         New(attr) \/ (id \in DOMAIN visual.objects /\ (Set(id, attr) \/ Delete(id)))
  PROVE  IdsOK(visual')
<1>0. /\ DOMAIN visual = {"next", "objects", "events"}
      /\ visual.next \in Nat
      /\ \A i \in DOMAIN visual.objects : i \in Int /\ i < visual.next
  BY DEF IdsOK
<1>1. CASE New(attr)
  <2> DEFINE e == [action |-> "new", id |-> visual.next, attr |-> attr]
  <2>1. /\ DOMAIN visual' = {"next", "objects", "events"}
        /\ visual'.next = visual.next + 1 /\ visual'.events = Append(visual.events, e)
        /\ DOMAIN visual'.objects = DOMAIN visual.objects \cup {e.id}
    BY <1>0, <1>1 DEF New
  <2>2. e.id = visual.next /\ e.action = "new"
    OBVIOUS
  <2> HIDE DEF e
  <2>3. QED
    BY <1>0, <2>1, <2>2, EventAppended
<1>2. CASE id \in DOMAIN visual.objects /\ Set(id, attr)
  <2> DEFINE e == [action |-> "set", id |-> id, attr |-> attr]
  <2>1. /\ DOMAIN visual' = {"next", "objects", "events"}
        /\ visual'.next = visual.next /\ visual'.events = Append(visual.events, e)
        /\ DOMAIN visual'.objects = DOMAIN visual.objects
    BY <1>0, <1>2 DEF Set
  <2>2. e.id = id /\ e.action = "set"
    OBVIOUS
  <2> HIDE DEF e
  <2>3. QED
    BY <1>0, <1>2, <2>1, <2>2, EventAppended
<1>3. CASE id \in DOMAIN visual.objects /\ Delete(id)
  <2> DEFINE e == [action |-> "delete", id |-> id]
  <2>1. /\ DOMAIN visual' = {"next", "objects", "events"}
        /\ visual'.next = visual.next /\ visual'.events = Append(visual.events, e)
        /\ DOMAIN visual'.objects = DOMAIN visual.objects \ {id}
    BY <1>0, <1>3 DEF Delete
  <2>2. e.id = id /\ e.action = "delete"
    OBVIOUS
  <2> HIDE DEF e
  <2>3. QED
    BY <1>0, <1>3, <2>1, <2>2, EventAppended
<1>4. QED
  BY <1>1, <1>2, <1>3

-----------------------------------------------------------------------------
(* The replay of the event log *)

F == INSTANCE FoldLemmas WITH Op <- Applied

NoObjects == [i \in {} |-> 0]

Replay(events) == FoldLeft(Applied, NoObjects, events)

\* The objects of a visual recorder are what its events replay to.
ReplayOK(recorder) == IdsOK(recorder) /\ Replay(recorder.events) = recorder.objects

ReplayInv ==
  /\ ReplayOK(visual)
  /\ \E S : kept \in Seq(S)
  /\ \A i \in 1..Len(kept) : ReplayOK(kept[i].visual)

\* The replay of no event, and of one event more.
LEMMA ReplayStep ==
  /\ Replay(<<>>) = NoObjects
  /\ \A S : \A s \in Seq(S) : \A e : Replay(Append(s, e)) = Applied(Replay(s), e)
<1>1. \A s : F!Fold(NoObjects, s) = Replay(s)
  BY DEF Replay, F!Fold, F!MapThenFoldSet, FoldLeft, MapThenFoldSet, F!Max, Max
<1>2. F!Fold(NoObjects, <<>>) = NoObjects
  BY F!FoldEmpty
<1>3. ASSUME NEW S, NEW s \in Seq(S), NEW e
      PROVE  Replay(Append(s, e)) = Applied(Replay(s), e)
  <2>1. F!Fold(NoObjects, Append(s, e)) = Applied(F!Fold(NoObjects, s), e)
    BY F!FoldAppend
  <2>2. QED
    BY <1>1, <2>1
<1>4. QED
  BY <1>1, <1>2, <1>3

\* An event that has done to the objects what the replay makes of it.
LEMMA EventReplays ==
  ASSUME NEW old, ReplayOK(old), NEW new, IdsOK(new), NEW e,
         new.events = Append(old.events, e), new.objects = Applied(old.objects, e)
  PROVE  ReplayOK(new)
<1>1. PICK S : old.events \in Seq(S)
  BY DEF ReplayOK, IdsOK
<1>2. Replay(new.events) = Applied(Replay(old.events), e)
  BY <1>1, ReplayStep
<1>3. QED
  BY <1>2 DEF ReplayOK

\* Making, changing and deleting an object do what their event says.
LEMMA DrawingReplays ==
  ASSUME ReplayOK(visual), NEW attr, NEW id,
         New(attr) \/ (id \in DOMAIN visual.objects /\ (Set(id, attr) \/ Delete(id)))
  PROVE  ReplayOK(visual')
<1>0. DOMAIN visual = {"next", "objects", "events"} /\ IdsOK(visual')
  BY DrawingKeepsIds DEF ReplayOK, IdsOK
<1>1. CASE New(attr)
  <2>1. PICK e : e = [action |-> "new", id |-> visual.next, attr |-> attr]
    OBVIOUS
  <2>2. /\ visual'.events = Append(visual.events, e)
        /\ visual'.objects = [i \in DOMAIN visual.objects \cup {visual.next} |->
                                IF i = visual.next THEN attr ELSE visual.objects[i]]
    BY <1>1, <2>1 DEF New
  <2>3. visual'.objects = Applied(visual.objects, e)
    BY <2>1, <2>2 DEF Applied
  <2>4. QED
    BY <1>0, <2>2, <2>3, EventReplays
<1>2. CASE id \in DOMAIN visual.objects /\ Set(id, attr)
  <2>1. PICK e : e = [action |-> "set", id |-> id, attr |-> attr]
    OBVIOUS
  <2>2. /\ visual'.events = Append(visual.events, e)
        /\ visual'.objects = [visual.objects EXCEPT ![id] = attr]
    BY <1>0, <1>2, <2>1 DEF Set
  <2>3. DOMAIN visual.objects \cup {id} = DOMAIN visual.objects
    BY <1>2
  <2>4. visual'.objects = [i \in DOMAIN visual.objects |->
                             IF i = id THEN attr ELSE visual.objects[i]]
    BY <2>2
  <2>5. Applied(visual.objects, e) = [i \in DOMAIN visual.objects \cup {id} |->
                             IF i = id THEN attr ELSE visual.objects[i]]
    BY <2>1 DEF Applied
  <2>6. visual'.objects = Applied(visual.objects, e)
    BY <2>3, <2>4, <2>5
  <2>7. QED
    BY <1>0, <2>2, <2>6, EventReplays
<1>3. CASE id \in DOMAIN visual.objects /\ Delete(id)
  <2>1. PICK e : e = [action |-> "delete", id |-> id]
    OBVIOUS
  <2>2. /\ visual'.events = Append(visual.events, e)
        /\ visual'.objects = [i \in DOMAIN visual.objects \ {id} |-> visual.objects[i]]
    BY <1>0, <1>3, <2>1 DEF Delete
  <2>3. visual'.objects = Applied(visual.objects, e)
    BY <2>1, <2>2 DEF Applied
  <2>4. QED
    BY <1>0, <2>2, <2>3, EventReplays
<1>4. QED
  BY <1>1, <1>2, <1>3

\* A new recorder has nothing to replay.
LEMMA NewReplays == ReplayOK(NewVisual)
<1>1. NewVisual.events = <<>> /\ NewVisual.objects = NoObjects
  BY DEF NewVisual, NoObjects
<1>2. QED
  BY <1>1, ReplayStep, NewIds DEF ReplayOK

\* Every step keeps the replay, of the live recorder and of the kept ones.
LEMMA ReplayKept == ReplayInv /\ [Next]_scriptVars => ReplayInv'
<1> SUFFICES ASSUME ReplayInv, [Next]_scriptVars PROVE ReplayInv'
  OBVIOUS
<1>1. ASSUME UNCHANGED <<visual, kept>> PROVE ReplayInv'
  BY <1>1 DEF ReplayInv
<1>2. ASSUME NEW attr, NEW id,
             New(attr) \/ (id \in DOMAIN visual.objects /\ (Set(id, attr) \/ Delete(id)))
      PROVE  ReplayInv'
  <2>1. ReplayOK(visual')
    BY <1>2, DrawingReplays DEF ReplayInv
  <2>2. UNCHANGED kept
    BY <1>2 DEF New, Set, Delete
  <2>3. QED
    BY <2>1, <2>2 DEF ReplayInv
<1>3. CASE Export
  <2>1. kept' = Append(kept, Snapshot) /\ UNCHANGED visual /\ Snapshot.visual = visual
    BY <1>3 DEF Export, recorders, Snapshot
  <2>2. PICK S : kept \in Seq(S)
    BY DEF ReplayInv
  <2>3. kept \in Seq(S \cup {Snapshot}) /\ Snapshot \in S \cup {Snapshot}
    BY <2>2
  <2>4. /\ kept' \in Seq(S \cup {Snapshot})
        /\ Len(kept') = Len(kept) + 1 /\ Len(kept) \in Nat
        /\ kept'[Len(kept) + 1] = Snapshot
        /\ \A i \in 1..Len(kept) : kept'[i] = kept[i]
    BY <2>1, <2>3
  <2>5. \A i \in 1..Len(kept') : i \in 1..Len(kept) \/ i = Len(kept) + 1
    BY <2>4
  <2>6. ASSUME NEW i \in 1..Len(kept') PROVE ReplayOK(kept'[i].visual)
    BY <2>1, <2>4, <2>5 DEF ReplayInv
  <2>7. ReplayOK(visual')
    BY <2>1 DEF ReplayInv
  <2>8. QED
    BY <2>4, <2>6, <2>7 DEF ReplayInv
<1>4. ASSUME NEW i \in DOMAIN kept, Restore(kept[i]) PROVE ReplayInv'
  <2>1. i \in 1..Len(kept)
    BY DEF ReplayInv
  <2>2. visual' = kept[i].visual /\ UNCHANGED kept
    BY <1>4 DEF Restore, RestoredVisual
  <2>3. QED
    BY <2>1, <2>2 DEF ReplayInv
<1>5. CASE NewRuntime
  <2>1. visual' = NewVisual /\ kept' = kept
    BY <1>5 DEF NewRuntime
  <2>2. QED
    BY <2>1, NewReplays DEF ReplayInv
<1>6. QED
  BY <1>1, <1>2, <1>3, <1>4, <1>5
  DEF Next, Begin, Tick, Ask, RecordPlot, End, scriptVars, recorders

\* visual.py:53-72: whatever a script draws and however often a host rolls it back,
\* the table of objects is what the event log replays to, and no id names two objects.
THEOREM DrawingsCorrect == Spec => []DrawingsReplay
<1>1. Init => ReplayInv
  <2>1. Init => visual = NewVisual /\ kept = <<>> /\ Len(kept) = 0 /\ kept \in Seq({})
    BY DEF Init
  <2>2. QED
    BY <2>1, NewReplays DEF ReplayInv
<1>2. ReplayInv => DrawingsReplay
  <2> SUFFICES ASSUME ReplayInv PROVE DrawingsReplay
    OBVIOUS
  <2>1. IdsOK(visual) /\ Replayed = visual.objects
    BY DEF ReplayInv, ReplayOK, Replay, NoObjects, Replayed
  <2>2. DOMAIN visual.events = 1..Len(visual.events)
    BY <2>1 DEF IdsOK
  <2>3. QED
    BY <2>1, <2>2 DEF IdsOK, DrawingsReplay
<1>3. QED
  BY <1>1, <1>2, ReplayKept, PTL DEF Spec

-----------------------------------------------------------------------------
(***************************************************************************)
(* The window caches.  An entry of a cache that is not ahead of the run is *)
(* what the rows of the run say, up to the row it has processed: a host    *)
(* that restores only what this run committed shortens the history to a    *)
(* start of it, and the helpers are asked on every bar.                    *)
(***************************************************************************)

Prices == Int \cup {NA}

\* The deque has rows of the first m from place low on, in their order, none beaten by
\* a later one of the deque, and for each such row one as good and not earlier.
QueueHolds(queue, mode, rows, low, m) ==
  /\ queue \in Seq([at : Nat, value : Int])
  /\ \A k \in 1..Len(queue) :
       /\ queue[k].at \in 1..m /\ queue[k].at >= low
       /\ queue[k].value = rows[queue[k].at].src
  /\ \A k, l \in 1..Len(queue) : k < l =>
       queue[k].at < queue[l].at /\ ~Beats(mode, queue[l].value, queue[k].value)
  /\ \A i \in 1..m : i >= low /\ rows[i].src # NA =>
       \E k \in 1..Len(queue) : queue[k].at >= i /\ Beats(mode, queue[k].value, rows[i].src)

\* Numbers have a least one.
LEMMA LeastNumber ==
  ASSUME NEW S, S \subseteq Nat, S # {}
  PROVE  \E x \in S : \A y \in S : x <= y
<1> DEFINE Reached == {n \in Nat : (\E x \in S : x <= n) => \E x \in S : \A y \in S : x <= y}
<1>1. 0 \in Reached
  <2>1. \A x \in S : x <= 0 => \A y \in S : x <= y
    OBVIOUS
  <2>2. QED
    BY <2>1
<1>2. ASSUME NEW n \in Nat, n \in Reached PROVE n + 1 \in Reached
  <2>1. CASE \E x \in S : x <= n
    BY <1>2, <2>1
  <2>2. CASE ~ \E x \in S : x <= n
    <3>1. \A y \in S : n + 1 <= y
      BY <2>2
    <3>2. \A x \in S : x <= n + 1 => \A y \in S : x <= y
      BY <3>1
    <3>3. QED
      BY <3>2
  <2>3. QED
    BY <2>1, <2>2
<1>3. Nat \subseteq Reached
  <2> HIDE DEF Reached
  <2> QED
    BY <1>1, <1>2, F!SetInduction
<1>4. PICK n \in Nat : n \in S
  OBVIOUS
<1>5. n \in Reached /\ n <= n
  BY <1>3
<1>6. QED
  BY <1>4, <1>5

\* Where the popping stops.
LEMMA PopsTo ==
  ASSUME NEW queue, Len(queue) \in Nat, NEW mode, NEW v
  PROVE  /\ Unbeaten(queue, mode, v) \in 0..Len(queue)
         /\ Unbeaten(queue, mode, v) > 0 =>
              ~Beats(mode, v, queue[Unbeaten(queue, mode, v)].value)
         /\ \A j \in (Unbeaten(queue, mode, v) + 1)..Len(queue) : Beats(mode, v, queue[j].value)
<1>0. PICK L \in Nat : L = Len(queue)
  OBVIOUS
<1>1. PICK S : S = {k \in 0..L : \A j \in (k + 1)..L : Beats(mode, v, queue[j].value)}
  OBVIOUS
<1>2. L \in S /\ S \subseteq Nat
  BY <1>1
<1>3. PICK k \in S : \A y \in S : k <= y
  BY <1>2, LeastNumber
<1>4. k \in 0..L /\ \A j \in (k + 1)..L : Beats(mode, v, queue[j].value)
  BY <1>1, <1>3
<1>5. k > 0 => ~Beats(mode, v, queue[k].value)
  <2> SUFFICES ASSUME k > 0, Beats(mode, v, queue[k].value) PROVE FALSE
    OBVIOUS
  <2>1. k - 1 \in 0..L /\ k - 1 + 1 = k
    BY <1>4
  <2>2. \A j \in k..L : j = k \/ j \in (k + 1)..L
    BY <1>4
  <2>3. \A j \in k..L : Beats(mode, v, queue[j].value)
    BY <1>4, <2>2
  <2>4. k - 1 \in S
    BY <1>1, <2>1, <2>3
  <2>5. k \in Nat /\ k <= k - 1
    BY <1>3, <1>4, <2>4
  <2>6. QED
    BY <2>5
<1>6. QED
  BY <1>0, <1>4, <1>5 DEF Unbeaten

\* Where the window begins in the deque.
LEMMA ExpiresTo ==
  ASSUME NEW queue, Len(queue) \in Nat, NEW cutoff \in Int,
         \A j \in 1..Len(queue) : queue[j].at \in Int
  PROVE  /\ Expired(queue, cutoff) \in 0..Len(queue)
         /\ \A j \in 1..Expired(queue, cutoff) : queue[j].at < cutoff
         /\ Expired(queue, cutoff) < Len(queue) => queue[Expired(queue, cutoff) + 1].at >= cutoff
<1>0. PICK L \in Nat : L = Len(queue)
  OBVIOUS
<1>1. PICK S : S = {k \in 0..L : k < L => queue[k + 1].at >= cutoff}
  OBVIOUS
<1>2. L \in S /\ S \subseteq Nat
  BY <1>1
<1>3. PICK k \in S : \A y \in S : k <= y
  BY <1>2, LeastNumber
<1>4. k \in 0..L /\ (k < L => queue[k + 1].at >= cutoff)
  BY <1>1, <1>3
<1>5. ASSUME NEW j \in 1..k PROVE queue[j].at < cutoff
  <2>1. j - 1 \in 0..L /\ j - 1 < L /\ j - 1 + 1 = j /\ j \in 1..L /\ ~(k <= j - 1)
    BY <1>4
  <2>2. j - 1 \notin S
    BY <1>3, <2>1
  <2>3. ~(queue[j].at >= cutoff)
    BY <1>1, <2>1, <2>2
  <2>4. queue[j].at \in Int
    BY <1>0, <2>1
  <2>5. QED
    BY <2>3, <2>4
<1>6. QED
  BY <1>0, <1>4, <1>5 DEF Expired

\* To beat is an order.
LEMMA BeatsOrder ==
  ASSUME NEW mode
  PROVE  /\ \A x, y \in Int : Beats(mode, x, y) \/ Beats(mode, y, x)
         /\ \A x \in Int : Beats(mode, x, x)
         /\ \A x, y, z \in Int : Beats(mode, x, y) /\ Beats(mode, y, z) => Beats(mode, x, z)
         /\ \A x, y, z \in Int : ~Beats(mode, x, y) /\ ~Beats(mode, y, z) => ~Beats(mode, x, z)
         /\ \A x, y \in Int : Beats(mode, x, y) /\ Beats(mode, y, x) => x = y
<1>1. CASE mode = "high"
  BY <1>1 DEF Beats
<1>2. CASE mode # "high"
  BY <1>2 DEF Beats
<1>3. QED
  BY <1>1, <1>2

\* A row that shows na leaves the deque what it is.
LEMMA BlankHolds ==
  ASSUME NEW queue, NEW mode, NEW rows, NEW low \in Int, NEW m \in Nat,
         QueueHolds(queue, mode, rows, low, m), rows[m + 1].src = NA
  PROVE  QueueHolds(queue, mode, rows, low, m + 1)
<1>1. \A i \in 1..m : i \in 1..(m + 1)
  OBVIOUS
<1>2. \A i \in 1..(m + 1) : i \in 1..m \/ i = m + 1
  OBVIOUS
<1>3. QED
  BY <1>1, <1>2 DEF QueueHolds

\* The elements of a sequence.
LEMMA ElementsOf ==
  ASSUME NEW U, NEW s \in Seq(U)
  PROVE  Len(s) \in Nat /\ \A j \in 1..Len(s) : s[j] \in U
OBVIOUS

\* A sequence cut to its first elements, with one more.
PushedTo(next, queue, k, entry, U) ==
  /\ next \in Seq(U)
  /\ Len(next) = k + 1 /\ next[k + 1] = entry
  /\ \A j \in 1..k : next[j] = queue[j]

\* Append to a beginning is that.
LEMMA PushedIs ==
  ASSUME NEW U, NEW queue \in Seq(U), NEW k \in 0..Len(queue), NEW entry \in U
  PROVE  PushedTo(Append(SubSeq(queue, 1, k), entry), queue, k, entry, U)
<1>1. PICK s : s = SubSeq(queue, 1, k)
  OBVIOUS
<1>2. s \in Seq(U) /\ Len(s) = k /\ \A j \in 1..k : s[j] = queue[j]
  BY <1>1
<1>3. PICK next : next = Append(s, entry)
  OBVIOUS
<1>4. /\ next \in Seq(U) /\ Len(next) = k + 1 /\ next[k + 1] = entry
      /\ \A j \in 1..k : next[j] = s[j]
  BY <1>2, <1>3
<1>5. PushedTo(next, queue, k, entry, U)
  BY <1>2, <1>4 DEF PushedTo
<1>6. QED
  BY <1>1, <1>3, <1>5

\* A value pops what it beats and covers what those covered.
LEMMA ValueHolds ==
  ASSUME NEW queue, NEW mode, NEW rows, NEW low \in Int, NEW m \in Nat,
         QueueHolds(queue, mode, rows, low, m), low <= m + 1,
         \A i \in 1..m : rows[i].src \in Prices,
         NEW v \in Int, rows[m + 1].src = v, NA \notin Int
  PROVE  QueueHolds(Append(SubSeq(queue, 1, Unbeaten(queue, mode, v)),
                           [at |-> m + 1, value |-> v]), mode, rows, low, m + 1)
<1>1. PICK L \in Nat : L = Len(queue) /\ queue \in Seq([at : Nat, value : Int])
  BY DEF QueueHolds
<1>2. PICK k \in 0..L : /\ k = Unbeaten(queue, mode, v)
                        /\ k > 0 => ~Beats(mode, v, queue[k].value)
                        /\ \A j \in (k + 1)..L : Beats(mode, v, queue[j].value)
  BY <1>1, PopsTo
<1>3. PICK entry : entry = [at |-> m + 1, value |-> v]
  OBVIOUS
<1>4. entry \in [at : Nat, value : Int] /\ entry.at = m + 1 /\ entry.value = v
  BY <1>3
<1>5. PICK next : next = Append(SubSeq(queue, 1, k), entry) /\ PushedTo(next, queue, k, entry, [at : Nat, value : Int])
  BY <1>1, <1>4, PushedIs
<1>6. /\ next \in Seq([at : Nat, value : Int])
      /\ Len(next) = k + 1 /\ next[k + 1] = entry
      /\ \A j \in 1..k : next[j] = queue[j]
  BY <1>5 DEF PushedTo
<1>7. /\ \A j \in 1..L : /\ queue[j].at \in 1..m /\ queue[j].at >= low
                         /\ queue[j].value = rows[queue[j].at].src /\ queue[j].value \in Int
      /\ \A j, l \in 1..L : j < l =>
           queue[j].at < queue[l].at /\ ~Beats(mode, queue[l].value, queue[j].value)
      /\ \A i \in 1..m : i >= low /\ rows[i].src # NA =>
           \E j \in 1..L : queue[j].at >= i /\ Beats(mode, queue[j].value, rows[i].src)
  <2>1. \A j \in 1..L : queue[j] \in [at : Nat, value : Int]
    BY <1>1, ElementsOf
  <2>2. QED
    BY <1>1, <2>1 DEF QueueHolds
<1>8. \A j \in 1..(k + 1) : (j \in 1..k /\ j \in 1..L) \/ j = k + 1
  BY <1>2
<1>9. ASSUME NEW j \in 1..Len(next)
      PROVE  next[j].at \in 1..(m + 1) /\ next[j].at >= low /\ next[j].value = rows[next[j].at].src
  <2>1. CASE j \in 1..k /\ j \in 1..L
    <3>1. next[j] = queue[j] /\ queue[j].at \in 1..m /\ queue[j].at >= low
      BY <1>6, <1>7, <2>1
    <3>2. queue[j].at \in 1..(m + 1)
      BY <3>1
    <3>3. QED
      BY <1>7, <2>1, <3>1, <3>2
  <2>2. CASE j = k + 1
    BY <1>4, <1>6, <2>2
  <2>3. QED
    BY <1>6, <1>8, <2>1, <2>2
<1>10. \A j \in 1..k : ~Beats(mode, v, queue[j].value)
  <2> SUFFICES ASSUME NEW j \in 1..k PROVE ~Beats(mode, v, queue[j].value)
    OBVIOUS
  <2>1. k \in 1..L /\ j \in 1..L /\ k > 0 /\ (j = k \/ j < k)
    BY <1>2
  <2>2. queue[j].value \in Int /\ queue[k].value \in Int
    BY <1>7, <2>1
  <2>3. ~Beats(mode, v, queue[k].value)
    BY <1>2, <2>1
  <2>4. j < k => ~Beats(mode, queue[k].value, queue[j].value)
    BY <1>7, <2>1
  <2>5. QED
    BY <2>1, <2>2, <2>3, <2>4, BeatsOrder
<1>11. ASSUME NEW j \in 1..Len(next), NEW l \in 1..Len(next), j < l
       PROVE  next[j].at < next[l].at /\ ~Beats(mode, next[l].value, next[j].value)
  <2>0. j \in 1..k /\ j \in 1..L
    <3>1. j # k + 1
      BY <1>2, <1>6, <1>11
    <3>2. QED
      BY <1>6, <1>8, <3>1
  <2>1. j \in 1..k /\ j \in 1..L /\ next[j] = queue[j]
    BY <1>6, <2>0
  <2>2. CASE l \in 1..k /\ l \in 1..L
    BY <1>6, <1>7, <1>11, <2>1, <2>2
  <2>3. CASE l = k + 1
    <3>1. queue[j].at \in 1..m
      BY <1>7, <2>1
    <3>2. queue[j].at < m + 1
      BY <3>1
    <3>3. QED
      BY <1>4, <1>6, <1>10, <2>1, <2>3, <3>2
  <2>4. QED
    BY <1>6, <1>8, <2>2, <2>3
<1>12. ASSUME NEW i \in 1..(m + 1), i >= low, rows[i].src # NA
       PROVE  \E j \in 1..Len(next) : next[j].at >= i /\ Beats(mode, next[j].value, rows[i].src)
  <2>1. k + 1 \in 1..Len(next)
    BY <1>6
  <2>2. CASE i = m + 1
    <3>1. Beats(mode, v, v)
      BY BeatsOrder
    <3>2. m + 1 >= m + 1
      OBVIOUS
    <3>3. QED
      BY <1>4, <1>6, <2>1, <2>2, <3>1, <3>2
  <2>3. CASE i \in 1..m
    <3>1. PICK j \in 1..L : queue[j].at >= i /\ Beats(mode, queue[j].value, rows[i].src)
      BY <1>7, <1>12, <2>3
    <3>2. CASE j \in 1..k
      <4>1. j \in 1..Len(next) /\ next[j] = queue[j]
        BY <1>6, <3>2
      <4>2. QED
        BY <3>1, <4>1
    <3>3. CASE j \in (k + 1)..L
      <4>1. Beats(mode, v, queue[j].value)
        BY <1>2, <3>3
      <4>2. rows[i].src \in Int /\ queue[j].value \in Int
        BY <1>7, <1>12, <2>3 DEF Prices
      <4>3. Beats(mode, v, rows[i].src)
        BY <3>1, <4>1, <4>2, BeatsOrder
      <4>4. m + 1 >= i
        OBVIOUS
      <4>5. QED
        BY <1>4, <1>6, <2>1, <4>3, <4>4
    <3>4. QED
      BY <3>2, <3>3
  <2>4. i \in 1..m \/ i = m + 1
    OBVIOUS
  <2>5. QED
    BY <2>2, <2>3, <2>4
<1>13. QueueHolds(next, mode, rows, low, m + 1)
  BY <1>6, <1>9, <1>11, <1>12 DEF QueueHolds
<1>14. QED
  BY <1>2, <1>3, <1>5, <1>13

\* One bar more.
LEMMA PushHolds ==
  ASSUME NEW queue, NEW mode, NEW rows, NEW low \in Int, NEW m \in Nat,
         QueueHolds(queue, mode, rows, low, m), low <= m + 1,
         \A i \in 1..(m + 1) : rows[i].src \in Prices, NA \notin Int,
         NEW bar, bar.mode = mode, bar.at = m + 1, bar.value = rows[m + 1].src
  PROVE  QueueHolds(Pushed(queue, bar), mode, rows, low, m + 1)
<1>1. \A i \in 1..m : rows[i].src \in Prices
  OBVIOUS
<1>2. CASE bar.value = NA
  BY <1>2, BlankHolds DEF Pushed
<1>3. CASE bar.value # NA
  <2>1. m + 1 \in 1..(m + 1)
    OBVIOUS
  <2>2. bar.value \in Int
    BY <1>3, <2>1 DEF Prices
  <2>3. QED
    BY <1>1, <1>3, <2>2, ValueHolds DEF Pushed
<1>4. QED
  BY <1>2, <1>3

\* The rows after the first p, as they are pushed.
Items(rows, mode, p, m) ==
  [k \in 1..m |-> [mode |-> mode, at |-> p + k, value |-> rows[p + k].src]]

Q == INSTANCE FoldLemmas WITH Op <- Pushed

PushAll(queue, items) == FoldLeft(Pushed, queue, items)

\* The fold of the library is the one of the lemmas.
LEMMA PushFolds ==
  ASSUME NEW queue, NEW s
  PROVE  Q!Fold(queue, s) = PushAll(queue, s)
BY DEF PushAll, Q!Fold, Q!MapThenFoldSet, FoldLeft, MapThenFoldSet, Q!Max, Max

\* The fold over no item ...
LEMMA PushNone ==
  ASSUME NEW queue
  PROVE  PushAll(queue, <<>>) = queue
BY PushFolds, Q!FoldEmpty

\* ... and over one item more.
LEMMA PushOne ==
  ASSUME NEW queue, NEW T, NEW s \in Seq(T), NEW e
  PROVE  PushAll(queue, Append(s, e)) = Pushed(PushAll(queue, s), e)
<1>1. Q!Fold(queue, Append(s, e)) = Pushed(Q!Fold(queue, s), e)
  BY Q!FoldAppend
<1>2. QED
  BY <1>1, PushFolds

\* One item more.
LEMMA ItemsStep ==
  ASSUME NEW rows, NEW mode, NEW p, NEW m \in Nat
  PROVE  /\ Items(rows, mode, p, 0) = <<>>
         /\ \E T : Items(rows, mode, p, m) \in Seq(T)
         /\ Items(rows, mode, p, m + 1) =
              Append(Items(rows, mode, p, m),
                     [mode |-> mode, at |-> p + (m + 1), value |-> rows[p + (m + 1)].src])
<1>1. PICK item : item = [k \in 1..(m + 1) |->
                            [mode |-> mode, at |-> p + k, value |-> rows[p + k].src]]
  OBVIOUS
<1>2. PICK T : T = {item[k] : k \in 1..(m + 1)}
  OBVIOUS
<1>3. PICK s : s = [k \in 1..m |-> item[k]]
  OBVIOUS
<1>4. s = Items(rows, mode, p, m)
  BY <1>1, <1>3 DEF Items
<1>5. s \in Seq(T) /\ Len(s) = m
  BY <1>2, <1>3
<1>6. item = Append(s, item[m + 1])
  <2>1. PICK t : t = Append(s, item[m + 1])
    OBVIOUS
  <2>2. item[m + 1] \in T
    BY <1>2
  <2>3. t \in Seq(T) /\ Len(t) = m + 1 /\ t[m + 1] = item[m + 1] /\ \A k \in 1..m : t[k] = s[k]
    BY <1>5, <2>1, <2>2
  <2>4. t = [k \in 1..(m + 1) |-> t[k]]
    BY <2>3
  <2>5. \A k \in 1..(m + 1) : t[k] = item[k]
    <3>1. \A k \in 1..(m + 1) : k \in 1..m \/ k = m + 1
      OBVIOUS
    <3>2. QED
      BY <1>3, <2>3, <3>1
  <2>6. item = [k \in 1..(m + 1) |-> item[k]]
    BY <1>1
  <2>7. t = item
    BY <2>4, <2>5, <2>6
  <2>8. QED
    BY <2>1, <2>7
<1>7. item[m + 1] = [mode |-> mode, at |-> p + (m + 1), value |-> rows[p + (m + 1)].src]
  BY <1>1
<1>8. Items(rows, mode, p, m + 1) = item
  BY <1>1 DEF Items
<1>9. Items(rows, mode, p, 0) = <<>>
  BY DEF Items
<1>10. QED
  BY <1>4, <1>5, <1>6, <1>7, <1>8, <1>9

\* Catching up with the rows committed since.
LEMMA PushedAll ==
  ASSUME NEW queue, NEW mode, NEW rows, NEW low \in Int, NEW p \in Nat, NEW n \in Nat, p <= n,
         low <= p + 1, QueueHolds(queue, mode, rows, low, p), NA \notin Int,
         \A i \in 1..n : rows[i].src \in Prices
  PROVE  QueueHolds(PushAll(queue, Items(rows, mode, p, n - p)), mode, rows, low, n)
<1> DEFINE Q2(m) == PushAll(queue, Items(rows, mode, p, m))
           S == {m \in Nat : p + m <= n => QueueHolds(Q2(m), mode, rows, low, p + m)}
<1>1. 0 \in S
  <2>1. Q2(0) = queue
    BY PushNone, ItemsStep
  <2>2. p + 0 = p
    OBVIOUS
  <2>3. QED
    BY <2>1, <2>2
<1>2. ASSUME NEW m \in Nat, m \in S PROVE m + 1 \in S
  <2> SUFFICES ASSUME p + (m + 1) <= n
               PROVE  QueueHolds(Q2(m + 1), mode, rows, low, p + (m + 1))
    OBVIOUS
  <2>1. PICK old : old = Q2(m)
    OBVIOUS
  <2>2. QueueHolds(old, mode, rows, low, p + m)
    BY <1>2, <2>1
  <2>3. PICK bar : bar = [mode |-> mode, at |-> p + (m + 1), value |-> rows[p + (m + 1)].src]
    OBVIOUS
  <2>4. Q2(m + 1) = Pushed(old, bar)
    <3>1. PICK items : items = Items(rows, mode, p, m)
      OBVIOUS
    <3>2. PICK T : items \in Seq(T)
      BY <3>1, ItemsStep
    <3>3. Items(rows, mode, p, m + 1) = Append(items, bar)
      BY <2>3, <3>1, ItemsStep
    <3>4. PushAll(queue, Append(items, bar)) = Pushed(PushAll(queue, items), bar)
      BY <3>2, PushOne
    <3>5. QED
      BY <2>1, <3>1, <3>3, <3>4
  <2>5. PICK k \in Nat : k = p + m /\ k + 1 = p + (m + 1) /\ low <= k + 1
    OBVIOUS
  <2>6. \A i \in 1..(k + 1) : rows[i].src \in Prices
    BY <2>5
  <2>7. bar.mode = mode /\ bar.at = k + 1 /\ bar.value = rows[k + 1].src
    BY <2>3, <2>5
  <2>8. QueueHolds(Pushed(old, bar), mode, rows, low, k + 1)
    BY <2>2, <2>5, <2>6, <2>7, PushHolds
  <2>9. QED
    BY <2>4, <2>5, <2>8
<1>3. Nat \subseteq S
  <2> HIDE DEF S
  <2> QED
    BY <1>1, <1>2, F!SetInduction
<1>4. n - p \in Nat /\ p + (n - p) = n /\ n <= n
  OBVIOUS
<1>5. QED
  BY <1>3, <1>4

\* The end of a sequence.
LEMMA SuffixIs ==
  ASSUME NEW U, NEW s \in Seq(U), NEW k \in 0..Len(s)
  PROVE  /\ SubSeq(s, k + 1, Len(s)) \in Seq(U)
         /\ Len(SubSeq(s, k + 1, Len(s))) = Len(s) - k
         /\ \A j \in 1..(Len(s) - k) : SubSeq(s, k + 1, Len(s))[j] = s[k + j]
OBVIOUS

\* Dropping what left the window.
LEMMA DroppedHolds ==
  ASSUME NEW queue, NEW mode, NEW rows, NEW low \in Int, NEW n \in Nat, NEW cutoff \in Int,
         QueueHolds(queue, mode, rows, low, n), low <= cutoff
  PROVE  QueueHolds(SubSeq(queue, Expired(queue, cutoff) + 1, Len(queue)), mode, rows, cutoff, n)
<1>1. PICK L \in Nat : L = Len(queue) /\ queue \in Seq([at : Nat, value : Int])
  BY DEF QueueHolds
<1>2. /\ \A j \in 1..L : queue[j].at \in 1..n /\ queue[j].value = rows[queue[j].at].src
      /\ \A j, l \in 1..L : j < l =>
           queue[j].at < queue[l].at /\ ~Beats(mode, queue[l].value, queue[j].value)
      /\ \A i \in 1..n : i >= low /\ rows[i].src # NA =>
           \E j \in 1..L : queue[j].at >= i /\ Beats(mode, queue[j].value, rows[i].src)
  BY <1>1 DEF QueueHolds
<1>3. \A j \in 1..L : queue[j].at \in Int
  BY <1>2
<1>4. PICK k \in 0..L : /\ k = Expired(queue, cutoff)
                        /\ \A j \in 1..k : queue[j].at < cutoff
                        /\ k < L => queue[k + 1].at >= cutoff
  BY <1>1, <1>3, ExpiresTo
<1>5. PICK next : next = SubSeq(queue, k + 1, L)
  OBVIOUS
<1>6. /\ next \in Seq([at : Nat, value : Int]) /\ Len(next) = L - k
      /\ \A j \in 1..(L - k) : next[j] = queue[k + j]
  BY <1>1, <1>5, SuffixIs
<1>7. \A j \in 1..(L - k) : k + j \in 1..L /\ (k + j = k + 1 \/ k + 1 < k + j) /\ k + 1 \in 1..L
  OBVIOUS
<1>8. ASSUME NEW j \in 1..(L - k)
      PROVE  /\ next[j].at \in 1..n /\ next[j].at >= cutoff
             /\ next[j].value = rows[next[j].at].src
  <2>1. next[j] = queue[k + j] /\ k + j \in 1..L /\ k + 1 \in 1..L
    BY <1>6, <1>7
  <2>2. queue[k + 1].at >= cutoff /\ queue[k + 1].at \in Int /\ queue[k + j].at \in Int
    BY <1>3, <1>4, <2>1
  <2>3. k + j = k + 1 \/ queue[k + 1].at < queue[k + j].at
    BY <1>2, <1>7, <2>1
  <2>4. queue[k + j].at >= cutoff
    BY <2>2, <2>3
  <2>5. QED
    BY <1>2, <2>1, <2>4
<1>9. ASSUME NEW j \in 1..(L - k), NEW l \in 1..(L - k), j < l
      PROVE  next[j].at < next[l].at /\ ~Beats(mode, next[l].value, next[j].value)
  <2>1. k + j < k + l /\ k + j \in 1..L /\ k + l \in 1..L
    BY <1>7, <1>9
  <2>2. QED
    BY <1>2, <1>6, <2>1
<1>10. ASSUME NEW i \in 1..n, i >= cutoff, rows[i].src # NA
       PROVE  \E j \in 1..(L - k) : next[j].at >= i /\ Beats(mode, next[j].value, rows[i].src)
  <2>1. i >= low
    BY <1>10
  <2>2. PICK l \in 1..L : queue[l].at >= i /\ Beats(mode, queue[l].value, rows[i].src)
    BY <1>2, <1>10, <2>1
  <2>3. queue[l].at >= cutoff /\ queue[l].at \in Int
    BY <1>3, <1>10, <2>2
  <2>4. l \notin 1..k
    BY <1>4, <2>3
  <2>5. PICK j \in 1..(L - k) : k + j = l
    <3>1. l - k \in 1..(L - k) /\ k + (l - k) = l
      BY <2>4
    <3>2. QED
      BY <3>1
  <2>6. QED
    BY <1>6, <2>2, <2>5
<1>11. QueueHolds(next, mode, rows, cutoff, n)
  BY <1>6, <1>8, <1>9, <1>10 DEF QueueHolds
<1>12. QED
  BY <1>1, <1>4, <1>5, <1>11

-----------------------------------------------------------------------------
(* What the extremes are *)

\* The first rows, and a value after them.
Price(rows, n, v, i) == IF i = n + 1 THEN v ELSE rows[i].src

InWindow(rows, n, v) ==
  {i \in 1..(n + 1) : i > n + 1 - Length /\ Price(rows, n, v, i) # NA}

\* Place i has the best price in the window, and the last such.
BestAt(rows, n, v, mode, i) ==
  /\ i \in InWindow(rows, n, v)
  /\ \A j \in InWindow(rows, n, v) :
       /\ Beats(mode, Price(rows, n, v, i), Price(rows, n, v, j))
       /\ Price(rows, n, v, j) = Price(rows, n, v, i) => j <= i

IsBest(rows, n, v, mode, best) ==
  \/ InWindow(rows, n, v) = {} /\ best = [value |-> NA, bars |-> NA]
  \/ \E i \in 1..(n + 1) :
       /\ BestAt(rows, n, v, mode, i)
       /\ best = [value |-> Price(rows, n, v, i), bars |-> i - (n + 1)]

\* What is read from the first entry of the deque and the current value, as in Best.
ReadBest(queue, v, n, mode) ==
  CASE v # NA /\ (queue = <<>> \/ Beats(mode, v, queue[1].value)) -> [value |-> v, bars |-> 0]
    [] queue # <<>> /\ (v = NA \/ ~Beats(mode, v, queue[1].value)) ->
         [value |-> queue[1].value, bars |-> queue[1].at - (n + 1)]
    [] queue = <<>> /\ v = NA -> [value |-> NA, bars |-> NA]

\* The first entry of the deque is not worse than any row of the window, nor earlier than
\* one as good.
LEMMA FirstIsBest ==
  ASSUME NEW queue, NEW mode, NEW rows, NEW low \in Int, NEW n \in Nat,
         QueueHolds(queue, mode, rows, low, n), NA \notin Int,
         \A i \in 1..n : rows[i].src \in Prices,
         NEW i \in 1..n, i >= low, rows[i].src # NA
  PROVE  /\ queue # <<>> /\ Len(queue) >= 1 /\ queue[1].value \in Int
         /\ Beats(mode, queue[1].value, rows[i].src)
         /\ rows[i].src = queue[1].value => i <= queue[1].at
<1>1. PICK L \in Nat : L = Len(queue) /\ queue \in Seq([at : Nat, value : Int])
  BY DEF QueueHolds
<1>2. PICK k \in 1..L : queue[k].at >= i /\ Beats(mode, queue[k].value, rows[i].src)
  BY <1>1 DEF QueueHolds
<1>3. 1 \in 1..L /\ (k = 1 \/ 1 < k) /\ queue # <<>>
  BY <1>1
<1>4. \A j \in 1..L : queue[j] \in [at : Nat, value : Int]
  BY <1>1, ElementsOf
<1>5. queue[1].value \in Int /\ queue[k].value \in Int /\ rows[i].src \in Int
  BY <1>3, <1>4 DEF Prices
<1>6. 1 < k => ~Beats(mode, queue[k].value, queue[1].value)
  BY <1>1, <1>3 DEF QueueHolds
<1>7. Beats(mode, queue[1].value, queue[k].value)
  BY <1>3, <1>5, <1>6, BeatsOrder
<1>8. Beats(mode, queue[1].value, rows[i].src)
  BY <1>2, <1>5, <1>7, BeatsOrder
<1>9. ASSUME rows[i].src = queue[1].value PROVE i <= queue[1].at
  <2>1. k = 1
    BY <1>2, <1>3, <1>6, <1>9
  <2>2. queue[1].at \in Nat
    BY <1>3, <1>4
  <2>3. QED
    BY <1>2, <2>1, <2>2
<1>10. QED
  BY <1>1, <1>3, <1>5, <1>8, <1>9

\* The first entry is a row of the window.
LEMMA FirstInside ==
  ASSUME NEW queue, NEW mode, NEW rows, NEW low \in Int, NEW n \in Nat,
         QueueHolds(queue, mode, rows, low, n), queue # <<>>
  PROVE  /\ queue[1].at \in 1..n /\ queue[1].at >= low
         /\ queue[1].value = rows[queue[1].at].src /\ queue[1].value \in Int
<1>1. queue \in Seq([at : Nat, value : Int])
  BY DEF QueueHolds
<1>2. Len(queue) \in Nat /\ 1 \in 1..Len(queue)
  BY <1>1
<1>3. queue[1] \in [at : Nat, value : Int]
  BY <1>1, <1>2, ElementsOf
<1>4. QED
  BY <1>2, <1>3 DEF QueueHolds

\* What is read is the best of the window.
LEMMA ReadIsBest ==
  ASSUME NEW queue, NEW mode, NEW rows, NEW n \in Nat, NEW v \in Prices,
         Length \in Nat \ {0}, NA \notin Int,
         QueueHolds(queue, mode, rows, n + 2 - Length, n),
         \A i \in 1..n : rows[i].src \in Prices
  PROVE  IsBest(rows, n, v, mode, ReadBest(queue, v, n, mode))
<1>1. PICK low \in Int : low = n + 2 - Length
  OBVIOUS
<1>2. \A i \in 1..(n + 1) : i \in InWindow(rows, n, v) <=> i >= low /\ Price(rows, n, v, i) # NA
  BY <1>1 DEF InWindow
<1>3. \A i \in InWindow(rows, n, v) : i \in 1..(n + 1)
  BY DEF InWindow
<1>4. /\ \A i \in 1..n : Price(rows, n, v, i) = rows[i].src
      /\ Price(rows, n, v, n + 1) = v
  BY DEF Price
<1>5. \A i \in 1..(n + 1) : i \in 1..n \/ i = n + 1
  OBVIOUS
<1>6. ASSUME NEW i \in 1..n, i \in InWindow(rows, n, v)
      PROVE  /\ queue # <<>> /\ queue[1].value \in Int
             /\ Beats(mode, queue[1].value, rows[i].src)
             /\ rows[i].src = queue[1].value => i <= queue[1].at
             /\ rows[i].src \in Int
  <2>1. i >= low /\ rows[i].src # NA
    BY <1>2, <1>4, <1>5, <1>6
  <2>2. QueueHolds(queue, mode, rows, low, n)
    BY <1>1
  <2>3. rows[i].src \in Int
    BY <2>1 DEF Prices
  <2>4. QED
    BY <2>1, <2>2, <2>3, FirstIsBest
<1>7. queue # <<>> =>
        /\ queue[1].at \in 1..n /\ queue[1].at >= low
        /\ queue[1].value = rows[queue[1].at].src /\ queue[1].value \in Int
  BY <1>1, FirstInside
<1>8. low <= n + 1 /\ n + 1 \in 1..(n + 1)
  BY <1>1
<1>9. CASE v # NA /\ (queue = <<>> \/ Beats(mode, v, queue[1].value))
  <2>1. v \in Int
    BY <1>9 DEF Prices
  <2>2. n + 1 \in InWindow(rows, n, v)
    BY <1>2, <1>4, <1>8, <1>9
  <2>3. ASSUME NEW j \in InWindow(rows, n, v)
        PROVE  Beats(mode, v, Price(rows, n, v, j)) /\ j <= n + 1
    <3>1. CASE j = n + 1
      BY <1>4, <2>1, <3>1, BeatsOrder
    <3>2. CASE j \in 1..n
      <4>1. /\ queue[1].value \in Int /\ rows[j].src \in Int
            /\ Beats(mode, queue[1].value, rows[j].src) /\ Beats(mode, v, queue[1].value)
        BY <1>6, <1>9, <2>3, <3>2
      <4>2. Beats(mode, v, rows[j].src)
        BY <2>1, <4>1, BeatsOrder
      <4>3. QED
        BY <1>4, <3>2, <4>2
    <3>3. QED
      BY <1>3, <1>5, <2>3, <3>1, <3>2
  <2>4. BestAt(rows, n, v, mode, n + 1)
    BY <1>4, <2>2, <2>3 DEF BestAt
  <2>5. ReadBest(queue, v, n, mode) = [value |-> v, bars |-> 0]
    BY <1>9 DEF ReadBest
  <2>6. n + 1 - (n + 1) = 0
    OBVIOUS
  <2>7. QED
    BY <1>4, <1>8, <2>4, <2>5, <2>6 DEF IsBest
<1>10. CASE queue # <<>> /\ (v = NA \/ ~Beats(mode, v, queue[1].value))
  <2>1. PICK b \in 1..n : b = queue[1].at
    BY <1>7, <1>10
  <2>2. b \in 1..(n + 1) /\ Price(rows, n, v, b) = queue[1].value /\ queue[1].value \in Int
    BY <1>4, <1>7, <1>10, <2>1
  <2>3. b \in InWindow(rows, n, v)
    BY <1>2, <1>7, <1>10, <2>1, <2>2
  <2>4. ASSUME NEW j \in InWindow(rows, n, v)
        PROVE  /\ Beats(mode, queue[1].value, Price(rows, n, v, j))
               /\ Price(rows, n, v, j) = queue[1].value => j <= b
    <3>1. CASE j = n + 1
      <4>1. v \in Int
        BY <1>2, <1>3, <1>4, <2>4, <3>1 DEF Prices
      <4>2. ~Beats(mode, v, queue[1].value)
        BY <1>10, <4>1
      <4>3. Beats(mode, queue[1].value, v) /\ v # queue[1].value
        BY <2>2, <4>1, <4>2, BeatsOrder
      <4>4. QED
        BY <1>4, <3>1, <4>3
    <3>2. CASE j \in 1..n
      BY <1>4, <1>6, <2>1, <2>4, <3>2
    <3>3. QED
      BY <1>3, <1>5, <2>4, <3>1, <3>2
  <2>5. BestAt(rows, n, v, mode, b)
    BY <2>2, <2>3, <2>4 DEF BestAt
  <2>6. ReadBest(queue, v, n, mode) = [value |-> queue[1].value, bars |-> b - (n + 1)]
    BY <1>10, <2>1 DEF ReadBest
  <2>7. QED
    BY <2>2, <2>5, <2>6 DEF IsBest
<1>11. CASE queue = <<>> /\ v = NA
  <2>1. ASSUME NEW j \in InWindow(rows, n, v) PROVE FALSE
    BY <1>2, <1>3, <1>4, <1>5, <1>6, <1>11, <2>1
  <2>2. ReadBest(queue, v, n, mode) = [value |-> NA, bars |-> NA]
    BY <1>11 DEF ReadBest
  <2>3. QED
    BY <2>1, <2>2 DEF IsBest
<1>12. QED
  BY <1>9, <1>10, <1>11

\* A caught up entry, of rows that are the history.
LEMMA CaughtHolds ==
  ASSUME past \in Seq(Rows), ScriptAssumption, NEW mode, NEW entry,
         entry.processed \in Nat,
         entry.processed <= Len(past) =>
           QueueHolds(entry.queue, mode, past, entry.processed + 2 - Length, entry.processed)
  PROVE  /\ Caught(entry, mode).processed = Len(past)
         /\ QueueHolds(Caught(entry, mode).queue, mode, past, Len(past) + 2 - Length, Len(past))
<1>1. PICK n \in Nat : n = Len(past) /\ \A i \in 1..n : past[i] \in Rows
  BY ElementsOf
<1>2. Length \in Nat \ {0} /\ NA \notin Int /\ \A row \in Rows : row.src \in Prices
  BY DEF ScriptAssumption, Prices
<1>3. \A i \in 1..n : past[i].src \in Prices
  BY <1>1, <1>2
<1>4. PICK from : from = Rewound(entry, n)
  OBVIOUS
<1>5. /\ from.processed \in Nat /\ from.processed <= n
      /\ QueueHolds(from.queue, mode, past, from.processed + 2 - Length, from.processed)
  <2>1. CASE entry.processed > n
    <3>1. from.processed = 0 /\ from.queue = <<>>
      BY <1>4, <2>1 DEF Rewound
    <3>2. QueueHolds(<<>>, mode, past, 0 + 2 - Length, 0)
      BY DEF QueueHolds
    <3>3. QED
      BY <1>1, <3>1, <3>2
  <2>2. CASE ~(entry.processed > n)
    <3>1. from = entry /\ entry.processed <= n
      BY <1>1, <1>4, <2>2 DEF Rewound
    <3>2. QED
      BY <1>1, <3>1
  <2>3. QED
    BY <2>1, <2>2
<1>0. PICK p \in Nat : p = from.processed
  BY <1>5
<1>6. PICK low \in Int : p = from.processed /\ low = p + 2 - Length
  BY <1>0, <1>2
<1>7. low <= p + 1 /\ p <= n /\ low <= n + 2 - Length /\ n + 2 - Length \in Int
  BY <1>2, <1>5, <1>6
<1>8. PICK queue : queue = PushAll(from.queue, Items(past, mode, p, n - p))
  OBVIOUS
<1>9. QueueHolds(queue, mode, past, low, n)
  BY <1>2, <1>3, <1>5, <1>6, <1>7, <1>8, PushedAll
<1>10. PICK cutoff \in Int : cutoff = n + 2 - Length
  BY <1>7
<1>11. QueueHolds(SubSeq(queue, Expired(queue, cutoff) + 1, Len(queue)), mode, past, cutoff, n)
  BY <1>7, <1>9, <1>10, DroppedHolds
<1>12. Caught(entry, mode) =
         [processed |-> n, queue |-> SubSeq(queue, Expired(queue, cutoff) + 1, Len(queue))]
  BY <1>1, <1>4, <1>6, <1>8, <1>10 DEF Caught, PushAll, Items
<1>13. QED
  BY <1>1, <1>10, <1>11, <1>12

\* A history that starts with the same rows.
LEMMA SameStart ==
  ASSUME NEW rows, NEW other, NEW n \in Nat, \A i \in 1..n : rows[i] = other[i]
  PROVE  /\ \A queue, mode, low :
              QueueHolds(queue, mode, rows, low, n) => QueueHolds(queue, mode, other, low, n)
         /\ \A v, mode, best : IsBest(rows, n, v, mode, best) => IsBest(other, n, v, mode, best)
<1>1. ASSUME NEW queue, NEW mode, NEW low, QueueHolds(queue, mode, rows, low, n)
      PROVE  QueueHolds(queue, mode, other, low, n)
  BY <1>1 DEF QueueHolds
<1>2. ASSUME NEW v, NEW mode, NEW best, IsBest(rows, n, v, mode, best)
      PROVE  IsBest(other, n, v, mode, best)
  <2>1. \A i \in 1..(n + 1) : Price(rows, n, v, i) = Price(other, n, v, i)
    <3>1. \A i \in 1..(n + 1) : i \in 1..n \/ i = n + 1
      OBVIOUS
    <3>2. QED
      BY <3>1 DEF Price
  <2>2. InWindow(rows, n, v) = InWindow(other, n, v)
    BY <2>1 DEF InWindow
  <2>3. \A i \in 1..(n + 1) : BestAt(rows, n, v, mode, i) => BestAt(other, n, v, mode, i)
    <3>1. \A j \in InWindow(rows, n, v) : j \in 1..(n + 1)
      BY DEF InWindow
    <3>2. QED
      BY <2>1, <2>2, <3>1 DEF BestAt
  <2>4. QED
    BY <1>2, <2>1, <2>2, <2>3 DEF IsBest
<1>3. QED
  BY <1>1, <1>2

-----------------------------------------------------------------------------
(* The occasions *)

\* How many of the rows after place i, up to n, are occasions.
After(rows, i, n) == Cardinality({j \in (i + 1)..n : True(rows[j].cond)})

\* The hits are the prices of the occasions among the first n rows, newest first.
HitsHold(hits, rows, n) ==
  /\ hits \in Seq(Prices)
  /\ \A i \in 1..n : True(rows[i].cond) =>
       After(rows, i, n) + 1 \in 1..Len(hits) /\ hits[After(rows, i, n) + 1] = rows[i].src
  /\ \A k \in 1..Len(hits) : \E i \in 1..n : True(rows[i].cond) /\ After(rows, i, n) + 1 = k

\* One row more.
LEMMA AfterStep ==
  ASSUME NEW rows, NEW n \in Nat
  PROVE  /\ \A i \in 1..n : After(rows, i, n) \in Nat
         /\ \A i \in 1..n : True(rows[n + 1].cond) => After(rows, i, n + 1) = After(rows, i, n) + 1
         /\ \A i \in 1..n : ~True(rows[n + 1].cond) => After(rows, i, n + 1) = After(rows, i, n)
         /\ After(rows, n + 1, n + 1) = 0
<1>1. ASSUME NEW i \in 1..n
      PROVE  /\ After(rows, i, n) \in Nat
             /\ True(rows[n + 1].cond) => After(rows, i, n + 1) = After(rows, i, n) + 1
             /\ ~True(rows[n + 1].cond) => After(rows, i, n + 1) = After(rows, i, n)
  <2>1. PICK S : S = {j \in (i + 1)..n : True(rows[j].cond)}
    OBVIOUS
  <2>2. PICK T : T = {j \in (i + 1)..(n + 1) : True(rows[j].cond)}
    OBVIOUS
  <2>3. IsFiniteSet(S) /\ Cardinality(S) \in Nat /\ n + 1 \notin S
    <3>1. IsFiniteSet((i + 1)..n)
      BY FS_Interval
    <3>2. S \subseteq (i + 1)..n /\ n + 1 \notin (i + 1)..n
      BY <2>1
    <3>3. QED
      BY <3>1, <3>2, FS_Subset, FS_CardinalityType
  <2>4. (i + 1)..(n + 1) = ((i + 1)..n) \cup {n + 1}
    OBVIOUS
  <2>5. True(rows[n + 1].cond) => T = S \cup {n + 1}
    BY <2>1, <2>2, <2>4
  <2>6. ~True(rows[n + 1].cond) => T = S
    BY <2>1, <2>2, <2>4
  <2>7. True(rows[n + 1].cond) => Cardinality(T) = Cardinality(S) + 1
    BY <2>3, <2>5, FS_AddElement
  <2>8. QED
    BY <2>1, <2>2, <2>3, <2>6, <2>7 DEF After
<1>2. After(rows, n + 1, n + 1) = 0
  <2>1. {j \in (n + 1 + 1)..(n + 1) : True(rows[j].cond)} = {}
    OBVIOUS
  <2>2. QED
    BY <2>1, FS_EmptySet DEF After
<1>3. QED
  BY <1>1, <1>2

\* A sequence with one more in front.
LEMMA FrontIs ==
  ASSUME NEW U, NEW s \in Seq(U), NEW e \in U
  PROVE  /\ <<e>> \o s \in Seq(U) /\ Len(<<e>> \o s) = Len(s) + 1 /\ Len(s) \in Nat
         /\ (<<e>> \o s)[1] = e
         /\ \A k \in 1..Len(s) : (<<e>> \o s)[k + 1] = s[k]
OBVIOUS

\* One row more is a new hit or none.
LEMMA HitHolds ==
  ASSUME NEW hits, NEW rows, NEW n \in Nat, HitsHold(hits, rows, n),
         NEW row, row = rows[n + 1], row.src \in Prices
  PROVE  HitsHold(Hit(hits, row), rows, n + 1)
<1>1. \A i \in 1..(n + 1) : i \in 1..n \/ i = n + 1
  OBVIOUS
<1>2. \A i \in 1..n : i \in 1..(n + 1)
  OBVIOUS
<1>3. CASE True(row.cond)
  <2>1. PICK e \in Prices : e = row.src
    OBVIOUS
  <2>2. PICK next : next = <<e>> \o hits
    OBVIOUS
  <2>3. /\ next \in Seq(Prices) /\ Len(next) = Len(hits) + 1 /\ Len(hits) \in Nat
        /\ next[1] = e /\ \A k \in 1..Len(hits) : next[k + 1] = hits[k]
    BY <2>2, FrontIs DEF HitsHold
  <2>4. ASSUME NEW i \in 1..(n + 1), True(rows[i].cond)
        PROVE  After(rows, i, n + 1) + 1 \in 1..Len(next)
               /\ next[After(rows, i, n + 1) + 1] = rows[i].src
    <3>1. CASE i \in 1..n
      <4>1. PICK k \in 1..Len(hits) : k = After(rows, i, n) + 1 /\ hits[k] = rows[i].src
        BY <2>4, <3>1 DEF HitsHold
      <4>2. After(rows, i, n + 1) = After(rows, i, n) + 1
        BY <1>3, <3>1, AfterStep
      <4>3. After(rows, i, n + 1) + 1 = k + 1
        BY <4>1, <4>2
      <4>4. k + 1 \in 1..Len(next) /\ next[k + 1] = hits[k]
        BY <2>3
      <4>5. QED
        BY <4>1, <4>3, <4>4
    <3>2. CASE i = n + 1
      <4>1. After(rows, i, n + 1) = 0
        BY <3>2, AfterStep
      <4>2. 0 + 1 \in 1..Len(next) /\ next[0 + 1] = e
        BY <2>3
      <4>3. QED
        BY <2>1, <3>2, <4>1, <4>2
    <3>3. QED
      BY <1>1, <3>1, <3>2
  <2>5. ASSUME NEW k \in 1..Len(next)
        PROVE  \E i \in 1..(n + 1) : True(rows[i].cond) /\ After(rows, i, n + 1) + 1 = k
    <3>1. CASE k = 1
      <4>1. After(rows, n + 1, n + 1) = 0 /\ n + 1 \in 1..(n + 1)
        BY AfterStep
      <4>2. QED
        BY <1>3, <3>1, <4>1
    <3>2. CASE k # 1
      <4>1. k - 1 \in 1..Len(hits)
        BY <2>3, <3>2
      <4>2. PICK i \in 1..n : True(rows[i].cond) /\ After(rows, i, n) + 1 = k - 1
        BY <4>1 DEF HitsHold
      <4>3. After(rows, i, n + 1) = After(rows, i, n) + 1 /\ After(rows, i, n) \in Nat
        BY <1>3, AfterStep
      <4>4. After(rows, i, n + 1) + 1 = k
        BY <2>3, <4>2, <4>3
      <4>5. QED
        BY <1>2, <4>2, <4>4
    <3>3. QED
      BY <3>1, <3>2
  <2>6. HitsHold(next, rows, n + 1)
    BY <2>3, <2>4, <2>5 DEF HitsHold
  <2>7. QED
    BY <1>3, <2>1, <2>2, <2>6 DEF Hit
<1>4. CASE ~True(row.cond)
  <2>1. \A i \in 1..n : After(rows, i, n + 1) = After(rows, i, n)
    BY <1>4, AfterStep
  <2>2. HitsHold(hits, rows, n + 1)
    BY <1>1, <1>2, <1>4, <2>1 DEF HitsHold
  <2>3. QED
    BY <1>4, <2>2 DEF Hit
<1>5. QED
  BY <1>3, <1>4

H == INSTANCE FoldLemmas WITH Op <- Hit

HitAll(hits, rows) == FoldLeft(Hit, hits, rows)

\* The fold of the library is the one of the lemmas.
LEMMA HitFolds ==
  ASSUME NEW hits, NEW rows
  PROVE  H!Fold(hits, rows) = HitAll(hits, rows)
BY DEF HitAll, H!Fold, H!MapThenFoldSet, FoldLeft, MapThenFoldSet, H!Max, Max

\* The fold over no row ...
LEMMA HitNone ==
  ASSUME NEW hits
  PROVE  HitAll(hits, <<>>) = hits
BY HitFolds, H!FoldEmpty

\* ... and over one row more.
LEMMA HitOne ==
  ASSUME NEW hits, NEW T, NEW rows \in Seq(T), NEW row
  PROVE  HitAll(hits, Append(rows, row)) = Hit(HitAll(hits, rows), row)
<1>1. H!Fold(hits, Append(rows, row)) = Hit(H!Fold(hits, rows), row)
  BY H!FoldAppend
<1>2. QED
  BY <1>1, HitFolds

\* A slice, and one row more.
LEMMA SliceStep ==
  ASSUME NEW U, NEW s \in Seq(U), NEW p \in Nat, NEW m \in Nat, p + (m + 1) <= Len(s)
  PROVE  /\ SubSeq(s, p + 1, p + m) \in Seq(U)
         /\ SubSeq(s, p + 1, p + (m + 1)) = Append(SubSeq(s, p + 1, p + m), s[p + (m + 1)])
<1>1. PICK a : a = SubSeq(s, p + 1, p + m)
  OBVIOUS
<1>2. PICK b : b = SubSeq(s, p + 1, p + (m + 1))
  OBVIOUS
<1>3. PICK e \in U : e = s[p + (m + 1)]
  <2>1. Len(s) \in Nat /\ p + (m + 1) \in 1..Len(s)
    BY ElementsOf
  <2>2. QED
    BY <2>1, ElementsOf
<1>4. a \in Seq(U) /\ Len(a) = m /\ \A k \in 1..m : a[k] = s[p + k]
  BY <1>1
<1>5. b \in Seq(U) /\ Len(b) = m + 1 /\ \A k \in 1..(m + 1) : b[k] = s[p + k]
  BY <1>2
<1>6. PICK c : c = Append(a, e)
  OBVIOUS
<1>7. c \in Seq(U) /\ Len(c) = m + 1 /\ c[m + 1] = e /\ \A k \in 1..m : c[k] = a[k]
  BY <1>3, <1>4, <1>6
<1>8. \A k \in 1..(m + 1) : c[k] = b[k]
  <2>1. \A k \in 1..(m + 1) : k \in 1..m \/ k = m + 1
    OBVIOUS
  <2>2. m + 1 \in 1..(m + 1)
    OBVIOUS
  <2>3. QED
    BY <1>3, <1>4, <1>5, <1>7, <2>1, <2>2
<1>9. c = b
  BY <1>5, <1>7, <1>8
<1>10. QED
  BY <1>1, <1>2, <1>3, <1>4, <1>6, <1>9

\* Catching up with the rows committed since.
LEMMA HitsCaught ==
  ASSUME NEW rows \in Seq(Rows), NEW hits, NEW p \in Nat, p <= Len(rows), HitsHold(hits, rows, p),
         \A row \in Rows : row.src \in Prices
  PROVE  HitsHold(HitAll(hits, SubSeq(rows, p + 1, Len(rows))), rows, Len(rows))
<1> DEFINE Q2(m) == HitAll(hits, SubSeq(rows, p + 1, p + m))
           S == {m \in Nat : p + m <= Len(rows) => HitsHold(Q2(m), rows, p + m)}
<1>0. Len(rows) \in Nat
  BY ElementsOf
<1>1. 0 \in S
  <2>1. SubSeq(rows, p + 1, p + 0) = <<>>
    OBVIOUS
  <2>2. HitAll(hits, <<>>) = hits /\ p + 0 = p
    BY HitNone
  <2>3. QED
    BY <2>1, <2>2
<1>2. ASSUME NEW m \in Nat, m \in S PROVE m + 1 \in S
  <2> SUFFICES ASSUME p + (m + 1) <= Len(rows)
               PROVE  HitsHold(Q2(m + 1), rows, p + (m + 1))
    OBVIOUS
  <2>1. PICK old, slice : old = Q2(m) /\ slice = SubSeq(rows, p + 1, p + m)
    OBVIOUS
  <2>2. HitsHold(old, rows, p + m)
    BY <1>0, <1>2, <2>1
  <2>3. PICK k \in Nat : k = p + m /\ k + 1 = p + (m + 1) /\ k + 1 \in 1..Len(rows)
    BY <1>0
  <2>4. PICK row \in Rows : row = rows[k + 1]
    BY <2>3, ElementsOf
  <2>5. slice \in Seq(Rows) /\ SubSeq(rows, p + 1, p + (m + 1)) = Append(slice, row)
    BY <2>1, <2>3, <2>4, SliceStep
  <2>6. HitAll(hits, Append(slice, row)) = Hit(HitAll(hits, slice), row)
    BY <2>5, HitOne
  <2>7. Q2(m + 1) = Hit(old, row)
    BY <2>1, <2>5, <2>6
  <2>8. HitsHold(Hit(old, row), rows, k + 1)
    BY <2>2, <2>3, <2>4, HitHolds
  <2>9. QED
    BY <2>3, <2>7, <2>8
<1>3. Nat \subseteq S
  <2> HIDE DEF S
  <2> QED
    BY <1>1, <1>2, F!SetInduction
<1>4. PICK m \in Nat : p + m = Len(rows)
  <2>1. Len(rows) - p \in Nat /\ p + (Len(rows) - p) = Len(rows)
    BY <1>0
  <2>2. QED
    BY <2>1
<1>5. m \in S
  BY <1>3
<1>6. HitsHold(Q2(m), rows, Len(rows))
  BY <1>0, <1>4, <1>5
<1>7. QED
  BY <1>4, <1>6

\* Hits of a history that starts with the same rows.
LEMMA SameHits ==
  ASSUME NEW rows, NEW other, NEW n \in Nat, \A i \in 1..n : rows[i] = other[i],
         NEW hits, HitsHold(hits, rows, n)
  PROVE  HitsHold(hits, other, n)
<1>1. \A i \in 1..n : After(rows, i, n) = After(other, i, n)
  <2> SUFFICES ASSUME NEW i \in 1..n PROVE After(rows, i, n) = After(other, i, n)
    OBVIOUS
  <2>1. \A j \in (i + 1)..n : rows[j] = other[j]
    OBVIOUS
  <2>2. {j \in (i + 1)..n : True(rows[j].cond)} = {j \in (i + 1)..n : True(other[j].cond)}
    BY <2>1
  <2>3. QED
    BY <2>2 DEF After
<1>2. QED
  BY <1>1 DEF HitsHold

-----------------------------------------------------------------------------
(* What the helpers tell *)

\* The bars up to the current one.
ShownIs(row) ==
  /\ Shown \in Seq(Rows) /\ Len(Shown) = Len(past) + 1 /\ Shown[Len(past) + 1] = row
  /\ \A i \in 1..Len(past) : Shown[i] = past[i]

\* They are the committed rows and the open one.
LEMMA ShownRows ==
  ASSUME past \in Seq(Rows), NEW row \in Rows, now = <<row>>
  PROVE  ShownIs(row)
<1>1. PICK s : s = past \o <<row>>
  OBVIOUS
<1>2. /\ s \in Seq(Rows) /\ Len(s) = Len(past) + 1 /\ s[Len(past) + 1] = row
      /\ \A i \in 1..Len(past) : s[i] = past[i]
  BY <1>1
<1>3. Shown = s
  BY <1>1 DEF Shown
<1>4. QED
  BY <1>2, <1>3 DEF ShownIs

\* The best of the window is the extreme.
LEMMA BestIsExtreme ==
  ASSUME past \in Seq(Rows), NEW row \in Rows, now = <<row>>, NEW mode, NEW best,
         IsBest(past, Len(past), row.src, mode, best), ScriptAssumption
  PROVE  best = Extreme(mode)
<1>1. PICK n \in Nat : n = Len(past)
  BY ElementsOf
<1>2. /\ Shown \in Seq(Rows) /\ Len(Shown) = n + 1 /\ Shown[n + 1] = row
      /\ \A i \in 1..n : Shown[i] = past[i]
  BY <1>1, ShownRows DEF ShownIs
<1>3. \A i \in 1..(n + 1) : i \in 1..n \/ i = n + 1
  OBVIOUS
<1>4. \A i \in 1..(n + 1) : Price(past, n, row.src, i) = Shown[i].src
  BY <1>2, <1>3 DEF Price
<1>5. Window = InWindow(past, n, row.src)
  BY <1>2, <1>4 DEF Window, InWindow
<1>6. \A i \in Window : i \in 1..(n + 1) /\ Shown[i].src \in Int
  <2> SUFFICES ASSUME NEW i \in Window PROVE i \in 1..(n + 1) /\ Shown[i].src \in Int
    OBVIOUS
  <2>1. i \in 1..(n + 1) /\ Shown[i].src # NA
    BY <1>2 DEF Window
  <2>2. Shown[i] \in Rows
    BY <1>2, <2>1, ElementsOf
  <2>3. Shown[i].src \in Int \cup {NA}
    BY <2>2 DEF ScriptAssumption
  <2>4. QED
    BY <2>1, <2>3
<1>7. CASE Window = {}
  <2>1. ~ \E i \in 1..(n + 1) : BestAt(past, n, row.src, mode, i)
    BY <1>5, <1>7 DEF BestAt
  <2>2. QED
    BY <1>1, <1>7, <2>1 DEF IsBest, Extreme
<1>8. CASE Window # {}
  <2>1. PICK b \in 1..(n + 1) : /\ BestAt(past, n, row.src, mode, b)
                                /\ best = [value |-> Price(past, n, row.src, b), bars |-> b - (n + 1)]
    BY <1>1, <1>5, <1>8 DEF IsBest
  <2>2. /\ b \in Window
        /\ \A j \in Window : /\ Beats(mode, Shown[b].src, Shown[j].src)
                             /\ Shown[j].src = Shown[b].src => j <= b
    BY <1>4, <1>5, <1>6, <2>1 DEF BestAt
  <2>3. PICK last : last = CHOOSE i \in Window : \A j \in Window :
                      /\ Beats(mode, Shown[i].src, Shown[j].src)
                      /\ Shown[j].src = Shown[i].src => j <= i
    OBVIOUS
  <2>4. /\ last \in Window
        /\ \A j \in Window : /\ Beats(mode, Shown[last].src, Shown[j].src)
                             /\ Shown[j].src = Shown[last].src => j <= last
    BY <2>2, <2>3
  <2>5. Shown[b].src = Shown[last].src
    BY <1>6, <2>2, <2>4, BeatsOrder
  <2>6. b <= last /\ last <= b /\ b \in Int /\ last \in Int
    BY <1>6, <2>2, <2>4, <2>5
  <2>7. b = last
    BY <2>6
  <2>8. Extreme(mode) = [value |-> Shown[last].src, bars |-> last - Len(Shown)]
    BY <1>8, <2>3 DEF Extreme
  <2>9. QED
    BY <1>2, <1>4, <2>1, <2>7, <2>8
<1>9. QED
  BY <1>7, <1>8

\* A count of later occasions is a number.
LEMMA AfterNumber ==
  ASSUME NEW rows, NEW i \in Nat, NEW n \in Nat
  PROVE  After(rows, i, n) \in Nat
<1>1. IsFiniteSet((i + 1)..n)
  BY FS_Interval
<1>2. {j \in (i + 1)..n : True(rows[j].cond)} \subseteq (i + 1)..n
  OBVIOUS
<1>3. QED
  BY <1>1, <1>2, FS_Subset, FS_CardinalityType DEF After

\* The hits and the current bar give the occasion.
LEMMA HitIsOccasion ==
  ASSUME past \in Seq(Rows), NEW row \in Rows, now = <<row>>, NEW hits,
         HitsHold(hits, past, Len(past)), ScriptAssumption, NEW n \in Nat
  PROVE  ValueWhen(hits, n) = IF Occasion(n) = {} THEN NA
                              ELSE Shown[CHOOSE i \in Occasion(n) : TRUE].src
<1>1. PICK p \in Nat : p = Len(past)
  BY ElementsOf
<1>2. /\ Shown \in Seq(Rows) /\ Len(Shown) = p + 1 /\ Shown[p + 1] = row
      /\ \A i \in 1..p : Shown[i] = past[i]
  BY <1>1, ShownRows DEF ShownIs
<1>3. HitsHold(hits, Shown, p)
  BY <1>1, <1>2, SameHits
<1>4. row.src \in Prices
  BY DEF ScriptAssumption, Prices
<1>5. PICK found : found = Hit(hits, row)
  OBVIOUS
<1>6. HitsHold(found, Shown, p + 1)
  BY <1>2, <1>3, <1>4, <1>5, HitHolds
<1>7. (IF True(now[1].cond) THEN <<now[1].src>> ELSE <<>>) \o hits = found
  <2>1. <<>> \o hits = hits
    BY <1>3 DEF HitsHold
  <2>2. now[1] = row
    OBVIOUS
  <2>3. QED
    BY <1>5, <2>1, <2>2 DEF Hit
<1>8. ValueWhen(hits, n) = IF n < Len(found) THEN found[n + 1] ELSE NA
  BY <1>7 DEF ValueWhen
<1>9. \A i : i \in Occasion(n) <=>
               i \in 1..(p + 1) /\ True(Shown[i].cond) /\ After(Shown, i, p + 1) = n
  BY <1>2 DEF Occasion, After
<1>10. found \in Seq(Prices) /\ Len(found) \in Nat
  BY <1>6, ElementsOf DEF HitsHold
<1>11. ASSUME NEW i \in Occasion(n)
       PROVE  n < Len(found) /\ found[n + 1] = Shown[i].src
  <2>1. After(Shown, i, p + 1) + 1 \in 1..Len(found)
        /\ found[After(Shown, i, p + 1) + 1] = Shown[i].src
    BY <1>6, <1>9 DEF HitsHold
  <2>2. After(Shown, i, p + 1) = n
    BY <1>9
  <2>3. QED
    BY <1>10, <2>1, <2>2
<1>12. CASE Occasion(n) = {}
  <2>1. ASSUME n < Len(found) PROVE FALSE
    <3>1. n + 1 \in 1..Len(found)
      BY <1>10, <2>1
    <3>2. PICK i \in 1..(p + 1) : True(Shown[i].cond) /\ After(Shown, i, p + 1) + 1 = n + 1
      BY <1>6, <3>1 DEF HitsHold
    <3>3. After(Shown, i, p + 1) = n
      <4>1. After(Shown, i, p + 1) \in Nat
        BY AfterNumber
      <4>2. QED
        BY <3>2, <4>1
    <3>4. i \in Occasion(n)
      BY <1>9, <3>2, <3>3
    <3>5. QED
      BY <1>12, <3>4
  <2>2. QED
    BY <1>8, <1>12, <2>1
<1>13. CASE Occasion(n) # {}
  <2>1. PICK i : i = CHOOSE b \in Occasion(n) : TRUE
    OBVIOUS
  <2>2. i \in Occasion(n)
    BY <1>13, <2>1
  <2>3. ValueWhen(hits, n) = Shown[i].src
    BY <1>8, <1>11, <2>2
  <2>4. QED
    BY <1>13, <2>1, <2>3
<1>14. QED
  BY <1>12, <1>13

-----------------------------------------------------------------------------
(* The caches of a run *)

\* An entry knows the rows up to the one it has processed, if the run has come that far.
EntryTrue(entry, mode, rows) ==
  /\ entry.processed \in Nat
  /\ entry.processed <= Len(rows) =>
       QueueHolds(entry.queue, mode, rows, entry.processed + 2 - Length, entry.processed)

HitsTrue(entry, rows) ==
  /\ entry.processed \in Nat
  /\ entry.processed <= Len(rows) => HitsHold(entry.hits, rows, entry.processed)

\* The answer kept is the one for the history it was asked in.
AnswerTrue(entries, answer, rows) ==
  /\ answer.token[1] \in Nat
  /\ \A mode \in Modes : entries[mode].processed = answer.token[1]
  /\ answer.token[1] <= Len(rows) =>
       \A mode \in Modes : IsBest(rows, answer.token[1], answer.token[2], mode, answer.best[mode])

CachesTrue(rows) ==
  /\ \A mode \in Modes : EntryTrue(extremes[mode], mode, rows)
  /\ HitsTrue(occasions, rows)
  /\ answers # <<>> => AnswerTrue(extremes, answers[1], rows)

\* The rows of a run, and its open bar.
BarsOf(rows, bar) ==
  /\ rows \in Seq(Rows)
  /\ bar = <<>> \/ \E row \in Rows : bar = <<row>>

\* The entries have processed the rows the script has last seen.
Counted ==
  /\ seen.rows \in Seq(Rows)
  /\ \A mode \in Modes : extremes[mode].processed = Len(seen.rows)
  /\ occasions.processed = Len(seen.rows)
  /\ answers # <<>> => answers[1].token[1] = Len(seen.rows)
  /\ answers = <<>> => seen.rows = <<>>

\* The run starts with the rows last seen, unless a rollback has made it shorter.
Following(rows, other) == Len(rows) <= Len(other) => IsPrefix(rows, other)

CacheInv ==
  /\ BarsOf(past, now)
  /\ \E S : kept \in Seq(S)
  /\ \A i \in 1..Len(kept) : BarsOf(kept[i].past, kept[i].now)
  /\ Counted
  /\ seen.whole => CachesTrue(seen.rows)
  /\ script = "always" => seen.whole /\ Following(seen.rows, past)
  /\ script = "always" /\ told # <<>> => seen.rows = past
  /\ AnswersFromHistory

\* A history that goes on as the other, as far as an entry has processed it.
GoesOn(rows, other, n) == n <= Len(other) => n <= Len(rows) /\ \A i \in 1..n : rows[i] = other[i]

\* Caches that are true of a history are true of one that goes on as it.
LEMMA CachesGoOn ==
  ASSUME NEW rows, NEW other, CachesTrue(rows),
         \A mode \in Modes : GoesOn(rows, other, extremes[mode].processed),
         GoesOn(rows, other, occasions.processed)
  PROVE  CachesTrue(other)
<1>1. ASSUME NEW mode \in Modes PROVE EntryTrue(extremes[mode], mode, other)
  <2>1. PICK n \in Nat : n = extremes[mode].processed
    BY DEF CachesTrue, EntryTrue
  <2>2. GoesOn(rows, other, n)
    BY <2>1
  <2>3. n <= Len(rows) => QueueHolds(extremes[mode].queue, mode, rows, n + 2 - Length, n)
    BY <2>1 DEF CachesTrue, EntryTrue
  <2>4. ASSUME n <= Len(other)
        PROVE  QueueHolds(extremes[mode].queue, mode, other, n + 2 - Length, n)
    <3>1. n <= Len(rows) /\ \A i \in 1..n : rows[i] = other[i]
      BY <2>2, <2>4 DEF GoesOn
    <3>2. QED
      BY <2>3, <3>1, SameStart
  <2>5. QED
    BY <2>1, <2>4 DEF EntryTrue
<1>2. HitsTrue(occasions, other)
  <2>1. PICK n \in Nat : n = occasions.processed
    BY DEF CachesTrue, HitsTrue
  <2>2. GoesOn(rows, other, n)
    BY <2>1
  <2>3. n <= Len(rows) => HitsHold(occasions.hits, rows, n)
    BY <2>1 DEF CachesTrue, HitsTrue
  <2>4. ASSUME n <= Len(other) PROVE HitsHold(occasions.hits, other, n)
    <3>1. n <= Len(rows) /\ \A i \in 1..n : rows[i] = other[i]
      BY <2>2, <2>4 DEF GoesOn
    <3>2. QED
      BY <2>3, <3>1, SameHits
  <2>5. QED
    BY <2>1, <2>4 DEF HitsTrue
<1>3. ASSUME answers # <<>> PROVE AnswerTrue(extremes, answers[1], other)
  <2>1. PICK n \in Nat : n = answers[1].token[1]
    BY <1>3 DEF CachesTrue, AnswerTrue
  <2>2. "high" \in Modes /\ \A mode \in Modes : extremes[mode].processed = n
    BY <1>3, <2>1 DEF CachesTrue, AnswerTrue, Modes
  <2>3. GoesOn(rows, other, n)
    BY <2>2
  <2>4. ASSUME n <= Len(other), NEW mode \in Modes
        PROVE  IsBest(other, n, answers[1].token[2], mode, answers[1].best[mode])
    <3>1. n <= Len(rows) /\ \A i \in 1..n : rows[i] = other[i]
      BY <2>3, <2>4 DEF GoesOn
    <3>2. IsBest(rows, n, answers[1].token[2], mode, answers[1].best[mode])
      BY <1>3, <2>1, <3>1 DEF CachesTrue, AnswerTrue
    <3>3. QED
      BY <3>1, <3>2, SameStart
  <2>5. QED
    BY <2>1, <2>2, <2>4 DEF AnswerTrue
<1>4. QED
  BY <1>1, <1>2, <1>3 DEF CachesTrue

\* Empty caches are true of every history.
LEMMA FreshTrue ==
  ASSUME NEW entry, entry.processed = 0, NEW rows, NEW mode
  PROVE  /\ entry.queue = <<>> => EntryTrue(entry, mode, rows)
         /\ entry.hits = <<>> => HitsTrue(entry, rows)
<1>1. QueueHolds(<<>>, mode, rows, 0 + 2 - Length, 0)
  BY DEF QueueHolds
<1>2. HitsHold(<<>>, rows, 0)
  BY DEF HitsHold
<1>3. QED
  BY <1>1, <1>2 DEF EntryTrue, HitsTrue

\* The entry of valuewhen after the call.
LEMMA OccasionsCaught ==
  ASSUME past \in Seq(Rows), ScriptAssumption, HitsTrue(occasions, past), AskOccasions
  PROVE  occasions'.processed = Len(past) /\ HitsHold(occasions'.hits, past, Len(past))
<1>1. PICK n \in Nat : n = Len(past)
  BY ElementsOf
<1>2. PICK from : from = RewoundHits(occasions, n)
  OBVIOUS
<1>3. from.processed \in Nat /\ from.processed <= n /\ HitsHold(from.hits, past, from.processed)
  <2>1. CASE occasions.processed > n
    <3>1. from.processed = 0 /\ from.hits = <<>>
      BY <1>2, <2>1 DEF RewoundHits
    <3>2. HitsHold(<<>>, past, 0)
      BY DEF HitsHold
    <3>3. QED
      BY <1>1, <3>1, <3>2
  <2>2. CASE ~(occasions.processed > n)
    <3>1. from = occasions
      BY <1>2, <2>2 DEF RewoundHits
    <3>2. occasions.processed \in Nat /\ occasions.processed <= n
      BY <1>1, <2>2 DEF HitsTrue
    <3>3. QED
      BY <1>1, <3>1, <3>2 DEF HitsTrue
  <2>3. QED
    BY <2>1, <2>2
<1>4. PICK p \in Nat : p = from.processed
  BY <1>3
<1>5. \A row \in Rows : row.src \in Prices
  BY DEF ScriptAssumption, Prices
<1>6. HitsHold(HitAll(from.hits, SubSeq(past, p + 1, n)), past, n)
  BY <1>1, <1>3, <1>4, <1>5, HitsCaught
<1>7. occasions' = [processed |-> n, hits |-> HitAll(from.hits, SubSeq(past, p + 1, n))]
  BY <1>1, <1>2, <1>4 DEF AskOccasions, HitAll
<1>8. QED
  BY <1>1, <1>6, <1>7

\* highest and lowest: the entries after the call, and the answer for the open bar.
LEMMA ExtremesAsked ==
  ASSUME past \in Seq(Rows), ScriptAssumption, CachesTrue(past),
         NEW row \in Rows, now = <<row>>, AskExtremes
  PROVE  /\ \A mode \in Modes : /\ extremes'[mode].processed = Len(past)
                                /\ EntryTrue(extremes'[mode], mode, past)
         /\ answers' # <<>> /\ AnswerTrue(extremes', answers'[1], past)
         /\ answers'[1].token[1] = Len(past) /\ answers'[1].token[2] = row.src
<1>1. PICK n \in Nat : n = Len(past) /\ \A i \in 1..n : past[i] \in Rows
  BY ElementsOf
<1>2. /\ Length \in Nat \ {0} /\ NA \notin Int
      /\ row.src \in Prices /\ \A i \in 1..n : past[i].src \in Prices
  BY <1>1 DEF ScriptAssumption, Prices
<1>3. PICK token : token = <<n, row.src>>
  OBVIOUS
<1>4. token[1] = n /\ token[2] = row.src /\ now[1] = row
  BY <1>3
<1>5. CASE answers # <<>> /\ answers[1].token = token
  <2>1. extremes' = extremes /\ answers' = answers
    BY <1>1, <1>3, <1>4, <1>5 DEF AskExtremes
  <2>2. AnswerTrue(extremes, answers[1], past)
    BY <1>5 DEF CachesTrue
  <2>3. answers[1].token[1] = n /\ answers[1].token[2] = row.src
    BY <1>4, <1>5
  <2>4. \A mode \in Modes : extremes[mode].processed = n
    BY <2>2, <2>3 DEF AnswerTrue
  <2>5. \A mode \in Modes : EntryTrue(extremes[mode], mode, past)
    BY DEF CachesTrue
  <2>6. QED
    BY <1>1, <1>5, <2>1, <2>2, <2>3, <2>4, <2>5
<1>6. CASE ~(answers # <<>> /\ answers[1].token = token)
  <2>1. PICK caught : caught = [m \in Modes |-> Caught(extremes[m], m)]
    OBVIOUS
  <2>2. PICK best : best = [m \in Modes |-> Best(caught[m], m)]
    OBVIOUS
  <2>3. extremes' = caught /\ answers' = <<[token |-> token, best |-> best]>>
    BY <1>1, <1>3, <1>4, <1>6, <2>1, <2>2 DEF AskExtremes
  <2>4. /\ answers' # <<>> /\ answers'[1].token = token /\ answers'[1].best = best
    BY <2>3
  <2>5. ASSUME NEW mode \in Modes
        PROVE  /\ caught[mode].processed = n
               /\ QueueHolds(caught[mode].queue, mode, past, n + 2 - Length, n)
    <3>1. PICK entry : entry = extremes[mode]
      OBVIOUS
    <3>2. EntryTrue(entry, mode, past)
      BY <3>1 DEF CachesTrue
    <3>3. /\ Caught(entry, mode).processed = Len(past)
          /\ QueueHolds(Caught(entry, mode).queue, mode, past, Len(past) + 2 - Length, Len(past))
      BY <3>2, CaughtHolds DEF EntryTrue
    <3>4. caught[mode] = Caught(entry, mode)
      BY <2>1, <3>1
    <3>5. QED
      BY <1>1, <3>3, <3>4
  <2>6. ASSUME NEW mode \in Modes PROVE IsBest(past, n, row.src, mode, best[mode])
    <3>1. QueueHolds(caught[mode].queue, mode, past, n + 2 - Length, n)
      BY <2>5
    <3>2. IsBest(past, n, row.src, mode, ReadBest(caught[mode].queue, row.src, n, mode))
      BY <1>2, <3>1, ReadIsBest
    <3>3. best[mode] = ReadBest(caught[mode].queue, row.src, n, mode)
      BY <1>1, <1>4, <2>2 DEF Best, ReadBest
    <3>4. QED
      BY <3>2, <3>3
  <2>7. \A mode \in Modes : EntryTrue(extremes'[mode], mode, past)
    BY <1>1, <2>3, <2>5 DEF EntryTrue
  <2>8. AnswerTrue(extremes', answers'[1], past)
    BY <1>4, <2>3, <2>4, <2>5, <2>6 DEF AnswerTrue
  <2>9. QED
    BY <1>1, <1>4, <2>3, <2>4, <2>5, <2>7, <2>8
<1>7. QED
  BY <1>5, <1>6

\* A start of a history, row by row.
LEMMA PrefixIs ==
  ASSUME NEW s \in Seq(Rows), NEW t \in Seq(Rows)
  PROVE  /\ IsPrefix(s, t) => Len(s) <= Len(t) /\ \A i \in 1..Len(s) : s[i] = t[i]
         /\ Len(s) <= Len(t) /\ (\A i \in 1..Len(s) : s[i] = t[i]) => IsPrefix(s, t)
<1>1. PICK k \in Nat : k = Len(s) /\ Len(t) \in Nat
  BY ElementsOf
<1>2. SubSeq(s, 1, k) = s
  BY <1>1
<1>3. ASSUME k <= Len(t)
      PROVE  /\ \A i \in 1..k : SubSeq(t, 1, k)[i] = t[i]
             /\ Len(SubSeq(t, 1, k)) = k /\ SubSeq(t, 1, k) \in Seq(Rows)
  BY <1>1, <1>3
<1>4. ASSUME k <= Len(t), \A i \in 1..k : s[i] = t[i] PROVE SubSeq(t, 1, k) = s
  <2>1. PICK u \in Seq(Rows) : u = SubSeq(t, 1, k)
    BY <1>3, <1>4
  <2>2. Len(u) = Len(s) /\ \A i \in 1..Len(s) : u[i] = s[i]
    BY <1>1, <1>3, <1>4, <2>1
  <2>3. u = s
    BY <2>2, SeqEqual
  <2>4. QED
    BY <2>1, <2>3
<1>5. QED
  BY <1>1, <1>2, <1>3, <1>4 DEF IsPrefix

\* A start of a history goes on as it.
LEMMA StartGoesOn ==
  ASSUME NEW rows \in Seq(Rows), NEW start \in Seq(Rows), IsPrefix(start, rows)
  PROVE  GoesOn(start, rows, Len(start))
<1>1. Len(start) \in Nat /\ Len(start) <= Len(start)
  BY ElementsOf
<1>2. QED
  BY <1>1, PrefixIs DEF GoesOn

\* The caches are true of the history in which the script asks, if they held rows of
\* one history and it starts with them, or if it is shorter than they are.
LEMMA TrueWhenAsked ==
  ASSUME CacheInv,
         Len(seen.rows) > Len(past) \/ (seen.whole /\ IsPrefix(seen.rows, past))
  PROVE  CachesTrue(past)
<1>1. /\ seen.rows \in Seq(Rows) /\ past \in Seq(Rows)
      /\ Len(seen.rows) \in Nat /\ Len(past) \in Nat
  BY ElementsOf DEF CacheInv, Counted, BarsOf
<1>2. PICK n \in Nat : n = Len(seen.rows)
  BY <1>1
<1>3. /\ \A mode \in Modes : extremes[mode].processed = n
      /\ occasions.processed = n
      /\ answers # <<>> => answers[1].token[1] = n
  BY <1>2 DEF CacheInv, Counted
<1>4. CASE n > Len(past)
  <2>1. ~(n <= Len(past))
    BY <1>1, <1>4
  <2>2. QED
    BY <1>3, <2>1 DEF CachesTrue, EntryTrue, HitsTrue, AnswerTrue
<1>5. CASE seen.whole /\ IsPrefix(seen.rows, past)
  <2>1. CachesTrue(seen.rows)
    BY <1>5 DEF CacheInv
  <2>2. GoesOn(seen.rows, past, n)
    BY <1>1, <1>2, <1>5, StartGoesOn
  <2>3. QED
    BY <1>3, <2>1, <2>2, CachesGoOn
<1>6. QED
  BY <1>2, <1>4, <1>5

\* What the entries count after the call, whatever they held.
LEMMA CountedWhenAsked ==
  ASSUME CacheInv, AskExtremes, AskOccasions, seen' = [rows |-> past, whole |-> seen'.whole]
  PROVE  Counted'
<1>1. past \in Seq(Rows) /\ seen'.rows = past
  BY DEF CacheInv, BarsOf
<1>2. occasions'.processed = Len(past)
  BY DEF AskOccasions
<1>3. CASE answers # <<>> /\ answers[1].token = <<Len(past), now[1].src>>
  <2>1. extremes' = extremes /\ answers' = answers
    BY <1>3 DEF AskExtremes
  <2>2. answers[1].token[1] = Len(past)
    BY <1>3
  <2>3. \A mode \in Modes : extremes[mode].processed = Len(past)
    BY <1>3, <2>2 DEF CacheInv, Counted
  <2>4. QED
    BY <1>1, <1>2, <1>3, <2>1, <2>2, <2>3 DEF Counted
<1>4. CASE ~(answers # <<>> /\ answers[1].token = <<Len(past), now[1].src>>)
  <2>1. PICK caught : caught = [m \in Modes |-> Caught(extremes[m], m)]
    OBVIOUS
  <2>2. PICK best : best = [m \in Modes |-> Best(caught[m], m)]
    OBVIOUS
  <2>3. PICK token : token = <<Len(past), now[1].src>>
    OBVIOUS
  <2>4. extremes' = caught /\ answers' = <<[token |-> token, best |-> best]>>
    BY <1>4, <2>1, <2>2, <2>3 DEF AskExtremes
  <2>5. answers' # <<>> /\ answers'[1].token[1] = Len(past)
    BY <2>3, <2>4
  <2>6. \A mode \in Modes : caught[mode].processed = Len(past)
    BY <2>1 DEF Caught
  <2>7. QED
    BY <1>1, <1>2, <2>4, <2>5, <2>6 DEF Counted
<1>5. QED
  BY <1>3, <1>4

\* The script asks: where its rows are of one history, it is told what that says.
LEMMA AskKeeps ==
  ASSUME CacheInv, ScriptAssumption, Ask
  PROVE  CacheInv'
<1>1. /\ now # <<>> /\ AskExtremes /\ AskOccasions
      /\ UNCHANGED <<script, past, now, kept>>
      /\ seen'.rows = past /\ seen' = [rows |-> past, whole |-> seen'.whole]
      /\ seen'.whole <=> Len(seen.rows) > Len(past) \/ (seen.whole /\ IsPrefix(seen.rows, past))
      /\ told' = <<[best |-> answers'[1].best,
                    when |-> [n \in 0..1 |-> ValueWhen(occasions'.hits, n)]]>>
  BY DEF Ask
<1>2. past \in Seq(Rows) /\ Counted'
  BY <1>1, CountedWhenAsked DEF CacheInv, BarsOf
<1>3. PICK row \in Rows : now = <<row>>
  BY <1>1 DEF CacheInv, BarsOf
<1>4. PICK n \in Nat : n = Len(past)
  BY <1>2, ElementsOf
<1>5. script = "always" => seen'.whole /\ Following(seen'.rows, past')
  <2>1. Len(seen.rows) \in Nat /\ IsPrefix(past, past)
    BY <1>2, <1>4, ElementsOf DEF CacheInv, Counted, IsPrefix
  <2>2. script = "always" => Len(seen.rows) > Len(past) \/ (seen.whole /\ IsPrefix(seen.rows, past))
    BY <1>4, <2>1 DEF CacheInv, Following
  <2>3. QED
    BY <1>1, <2>1, <2>2 DEF Following
<1>6. CASE ~seen'.whole
  BY <1>1, <1>2, <1>5, <1>6 DEF CacheInv, BarsOf, AnswersFromHistory
<1>7. CASE seen'.whole
  <2>0. CachesTrue(past)
    BY <1>1, <1>7, TrueWhenAsked
  <2>5. /\ \A mode \in Modes : EntryTrue(extremes'[mode], mode, past)
        /\ answers' # <<>> /\ AnswerTrue(extremes', answers'[1], past)
        /\ answers'[1].token[1] = n /\ answers'[1].token[2] = row.src
    BY <1>1, <1>2, <1>3, <1>4, <2>0, ExtremesAsked
  <2>6. occasions'.processed = n /\ HitsHold(occasions'.hits, past, n)
    <3>1. HitsTrue(occasions, past)
      BY <2>0 DEF CachesTrue
    <3>2. QED
      BY <1>1, <1>2, <1>4, <3>1, OccasionsCaught
  <2>7. CachesTrue(seen.rows)'
    BY <1>1, <1>4, <2>5, <2>6 DEF CachesTrue, HitsTrue
  <2>8. ASSUME NEW mode \in Modes PROVE told'[1].best[mode] = Extreme(mode)
    <3>1. IsBest(past, n, row.src, mode, answers'[1].best[mode])
      BY <1>4, <2>5 DEF AnswerTrue
    <3>2. answers'[1].best[mode] = Extreme(mode)
      BY <1>2, <1>3, <1>4, <3>1, BestIsExtreme
    <3>3. told'[1].best = answers'[1].best
      BY <1>1
    <3>4. QED
      BY <3>2, <3>3
  <2>9. ASSUME NEW k \in 0..1
         PROVE  told'[1].when[k] = IF Occasion(k) = {} THEN NA
                                   ELSE Shown[CHOOSE i \in Occasion(k) : TRUE].src
    <3>1. ValueWhen(occasions'.hits, k) = IF Occasion(k) = {} THEN NA
                                          ELSE Shown[CHOOSE i \in Occasion(k) : TRUE].src
      <4>1. PICK hits : hits = occasions'.hits
        OBVIOUS
      <4>2. HitsHold(hits, past, Len(past)) /\ k \in Nat
        BY <1>4, <2>6, <4>1
      <4>3. QED
        BY <1>2, <1>3, <4>1, <4>2, HitIsOccasion
    <3>2. told'[1].when[k] = ValueWhen(occasions'.hits, k)
      BY <1>1
    <3>3. QED
      BY <3>1, <3>2
  <2>10. \A mode : Extreme(mode)' = Extreme(mode)
    BY <1>1 DEF Extreme, Window, Shown
  <2>11. Shown' = Shown /\ \A k : Occasion(k)' = Occasion(k)
    BY <1>1 DEF Occasion, Shown
  <2>12. AnswersFromHistory'
    BY <2>8, <2>9, <2>10, <2>11 DEF AnswersFromHistory
  <2>13. QED
    BY <1>1, <1>2, <1>5, <2>7, <2>12 DEF CacheInv, BarsOf
<1>8. QED
  BY <1>6, <1>7

\* A step that leaves the caches, and a history that follows the rows last seen.
LEMMA CachesLeft ==
  ASSUME CacheInv, UNCHANGED <<script, caches, seen>>, BarsOf(past', now'),
         \E S : kept' \in Seq(S), \A i \in 1..Len(kept') : BarsOf(kept'[i].past, kept'[i].now),
         script = "always" => Following(seen.rows, past'),
         told' # <<>> => ~Asks
  PROVE  CacheInv'
<1>1. UNCHANGED <<extremes, answers, occasions, seen, script>>
  BY DEF caches
<1>2. Counted' /\ (seen'.whole => CachesTrue(seen.rows)')
  BY <1>1 DEF CacheInv, Counted, CachesTrue
<1>3. script' = "always" => seen'.whole /\ Following(seen'.rows, past')
  BY <1>1 DEF CacheInv
<1>4. script' = "always" => told' = <<>>
  BY <1>1 DEF Asks
<1>5. AnswersFromHistory'
  BY <1>1 DEF AnswersFromHistory, Asks
<1>6. QED
  BY <1>2, <1>3, <1>4, <1>5 DEF CacheInv, BarsOf

\* A longer history follows the rows it starts with.
LEMMA LongerFollows ==
  ASSUME NEW rows \in Seq(Rows), NEW row \in Rows
  PROVE  Following(rows, Append(rows, row))
<1>1. PICK longer : longer = Append(rows, row)
  OBVIOUS
<1>2. /\ longer \in Seq(Rows) /\ Len(longer) = Len(rows) + 1
      /\ \A i \in 1..Len(rows) : longer[i] = rows[i]
  BY <1>1
<1>3. Len(rows) <= Len(longer)
  BY <1>2, ElementsOf
<1>4. IsPrefix(rows, longer)
  BY <1>2, <1>3, PrefixIs
<1>5. QED
  BY <1>1, <1>4 DEF Following

\* What follows a history follows every start of it.
LEMMA StartFollows ==
  ASSUME NEW rows \in Seq(Rows), NEW other \in Seq(Rows), NEW start \in Seq(Rows),
         Following(rows, other), IsPrefix(start, other)
  PROVE  Following(rows, start)
<1>1. Len(rows) \in Nat /\ Len(other) \in Nat /\ Len(start) \in Nat
  BY ElementsOf
<1>2. Len(start) <= Len(other) /\ \A i \in 1..Len(start) : start[i] = other[i]
  BY PrefixIs
<1>3. SUFFICES ASSUME Len(rows) <= Len(start) PROVE IsPrefix(rows, start)
  BY DEF Following
<1>4. IsPrefix(rows, other)
  BY <1>1, <1>2, <1>3 DEF Following
<1>5. \A i \in 1..Len(rows) : rows[i] = other[i] /\ i \in 1..Len(start)
  BY <1>1, <1>3, <1>4, PrefixIs
<1>6. \A i \in 1..Len(rows) : rows[i] = start[i]
  BY <1>2, <1>5
<1>7. QED
  BY <1>3, <1>6, PrefixIs

\* Every history follows no rows.
LEMMA NoneFollowed ==
  ASSUME NEW other \in Seq(Rows)
  PROVE  Following(<<>>, other)
<1>1. PICK none : none = <<>>
  OBVIOUS
<1>2. IsPrefix(none, other)
  <2>1. none \in Seq(Rows) /\ Len(none) = 0 /\ Len(other) \in Nat
    BY <1>1, ElementsOf
  <2>2. Len(none) <= Len(other) /\ \A i \in 1..Len(none) : none[i] = other[i]
    BY <2>1
  <2>3. QED
    BY <2>1, <2>2, PrefixIs
<1>3. QED
  BY <1>1, <1>2 DEF Following

\* The bar ends; a script that asks on every bar has asked.
LEMMA EndKeeps ==
  ASSUME CacheInv, End
  PROVE  CacheInv'
<1>1. /\ now # <<>> /\ Ran /\ past' = Append(past, now[1])
      /\ now' = <<>> /\ told' = <<>> /\ UNCHANGED <<script, caches, seen, kept>>
  BY DEF End
<1>2. PICK row \in Rows : now = <<row>> /\ past \in Seq(Rows)
  BY <1>1 DEF CacheInv, BarsOf
<1>3. past' = Append(past, row)
  BY <1>1, <1>2
<1>4. BarsOf(past', now')
  BY <1>1, <1>2, <1>3 DEF BarsOf
<1>5. script = "always" => Following(seen.rows, past')
  <2>1. script = "always" => seen.rows = past
    BY <1>1 DEF Ran, CacheInv
  <2>2. QED
    BY <1>2, <1>3, <2>1, LongerFollows
<1>6. /\ \E S : kept' \in Seq(S)
      /\ \A i \in 1..Len(kept') : BarsOf(kept'[i].past, kept'[i].now)
  BY <1>1 DEF CacheInv
<1>7. QED
  BY <1>1, <1>4, <1>5, <1>6, CachesLeft

\* A checkpoint holds the bars of the run.
LEMMA ExportKeeps ==
  ASSUME CacheInv, Export
  PROVE  CacheInv'
<1>1. /\ told = <<>> /\ kept' = Append(kept, Snapshot)
      /\ UNCHANGED <<script, past, now, caches, seen, told>>
  BY DEF Export
<1>2. BarsOf(Snapshot.past, Snapshot.now)
  BY DEF CacheInv, Snapshot
<1>3. PICK S : kept \in Seq(S) /\ Snapshot \in S
  <2>1. PICK T : kept \in Seq(T)
    BY DEF CacheInv
  <2>2. kept \in Seq(T \cup {Snapshot})
    BY <2>1
  <2>3. QED
    BY <2>2
<1>4. /\ kept' \in Seq(S) /\ Len(kept') = Len(kept) + 1 /\ Len(kept) \in Nat
      /\ kept'[Len(kept) + 1] = Snapshot
      /\ \A i \in 1..Len(kept) : kept'[i] = kept[i]
  <2>1. PICK s : s = Snapshot /\ s \in S
    BY <1>3
  <2>2. PICK next : next = Append(kept, s)
    OBVIOUS
  <2>3. /\ next \in Seq(S) /\ Len(next) = Len(kept) + 1 /\ Len(kept) \in Nat
        /\ next[Len(kept) + 1] = s
        /\ \A i \in 1..Len(kept) : next[i] = kept[i]
    BY <1>3, <2>1, <2>2
  <2>4. QED
    BY <1>1, <2>1, <2>2, <2>3
<1>5. ASSUME NEW i \in 1..Len(kept') PROVE BarsOf(kept'[i].past, kept'[i].now)
  <2>1. CASE i \in 1..Len(kept)
    BY <1>4, <2>1 DEF CacheInv
  <2>2. CASE i = Len(kept) + 1
    BY <1>2, <1>4, <2>2
  <2>3. QED
    BY <1>4, <2>1, <2>2
<1>6. BarsOf(past', now')
  BY <1>1 DEF CacheInv
<1>7. script = "always" => Following(seen.rows, past')
  BY <1>1 DEF CacheInv
<1>8. \E T : kept' \in Seq(T)
  BY <1>4
<1>9. QED
  BY <1>1, <1>5, <1>6, <1>7, <1>8, CachesLeft

\* A rollback shortens the history, and a resume comes before the first question.
LEMMA RestoreKeeps ==
  ASSUME CacheInv, ~Resumes, NEW i \in DOMAIN kept, Restore(kept[i])
  PROVE  CacheInv'
<1>1. /\ IsPrefix(kept[i].past, past) \/ answers = <<>>
      /\ past' = kept[i].past /\ now' = kept[i].now
      /\ told' = <<>> /\ UNCHANGED <<script, caches, seen, kept>>
  BY DEF Restore
<1>2. i \in 1..Len(kept)
  BY DEF CacheInv
<1>3. BarsOf(past', now') /\ BarsOf(past, now)
  BY <1>1, <1>2 DEF CacheInv
<1>4. ASSUME script = "always" PROVE Following(seen.rows, past')
  <2>1. past \in Seq(Rows) /\ past' \in Seq(Rows) /\ seen.rows \in Seq(Rows)
    BY <1>3 DEF BarsOf, CacheInv, Counted
  <2>2. CASE IsPrefix(kept[i].past, past)
    <3>1. Following(seen.rows, past) /\ IsPrefix(past', past)
      BY <1>1, <1>4, <2>2 DEF CacheInv
    <3>2. QED
      BY <2>1, <3>1, StartFollows
  <2>3. CASE answers = <<>>
    <3>1. seen.rows = <<>>
      BY <2>3 DEF CacheInv, Counted
    <3>2. QED
      BY <2>1, <3>1, NoneFollowed
  <2>4. QED
    BY <1>1, <2>2, <2>3
<1>5. /\ \E S : kept' \in Seq(S)
      /\ \A j \in 1..Len(kept') : BarsOf(kept'[j].past, kept'[j].now)
  BY <1>1 DEF CacheInv
<1>6. QED
  BY <1>1, <1>3, <1>4, <1>5, CachesLeft

\* Fresh caches have seen nothing, and are true of the run that starts with them.
LEMMA FreshCaches ==
  ASSUME extremes = [m \in Modes |-> [processed |-> 0, queue |-> <<>>]], answers = <<>>,
         occasions = [processed |-> 0, hits |-> <<>>],
         seen = [rows |-> <<>>, whole |-> TRUE]
  PROVE  CachesTrue(seen.rows) /\ Counted /\ seen.whole /\ seen.rows = <<>>
<1>1. \A mode \in Modes : extremes[mode].processed = 0 /\ extremes[mode].queue = <<>>
  OBVIOUS
<1>2. occasions.processed = 0 /\ occasions.hits = <<>>
  OBVIOUS
<1>3. seen.rows = <<>> /\ Len(<<>>) = 0 /\ <<>> \in Seq(Rows) /\ seen.whole
  OBVIOUS
<1>4. CachesTrue(seen.rows)
  BY <1>1, <1>2, FreshTrue DEF CachesTrue
<1>5. QED
  BY <1>1, <1>2, <1>3, <1>4 DEF Counted

\* A new runtime, with caches of its own or with those it finds.
LEMMA RuntimeKeeps ==
  ASSUME CacheInv, NewRuntime
  PROVE  CacheInv'
<1>1. /\ past' = <<>> /\ now' = <<>> /\ told' = <<>> /\ kept' = kept /\ UNCHANGED script
      /\ Fresh(caches) \/ UNCHANGED <<caches, seen>>
  BY DEF NewRuntime
<1>2. BarsOf(past', now') /\ past' \in Seq(Rows)
  BY <1>1 DEF BarsOf
<1>3. /\ \E S : kept' \in Seq(S)
      /\ \A i \in 1..Len(kept') : BarsOf(kept'[i].past, kept'[i].now)
  BY <1>1 DEF CacheInv
<1>4. CASE UNCHANGED <<caches, seen>>
  <2>1. seen.rows \in Seq(Rows) /\ Len(seen.rows) \in Nat /\ Len(past') = 0
    BY <1>1, ElementsOf DEF CacheInv, Counted
  <2>2. Len(seen.rows) <= Len(past') => seen.rows = <<>>
    BY <2>1, ElementsOf
  <2>3. Following(seen.rows, past')
    BY <1>2, <2>2, NoneFollowed DEF Following
  <2>4. QED
    BY <1>1, <1>2, <1>3, <1>4, <2>3, CachesLeft
<1>5. CASE Fresh(caches)
  <2>1. CachesTrue(seen.rows)' /\ Counted' /\ seen'.whole /\ seen'.rows = <<>>
    <3>1. /\ extremes' = [m \in Modes |-> [processed |-> 0, queue |-> <<>>]] /\ answers' = <<>>
          /\ occasions' = [processed |-> 0, hits |-> <<>>]
          /\ seen' = [rows |-> <<>>, whole |-> TRUE]
      BY <1>5 DEF Fresh
    <3>2. \A mode \in Modes : extremes'[mode].processed = 0 /\ extremes'[mode].queue = <<>>
      BY <3>1
    <3>3. occasions'.processed = 0 /\ occasions'.hits = <<>>
      BY <3>1
    <3>4. seen'.rows = <<>> /\ Len(<<>>) = 0 /\ <<>> \in Seq(Rows) /\ seen'.whole
      BY <3>1
    <3>5. CachesTrue(seen.rows)'
      BY <3>1, <3>2, <3>3, FreshTrue DEF CachesTrue
    <3>6. QED
      BY <3>1, <3>2, <3>3, <3>4, <3>5 DEF Counted
  <2>2. Following(seen'.rows, past')
    BY <1>2, <2>1, NoneFollowed
  <2>3. AnswersFromHistory'
    BY <1>1 DEF AnswersFromHistory
  <2>4. QED
    BY <1>1, <1>2, <1>3, <2>1, <2>2, <2>3 DEF CacheInv
<1>6. QED
  BY <1>1, <1>4, <1>5

\* Every step of such a host keeps the caches true.
LEMMA CachesKept == ScriptAssumption /\ ~Resumes /\ CacheInv /\ [Next]_scriptVars => CacheInv'
<1> SUFFICES ASSUME ScriptAssumption, ~Resumes, CacheInv, [Next]_scriptVars PROVE CacheInv'
  OBVIOUS
<1>0. ASSUME UNCHANGED past PROVE script = "always" => Following(seen.rows, past')
  BY <1>0 DEF CacheInv
<1>1. ASSUME NEW row \in Rows, Begin(row) \/ Tick(row) PROVE CacheInv'
  <2>1. /\ now' = <<row>> /\ told' = <<>> /\ UNCHANGED <<script, past, caches, seen, kept>>
    BY <1>1 DEF Begin, Tick
  <2>2. BarsOf(past', now')
    BY <2>1 DEF CacheInv, BarsOf
  <2>3. /\ \E S : kept' \in Seq(S)
        /\ \A i \in 1..Len(kept') : BarsOf(kept'[i].past, kept'[i].now)
    BY <2>1 DEF CacheInv
  <2>4. QED
    BY <1>0, <2>1, <2>2, <2>3, CachesLeft
<1>2. CASE Ask
  BY <1>2, AskKeeps
<1>3. ASSUME Draws, UNCHANGED <<script, past, now, caches, seen, kept>> PROVE CacheInv'
  <2>1. ~Asks /\ BarsOf(past', now')
    BY <1>3 DEF Draws, Asks, CacheInv
  <2>2. /\ \E S : kept' \in Seq(S)
        /\ \A i \in 1..Len(kept') : BarsOf(kept'[i].past, kept'[i].now)
    BY <1>3 DEF CacheInv
  <2>3. QED
    BY <1>0, <1>3, <2>1, <2>2, CachesLeft
<1>4. CASE End
  BY <1>4, EndKeeps
<1>5. CASE Export
  BY <1>5, ExportKeeps
<1>6. ASSUME NEW i \in DOMAIN kept, Restore(kept[i]) PROVE CacheInv'
  BY <1>6, RestoreKeeps
<1>7. CASE NewRuntime
  BY <1>7, RuntimeKeeps
<1>8. CASE UNCHANGED scriptVars
  <2>1. UNCHANGED <<script, past, now, extremes, answers, occasions, seen, told, kept>>
    BY <1>8 DEF scriptVars, caches
  <2>2. AnswersFromHistory'
    <3>1. AnswersFromHistory
      BY DEF CacheInv
    <3>2. \A mode : Extreme(mode)' = Extreme(mode)
      BY <2>1 DEF Extreme, Window, Shown
    <3>3. Shown' = Shown /\ \A n : Occasion(n)' = Occasion(n)
      BY <2>1 DEF Occasion, Shown
    <3>4. QED
      BY <2>1, <3>1, <3>2, <3>3 DEF AnswersFromHistory, Asks
  <2>3. QED
    BY <2>1, <2>2 DEF CacheInv, CachesTrue, Counted
<1>9. QED
  BY <1>1, <1>2, <1>3, <1>4, <1>5, <1>6, <1>7, <1>8
  DEF Next, New, Set, Delete, RecordPlot, scriptVars, recorders

\* ta/_impl_core.py:206-262 and ta/_impl_stats2.py:27-60: of a host that resumes no run
\* where another one was asked, a script that asks on every bar is answered from the bars
\* of its run, through rollbacks and through runtimes at old addresses; so is one that
\* skips bars, unless as many other rows replaced those it last asked about.
THEOREM HelpersCorrect == ASSUME ~Resumes PROVE Spec => []AnswersFromHistory
<1>1. Init => CacheInv
  <2> SUFFICES ASSUME Init PROVE CacheInv
    OBVIOUS
  <2>1. /\ past = <<>> /\ now = <<>> /\ told = <<>> /\ kept = <<>> /\ Len(kept) = 0
        /\ kept \in Seq({}) /\ past \in Seq(Rows)
    BY DEF Init
  <2>2. CachesTrue(seen.rows) /\ Counted /\ seen.whole /\ seen.rows = <<>>
    BY FreshCaches DEF Init
  <2>3. BarsOf(past, now) /\ Following(seen.rows, past)
    BY <2>1, <2>2, NoneFollowed DEF BarsOf
  <2>4. AnswersFromHistory
    BY <2>1 DEF AnswersFromHistory
  <2>5. QED
    BY <2>1, <2>2, <2>3, <2>4 DEF CacheInv
<1>2. CacheInv /\ [Next]_scriptVars => CacheInv'
  BY ScriptAssumption, CachesKept
<1>3. CacheInv => AnswersFromHistory
  BY DEF CacheInv
<1>4. QED
  BY <1>1, <1>2, <1>3, PTL DEF Spec
=============================================================================
