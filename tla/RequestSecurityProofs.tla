------------------------- MODULE RequestSecurityProofs -------------------------
(***************************************************************************)
(* Proofs about RequestSecurity, for every value of its constants: the     *)
(* metadata log of the lower-timeframe requests, which is written with an  *)
(* index that is one ahead of the bars that have ended, and goes back with *)
(* the chart; and the cache, whose entries are merged and evaluated bit by *)
(* bit, by calls that may raise and be rolled back, and yet give on every  *)
(* chart bar what the mode promises of all bars fetched.                   *)
(***************************************************************************)
EXTENDS RequestSecurity, FiniteSetTheorems, SequenceTheorems, TLAPS

\* The entries of a log name bars of the chart that have begun, in their order.
LogOK(entries, begun) ==
  /\ \E S : entries \in Seq(S)
  /\ \A i \in 1..Len(entries) :
       /\ entries[i].index \in Int /\ entries[i].index + 1 \in 1..begun
       /\ world.chart[entries[i].index + 1].time = entries[i].time
       /\ i > 1 => entries[i - 1].index <= entries[i].index

\* The index of a runtime counts the bars that have ended.
IndexOK(begun, index, isopen) ==
  /\ begun \in Nat /\ isopen \in BOOLEAN
  /\ index = begun - 1 - (IF isopen THEN 1 ELSE 0)
  /\ isopen => begun \geq 1

LogInv ==
  /\ IndexOK(chart, barIndex, open) /\ LogOK(log, chart)
  /\ saved # <<>> =>
       /\ IndexOK(saved[1].chart, saved[1].barIndex, saved[1].open)
       /\ LogOK(saved[1].log, saved[1].chart)

-----------------------------------------------------------------------------

\* More bars leave the entries what they are.
LEMMA LogGrows ==
  ASSUME NEW entries, NEW m \in Nat, NEW n \in Nat, m <= n, LogOK(entries, m)
  PROVE  LogOK(entries, n)
BY DEF LogOK

\* A request logs the bar that is open: bar_index + 1 is its index.
LEMMA RequestLogs ==
  ASSUME LogInv, NEW requested, NEW selected, RequestLower(requested, selected)
  PROVE  LogOK(log', chart)
<1> DEFINE entry == [index |-> barIndex + 1, time |-> ChartBar.time,
                     requested |-> Len(requested),
                     selected |-> [i \in 1..Len(selected) |-> selected[i].time]]
<1>1. log' = Append(log, entry) /\ open
  BY DEF RequestLower, Asks
<1>2. entry.index + 1 = chart /\ entry.time = world.chart[chart].time /\ chart \in Nat
      /\ chart \geq 1
  BY <1>1 DEF LogInv, IndexOK, ChartBar
<1>0. entry.index \in Int
  BY DEF LogInv, IndexOK
<1> HIDE DEF entry
<1>3. PICK S : log \in Seq(S)
  BY DEF LogInv, LogOK
<1>4. log \in Seq(S \cup {entry}) /\ entry \in S \cup {entry}
  BY <1>3
<1>5. /\ log' \in Seq(S \cup {entry}) /\ Len(log) \in Nat /\ Len(log') = Len(log) + 1
      /\ \A i \in 1..Len(log) : log'[i] = log[i]
      /\ log'[Len(log) + 1] = entry
  BY <1>1, <1>4
<1>6. ASSUME NEW i \in 1..Len(log')
      PROVE  /\ log'[i].index \in Int /\ log'[i].index + 1 \in 1..chart
             /\ world.chart[log'[i].index + 1].time = log'[i].time
             /\ i > 1 => log'[i - 1].index <= log'[i].index
  <2>1. CASE i \in 1..Len(log)
    <3>1. log'[i] = log[i] /\ (i > 1 => log'[i - 1] = log[i - 1])
      BY <1>5, <2>1
    <3>2. QED
      BY <2>1, <3>1 DEF LogInv, LogOK
  <2>2. CASE i = Len(log) + 1
    <3>1. log'[i] = entry
      BY <1>5, <2>2
    <3>2. ASSUME i > 1
          PROVE  log'[i - 1].index <= log'[i].index
      <4>1. i - 1 \in 1..Len(log) /\ log'[i - 1] = log[i - 1]
        BY <1>5, <2>2, <3>2
      <4>2. log[i - 1].index + 1 \in 1..chart
        BY <4>1 DEF LogInv, LogOK
      <4>3. entry.index = barIndex + 1 /\ barIndex + 2 = chart
        BY <1>1 DEF entry, LogInv, IndexOK
      <4>4. log[i - 1].index \in Int /\ log[i - 1].index <= barIndex + 1
        BY <4>1, <4>2, <4>3 DEF LogInv, LogOK, IndexOK
      <4>5. QED
        BY <3>1, <4>1, <4>3, <4>4
    <3>3. QED
      BY <1>0, <1>2, <3>1, <3>2
  <2>3. QED
    BY <1>5, <2>1, <2>2
<1>7. QED
  BY <1>5, <1>6 DEF LogOK

\* A call that touches neither the chart nor the log keeps both in order.
LEMMA LogStays ==
  ASSUME LogInv, UNCHANGED <<world, chart, barIndex, open, log, saved>>
  PROVE  LogInv'
BY DEF LogInv, IndexOK, LogOK

\* The first bar begins with an empty log.
LEMMA LogStarts == Init => LogInv
<1> SUFFICES ASSUME Init PROVE LogInv
  OBVIOUS
<1>1. log = <<>> /\ Len(log) = 0 /\ log \in Seq({})
  BY DEF Init
<1>2. LogOK(log, chart)
  BY <1>1 DEF LogOK
<1>3. IndexOK(chart, barIndex, open)
  <2>1. chart = 0 /\ barIndex = -1 /\ open = FALSE
    BY DEF Init
  <2>2. IndexOK(0, -1, FALSE)
    BY DEF IndexOK
  <2>3. QED
    BY <2>1, <2>2
<1>4. QED
  BY <1>2, <1>3 DEF Init, LogInv

\* Every step keeps index, log and checkpoint in order.
LEMMA LogKept == LogInv /\ [Next]_vars => LogInv'
<1> SUFFICES ASSUME LogInv, [Next]_vars PROVE LogInv'
  OBVIOUS
<1>1. CASE BeginBar
  <2>1. /\ chart' = chart + 1 /\ ~open /\ open' = TRUE
        /\ UNCHANGED <<world, barIndex, log, saved>>
    BY <1>1 DEF BeginBar
  <2>2. chart \in Nat /\ LogOK(log, chart + 1)
    BY LogGrows DEF LogInv, IndexOK
  <2>3. QED
    BY <2>1, <2>2 DEF LogInv, IndexOK, LogOK
<1>2. CASE EndBar
  <2>1. /\ barIndex' = barIndex + 1 /\ open /\ open' = FALSE
        /\ UNCHANGED <<world, chart, log, saved>>
    BY <1>2 DEF EndBar
  <2>2. IndexOK(chart, barIndex + 1, FALSE)
    BY <2>1 DEF LogInv, IndexOK
  <2>3. QED
    BY <2>1, <2>2 DEF LogInv, LogOK, IndexOK
<1>3. CASE SecurityInvalid \/ Security \/ SecurityRaises
  BY <1>3, LogStays DEF SecurityInvalid, Security, SecurityRaises
<1>4. CASE SecurityLowerTf \/ SecurityLowerTfIntrabar
  <2>1. /\ LogOK(log', chart)
        /\ UNCHANGED <<world, chart, barIndex, open, saved>>
    <3>1. PICK requested, selected : RequestLower(requested, selected)
      BY <1>4 DEF SecurityLowerTf, SecurityLowerTfIntrabar
    <3>2. QED
      BY <3>1, RequestLogs DEF RequestLower
  <2>2. QED
    BY <2>1 DEF LogInv, IndexOK, LogOK
<1>5. CASE Export
  BY <1>5 DEF Export, Checkpoint, runtimeVars, LogInv, IndexOK, LogOK
<1>6. CASE Restore
  BY <1>6 DEF Restore, LogInv, IndexOK, LogOK
<1>7. CASE UNCHANGED vars
  BY <1>7, LogStays DEF vars, runtimeVars
<1>8. QED
  BY <1>1, <1>2, <1>3, <1>4, <1>5, <1>6, <1>7 DEF Next

\* security.py:446-468: the log tells the truth about the
\* chart in every state, after any rollback or resume.
THEOREM LogCorrect == Spec => []LogNamesBars
<1>1. LogInv => LogNamesBars
  BY DEF LogInv, LogOK, LogNamesBars
<1>2. QED
  BY <1>1, LogStarts, LogKept, PTL DEF Spec

-----------------------------------------------------------------------------
(* Lengths and picks *)

\* The length of a sequence is a number.
LEMMA LengthIsNumber ==
  ASSUME NEW U, NEW s \in Seq(U)
  PROVE  Len(s) \in Nat
OBVIOUS

\* A beginning and the bar after it.
LEMMA StartAndNext ==
  ASSUME NEW T, NEW s \in Seq(T), NEW v \in Nat, v < Len(s)
  PROVE  /\ SubSeq(s, 1, v) \in Seq(T) /\ Len(SubSeq(s, 1, v)) = v
         /\ Append(SubSeq(s, 1, v), s[v + 1]) = SubSeq(s, 1, v + 1)
         /\ SubSeq(s, 1, v + 1) \in Seq(T)
         /\ s[v + 1] \in T
OBVIOUS

M == INSTANCE FoldLemmas WITH Op <- MergeBar
E == INSTANCE FoldLemmas WITH Op <- Evaluate

\* How many of the first i places are chosen.
Rank(places, i) == Cardinality({j \in 1..i : j \in places})

PickTo(bars, places, n) ==
  FlattenSeq([i \in 1..n |-> IF i \in places THEN <<bars[i]>> ELSE <<>>])

\* The sequence p has the chosen ones of the first n bars: its k-th comes from f[k],
\* in order, none is left out, and f[k] is the k-th place chosen.
Along(f, bars, places, n, p) ==
  /\ p \in Seq(BarRecords) /\ Len(p) = Rank(places, n)
  /\ f \in [1..Len(p) -> 1..n]
  /\ \A k \in 1..Len(p) :
       f[k] \in places /\ p[k] = bars[f[k]] /\ Rank(places, f[k]) = k
  /\ \A i \in 1..n : i \in places => \E k \in 1..Len(p) : f[k] = i
  /\ \A k, l \in 1..Len(p) : k < l => f[k] < f[l]

\* One place more.
LEMMA RankStep ==
  ASSUME NEW places, NEW n \in Nat
  PROVE  /\ Rank(places, 0) = 0 /\ Rank(places, n) \in Nat
         /\ n + 1 \in places => Rank(places, n + 1) = Rank(places, n) + 1
         /\ n + 1 \notin places => Rank(places, n + 1) = Rank(places, n)
<1>1. PICK S : S = {j \in 1..n : j \in places}
  OBVIOUS
<1>2. PICK T : T = {j \in 1..(n + 1) : j \in places}
  OBVIOUS
<1>3. IsFiniteSet(S) /\ Cardinality(S) \in Nat /\ n + 1 \notin S
  <2>1. IsFiniteSet(1..n)
    BY FS_Interval
  <2>2. S \subseteq 1..n /\ n + 1 \notin 1..n
    BY <1>1
  <2>3. QED
    BY <2>1, <2>2, FS_Subset, FS_CardinalityType
<1>4. 1..(n + 1) = 1..n \cup {n + 1}
  OBVIOUS
<1>5. n + 1 \in places => T = S \cup {n + 1}
  BY <1>1, <1>2, <1>4
<1>6. n + 1 \notin places => T = S
  BY <1>1, <1>2, <1>4
<1>7. n + 1 \in places => Cardinality(T) = Cardinality(S) + 1
  BY <1>3, <1>5, FS_AddElement
<1>8. Rank(places, 0) = 0
  <2>1. {j \in 1..0 : j \in places} = {}
    OBVIOUS
  <2>2. QED
    BY <2>1, FS_EmptySet DEF Rank
<1>9. QED
  BY <1>1, <1>2, <1>3, <1>6, <1>7, <1>8 DEF Rank

\* FlattenSeq, one sequence more.
LEMMA FlattenFacts ==
  ASSUME NEW U, NEW s \in Seq(Seq(U)), NEW e \in Seq(U)
  PROVE  /\ FlattenSeq(<<>>) = <<>>
         /\ FlattenSeq(s) \in Seq(U)
         /\ FlattenSeq(Append(s, e)) = FlattenSeq(s) \o e
<1>1. \A r : M!FlattenSeq(r) = FlattenSeq(r)
  BY DEF M!FlattenSeq, FlattenSeq
<1>2. QED
  BY <1>1, M!FlattenEmpty, M!FlattenAppend

\* One bar more.
LEMMA PickStep ==
  ASSUME NEW bars, NEW places, NEW n \in Nat, \A i \in 1..(n + 1) : bars[i] \in BarRecords
  PROVE  /\ PickTo(bars, places, 0) = <<>>
         /\ PickTo(bars, places, n + 1) =
              PickTo(bars, places, n) \o (IF n + 1 \in places THEN <<bars[n + 1]>> ELSE <<>>)
<1> DEFINE item(i) == IF i \in places THEN <<bars[i]>> ELSE <<>>
<1>1. \A i \in 1..(n + 1) : item(i) \in Seq(BarRecords)
  OBVIOUS
<1>2. PickTo(bars, places, 0) = FlattenSeq([i \in 1..0 |-> item(i)])
      /\ PickTo(bars, places, n) = FlattenSeq([i \in 1..n |-> item(i)])
      /\ PickTo(bars, places, n + 1) = FlattenSeq([i \in 1..(n + 1) |-> item(i)])
  BY DEF PickTo
<1>3. item(n + 1) = IF n + 1 \in places THEN <<bars[n + 1]>> ELSE <<>>
  OBVIOUS
<1> HIDE DEF item
<1>4. PICK s : s = [i \in 1..n |-> item(i)]
  OBVIOUS
<1>5. s \in Seq(Seq(BarRecords)) /\ item(n + 1) \in Seq(BarRecords)
  <2>1. \A i \in 1..n : i \in 1..(n + 1)
    OBVIOUS
  <2>2. s \in [1..n -> Seq(BarRecords)] /\ n + 1 \in 1..(n + 1)
    BY <1>1, <1>4, <2>1
  <2>3. QED
    BY <1>1, <2>2
<1>6. [i \in 1..(n + 1) |-> item(i)] = Append(s, item(n + 1))
  BY <1>4, <1>5
<1>7. [i \in 1..0 |-> item(i)] = <<>>
  OBVIOUS
<1>8. <<>> \in Seq(Seq(BarRecords)) /\ <<>> \in Seq(BarRecords)
  OBVIOUS
<1>9. FlattenSeq(<<>>) = <<>> /\ FlattenSeq(Append(s, item(n + 1))) = FlattenSeq(s) \o item(n + 1)
  BY <1>5, <1>8, FlattenFacts
<1>10. QED
  BY <1>2, <1>3, <1>4, <1>6, <1>7, <1>9

\* A chosen bar is appended.
LEMMA PickChosen ==
  ASSUME NEW bars, NEW places, NEW n \in Nat, NEW p, NEW f, Along(f, bars, places, n, p),
         n + 1 \in places, bars[n + 1] \in BarRecords
  PROVE  \E g : Along(g, bars, places, n + 1, p \o <<bars[n + 1]>>)
<1>1. PICK q : q = p \o <<bars[n + 1]>>
  OBVIOUS
<1>2. PICK m \in Nat : m = Len(p)
  BY DEF Along
<1>3. /\ q \in Seq(BarRecords) /\ Len(q) = m + 1 /\ q[m + 1] = bars[n + 1]
      /\ \A k \in 1..m : q[k] = p[k]
  BY <1>1, <1>2 DEF Along
<1>4. m = Rank(places, n) /\ Rank(places, n + 1) = m + 1
  BY <1>2, RankStep DEF Along
<1>5. PICK g : g = [k \in 1..(m + 1) |-> IF k = m + 1 THEN n + 1 ELSE f[k]]
  OBVIOUS
<1>6. /\ \A k \in 1..m : f[k] \in 1..n /\ f[k] \in places /\ p[k] = bars[f[k]]
                         /\ Rank(places, f[k]) = k
      /\ \A i \in 1..n : i \in places => \E k \in 1..m : f[k] = i
      /\ \A k, l \in 1..m : k < l => f[k] < f[l]
  BY <1>2 DEF Along
<1>7. \A k \in 1..(m + 1) : k \in 1..m \/ k = m + 1
  OBVIOUS
<1>8. g[m + 1] = n + 1 /\ \A k \in 1..m : g[k] = f[k]
  BY <1>5
<1>9. g \in [1..(m + 1) -> 1..(n + 1)]
  <2>1. \A k \in 1..(m + 1) : g[k] \in 1..(n + 1)
    BY <1>6, <1>7, <1>8
  <2>2. QED
    BY <1>5, <2>1
<1>10. \A k \in 1..(m + 1) : g[k] \in places /\ q[k] = bars[g[k]] /\ Rank(places, g[k]) = k
  BY <1>3, <1>4, <1>6, <1>7, <1>8
<1>11. ASSUME NEW i \in 1..(n + 1), i \in places
       PROVE  \E k \in 1..(m + 1) : g[k] = i
  <2>1. CASE i = n + 1
    BY <1>8, <2>1
  <2>2. CASE i # n + 1
    <3>1. PICK k \in 1..m : f[k] = i
      BY <1>6, <1>11, <2>2
    <3>2. k \in 1..(m + 1) /\ g[k] = i
      BY <1>8, <3>1
    <3>3. QED
      BY <3>2
  <2>3. QED
    BY <2>1, <2>2
<1>12. ASSUME NEW k \in 1..(m + 1), NEW l \in 1..(m + 1), k < l
       PROVE  g[k] < g[l]
  <2>1. k \in 1..m
    BY <1>12
  <2>2. CASE l \in 1..m
    BY <1>6, <1>8, <1>12, <2>1, <2>2
  <2>3. CASE l = m + 1
    BY <1>6, <1>8, <2>1, <2>3
  <2>4. QED
    BY <1>7, <2>2, <2>3
<1>13. Along(g, bars, places, n + 1, q)
  BY <1>3, <1>4, <1>9, <1>10, <1>11, <1>12 DEF Along
<1>14. QED
  BY <1>1, <1>13

\* A bar is left out.
LEMMA PickLeft ==
  ASSUME NEW bars, NEW places, NEW n \in Nat, NEW p, NEW f, Along(f, bars, places, n, p),
         n + 1 \notin places
  PROVE  Along(f, bars, places, n + 1, p \o <<>>)
<1>1. p \o <<>> = p
  BY DEF Along
<1>2. Len(p) = Rank(places, n + 1)
  BY RankStep DEF Along
<1>3. f \in [1..Len(p) -> 1..(n + 1)]
  <2>1. \A i \in 1..n : i \in 1..(n + 1)
    OBVIOUS
  <2>2. QED
    BY <2>1 DEF Along
<1>4. \A i \in 1..(n + 1) : i \in places => i \in 1..n
  OBVIOUS
<1>5. Along(f, bars, places, n + 1, p)
  BY <1>2, <1>3, <1>4 DEF Along
<1>6. QED
  BY <1>1, <1>5

\* Picking takes the chosen bars, in their order.
LEMMA PickAlong ==
  ASSUME NEW bars \in Seq(BarRecords), NEW places
  PROVE  \E f : Along(f, bars, places, Len(bars), Pick(bars, places))
<1> DEFINE S == {n \in Nat : n <= Len(bars) =>
                   \E f : Along(f, bars, places, n, PickTo(bars, places, n))}
<1>1. 0 \in S
  <2>1. PickTo(bars, places, 0) = <<>>
    <3>1. FlattenSeq(<<>>) = <<>>
      <4>1. <<>> \in Seq(Seq(BarRecords)) /\ <<>> \in Seq(BarRecords)
        OBVIOUS
      <4>2. QED
        BY <4>1, FlattenFacts
    <3>2. [i \in 1..0 |-> IF i \in places THEN <<bars[i]>> ELSE <<>>] = <<>>
      OBVIOUS
    <3>3. QED
      BY <3>1, <3>2 DEF PickTo
  <2>2. Rank(places, 0) = 0
    BY RankStep
  <2>3. Along(<<>>, bars, places, 0, <<>>)
    BY <2>2 DEF Along
  <2>4. QED
    BY <2>1, <2>3
<1>2. ASSUME NEW n \in Nat, n \in S PROVE n + 1 \in S
  <2> SUFFICES ASSUME n + 1 <= Len(bars)
               PROVE  \E f : Along(f, bars, places, n + 1, PickTo(bars, places, n + 1))
    OBVIOUS
  <2>1. PICK f : Along(f, bars, places, n, PickTo(bars, places, n))
    BY <1>2
  <2>2. \A i \in 1..(n + 1) : bars[i] \in BarRecords
    OBVIOUS
  <2>3. PickTo(bars, places, n + 1) =
          PickTo(bars, places, n) \o (IF n + 1 \in places THEN <<bars[n + 1]>> ELSE <<>>)
    BY <2>2, PickStep
  <2>4. CASE n + 1 \in places
    <3>1. bars[n + 1] \in BarRecords
      BY <2>2
    <3>2. QED
      BY <2>1, <2>3, <2>4, <3>1, PickChosen
  <2>5. CASE n + 1 \notin places
    BY <2>1, <2>3, <2>5, PickLeft
  <2>6. QED
    BY <2>4, <2>5
<1>3. Nat \subseteq S
  <2> HIDE DEF S
  <2> QED
    BY <1>1, <1>2, M!SetInduction
<1>4. Len(bars) \in Nat
  OBVIOUS
<1>5. \E f : Along(f, bars, places, Len(bars), PickTo(bars, places, Len(bars)))
  BY <1>3, <1>4
<1>6. QED
  BY <1>5 DEF Pick, PickTo

-----------------------------------------------------------------------------
(* Bars *)

\* Bars in order, each closing after it opens and before the next one does.
BarsOK(bars) ==
  /\ bars \in Seq(BarRecords)
  /\ \A i \in 1..Len(bars) : bars[i].close # None => bars[i].time <= bars[i].close
  /\ \A i, j \in 1..Len(bars) : i < j =>
       /\ bars[i].time < bars[j].time
       /\ bars[i].close # None => bars[i].close <= bars[j].time

\* What is picked from such bars is in order too.
LEMMA PickOK ==
  ASSUME NEW bars, BarsOK(bars), NEW places
  PROVE  BarsOK(Pick(bars, places))
<1>1. PICK p : p = Pick(bars, places)
  OBVIOUS
<1>2. PICK f : Along(f, bars, places, Len(bars), p)
  BY <1>1, PickAlong DEF BarsOK
<1>3. /\ p \in Seq(BarRecords)
      /\ \A k \in 1..Len(p) : f[k] \in 1..Len(bars) /\ p[k] = bars[f[k]]
      /\ \A k, l \in 1..Len(p) : k < l => f[k] < f[l]
  BY <1>2 DEF Along
<1>4. BarsOK(p)
  BY <1>3 DEF BarsOK
<1>5. QED
  BY <1>1, <1>4

\* And so are the first of them.
LEMMA FirstOK ==
  ASSUME NEW bars, BarsOK(bars), NEW count \in Nat \cup {None}
  PROVE  BarsOK(FirstBars(bars, count))
<1>1. CASE count = None
  BY <1>1 DEF FirstBars
<1>2. CASE count # None
  <2>1. PICK n \in Nat : n = Smaller(count, Len(bars)) /\ n <= Len(bars)
    <3>1. bars \in Seq(BarRecords) /\ count \in Nat
      BY <1>2 DEF BarsOK
    <3>2. Len(bars) \in Nat
      BY <3>1
    <3>3. QED
      BY <3>1, <3>2 DEF Smaller
  <2>2. PICK s : s = SubSeq(bars, 1, n)
    OBVIOUS
  <2>3. /\ s \in Seq(BarRecords) /\ Len(s) = n
        /\ \A i \in 1..n : i \in 1..Len(bars) /\ s[i] = bars[i]
    <3>1. bars \in Seq(BarRecords)
      BY DEF BarsOK
    <3>2. QED
      BY <2>1, <2>2, <3>1
  <2>4. BarsOK(s)
    BY <2>3 DEF BarsOK
  <2>5. QED
    BY <1>2, <2>1, <2>2, <2>4 DEF FirstBars
<1>3. QED
  BY <1>1, <1>2

\* The feeds of a world, and what a provider fetches from them.
LEMMA FeedsOK ==
  ASSUME SecurityAssumption, world \in Worlds
  PROVE  /\ BarsOK(world.chart) /\ BarsOK(world.bars) /\ BarsOK(world.lower)
         /\ world.gaps \in BOOLEAN /\ world.lookahead \in BOOLEAN /\ None \notin Int
         /\ world.legacy \in BOOLEAN
         /\ world.count \in Nat \cup {None} /\ Day \in Nat \ {0}
         /\ \A start, end : BarsOK(GetBars(world.bars, start, end, world.count))
<1>1. /\ BarsOK(world.chart) /\ BarsOK(world.bars) /\ BarsOK(world.lower)
      /\ world.gaps \in BOOLEAN /\ world.lookahead \in BOOLEAN /\ None \notin Int
      /\ world.legacy \in BOOLEAN
      /\ world.count \in Nat \cup {None} /\ Day \in Nat \ {0}
  BY DEF SecurityAssumption, BarsOK
<1>2. \A start, end : BarsOK(GetBars(world.bars, start, end, world.count))
  BY <1>1, PickOK, FirstOK DEF GetBars
<1>3. QED
  BY <1>1, <1>2

\* Closing times do not fall, given or inferred.
LEMMA ClosesRise ==
  ASSUME NEW bars, BarsOK(bars), None \notin Int, Day \in Nat \ {0},
         NEW i \in 1..Len(bars)
  PROVE  /\ bars[i].time \in Int
         /\ CloseTime(bars[i]) \in Int /\ bars[i].time <= CloseTime(bars[i])
         /\ EffectiveCloseTime(bars, i) \in Int
         /\ bars[i].time <= EffectiveCloseTime(bars, i)
         /\ \A j \in 1..Len(bars) : i < j =>
              /\ bars[i].time < bars[j].time
              /\ CloseTime(bars[i]) <= bars[j].time
              /\ EffectiveCloseTime(bars, i) <= bars[j].time
<1>1. bars \in Seq(BarRecords) /\ Len(bars) \in Nat
  BY LengthIsNumber DEF BarsOK
<1>2. \A k \in 1..Len(bars) : bars[k].time \in Int /\ bars[k].close \in Int \cup {None}
  <2>1. \A k \in 1..Len(bars) : bars[k] \in BarRecords
    BY <1>1
  <2>2. QED
    BY <2>1 DEF BarRecords
<1>3. /\ CloseTime(bars[i]) \in Int /\ bars[i].time <= CloseTime(bars[i])
      /\ \A j \in 1..Len(bars) : i < j => CloseTime(bars[i]) <= bars[j].time
  BY <1>2 DEF BarsOK, CloseTime
<1>4. CASE bars[i].close # None
  <2>1. EffectiveCloseTime(bars, i) = bars[i].close
    BY <1>4 DEF EffectiveCloseTime
  <2>2. QED
    BY <1>2, <1>3, <1>4, <2>1 DEF BarsOK
<1>5. CASE bars[i].close = None /\ i < Len(bars)
  <2>1. EffectiveCloseTime(bars, i) = bars[i + 1].time - 1
    BY <1>5 DEF EffectiveCloseTime
  <2>2. i + 1 \in 1..Len(bars) /\ i < i + 1
    BY <1>1, <1>5
  <2>3. bars[i + 1].time \in Int /\ bars[i].time < bars[i + 1].time
    BY <1>2, <2>2 DEF BarsOK
  <2>4. ASSUME NEW j \in 1..Len(bars), i < j
        PROVE  bars[i + 1].time <= bars[j].time
    <3>1. CASE j = i + 1
      BY <2>3, <3>1
    <3>2. CASE i + 1 < j
      BY <1>2, <2>2, <2>3, <3>2 DEF BarsOK
    <3>3. QED
      BY <2>4, <3>1, <3>2
  <2>5. EffectiveCloseTime(bars, i) \in Int /\ bars[i].time <= EffectiveCloseTime(bars, i)
    BY <1>2, <2>1, <2>3
  <2>6. ASSUME NEW j \in 1..Len(bars), i < j
        PROVE  EffectiveCloseTime(bars, i) <= bars[j].time
    <3>1. bars[i + 1].time <= bars[j].time /\ bars[j].time \in Int
      BY <1>2, <2>4, <2>6
    <3>2. QED
      BY <2>1, <2>3, <3>1
  <2>7. QED
    BY <1>2, <1>3, <2>5, <2>6 DEF BarsOK
<1>6. CASE bars[i].close = None /\ i = Len(bars)
  <2>1. EffectiveCloseTime(bars, i) =
          bars[i].time - 1 + (IF i > 1 THEN bars[i].time - bars[i - 1].time ELSE Day)
    BY <1>6 DEF EffectiveCloseTime
  <2>2. i > 1 => i - 1 \in 1..Len(bars) /\ i - 1 < i
    BY <1>1
  <2>3. i > 1 => bars[i - 1].time \in Int /\ bars[i - 1].time < bars[i].time
    BY <1>2, <2>2 DEF BarsOK
  <2>4. EffectiveCloseTime(bars, i) \in Int /\ bars[i].time <= EffectiveCloseTime(bars, i)
    <3>1. CASE i > 1
      BY <1>2, <2>1, <2>3, <3>1
    <3>2. CASE ~(i > 1)
      BY <1>2, <2>1, <3>2
    <3>3. QED
      BY <3>1, <3>2
  <2>5. \A j \in 1..Len(bars) : ~(i < j)
    BY <1>1, <1>6
  <2>6. QED
    BY <1>2, <1>3, <2>4, <2>5
<1>7. QED
  BY <1>1, <1>2, <1>4, <1>5, <1>6

-----------------------------------------------------------------------------
(* The cursor and what is promised *)

\* The loop stops at the first place that is not passed, or behind the last one.
LEMMA SkipStops ==
  ASSUME NEW n \in Nat, NEW cursor \in 1..(n + 1), NEW passed
  PROVE  /\ Skip(cursor, n, passed) \in cursor..(n + 1)
         /\ \A i \in cursor..(Skip(cursor, n, passed) - 1) : i \in passed
         /\ Skip(cursor, n, passed) <= n => Skip(cursor, n, passed) \notin passed
<1> DEFINE Stops(k) == cursor..(k - 1) \subseteq passed /\ (k <= n => k \notin passed)
<1>1. SUFFICES \E k \in cursor..(n + 1) : Stops(k)
  <2>1. PICK k \in cursor..(n + 1) : k = Skip(cursor, n, passed) /\ Stops(k)
    BY <1>1 DEF Skip
  <2>2. QED
    BY <2>1
<1>2. SUFFICES ASSUME \A k \in cursor..(n + 1) : ~Stops(k)
               PROVE  FALSE
  OBVIOUS
<1> DEFINE S == {m \in Nat : cursor + m <= n + 1 => cursor..(cursor + m - 1) \subseteq passed}
<1>3. 0 \in S
  <2>1. cursor..(cursor + 0 - 1) = {}
    OBVIOUS
  <2>2. QED
    BY <2>1
<1>4. ASSUME NEW m \in Nat, m \in S PROVE m + 1 \in S
  <2> SUFFICES ASSUME cursor + (m + 1) <= n + 1
               PROVE  cursor..(cursor + (m + 1) - 1) \subseteq passed
    OBVIOUS
  <2>1. cursor + m \in cursor..(n + 1) /\ cursor + m <= n
    OBVIOUS
  <2>2. cursor..(cursor + m - 1) \subseteq passed
    BY <1>4, <2>1
  <2>3. cursor + m \in passed
    BY <1>2, <2>1, <2>2
  <2>4. \A i \in cursor..(cursor + (m + 1) - 1) : i \in cursor..(cursor + m - 1) \/ i = cursor + m
    OBVIOUS
  <2>5. QED
    BY <2>2, <2>3, <2>4
<1>5. Nat \subseteq S
  <2> HIDE DEF S
  <2> QED
    BY <1>3, <1>4, M!SetInduction
<1>6. PICK m \in Nat : cursor + m = n + 1
  <2>1. n + 1 - cursor \in Nat /\ cursor + (n + 1 - cursor) = n + 1
    OBVIOUS
  <2>2. QED
    BY <2>1
<1>7. n + 1 \in cursor..(n + 1) /\ ~(n + 1 <= n)
  OBVIOUS
<1>8. cursor..(n + 1 - 1) \subseteq passed
  BY <1>5, <1>6
<1>9. QED
  BY <1>2, <1>7, <1>8

\* An answer for chart bar c is the value of the last bar shown, if there is one.
Pledge(bars, values, c, answered) ==
  \/ Shown(bars, c) = {} /\ answered = NA
  \/ \E i \in 1..Len(values) : /\ i \in Shown(bars, c)
                              /\ \A j \in Shown(bars, c) : j <= i
                              /\ answered = values[i]

\* When the bars shown are those from one place to before another, the pledge is the
\* value of the last of them.
LEMMA PledgedLast ==
  ASSUME NEW bars, NEW values, NEW c, NEW low \in Nat, NEW high \in Nat, NEW answered,
         \A i : i \in Shown(bars, c) <=> i \in low..(high - 1),
         low < high => high - 1 \in 1..Len(values),
         answered = IF low < high THEN values[high - 1] ELSE NA
  PROVE  Pledge(bars, values, c, answered)
<1>1. PICK shown : shown = Shown(bars, c)
  OBVIOUS
<1>2. shown = low..(high - 1)
  BY <1>1
<1>3. CASE low < high
  <2>1. high - 1 \in shown /\ \A j \in shown : j <= high - 1
    BY <1>2, <1>3
  <2>2. QED
    BY <1>1, <1>3, <2>1 DEF Pledge
<1>4. CASE ~(low < high)
  <2>1. shown = {}
    BY <1>2, <1>4
  <2>2. QED
    BY <1>1, <1>4, <2>1 DEF Pledge
<1>5. QED
  BY <1>3, <1>4

\* What is shown are bars, by their places.
LEMMA ShownPlaces ==
  ASSUME NEW bars, NEW c
  PROVE  Shown(bars, c) \subseteq Int
<1>1. Shown(bars, c) \subseteq 1..Len(bars)
  BY Zenon DEF Shown
<1>2. QED
  BY <1>1

\* The promise is a fresh child's value on the last bar shown, if there is one.
LEMMA PromisedLast ==
  ASSUME NEW bars, NEW c, Shown(bars, c) \subseteq Int
  PROVE  /\ Shown(bars, c) = {} => Promised(bars, c) = NA
         /\ \A i \in Shown(bars, c) :
              (\A j \in Shown(bars, c) : j <= i) => Promised(bars, c) = Fresh(bars, i)
<1>1. Shown(bars, c) = {} => Promised(bars, c) = NA
  BY DEF Promised
<1>2. ASSUME NEW i \in Shown(bars, c), \A j \in Shown(bars, c) : j <= i
      PROVE  Promised(bars, c) = Fresh(bars, i)
  <2>1. PICK last : last = CHOOSE k \in Shown(bars, c) : \A j \in Shown(bars, c) : j <= k
    OBVIOUS
  <2>2. last \in Shown(bars, c) /\ \A j \in Shown(bars, c) : j <= last
    BY <1>2, <2>1
  <2>3. last \in Int /\ i \in Int /\ last <= i /\ i <= last
    BY <1>2, <2>2
  <2>4. last = i
    BY <2>3
  <2>5. Promised(bars, c) = Fresh(bars, last)
    BY <1>2, <2>1 DEF Promised
  <2>6. QED
    BY <2>4, <2>5
<1>3. QED
  BY <1>1, <1>2

-----------------------------------------------------------------------------
(* What the cache holds *)

Answers == {NA} \cup Tellings

Entries ==
  [bars : Seq(BarRecords), values : Seq(Answers), begun : Seq(BarRecords),
   ended : Seq(BarRecords), fed : Seq(BarRecords), merged : Seq(Answers), cursor : Nat, held : Answers]

\* The first values of a child are those of these bars and their series, and, where no
\* expression has raised, all that a fresh child tells.
Valued(bars, values, v, intact) ==
  \A i \in 1..v : /\ Series(values[i]) = Series(Fresh(bars, i))
                  /\ intact = TRUE => values[i] = Fresh(bars, i)

\* Indicator states are fed the bars ended, in a child where none raised; in any other
\* perhaps a bar more for each raise.
FedOK(begun, ended, fed) ==
  /\ Len(ended) <= Len(fed) /\ Len(fed) <= Len(begun)
  /\ begun = ended => fed = ended

\* The child has evaluated the first bars of the entry, one value each.
ChildOK(entry) ==
  /\ Len(entry.values) <= Len(entry.bars)
  /\ entry.ended = SubSeq(entry.bars, 1, Len(entry.values))
  /\ Valued(entry.bars, entry.values, Len(entry.values), Intact(entry))
  /\ FedOK(entry.begun, entry.ended, entry.fed)

\* What a merge compares with the chart bar, in each mode.
Stamp(bars, i) == IF world.lookahead THEN bars[i].time ELSE CloseTime(bars[i])

Reached(bars, i, c) ==
  /\ bars[i].time <= c.time
  /\ ~world.lookahead => EffectiveCloseTime(bars, i) <= CloseTime(c)

\* Chart bars merged so far have what the mode promises of them; the bars before the
\* cursor are behind, or reached by, all chart bars to come; and the held value is
\* that of the bar before the cursor.
MergeOK(entry) ==
  LET bars  == entry.bars
      later == (Len(entry.merged) + 1)..Len(world.chart)
  IN  /\ \A k \in 1..Len(entry.merged) :
           Pledge(bars, entry.values, world.chart[k], entry.merged[k])
      /\ entry.cursor \in 1..(Len(entry.values) + 1)
      /\ \A i \in 1..(entry.cursor - 1), k \in later :
           IF world.gaps THEN Stamp(bars, i) < world.chart[k].time
                         ELSE Reached(bars, i, world.chart[k])
      /\ ~world.gaps =>
           entry.held = IF entry.cursor = 1 THEN NA ELSE entry.values[entry.cursor - 1]

EntryOK(key, entry, begun) ==
  /\ entry \in Entries
  /\ entry.bars = GetBars(world.bars, key.start, key.end, world.count)
  /\ ChildOK(entry) /\ MergeOK(entry)
  /\ Len(entry.merged) <= begun

CacheOK(entries, begun) == \A key \in DOMAIN entries : EntryOK(key, entries[key], begun)

\* The last answer is told of the chart bar the call was made on, or of the one before.
AnswerOK ==
  /\ answer.chart \in 0..Len(world.chart)
  /\ answer.chart = 0 => answer.value = NA
  /\ answer.chart > 0 => answer.index \in (answer.chart - 2)..(answer.chart - 1)

SecurityInv ==
  /\ world \in Worlds /\ chart \in 0..Len(world.chart)
  /\ CacheOK(cache, chart)
  /\ saved # <<>> =>
       /\ saved[1].chart \in 0..Len(world.chart)
       /\ CacheOK(saved[1].cache, saved[1].chart)
  /\ AnswersFromScratch /\ AnswerOK

-----------------------------------------------------------------------------
(* One chart bar is merged *)

\* Stamps do not fall.
LEMMA StampsRise ==
  ASSUME NEW bars, BarsOK(bars), None \notin Int, Day \in Nat \ {0},
         NEW i \in 1..Len(bars)
  PROVE  /\ Stamp(bars, i) \in Int
         /\ \A j \in 1..Len(bars) : i <= j => Stamp(bars, i) <= Stamp(bars, j)
<1>1. /\ bars[i].time \in Int /\ CloseTime(bars[i]) \in Int
      /\ \A j \in 1..Len(bars) : i < j =>
           bars[i].time < bars[j].time /\ CloseTime(bars[i]) <= bars[j].time
  BY ClosesRise
<1>2. \A j \in 1..Len(bars) : bars[j].time \in Int /\ CloseTime(bars[j]) \in Int
                              /\ bars[j].time <= CloseTime(bars[j])
  BY ClosesRise
<1>3. Stamp(bars, i) \in Int
  BY <1>1 DEF Stamp
<1>4. ASSUME NEW j \in 1..Len(bars), i <= j
      PROVE  Stamp(bars, i) <= Stamp(bars, j)
  <2>1. CASE i = j
    BY <1>3, <2>1
  <2>2. CASE i < j
    BY <1>1, <1>2, <2>2 DEF Stamp
  <2>3. QED
    BY <1>4, <2>1, <2>2
<1>5. QED
  BY <1>3, <1>4

\* The bars the three loops pass.
Behind(bars, c, n) == {i \in 1..n : Stamp(bars, i) < c.time}
Upto(bars, c, n) == {i \in 1..n : Stamp(bars, i) <= CloseTime(c)}
Got(bars, c, n) == {i \in 1..n : Reached(bars, i, c)}

\* The two stops of the loops, and what lies before and between them.
GapStops(bars, c, n, cursor, first, beyond) ==
  /\ first \in cursor..(n + 1) /\ beyond \in first..(n + 1)
  /\ \A i \in 1..(first - 1) : Stamp(bars, i) < c.time
  /\ \A i : i \in Shown(bars, c) <=> i \in first..(beyond - 1)

\* With gaps, the bars shown are those between the two stops of the loops.
LEMMA GapShown ==
  ASSUME NEW bars, BarsOK(bars), None \notin Int, Day \in Nat \ {0},
         world.gaps = TRUE, world.lookahead \in BOOLEAN,
         NEW c, c.time \in Int, CloseTime(c) \in Int,
         NEW n, n = Len(bars), NEW cursor \in 1..(n + 1),
         \A i \in 1..(cursor - 1) : Stamp(bars, i) < c.time,
         NEW first, first = Skip(cursor, n, Behind(bars, c, n)),
         NEW beyond, beyond = Skip(first, n, Upto(bars, c, n))
  PROVE  GapStops(bars, c, n, cursor, first, beyond)
<1>0. n \in Nat
  BY LengthIsNumber DEF BarsOK
<1>1. /\ first \in cursor..(n + 1)
      /\ \A i \in cursor..(first - 1) : i \in 1..n /\ Stamp(bars, i) < c.time
      /\ first <= n => ~(Stamp(bars, first) < c.time)
  <2>1. /\ first \in cursor..(n + 1)
        /\ \A i \in cursor..(first - 1) : i \in Behind(bars, c, n)
        /\ first <= n => first \notin Behind(bars, c, n)
    BY <1>0, SkipStops
  <2>2. first \in 1..(n + 1) /\ (first <= n => first \in 1..n)
    BY <1>0, <2>1
  <2>3. QED
    BY <1>0, <2>1, <2>2 DEF Behind
<1>2. first \in 1..(n + 1)
  BY <1>0, <1>1
<1>3. /\ beyond \in first..(n + 1)
      /\ \A i \in first..(beyond - 1) : i \in 1..n /\ Stamp(bars, i) <= CloseTime(c)
      /\ beyond <= n => ~(Stamp(bars, beyond) <= CloseTime(c))
  <2>1. /\ beyond \in first..(n + 1)
        /\ \A i \in first..(beyond - 1) : i \in Upto(bars, c, n)
        /\ beyond <= n => beyond \notin Upto(bars, c, n)
    BY <1>0, <1>2, SkipStops
  <2>2. beyond \in 1..(n + 1)
    BY <1>0, <1>2, <2>1
  <2>3. QED
    BY <1>0, <2>1, <2>2 DEF Upto
<1>4. \A i \in 1..(first - 1) : Stamp(bars, i) < c.time
  BY <1>0, <1>1
<1>5. \A i : i \in Shown(bars, c) <=>
              i \in 1..n /\ c.time <= Stamp(bars, i) /\ Stamp(bars, i) <= CloseTime(c)
  <2>1. \A i \in 1..n : Stamp(bars, i) \in Int
    BY StampsRise
  <2>2. CASE world.lookahead
    <3>1. Shown(bars, c) = {i \in 1..n : bars[i].time \in c.time..CloseTime(c)}
      BY <2>2 DEF Shown
    <3>2. \A i \in 1..n : Stamp(bars, i) = bars[i].time
      BY <2>2 DEF Stamp
    <3>3. QED
      BY <2>1, <3>1, <3>2
  <2>3. CASE ~world.lookahead
    <3>1. Shown(bars, c) = {i \in 1..n : CloseTime(bars[i]) \in c.time..CloseTime(c)}
      BY <2>3 DEF Shown
    <3>2. \A i \in 1..n : Stamp(bars, i) = CloseTime(bars[i])
      BY <2>3 DEF Stamp
    <3>3. QED
      BY <2>1, <3>1, <3>2
  <2>4. QED
    BY <2>2, <2>3
<1>6. \A i, j \in 1..n : i <= j => Stamp(bars, i) <= Stamp(bars, j)
  BY StampsRise
<1>7. \A i \in 1..n : Stamp(bars, i) \in Int
  BY StampsRise
<1>8. ASSUME NEW i, i \in Shown(bars, c) PROVE i \in first..(beyond - 1)
  <2>1. i \in 1..n /\ c.time <= Stamp(bars, i) /\ Stamp(bars, i) <= CloseTime(c)
        /\ Stamp(bars, i) \in Int
    BY <1>5, <1>7, <1>8
  <2>2. first <= i
    BY <1>0, <1>1, <1>4, <2>1
  <2>3. i < beyond
    <3>1. SUFFICES ASSUME beyond <= i PROVE FALSE
      BY <1>0, <1>2, <1>3, <2>1
    <3>2. beyond \in 1..n
      BY <1>0, <1>2, <1>3, <2>1, <3>1
    <3>3. Stamp(bars, beyond) <= Stamp(bars, i) /\ Stamp(bars, beyond) \in Int
      BY <1>6, <1>7, <2>1, <3>1, <3>2
    <3>4. QED
      BY <1>3, <2>1, <3>2, <3>3
  <2>4. QED
    BY <1>0, <1>2, <1>3, <2>1, <2>2, <2>3
<1>9. ASSUME NEW i, i \in first..(beyond - 1) PROVE i \in Shown(bars, c)
  <2>1. i \in 1..n /\ Stamp(bars, i) <= CloseTime(c) /\ first \in 1..n /\ first <= i
    BY <1>0, <1>2, <1>3, <1>9
  <2>2. Stamp(bars, first) <= Stamp(bars, i) /\ Stamp(bars, first) \in Int
        /\ Stamp(bars, i) \in Int
    BY <1>6, <1>7, <2>1
  <2>3. ~(Stamp(bars, first) < c.time)
    BY <1>1, <2>1
  <2>4. c.time <= Stamp(bars, i)
    BY <2>2, <2>3
  <2>5. QED
    BY <1>5, <2>1, <2>4
<1>10. QED
  BY <1>1, <1>3, <1>4, <1>8, <1>9 DEF GapStops

\* Without gaps, a bar is reached after the ones before it.
LEMMA ReachedDown ==
  ASSUME NEW bars, BarsOK(bars), None \notin Int, Day \in Nat \ {0},
         NEW c, c.time \in Int, CloseTime(c) \in Int,
         NEW i \in 1..Len(bars), NEW j \in 1..Len(bars), i <= j, Reached(bars, j, c)
  PROVE  Reached(bars, i, c)
<1>1. CASE i = j
  BY <1>1
<1>2. CASE i < j
  <2>1. /\ bars[i].time \in Int /\ EffectiveCloseTime(bars, i) \in Int
        /\ bars[i].time < bars[j].time /\ EffectiveCloseTime(bars, i) <= bars[j].time
    BY <1>2, ClosesRise
  <2>2. /\ bars[j].time \in Int /\ EffectiveCloseTime(bars, j) \in Int
        /\ bars[j].time <= EffectiveCloseTime(bars, j)
    BY ClosesRise
  <2>3. QED
    BY <2>1, <2>2 DEF Reached
<1>3. QED
  BY <1>1, <1>2 DEF BarsOK

\* The stop of the loop and what lies before it.
HeldStop(bars, c, n, cursor, next) ==
  /\ next \in cursor..(n + 1)
  /\ \A i \in 1..(next - 1) : Reached(bars, i, c)
  /\ \A i : i \in Shown(bars, c) <=> i \in 1..(next - 1)

\* Without gaps, the bars shown are all before the stop of the loop.
LEMMA HeldShown ==
  ASSUME NEW bars, BarsOK(bars), None \notin Int, Day \in Nat \ {0},
         world.gaps = FALSE, world.lookahead \in BOOLEAN,
         NEW c, c.time \in Int, CloseTime(c) \in Int,
         NEW n, n = Len(bars), NEW cursor \in 1..(n + 1),
         \A i \in 1..(cursor - 1) : Reached(bars, i, c),
         NEW next, next = Skip(cursor, n, Got(bars, c, n))
  PROVE  HeldStop(bars, c, n, cursor, next)
<1>0. n \in Nat
  BY LengthIsNumber DEF BarsOK
<1>1. /\ next \in cursor..(n + 1)
      /\ \A i \in cursor..(next - 1) : i \in 1..n /\ Reached(bars, i, c)
      /\ next <= n => ~Reached(bars, next, c)
  <2>1. /\ next \in cursor..(n + 1)
        /\ \A i \in cursor..(next - 1) : i \in Got(bars, c, n)
        /\ next <= n => next \notin Got(bars, c, n)
    BY <1>0, SkipStops
  <2>2. next \in 1..(n + 1)
    BY <1>0, <2>1
  <2>3. QED
    BY <1>0, <2>1, <2>2 DEF Got
<1>2. \A i \in 1..(next - 1) : Reached(bars, i, c)
  BY <1>0, <1>1
<1>3. \A i : i \in Shown(bars, c) <=> i \in 1..n /\ Reached(bars, i, c)
  <2>1. CASE world.lookahead
    BY <2>1 DEF Shown, Reached
  <2>2. CASE ~world.lookahead
    BY <2>2 DEF Shown, Reached
  <2>3. QED
    BY <2>1, <2>2
<1>4. ASSUME NEW i, i \in Shown(bars, c) PROVE i \in 1..(next - 1)
  <2>1. i \in 1..n /\ Reached(bars, i, c)
    BY <1>3, <1>4
  <2>2. i < next
    <3>1. SUFFICES ASSUME next <= i PROVE FALSE
      BY <1>0, <1>1, <2>1
    <3>2. next \in 1..n
      BY <1>0, <1>1, <2>1, <3>1
    <3>3. Reached(bars, next, c)
      BY <2>1, <3>1, <3>2, ReachedDown
    <3>4. QED
      BY <1>1, <3>2, <3>3
  <2>3. QED
    BY <1>0, <1>1, <2>1, <2>2
<1>5. ASSUME NEW i, i \in 1..(next - 1) PROVE i \in Shown(bars, c)
  <2>1. i \in 1..n
    BY <1>0, <1>1, <1>5
  <2>2. QED
    BY <1>2, <1>3, <1>5, <2>1
<1>6. QED
  BY <1>1, <1>2, <1>4, <1>5 DEF HeldStop

\* What is used of the world below.
WorldOK ==
  /\ BarsOK(world.chart) /\ None \notin Int /\ Day \in Nat \ {0}
  /\ world.gaps \in BOOLEAN /\ world.lookahead \in BOOLEAN

\* An entry whose child has seen all its bars, ready to be merged.
Mergeable(entry) ==
  /\ entry \in Entries /\ BarsOK(entry.bars)
  /\ ChildOK(entry) /\ Len(entry.values) = Len(entry.bars)
  /\ MergeOK(entry)

\* What a merge of one bar leaves, and what it adds.
MergedOne(entry, next) ==
  /\ Mergeable(next)
  /\ Len(next.merged) = Len(entry.merged) + 1
  /\ next.bars = entry.bars

\* The fields of an entry have these types.
LEMMA EntryFields ==
  ASSUME NEW entry \in Entries
  PROVE  /\ entry.bars \in Seq(BarRecords) /\ entry.values \in Seq(Answers)
         /\ entry.begun \in Seq(BarRecords) /\ entry.ended \in Seq(BarRecords)
         /\ entry.fed \in Seq(BarRecords) /\ Len(entry.fed) \in Nat /\ Len(entry.begun) \in Nat
         /\ entry.merged \in Seq(Answers) /\ entry.cursor \in Nat /\ entry.held \in Answers
         /\ Len(entry.bars) \in Nat /\ Len(entry.values) \in Nat
         /\ Len(entry.merged) \in Nat /\ Len(entry.ended) \in Nat
<1>1. /\ entry.bars \in Seq(BarRecords) /\ entry.values \in Seq(Answers)
      /\ entry.begun \in Seq(BarRecords) /\ entry.ended \in Seq(BarRecords)
      /\ entry.fed \in Seq(BarRecords)
      /\ entry.merged \in Seq(Answers) /\ entry.cursor \in Nat /\ entry.held \in Answers
  BY DEF Entries
<1>2. QED
  BY <1>1, LengthIsNumber

\* The answers so far and one more, all as promised.
LEMMA OneMore ==
  ASSUME NEW bars, NEW values, NEW merged \in Seq(Answers), NEW answered \in Answers,
         \A k \in 1..Len(merged) : Pledge(bars, values, world.chart[k], merged[k]),
         Pledge(bars, values, world.chart[Len(merged) + 1], answered)
  PROVE  /\ Append(merged, answered) \in Seq(Answers)
         /\ Len(Append(merged, answered)) = Len(merged) + 1
         /\ \A k \in 1..Len(Append(merged, answered)) :
              Pledge(bars, values, world.chart[k], Append(merged, answered)[k])
<1>1. PICK more : more = Append(merged, answered)
  OBVIOUS
<1>2. /\ more \in Seq(Answers) /\ Len(more) = Len(merged) + 1 /\ Len(merged) \in Nat
      /\ more[Len(merged) + 1] = answered /\ \A k \in 1..Len(merged) : more[k] = merged[k]
  BY <1>1
<1>3. ASSUME NEW k \in 1..Len(more)
      PROVE  Pledge(bars, values, world.chart[k], more[k])
  <2>1. k \in 1..Len(merged) \/ k = Len(merged) + 1
    BY <1>2
  <2>2. QED
    BY <1>2, <2>1
<1>4. QED
  BY <1>1, <1>2, <1>3

\* An entry after a merge of one bar.
Moved(entry, cursor, held, merged) ==
  [entry EXCEPT !.cursor = cursor, !.held = held, !.merged = merged]

MovedOK(entry, cursor, held, merged, next) ==
  /\ next \in Entries
  /\ next.cursor = cursor /\ next.held = held /\ next.merged = merged
  /\ next.bars = entry.bars /\ next.values = entry.values
  /\ next.ended = entry.ended /\ next.begun = entry.begun /\ next.fed = entry.fed

\* Only the cursor, the answers and the held value have moved.
LEMMA EntryMoved ==
  ASSUME NEW entry \in Entries, NEW cursor \in Nat, NEW held \in Answers,
         NEW merged \in Seq(Answers)
  PROVE  MovedOK(entry, cursor, held, merged, Moved(entry, cursor, held, merged))
BY DEF MovedOK, Entries, Moved

\* An entry moved that way is merged by one bar more.
LEMMA MovedIsMerged ==
  ASSUME NEW entry, Mergeable(entry), NEW c, c = world.chart[Len(entry.merged) + 1],
         NEW cursor \in 1..(Len(entry.bars) + 1), NEW held \in Answers, NEW value \in Answers,
         Pledge(entry.bars, entry.values, c, value),
         \A i \in 1..(cursor - 1), k \in (Len(entry.merged) + 2)..Len(world.chart) :
           IF world.gaps THEN Stamp(entry.bars, i) < world.chart[k].time
                         ELSE Reached(entry.bars, i, world.chart[k]),
         ~world.gaps => held = IF cursor = 1 THEN NA ELSE entry.values[cursor - 1],
         NEW next,
         next = Moved(entry, cursor, held, Append(entry.merged, value))
  PROVE  MergedOne(entry, next)
<1>1. /\ entry \in Entries /\ BarsOK(entry.bars) /\ ChildOK(entry)
      /\ Len(entry.values) = Len(entry.bars) /\ MergeOK(entry)
  BY DEF Mergeable
<1>2. /\ entry.merged \in Seq(Answers) /\ Len(entry.merged) \in Nat
      /\ Len(entry.bars) \in Nat
  BY <1>1, EntryFields
<1>3. \A k \in 1..Len(entry.merged) :
        Pledge(entry.bars, entry.values, world.chart[k], entry.merged[k])
  BY <1>1 DEF MergeOK
<1>4. PICK merged : merged = Append(entry.merged, value)
  OBVIOUS
<1>5. /\ merged \in Seq(Answers) /\ Len(merged) = Len(entry.merged) + 1
      /\ \A k \in 1..Len(merged) :
           Pledge(entry.bars, entry.values, world.chart[k], merged[k])
  BY <1>2, <1>3, <1>4, OneMore
<1>6. cursor \in Nat
  BY <1>2
<1>7. /\ next \in Entries
      /\ next.cursor = cursor /\ next.held = held /\ next.merged = merged
      /\ next.bars = entry.bars /\ next.values = entry.values
      /\ next.ended = entry.ended /\ next.begun = entry.begun /\ next.fed = entry.fed
  <2>1. next = Moved(entry, cursor, held, merged)
    BY <1>4
  <2>2. MovedOK(entry, cursor, held, merged, next)
    BY <1>1, <1>5, <1>6, <2>1, EntryMoved
  <2>3. QED
    BY <2>2 DEF MovedOK
<1>8. ChildOK(next) /\ Len(next.values) = Len(next.bars)
  BY <1>1, <1>7 DEF ChildOK, Intact
<1>9. Len(next.merged) + 1 = Len(entry.merged) + 2
  BY <1>2, <1>5, <1>7
<1>10. MergeOK(next)
  BY <1>1, <1>5, <1>7, <1>9 DEF MergeOK
<1>11. QED
  BY <1>1, <1>5, <1>7, <1>8, <1>10 DEF MergedOne, Mergeable

\* What the child answered for a bar is an answer.
LEMMA ValueFits ==
  ASSUME NEW entry, Mergeable(entry), NEW i \in 1..Len(entry.bars)
  PROVE  entry.values[i] \in Answers /\ i \in 1..Len(entry.values)
<1>1. /\ entry \in Entries /\ Len(entry.values) = Len(entry.bars)
  BY DEF Mergeable
<1>2. entry.values \in Seq(Answers)
  BY <1>1, EntryFields
<1>3. QED
  BY <1>1, <1>2

\* The bars of the chart, and those after one of them.
LEMMA ChartRises ==
  ASSUME WorldOK, NEW m \in 1..Len(world.chart)
  PROVE  /\ world.chart[m].time \in Int /\ CloseTime(world.chart[m]) \in Int
         /\ \A k \in (m + 1)..Len(world.chart) :
              /\ world.chart[m].time < world.chart[k].time
              /\ CloseTime(world.chart[m]) <= CloseTime(world.chart[k])
              /\ world.chart[k].time \in Int /\ CloseTime(world.chart[k]) \in Int
<1>1. BarsOK(world.chart) /\ None \notin Int /\ Day \in Nat \ {0}
  BY DEF WorldOK
<1>2. PICK bars : bars = world.chart
  OBVIOUS
<1>3. PICK n \in Nat : n = Len(bars)
  BY <1>1, <1>2, LengthIsNumber DEF BarsOK
<1>4. ASSUME NEW k \in (m + 1)..n
      PROVE  /\ bars[m].time < bars[k].time /\ CloseTime(bars[m]) <= CloseTime(bars[k])
             /\ bars[k].time \in Int /\ CloseTime(bars[k]) \in Int
  <2>1. k \in 1..n /\ m < k /\ m \in 1..n
    BY <1>2, <1>3
  <2>2. /\ bars[m].time < bars[k].time /\ CloseTime(bars[m]) <= bars[k].time
        /\ CloseTime(bars[m]) \in Int
    BY <1>1, <1>2, <1>3, <2>1, ClosesRise
  <2>3. bars[k].time \in Int /\ CloseTime(bars[k]) \in Int /\ bars[k].time <= CloseTime(bars[k])
    BY <1>1, <1>2, <1>3, <2>1, ClosesRise
  <2>4. QED
    BY <2>2, <2>3
<1>5. bars[m].time \in Int /\ CloseTime(bars[m]) \in Int
  BY <1>1, <1>2, ClosesRise
<1>6. QED
  BY <1>2, <1>3, <1>4, <1>5

\* gaps_on: the merge of one bar gives what the mode promises of it.
LEMMA GapMerged ==
  ASSUME WorldOK, world.gaps = TRUE, NEW entry, Mergeable(entry),
         Len(entry.merged) < Len(world.chart),
         NEW c, c = world.chart[Len(entry.merged) + 1]
  PROVE  MergedOne(entry, MergeGap(entry, c))
<1>1. /\ entry \in Entries /\ BarsOK(entry.bars) /\ MergeOK(entry)
      /\ Len(entry.values) = Len(entry.bars)
  BY DEF Mergeable
<1>2. PICK m \in Nat : m = Len(entry.merged) + 1
  BY <1>1, EntryFields
<1>3. m \in 1..Len(world.chart)
  <2>1. Len(world.chart) \in Nat /\ Len(entry.merged) \in Nat
    BY <1>1, EntryFields, LengthIsNumber DEF WorldOK, BarsOK
  <2>2. QED
    BY <1>2, <2>1
<1>4. /\ c.time \in Int /\ CloseTime(c) \in Int
      /\ \A k \in (m + 1)..Len(world.chart) : c.time < world.chart[k].time
                                              /\ world.chart[k].time \in Int
  BY <1>2, <1>3, ChartRises
<1>5. PICK bars, n, cursor : bars = entry.bars /\ n = Len(entry.bars) /\ cursor = entry.cursor
  OBVIOUS
<1>6. n \in Nat /\ cursor \in 1..(n + 1)
  BY <1>1, <1>5, EntryFields DEF MergeOK
<1>7. \A i \in 1..(cursor - 1) : Stamp(bars, i) < c.time
  <2>1. \A i \in 1..(entry.cursor - 1), k \in (Len(entry.merged) + 1)..Len(world.chart) :
          Stamp(entry.bars, i) < world.chart[k].time
    BY <1>1 DEF MergeOK
  <2>2. m \in (Len(entry.merged) + 1)..Len(world.chart)
    BY <1>2, <1>3
  <2>3. QED
    BY <1>2, <1>5, <2>1, <2>2
<1>8. PICK first : first = Skip(cursor, n, Behind(bars, c, n))
  OBVIOUS
<1>9. PICK beyond : beyond = Skip(first, n, Upto(bars, c, n))
  OBVIOUS
<1>10. /\ first \in cursor..(n + 1) /\ beyond \in first..(n + 1)
       /\ \A i \in 1..(first - 1) : Stamp(bars, i) < c.time
       /\ \A i : i \in Shown(bars, c) <=> i \in first..(beyond - 1)
  <2>1. /\ BarsOK(bars) /\ None \notin Int /\ Day \in Nat \ {0}
        /\ world.lookahead \in BOOLEAN /\ c.time \in Int /\ CloseTime(c) \in Int
        /\ n = Len(bars)
    BY <1>1, <1>4, <1>5 DEF WorldOK
  <2>2. GapStops(bars, c, n, cursor, first, beyond)
    BY <1>6, <1>7, <1>8, <1>9, <2>1, GapShown
  <2>3. QED
    BY <2>2 DEF GapStops
<1>11. PICK value : value = IF beyond > first THEN entry.values[beyond - 1] ELSE NA
  OBVIOUS
<1>12. /\ first \in Nat /\ beyond \in Nat
       /\ first < beyond => /\ beyond - 1 \in 1..Len(entry.values)
                            /\ entry.values[beyond - 1] \in Answers
  <2>1. first \in Nat /\ beyond \in Nat
    BY <1>6, <1>10
  <2>2. first < beyond => beyond - 1 \in 1..n
    BY <1>6, <1>10
  <2>3. QED
    BY <1>5, <2>1, <2>2, ValueFits
<1>13. value \in Answers /\ Pledge(bars, entry.values, c, value)
  <2>1. value = IF first < beyond THEN entry.values[beyond - 1] ELSE NA
    BY <1>11, <1>12
  <2>2. value \in Answers
    BY <1>12, <2>1 DEF Answers
  <2>3. QED
    BY <1>10, <1>12, <2>1, <2>2, PledgedLast
<1>14. MergeGap(entry, c) = Moved(entry, first, entry.held, Append(entry.merged, value))
  <2>1. MergeGap(entry, c) = [entry EXCEPT !.cursor = first,
                                           !.merged = Append(entry.merged, value)]
    BY <1>1, <1>5, <1>8, <1>9, <1>11 DEF MergeGap, Stamp, Behind, Upto
  <2>2. QED
    BY <1>1, <2>1 DEF Entries, Moved
<1>15. first \in 1..(Len(entry.bars) + 1) /\ entry.held \in Answers
  BY <1>1, <1>5, <1>6, <1>10, EntryFields
<1>16. ASSUME NEW i \in 1..(first - 1), NEW k \in (Len(entry.merged) + 2)..Len(world.chart)
       PROVE  Stamp(entry.bars, i) < world.chart[k].time
  <2>1. k \in (m + 1)..Len(world.chart)
    BY <1>1, <1>2, EntryFields
  <2>2. c.time < world.chart[k].time /\ world.chart[k].time \in Int
    BY <1>4, <2>1
  <2>3. i \in 1..Len(bars)
    BY <1>5, <1>6, <1>10
  <2>4. Stamp(bars, i) \in Int /\ Stamp(bars, i) < c.time
    BY <1>1, <1>5, <1>10, <2>3, StampsRise DEF WorldOK
  <2>5. QED
    BY <1>4, <1>5, <2>2, <2>4
<1>17. QED
  <2>1. value \in Answers /\ Pledge(entry.bars, entry.values, c, value)
    BY <1>5, <1>13
  <2>2. \A i \in 1..(first - 1), k \in (Len(entry.merged) + 2)..Len(world.chart) :
          IF world.gaps THEN Stamp(entry.bars, i) < world.chart[k].time
                        ELSE Reached(entry.bars, i, world.chart[k])
    BY <1>16
  <2>3. ~world.gaps => entry.held = IF first = 1 THEN NA ELSE entry.values[first - 1]
    OBVIOUS
  <2>4. QED
    BY <1>14, <1>15, <2>1, <2>2, <2>3, MovedIsMerged

\* A bar stays reached when the chart goes on.
LEMMA ReachedStays ==
  ASSUME NEW bars, NEW i, bars[i].time \in Int, EffectiveCloseTime(bars, i) \in Int,
         NEW c, c.time \in Int, CloseTime(c) \in Int, Reached(bars, i, c),
         NEW d, d.time \in Int, CloseTime(d) \in Int,
         c.time < d.time, CloseTime(c) <= CloseTime(d)
  PROVE  Reached(bars, i, d)
<1>1. bars[i].time <= d.time
  BY DEF Reached
<1>2. ASSUME ~world.lookahead
      PROVE  EffectiveCloseTime(bars, i) <= CloseTime(d)
  <2>1. EffectiveCloseTime(bars, i) <= CloseTime(c)
    BY <1>2 DEF Reached
  <2>2. QED
    BY <2>1
<1>3. QED
  BY <1>1, <1>2 DEF Reached

\* gaps_off: the merge of one bar holds the value of the last bar reached.
LEMMA HeldMerged ==
  ASSUME WorldOK, world.gaps = FALSE, NEW entry, Mergeable(entry),
         Len(entry.merged) < Len(world.chart),
         NEW c, c = world.chart[Len(entry.merged) + 1]
  PROVE  MergedOne(entry, MergeHeld(entry, c))
<1>1. /\ entry \in Entries /\ BarsOK(entry.bars) /\ MergeOK(entry)
      /\ Len(entry.values) = Len(entry.bars)
  BY DEF Mergeable
<1>2. PICK m \in Nat : m = Len(entry.merged) + 1
  BY <1>1, EntryFields
<1>3. m \in 1..Len(world.chart)
  <2>1. Len(world.chart) \in Nat /\ Len(entry.merged) \in Nat
    BY <1>1, EntryFields, LengthIsNumber DEF WorldOK, BarsOK
  <2>2. QED
    BY <1>2, <2>1
<1>4. /\ c.time \in Int /\ CloseTime(c) \in Int
      /\ \A k \in (m + 1)..Len(world.chart) :
           /\ c.time < world.chart[k].time /\ CloseTime(c) <= CloseTime(world.chart[k])
           /\ world.chart[k].time \in Int /\ CloseTime(world.chart[k]) \in Int
  BY <1>2, <1>3, ChartRises
<1>5. PICK bars, n, cursor : bars = entry.bars /\ n = Len(entry.bars) /\ cursor = entry.cursor
  OBVIOUS
<1>6. n \in Nat /\ cursor \in 1..(n + 1)
  BY <1>1, <1>5, EntryFields DEF MergeOK
<1>7. \A i \in 1..(cursor - 1) : Reached(bars, i, c)
  BY <1>1, <1>2, <1>3, <1>5 DEF MergeOK
<1>8. PICK next : next = Skip(cursor, n, Got(bars, c, n))
  OBVIOUS
<1>9. /\ next \in cursor..(n + 1)
      /\ \A i \in 1..(next - 1) : Reached(bars, i, c)
      /\ \A i : i \in Shown(bars, c) <=> i \in 1..(next - 1)
  <2>1. /\ BarsOK(bars) /\ None \notin Int /\ Day \in Nat \ {0}
        /\ world.lookahead \in BOOLEAN /\ c.time \in Int /\ CloseTime(c) \in Int
        /\ n = Len(bars)
    BY <1>1, <1>4, <1>5 DEF WorldOK
  <2>2. HeldStop(bars, c, n, cursor, next)
    BY <1>6, <1>7, <1>8, <2>1, HeldShown
  <2>3. QED
    BY <2>2 DEF HeldStop
<1>10. next \in 1..(n + 1) /\ next \in Nat
  BY <1>6, <1>9
<1>11. PICK value : value = IF next > cursor THEN entry.values[next - 1] ELSE entry.held
  OBVIOUS
<1>12. value = IF next = 1 THEN NA ELSE entry.values[next - 1]
  <2>1. CASE next > cursor
    <3>1. next # 1
      BY <1>6, <1>10, <2>1
    <3>2. QED
      BY <1>11, <2>1, <3>1
  <2>2. CASE ~(next > cursor)
    <3>1. next = cursor
      BY <1>6, <1>9, <2>2
    <3>2. entry.held = IF cursor = 1 THEN NA ELSE entry.values[cursor - 1]
      BY <1>1, <1>5 DEF MergeOK
    <3>3. QED
      BY <1>11, <2>2, <3>1, <3>2
  <2>3. QED
    BY <2>1, <2>2
<1>13. value \in Answers /\ Pledge(bars, entry.values, c, value)
  <2>1. 1 < next => next - 1 \in 1..n
    BY <1>6, <1>10
  <2>2. 1 < next => next - 1 \in 1..Len(entry.values) /\ entry.values[next - 1] \in Answers
    BY <1>5, <2>1, ValueFits
  <2>3. value = IF 1 < next THEN entry.values[next - 1] ELSE NA
    BY <1>10, <1>12
  <2>4. value \in Answers
    BY <2>2, <2>3 DEF Answers
  <2>5. QED
    BY <1>9, <1>10, <2>2, <2>3, <2>4, PledgedLast
<1>14. MergeHeld(entry, c) = Moved(entry, next, value, Append(entry.merged, value))
  BY <1>1, <1>5, <1>8, <1>11 DEF MergeHeld, Moved, Got, Reached
<1>15. ASSUME NEW i \in 1..(next - 1), NEW k \in (Len(entry.merged) + 2)..Len(world.chart)
       PROVE  Reached(entry.bars, i, world.chart[k])
  <2>1. k \in (m + 1)..Len(world.chart)
    BY <1>1, <1>2, EntryFields
  <2>2. /\ c.time < world.chart[k].time /\ CloseTime(c) <= CloseTime(world.chart[k])
        /\ world.chart[k].time \in Int /\ CloseTime(world.chart[k]) \in Int
    BY <1>4, <2>1
  <2>3. i \in 1..Len(bars)
    BY <1>5, <1>6, <1>10
  <2>4. /\ Reached(bars, i, c) /\ bars[i].time \in Int
        /\ EffectiveCloseTime(bars, i) \in Int
    BY <1>1, <1>5, <1>9, <2>3, ClosesRise DEF WorldOK
  <2>5. QED
    BY <1>4, <1>5, <2>2, <2>4, ReachedStays
<1>16. QED
  <2>1. value \in Answers /\ Pledge(entry.bars, entry.values, c, value)
        /\ next \in 1..(Len(entry.bars) + 1)
    BY <1>5, <1>10, <1>13
  <2>2. \A i \in 1..(next - 1), k \in (Len(entry.merged) + 2)..Len(world.chart) :
          IF world.gaps THEN Stamp(entry.bars, i) < world.chart[k].time
                        ELSE Reached(entry.bars, i, world.chart[k])
    BY <1>15
  <2>3. ~world.gaps => value = IF next = 1 THEN NA ELSE entry.values[next - 1]
    BY <1>12
  <2>4. QED
    BY <1>14, <2>1, <2>2, <2>3, MovedIsMerged

\* In either mode.
LEMMA BarMerged ==
  ASSUME WorldOK, NEW entry, Mergeable(entry), Len(entry.merged) < Len(world.chart),
         NEW c, c = world.chart[Len(entry.merged) + 1]
  PROVE  MergedOne(entry, MergeBar(entry, c))
<1>1. world.gaps = TRUE \/ world.gaps = FALSE
  BY DEF WorldOK
<1>2. CASE world.gaps = TRUE
  BY <1>2, GapMerged DEF MergeBar
<1>3. CASE world.gaps = FALSE
  BY <1>3, HeldMerged DEF MergeBar
<1>4. QED
  BY <1>1, <1>2, <1>3

\* The chart bars an entry has not merged, when the first begun ones are there.
Unmerged(entry, begun) == SubSeq(SubSeq(world.chart, 1, begun), Len(entry.merged) + 1, begun)

\* A slice of a beginning.
LEMMA SliceOfStart ==
  ASSUME NEW T, NEW s \in Seq(T), NEW n \in 0..Len(s), NEW m \in 0..n
  PROVE  /\ SubSeq(SubSeq(s, 1, n), m + 1, n) \in Seq(T)
         /\ Len(SubSeq(SubSeq(s, 1, n), m + 1, n)) = n - m
         /\ \A k \in 1..(n - m) : SubSeq(SubSeq(s, 1, n), m + 1, n)[k] = s[m + k]
<1>1. PICK r : r = SubSeq(s, 1, n)
  OBVIOUS
<1>2. r \in Seq(T) /\ Len(r) = n /\ \A k \in 1..n : r[k] = s[k]
  BY <1>1
<1>3. PICK q : q = SubSeq(r, m + 1, n)
  OBVIOUS
<1>4. q \in Seq(T) /\ Len(q) = n - m /\ \A k \in 1..(n - m) : q[k] = r[m + k]
  BY <1>2, <1>3
<1>5. \A k \in 1..(n - m) : m + k \in 1..n
  OBVIOUS
<1>6. QED
  BY <1>1, <1>2, <1>3, <1>4, <1>5

\* A merge of bars, one by one.
LEMMA MergeFolds ==
  ASSUME NEW base, NEW s \in Seq(BarRecords)
  PROVE  /\ FoldLeft(MergeBar, base, SubSeq(s, 1, 0)) = base
         /\ \A k \in Nat : k + 1 <= Len(s) =>
              FoldLeft(MergeBar, base, SubSeq(s, 1, k + 1)) =
                MergeBar(FoldLeft(MergeBar, base, SubSeq(s, 1, k)), s[k + 1])
<1>1. \A b, q : M!Fold(b, q) = FoldLeft(MergeBar, b, q)
  BY DEF M!Fold, M!MapThenFoldSet, FoldLeft, MapThenFoldSet, M!Max, Max
<1>2. SubSeq(s, 1, 0) = <<>>
  OBVIOUS
<1>3. M!Fold(base, <<>>) = base
  BY M!FoldEmpty
<1>4. ASSUME NEW k \in Nat, k + 1 <= Len(s)
      PROVE  M!Fold(base, SubSeq(s, 1, k + 1)) = MergeBar(M!Fold(base, SubSeq(s, 1, k)), s[k + 1])
  <2>1. PICK p \in Seq(BarRecords) :
          p = SubSeq(s, 1, k) /\ SubSeq(s, 1, k + 1) = Append(p, s[k + 1])
    <3>1. k < Len(s)
      BY <1>4, LengthIsNumber
    <3>2. QED
      BY <3>1, StartAndNext
  <2>2. M!Fold(base, Append(p, s[k + 1])) = MergeBar(M!Fold(base, p), s[k + 1])
    BY M!FoldAppend
  <2>3. QED
    BY <2>1, <2>2
<1>5. QED
  BY <1>1, <1>2, <1>3, <1>4

\* A merge of the chart so far leaves an answer for each of its bars, as promised.
LEMMA AllMerged ==
  ASSUME WorldOK, NEW begun \in 0..Len(world.chart), NEW entry, Mergeable(entry),
         Len(entry.merged) <= begun
  PROVE  /\ Mergeable(FoldLeft(MergeBar, entry, Unmerged(entry, begun)))
         /\ Len(FoldLeft(MergeBar, entry, Unmerged(entry, begun)).merged) = begun
         /\ FoldLeft(MergeBar, entry, Unmerged(entry, begun)).bars = entry.bars
<1>1. PICK s : s = Unmerged(entry, begun)
  OBVIOUS
<1>2. PICK m \in Nat : m = Len(entry.merged)
  BY EntryFields DEF Mergeable
<1>3. world.chart \in Seq(BarRecords) /\ Len(world.chart) \in Nat
  BY LengthIsNumber DEF WorldOK, BarsOK
<1>4. m \in 0..begun
  BY <1>2, <1>3
<1>5. /\ s \in Seq(BarRecords) /\ Len(s) = begun - m
      /\ \A k \in 1..(begun - m) : s[k] = world.chart[m + k]
  BY <1>1, <1>2, <1>3, <1>4, SliceOfStart DEF Unmerged
<1>6. PICK n \in Nat : n = begun - m /\ Len(s) = n
  BY <1>3, <1>4, <1>5
<1> DEFINE Part(k) == FoldLeft(MergeBar, entry, SubSeq(s, 1, k))
           Good(k) == /\ Mergeable(Part(k)) /\ Len(Part(k).merged) = m + k
                      /\ Part(k).bars = entry.bars
           S == {k \in Nat : k <= n => Good(k)}
<1>8. /\ Part(0) = entry /\ Part(n) = FoldLeft(MergeBar, entry, s)
      /\ \A k \in Nat : k + 1 <= n => Part(k + 1) = MergeBar(Part(k), s[k + 1])
  <2>1. s \in Seq(BarRecords) /\ SubSeq(s, 1, n) = s
    BY <1>5, <1>6
  <2>2. QED
    BY <1>6, <2>1, MergeFolds
<1> HIDE DEF Part
<1>9. 0 \in S
  BY <1>2, <1>8
<1>10. ASSUME NEW k \in Nat, k \in S PROVE k + 1 \in S
  <2> SUFFICES ASSUME k + 1 <= n PROVE Good(k + 1)
    OBVIOUS
  <2>1. Mergeable(Part(k)) /\ Len(Part(k).merged) = m + k /\ Part(k).bars = entry.bars
    BY <1>10
  <2>2. s[k + 1] = world.chart[m + k + 1] /\ m + k < Len(world.chart)
    <3>1. k + 1 \in 1..(begun - m) /\ m + (k + 1) = m + k + 1
      BY <1>6
    <3>2. m + k < Len(world.chart)
      BY <1>3, <1>4, <3>1
    <3>3. QED
      BY <1>5, <3>1, <3>2
  <2>3. MergedOne(Part(k), MergeBar(Part(k), s[k + 1]))
    BY <2>1, <2>2, BarMerged
  <2>4. Part(k + 1) = MergeBar(Part(k), s[k + 1])
    BY <1>8
  <2>5. /\ Mergeable(Part(k + 1)) /\ Len(Part(k + 1).merged) = Len(Part(k).merged) + 1
        /\ Part(k + 1).bars = Part(k).bars
    BY <2>3, <2>4 DEF MergedOne
  <2>6. QED
    BY <2>1, <2>5
<1>11. Nat \subseteq S
  <2> HIDE DEF S
  <2> QED
    BY <1>9, <1>10, M!SetInduction
<1>12. Good(n)
  BY <1>6, <1>11
<1>13. m + n = begun
  BY <1>3, <1>4, <1>6
<1>14. QED
  BY <1>1, <1>8, <1>12, <1>13

-----------------------------------------------------------------------------
(* The child *)

\* The child of an entry has evaluated this many bars more.
Stepped(entry, next, k) ==
  /\ next \in Entries /\ ChildOK(next) /\ MergeOK(next)
  /\ Len(next.values) = Len(entry.values) + k
  /\ next.bars = entry.bars /\ next.merged = entry.merged

\* These are the values so far and one more.
MoreOK(bars, values, v, intact, more) ==
  /\ more \in Seq(Answers) /\ Len(more) = v + 1
  /\ \A i \in 1..v : more[i] = values[i]
  /\ Valued(bars, more, v + 1, intact)

\* The values so far and one more, of a child that is what it was or was less disturbed.
LEMMA ValueAdded ==
  ASSUME NEW bars, NEW values \in Seq(Answers), NEW v \in Nat, v = Len(values),
         NEW before, NEW intact, Valued(bars, values, v, before),
         intact = TRUE => before = TRUE,
         NEW value \in Answers, Series(value) = Series(Fresh(bars, v + 1)),
         intact = TRUE => value = Fresh(bars, v + 1)
  PROVE  MoreOK(bars, values, v, intact, Append(values, value))
<1>1. PICK more : more = Append(values, value)
  OBVIOUS
<1>2. /\ more \in Seq(Answers) /\ Len(more) = v + 1 /\ more[v + 1] = value
      /\ \A i \in 1..v : more[i] = values[i]
  BY <1>1
<1>3. \A i \in 1..(v + 1) : i \in 1..v \/ i = v + 1
  OBVIOUS
<1>4. ASSUME NEW i \in 1..(v + 1)
      PROVE  /\ Series(more[i]) = Series(Fresh(bars, i))
             /\ intact = TRUE => more[i] = Fresh(bars, i)
  <2>1. CASE i \in 1..v
    BY <1>2, <2>1 DEF Valued
  <2>2. CASE i = v + 1
    BY <1>2, <2>2
  <2>3. QED
    BY <1>3, <2>1, <2>2
<1>5. QED
  BY <1>1, <1>2, <1>4 DEF MoreOK, Valued

\* What the expression tells is an answer: it is about this bar and series, and what a
\* fresh child tells if the child holds what a fresh one would.
LEMMA ValueTold ==
  ASSUME NEW entry \in Entries, NEW bars \in Seq(BarRecords), NEW v \in Nat, v < Len(bars),
         entry.ended = SubSeq(bars, 1, v), FedOK(entry.begun, entry.ended, entry.fed)
  PROVE  /\ Expression(entry, bars[v + 1]) \in Answers
         /\ Series(Expression(entry, bars[v + 1])) = Series(Fresh(bars, v + 1))
         /\ Intact(entry) => Expression(entry, bars[v + 1]) = Fresh(bars, v + 1)
<1>1. PICK bar : bar = bars[v + 1]
  OBVIOUS
<1>2. bar \in BarRecords /\ bar.time \in Int
  <2>1. v + 1 \in 1..Len(bars)
    BY LengthIsNumber
  <2>2. bar \in BarRecords
    BY <1>1, <2>1
  <2>3. QED
    BY <2>2 DEF BarRecords
<1>3. /\ entry.begun \in Seq(BarRecords) /\ entry.ended \in Seq(BarRecords)
      /\ entry.fed \in Seq(BarRecords)
  BY EntryFields
<1>4. PICK told : told = [bar |-> bar.time, begun |-> entry.begun, ended |-> entry.ended,
                          fed |-> entry.fed]
  OBVIOUS
<1>5. PICK fresh : fresh = [bar |-> bar.time, begun |-> entry.ended, ended |-> entry.ended,
                            fed |-> entry.ended]
  OBVIOUS
<1>6. v + 1 - 1 = v
  OBVIOUS
<1>7. /\ Expression(entry, bars[v + 1]) = IF bar.na THEN NA ELSE told
      /\ Fresh(bars, v + 1) = IF bar.na THEN NA ELSE fresh
  BY <1>1, <1>4, <1>5, <1>6 DEF Expression, Fresh
<1>8. told \in Tellings /\ fresh \in Tellings
  BY <1>2, <1>3, <1>4, <1>5 DEF Tellings
<1>9. Series(told) = Series(fresh)
  <2>1. told # NA /\ fresh # NA
    BY <1>8, SecurityAssumption
  <2>2. QED
    BY <1>4, <1>5, <2>1 DEF Series
<1>10. Intact(entry) => told = fresh
  BY <1>4, <1>5 DEF Intact, FedOK
<1>11. QED
  BY <1>7, <1>8, <1>9, <1>10 DEF Answers

\* A bar begun is one more in the sequence.
LEMMA OneMoreBar ==
  ASSUME NEW T, NEW s \in Seq(T), NEW e \in T
  PROVE  Append(s, e) \in Seq(T)
OBVIOUS

\* What evaluating one bar changes.
EvaluatedOK(entry, bar, value, next) ==
  /\ next.begun = Append(entry.begun, bar) /\ next.values = Append(entry.values, value)
  /\ next.ended = Append(entry.ended, bar) /\ next.fed = Append(entry.fed, bar)
  /\ next.bars = entry.bars /\ next.merged = entry.merged
  /\ next.cursor = entry.cursor /\ next.held = entry.held
  /\ (next.begun \in Seq(BarRecords) /\ next.values \in Seq(Answers)
      /\ next.ended \in Seq(BarRecords) /\ next.fed \in Seq(BarRecords)) => next \in Entries

\* An evaluation changes these fields alone.
LEMMA Evaluated ==
  ASSUME NEW entry \in Entries, NEW bar
  PROVE  EvaluatedOK(entry, bar, Expression(entry, bar), Evaluate(entry, bar))
<1>1. PICK value : value = Expression(entry, bar)
  OBVIOUS
<1>2. Evaluate(entry, bar) =
        [entry EXCEPT !.begun = Append(entry.begun, bar),
                      !.values = Append(entry.values, value),
                      !.ended = Append(entry.ended, bar),
                      !.fed = Append(entry.fed, bar)]
  BY <1>1 DEF Evaluate
<1>3. PICK b, v, d, f : /\ b = Append(entry.begun, bar) /\ v = Append(entry.values, value)
                        /\ d = Append(entry.ended, bar) /\ f = Append(entry.fed, bar)
  OBVIOUS
<1>4. PICK next : next = [entry EXCEPT !.begun = b, !.values = v, !.ended = d, !.fed = f]
  OBVIOUS
<1>5. /\ next.begun = b /\ next.values = v /\ next.ended = d /\ next.fed = f
      /\ next.bars = entry.bars /\ next.merged = entry.merged
      /\ next.cursor = entry.cursor /\ next.held = entry.held
      /\ b \in Seq(BarRecords) /\ v \in Seq(Answers) /\ d \in Seq(BarRecords)
         /\ f \in Seq(BarRecords) => next \in Entries
  BY <1>4 DEF Entries
<1>6. Evaluate(entry, bar) = next
  BY <1>2, <1>3, <1>4
<1>7. QED
  BY <1>1, <1>3, <1>5, <1>6 DEF EvaluatedOK

\* One bar more on each: a child that is whole after it was whole before.
LEMMA FedMore ==
  ASSUME NEW T, NEW begun \in Seq(T), NEW ended \in Seq(T), NEW fed \in Seq(T), NEW bar \in T,
         FedOK(begun, ended, fed)
  PROVE  /\ FedOK(Append(begun, bar), Append(ended, bar), Append(fed, bar))
         /\ Append(begun, bar) = Append(ended, bar) => begun = ended
<1>1. PICK b, d, f : b = Append(begun, bar) /\ d = Append(ended, bar) /\ f = Append(fed, bar)
  OBVIOUS
<1>2. /\ Len(b) = Len(begun) + 1 /\ Len(d) = Len(ended) + 1 /\ Len(f) = Len(fed) + 1
      /\ Len(begun) \in Nat /\ Len(ended) \in Nat /\ Len(fed) \in Nat
  BY <1>1
<1>3. b = d => begun = ended
  <2>1. Append(begun, bar) = Append(ended, bar) <=> begun = ended /\ bar = bar
    BY AppendInjective
  <2>2. QED
    BY <1>1, <2>1
<1>4. FedOK(b, d, f)
  BY <1>1, <1>2, <1>3 DEF FedOK
<1>5. QED
  BY <1>1, <1>3, <1>4

\* A pledge is on values that stay when there is one more.
LEMMA PledgeStays ==
  ASSUME NEW bars, NEW values, NEW more, NEW v \in Nat, v = Len(values), Len(more) = v + 1,
         \A i \in 1..v : more[i] = values[i],
         NEW c, NEW answered, Pledge(bars, values, c, answered)
  PROVE  Pledge(bars, more, c, answered)
<1>1. \A i \in 1..v : i \in 1..(v + 1)
  OBVIOUS
<1>2. QED
  BY <1>1 DEF Pledge

\* The child evaluates the next bar: value and end go on together.
LEMMA BarEvaluated ==
  ASSUME NEW entry \in Entries, ChildOK(entry), MergeOK(entry),
         NEW v, v = Len(entry.values), v < Len(entry.bars),
         NEW bar, bar = entry.bars[v + 1]
  PROVE  Stepped(entry, Evaluate(entry, bar), 1)
<1>1. PICK next : next = Evaluate(entry, bar)
  OBVIOUS
<1>2. /\ entry.bars \in Seq(BarRecords) /\ entry.values \in Seq(Answers)
      /\ entry.begun \in Seq(BarRecords) /\ entry.ended \in Seq(BarRecords)
      /\ entry.fed \in Seq(BarRecords) /\ v \in Nat
  BY EntryFields
<1>3. /\ entry.ended = SubSeq(entry.bars, 1, v)
      /\ Valued(entry.bars, entry.values, v, Intact(entry))
      /\ FedOK(entry.begun, entry.ended, entry.fed)
  BY DEF ChildOK
<1>4. /\ Len(entry.ended) = v /\ bar \in BarRecords
      /\ Append(entry.ended, bar) = SubSeq(entry.bars, 1, v + 1)
      /\ Append(entry.ended, bar) \in Seq(BarRecords)
  <2>1. PICK s \in Seq(BarRecords) : s = entry.bars
    BY <1>2
  <2>2. /\ Len(SubSeq(s, 1, v)) = v /\ Append(SubSeq(s, 1, v), s[v + 1]) = SubSeq(s, 1, v + 1)
        /\ SubSeq(s, 1, v + 1) \in Seq(BarRecords) /\ s[v + 1] \in BarRecords
    BY <1>2, <2>1, StartAndNext
  <2>3. QED
    BY <1>3, <2>1, <2>2
<1>5. Append(entry.begun, bar) \in Seq(BarRecords) /\ Append(entry.fed, bar) \in Seq(BarRecords)
  BY <1>2, <1>4, OneMoreBar
<1>6. PICK value : value = Expression(entry, bar)
  OBVIOUS
<1>7. PICK more : more = Append(entry.values, value)
  OBVIOUS
<1>8. EvaluatedOK(entry, bar, value, next)
  BY <1>1, <1>6, Evaluated
<1>9. /\ next.begun = Append(entry.begun, bar) /\ next.ended = Append(entry.ended, bar)
      /\ next.fed = Append(entry.fed, bar)
  BY <1>8 DEF EvaluatedOK
<1>10. /\ FedOK(next.begun, next.ended, next.fed)
       /\ Intact(next) => Intact(entry)
  <2>1. PICK begun, ended, fed : /\ begun = entry.begun /\ ended = entry.ended
                                 /\ fed = entry.fed
    OBVIOUS
  <2>2. /\ begun \in Seq(BarRecords) /\ ended \in Seq(BarRecords) /\ fed \in Seq(BarRecords)
        /\ bar \in BarRecords /\ FedOK(begun, ended, fed)
    BY <1>2, <1>3, <1>4, <2>1
  <2>3. /\ FedOK(Append(begun, bar), Append(ended, bar), Append(fed, bar))
        /\ Append(begun, bar) = Append(ended, bar) => begun = ended
    BY <2>2, FedMore
  <2>4. QED
    BY <1>9, <2>1, <2>3 DEF Intact
<1>11. MoreOK(entry.bars, entry.values, v, Intact(next), more)
  <2>1. /\ value \in Answers
        /\ Series(value) = Series(Fresh(entry.bars, v + 1))
        /\ Intact(entry) => value = Fresh(entry.bars, v + 1)
    BY <1>2, <1>3, <1>6, ValueTold
  <2>2. PICK intact : intact = Intact(next)
    OBVIOUS
  <2>3. /\ intact = TRUE => Intact(entry) = TRUE
        /\ intact = TRUE => value = Fresh(entry.bars, v + 1)
    BY <1>10, <2>1, <2>2 DEF Intact
  <2>4. MoreOK(entry.bars, entry.values, v, intact, Append(entry.values, value))
    BY <1>2, <1>3, <2>1, <2>3, ValueAdded
  <2>5. QED
    BY <1>7, <2>2, <2>4
<1>12. /\ more \in Seq(Answers) /\ Len(more) = v + 1
       /\ \A i \in 1..v : more[i] = entry.values[i]
       /\ Valued(entry.bars, more, v + 1, Intact(next))
  BY <1>11 DEF MoreOK
<1>13. /\ next.values = more /\ next.ended = SubSeq(entry.bars, 1, v + 1)
       /\ next.bars = entry.bars /\ next.merged = entry.merged
       /\ next.cursor = entry.cursor /\ next.held = entry.held
       /\ next \in Entries
  BY <1>4, <1>5, <1>7, <1>8, <1>12 DEF EvaluatedOK
<1>14. v + 1 <= Len(entry.bars)
  BY <1>2, LengthIsNumber
<1>15. ChildOK(next)
  BY <1>10, <1>12, <1>13, <1>14 DEF ChildOK
<1>16. MergeOK(next)
  <2>1. entry.cursor \in 1..(v + 1)
    BY DEF MergeOK
  <2>2. next.cursor \in 1..(Len(next.values) + 1)
    BY <1>2, <1>12, <1>13, <2>1
  <2>3. ASSUME ~world.gaps
        PROVE  next.held = IF next.cursor = 1 THEN NA ELSE next.values[next.cursor - 1]
    <3>1. entry.held = IF entry.cursor = 1 THEN NA ELSE entry.values[entry.cursor - 1]
      BY <2>3 DEF MergeOK
    <3>2. entry.cursor # 1 => entry.cursor - 1 \in 1..v
      BY <1>2, <2>1
    <3>3. QED
      BY <1>12, <1>13, <3>1, <3>2
  <2>4. ASSUME NEW k \in 1..Len(next.merged)
        PROVE  Pledge(next.bars, next.values, world.chart[k], next.merged[k])
    <3>1. Pledge(entry.bars, entry.values, world.chart[k], entry.merged[k])
      BY <1>13 DEF MergeOK
    <3>2. PICK c, answered : c = world.chart[k] /\ answered = entry.merged[k]
      OBVIOUS
    <3>3. Pledge(entry.bars, entry.values, c, answered)
      BY <3>1, <3>2
    <3>4. Pledge(entry.bars, more, c, answered)
      BY <1>2, <1>12, <3>3, PledgeStays
    <3>5. QED
      BY <1>13, <3>2, <3>4
  <2>5. QED
    BY <1>13, <2>2, <2>3, <2>4 DEF MergeOK
<1>17. QED
  BY <1>1, <1>12, <1>13, <1>15, <1>16 DEF Stepped

\* The bars the child has not seen.
LEMMA PendingBars ==
  ASSUME NEW entry \in Entries, ChildOK(entry)
  PROVE  /\ Pending(entry) \in Seq(BarRecords)
         /\ Len(Pending(entry)) = Len(entry.bars) - Len(entry.values)
         /\ Len(Pending(entry)) \in Nat
         /\ \A k \in 1..Len(Pending(entry)) :
              Pending(entry)[k] = entry.bars[Len(entry.values) + k]
<1>1. PICK s, v : s = entry.bars /\ v = Len(entry.values)
  OBVIOUS
<1>2. s \in Seq(BarRecords) /\ v \in Nat /\ v <= Len(s)
  BY <1>1, EntryFields DEF ChildOK
<1>3. PICK p : p = SubSeq(s, v + 1, Len(s))
  OBVIOUS
<1>4. /\ p \in Seq(BarRecords) /\ Len(p) = Len(s) - v /\ Len(p) \in Nat
      /\ \A k \in 1..Len(p) : p[k] = s[v + k]
  BY <1>2, <1>3
<1>5. QED
  BY <1>1, <1>3, <1>4 DEF Pending

\* An evaluation of bars, one by one.
LEMMA EvaluationFolds ==
  ASSUME NEW base, NEW s \in Seq(BarRecords)
  PROVE  /\ FoldLeft(Evaluate, base, SubSeq(s, 1, 0)) = base
         /\ \A k \in Nat : k + 1 <= Len(s) =>
              FoldLeft(Evaluate, base, SubSeq(s, 1, k + 1)) =
                Evaluate(FoldLeft(Evaluate, base, SubSeq(s, 1, k)), s[k + 1])
<1>1. \A b, q : E!Fold(b, q) = FoldLeft(Evaluate, b, q)
  BY DEF E!Fold, E!MapThenFoldSet, FoldLeft, MapThenFoldSet, E!Max, Max
<1>2. SubSeq(s, 1, 0) = <<>>
  OBVIOUS
<1>3. E!Fold(base, <<>>) = base
  BY E!FoldEmpty
<1>4. ASSUME NEW k \in Nat, k + 1 <= Len(s)
      PROVE  E!Fold(base, SubSeq(s, 1, k + 1)) = Evaluate(E!Fold(base, SubSeq(s, 1, k)), s[k + 1])
  <2>1. PICK p \in Seq(BarRecords) :
          p = SubSeq(s, 1, k) /\ SubSeq(s, 1, k + 1) = Append(p, s[k + 1])
    <3>1. k < Len(s)
      BY <1>4, LengthIsNumber
    <3>2. QED
      BY <3>1, StartAndNext
  <2>2. E!Fold(base, Append(p, s[k + 1])) = Evaluate(E!Fold(base, p), s[k + 1])
    BY E!FoldAppend
  <2>3. QED
    BY <2>1, <2>2
<1>5. QED
  BY <1>1, <1>2, <1>3, <1>4

\* The child evaluates the next bars, as many as are asked for.
LEMMA BarsEvaluated ==
  ASSUME NEW entry \in Entries, ChildOK(entry), MergeOK(entry),
         NEW n \in 0..Len(Pending(entry))
  PROVE  Stepped(entry, EvaluateNext(entry, n), n)
<1>1. PICK s : s = Pending(entry)
  OBVIOUS
<1>2. PICK v \in Nat : v = Len(entry.values)
  BY EntryFields
<1>3. /\ s \in Seq(BarRecords) /\ Len(s) = Len(entry.bars) - v /\ Len(s) \in Nat
      /\ \A k \in 1..Len(s) : s[k] = entry.bars[v + k]
  BY <1>1, <1>2, PendingBars
<1> DEFINE Part(k) == FoldLeft(Evaluate, entry, SubSeq(s, 1, k))
           S == {k \in Nat : k <= Len(s) => Stepped(entry, Part(k), k)}
<1>5. /\ Part(0) = entry
      /\ \A k \in Nat : k + 1 <= Len(s) => Part(k + 1) = Evaluate(Part(k), s[k + 1])
  <2>1. s \in Seq(BarRecords)
    BY <1>3
  <2>2. QED
    BY <2>1, EvaluationFolds
<1> HIDE DEF Part
<1>6. 0 \in S
  <2>1. v + 0 = v
    OBVIOUS
  <2>2. QED
    BY <1>2, <1>5, <2>1 DEF Stepped
<1>7. ASSUME NEW k \in Nat, k \in S PROVE k + 1 \in S
  <2> SUFFICES ASSUME k + 1 <= Len(s) PROVE Stepped(entry, Part(k + 1), k + 1)
    OBVIOUS
  <2>1. k <= Len(s)
    BY <1>3
  <2>2. Stepped(entry, Part(k), k)
    BY <1>7, <2>1
  <2>3. PICK part : part = Part(k)
    OBVIOUS
  <2>4. /\ part \in Entries /\ ChildOK(part) /\ MergeOK(part)
        /\ Len(part.values) = v + k /\ part.bars = entry.bars /\ part.merged = entry.merged
    BY <1>2, <2>2, <2>3 DEF Stepped
  <2>5. Len(entry.bars) \in Nat
    BY EntryFields
  <2>6. v + k < Len(part.bars) /\ s[k + 1] = part.bars[v + k + 1]
    BY <1>3, <2>4, <2>5
  <2>7. Stepped(part, Evaluate(part, s[k + 1]), 1)
    BY <2>4, <2>6, BarEvaluated
  <2>8. Part(k + 1) = Evaluate(part, s[k + 1])
    BY <1>5, <2>3
  <2>9. v + k + 1 = v + (k + 1)
    OBVIOUS
  <2>10. QED
    BY <1>2, <2>4, <2>7, <2>8, <2>9 DEF Stepped
<1>8. Nat \subseteq S
  <2> HIDE DEF S
  <2> QED
    BY <1>6, <1>7, M!SetInduction
<1>9. n \in Nat /\ n <= Len(s)
  BY <1>1, <1>3
<1>10. Stepped(entry, Part(n), n)
  BY <1>8, <1>9
<1>11. QED
  BY <1>1, <1>10 DEF EvaluateNext, Part

-----------------------------------------------------------------------------
(* The cache *)

\* Every world is fit for the lemmas above.
LEMMA WorldFits ==
  ASSUME world \in Worlds
  PROVE  /\ WorldOK /\ world.legacy \in BOOLEAN
         /\ \A start, end : BarsOK(GetBars(world.bars, start, end, world.count))
BY SecurityAssumption, FeedsOK DEF WorldOK

\* A longer chart leaves an entry what it is.
LEMMA EntryGrows ==
  ASSUME NEW entries, NEW m \in Nat, NEW n \in Nat, m <= n, CacheOK(entries, m)
  PROVE  CacheOK(entries, n)
<1>1. ASSUME NEW key \in DOMAIN entries PROVE EntryOK(key, entries[key], n)
  <2>1. EntryOK(key, entries[key], m)
    BY DEF CacheOK
  <2>2. Len(entries[key].merged) \in Nat
    BY <2>1, EntryFields DEF EntryOK
  <2>3. QED
    BY <2>1, <2>2 DEF EntryOK
<1>2. QED
  BY <1>1 DEF CacheOK

\* An entry that is in order may be put under its key.
LEMMA PutEntry ==
  ASSUME NEW entries, NEW n, CacheOK(entries, n), NEW key, NEW entry, EntryOK(key, entry, n)
  PROVE  CacheOK(Put(entries, key, entry), n)
<1>1. PICK next : next = Put(entries, key, entry)
  OBVIOUS
<1>2. /\ DOMAIN next = DOMAIN entries \cup {key} /\ next[key] = entry
      /\ \A k \in DOMAIN entries : k # key => next[k] = entries[k]
  BY <1>1 DEF Put
<1>3. CacheOK(next, n)
  BY <1>2 DEF CacheOK
<1>4. QED
  BY <1>1, <1>3

\* A fresh entry is in order.
LEMMA FreshEntry ==
  ASSUME NEW bars \in Seq(BarRecords)
  PROVE  /\ NewEntry(bars) \in Entries /\ NewEntry(bars).bars = bars
         /\ ChildOK(NewEntry(bars)) /\ MergeOK(NewEntry(bars))
         /\ Len(NewEntry(bars).merged) = 0
<1>1. PICK entry : entry = NewEntry(bars)
  OBVIOUS
<1>2. /\ entry.bars = bars /\ entry.values = <<>> /\ entry.begun = <<>> /\ entry.ended = <<>>
      /\ entry.fed = <<>> /\ entry.merged = <<>> /\ entry.cursor = 1 /\ entry.held = NA
  BY <1>1 DEF NewEntry
<1>3. entry \in Entries
  <2>1. NA \in Answers /\ <<>> \in Seq(Answers) /\ <<>> \in Seq(BarRecords) /\ 1 \in Nat
    BY DEF Answers
  <2>2. QED
    BY <1>1, <2>1 DEF NewEntry, Entries
<1>4. Len(<<>>) = 0 /\ SubSeq(bars, 1, 0) = <<>> /\ Len(bars) \in Nat
  OBVIOUS
<1>5. ChildOK(entry)
  <2>1. 0 <= Len(bars) /\ 1..0 = {}
    BY <1>4
  <2>2. QED
    BY <1>2, <1>4, <2>1 DEF ChildOK, Valued, FedOK
<1>6. MergeOK(entry)
  BY <1>2, <1>4 DEF MergeOK
<1>7. QED
  BY <1>1, <1>2, <1>3, <1>4, <1>5, <1>6

\* The entry a call works on is in order, cached or fresh.
LEMMA EntryInOrder ==
  ASSUME SecurityInv
  PROVE  EntryOK(CacheKey, EntryOf, chart)
<1>1. CASE CacheKey \in DOMAIN cache
  BY <1>1 DEF SecurityInv, CacheOK, EntryOf
<1>2. CASE CacheKey \notin DOMAIN cache
  <2>1. PICK bars : bars = GetBars(world.bars, CacheKey.start, CacheKey.end, world.count)
    OBVIOUS
  <2>2. bars \in Seq(BarRecords)
    BY <2>1, WorldFits DEF SecurityInv, BarsOK
  <2>3. CacheKey.end = RequestEnd
    BY DEF CacheKey
  <2>4. EntryOf = NewEntry(bars)
    BY <1>2, <2>1, <2>3 DEF EntryOf
  <2>5. /\ NewEntry(bars) \in Entries /\ NewEntry(bars).bars = bars
        /\ ChildOK(NewEntry(bars)) /\ MergeOK(NewEntry(bars))
        /\ Len(NewEntry(bars).merged) = 0
    BY <2>2, FreshEntry
  <2>6. 0 <= chart
    BY DEF SecurityInv
  <2>7. QED
    BY <2>1, <2>4, <2>5, <2>6 DEF EntryOK
<1>3. QED
  BY <1>1, <1>2

\* What the property calls available is what a call made now fetches.
LEMMA FetchedNow ==
  ASSUME answer'.chart = chart, world' = world
  PROVE  Available' = GetBars(world.bars, CacheKey.start, CacheKey.end, world.count)
BY DEF Available, CacheKey, RequestEnd, ChartBar, RequestStart

\* Nothing is shown of no bars.
LEMMA NothingPromised ==
  ASSUME NEW bars, bars = <<>>, NEW c
  PROVE  Promised(bars, c) = NA
<1>1. Len(bars) = 0
  OBVIOUS
<1>2. Shown(bars, c) = {}
  BY <1>1 DEF Shown
<1>3. QED
  BY <1>2 DEF Promised

\* A call asks in an open bar, the last one begun.
LEMMA AskedWhere ==
  ASSUME LogInv, SecurityInv, open
  PROVE  /\ chart \in 1..Len(world.chart) /\ barIndex = chart - 2
         /\ LookupIndex \in (chart - 2)..(chart - 1)
<1>1. chart \in Nat /\ chart >= 1 /\ barIndex = chart - 2 /\ chart \in 0..Len(world.chart)
  BY DEF LogInv, IndexOK, SecurityInv
<1>2. QED
  BY <1>1 DEF LookupIndex

\* The world does not change, and so what is promised and in order does not.
LEMMA SameWorld ==
  ASSUME world' = world
  PROVE  /\ \A bars, c : Promised(bars, c)' = Promised(bars, c)
         /\ answer' = answer => Scratch' = Scratch
         /\ \A entries, n : CacheOK(entries, n)' = CacheOK(entries, n)
<1>1. ASSUME NEW bars, NEW c
      PROVE  Promised(bars, c)' = Promised(bars, c)
  <2>1. Shown(bars, c)' = Shown(bars, c)
    BY DEF Shown
  <2>2. QED
    BY <2>1 DEF Promised
<1>2. ASSUME NEW entry
      PROVE  MergeOK(entry)' = MergeOK(entry)
  <2>1. \A bars, i, c : Reached(bars, i, c)' = Reached(bars, i, c)
    BY DEF Reached
  <2>2. \A bars, i : Stamp(bars, i)' = Stamp(bars, i)
    BY DEF Stamp
  <2>3. \A bars, values, c, answered :
          Pledge(bars, values, c, answered)' = Pledge(bars, values, c, answered)
    <3>1. \A bars, c : Shown(bars, c)' = Shown(bars, c)
      BY DEF Shown
    <3>2. QED
      BY <3>1 DEF Pledge
  <2>4. QED
    BY <2>1, <2>2, <2>3 DEF MergeOK
<1>3. ASSUME NEW key, NEW entry, NEW n
      PROVE  EntryOK(key, entry, n)' = EntryOK(key, entry, n)
  BY <1>2 DEF EntryOK, ChildOK
<1>4. ASSUME NEW entries, NEW n
      PROVE  CacheOK(entries, n)' = CacheOK(entries, n)
  BY <1>3 DEF CacheOK
<1>5. answer' = answer => Scratch' = Scratch
  <2>1. answer' = answer => Available' = Available
    BY DEF Available
  <2>2. QED
    BY <1>1, <2>1 DEF Scratch
<1>6. QED
  BY <1>1, <1>4, <1>5

\* What a child in step values on the last bar shown is what is promised of it.
LEMMA PledgePromised ==
  ASSUME NEW bars \in Seq(BarRecords), NEW values, NEW v \in Nat, v = Len(values), NEW intact,
         Valued(bars, values, v, intact), NEW c, NEW value, Pledge(bars, values, c, value)
  PROVE  /\ Series(value) = Series(Promised(bars, c))
         /\ intact = TRUE => value = Promised(bars, c)
<1>1. Shown(bars, c) \subseteq Int
  BY ShownPlaces
<1>2. CASE Shown(bars, c) = {} /\ value = NA
  BY <1>1, <1>2, PromisedLast
<1>3. CASE ~(Shown(bars, c) = {} /\ value = NA)
  <2>1. PICK i \in 1..v : /\ i \in Shown(bars, c) /\ \A j \in Shown(bars, c) : j <= i
                          /\ value = values[i]
    BY <1>3 DEF Pledge
  <2>2. Promised(bars, c) = Fresh(bars, i)
    BY <1>1, <2>1, PromisedLast
  <2>3. QED
    BY <2>1, <2>2 DEF Valued
<1>4. QED
  BY <1>2, <1>3

\* What a call tells is true of the chart bar it names.
LEMMA ToldOK ==
  ASSUME LogInv, SecurityInv, open, NEW value, NEW entry, Told(value, entry), world' = world,
         NEW scratch,
         scratch = IF LookupIndex < 0 THEN NA
                   ELSE Promised(GetBars(world.bars, CacheKey.start, CacheKey.end, world.count),
                                 world.chart[LookupIndex + 1]),
         Series(value) = Series(scratch), Intact(entry) => value = scratch
  PROVE  AnswersFromScratch' /\ AnswerOK'
<1>1. /\ chart \in 1..Len(world.chart)
      /\ LookupIndex \in (chart - 2)..(chart - 1)
  BY AskedWhere
<1>2. /\ answer'.value = value /\ answer'.chart = chart /\ answer'.index = LookupIndex
      /\ answer'.intact = Intact(entry)
  BY DEF Told
<1>3. Available' = GetBars(world.bars, CacheKey.start, CacheKey.end, world.count)
  BY <1>2, FetchedNow
<1>4. \A bars, c : Promised(bars, c)' = Promised(bars, c)
  BY SameWorld
<1>5. Scratch' = scratch
  BY <1>2, <1>3, <1>4 DEF Scratch
<1>6. AnswersFromScratch'
  BY <1>2, <1>5 DEF AnswersFromScratch
<1>7. AnswerOK'
  BY <1>1, <1>2 DEF AnswerOK
<1>8. QED
  BY <1>6, <1>7

-----------------------------------------------------------------------------
(* The actions *)

\* A step that leaves cache, answers and checkpoint alone.
LEMMA CacheStays ==
  ASSUME SecurityInv, UNCHANGED <<world, cache, saved, answer>>,
         chart' \in 0..Len(world.chart), CacheOK(cache, chart')
  PROVE  SecurityInv'
<1>1. AnswersFromScratch'
  <2>1. Scratch' = Scratch
    BY SameWorld
  <2>2. QED
    BY <2>1 DEF SecurityInv, AnswersFromScratch
<1>2. AnswerOK'
  BY DEF SecurityInv, AnswerOK
<1>3. \A entries, n : CacheOK(entries, n)' = CacheOK(entries, n)
  BY SameWorld
<1>4. QED
  BY <1>1, <1>2, <1>3 DEF SecurityInv

\* A step that leaves the checkpoint alone and puts an entry in order.
LEMMA CachePut ==
  ASSUME SecurityInv, UNCHANGED <<world, chart, saved>>,
         NEW key, NEW entry, EntryOK(key, entry, chart), cache' = Put(cache, key, entry),
         AnswersFromScratch', AnswerOK'
  PROVE  SecurityInv'
<1>1. CacheOK(cache', chart)
  BY PutEntry DEF SecurityInv
<1>2. \A entries, n : CacheOK(entries, n)' = CacheOK(entries, n)
  BY SameWorld
<1>3. QED
  BY <1>1, <1>2 DEF SecurityInv

\* No bars and an ignored symbol: nothing is promised, and nothing is told.
LEMMA InvalidKeeps ==
  ASSUME LogInv, SecurityInv, SecurityInvalid
  PROVE  SecurityInv'
<1>1. /\ open /\ EntryOf.bars = <<>>
      /\ cache' = Put(cache, CacheKey, EntryOf) /\ Told(NA, EntryOf)
      /\ UNCHANGED <<world, chart, saved>>
  BY DEF SecurityInvalid, Asks
<1>2. EntryOK(CacheKey, EntryOf, chart)
  BY EntryInOrder
<1>3. PICK bars : bars = GetBars(world.bars, CacheKey.start, CacheKey.end, world.count)
  OBVIOUS
<1>4. bars = <<>>
  BY <1>1, <1>2, <1>3 DEF EntryOK
<1>5. Promised(bars, world.chart[LookupIndex + 1]) = NA
  BY <1>4, NothingPromised
<1>6. AnswersFromScratch' /\ AnswerOK'
  <2>1. PICK scratch : /\ scratch = IF LookupIndex < 0 THEN NA
                                    ELSE Promised(bars, world.chart[LookupIndex + 1])
                       /\ scratch = NA
    BY <1>5
  <2>2. QED
    BY <1>1, <1>3, <2>1, ToldOK
<1>7. QED
  BY <1>1, <1>2, <1>6, CachePut

\* A whole call: the child evaluates the rest, the merge goes on to the open bar, and
\* the answer is looked up.
LEMMA SecurityKeeps ==
  ASSUME LogInv, SecurityInv, Security
  PROVE  SecurityInv'
<1>1. PICK entry : /\ entry = AppendMerged(EvaluateNext(EntryOf, Len(Pending(EntryOf))))
                   /\ cache' = Put(cache, CacheKey, entry) 
                   /\ Told(Lookup(entry.merged), entry)
  BY DEF Security
<1>2. open /\ UNCHANGED <<world, chart, saved>>
  BY DEF Security, Asks
<1>3. PICK start : start = EntryOf
  OBVIOUS
<1>4. /\ EntryOK(CacheKey, start, chart) /\ start \in Entries
      /\ ChildOK(start) /\ MergeOK(start)
  BY <1>3, EntryInOrder DEF EntryOK
<1>5. PICK n : n = Len(Pending(start))
  OBVIOUS
<1>6. n = Len(start.bars) - Len(start.values) /\ n \in Nat
      /\ Len(start.bars) \in Nat /\ Len(start.values) \in Nat
  BY <1>4, <1>5, PendingBars, EntryFields
<1>7. PICK done : done = EvaluateNext(start, n)
  OBVIOUS
<1>8. Stepped(start, done, n)
  <2>1. n \in 0..Len(Pending(start))
    BY <1>5, <1>6
  <2>2. QED
    BY <1>4, <1>7, <2>1, BarsEvaluated
<1>9. /\ done \in Entries /\ ChildOK(done) /\ MergeOK(done)
      /\ Len(done.values) = Len(done.bars)
      /\ done.bars = start.bars /\ done.merged = start.merged
  BY <1>6, <1>8 DEF Stepped
<1>10. /\ WorldOK /\ world.legacy \in BOOLEAN
       /\ start.bars = GetBars(world.bars, CacheKey.start, CacheKey.end, world.count)
       /\ BarsOK(start.bars) /\ Len(start.merged) <= chart /\ chart \in 0..Len(world.chart)
  BY <1>4, WorldFits DEF SecurityInv, EntryOK
<1>11. Mergeable(done) /\ Len(done.merged) <= chart
  BY <1>9, <1>10 DEF Mergeable
<1>12. entry = FoldLeft(MergeBar, done, Unmerged(done, chart))
  BY <1>1, <1>3, <1>5, <1>7 DEF AppendMerged, Unmerged, ChartSoFar
<1>13. Mergeable(entry) /\ Len(entry.merged) = chart /\ entry.bars = start.bars
  BY <1>9, <1>10, <1>11, <1>12, AllMerged
<1>14. EntryOK(CacheKey, entry, chart)
  BY <1>10, <1>13 DEF EntryOK, Mergeable
<1>15. ASSUME NEW k \in 1..chart
       PROVE  /\ Series(entry.merged[k]) = Series(Promised(entry.bars, world.chart[k]))
              /\ Intact(entry) => entry.merged[k] = Promised(entry.bars, world.chart[k])
  <2>1. Pledge(entry.bars, entry.values, world.chart[k], entry.merged[k])
    BY <1>13 DEF Mergeable, MergeOK
  <2>2. entry \in Entries /\ ChildOK(entry)
    BY <1>13 DEF Mergeable
  <2>3. /\ entry.bars \in Seq(BarRecords) /\ Len(entry.values) \in Nat
        /\ Valued(entry.bars, entry.values, Len(entry.values), Intact(entry))
    BY <2>2, EntryFields DEF ChildOK
  <2>4. PICK v, intact : v = Len(entry.values) /\ intact = Intact(entry)
    OBVIOUS
  <2>5. /\ Series(entry.merged[k]) = Series(Promised(entry.bars, world.chart[k]))
        /\ intact = TRUE => entry.merged[k] = Promised(entry.bars, world.chart[k])
    BY <2>1, <2>3, <2>4, PledgePromised
  <2>6. QED
    BY <2>4, <2>5 DEF Intact
<1>16. /\ chart \in 1..Len(world.chart)
       /\ LookupIndex \in (chart - 2)..(chart - 1)
  BY <1>2, AskedWhere
<1>17. PICK scratch :
         scratch = IF LookupIndex < 0 THEN NA
                   ELSE Promised(GetBars(world.bars, CacheKey.start, CacheKey.end, world.count),
                                 world.chart[LookupIndex + 1])
  OBVIOUS
<1>18. /\ Series(Lookup(entry.merged)) = Series(scratch)
       /\ Intact(entry) => Lookup(entry.merged) = scratch
  <2>1. CASE LookupIndex < 0
    <3>1. LookupIndex \notin 0..(Len(entry.merged) - 1)
      BY <1>13, <1>16, <2>1
    <3>2. Lookup(entry.merged) = NA /\ scratch = NA
      BY <1>17, <2>1, <3>1 DEF Lookup
    <3>3. QED
      BY <3>2
  <2>2. CASE ~(LookupIndex < 0)
    <3>1. LookupIndex \in 0..(Len(entry.merged) - 1) /\ LookupIndex + 1 \in 1..chart
      BY <1>13, <1>16, <2>2
    <3>2. Lookup(entry.merged) = entry.merged[LookupIndex + 1]
      BY <3>1 DEF Lookup
    <3>3. scratch = Promised(entry.bars, world.chart[LookupIndex + 1])
      BY <1>10, <1>13, <1>17, <2>2
    <3>4. QED
      BY <1>15, <3>1, <3>2, <3>3
  <2>3. QED
    BY <2>1, <2>2
<1>19. AnswersFromScratch' /\ AnswerOK'
  BY <1>1, <1>2, <1>17, <1>18, ToldOK
<1>20. QED
  BY <1>1, <1>2, <1>14, <1>19, CachePut

\* A bar begun and not ended moves nothing else.
LEMMA BegunOnly ==
  ASSUME NEW entry \in Entries, NEW bar \in BarRecords, NEW updated \in BOOLEAN,
         NEW next, next = Stopped(entry, bar, updated)
  PROVE  /\ next \in Entries /\ next.bars = entry.bars /\ next.values = entry.values
         /\ next.ended = entry.ended /\ next.merged = entry.merged
         /\ next.cursor = entry.cursor /\ next.held = entry.held
         /\ next.begun = Append(entry.begun, bar)
         /\ (next.fed = entry.fed \/ next.fed = Append(entry.fed, bar))
<1>1. PICK begun, fed : /\ begun = Append(entry.begun, bar)
                        /\ fed = IF updated THEN Append(entry.fed, bar) ELSE entry.fed
  OBVIOUS
<1>2. begun \in Seq(BarRecords) /\ fed \in Seq(BarRecords)
      /\ (fed = entry.fed \/ fed = Append(entry.fed, bar))
  BY <1>1, EntryFields, OneMoreBar
<1>3. next = [entry EXCEPT !.begun = begun, !.fed = fed]
  BY <1>1 DEF Stopped
<1>4. /\ next \in Entries /\ next.bars = entry.bars /\ next.values = entry.values
      /\ next.ended = entry.ended /\ next.merged = entry.merged
      /\ next.cursor = entry.cursor /\ next.held = entry.held
      /\ next.begun = begun /\ next.fed = fed
  BY <1>2, <1>3 DEF Entries
<1>5. QED
  BY <1>1, <1>2, <1>4

\* A child in which an expression has raised stays in step and is no longer intact.
LEMMA StoppedInStep ==
  ASSUME NEW entry \in Entries, ChildOK(entry), NEW bar \in BarRecords, NEW updated \in BOOLEAN,
         NEW next, next = Stopped(entry, bar, updated)
  PROVE  ChildOK(next)
<1>1. /\ next \in Entries /\ next.bars = entry.bars /\ next.values = entry.values
      /\ next.ended = entry.ended /\ next.begun = Append(entry.begun, bar)
      /\ (next.fed = entry.fed \/ next.fed = Append(entry.fed, bar))
  BY BegunOnly
<1>2. PICK b \in Nat : b = Len(entry.begun)
  BY EntryFields
<1>3. /\ Len(next.begun) = b + 1
      /\ (Len(next.fed) = Len(entry.fed) \/ Len(next.fed) = Len(entry.fed) + 1)
      /\ Len(entry.fed) \in Nat /\ Len(entry.ended) \in Nat
      /\ Len(entry.ended) <= Len(entry.fed) /\ Len(entry.fed) <= b
  <2>1. entry.begun \in Seq(BarRecords) /\ entry.fed \in Seq(BarRecords)
    BY EntryFields
  <2>2. /\ Len(Append(entry.begun, bar)) = Len(entry.begun) + 1
        /\ Len(Append(entry.fed, bar)) = Len(entry.fed) + 1
    BY <2>1
  <2>3. QED
    BY <1>1, <1>2, <2>2, EntryFields DEF ChildOK, FedOK
<1>4. next.begun # next.ended
  BY <1>1, <1>2, <1>3
<1>5. FedOK(next.begun, next.ended, next.fed)
  BY <1>1, <1>2, <1>3, <1>4 DEF FedOK
<1>6. Valued(next.bars, next.values, Len(next.values), Intact(next))
  BY <1>1, <1>4 DEF ChildOK, Valued, Intact
<1>7. QED
  BY <1>1, <1>5, <1>6 DEF ChildOK

\* After fewer bars than are pending, one is left.
LEMMA OneFewer ==
  ASSUME NEW p \in Nat, NEW n \in 0..(p - 1)
  PROVE  /\ n \in 0..p
         /\ \A b, v \in Nat : p = b - v => b - (v + n) >= 1
OBVIOUS

\* The expression raises: the child has begun a bar that it neither ended nor valued.
LEMMA RaisesKeeps ==
  ASSUME LogInv, SecurityInv, SecurityRaises
  PROVE  SecurityInv'
<1>1. PICK start : start = EntryOf
  OBVIOUS
<1>2. /\ EntryOK(CacheKey, start, chart) /\ start \in Entries
      /\ ChildOK(start) /\ MergeOK(start)
  BY <1>1, EntryInOrder DEF EntryOK
<1>3. PICK n \in 0..(Len(Pending(start)) - 1), updated \in BOOLEAN :
        cache' = Put(cache, CacheKey,
                     Stopped(EvaluateNext(start, n), Pending(EvaluateNext(start, n))[1],
                             updated))
  BY <1>1 DEF SecurityRaises
<1>4. UNCHANGED <<world, chart, saved, answer>>
  BY DEF SecurityRaises
<1>5. /\ Len(Pending(start)) = Len(start.bars) - Len(start.values)
      /\ Len(Pending(start)) \in Nat /\ Len(start.bars) \in Nat /\ Len(start.values) \in Nat
  BY <1>2, PendingBars, EntryFields
<1>6. PICK done : done = EvaluateNext(start, n)
  OBVIOUS
<1>7. Stepped(start, done, n)
  <2>1. n \in 0..Len(Pending(start))
    BY <1>5, OneFewer
  <2>2. QED
    BY <1>2, <1>6, <2>1, BarsEvaluated
<1>8. /\ done \in Entries /\ ChildOK(done) /\ MergeOK(done)
      /\ Len(done.values) = Len(start.values) + n
      /\ done.bars = start.bars /\ done.merged = start.merged
  BY <1>7 DEF Stepped
<1>9. Pending(done) \in Seq(BarRecords) /\ Len(Pending(done)) \in Nat /\ Len(Pending(done)) >= 1
  <2>1. /\ Pending(done) \in Seq(BarRecords) /\ Len(Pending(done)) \in Nat
        /\ Len(Pending(done)) = Len(done.bars) - Len(done.values)
    BY <1>8, PendingBars
  <2>2. Len(Pending(done)) = Len(start.bars) - (Len(start.values) + n)
    BY <1>8, <2>1
  <2>3. QED
    BY <1>5, <2>1, <2>2, OneFewer
<1>10. PICK bar : bar = Pending(done)[1]
  OBVIOUS
<1>11. bar \in BarRecords
  BY <1>9, <1>10
<1>12. PICK next : next = Stopped(done, bar, updated)
  OBVIOUS
<1>13. ChildOK(next)
  BY <1>8, <1>11, <1>12, StoppedInStep
<1>14. /\ next \in Entries /\ next.bars = done.bars /\ next.values = done.values
       /\ next.merged = done.merged
       /\ next.cursor = done.cursor /\ next.held = done.held
  BY <1>8, <1>11, <1>12, BegunOnly
<1>15. MergeOK(next)
  BY <1>8, <1>14 DEF MergeOK
<1>16. EntryOK(CacheKey, next, chart)
  BY <1>2, <1>8, <1>13, <1>14, <1>15 DEF EntryOK
<1>17. cache' = Put(cache, CacheKey, next)
  BY <1>3, <1>6, <1>10, <1>12
<1>18. AnswersFromScratch' /\ AnswerOK'
  <2>1. Scratch' = Scratch
    BY <1>4, SameWorld
  <2>2. QED
    BY <1>4, <2>1 DEF SecurityInv, AnswersFromScratch, AnswerOK
<1>19. QED
  BY <1>4, <1>16, <1>17, <1>18, CachePut

\* Nothing is cached at the start.
LEMMA SecurityStarts == Init => SecurityInv
<1> SUFFICES ASSUME Init PROVE SecurityInv
  OBVIOUS
<1>1. /\ world \in Worlds /\ chart = 0 /\ cache = <<>> /\ saved = <<>>
      /\ answer.chart = 0 /\ answer.value = NA
  BY DEF Init, NoAnswer
<1>2. DOMAIN cache = {}
  BY <1>1
<1>3. CacheOK(cache, chart)
  BY <1>2 DEF CacheOK
<1>4. 0 \in 0..Len(world.chart)
  <2>1. world.chart \in Seq(BarRecords)
    BY <1>1, WorldFits DEF WorldOK, BarsOK
  <2>2. QED
    BY <2>1
<1>5. QED
  BY <1>1, <1>3, <1>4 DEF SecurityInv, AnswersFromScratch, AnswerOK

\* Every step keeps the cache in order and the answers true.
LEMMA SecurityKept ==
  ASSUME LogInv, SecurityInv, [Next]_vars
  PROVE  SecurityInv'
<1>0. chart \in Nat /\ chart \in 0..Len(world.chart) /\ CacheOK(cache, chart)
      /\ Len(world.chart) \in Nat
  BY WorldFits, LengthIsNumber DEF SecurityInv, WorldOK, BarsOK
<1>1. CASE BeginBar
  <2>1. /\ chart' = chart + 1 /\ chart < Len(world.chart)
        /\ UNCHANGED <<world, cache, saved, answer>>
    BY <1>1 DEF BeginBar
  <2>2. chart' \in 0..Len(world.chart) /\ chart' \in Nat /\ chart <= chart'
    BY <1>0, <2>1
  <2>3. CacheOK(cache, chart')
    BY <1>0, <2>2, EntryGrows
  <2>4. QED
    BY <2>1, <2>2, <2>3, CacheStays
<1>2. CASE EndBar \/ UNCHANGED vars \/ SecurityLowerTf \/ SecurityLowerTfIntrabar
  <2>1. UNCHANGED <<world, chart, cache, saved, answer>>
    BY <1>2 DEF EndBar, vars, runtimeVars, SecurityLowerTf, SecurityLowerTfIntrabar, RequestLower
  <2>2. QED
    BY <1>0, <2>1, CacheStays
<1>3. CASE SecurityInvalid
  BY <1>3, InvalidKeeps
<1>4. CASE Security
  BY <1>4, SecurityKeeps
<1>5. CASE SecurityRaises
  BY <1>5, RaisesKeeps
<1>6. CASE Export
  <2>1. /\ saved' = <<Checkpoint>> /\ UNCHANGED <<world, chart, cache, answer>>
    BY <1>6 DEF Export, runtimeVars
  <2>2. saved'[1].chart = chart /\ saved'[1].cache = cache
    BY <2>1 DEF Checkpoint
  <2>3. \A entries, n : CacheOK(entries, n)' = CacheOK(entries, n)
    BY <2>1, SameWorld
  <2>4. AnswersFromScratch' /\ AnswerOK'
    <3>1. Scratch' = Scratch
      BY <2>1, SameWorld
    <3>2. QED
      BY <2>1, <3>1 DEF SecurityInv, AnswersFromScratch, AnswerOK
  <2>5. QED
    BY <1>0, <2>1, <2>2, <2>3, <2>4 DEF SecurityInv
<1>7. CASE Restore
  <2>1. /\ saved # <<>> /\ chart' = saved[1].chart /\ cache' = saved[1].cache
        /\ UNCHANGED <<world, answer, saved>>
    BY <1>7 DEF Restore
  <2>2. \A entries, n : CacheOK(entries, n)' = CacheOK(entries, n)
    BY <2>1, SameWorld
  <2>3. AnswersFromScratch' /\ AnswerOK'
    <3>1. Scratch' = Scratch
      BY <2>1, SameWorld
    <3>2. QED
      BY <2>1, <3>1 DEF SecurityInv, AnswersFromScratch, AnswerOK
  <2>4. QED
    BY <2>1, <2>2, <2>3 DEF SecurityInv
<1>8. QED
  BY <1>1, <1>2, <1>3, <1>4, <1>5, <1>6, <1>7 DEF Next

\* The cache is in order and the answers are true in every state.
THEOREM SecurityInductive == Spec => [](LogInv /\ SecurityInv)
<1>1. Init => LogInv /\ SecurityInv
  BY LogStarts, SecurityStarts
<1>2. LogInv /\ SecurityInv /\ [Next]_vars => (LogInv /\ SecurityInv)'
  BY LogKept, SecurityKept
<1>3. QED
  BY <1>1, <1>2, PTL DEF Spec

\* security.py:313-336: a child has one value for each bar it ended, of these bars and
\* in their order, however often it raised, and a fresh child's if it never did.
THEOREM ChildStaysInStep == Spec => []ChildInStep
<1>1. SecurityInv => ChildInStep
  <2> SUFFICES ASSUME SecurityInv, NEW key \in DOMAIN cache, NEW entry, entry = cache[key]
               PROVE  /\ entry.ended = SubSeq(entry.bars, 1, Len(entry.values))
                      /\ \A i \in 1..Len(entry.values) :
                           /\ Series(entry.values[i]) = Series(Fresh(entry.bars, i))
                           /\ Intact(entry) => entry.values[i] = Fresh(entry.bars, i)
                      /\ Len(entry.fed) \in Len(entry.ended)..Len(entry.begun)
    BY DEF ChildInStep
  <2>1. entry \in Entries /\ ChildOK(entry)
    BY DEF SecurityInv, CacheOK, EntryOK
  <2>2. Valued(entry.bars, entry.values, Len(entry.values), Intact(entry))
    BY <2>1 DEF ChildOK
  <2>3. \A i \in 1..Len(entry.values) :
          /\ Series(entry.values[i]) = Series(Fresh(entry.bars, i))
          /\ Intact(entry) => entry.values[i] = Fresh(entry.bars, i)
    BY <2>2 DEF Valued, Intact
  <2>4. Len(entry.fed) \in Len(entry.ended)..Len(entry.begun)
    BY <2>1, EntryFields DEF ChildOK, FedOK
  <2>5. QED
    BY <2>1, <2>3, <2>4 DEF ChildOK
<1>2. QED
  BY <1>1, SecurityInductive, PTL

\* security.py:164-256 and 296-347: an answer is that of one merge over freshly
\* fetched bars and a fresh child, whatever calls and rollbacks went before; of a child
\* in which an expression has raised, its bar and its series are.
THEOREM AnswersCorrect == Spec => []AnswersFromScratch
<1>1. SecurityInv => AnswersFromScratch
  BY DEF SecurityInv
<1>2. QED
  BY <1>1, SecurityInductive, PTL

-----------------------------------------------------------------------------
(* No answer from the future *)

\* What is fetched lies in the data, in its order.
Lies(bars, f) ==
  /\ \A k \in 1..Len(bars) : f[k] \in 1..Len(world.bars) /\ bars[k] = world.bars[f[k]]
  /\ \A k, l \in 1..Len(bars) : k < l => f[k] < f[l]

\* The first bars of what is picked are picked.
LEMMA FetchedLies ==
  ASSUME world \in Worlds, NEW start, NEW end
  PROVE  \E f : Lies(GetBars(world.bars, start, end, world.count), f)
<1>1. PICK places : places = {i \in 1..Len(world.bars) :
                                start <= world.bars[i].time /\ world.bars[i].time < end}
  OBVIOUS
<1>2. PICK p : p = Pick(world.bars, places)
  OBVIOUS
<1>3. world.bars \in Seq(BarRecords) /\ world.count \in Nat \cup {None} /\ None \notin Int
  BY SecurityAssumption, FeedsOK DEF BarsOK
<1>4. PICK f : Along(f, world.bars, places, Len(world.bars), p)
  BY <1>2, <1>3, PickAlong
<1>5. /\ p \in Seq(BarRecords)
      /\ \A k \in 1..Len(p) : f[k] \in 1..Len(world.bars) /\ p[k] = world.bars[f[k]]
      /\ \A k, l \in 1..Len(p) : k < l => f[k] < f[l]
  BY <1>4 DEF Along
<1>6. PICK bars : bars = FirstBars(p, world.count)
  OBVIOUS
<1>7. /\ \A k \in 1..Len(bars) : k \in 1..Len(p) /\ bars[k] = p[k]
  <2>1. CASE world.count = None
    BY <1>6, <2>1 DEF FirstBars
  <2>2. CASE world.count # None
    <3>1. PICK n \in Nat : n = Smaller(world.count, Len(p)) /\ n <= Len(p)
      <4>1. world.count \in Nat /\ Len(p) \in Nat
        BY <1>3, <1>5, <2>2
      <4>2. QED
        BY <4>1 DEF Smaller
    <3>2. bars = SubSeq(p, 1, n)
      BY <1>6, <2>2, <3>1 DEF FirstBars
    <3>3. QED
      BY <1>5, <3>1, <3>2
  <2>3. QED
    BY <2>1, <2>2
<1>8. Lies(bars, f)
  BY <1>5, <1>7 DEF Lies
<1>9. GetBars(world.bars, start, end, world.count) = bars
  BY <1>1, <1>2, <1>6 DEF GetBars
<1>10. QED
  BY <1>8, <1>9

\* The value promised on a chart bar is that of a bar closed by its end.
FromClosed(bars, c) ==
  \E k \in 1..Len(bars) : /\ EffectiveCloseTime(bars, k) <= CloseTime(c)
                          /\ Promised(bars, c).bar = bars[k].time

\* Without gaps, a value told is that of a bar which has been reached.
LEMMA PromisedShown ==
  ASSUME NEW bars, BarsOK(bars), WorldOK, world.gaps = FALSE, world.lookahead = FALSE,
         NEW c, c.time \in Int, CloseTime(c) \in Int, Promised(bars, c) # NA
  PROVE  FromClosed(bars, c)
<1>0. /\ None \notin Int /\ Day \in Nat \ {0} /\ world.lookahead \in BOOLEAN
      /\ Len(bars) \in Nat
  BY LengthIsNumber DEF WorldOK, BarsOK
<1>1. PICK n : n = Len(bars)
  OBVIOUS
<1>2. PICK next : next = Skip(1, n, Got(bars, c, n))
  OBVIOUS
<1>3. HeldStop(bars, c, n, 1, next)
  <2>1. 1 \in 1..(n + 1) /\ \A i \in 1..(1 - 1) : Reached(bars, i, c)
    BY <1>0, <1>1
  <2>2. QED
    BY <1>0, <1>1, <1>2, <2>1, HeldShown
<1>4. /\ next \in 1..(n + 1)
      /\ \A i \in 1..(next - 1) : Reached(bars, i, c)
      /\ \A i : i \in Shown(bars, c) <=> i \in 1..(next - 1)
  BY <1>3 DEF HeldStop
<1>5. next \in Nat
  BY <1>0, <1>1, <1>4
<1>6. Shown(bars, c) \subseteq Int
  BY <1>0, ShownPlaces
<1>7. /\ 1 < next /\ next - 1 \in 1..n /\ next - 1 \in 1..(next - 1)
  <2>1. Shown(bars, c) # {}
    BY <1>6, PromisedLast
  <2>2. QED
    BY <1>0, <1>1, <1>4, <2>1
<1>8. Reached(bars, next - 1, c)
  BY <1>4, <1>7
<1>9. EffectiveCloseTime(bars, next - 1) <= CloseTime(c)
  BY <1>8 DEF Reached
<1>10. Promised(bars, c).bar = bars[next - 1].time
  <2>1. next - 1 \in Shown(bars, c) /\ \A j \in Shown(bars, c) : j <= next - 1
    BY <1>4, <1>5, <1>7
  <2>2. Promised(bars, c) = Fresh(bars, next - 1)
    BY <1>6, <2>1, PromisedLast
  <2>3. QED
    BY <2>2 DEF Fresh, Expression
<1>11. QED
  BY <1>1, <1>7, <1>9, <1>10 DEF FromClosed

\* Of bars at least the timeframe apart, a closing time inferred from the neighbours is
\* not before the period ends, when a day is as long as the timeframe or longer.
LEMMA InferredLate ==
  ASSUME world \in Worlds, Period <= Day, NEW bars, BarsOK(bars), NEW f, Lies(bars, f),
         NEW k \in 1..Len(bars)
  PROVE  Closes(bars[k]) <= EffectiveCloseTime(bars, k)
<1>0. /\ None \notin Int /\ Day \in Nat \ {0} /\ Len(bars) \in Nat
  BY WorldFits, LengthIsNumber DEF WorldOK, BarsOK
<1>1. PICK p, d : p = Period /\ d = Day /\ p \in Int /\ d \in Int /\ p <= d
  BY SecurityAssumption DEF SecurityAssumption
<1>2. \A i \in 1..Len(bars) : bars[i].time \in Int
  BY <1>0, ClosesRise
<1>3. ASSUME NEW i \in 1..Len(bars), NEW j \in 1..Len(bars), i < j
      PROVE  bars[i].time + p <= bars[j].time
  <2>1. \A x, y \in 1..Len(world.bars) :
          x < y => world.bars[x].time + Period <= world.bars[y].time
    BY SecurityAssumption DEF SecurityAssumption
  <2>2. /\ f[i] \in 1..Len(world.bars) /\ f[j] \in 1..Len(world.bars) /\ f[i] < f[j]
        /\ bars[i] = world.bars[f[i]] /\ bars[j] = world.bars[f[j]]
    BY <1>3 DEF Lies
  <2>3. QED
    BY <1>1, <2>1, <2>2
<1>4. CASE bars[k].close # None
  BY <1>0, <1>4, ClosesRise DEF EffectiveCloseTime, Closes
<1>5. CASE bars[k].close = None /\ k < Len(bars)
  <2>1. Closes(bars[k]) = bars[k].time + p - 1
        /\ EffectiveCloseTime(bars, k) = bars[k + 1].time - 1
    BY <1>1, <1>5 DEF EffectiveCloseTime, Closes
  <2>2. k + 1 \in 1..Len(bars) /\ k < k + 1
    BY <1>0, <1>5
  <2>3. bars[k].time + p <= bars[k + 1].time /\ bars[k].time \in Int /\ bars[k + 1].time \in Int
    BY <1>2, <1>3, <2>2
  <2>4. QED
    BY <1>1, <2>1, <2>3
<1>6. CASE bars[k].close = None /\ k = Len(bars)
  <2>1. Closes(bars[k]) = bars[k].time + p - 1
    BY <1>1, <1>6 DEF Closes
  <2>2. CASE k > 1
    <3>1. EffectiveCloseTime(bars, k) = bars[k].time - 1 + (bars[k].time - bars[k - 1].time)
      BY <1>6, <2>2 DEF EffectiveCloseTime
    <3>2. k - 1 \in 1..Len(bars) /\ k - 1 < k
      BY <1>0, <2>2
    <3>3. bars[k - 1].time + p <= bars[k].time
          /\ bars[k].time \in Int /\ bars[k - 1].time \in Int
      BY <1>2, <1>3, <3>2
    <3>4. QED
      BY <1>1, <2>1, <3>1, <3>3
  <2>3. CASE ~(k > 1)
    <3>1. EffectiveCloseTime(bars, k) = bars[k].time - 1 + d
      BY <1>1, <1>6, <2>3 DEF EffectiveCloseTime
    <3>2. bars[k].time \in Int
      BY <1>2
    <3>3. QED
      BY <1>1, <2>1, <3>1, <3>2
  <2>4. QED
    BY <2>2, <2>3
<1>7. QED
  BY <1>0, <1>4, <1>5, <1>6

\* security.py:65-100: with lookahead_off and gaps_off every answer comes from a bar that
\* has closed by the close of the chart bar it is told for.
THEOREM AnswersLookBack == Spec => []NoLookahead
<1>1. SecurityInv => NoLookahead
  <2> SUFFICES ASSUME SecurityInv, ~world.lookahead, ~world.gaps, Period <= Day,
                      NEW i \in 1..Len(world.bars), answer.value # NA,
                      answer.value.bar = world.bars[i].time
               PROVE  Closes(world.bars[i]) <= CloseTime(world.chart[answer.index + 1])
    BY DEF NoLookahead, KnownAtClose
  <2>1. world \in Worlds /\ WorldOK /\ BarsOK(world.bars)
    BY WorldFits, SecurityAssumption, FeedsOK DEF SecurityInv
  <2>2. world.gaps = FALSE /\ world.lookahead = FALSE
    BY <2>1 DEF WorldOK
  <2>3. /\ answer.chart \in 0..Len(world.chart) /\ answer.chart > 0
        /\ answer.index \in (answer.chart - 2)..(answer.chart - 1)
        /\ Series(answer.value) = Series(Scratch)
    <3>1. answer.chart \in 0..Len(world.chart) /\ answer.chart # 0
      BY DEF SecurityInv, AnswerOK
    <3>2. Len(world.chart) \in Nat
      BY <2>1, LengthIsNumber DEF WorldOK, BarsOK
    <3>3. answer.chart > 0
      BY <3>1, <3>2
    <3>4. QED
      BY <3>1, <3>3 DEF SecurityInv, AnswerOK, AnswersFromScratch
  <2>4. PICK m : m = answer.index + 1
    OBVIOUS
  <2>5. /\ m \in 1..Len(world.chart) /\ Promised(Available, world.chart[m]) # NA
        /\ answer.value.bar = Promised(Available, world.chart[m]).bar
    <3>1. Len(world.chart) \in Nat
      BY <2>1, LengthIsNumber DEF WorldOK, BarsOK
    <3>2. Scratch # NA /\ answer.value.bar = Scratch.bar
      <4>1. Series(answer.value) = <<answer.value.bar, answer.value.ended>>
        BY DEF Series
      <4>2. Series(Scratch) # <<>>
        BY <2>3, <4>1
      <4>3. Scratch # NA /\ Series(Scratch) = <<Scratch.bar, Scratch.ended>>
        BY <4>2 DEF Series
      <4>4. QED
        <5>1. PICK a, b, d, e : /\ a = answer.value.bar /\ b = answer.value.ended
                                /\ d = Scratch.bar /\ e = Scratch.ended
          OBVIOUS
        <5>2. <<a, b>> = <<d, e>>
          BY <2>3, <4>1, <4>3, <5>1
        <5>3. a = d
          BY <5>2
        <5>4. QED
          BY <4>3, <5>1, <5>3
    <3>3. ~(answer.index < 0)
      BY <3>2 DEF Scratch
    <3>4. QED
      BY <2>3, <2>4, <3>1, <3>2, <3>3 DEF Scratch
  <2>6. PICK c : c = world.chart[m] /\ c.time \in Int /\ CloseTime(c) \in Int
    BY <2>1, <2>5, ChartRises
  <2>7. PICK start, end : Available = GetBars(world.bars, start, end, world.count)
    BY DEF Available
  <2>8. PICK bars : bars = Available
    OBVIOUS
  <2>9. BarsOK(bars)
    BY <2>1, <2>7, <2>8, WorldFits
  <2>10. PICK f : Lies(bars, f)
    BY <2>1, <2>7, <2>8, FetchedLies
  <2>11. PICK k \in 1..Len(bars) : /\ EffectiveCloseTime(bars, k) <= CloseTime(c)
                                   /\ answer.value.bar = bars[k].time
    <3>1. answer.value.bar = Promised(bars, c).bar /\ Promised(bars, c) # NA
      BY <2>5, <2>6, <2>8
    <3>2. FromClosed(bars, c)
      BY <2>1, <2>2, <2>6, <2>9, <3>1, PromisedShown
    <3>3. QED
      BY <3>1, <3>2 DEF FromClosed
  <2>12. Closes(bars[k]) <= EffectiveCloseTime(bars, k)
    BY <2>1, <2>9, <2>10, InferredLate
  <2>13. bars[k] = world.bars[f[k]] /\ f[k] \in 1..Len(world.bars)
    BY <2>10 DEF Lies
  <2>14. f[k] = i
    <3>1. \A x, y \in 1..Len(world.bars) : x < y => world.bars[x].time < world.bars[y].time
      BY <2>1 DEF BarsOK
    <3>2. \A x \in 1..Len(world.bars) : world.bars[x].time \in Int
      BY <2>1, ClosesRise DEF WorldOK
    <3>3. world.bars[f[k]].time = world.bars[i].time
      BY <2>11, <2>13
    <3>4. PICK j : j = f[k]
      OBVIOUS
    <3>5. j \in 1..Len(world.bars) /\ world.bars[j].time = world.bars[i].time
      BY <2>13, <3>3, <3>4
    <3>6. ~(j < i) /\ ~(i < j)
      BY <3>1, <3>2, <3>5
    <3>7. QED
      BY <3>4, <3>5, <3>6
  <2>15. EffectiveCloseTime(bars, k) \in Int /\ Closes(bars[k]) \in Int
    <3>1. /\ bars[k].time \in Int /\ EffectiveCloseTime(bars, k) \in Int
      BY <2>1, <2>9, ClosesRise DEF WorldOK
    <3>2. Period \in Int
      BY SecurityAssumption DEF SecurityAssumption
    <3>3. bars[k] \in BarRecords
      BY <2>9 DEF BarsOK
    <3>4. bars[k].close \in Int \cup {None}
      BY <3>3 DEF BarRecords
    <3>5. QED
      BY <3>1, <3>2, <3>4 DEF Closes
  <2>16. Closes(world.bars[i]) = Closes(bars[k])
    BY <2>13, <2>14
  <2>17. QED
    BY <2>4, <2>6, <2>11, <2>12, <2>15, <2>16
<1>2. QED
  BY <1>1, SecurityInductive, PTL

-----------------------------------------------------------------------------
(* Lower bars *)

Fits(bar, c) == c.time <= bar.time /\ CloseTime(bar) <= CloseTime(c)

\* Of the chosen lower bars, those that lie in the chart bar and under the cap.
Capped(places, c) ==
  {i \in 1..Len(world.lower) :
     /\ i \in places /\ Fits(world.lower[i], c)
     /\ world.count # None => Rank(places, i) <= world.count}

\* An array holds the lower bars at these places, oldest first.
HoldsBars(bars, places) ==
  /\ {bars[i] : i \in 1..Len(bars)} = {world.lower[i] : i \in places}
  /\ Len(bars) = Cardinality(places)
  /\ \A i, j \in 1..Len(bars) : i < j => bars[i].time < bars[j].time

\* So many numbers.
LEMMA Counted ==
  ASSUME NEW n \in Nat
  PROVE  IsFiniteSet(1..n) /\ Cardinality(1..n) = n
<1>1. IsFiniteSet(1..n) /\ Cardinality(1..n) = IF 1 > n THEN 0 ELSE n - 1 + 1
  BY FS_Interval
<1>2. QED
  BY <1>1

\* The first of a sequence, up to the cap.
IsFirst(first, p, count) ==
  /\ first \in Seq(BarRecords)
  /\ \A k \in Nat : k \in 1..Len(first) <=> k \in 1..Len(p) /\ (count # None => k <= count)
  /\ \A k \in 1..Len(first) : first[k] = p[k]

LEMMA FirstFew ==
  ASSUME NEW p \in Seq(BarRecords), NEW count \in Nat \cup {None}, None \notin Int
  PROVE  IsFirst(FirstBars(p, count), p, count)
<1>1. Len(p) \in Nat
  BY LengthIsNumber
<1>2. CASE count = None
  <2>1. FirstBars(p, count) = p
    BY <1>2 DEF FirstBars
  <2>2. IsFirst(p, p, count)
    BY <1>2 DEF IsFirst
  <2>3. QED
    BY <2>1, <2>2
<1>3. CASE count # None
  <2>1. PICK n \in Nat : n = Smaller(count, Len(p)) /\ n <= Len(p) /\ n <= count
                         /\ (n = count \/ n = Len(p))
    BY <1>1, <1>3 DEF Smaller
  <2>2. PICK s : s = SubSeq(p, 1, n)
    OBVIOUS
  <2>3. s \in Seq(BarRecords) /\ Len(s) = n /\ \A k \in 1..n : s[k] = p[k]
    BY <2>1, <2>2
  <2>4. FirstBars(p, count) = s
    BY <1>3, <2>1, <2>2 DEF FirstBars
  <2>5. \A k : k \in 1..n <=> k \in 1..Len(p) /\ k <= count
    BY <1>1, <1>3, <2>1
  <2>6. IsFirst(s, p, count)
    BY <1>3, <2>3, <2>5 DEF IsFirst
  <2>7. QED
    BY <2>4, <2>6
<1>4. QED
  BY <1>2, <1>3

\* The bars inside a chart bar, of the first that are chosen, are the chosen ones that
\* lie in it and are under the cap.
LEMMA InsideFirst ==
  ASSUME BarsOK(world.lower), world.count \in Nat \cup {None}, None \notin Int,
         NEW c, NEW places, NEW bars, bars = FirstBars(Pick(world.lower, places), world.count)
  PROVE  HoldsBars(Inside(bars, c), Capped(places, c))
<1>1. PICK lower, n : lower = world.lower /\ n = Len(lower)
  OBVIOUS
<1>2. lower \in Seq(BarRecords) /\ n \in Nat
  BY <1>1, LengthIsNumber DEF BarsOK
<1>3. PICK p : p = Pick(lower, places)
  OBVIOUS
<1>4. PICK f : Along(f, lower, places, n, p)
  BY <1>1, <1>2, <1>3, PickAlong
<1>5. /\ p \in Seq(BarRecords)
      /\ \A k \in 1..Len(p) : f[k] \in 1..n /\ f[k] \in places /\ p[k] = lower[f[k]]
                              /\ Rank(places, f[k]) = k
      /\ \A i \in 1..n : i \in places => \E k \in 1..Len(p) : f[k] = i
      /\ \A k, l \in 1..Len(p) : k < l => f[k] < f[l]
  BY <1>4 DEF Along
<1>6. /\ bars \in Seq(BarRecords)
      /\ \A k \in Nat : k \in 1..Len(bars) <=> k \in 1..Len(p) /\ (world.count # None => k <= world.count)
      /\ \A k \in 1..Len(bars) : bars[k] = p[k]
  <2>1. p \in Seq(BarRecords)
    BY <1>5
  <2>2. bars = FirstBars(p, world.count)
    BY <1>3, <1>1
  <2>3. IsFirst(bars, p, world.count)
    BY <2>1, <2>2, FirstFew
  <2>4. QED
    BY <2>3 DEF IsFirst
<1>7. PICK fit : fit = {k \in 1..Len(bars) : Fits(bars[k], c)}
  OBVIOUS
<1>8. PICK told : told = Pick(bars, fit)
  OBVIOUS
<1>9. told = Inside(bars, c)
  BY <1>7, <1>8 DEF Inside, Fits
<1>10. PICK g : Along(g, bars, fit, Len(bars), told)
  BY <1>6, <1>8, PickAlong
<1>11. /\ told \in Seq(BarRecords)
       /\ \A m \in 1..Len(told) : g[m] \in 1..Len(bars) /\ g[m] \in fit /\ told[m] = bars[g[m]]
       /\ \A k \in 1..Len(bars) : k \in fit => \E m \in 1..Len(told) : g[m] = k
       /\ \A k, l \in 1..Len(told) : k < l => g[k] < g[l]
  BY <1>10 DEF Along
<1>12. PICK S : S = Capped(places, c)
  OBVIOUS
<1>13. PICK h : h = [m \in 1..Len(told) |-> f[g[m]]]
  OBVIOUS
<1>14. ASSUME NEW m \in 1..Len(told)
       PROVE  h[m] \in S /\ told[m] = lower[h[m]]
  <2>1. g[m] \in 1..Len(bars) /\ Fits(bars[g[m]], c) /\ told[m] = bars[g[m]] /\ h[m] = f[g[m]]
    BY <1>7, <1>11, <1>13
  <2>2. PICK k : k = g[m]
    OBVIOUS
  <2>3. k \in 1..Len(p) /\ (world.count # None => k <= world.count) /\ bars[k] = p[k]
    BY <1>6, <2>1, <2>2
  <2>4. f[k] \in 1..n /\ f[k] \in places /\ p[k] = lower[f[k]] /\ Rank(places, f[k]) = k
    BY <1>5, <2>3
  <2>5. QED
    BY <1>1, <1>12, <2>1, <2>2, <2>3, <2>4 DEF Capped
<1>15. ASSUME NEW i \in S
       PROVE  \E m \in 1..Len(told) : h[m] = i
  <2>1. /\ i \in 1..n /\ i \in places /\ Fits(lower[i], c)
        /\ world.count # None => Rank(places, i) <= world.count
    BY <1>1, <1>12, <1>15 DEF Capped
  <2>2. PICK k \in 1..Len(p) : f[k] = i
    BY <1>5, <2>1
  <2>3. p[k] = lower[i] /\ Rank(places, i) = k
    BY <1>5, <2>2
  <2>4. k \in 1..Len(bars) /\ bars[k] = lower[i]
    BY <1>6, <2>1, <2>3
  <2>5. k \in fit
    BY <1>7, <2>1, <2>4
  <2>6. PICK m \in 1..Len(told) : g[m] = k
    BY <1>11, <2>4, <2>5
  <2>7. QED
    BY <1>13, <2>2, <2>6
<1>16. ASSUME NEW k \in 1..Len(told), NEW l \in 1..Len(told), k < l
       PROVE  h[k] < h[l]
  <2>1. g[k] \in 1..Len(bars) /\ g[l] \in 1..Len(bars) /\ g[k] < g[l]
    BY <1>11, <1>16
  <2>2. \A i \in 1..Len(bars) : i \in 1..Len(p)
    <3>1. Len(bars) \in Nat
      BY <1>6, LengthIsNumber
    <3>2. \A i \in 1..Len(bars) : i \in Nat
      BY <3>1
    <3>3. QED
      BY <1>6, <3>2
  <2>3. g[k] \in 1..Len(p) /\ g[l] \in 1..Len(p)
    BY <2>1, <2>2
  <2>4. f[g[k]] < f[g[l]]
    BY <1>5, <2>1, <2>3
  <2>5. QED
    BY <1>13, <2>4
<1>17. {told[m] : m \in 1..Len(told)} = {lower[i] : i \in S}
  BY <1>14, <1>15
<1>18. S \subseteq 1..n /\ S \subseteq Int
  BY <1>1, <1>2, <1>12 DEF Capped
<1>19. Len(told) = Cardinality(S)
  <2>1. Len(told) \in Nat
    BY <1>11, LengthIsNumber
  <2>2. IsFiniteSet(1..Len(told)) /\ Cardinality(1..Len(told)) = Len(told)
    BY <2>1, Counted
  <2>3. h \in Bijection(1..Len(told), S)
    <3>1. h \in [1..Len(told) -> S]
      BY <1>13, <1>14
    <3>2. \A k, l \in 1..Len(told) : k # l => h[k] # h[l]
      <4>1. \A k \in 1..Len(told) : h[k] \in Int
        BY <1>14, <1>18
      <4>2. \A k, l \in 1..Len(told) : k # l => k < l \/ l < k
        OBVIOUS
      <4>3. \A k, l \in 1..Len(told) : k < l => h[k] < h[l]
        BY <1>16
      <4>4. QED
        BY <4>1, <4>2, <4>3
    <3>3. \A i \in S : \E m \in 1..Len(told) : h[m] = i
      BY <1>15
    <3>4. QED
      BY <3>1, <3>2, <3>3 DEF Bijection, Injection, Surjection, IsInjective
  <2>4. ExistsBijection(1..Len(told), S)
    BY <2>3 DEF ExistsBijection
  <2>5. QED
    BY <2>2, <2>4, FS_Bijection
<1>20. \A k, l \in 1..Len(told) : k < l => told[k].time < told[l].time
  <2>1. \A i, j \in 1..n : i < j => lower[i].time < lower[j].time
    BY <1>1 DEF BarsOK
  <2>2. \A k \in 1..Len(told) : h[k] \in 1..n /\ told[k] = lower[h[k]]
    BY <1>14, <1>18
  <2>3. \A k, l \in 1..Len(told) : k < l => h[k] < h[l]
    BY <1>16
  <2>4. QED
    BY <2>1, <2>2, <2>3
<1>21. PICK array : array = Inside(bars, c)
  OBVIOUS
<1>22. HoldsBars(told, S)
  BY <1>1, <1>17, <1>19, <1>20 DEF HoldsBars
<1>23. QED
  BY <1>9, <1>12, <1>22

\* What is cached is what a fetch for its key gives.
LowerCacheOK(entries) ==
  \A key \in DOMAIN entries :
    entries[key] = GetBars(world.lower, key.start, key.end, world.count)

LowerInv ==
  /\ LowerCacheOK(lowerCache)
  /\ saved # <<>> => LowerCacheOK(saved[1].lowerCache)
  /\ IntrabarsInside

\* The lower bars of a world.
LEMMA LowerFits ==
  ASSUME world \in Worlds
  PROVE  /\ BarsOK(world.lower) /\ BarsOK(world.chart) /\ None \notin Int
         /\ world.count \in Nat \cup {None} /\ Day \in Nat \ {0}
         /\ world.intrabar \in BOOLEAN /\ world.dataEnd \in Nat \cup {None}
<1>1. world.intrabar \in BOOLEAN /\ world.dataEnd \in Nat \cup {None}
  BY SecurityAssumption DEF SecurityAssumption
<1>2. QED
  BY <1>1, SecurityAssumption, FeedsOK

\* The lower bars a call on a chart bar tells, with no cache.
FitPlaces(c, end) ==
  {i \in 1..Len(world.lower) :
     /\ c.time <= world.lower[i].time /\ CloseTime(world.lower[i]) <= CloseTime(c)
     /\ world.intrabar \/ world.lower[i].time < end}

RankFromStart(i) == Cardinality({j \in 1..i : world.lower[j].time >= world.chart[1].time})
NthIn(places, i) == Cardinality({j \in places : j <= i})

ToldPlaces(c, end) ==
  {i \in FitPlaces(c, end) :
     world.count # None =>
       (IF world.intrabar THEN NthIn(FitPlaces(c, end), i) ELSE RankFromStart(i)) <= world.count}

EndOf(c) == IF world.dataEnd = None THEN CloseTime(c) ELSE world.dataEnd

ArrayOK(told) ==
  told.chart > 0 =>
    HoldsBars(told.bars, ToldPlaces(world.chart[told.chart], EndOf(world.chart[told.chart])))

\* That is what the property says of the last array.
LEMMA ArrayIsProperty == IntrabarsInside <=> ArrayOK(lowerAnswer)
BY DEF IntrabarsInside, ArrayOK, HoldsBars, ToldPlaces, FitPlaces, EndOf, RankFromStart, NthIn

\* A data provider: the first bars of the whole request, and of these the ones inside.
LEMMA DataPlaces ==
  ASSUME BarsOK(world.lower), ~world.intrabar, NEW c, NEW end, NEW places,
         world.chart[1].time <= c.time, world.chart[1].time \in Int, c.time \in Int,
         end \in Int, world.count \in Nat \cup {None}, None \notin Int,
         places = {i \in 1..Len(world.lower) :
                     world.chart[1].time <= world.lower[i].time /\ world.lower[i].time < end}
  PROVE  Capped(places, c) = ToldPlaces(c, end)
<1>1. PICK lower, n, start : lower = world.lower /\ n = Len(lower) /\ start = world.chart[1].time
  OBVIOUS
<1>2. n \in Nat /\ \A i \in 1..n : lower[i].time \in Int
  <2>1. lower \in Seq(BarRecords)
    BY <1>1 DEF BarsOK
  <2>2. n \in Nat /\ \A i \in 1..n : lower[i] \in BarRecords
    BY <1>1, <2>1, LengthIsNumber
  <2>3. QED
    BY <2>2 DEF BarRecords
<1>3. \A i, j \in 1..n : j <= i => lower[j].time <= lower[i].time
  <2>1. \A i, j \in 1..n : i < j => lower[i].time < lower[j].time
    BY <1>1 DEF BarsOK
  <2>2. \A i, j \in 1..n : j <= i => j = i \/ j < i
    BY <1>2
  <2>3. QED
    BY <1>2, <2>1, <2>2
<1>4. ASSUME NEW i \in 1..n, lower[i].time < end
      PROVE  Rank(places, i) = RankFromStart(i)
  <2>1. \A j \in 1..i : j \in 1..n /\ lower[j].time <= lower[i].time
    BY <1>2, <1>3
  <2>2. \A j \in 1..i : j \in places <=> lower[j].time >= start
    BY <1>1, <1>2, <1>4, <2>1
  <2>3. {j \in 1..i : j \in places} = {j \in 1..i : world.lower[j].time >= world.chart[1].time}
    BY <1>1, <2>2
  <2>4. QED
    BY <2>3 DEF Rank, RankFromStart
<1>5. ASSUME NEW i \in 1..n
      PROVE  i \in Capped(places, c) <=> i \in ToldPlaces(c, end)
  <2>1. i \in places /\ Fits(lower[i], c) <=> i \in FitPlaces(c, end)
    BY <1>1, <1>2 DEF Fits, FitPlaces
  <2>2. i \in places => lower[i].time < end
    BY <1>1
  <2>3. i \in places => Rank(places, i) = RankFromStart(i)
    BY <1>4, <2>2
  <2>4. QED
    BY <1>1, <2>1, <2>3 DEF Capped, ToldPlaces
<1>6. Capped(places, c) \subseteq 1..n /\ ToldPlaces(c, end) \subseteq 1..n
  BY <1>1 DEF Capped, ToldPlaces, FitPlaces
<1>7. QED
  BY <1>5, <1>6

\* An intrabar provider: the first bars of the chart bar.
LEMMA IntrabarPlaces ==
  ASSUME world.intrabar, BarsOK(world.lower), NEW c, NEW end, NEW places,
         places = {i \in 1..Len(world.lower) :
                     c.time <= world.lower[i].time /\ CloseTime(world.lower[i]) <= CloseTime(c)}
  PROVE  Capped(places, c) = ToldPlaces(c, end)
<1>1. PICK n : n = Len(world.lower)
  OBVIOUS
<1>2. n \in Nat
  BY <1>1, LengthIsNumber DEF BarsOK
<1>3. FitPlaces(c, end) = places
  BY DEF FitPlaces
<1>4. ASSUME NEW i \in 1..n
      PROVE  Rank(places, i) = NthIn(places, i)
  <2>1. {j \in 1..i : j \in places} = {j \in places : j <= i}
    BY <1>1, <1>2
  <2>2. QED
    BY <2>1 DEF Rank, NthIn
<1>5. \A i \in 1..n : i \in places => Fits(world.lower[i], c)
  BY DEF Fits
<1>6. ASSUME NEW i \in 1..n
      PROVE  i \in Capped(places, c) <=> i \in ToldPlaces(c, end)
  BY <1>1, <1>3, <1>4, <1>5 DEF Capped, ToldPlaces
<1>7. Capped(places, c) \subseteq 1..n /\ ToldPlaces(c, end) \subseteq 1..n
  BY <1>1, <1>3 DEF Capped, ToldPlaces
<1>8. QED
  BY <1>6, <1>7

\* The chart bar of a call, and the end of its request.
LEMMA CallBar ==
  ASSUME LogInv, SecurityInv, open
  PROVE  /\ chart > 0 /\ ChartBar = world.chart[chart]
         /\ world.chart[1].time <= ChartBar.time
         /\ world.chart[1].time \in Int /\ ChartBar.time \in Int
         /\ RequestEnd = EndOf(ChartBar)
<1>1. chart \in 1..Len(world.chart) /\ BarsOK(world.chart)
  BY AskedWhere, LowerFits DEF SecurityInv
<1>2. Len(world.chart) \in Nat /\ world.chart[1] \in BarRecords /\ world.chart[chart] \in BarRecords
  BY <1>1, LengthIsNumber DEF BarsOK
<1>3. world.chart[1].time \in Int /\ world.chart[chart].time \in Int
  BY <1>2 DEF BarRecords
<1>4. world.chart[1].time <= world.chart[chart].time
  <2>1. CASE chart = 1
    BY <1>3, <2>1
  <2>2. CASE chart # 1
    <3>1. 1 \in 1..Len(world.chart) /\ 1 < chart
      BY <1>1, <1>2, <2>2
    <3>2. QED
      BY <1>1, <1>3, <3>1 DEF BarsOK
  <2>3. QED
    BY <2>1, <2>2
<1>5. QED
  BY <1>1, <1>3, <1>4 DEF ChartBar, RequestEnd, EndOf

\* The requested end is an instant.
LEMMA EndIsNumber ==
  ASSUME LogInv, SecurityInv, open
  PROVE  RequestEnd \in Int
<1>1. /\ chart \in 1..Len(world.chart) /\ BarsOK(world.chart)
      /\ world.dataEnd \in Nat \cup {None} /\ None \notin Int
  BY AskedWhere, LowerFits DEF SecurityInv
<1>2. ChartBar \in BarRecords
  BY <1>1, LengthIsNumber DEF BarsOK, ChartBar
<1>3. CloseTime(ChartBar) \in Int
  BY <1>1, <1>2 DEF BarRecords, CloseTime
<1>4. QED
  BY <1>1, <1>3 DEF RequestEnd

\* The world does not change, and so what an array holds and a cache does not.
LEMMA SameLower ==
  ASSUME world' = world
  PROVE  /\ \A told : ArrayOK(told)' = ArrayOK(told)
         /\ \A entries : LowerCacheOK(entries)' = LowerCacheOK(entries)
BY DEF ArrayOK, LowerCacheOK, HoldsBars, ToldPlaces, FitPlaces, EndOf, RankFromStart, NthIn

\* The array a call tells.
LEMMA ArrayTold ==
  ASSUME LogInv, SecurityInv, world' = world, NEW requested, NEW selected,
         RequestLower(requested, selected), NEW places,
         HoldsBars(selected, places), places = ToldPlaces(ChartBar, RequestEnd)
  PROVE  IntrabarsInside'
<1>1. open /\ lowerAnswer'.bars = selected /\ lowerAnswer'.chart = chart
  BY DEF RequestLower, Asks
<1>2. ChartBar = world.chart[chart] /\ RequestEnd = EndOf(ChartBar)
  BY <1>1, CallBar
<1>3. PICK told : told = lowerAnswer'
  OBVIOUS
<1>4. ArrayOK(told)
  BY <1>1, <1>2, <1>3 DEF ArrayOK
<1>5. ArrayOK(told)'
  BY <1>4, SameLower
<1>6. IntrabarsInside' <=> ArrayOK(lowerAnswer)'
  BY DEF IntrabarsInside, ArrayOK, HoldsBars, ToldPlaces, FitPlaces, EndOf, RankFromStart, NthIn
<1>7. ArrayOK(lowerAnswer)' = ArrayOK(told)'
  BY <1>3 DEF ArrayOK
<1>8. QED
  BY <1>5, <1>6, <1>7

\* The data provider's call: what is cached is what a fetch would give.
LEMMA LowerTfTells ==
  ASSUME LogInv, SecurityInv, LowerCacheOK(lowerCache), SecurityLowerTf
  PROVE  IntrabarsInside' /\ LowerCacheOK(lowerCache')
<1>1. PICK bars : bars = LowerBars
  OBVIOUS
<1>2. /\ ~world.intrabar /\ lowerCache' = Put(lowerCache, LowerKey, bars)
      /\ RequestLower(bars, Inside(bars, ChartBar))
  BY <1>1 DEF SecurityLowerTf
<1>3. open /\ world' = world /\ world \in Worlds
  BY <1>2 DEF RequestLower, Asks, SecurityInv
<1>4. bars = GetBars(world.lower, world.chart[1].time, RequestEnd, world.count)
  BY <1>1 DEF LowerBars, LowerKey, LowerCacheOK
<1>5. PICK places :
        places = {i \in 1..Len(world.lower) :
                    world.chart[1].time <= world.lower[i].time /\ world.lower[i].time < RequestEnd}
  OBVIOUS
<1>6. bars = FirstBars(Pick(world.lower, places), world.count)
  BY <1>4, <1>5 DEF GetBars
<1>7. HoldsBars(Inside(bars, ChartBar), Capped(places, ChartBar))
  BY <1>3, <1>6, InsideFirst, LowerFits
<1>8. /\ world.chart[1].time <= ChartBar.time
      /\ world.chart[1].time \in Int /\ ChartBar.time \in Int
  BY <1>3, CallBar
<1>9. RequestEnd \in Int
  BY <1>3, EndIsNumber
<1>10. Capped(places, ChartBar) = ToldPlaces(ChartBar, RequestEnd)
  BY <1>2, <1>3, <1>5, <1>8, <1>9, DataPlaces, LowerFits
<1>11. IntrabarsInside'
  BY <1>2, <1>3, <1>7, <1>10, ArrayTold
<1>12. LowerCacheOK(Put(lowerCache, LowerKey, bars))
  <2>1. PICK next, key : next = Put(lowerCache, key, bars) /\ key = LowerKey
    OBVIOUS
  <2>2. bars = GetBars(world.lower, key.start, key.end, world.count)
    BY <1>4, <2>1 DEF LowerKey
  <2>3. /\ DOMAIN next = DOMAIN lowerCache \cup {key} /\ next[key] = bars
        /\ \A k \in DOMAIN lowerCache : k # key => next[k] = lowerCache[k]
    BY <2>1 DEF Put
  <2>4. LowerCacheOK(next)
    BY <2>2, <2>3 DEF LowerCacheOK
  <2>5. QED
    BY <2>1, <2>4
<1>13. QED
  BY <1>2, <1>11, <1>12

\* The intrabar provider's call, which caches nothing.
LEMMA IntrabarTells ==
  ASSUME LogInv, SecurityInv, SecurityLowerTfIntrabar
  PROVE  IntrabarsInside'
<1>1. PICK bars : bars = GetIntrabarBars(world.lower, ChartBar, world.count)
  OBVIOUS
<1>2. world.intrabar /\ RequestLower(bars, Inside(bars, ChartBar))
  BY <1>1 DEF SecurityLowerTfIntrabar
<1>3. world' = world /\ world \in Worlds
  BY <1>2 DEF RequestLower, SecurityInv
<1>4. PICK places :
        places = {i \in 1..Len(world.lower) :
                    /\ ChartBar.time <= world.lower[i].time
                    /\ CloseTime(world.lower[i]) <= CloseTime(ChartBar)}
  OBVIOUS
<1>5. bars = FirstBars(Pick(world.lower, places), world.count)
  BY <1>1, <1>4 DEF GetIntrabarBars, Inside
<1>6. HoldsBars(Inside(bars, ChartBar), Capped(places, ChartBar))
  BY <1>3, <1>5, InsideFirst, LowerFits
<1>7. Capped(places, ChartBar) = ToldPlaces(ChartBar, RequestEnd)
  BY <1>2, <1>3, <1>4, IntrabarPlaces, LowerFits
<1>8. QED
  BY <1>2, <1>3, <1>6, <1>7, ArrayTold

\* Nothing is cached at the start.
LEMMA LowerStarts == Init => LowerInv
BY DEF Init, LowerInv, LowerCacheOK, IntrabarsInside, NoLowerAnswer

\* A step that tells no array leaves the last one what it was.
LEMMA ArrayStays ==
  ASSUME IntrabarsInside, UNCHANGED <<world, lowerAnswer>>
  PROVE  IntrabarsInside'
<1>1. PICK told : told = lowerAnswer
  OBVIOUS
<1>2. ArrayOK(told)
  BY <1>1, ArrayIsProperty DEF ArrayOK
<1>3. ArrayOK(told)'
  BY <1>2, SameLower
<1>4. lowerAnswer' = told
  BY <1>1
<1>5. ArrayOK(lowerAnswer)'
  BY <1>3, <1>4 DEF ArrayOK
<1>6. IntrabarsInside' <=> ArrayOK(lowerAnswer)'
  BY DEF IntrabarsInside, ArrayOK, HoldsBars, ToldPlaces, FitPlaces, EndOf, RankFromStart, NthIn
<1>7. QED
  BY <1>5, <1>6

\* Every step keeps the lower cache and the last array.
LEMMA LowerKept ==
  ASSUME LogInv, SecurityInv, LowerInv, [Next]_vars
  PROVE  LowerInv'
<1>1. CASE BeginBar \/ EndBar \/ SecurityInvalid \/ Security \/ SecurityRaises \/ UNCHANGED vars
  <2>1. UNCHANGED <<world, lowerCache, lowerAnswer, saved>>
    BY <1>1 DEF BeginBar, EndBar, SecurityInvalid, Security, SecurityRaises, vars, runtimeVars
  <2>2. \A entries : LowerCacheOK(entries)' = LowerCacheOK(entries)
    BY <2>1, SameLower
  <2>3. QED
    BY <2>1, <2>2, ArrayStays DEF LowerInv
<1>2. CASE SecurityLowerTf
  <2>1. UNCHANGED <<world, saved>>
    BY <1>2 DEF SecurityLowerTf, RequestLower
  <2>2. IntrabarsInside' /\ LowerCacheOK(lowerCache')
    BY <1>2, LowerTfTells DEF LowerInv
  <2>3. \A entries : LowerCacheOK(entries)' = LowerCacheOK(entries)
    BY <2>1, SameLower
  <2>4. QED
    BY <2>1, <2>2, <2>3 DEF LowerInv
<1>3. CASE SecurityLowerTfIntrabar
  <2>1. UNCHANGED <<world, lowerCache, saved>>
    BY <1>3 DEF SecurityLowerTfIntrabar, RequestLower
  <2>2. \A entries : LowerCacheOK(entries)' = LowerCacheOK(entries)
    BY <2>1, SameLower
  <2>3. QED
    BY <1>3, <2>1, <2>2, IntrabarTells DEF LowerInv
<1>4. CASE Export
  <2>1. saved' = <<Checkpoint>> /\ UNCHANGED <<world, lowerCache, lowerAnswer>>
    BY <1>4 DEF Export, runtimeVars
  <2>2. saved'[1].lowerCache = lowerCache
    BY <2>1 DEF Checkpoint
  <2>3. \A entries : LowerCacheOK(entries)' = LowerCacheOK(entries)
    BY <2>1, SameLower
  <2>4. QED
    BY <2>1, <2>2, <2>3, ArrayStays DEF LowerInv
<1>5. CASE Restore
  <2>1. /\ saved # <<>> /\ lowerCache' = saved[1].lowerCache
        /\ UNCHANGED <<world, lowerAnswer, saved>>
    BY <1>5 DEF Restore
  <2>2. \A entries : LowerCacheOK(entries)' = LowerCacheOK(entries)
    BY <2>1, SameLower
  <2>3. QED
    BY <2>1, <2>2, ArrayStays DEF LowerInv
<1>6. QED
  BY <1>1, <1>2, <1>3, <1>4, <1>5 DEF Next

\* security.py:351-400 and providers.py:125-176: an array of security_lower_tf holds
\* exactly the lower bars in the chart bar of the call, up to the cap and in order,
\* however old the cached request it is taken from is.
THEOREM ArraysCorrect == Spec => []IntrabarsInside
<1>1. Init => LogInv /\ SecurityInv /\ LowerInv
  BY LogStarts, SecurityStarts, LowerStarts
<1>2. LogInv /\ SecurityInv /\ LowerInv /\ [Next]_vars => (LogInv /\ SecurityInv /\ LowerInv)'
  BY LogKept, SecurityKept, LowerKept
<1>3. LowerInv => IntrabarsInside
  BY DEF LowerInv
<1>4. QED
  BY <1>1, <1>2, <1>3, PTL DEF Spec

=============================================================================
