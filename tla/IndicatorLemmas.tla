---------------------------- MODULE IndicatorLemmas ----------------------------
(***************************************************************************)
(* Lemmas about what the indicator modules compute with, for every value   *)
(* and every length: totals, weights and windows, what is left of a series *)
(* without its na, greatest common divisors and fractions in lowest terms, *)
(* the smoothed averages, and what each helper that keeps a state does     *)
(* with one bar more.                                                      *)
(*                                                                         *)
(* Kept is what a state must hold after a series of bars, restated from    *)
(* the series: for every helper its Step lemma says that one update of     *)
(* what must be held of bars is what must be held of bars and one more.    *)
(* The provers know no induction over sequences, and the folds of the      *)
(* community modules only through FoldLemmas: SeqInduction is proved here  *)
(* from the well-founded induction of the library, about sets.             *)
(*                                                                         *)
(* Ext, First and Rest name Append, Head and Tail for lemmas that speak of *)
(* any sequence: a name keeps the provers from rewriting them too soon.    *)
(***************************************************************************)
EXTENDS Indicators, FiniteSetTheorems, TLAPS

\* The last n of a sequence, or all of it while there are fewer.
Recent(seq, n) == IF Len(seq) <= n THEN seq ELSE LastN(seq, n)

\* The first n.
Early(seq, n) == IF Len(seq) <= n THEN seq ELSE SubSeq(seq, 1, n)

LastOf(seq) == IF seq = <<>> THEN NA ELSE seq[Len(seq)]

SmaKept(q, L, o) ==
  [win |-> Recent(q, L), total |-> Total(Recent(q, L)), out |-> o]

WindowKept(q, n, o) == [win |-> Recent(q, n), out |-> o]

WmaKept(q, L, o) ==
  [win |-> Recent(q, L), total |-> Total(Recent(q, L)),
   weighted |-> Weighted(Recent(q, L)), out |-> o]

HmaKept(q, L, o) ==
  [halves |-> Recent(q, Half(L)), fulls |-> Recent(q, L),
   results |-> Recent(HmaRaws(q, L), Root(L)), out |-> o]

\* t: the bars traded so far.
VwmaKept(t, L, o) ==
  LET w == Recent(t, L)
  IN  [win |-> Closes(w), vols |-> Volumes(w), weighted |-> Dot(Closes(w), Volumes(w)),
       volume |-> Total(Volumes(w)), out |-> o]

Flows(xs, vs) == [i \in 1..(Len(xs) - 1) |-> xs[i + 1] * vs[i + 1]]

Inflow(xs, vs) == Flow(xs, vs, TRUE)
Outflow(xs, vs) == Flow(xs, vs, FALSE)
MfiKept(t, L, o) ==
  LET w == Closes(Recent(t, L + 1))
      u == Volumes(Recent(t, L + 1))
  IN  [sources |-> w, flows |-> Flows(w, u),
       pos |-> Inflow(w, u), neg |-> Outflow(w, u), out |-> o]

Rises(d) == [i \in 1..Len(d) |-> IF d[i] > 0 THEN d[i] ELSE 0]
Falls(d) == [i \in 1..Len(d) |-> IF d[i] < 0 THEN -d[i] ELSE 0]

CmoKept(q, L, o) ==
  LET d == Recent(Differences(q), L)
  IN  [prev |-> LastOf(q), changes |-> d, pos |-> Total(Rises(d)), neg |-> Total(Falls(d)),
       out |-> o]

Known(w) == [i \in 1..Len(w) |-> IF w[i] = NA THEN 0 ELSE w[i]]
Blanks(w) == [i \in 1..Len(w) |-> IF w[i] = NA THEN 1 ELSE 0]

VarianceKept(c, L, o) ==
  LET w == Recent(c, L)
  IN  [win |-> w, total |-> Total(Known(w)), squares |-> Dot(Known(w), Known(w)),
       blanks |-> Total(Blanks(w)), out |-> o]

PairKept(bars, L, o) ==
  [lefts |-> Recent(Closes(bars), L), rights |-> Recent(Volumes(bars), L), out |-> o]

EmaKept(f, L, o) == [value |-> Ema(f, L), warm |-> Early(f, L), out |-> o]
RmaKept(f, L, o) == [value |-> Rma(f, L), warm |-> Early(f, L), out |-> o]

EmaTold(f, L) == EmaKept(f, L, Ema(f, L))
RmaTold(f, L) == RmaKept(f, L, Rma(f, L))

RsiKept(q, L, o) ==
  [prev |-> LastOf(q), gain |-> RmaTold(Gains(Differences(q)), L),
   loss |-> RmaTold(Losses(Differences(q)), L), out |-> o]

MacdKept(c, L, o) ==
  LET q == Wholes(Clean(c))
  IN  [fast |-> EmaTold(q, L), slow |-> EmaTold(q, L + 1),
       signal |-> EmaTold(Clean(MacdLines(c, L, L + 1)), L), out |-> o]

Later(m, n) == SubSeq(m, n + 1, Len(m))

TsiKept(q, L, o) ==
  LET moves == Wholes(Differences(q))
      None == Len(moves) <= L
  IN  [prev |-> LastOf(q), count |-> Len(moves),
       one |-> IF None THEN NA ELSE EmaFrom(Later(moves, L), L),
       oneAbs |-> IF None THEN NA ELSE EmaFrom(Later(Sizes(moves), L), L),
       two |-> IF None THEN NA ELSE Twice(moves, L),
       twoAbs |-> IF None THEN NA ELSE Twice(Sizes(moves), L), out |-> o]

Ranges(bars) == Moves(bars, TrueRange)
Climbs(bars) == Moves(bars, PlusDm)
Drops(bars) == Moves(bars, MinusDm)

DmiKept(bars, L, o) ==
  [prev |-> LastOf(bars), tr |-> RmaTold(Ranges(bars), L),
   plus |-> RmaTold(Climbs(bars), L), minus |-> RmaTold(Drops(bars), L),
   dx |-> RmaTold(Clean(Dxs(bars, L)), L), out |-> o]

VwapKept(days, o) ==
  LET last == LastDay(days)
  IN  IF days = <<>> THEN [vol |-> 0, pv |-> 0, day |-> NA, out |-> o]
      ELSE [vol |-> Total(Volumes(last)), pv |-> Dot(Closes(last), Volumes(last)),
            day |-> days[Len(days)].day, out |-> o]

CrossKept(bars, o) ==
  [left |-> LastOf(Closes(bars)), right |-> LastOf(Volumes(bars)), seen |-> bars # <<>>, out |-> o]

\* What the state of an indicator is after some bars, but for what it told: o.
Kept(fn, bars, L, o) ==
  CASE fn = "sma" -> SmaKept(Seen(bars), L, o)
    [] fn \in {"median", "mode", "highest", "lowest"} -> WindowKept(Seen(bars), L, o)
    [] fn \in {"change", "roc"} -> WindowKept(Seen(bars), L + 1, o)
    [] fn = "dev" -> WindowKept(Closes(bars), L, o)
    [] fn = "wma" -> WmaKept(Seen(bars), L, o)
    [] fn = "hma" -> HmaKept(Seen(bars), L, o)
    [] fn = "vwma" -> VwmaKept(Traded(bars), L, o)
    [] fn = "mfi" -> MfiKept(Traded(bars), L, o)
    [] fn = "cmo" -> CmoKept(Seen(bars), L, o)
    [] fn = "variance" -> VarianceKept(Closes(bars), L, o)
    [] fn = "correlation" -> PairKept(bars, L, o)
    [] fn = "ema" -> EmaKept(Wholes(Seen(bars)), L, o)
    [] fn = "rma" -> RmaKept(Wholes(Seen(bars)), L, o)
    [] fn = "rsi" -> RsiKept(Seen(bars), L, o)
    [] fn = "macd" -> MacdKept(Closes(bars), L, o)
    [] fn = "tsi" -> TsiKept(Seen(bars), L, o)
    [] fn = "dmi" -> DmiKept(bars, L, o)
    [] fn = "vwap" -> VwapKept(Traded(bars), o)
    [] fn = "cross" -> CrossKept(bars, o)

KeptInv ==
  world.fn \in Stated =>
    state = Kept(world.fn, fed, world.len, Answer(world.fn, fed, world.len))

FT == INSTANCE FoldLemmas WITH Op <- Plus
FK == INSTANCE FoldLemmas WITH Op <- Keep
FA == INSTANCE FoldLemmas WITH Op <- Add
FE == INSTANCE FoldLemmas WITH Op <- EmaNext
FR == INSTANCE FoldLemmas WITH Op <- RmaNext
FB == INSTANCE FoldLemmas WITH Op <- KeepTraded

-----------------------------------------------------------------------------
(* Sequences *)

\* Names for Head, Tail and Append that a proof can leave closed.
First(s) == Head(s)
Rest(s) == Tail(s)
Ext(s, e) == Append(s, e)

LEMMA ExtIs ==
  ASSUME NEW T, NEW s \in Seq(T), NEW e \in T
  PROVE  /\ Ext(s, e) \in Seq(T) /\ Len(Ext(s, e)) = Len(s) + 1
         /\ Ext(s, e)[Len(s) + 1] = e
         /\ \A i \in 1..Len(s) : Ext(s, e)[i] = s[i]
BY DEF Ext

LEMMA RestIs ==
  ASSUME NEW T, NEW s \in Seq(T), s # <<>>
  PROVE  /\ First(s) \in T /\ First(s) = s[1]
         /\ Rest(s) \in Seq(T) /\ Len(Rest(s)) = Len(s) - 1
         /\ \A i \in 1..(Len(s) - 1) : Rest(s)[i] = s[i + 1]
BY DEF First, Rest, Ext

-----------------------------------------------------------------------------
(* Induction and folds *)

\* Induction over the sequences, said of a set.
LEMMA SeqInduction ==
  ASSUME NEW T, NEW S, <<>> \in S,
         \A s \in Seq(T), e \in T : s \in S => Ext(s, e) \in S
  PROVE  Seq(T) \subseteq S
<1> DEFINE N == {n \in Nat : \A s \in Seq(T) : Len(s) = n => s \in S}
<1>1. 0 \in N
  <2>1. \A s \in Seq(T) : Len(s) = 0 => s = <<>>
    OBVIOUS
  <2>2. QED
    BY <2>1
<1>2. ASSUME NEW n \in Nat, n \in N PROVE n + 1 \in N
  <2> SUFFICES ASSUME NEW s \in Seq(T), Len(s) = n + 1 PROVE s \in S
    OBVIOUS
  <2> DEFINE r == SubSeq(s, 1, n)
  <2>1. r \in Seq(T) /\ Len(r) = n /\ s[n + 1] \in T
    OBVIOUS
  <2>2. s = Ext(r, s[n + 1])
    BY DEF Ext
  <2>3. r \in S
    BY <1>2, <2>1
  <2> HIDE DEF r
  <2>4. QED
    BY <2>1, <2>2, <2>3
<1>3. Nat \subseteq N
  <2> HIDE DEF N
  <2> QED
    BY <1>1, <1>2, FT!SetInduction
<1>4. ASSUME NEW s \in Seq(T) PROVE s \in S
  <2>1. Len(s) \in N
    BY <1>3
  <2>2. QED
    BY <2>1
<1>5. QED
  BY <1>4

LEMMA TotalEmpty == Total(<<>>) = 0
<1>1. FT!Fold(0, <<>>) = 0
  BY FT!FoldEmpty
<1>2. FT!Fold(0, <<>>) = FoldLeft(Plus, 0, <<>>)
  BY DEF FT!Fold, FT!MapThenFoldSet, FoldLeft, MapThenFoldSet, FT!Max, Max
<1>3. QED
  BY <1>1, <1>2 DEF Total

LEMMA TotalAppend ==
  ASSUME NEW s \in Seq(Int), NEW v \in Int
  PROVE  Total(Ext(s, v)) = Total(s) + v
<1>1. FT!Fold(0, Append(s, v)) = Plus(FT!Fold(0, s), v)
  BY FT!FoldAppend
<1>2. /\ FT!Fold(0, s) = FoldLeft(Plus, 0, s)
      /\ FT!Fold(0, Append(s, v)) = FoldLeft(Plus, 0, Append(s, v))
  BY DEF FT!Fold, FT!MapThenFoldSet, FoldLeft, MapThenFoldSet, FT!Max, Max
<1>3. QED
  BY <1>1, <1>2 DEF Total, Plus, Ext

LEMMA TotalInt ==
  ASSUME NEW s \in Seq(Int)
  PROVE  Total(s) \in Int
<1> DEFINE S == {r \in Seq(Int) : Total(r) \in Int}
<1>1. <<>> \in S
  BY TotalEmpty
<1>2. ASSUME NEW r \in Seq(Int), NEW e \in Int, r \in S PROVE Ext(r, e) \in S
  <2>1. Ext(r, e) \in Seq(Int)
    BY DEF Ext
  <2>2. Total(Ext(r, e)) = Total(r) + e
    BY TotalAppend
  <2>3. QED
    BY <1>2, <2>1, <2>2
<1> HIDE DEF S
<1>3. Seq(Int) \subseteq S
  BY <1>1, <1>2, SeqInduction
<1>4. QED
  BY <1>3 DEF S

LEMMA RestAppend ==
  ASSUME NEW T, NEW s \in Seq(T), NEW e \in T
  PROVE  /\ s = <<>> => Rest(Ext(s, e)) = <<>> /\ First(Ext(s, e)) = e
         /\ s # <<>> => Rest(Ext(s, e)) = Ext(Rest(s), e) /\ First(Ext(s, e)) = First(s)
<1>1. CASE s = <<>>
  BY <1>1 DEF First, Rest, Ext
<1>2. CASE s # <<>>
  BY <1>2 DEF First, Rest, Ext
<1>3. QED
  BY <1>1, <1>2

LEMMA TotalRest ==
  ASSUME NEW s \in Seq(Int), s # <<>>
  PROVE  First(s) \in Int /\ Rest(s) \in Seq(Int) /\ Total(Rest(s)) = Total(s) - First(s)
<1> DEFINE S == {r \in Seq(Int) : r # <<>> => Total(Rest(r)) = Total(r) - First(r)}
<1>1. <<>> \in S
  OBVIOUS
<1>2. ASSUME NEW r \in Seq(Int), NEW e \in Int, r \in S PROVE Ext(r, e) \in S
  <2>0. Ext(r, e) \in Seq(Int)
    BY ExtIs
  <2>1. Total(Ext(r, e)) = Total(r) + e /\ Total(r) \in Int
    BY TotalAppend, TotalInt
  <2> SUFFICES Total(Rest(Ext(r, e))) = Total(Ext(r, e)) - First(Ext(r, e))
    BY <2>0
  <2>2. CASE r = <<>>
    <3>1. Rest(Ext(r, e)) = <<>> /\ First(Ext(r, e)) = e
      BY <2>2, RestAppend
    <3>2. Total(Rest(Ext(r, e))) = 0 /\ Total(r) = 0
      BY <2>2, <3>1, TotalEmpty
    <3>3. QED
      BY <2>1, <3>1, <3>2
  <2>3. CASE r # <<>>
    <3>1. Rest(r) \in Seq(Int) /\ First(r) \in Int
      BY <2>3, RestIs
    <3>2. Total(Ext(Rest(r), e)) = Total(Rest(r)) + e
      BY <3>1, TotalAppend
    <3>3. Total(Rest(r)) = Total(r) - First(r)
      BY <1>2, <2>3
    <3>4. Rest(Ext(r, e)) = Ext(Rest(r), e) /\ First(Ext(r, e)) = First(r)
      BY <2>3, RestAppend
    <3>5. QED
      BY <2>1, <3>1, <3>2, <3>3, <3>4
  <2>4. QED
    BY <2>2, <2>3
<1> HIDE DEF S
<1>3. Seq(Int) \subseteq S
  BY <1>1, <1>2, SeqInduction
<1>4. Total(Rest(s)) = Total(s) - First(s)
  BY <1>3 DEF S
<1>5. QED
  BY <1>4, RestIs

\* The total of a sequence whose values are those of two others.
LEMMA TotalExt ==
  ASSUME NEW n \in Nat, NEW f, NEW g, \A i \in 1..n : f[i] = g[i]
  PROVE  Total([i \in 1..n |-> f[i]]) = Total([i \in 1..n |-> g[i]])
<1>1. [i \in 1..n |-> f[i]] = [i \in 1..n |-> g[i]]
  OBVIOUS
<1>2. QED
  BY <1>1

-----------------------------------------------------------------------------
(* Windows *)

LEMMA LastNIs ==
  ASSUME NEW T, NEW s \in Seq(T), NEW n \in Nat, n <= Len(s)
  PROVE  /\ LastN(s, n) \in Seq(T) /\ Len(LastN(s, n)) = n
         /\ \A i \in 1..n : LastN(s, n)[i] = s[Len(s) - n + i]
BY DEF LastN

LEMMA RecentIs ==
  ASSUME NEW T, NEW s \in Seq(T), NEW n \in Nat
  PROVE  /\ Recent(s, n) \in Seq(T)
         /\ Len(s) <= n => Len(Recent(s, n)) = Len(s)
         /\ Len(s) >= n => Len(Recent(s, n)) = n
         /\ Len(s) >= n => Recent(s, n) = LastN(s, n)
         /\ \A i \in 1..Len(Recent(s, n)) :
              Recent(s, n)[i] = s[Len(s) - Len(Recent(s, n)) + i]
<1>1. CASE Len(s) < n
  <2>1. Recent(s, n) = s
    BY <1>1 DEF Recent
  <2>2. QED
    BY <1>1, <2>1
<1>2. CASE Len(s) = n
  <2>1. LastN(s, n) = s
    BY <1>2 DEF LastN
  <2>2. QED
    BY <1>2, <2>1 DEF Recent
<1>3. CASE Len(s) > n
  <2>1. Recent(s, n) = LastN(s, n)
    BY <1>3 DEF Recent
  <2>2. /\ LastN(s, n) \in Seq(T) /\ Len(LastN(s, n)) = n
        /\ \A i \in 1..n : LastN(s, n)[i] = s[Len(s) - n + i]
    BY <1>3, LastNIs
  <2>3. QED
    BY <1>3, <2>1, <2>2
<1>4. QED
  BY <1>1, <1>2, <1>3

LEMMA PushIs ==
  ASSUME NEW T, NEW w \in Seq(T), NEW v \in T, NEW n \in Nat \ {0}, Len(w) <= n
  PROVE  /\ Push(w, v, n) \in Seq(T)
         /\ Len(w) < n => Push(w, v, n) = Ext(w, v) /\ Len(Push(w, v, n)) = Len(w) + 1
         /\ Len(w) >= n => Push(w, v, n) = Ext(Rest(w), v) /\ Len(Push(w, v, n)) = n
<1>1. CASE Len(w) < n
  BY <1>1 DEF Push, Ext
<1>2. CASE Len(w) = n
  <2>1. /\ w # <<>> /\ Rest(w) \in Seq(T) /\ First(w) \in T /\ Len(Rest(w)) = n - 1
        /\ \A i \in 1..(n - 1) : Rest(w)[i] = w[i + 1]
    BY <1>2, RestIs
  <2>2. LastN(Ext(w, v), n) = Ext(Rest(w), v)
    <3> DEFINE a == Ext(w, v)
               b == Ext(Rest(w), v)
    <3>0. PICK x : x = Rest(w)
      OBVIOUS
    <3>1. /\ a \in Seq(T) /\ Len(a) = n + 1
          /\ \A i \in 1..n : a[i] = w[i]
          /\ a[n + 1] = v
      BY <1>2 DEF Ext
    <3>2. /\ b \in Seq(T) /\ Len(b) = n
          /\ \A i \in 1..(n - 1) : b[i] = Rest(w)[i]
          /\ b[n] = v
      <4>1. x \in Seq(T) /\ Len(x) = n - 1
        BY <2>1, <3>0
      <4>2. /\ Ext(x, v) \in Seq(T) /\ Len(Ext(x, v)) = n
            /\ \A i \in 1..(n - 1) : Ext(x, v)[i] = x[i]
            /\ Ext(x, v)[n] = v
        BY <4>1 DEF Ext
      <4>3. QED
        BY <3>0, <4>2
    <3> HIDE DEF a, b
    <3>3. /\ LastN(a, n) \in Seq(T) /\ Len(LastN(a, n)) = n
          /\ \A i \in 1..n : LastN(a, n)[i] = a[1 + i]
      BY <3>1, LastNIs
    <3>4. \A i \in 1..n : LastN(a, n)[i] = b[i]
      BY <2>1, <3>1, <3>2, <3>3
    <3>5. LastN(a, n) = b
      BY <3>2, <3>3, <3>4
    <3>6. QED
      BY <3>5 DEF a, b
  <2>3. QED
    BY <1>2, <2>1, <2>2 DEF Push, Ext
<1>3. QED
  BY <1>1, <1>2

LEMMA RecentPush ==
  ASSUME NEW T, NEW s \in Seq(T), NEW v \in T, NEW n \in Nat \ {0}
  PROVE  Push(Recent(s, n), v, n) = Recent(Ext(s, v), n)
<1> DEFINE r == Ext(s, v)
           w == Recent(s, n)
           a == Push(w, v, n)
           b == Recent(r, n)
<1>0. /\ r \in Seq(T) /\ Len(r) = Len(s) + 1 /\ r[Len(s) + 1] = v
      /\ \A i \in 1..Len(s) : r[i] = s[i]
  BY ExtIs
<1> HIDE DEF r
<1>1. /\ w \in Seq(T) /\ Len(w) <= n
      /\ (Len(s) <= n => Len(w) = Len(s)) /\ (Len(s) >= n => Len(w) = n)
      /\ \A i \in 1..Len(w) : w[i] = s[Len(s) - Len(w) + i]
  BY RecentIs
<1> HIDE DEF w
<1>2. /\ a \in Seq(T)
      /\ Len(w) < n => a = Ext(w, v) /\ Len(a) = Len(w) + 1
      /\ Len(w) >= n => a = Ext(Rest(w), v) /\ Len(a) = n
  BY <1>1, PushIs
<1> HIDE DEF a
<1>3. /\ b \in Seq(T) 
      /\ (Len(r) <= n => Len(b) = Len(r)) /\ (Len(r) >= n => Len(b) = n)
      /\ \A i \in 1..Len(b) : b[i] = r[Len(r) - Len(b) + i]
  BY <1>0, RecentIs
<1> HIDE DEF b
<1>4. Len(a) = Len(b)
  BY <1>0, <1>1, <1>2, <1>3
<1>5. ASSUME NEW i \in 1..Len(a) PROVE a[i] = b[i]
  <2>1. CASE Len(w) < n
    <3>1. a = Ext(w, v) /\ Len(w) = Len(s) /\ Len(b) = Len(s) + 1 /\ i \in 1..(Len(s) + 1)
      BY <1>0, <1>1, <1>2, <1>3, <2>1
    <3>2. a[i] = IF i = Len(s) + 1 THEN v ELSE w[i]
      BY <1>1, <3>1 DEF Ext
    <3>3. b[i] = r[i] /\ (i # Len(s) + 1 => w[i] = s[i])
      BY <1>0, <1>1, <1>3, <3>1
    <3>4. QED
      BY <1>0, <3>1, <3>2, <3>3
  <2>2. CASE Len(w) >= n
    <3>0. w # <<>> /\ Len(w) = n
      BY <1>1, <2>2
    <3>1. /\ Rest(w) \in Seq(T) /\ Len(Rest(w)) = n - 1 /\ Len(w) = n
          /\ \A k \in 1..(n - 1) : Rest(w)[k] = w[k + 1]
      BY <1>1, <3>0, RestIs
    <3>2. a[i] = IF i = n THEN v ELSE Rest(w)[i]
      <4>1. PICK x : x = Rest(w)
        OBVIOUS
      <4>2. Ext(x, v)[i] = IF i = n THEN v ELSE x[i]
        BY <1>1, <1>2, <2>2, <3>1, <4>1 DEF Ext
      <4>3. QED
        BY <1>2, <2>2, <4>1, <4>2
    <3>3. b[i] = r[Len(s) + 1 - n + i] /\ i \in 1..n /\ n <= Len(s)
      <4>1. n <= Len(s) /\ Len(a) = n /\ Len(b) = n /\ Len(r) = Len(s) + 1
        BY <1>0, <1>1, <1>2, <1>4, <2>2
      <4>2. i \in 1..n /\ i \in 1..Len(b) /\ Len(r) - Len(b) + i = Len(s) + 1 - n + i
        BY <4>1
      <4>3. b[i] = r[Len(r) - Len(b) + i]
        BY <1>3, <4>2
      <4>4. QED
        BY <4>1, <4>2, <4>3
    <3>4. CASE i = n
      BY <1>0, <3>2, <3>3, <3>4
    <3>5. CASE i # n
      <4>1. a[i] = w[i + 1] /\ w[i + 1] = s[Len(s) - n + (i + 1)]
        BY <1>1, <3>1, <3>2, <3>3, <3>5
      <4>2. Len(s) + 1 - n + i = Len(s) - n + (i + 1) /\ Len(s) + 1 - n + i \in 1..Len(s)
        BY <3>3, <3>5
      <4>3. QED
        BY <1>0, <3>3, <4>1, <4>2
    <3>6. QED
      BY <3>4, <3>5
  <2>3. QED
    BY <1>1, <2>1, <2>2
<1>6. a = b
  BY <1>2, <1>3, <1>4, <1>5
<1>7. QED
  BY <1>6 DEF a, b, w, r

\* A running total that drops the value that leaves the window.
LEMMA TotalPush ==
  ASSUME NEW w \in Seq(Int), NEW v \in Int, NEW n \in Nat \ {0}, Len(w) <= n
  PROVE  Total(Push(w, v, n)) = Total(w) + v - (IF Len(w) < n THEN 0 ELSE First(w))
<1>1. Total(w) \in Int
  BY TotalInt
<1>2. CASE Len(w) < n
  <2>1. Push(w, v, n) = Ext(w, v)
    BY <1>2, PushIs
  <2>2. Total(Ext(w, v)) = Total(w) + v
    BY TotalAppend
  <2>3. QED
    BY <1>1, <1>2, <2>1, <2>2
<1>3. CASE Len(w) >= n
  <2>1. /\ w # <<>> /\ Push(w, v, n) = Ext(Rest(w), v)
        /\ Rest(w) \in Seq(Int) /\ First(w) \in Int
    <3>1. w # <<>>
      BY <1>3
    <3>2. Push(w, v, n) = Ext(Rest(w), v)
      BY <1>3, PushIs
    <3>3. QED
      BY <3>1, <3>2, RestIs
  <2>2. Total(Rest(w)) = Total(w) - First(w)
    BY <2>1, TotalRest
  <2>3. Total(Ext(Rest(w), v)) = Total(Rest(w)) + v
    BY <2>1, TotalAppend
  <2>4. QED
    BY <1>1, <1>3, <2>1, <2>2, <2>3
<1>4. QED
  BY <1>2, <1>3

-----------------------------------------------------------------------------
(* The other folds *)

LEMMA WeightedEmpty == Weighted(<<>>) = 0
<1>1. [i \in 1..Len(<<>>) |-> i * <<>>[i]] = <<>>
  OBVIOUS
<1>2. QED
  BY <1>1, TotalEmpty DEF Weighted

LEMMA WeightedAppend ==
  ASSUME NEW s \in Seq(Int), NEW v \in Int
  PROVE  /\ Weighted(s) \in Int
         /\ Weighted(Ext(s, v)) = Weighted(s) + (Len(s) + 1) * v
<1> DEFINE r == [i \in 1..Len(s) |-> i * s[i]]
           q == [i \in 1..Len(Ext(s, v)) |-> i * Ext(s, v)[i]]
           y == (Len(s) + 1) * v
<1>1. r \in Seq(Int) /\ Len(r) = Len(s) /\ y \in Int
  OBVIOUS
<1>2. /\ Len(Ext(s, v)) = Len(s) + 1 /\ Ext(s, v)[Len(s) + 1] = v
      /\ \A i \in 1..Len(s) : Ext(s, v)[i] = s[i]
  BY DEF Ext
<1>3. q = Ext(r, y)
  <2>1. q = [i \in 1..(Len(s) + 1) |-> IF i = Len(s) + 1 THEN y ELSE i * s[i]]
    <3>1. \A i \in 1..(Len(s) + 1) :
            i * Ext(s, v)[i] = IF i = Len(s) + 1 THEN y ELSE i * s[i]
      BY <1>2
    <3>2. q = [i \in 1..(Len(s) + 1) |-> i * Ext(s, v)[i]]
      BY <1>2
    <3>3. QED
      BY <3>1, <3>2
  <2>2. Ext(r, y) = [i \in 1..(Len(s) + 1) |-> IF i = Len(s) + 1 THEN y ELSE i * s[i]]
    <3> HIDE DEF y
    <3> QED
      BY <1>1 DEF Ext
  <2>3. QED
    BY <2>1, <2>2
<1>4. Total(Ext(r, y)) = Total(r) + y /\ Total(r) \in Int
  <2> HIDE DEF r, y
  <2> QED
    BY <1>1, TotalAppend, TotalInt
<1>5. Weighted(s) = Total(r) /\ Weighted(Ext(s, v)) = Total(q)
  BY DEF Weighted
<1> HIDE DEF q, r
<1>6. QED
  BY <1>3, <1>4, <1>5

LEMMA WeightedRest ==
  ASSUME NEW s \in Seq(Int), s # <<>>
  PROVE  Weighted(s) \in Int /\ Weighted(Rest(s)) = Weighted(s) - Total(s)
<1> DEFINE S == {r \in Seq(Int) : r # <<>> => Weighted(Rest(r)) = Weighted(r) - Total(r)}
<1>1. <<>> \in S
  OBVIOUS
<1>2. ASSUME NEW r \in Seq(Int), NEW e \in Int, r \in S PROVE Ext(r, e) \in S
  <2>0. Ext(r, e) \in Seq(Int)
    BY DEF Ext
  <2>1. /\ Total(Ext(r, e)) = Total(r) + e /\ Total(r) \in Int
        /\ Weighted(Ext(r, e)) = Weighted(r) + (Len(r) + 1) * e /\ Weighted(r) \in Int
    BY TotalAppend, TotalInt, WeightedAppend
  <2> SUFFICES Weighted(Rest(Ext(r, e))) = Weighted(Ext(r, e)) - Total(Ext(r, e))
    BY <2>0
  <2>2. CASE r = <<>>
    <3>1. Rest(Ext(r, e)) = <<>>
      BY <2>2, RestAppend
    <3>2. Weighted(Rest(Ext(r, e))) = 0 /\ Total(r) = 0 /\ Weighted(r) = 0 /\ Len(r) = 0
      BY <2>2, <3>1, TotalEmpty, WeightedEmpty
    <3>3. QED
      BY <2>1, <3>2
  <2>3. CASE r # <<>>
    <3>1. Rest(r) \in Seq(Int) /\ Len(Rest(r)) = Len(r) - 1
      BY <2>3, RestIs
    <3>2. Weighted(Ext(Rest(r), e)) = Weighted(Rest(r)) + (Len(r) - 1 + 1) * e
      BY <3>1, WeightedAppend
    <3>3. Weighted(Rest(r)) = Weighted(r) - Total(r)
      BY <1>2, <2>3
    <3>4. Rest(Ext(r, e)) = Ext(Rest(r), e)
      BY <2>3, RestAppend
    <3>5. Len(r) \in Nat /\ Len(r) - 1 + 1 = Len(r)
      OBVIOUS
    <3>6. Weighted(Rest(Ext(r, e))) = Weighted(r) - Total(r) + Len(r) * e
      BY <3>2, <3>3, <3>4, <3>5
    <3>7. (Len(r) + 1) * e = Len(r) * e + e /\ Len(r) * e \in Int
      OBVIOUS
    <3>8. QED
      BY <2>1, <3>6, <3>7
  <2>4. QED
    BY <2>2, <2>3
<1> HIDE DEF S
<1>3. Seq(Int) \subseteq S
  BY <1>1, <1>2, SeqInduction
<1>4. Weighted(Rest(s)) = Weighted(s) - Total(s)
  BY <1>3 DEF S
<1>5. QED
  BY <1>4, WeightedAppend

LEMMA CleanEmpty == Clean(<<>>) = <<>>
<1>1. FK!Fold(<<>>, <<>>) = <<>>
  BY FK!FoldEmpty
<1>2. FK!Fold(<<>>, <<>>) = FoldLeft(Keep, <<>>, <<>>)
  BY DEF FK!Fold, FK!MapThenFoldSet, FoldLeft, MapThenFoldSet, FK!Max, Max
<1>3. QED
  BY <1>1, <1>2 DEF Clean

LEMMA CleanAppend ==
  ASSUME NEW T, NEW s \in Seq(T), NEW v \in T
  PROVE  /\ v = NA => Clean(Ext(s, v)) = Clean(s)
         /\ v # NA => Clean(Ext(s, v)) = Ext(Clean(s), v)
<1>1. FK!Fold(<<>>, Append(s, v)) = Keep(FK!Fold(<<>>, s), v)
  BY FK!FoldAppend
<1>2. /\ FK!Fold(<<>>, s) = FoldLeft(Keep, <<>>, s)
      /\ FK!Fold(<<>>, Append(s, v)) = FoldLeft(Keep, <<>>, Append(s, v))
  BY DEF FK!Fold, FK!MapThenFoldSet, FoldLeft, MapThenFoldSet, FK!Max, Max
<1>3. Clean(Ext(s, v)) = Keep(Clean(s), v)
  BY <1>1, <1>2 DEF Clean, Ext
<1>4. QED
  BY <1>3 DEF Keep, IsBlank, Ext

LEMMA CleanIs ==
  ASSUME NEW T, NEW s \in Seq(T \cup {NA})
  PROVE  Clean(s) \in Seq(T)
<1> DEFINE U == T \cup {NA}
           S == {r \in Seq(U) : Clean(r) \in Seq(T)}
<1>1. <<>> \in S
  <2>1. <<>> \in Seq(U) /\ <<>> \in Seq(T)
    OBVIOUS
  <2>2. QED
    BY <2>1, CleanEmpty
<1>2. ASSUME NEW r \in Seq(U), NEW e \in U, r \in S PROVE Ext(r, e) \in S
  <2>1. Ext(r, e) \in Seq(U)
    BY DEF Ext
  <2>2. CASE e = NA
    <3>1. Clean(Ext(r, e)) = Clean(r)
      BY <2>2, CleanAppend
    <3>2. QED
      BY <1>2, <2>1, <3>1
  <2>3. CASE e # NA
    <3>1. Clean(Ext(r, e)) = Ext(Clean(r), e)
      BY <2>3, CleanAppend
    <3>2. Clean(r) \in Seq(T) /\ e \in T
      BY <1>2, <2>3
    <3>3. Ext(Clean(r), e) \in Seq(T)
      BY <3>2, ExtIs
    <3>4. QED
      BY <2>1, <3>1, <3>3
  <2>4. QED
    BY <2>2, <2>3
<1>3. Seq(U) \subseteq S
  <2> HIDE DEF S, U
  <2> QED
    BY <1>1, <1>2, SeqInduction
<1>4. QED
  BY <1>3

-----------------------------------------------------------------------------
(* The series of a history *)

LEMMA ClosesExt ==
  ASSUME NEW B, NEW bars \in Seq(B), NEW x \in B
  PROVE  /\ Len(Closes(bars)) = Len(bars)
         /\ Closes(Ext(bars, x)) = Ext(Closes(bars), x.c)
<1> DEFINE q == Closes(Ext(bars, x))
           r == Closes(bars)
<1>1. /\ Len(Ext(bars, x)) = Len(bars) + 1 /\ Ext(bars, x)[Len(bars) + 1] = x
      /\ \A i \in 1..Len(bars) : Ext(bars, x)[i] = bars[i]
  BY ExtIs
<1>2. q = [i \in 1..(Len(bars) + 1) |-> IF i = Len(bars) + 1 THEN x.c ELSE bars[i].c]
  BY <1>1 DEF Closes
<1>3. /\ r = [i \in 1..Len(bars) |-> bars[i].c] /\ Len(r) = Len(bars)
      /\ DOMAIN r = 1..Len(bars)
  BY DEF Closes
<1>4. Ext(r, x.c) = [i \in 1..(Len(bars) + 1) |-> IF i = Len(bars) + 1 THEN x.c ELSE bars[i].c]
  BY <1>3 DEF Ext
<1>5. QED
  BY <1>2, <1>3, <1>4

-----------------------------------------------------------------------------
(* Windows of the values that are not na *)

\* A full window is the last n values.
LEMMA WindowIs ==
  ASSUME NEW T, NEW seq \in Seq(T), NEW n \in Nat \ {0}
  PROVE  /\ Recent(seq, n) \in Seq(T) /\ Len(Recent(seq, n)) <= n
         /\ Len(seq) < n <=> Len(Recent(seq, n)) < n
         /\ Len(seq) >= n => Recent(seq, n) = LastN(seq, n) /\ Len(Recent(seq, n)) = n
         /\ seq = <<>> <=> Recent(seq, n) = <<>>
<1>1. /\ Recent(seq, n) \in Seq(T)
      /\ Len(seq) <= n => Len(Recent(seq, n)) = Len(seq)
      /\ Len(seq) >= n => Len(Recent(seq, n)) = n
      /\ Len(seq) >= n => Recent(seq, n) = LastN(seq, n)
  BY RecentIs
<1>2. Len(Recent(seq, n)) = 0 <=> Len(seq) = 0
  BY <1>1
<1>3. seq = <<>> <=> Recent(seq, n) = <<>>
  BY <1>1, <1>2
<1>4. QED
  BY <1>1, <1>3

\* What a value does to a window.
LEMMA WindowPush ==
  ASSUME NEW T, NEW q \in Seq(T), NEW n \in Nat \ {0}, NEW v \in T, NEW r, r = Ext(q, v)
  PROVE  /\ Recent(q, n) \in Seq(T) /\ Len(Recent(q, n)) <= n
         /\ r \in Seq(T) /\ Recent(r, n) \in Seq(T)
         /\ Push(Recent(q, n), v, n) = Recent(r, n)
<1>1. Recent(q, n) \in Seq(T) /\ Len(Recent(q, n)) <= n
  BY WindowIs
<1>2. r \in Seq(T)
  BY ExtIs
<1>3. Recent(r, n) \in Seq(T)
  BY <1>2, WindowIs
<1>4. Push(Recent(q, n), v, n) = Recent(r, n)
  BY RecentPush
<1>5. QED
  BY <1>1, <1>2, <1>3, <1>4

\* The average of a window.
LEMMA SmaOver ==
  ASSUME NEW q \in Seq(Int), NEW L \in Nat \ {0}
  PROVE  Over(q, L, Sma) = IF Len(Recent(q, L)) < L THEN NA ELSE Sma(Recent(q, L))
<1>1. CASE Len(q) < L
  BY <1>1, WindowIs DEF Over
<1>2. CASE Len(q) >= L
  BY <1>2, WindowIs DEF Over
<1>3. QED
  BY <1>1, <1>2 DEF Over

LEMMA SmaStep ==
  ASSUME NEW q \in Seq(Int), NEW L \in Nat \ {0}, NEW x, NEW o, NA \notin Int
  PROVE  /\ x.c = NA => SmaUpdate(SmaKept(q, L, o), x, L) = SmaKept(q, L, Over(q, L, Sma))
         /\ x.c \in Int => SmaUpdate(SmaKept(q, L, o), x, L)
                             = SmaKept(Ext(q, x.c), L, Over(Ext(q, x.c), L, Sma))
<1>1. PICK w, t : w = Recent(q, L) /\ t = Total(w)
  OBVIOUS
<1>2. SmaKept(q, L, o) = [win |-> w, total |-> t, out |-> o]
  BY <1>1 DEF SmaKept
<1>3. \A p \in Seq(Int) :
        (IF Len(p) < L THEN NA ELSE Sma(p)) = (IF Len(p) < L THEN NA ELSE Frac(Total(p), Len(p)))
  BY DEF Sma
<1>4. ASSUME x.c = NA
      PROVE  SmaUpdate(SmaKept(q, L, o), x, L) = SmaKept(q, L, Over(q, L, Sma))
  <2>1. SmaUpdate([win |-> w, total |-> t, out |-> o], x, L)
          = [win |-> w, total |-> t, out |-> IF Len(w) < L THEN NA ELSE Frac(t, L)]
    BY <1>4 DEF SmaUpdate
  <2>2. Over(q, L, Sma) = IF Len(w) < L THEN NA ELSE Frac(t, L)
    <3>1. Len(w) < L \/ Len(w) = L
      BY <1>1, WindowIs
    <3>2. QED
      BY <1>1, <3>1, SmaOver DEF Sma
  <2>3. QED
    BY <1>1, <1>2, <2>1, <2>2 DEF SmaKept
<1>5. ASSUME x.c \in Int
      PROVE  SmaUpdate(SmaKept(q, L, o), x, L)
               = SmaKept(Ext(q, x.c), L, Over(Ext(q, x.c), L, Sma))
  <2>1. PICK v, r, p : v = x.c /\ r = Ext(q, v) /\ p = Push(w, v, L)
    OBVIOUS
  <2>2. /\ v \in Int /\ r \in Seq(Int) /\ w \in Seq(Int) /\ p \in Seq(Int)
        /\ Len(w) <= L /\ p = Recent(r, L)
    BY <1>1, <1>5, <2>1, WindowPush
  <2>3. Total(p) = t + v - (IF Len(w) < L THEN 0 ELSE Head(w))
    BY <1>1, <2>1, <2>2, TotalPush DEF First
  <2>4. SmaUpdate([win |-> w, total |-> t, out |-> o], x, L)
          = [win |-> p, total |-> Total(p), out |-> IF Len(p) < L THEN NA ELSE Frac(Total(p), L)]
    BY <1>5, <2>1, <2>3 DEF SmaUpdate
  <2>5. Over(r, L, Sma) = IF Len(p) < L THEN NA ELSE Frac(Total(p), L)
    <3>1. Len(p) < L \/ Len(p) = L
      BY <2>2, WindowIs
    <3>2. QED
      BY <2>2, <3>1, SmaOver DEF Sma
  <2>6. QED
    BY <1>2, <2>1, <2>2, <2>4, <2>5 DEF SmaKept
<1>6. QED
  BY <1>4, <1>5

LEMMA MedianOver ==
  ASSUME NEW q \in Seq(Int), NEW L \in Nat \ {0}
  PROVE  Over(q, L, Median) = IF Len(Recent(q, L)) < L THEN NA ELSE Median(Recent(q, L))
<1>1. CASE Len(q) < L
  BY <1>1, WindowIs DEF Over
<1>2. CASE Len(q) >= L
  BY <1>2, WindowIs DEF Over
<1>3. QED
  BY <1>1, <1>2 DEF Over

\* The median of a window.
LEMMA MedianStep ==
  ASSUME NEW q \in Seq(Int), NEW L \in Nat \ {0}, NEW x, NEW o, NA \notin Int
  PROVE  /\ x.c = NA =>
              MedianUpdate(WindowKept(q, L, o), x, L) = WindowKept(q, L, Over(q, L, Median))
         /\ x.c \in Int =>
              MedianUpdate(WindowKept(q, L, o), x, L)
                = WindowKept(Ext(q, x.c), L, Over(Ext(q, x.c), L, Median))
<1>1. PICK w : w = Recent(q, L)
  OBVIOUS
<1>2. WindowKept(q, L, o) = [win |-> w, out |-> o]
  BY <1>1 DEF WindowKept
<1>3. ASSUME x.c = NA
      PROVE  MedianUpdate(WindowKept(q, L, o), x, L) = WindowKept(q, L, Over(q, L, Median))
  BY <1>1, <1>2, <1>3, MedianOver DEF WindowKept, MedianUpdate, Over
<1>4. ASSUME x.c \in Int
      PROVE  MedianUpdate(WindowKept(q, L, o), x, L)
               = WindowKept(Ext(q, x.c), L, Over(Ext(q, x.c), L, Median))
  <2>1. PICK v, r, p : v = x.c /\ r = Ext(q, v) /\ p = Push(w, v, L)
    OBVIOUS
  <2>2. r \in Seq(Int) /\ p = Recent(r, L)
    BY <1>1, <1>4, <2>1, WindowPush
  <2>3. MedianUpdate([win |-> w, out |-> o], x, L)
          = [win |-> p, out |-> IF Len(p) < L THEN NA ELSE Median(p)]
    BY <1>4, <2>1 DEF MedianUpdate
  <2>4. QED
    BY <1>2, <2>1, <2>2, <2>3, MedianOver DEF WindowKept
<1>5. QED
  BY <1>3, <1>4

LEMMA ModeOver ==
  ASSUME NEW q \in Seq(Int), NEW L \in Nat \ {0}
  PROVE  Over(q, L, Mode) = IF Len(Recent(q, L)) < L THEN NA ELSE Mode(Recent(q, L))
<1>1. CASE Len(q) < L
  BY <1>1, WindowIs DEF Over
<1>2. CASE Len(q) >= L
  BY <1>2, WindowIs DEF Over
<1>3. QED
  BY <1>1, <1>2 DEF Over

\* Its most frequent value.
LEMMA ModeStep ==
  ASSUME NEW q \in Seq(Int), NEW L \in Nat \ {0}, NEW x, NEW o, NA \notin Int
  PROVE  /\ x.c = NA =>
              ModeUpdate(WindowKept(q, L, o), x, L) = WindowKept(q, L, Over(q, L, Mode))
         /\ x.c \in Int =>
              ModeUpdate(WindowKept(q, L, o), x, L)
                = WindowKept(Ext(q, x.c), L, Over(Ext(q, x.c), L, Mode))
<1>1. PICK w : w = Recent(q, L)
  OBVIOUS
<1>2. WindowKept(q, L, o) = [win |-> w, out |-> o]
  BY <1>1 DEF WindowKept
<1>3. ASSUME x.c = NA
      PROVE  ModeUpdate(WindowKept(q, L, o), x, L) = WindowKept(q, L, Over(q, L, Mode))
  BY <1>1, <1>2, <1>3, ModeOver DEF WindowKept, ModeUpdate, Over
<1>4. ASSUME x.c \in Int
      PROVE  ModeUpdate(WindowKept(q, L, o), x, L)
               = WindowKept(Ext(q, x.c), L, Over(Ext(q, x.c), L, Mode))
  <2>1. PICK v, r, p : v = x.c /\ r = Ext(q, v) /\ p = Push(w, v, L)
    OBVIOUS
  <2>2. r \in Seq(Int) /\ p = Recent(r, L)
    BY <1>1, <1>4, <2>1, WindowPush
  <2>3. ModeUpdate([win |-> w, out |-> o], x, L)
          = [win |-> p, out |-> IF Len(p) < L THEN NA ELSE Mode(p)]
    BY <1>4, <2>1 DEF ModeUpdate
  <2>4. QED
    BY <1>2, <2>1, <2>2, <2>3, ModeOver DEF WindowKept
<1>5. QED
  BY <1>3, <1>4

LEMMA HighestOver ==
  ASSUME NEW q \in Seq(Int), NEW L \in Nat \ {0}
  PROVE  Extreme(q, L, Largest) = IF Recent(q, L) = <<>> THEN NA ELSE Whole(Largest(Recent(q, L)))
<1>1. Recent(q, L) = LastN(q, IF Len(q) < L THEN Len(q) ELSE L)
  <2>1. CASE Len(q) < L
    <3>1. LastN(q, Len(q)) = q
      BY DEF LastN
    <3>2. QED
      BY <2>1, <3>1 DEF Recent
  <2>2. CASE Len(q) >= L
    BY <2>2, WindowIs
  <2>3. QED
    BY <2>1, <2>2
<1>2. q = <<>> <=> Recent(q, L) = <<>>
  BY WindowIs
<1>3. QED
  BY <1>1, <1>2 DEF Extreme

\* The highest value of the last ones.
LEMMA HighestStep ==
  ASSUME NEW q \in Seq(Int), NEW L \in Nat \ {0}, NEW x, NEW o, NA \notin Int
  PROVE  /\ x.c = NA =>
              HighestUpdate(WindowKept(q, L, o), x, L) = WindowKept(q, L, Extreme(q, L, Largest))
         /\ x.c \in Int =>
              HighestUpdate(WindowKept(q, L, o), x, L)
                = WindowKept(Ext(q, x.c), L, Extreme(Ext(q, x.c), L, Largest))
<1>1. PICK w : w = Recent(q, L)
  OBVIOUS
<1>2. WindowKept(q, L, o) = [win |-> w, out |-> o]
  BY <1>1 DEF WindowKept
<1>3. ASSUME x.c = NA
      PROVE  HighestUpdate(WindowKept(q, L, o), x, L) = WindowKept(q, L, Extreme(q, L, Largest))
  <2>1. HighestUpdate([win |-> w, out |-> o], x, L)
          = [win |-> w, out |-> IF w = <<>> THEN NA ELSE Whole(Largest(w))]
    BY <1>3 DEF HighestUpdate
  <2>2. QED
    BY <1>1, <1>2, <2>1, HighestOver DEF WindowKept, Extreme
<1>4. ASSUME x.c \in Int
      PROVE  HighestUpdate(WindowKept(q, L, o), x, L)
               = WindowKept(Ext(q, x.c), L, Extreme(Ext(q, x.c), L, Largest))
  <2>1. PICK v, r, p : v = x.c /\ r = Ext(q, v) /\ p = Push(w, v, L)
    OBVIOUS
  <2>2. r \in Seq(Int) /\ p = Recent(r, L)
    BY <1>1, <1>4, <2>1, WindowPush
  <2>3. HighestUpdate([win |-> w, out |-> o], x, L)
          = [win |-> p, out |-> IF p = <<>> THEN NA ELSE Whole(Largest(p))]
    BY <1>4, <2>1 DEF HighestUpdate
  <2>4. QED
    BY <1>2, <2>1, <2>2, <2>3, HighestOver DEF WindowKept, Extreme
<1>5. QED
  BY <1>3, <1>4 DEF Extreme

LEMMA LowestOver ==
  ASSUME NEW q \in Seq(Int), NEW L \in Nat \ {0}
  PROVE  Extreme(q, L, Smallest) = IF Recent(q, L) = <<>> THEN NA ELSE Whole(Smallest(Recent(q, L)))
<1>1. Recent(q, L) = LastN(q, IF Len(q) < L THEN Len(q) ELSE L)
  <2>1. CASE Len(q) < L
    <3>1. LastN(q, Len(q)) = q
      BY DEF LastN
    <3>2. QED
      BY <2>1, <3>1 DEF Recent
  <2>2. CASE Len(q) >= L
    BY <2>2, WindowIs
  <2>3. QED
    BY <2>1, <2>2
<1>2. q = <<>> <=> Recent(q, L) = <<>>
  BY WindowIs
<1>3. QED
  BY <1>1, <1>2 DEF Extreme

\* The lowest.
LEMMA LowestStep ==
  ASSUME NEW q \in Seq(Int), NEW L \in Nat \ {0}, NEW x, NEW o, NA \notin Int
  PROVE  /\ x.c = NA =>
              LowestUpdate(WindowKept(q, L, o), x, L) = WindowKept(q, L, Extreme(q, L, Smallest))
         /\ x.c \in Int =>
              LowestUpdate(WindowKept(q, L, o), x, L)
                = WindowKept(Ext(q, x.c), L, Extreme(Ext(q, x.c), L, Smallest))
<1>1. PICK w : w = Recent(q, L)
  OBVIOUS
<1>2. WindowKept(q, L, o) = [win |-> w, out |-> o]
  BY <1>1 DEF WindowKept
<1>3. ASSUME x.c = NA
      PROVE  LowestUpdate(WindowKept(q, L, o), x, L) = WindowKept(q, L, Extreme(q, L, Smallest))
  <2>1. LowestUpdate([win |-> w, out |-> o], x, L)
          = [win |-> w, out |-> IF w = <<>> THEN NA ELSE Whole(Smallest(w))]
    BY <1>3 DEF LowestUpdate
  <2>2. QED
    BY <1>1, <1>2, <2>1, LowestOver DEF WindowKept, Extreme
<1>4. ASSUME x.c \in Int
      PROVE  LowestUpdate(WindowKept(q, L, o), x, L)
               = WindowKept(Ext(q, x.c), L, Extreme(Ext(q, x.c), L, Smallest))
  <2>1. PICK v, r, p : v = x.c /\ r = Ext(q, v) /\ p = Push(w, v, L)
    OBVIOUS
  <2>2. r \in Seq(Int) /\ p = Recent(r, L)
    BY <1>1, <1>4, <2>1, WindowPush
  <2>3. LowestUpdate([win |-> w, out |-> o], x, L)
          = [win |-> p, out |-> IF p = <<>> THEN NA ELSE Whole(Smallest(p))]
    BY <1>4, <2>1 DEF LowestUpdate
  <2>4. QED
    BY <1>2, <2>1, <2>2, <2>3, LowestOver DEF WindowKept, Extreme
<1>5. QED
  BY <1>3, <1>4 DEF Extreme

LEMMA ChangeOver ==
  ASSUME NEW q \in Seq(Int), NEW L \in Nat \ {0}
  PROVE  Over(q, L + 1, Change) = IF Len(Recent(q, L + 1)) <= L THEN NA ELSE Change(Recent(q, L + 1))
<1>1. L + 1 \in Nat \ {0} /\ Recent(q, L + 1) \in Seq(Int)
  BY WindowIs
<1>2. CASE Len(q) < L + 1
  BY <1>1, <1>2, WindowIs DEF Over
<1>3. CASE Len(q) >= L + 1
  BY <1>1, <1>3, WindowIs DEF Over
<1>4. QED
  BY <1>2, <1>3 DEF Over

\* The change over a window.
LEMMA ChangeStep ==
  ASSUME NEW q \in Seq(Int), NEW L \in Nat \ {0}, NEW x, NEW o, NA \notin Int
  PROVE  /\ x.c = NA =>
              ChangeUpdate(WindowKept(q, L + 1, o), x, L) = WindowKept(q, L + 1, NA)
         /\ x.c \in Int =>
              ChangeUpdate(WindowKept(q, L + 1, o), x, L)
                = WindowKept(Ext(q, x.c), L + 1, Over(Ext(q, x.c), L + 1, Change))
<1>1. PICK w : w = Recent(q, L + 1)
  OBVIOUS
<1>2. WindowKept(q, L + 1, o) = [win |-> w, out |-> o]
  BY <1>1 DEF WindowKept
<1>3. ASSUME x.c = NA
      PROVE  ChangeUpdate(WindowKept(q, L + 1, o), x, L) = WindowKept(q, L + 1, NA)
  BY <1>1, <1>2, <1>3 DEF WindowKept, ChangeUpdate
<1>4. ASSUME x.c \in Int
      PROVE  ChangeUpdate(WindowKept(q, L + 1, o), x, L)
               = WindowKept(Ext(q, x.c), L + 1, Over(Ext(q, x.c), L + 1, Change))
  <2>1. PICK v, r, p : v = x.c /\ r = Ext(q, v) /\ p = Push(w, v, L + 1)
    OBVIOUS
  <2>2. L + 1 \in Nat \ {0}
    OBVIOUS
  <2>3. r \in Seq(Int) /\ p = Recent(r, L + 1)
    BY <1>1, <1>4, <2>1, <2>2, WindowPush
  <2>4. ChangeUpdate([win |-> w, out |-> o], x, L)
          = [win |-> p, out |-> IF Len(p) <= L THEN NA ELSE Change(p)]
    BY <1>4, <2>1 DEF ChangeUpdate
  <2>5. QED
    BY <1>2, <2>1, <2>3, <2>4, ChangeOver DEF WindowKept, Over
<1>5. QED
  BY <1>3, <1>4 DEF Over

LEMMA RocOver ==
  ASSUME NEW q \in Seq(Int), NEW L \in Nat \ {0}
  PROVE  Over(q, L + 1, Roc) = IF Len(Recent(q, L + 1)) <= L THEN NA ELSE Roc(Recent(q, L + 1))
<1>1. L + 1 \in Nat \ {0} /\ Recent(q, L + 1) \in Seq(Int)
  BY WindowIs
<1>2. CASE Len(q) < L + 1
  BY <1>1, <1>2, WindowIs DEF Over
<1>3. CASE Len(q) >= L + 1
  BY <1>1, <1>3, WindowIs DEF Over
<1>4. QED
  BY <1>2, <1>3 DEF Over

\* The rate of change.
LEMMA RocStep ==
  ASSUME NEW q \in Seq(Int), NEW L \in Nat \ {0}, NEW x, NEW o, NA \notin Int
  PROVE  /\ x.c = NA =>
              RocUpdate(WindowKept(q, L + 1, o), x, L) = WindowKept(q, L + 1, NA)
         /\ x.c \in Int =>
              RocUpdate(WindowKept(q, L + 1, o), x, L)
                = WindowKept(Ext(q, x.c), L + 1, Over(Ext(q, x.c), L + 1, Roc))
<1>1. PICK w : w = Recent(q, L + 1)
  OBVIOUS
<1>2. WindowKept(q, L + 1, o) = [win |-> w, out |-> o]
  BY <1>1 DEF WindowKept
<1>3. ASSUME x.c = NA
      PROVE  RocUpdate(WindowKept(q, L + 1, o), x, L) = WindowKept(q, L + 1, NA)
  BY <1>1, <1>2, <1>3 DEF WindowKept, RocUpdate
<1>4. ASSUME x.c \in Int
      PROVE  RocUpdate(WindowKept(q, L + 1, o), x, L)
               = WindowKept(Ext(q, x.c), L + 1, Over(Ext(q, x.c), L + 1, Roc))
  <2>1. PICK v, r, p : v = x.c /\ r = Ext(q, v) /\ p = Push(w, v, L + 1)
    OBVIOUS
  <2>2. L + 1 \in Nat \ {0}
    OBVIOUS
  <2>3. r \in Seq(Int) /\ p = Recent(r, L + 1)
    BY <1>1, <1>4, <2>1, <2>2, WindowPush
  <2>4. RocUpdate([win |-> w, out |-> o], x, L)
          = [win |-> p, out |-> IF Len(p) <= L THEN NA ELSE Roc(p)]
    BY <1>4, <2>1 DEF RocUpdate
  <2>5. QED
    BY <1>2, <2>1, <2>3, <2>4, RocOver DEF WindowKept, Over
<1>5. QED
  BY <1>3, <1>4 DEF Over

LEMMA DevOver ==
  ASSUME NEW T, NEW q \in Seq(T), NEW L \in Nat \ {0}
  PROVE  Strict(q, L, Cci)
           = IF Len(Recent(q, L)) < L \/ HasBlank(Recent(q, L)) THEN NA ELSE Cci(Recent(q, L))
<1>1. CASE Len(q) < L
  BY <1>1, WindowIs DEF Strict
<1>2. CASE Len(q) >= L
  BY <1>2, WindowIs DEF Strict
<1>3. QED
  BY <1>1, <1>2 DEF Strict

\* The deviation from the mean, of a window that counts na.
LEMMA DevStep ==
  ASSUME NEW T, NEW q \in Seq(T), NEW L \in Nat \ {0}, NEW x, NEW o, x.c \in T
  PROVE  CciUpdate(WindowKept(q, L, o), x, L)
           = WindowKept(Ext(q, x.c), L, Strict(Ext(q, x.c), L, Cci))
<1>1. PICK w : w = Recent(q, L)
  OBVIOUS
<1>2. WindowKept(q, L, o) = [win |-> w, out |-> o]
  BY <1>1 DEF WindowKept
<1>3. PICK v, r, p : v = x.c /\ r = Ext(q, v) /\ p = Push(w, v, L)
  OBVIOUS
<1>4. r \in Seq(T) /\ p = Recent(r, L)
  BY <1>1, <1>3, WindowPush
<1>5. CciUpdate([win |-> w, out |-> o], x, L)
        = [win |-> p, out |-> IF Len(p) < L \/ HasBlank(p) THEN NA ELSE Cci(p)]
  BY <1>3 DEF CciUpdate
<1>6. Strict(r, L, Cci) = IF Len(p) < L \/ HasBlank(p) THEN NA ELSE Cci(p)
  BY <1>4, DevOver DEF Strict
<1>7. QED
  BY <1>2, <1>3, <1>4, <1>5, <1>6 DEF WindowKept, Strict

\* The total of the new window with the rank of every value.
LEMMA WeightedPush ==
  ASSUME NEW w \in Seq(Int), NEW v \in Int, NEW n \in Nat \ {0}, Len(w) <= n
  PROVE  /\ Weighted(w) \in Int
         /\ Len(w) < n => Weighted(Push(w, v, n)) = Weighted(w) + (Len(w) + 1) * v
         /\ Len(w) >= n => Weighted(Push(w, v, n)) = Weighted(w) - Total(w) + n * v
<1>1. Weighted(w) \in Int /\ Total(w) \in Int
  BY WeightedAppend, TotalInt
<1>2. CASE Len(w) < n
  <2>1. Push(w, v, n) = Ext(w, v)
    BY <1>2, PushIs
  <2>2. Weighted(Ext(w, v)) = Weighted(w) + (Len(w) + 1) * v
    BY WeightedAppend
  <2>3. QED
    BY <1>1, <1>2, <2>1, <2>2
<1>3. CASE Len(w) >= n
  <2>1. w # <<>> /\ Len(w) = n
    BY <1>3
  <2>2. Push(w, v, n) = Ext(Rest(w), v)
    BY <1>3, PushIs
  <2>3. Rest(w) \in Seq(Int) /\ Len(Rest(w)) = n - 1
    BY <2>1, RestIs
  <2>4. Weighted(Rest(w)) = Weighted(w) - Total(w)
    BY <2>1, WeightedRest
  <2>5. Weighted(Ext(Rest(w), v)) = Weighted(Rest(w)) + (n - 1 + 1) * v
    BY <2>3, WeightedAppend
  <2>6. n - 1 + 1 = n
    OBVIOUS
  <2>7. QED
    BY <1>1, <1>3, <2>2, <2>4, <2>5, <2>6
<1>4. QED
  BY <1>2, <1>3, <1>1

LEMMA WmaOver ==
  ASSUME NEW q \in Seq(Int), NEW L \in Nat \ {0}
  PROVE  Over(q, L, Wma) = IF Len(Recent(q, L)) < L THEN NA
                           ELSE Frac(Weighted(Recent(q, L)), Triangle(L))
<1>1. CASE Len(q) < L
  BY <1>1, WindowIs DEF Over
<1>2. CASE Len(q) >= L
  BY <1>2, WindowIs DEF Over, Wma
<1>3. QED
  BY <1>1, <1>2 DEF Over

\* The weighted average of a window.
LEMMA WmaStep ==
  ASSUME NEW q \in Seq(Int), NEW L \in Nat \ {0}, NEW x, NEW o, NA \notin Int
  PROVE  /\ x.c = NA => WmaUpdate(WmaKept(q, L, o), x, L) = WmaKept(q, L, NA)
         /\ x.c \in Int => WmaUpdate(WmaKept(q, L, o), x, L)
                             = WmaKept(Ext(q, x.c), L, Over(Ext(q, x.c), L, Wma))
<1>1. PICK w, t, d : w = Recent(q, L) /\ t = Total(w) /\ d = Weighted(w)
  OBVIOUS
<1>2. WmaKept(q, L, o) = [win |-> w, total |-> t, weighted |-> d, out |-> o]
  BY <1>1 DEF WmaKept
<1>3. ASSUME x.c = NA
      PROVE  WmaUpdate(WmaKept(q, L, o), x, L) = WmaKept(q, L, NA)
  <2>1. WmaUpdate([win |-> w, total |-> t, weighted |-> d, out |-> o], x, L)
          = [win |-> w, total |-> t, weighted |-> d, out |-> NA]
    BY <1>3 DEF WmaUpdate
  <2>2. QED
    BY <1>1, <1>2, <2>1 DEF WmaKept
<1>4. ASSUME x.c \in Int
      PROVE  WmaUpdate(WmaKept(q, L, o), x, L)
               = WmaKept(Ext(q, x.c), L, Over(Ext(q, x.c), L, Wma))
  <2>1. PICK v, r, p : v = x.c /\ r = Ext(q, v) /\ p = Push(w, v, L)
    OBVIOUS
  <2>2. /\ v \in Int /\ r \in Seq(Int) /\ w \in Seq(Int) /\ p \in Seq(Int)
        /\ Len(w) <= L /\ p = Recent(r, L)
    BY <1>1, <1>4, <2>1, WindowPush
  <2>3. t \in Int /\ d \in Int /\ L * v \in Int /\ (Len(w) + 1) * v \in Int
    <3>1. t \in Int /\ d \in Int
      BY <1>1, <2>2, TotalInt, WeightedAppend
    <3>2. Len(w) \in Nat
      BY <2>2
    <3>3. L * v \in Int /\ (Len(w) + 1) * v \in Int
      BY <2>2, <3>2
    <3>4. QED
      BY <3>1, <3>3
  <2>4. Total(p) = IF Len(w) >= L THEN t - Head(w) + v ELSE t + v
    <3>1. Len(w) >= L => First(w) \in Int
      BY <2>2, TotalRest
    <3>2. Total(p) = t + v - (IF Len(w) < L THEN 0 ELSE First(w))
      BY <1>1, <2>1, <2>2, TotalPush
    <3>3. QED
      BY <2>2, <2>3, <3>1, <3>2 DEF First
  <2>5. Weighted(p) = IF Len(w) >= L THEN d - t + L * v ELSE d + (Len(w) + 1) * v
    <3>0. v \in Int /\ w \in Seq(Int) /\ Len(w) <= L
      BY <2>2
    <3>1. /\ Len(w) < L => Weighted(Push(w, v, L)) = Weighted(w) + (Len(w) + 1) * v
          /\ Len(w) >= L => Weighted(Push(w, v, L)) = Weighted(w) - Total(w) + L * v
      BY <3>0, WeightedPush
    <3>2. p = Push(w, v, L) /\ t = Total(w) /\ d = Weighted(w)
      BY <1>1, <2>1
    <3>3. Len(w) >= L \/ Len(w) < L
      BY <2>2
    <3>4. QED
      BY <3>1, <3>2, <3>3
  <2>6. WmaUpdate([win |-> w, total |-> t, weighted |-> d, out |-> o], x, L)
          = [win |-> p, total |-> Total(p), weighted |-> Weighted(p),
             out |-> IF Len(p) < L THEN NA ELSE Frac(Weighted(p), Triangle(L))]
    BY <1>4, <2>1, <2>4, <2>5 DEF WmaUpdate
  <2>7. Over(r, L, Wma) = IF Len(p) < L THEN NA ELSE Frac(Weighted(p), Triangle(L))
    BY <2>2, WmaOver DEF Over
  <2>8. QED
    BY <1>2, <2>1, <2>2, <2>6, <2>7 DEF WmaKept, Over
<1>5. QED
  BY <1>3, <1>4 DEF Over

-----------------------------------------------------------------------------
(* Sequences of values computed from the values of another *)

\* A closed name for a set of functions.
Maps(T, U) == [T -> U]

Mapped(f, s) == [i \in 1..Len(s) |-> f[s[i]]]

LEMMA MappedIs ==
  ASSUME NEW T, NEW U, NEW f \in Maps(T, U), NEW s \in Seq(T)
  PROVE  /\ Mapped(f, s) \in Seq(U) /\ Len(Mapped(f, s)) = Len(s)
         /\ \A i \in 1..Len(s) : Mapped(f, s)[i] = f[s[i]]
BY DEF Mapped, Maps

LEMMA MapValue ==
  ASSUME NEW T, NEW U, NEW f \in Maps(T, U), NEW e \in T
  PROVE  f[e] \in U
BY DEF Maps

\* Two sequences with the same values.
LEMMA SeqEqual ==
  ASSUME NEW T, NEW a \in Seq(T), NEW b \in Seq(T), Len(a) = Len(b),
         \A i \in 1..Len(a) : a[i] = b[i]
  PROVE  a = b
OBVIOUS

LEMMA MappedExt ==
  ASSUME NEW T, NEW U, NEW f \in Maps(T, U), NEW s \in Seq(T), NEW e \in T
  PROVE  f[e] \in U /\ Mapped(f, Ext(s, e)) = Ext(Mapped(f, s), f[e])
<1> DEFINE r == Ext(s, e)
           m == Mapped(f, s)
           y == f[e]
           n == Len(s)
<1>1. r \in Seq(T) /\ Len(r) = n + 1 /\ r[n + 1] = e /\ \A i \in 1..n : r[i] = s[i]
  BY DEF Ext
<1> HIDE DEF r
<1>2. m \in Seq(U) /\ Len(m) = n /\ (\A i \in 1..n : m[i] = f[s[i]]) /\ y \in U
  BY MappedIs, MapValue
<1>3. /\ Mapped(f, r) \in Seq(U) /\ Len(Mapped(f, r)) = n + 1
      /\ \A i \in 1..(n + 1) : Mapped(f, r)[i] = f[r[i]]
  BY <1>1, MappedIs
<1> HIDE DEF m, y
<1>4. /\ Ext(m, y) \in Seq(U) /\ Len(Ext(m, y)) = n + 1 /\ Ext(m, y)[n + 1] = y
      /\ \A i \in 1..n : Ext(m, y)[i] = m[i]
  BY <1>2 DEF Ext
<1>5. ASSUME NEW i \in 1..(n + 1) PROVE Mapped(f, r)[i] = Ext(m, y)[i]
  <2>1. CASE i = n + 1
    BY <1>1, <1>3, <1>4, <2>1 DEF y
  <2>2. CASE i # n + 1
    <3>1. i \in 1..n
      BY <2>2
    <3>2. QED
      BY <1>1, <1>2, <1>3, <1>4, <3>1
  <2>3. QED
    BY <2>1, <2>2
<1>6. Mapped(f, r) = Ext(m, y)
  BY <1>3, <1>4, <1>5, SeqEqual
<1>7. QED
  BY <1>2, <1>6 DEF r, m, y

LEMMA MappedLastN ==
  ASSUME NEW T, NEW U, NEW f \in Maps(T, U), NEW s \in Seq(T), NEW n \in Nat, n <= Len(s)
  PROVE  Mapped(f, LastN(s, n)) = LastN(Mapped(f, s), n)
<1> DEFINE r == LastN(s, n)
           m == Mapped(f, s)
<1>1. r \in Seq(T) /\ Len(r) = n /\ \A i \in 1..n : r[i] = s[Len(s) - n + i]
  BY LastNIs
<1>2. m \in Seq(U) /\ Len(m) = Len(s) /\ \A i \in 1..Len(s) : m[i] = f[s[i]]
  BY MappedIs
<1> HIDE DEF r, m
<1>3. Mapped(f, r) \in Seq(U) /\ Len(Mapped(f, r)) = n /\ \A i \in 1..n : Mapped(f, r)[i] = f[r[i]]
  <2>1. r \in Seq(T) /\ Len(r) = n
    BY <1>1
  <2>2. QED
    BY <2>1, MappedIs
<1>4. LastN(m, n) \in Seq(U) /\ Len(LastN(m, n)) = n /\ \A i \in 1..n : LastN(m, n)[i] = m[Len(s) - n + i]
  <2>1. m \in Seq(U) /\ Len(m) = Len(s) /\ n <= Len(m)
    BY <1>2
  <2>2. \A i \in 1..n : LastN(m, n)[i] = m[Len(m) - n + i]
    BY <2>1, LastNIs
  <2>3. QED
    BY <2>1, <2>2, LastNIs
<1>5. ASSUME NEW i \in 1..n PROVE Mapped(f, r)[i] = LastN(m, n)[i]
  <2>1. Len(s) - n + i \in 1..Len(s)
    OBVIOUS
  <2>2. QED
    BY <1>1, <1>2, <1>3, <1>4, <2>1
<1>6. Mapped(f, r) = LastN(m, n)
  BY <1>3, <1>4, <1>5, SeqEqual
<1>7. QED
  BY <1>6 DEF r, m

LEMMA MappedRecent ==
  ASSUME NEW T, NEW U, NEW f \in Maps(T, U), NEW s \in Seq(T), NEW n \in Nat
  PROVE  Mapped(f, Recent(s, n)) = Recent(Mapped(f, s), n)
<1>1. Len(Mapped(f, s)) = Len(s)
  BY MappedIs
<1>2. CASE Len(s) <= n
  BY <1>1, <1>2 DEF Recent
<1>3. CASE Len(s) > n
  BY <1>1, <1>3, MappedLastN DEF Recent
<1>4. QED
  BY <1>2, <1>3

LEMMA MappedPush ==
  ASSUME NEW T, NEW U, NEW f \in Maps(T, U), NEW w \in Seq(T), NEW v \in T,
         NEW n \in Nat \ {0}
  PROVE  Mapped(f, Push(w, v, n)) = Push(Mapped(f, w), f[v], n)
<1> DEFINE r == Append(w, v)
<1>1. r \in Seq(T) /\ Len(r) = Len(w) + 1 /\ Len(Mapped(f, w)) = Len(w)
  BY MappedIs
<1>2. Mapped(f, r) = Append(Mapped(f, w), f[v])
  BY MappedExt DEF Ext
<1> HIDE DEF r
<1>3. CASE Len(w) < n
  BY <1>1, <1>2, <1>3 DEF Push, r
<1>4. CASE Len(w) >= n
  <2>1. Mapped(f, LastN(r, n)) = LastN(Mapped(f, r), n)
    BY <1>1, <1>4, MappedLastN
  <2>2. Push(w, v, n) = LastN(r, n)
    BY <1>4 DEF Push, r
  <2>3. Push(Mapped(f, w), f[v], n) = LastN(Append(Mapped(f, w), f[v]), n)
    BY <1>1, <1>4 DEF Push
  <2>4. QED
    BY <1>2, <2>1, <2>2, <2>3
<1>5. QED
  BY <1>3, <1>4

LEMMA MappedFirst ==
  ASSUME NEW T, NEW U, NEW f \in Maps(T, U), NEW w \in Seq(T), w # <<>>
  PROVE  First(Mapped(f, w)) = f[First(w)] /\ First(w) \in T
<1>1. First(w) \in T /\ First(w) = w[1] /\ Len(w) > 0
  BY RestIs
<1>2. Mapped(f, w) \in Seq(U) /\ Len(Mapped(f, w)) = Len(w) /\ Mapped(f, w)[1] = f[w[1]]
  BY <1>1, MappedIs
<1>3. Mapped(f, w) # <<>>
  BY <1>1, <1>2
<1>4. First(Mapped(f, w)) = Mapped(f, w)[1]
  BY <1>2, <1>3, RestIs
<1>5. QED
  BY <1>1, <1>2, <1>4

\* A running total of what a window is weighed with.
LEMMA MappedTotalPush ==
  ASSUME NEW T, NEW f \in Maps(T, Int), NEW w \in Seq(T), NEW v \in T,
         NEW n \in Nat \ {0}, Len(w) <= n
  PROVE  /\ Total(Mapped(f, w)) \in Int /\ f[v] \in Int
         /\ Len(w) < n => Total(Mapped(f, Push(w, v, n))) = Total(Mapped(f, w)) + f[v]
         /\ Len(w) >= n => /\ w # <<>> /\ First(w) \in T /\ f[First(w)] \in Int
                           /\ Total(Mapped(f, Push(w, v, n)))
                                = Total(Mapped(f, w)) + f[v] - f[First(w)]
<1> DEFINE m == Mapped(f, w)
<1>1. m \in Seq(Int) /\ Len(m) = Len(w) /\ f[v] \in Int
  BY MappedIs, MapValue
<1>2. Mapped(f, Push(w, v, n)) = Push(m, f[v], n)
  BY MappedPush
<1> HIDE DEF m
<1>3. Total(m) \in Int
  BY <1>1, TotalInt
<1>4. Total(Push(m, f[v], n)) = Total(m) + f[v] - (IF Len(m) < n THEN 0 ELSE First(m))
  BY <1>1, TotalPush
<1>5. CASE Len(w) < n
  BY <1>1, <1>2, <1>3, <1>4, <1>5 DEF m
<1>6. CASE Len(w) >= n
  <2>1. w # <<>>
    BY <1>6
  <2>2. First(m) = f[First(w)] /\ First(w) \in T
    BY <2>1, MappedFirst DEF m
  <2>3. Total(Push(m, f[v], n)) = Total(m) + f[v] - f[First(w)]
    BY <1>1, <1>4, <1>6, <2>2
  <2>4. f[First(w)] \in Int
    BY <2>2, MapValue
  <2>5. QED
    BY <1>1, <1>2, <1>3, <1>6, <2>1, <2>2, <2>3, <2>4 DEF m
<1>7. QED
  BY <1>5, <1>6

-----------------------------------------------------------------------------
(* The greatest common divisor *)

LEMMA DivisionWithRest ==
  \A a \in Int, b \in Int : b > 0 => a = b * (a \div b) + (a % b)
BY SMT

LEMMA Division ==
  ASSUME NEW a \in Int, NEW b \in Nat \ {0}
  PROVE  /\ a \div b \in Int /\ a % b \in Nat /\ a % b < b
         /\ a = b * (a \div b) + (a % b)
<1>1. a \div b \in Int
  OBVIOUS
<1>2. a % b \in Nat /\ a % b < b
  BY Z3
<1>3. PICK c \in Int : c = b /\ c > 0
  OBVIOUS
<1>4. a = c * (a \div c) + (a % c)
  BY <1>3, DivisionWithRest
<1>5. QED
  BY <1>1, <1>2, <1>3, <1>4

\* A product of the same sign as its factor.
LEMMA ExactDivision ==
  ASSUME NEW g \in Nat \ {0}, NEW u \in Int
  PROVE  (g * u) \div g = u
<1>1. PICK a \in Int : a = g * u
  OBVIOUS
<1>2. PICK q \in Int, r \in Nat : q = a \div g /\ r < g /\ a = g * q + r
  BY Division
<1>3. g * (u - q) = r
  BY <1>1, <1>2
<1>4. u - q < 1
  <2>1. ASSUME u - q >= 1 PROVE g * (u - q) >= g
    BY <2>1
  <2>2. QED
    BY <1>2, <1>3, <2>1
<1>5. u - q >= 0
  <2>1. ASSUME u - q <= 0 - 1 PROVE g * (u - q) <= 0 - g
    BY <2>1
  <2>2. QED
    BY <1>2, <1>3, <2>1
<1>6. QED
  BY <1>1, <1>2, <1>4, <1>5

\* g divides a and b, and is a sum of multiples of them.
IsGcd(g, a, b) ==
  \E u, v, x, y \in Int : a = g * u /\ b = g * v /\ g = a * x + b * y

LEMMA GcdUnique ==
  \A g, h \in Nat : \A a, b \in Int : IsGcd(g, a, b) /\ IsGcd(h, a, b) => g = h
<1> SUFFICES ASSUME NEW g \in Nat, NEW h \in Nat, NEW a \in Int, NEW b \in Int,
                    IsGcd(g, a, b), IsGcd(h, a, b)
             PROVE  g = h
  OBVIOUS
<1>1. PICK u, v, x, y \in Int : a = g * u /\ b = g * v /\ g = a * x + b * y
  BY DEF IsGcd
<1>2. PICK p, q, z, w \in Int : a = h * p /\ b = h * q /\ h = a * z + b * w
  BY DEF IsGcd
<1>3. PICK k \in Int : k = p * x + q * y
  OBVIOUS
<1>4. PICK m \in Int : m = u * z + v * w
  OBVIOUS
<1>5. g = h * k
  <2>1. g = (h * p) * x + (h * q) * y
    BY <1>1, <1>2
  <2>2. (h * p) * x + (h * q) * y = h * (p * x + q * y)
    OBVIOUS
  <2>3. QED
    BY <1>3, <2>1, <2>2
<1>6. h = g * m
  <2>1. h = (g * u) * z + (g * v) * w
    BY <1>1, <1>2
  <2>2. (g * u) * z + (g * v) * w = g * (u * z + v * w)
    OBVIOUS
  <2>3. QED
    BY <1>4, <2>1, <2>2
<1>7. \A s, t \in Nat, n \in Int : s = t * n /\ s > 0 => s >= t
  <2> SUFFICES ASSUME NEW s \in Nat, NEW t \in Nat, NEW n \in Int, s = t * n, s > 0 PROVE s >= t
    OBVIOUS
  <2>1. n >= 1
    <3>1. ASSUME n <= 0 PROVE t * n <= 0
      BY <3>1
    <3>2. QED
      BY <3>1
  <2>2. t * n >= t
    BY <2>1
  <2>3. QED
    BY <2>2
<1>8. CASE g > 0 /\ h > 0
  BY <1>5, <1>6, <1>7, <1>8
<1>9. CASE g = 0
  BY <1>6, <1>9
<1>10. CASE h = 0
  BY <1>5, <1>10
<1>11. QED
  BY <1>8, <1>9, <1>10

LEMMA GcdStep ==
  ASSUME NEW g \in Nat, NEW a \in Nat, NEW b \in Nat \ {0}
  PROVE  IsGcd(g, b, a % b) <=> IsGcd(g, a, b)
<1>1. PICK q \in Int, r \in Nat : q = a \div b /\ r = a % b /\ a = b * q + r
  BY Division
<1>2. ASSUME IsGcd(g, b, r) PROVE IsGcd(g, a, b)
  <2>1. PICK u, v, x, y \in Int : b = g * u /\ r = g * v /\ g = b * x + r * y
    BY <1>2 DEF IsGcd
  <2>2. a = g * (u * q + v)
    <3>1. a = (g * u) * q + g * v
      BY <1>1, <2>1
    <3>2. QED
      BY <3>1
  <2>3. g = a * y + b * (x - q * y)
    <3>1. r = a - b * q
      BY <1>1
    <3>2. g = b * x + (a - b * q) * y
      BY <2>1, <3>1
    <3>3. QED
      BY <3>2
  <2>4. u * q + v \in Int /\ x - q * y \in Int
    OBVIOUS
  <2>5. QED
    BY <2>1, <2>2, <2>3, <2>4 DEF IsGcd
<1>3. ASSUME IsGcd(g, a, b) PROVE IsGcd(g, b, r)
  <2>1. PICK u, v, x, y \in Int : a = g * u /\ b = g * v /\ g = a * x + b * y
    BY <1>3 DEF IsGcd
  <2>2. r = g * (u - v * q)
    <3>1. r = a - b * q
      BY <1>1
    <3>2. r = g * u - (g * v) * q
      BY <2>1, <3>1
    <3>3. g * u - (g * v) * q = g * (u - v * q)
      OBVIOUS
    <3>4. QED
      BY <3>2, <3>3
  <2>3. g = b * (q * x + y) + r * x
    <3>1. g = (b * q + r) * x + b * y
      BY <1>1, <2>1
    <3>2. QED
      BY <3>1
  <2>4. u - v * q \in Int /\ q * x + y \in Int
    OBVIOUS
  <2>5. QED
    BY <2>1, <2>2, <2>3, <2>4 DEF IsGcd
<1>4. QED
  BY <1>1, <1>2, <1>3

\* With no second number it is the first.
LEMMA GcdBase ==
  ASSUME NEW a \in Nat
  PROVE  IsGcd(a, a, 0)
<1>1. a = a * 1 /\ 0 = a * 0 /\ a = a * 1 + 0 * 0
  OBVIOUS
<1>2. QED
  BY <1>1 DEF IsGcd

\* What holds whenever it holds of all smaller second numbers.
LEMMA GcdInduction ==
  ASSUME NEW S, \A a \in Nat : <<a, 0>> \in S,
         \A a \in Nat, b \in Nat \ {0} : <<b, a % b>> \in S => <<a, b>> \in S
  PROVE  Nat \X Nat \subseteq S
<1> DEFINE N == {n \in Nat : \A a \in Nat, b \in Nat : b <= n => <<a, b>> \in S}
<1>1. 0 \in N
  OBVIOUS
<1>2. ASSUME NEW n \in Nat, n \in N PROVE n + 1 \in N
  <2> SUFFICES ASSUME NEW a \in Nat, NEW b \in Nat, b <= n + 1 PROVE <<a, b>> \in S
    OBVIOUS
  <2>1. CASE b <= n
    BY <1>2, <2>1
  <2>2. CASE b = n + 1
    <3>1. a % b \in Nat /\ a % b < b
      BY <2>2, Division
    <3>2. a % b <= n
      BY <2>2, <3>1
    <3>3. <<b, a % b>> \in S
      BY <1>2, <3>1, <3>2
    <3>4. QED
      BY <2>2, <3>3
  <2>3. QED
    BY <2>1, <2>2
<1>3. Nat \subseteq N
  <2> HIDE DEF N
  <2> QED
    BY <1>1, <1>2, FT!SetInduction
<1>4. ASSUME NEW a \in Nat, NEW b \in Nat PROVE <<a, b>> \in S
  <2>1. b \in N
    BY <1>3
  <2>2. QED
    BY <2>1
<1>5. QED
  BY <1>4

LEMMA GcdExists ==
  ASSUME NEW a \in Nat, NEW b \in Nat
  PROVE  \E g \in Nat : IsGcd(g, a, b)
<1> DEFINE S == {p \in Nat \X Nat : \E g \in Nat : IsGcd(g, p[1], p[2])}
<1>1. \A c \in Nat : <<c, 0>> \in S
  BY GcdBase
<1>2. ASSUME NEW c \in Nat, NEW d \in Nat \ {0}, <<d, c % d>> \in S PROVE <<c, d>> \in S
  <2>1. PICK g \in Nat : IsGcd(g, d, c % d)
    BY <1>2
  <2>2. IsGcd(g, c, d)
    BY <2>1, GcdStep
  <2>3. QED
    BY <2>2
<1>3. Nat \X Nat \subseteq S
  <2> HIDE DEF S
  <2> QED
    BY <1>1, <1>2, GcdInduction
<1>4. <<a, b>> \in S
  <2> HIDE DEF S
  <2> QED
    BY <1>3
<1>5. QED
  BY <1>4

\* The function the recursion defines.
Gcds(f) ==
  f = [p \in Nat \X Nat |-> IF p[2] = 0 THEN p[1] ELSE f[<<p[2], p[1] % p[2]>>]]

LEMMA GcdsExist == \E f : Gcds(f)
<1> DEFINE Of(a, b) == CHOOSE g \in Nat : IsGcd(g, a, b)
           f == [p \in Nat \X Nat |-> Of(p[1], p[2])]
           h == [p \in Nat \X Nat |-> IF p[2] = 0 THEN p[1] ELSE f[<<p[2], p[1] % p[2]>>]]
<1>1. \A a, b \in Nat : Of(a, b) \in Nat /\ IsGcd(Of(a, b), a, b)
  BY GcdExists
<1> HIDE DEF Of
<1>2. ASSUME NEW a \in Nat, NEW b \in Nat PROVE f[<<a, b>>] = h[<<a, b>>]
  <2>1. f[<<a, b>>] = Of(a, b)
    OBVIOUS
  <2>2. CASE b = 0
    <3>1. Of(a, b) = a
      <4>1. IsGcd(a, a, b) /\ IsGcd(Of(a, b), a, b) /\ Of(a, b) \in Nat
        BY <1>1, <2>2, GcdBase
      <4>2. PICK k \in Nat : k = Of(a, b)
        BY <4>1
      <4>3. PICK g \in Nat, c \in Int, d \in Int : g = a /\ c = a /\ d = b
        OBVIOUS
      <4>4. IsGcd(g, c, d) /\ IsGcd(k, c, d)
        BY <4>1, <4>2, <4>3, Zenon
      <4>5. k = g
        BY <4>4, GcdUnique
      <4>6. QED
        BY <4>2, <4>3, <4>5
    <3>2. h[<<a, b>>] = a
      BY <2>2
    <3>3. QED
      BY <2>1, <3>1, <3>2
  <2>3. CASE b # 0
    <3>1. a % b \in Nat
      BY <2>3, Division
    <3>2. h[<<a, b>>] = f[<<b, a % b>>]
      BY <2>3
    <3>3. f[<<b, a % b>>] = Of(b, a % b)
      BY <3>1
    <3>4. IsGcd(Of(b, a % b), a, b) /\ Of(b, a % b) \in Nat
      BY <1>1, <2>3, <3>1, GcdStep
    <3>5. Of(b, a % b) = Of(a, b)
      <4>1. IsGcd(Of(a, b), a, b) /\ Of(a, b) \in Nat
        BY <1>1
      <4>2. PICK j \in Nat, k \in Nat : j = Of(b, a % b) /\ k = Of(a, b)
        BY <3>4, <4>1
      <4>3. PICK c \in Int, d \in Int : c = a /\ d = b
        OBVIOUS
      <4>4. IsGcd(j, c, d) /\ IsGcd(k, c, d)
        BY <3>4, <4>1, <4>2, <4>3, Zenon
      <4>5. j = k
        BY <4>4, GcdUnique
      <4>6. QED
        BY <4>2, <4>5
    <3>6. QED
      BY <2>1, <3>2, <3>3, <3>5
  <2>4. QED
    BY <2>2, <2>3
<1>3. \A p \in Nat \X Nat : f[p] = h[p]
  <2> HIDE DEF f, h
  <2>1. ASSUME NEW p \in Nat \X Nat PROVE f[p] = h[p]
    <3>1. PICK a \in Nat, b \in Nat : p = <<a, b>>
      OBVIOUS
    <3>2. QED
      BY <1>2, <3>1
  <2>2. QED
    BY <2>1
<1>4. f = [p \in Nat \X Nat |-> f[p]] /\ h = [p \in Nat \X Nat |-> h[p]]
  OBVIOUS
<1>5. f = h
  <2> HIDE DEF f, h
  <2> QED
    BY <1>3, <1>4
<1>6. Gcds(f)
  <2> HIDE DEF f
  <2> QED
    BY <1>5 DEF Gcds
<1>7. QED
  BY <1>6

LEMMA GcdIs ==
  ASSUME NEW a \in Nat, NEW b \in Nat
  PROVE  Gcd[<<a, b>>] \in Nat /\ IsGcd(Gcd[<<a, b>>], a, b)
<1>1. Gcds(Gcd)
  BY GcdsExist DEF Gcds, Gcd
<1>2. \A c, d \in Nat : Gcd[<<c, d>>] = IF d = 0 THEN c ELSE Gcd[<<d, c % d>>]
  <2> SUFFICES ASSUME NEW c \in Nat, NEW d \in Nat
               PROVE  Gcd[<<c, d>>] = IF d = 0 THEN c ELSE Gcd[<<d, c % d>>]
    OBVIOUS
  <2>1. PICK h : h = [p \in Nat \X Nat |-> IF p[2] = 0 THEN p[1] ELSE Gcd[<<p[2], p[1] % p[2]>>]]
    OBVIOUS
  <2>2. h[<<c, d>>] = IF d = 0 THEN c ELSE Gcd[<<d, c % d>>]
    BY <2>1
  <2>3. Gcd = h
    BY <1>1, <2>1 DEF Gcds
  <2>4. QED
    BY <2>2, <2>3
<1> DEFINE S == {p \in Nat \X Nat : Gcd[p] \in Nat /\ IsGcd(Gcd[p], p[1], p[2])}
<1>3. \A c \in Nat : <<c, 0>> \in S
  BY <1>2, GcdBase
<1>4. ASSUME NEW c \in Nat, NEW d \in Nat \ {0}, <<d, c % d>> \in S PROVE <<c, d>> \in S
  <2>1. Gcd[<<c, d>>] = Gcd[<<d, c % d>>]
    BY <1>2
  <2>2. Gcd[<<d, c % d>>] \in Nat /\ IsGcd(Gcd[<<d, c % d>>], d, c % d)
    BY <1>4
  <2>3. IsGcd(Gcd[<<c, d>>], c, d)
    BY <2>1, <2>2, GcdStep
  <2>4. QED
    BY <2>1, <2>2, <2>3
<1>5. Nat \X Nat \subseteq S
  <2> HIDE DEF S
  <2> QED
    BY <1>3, <1>4, GcdInduction
<1>6. <<a, b>> \in S
  <2> HIDE DEF S
  <2> QED
    BY <1>5
<1>7. QED
  BY <1>6

-----------------------------------------------------------------------------
(* Fractions *)

\* The fractions in lowest terms.
Fracs == {f \in Int \X (Nat \ {0}) : \E x, y \in Int : f[1] * x + f[2] * y = 1}

\* The fraction f is n / d.
Ratio(f, n, d) == f[1] * d = n * f[2]

LEMMA FracsAre ==
  ASSUME NEW f \in Fracs
  PROVE  f[1] \in Int /\ f[2] \in Nat \ {0} /\ f = <<f[1], f[2]>>
BY DEF Fracs

LEMMA FracHas ==
  ASSUME NEW f \in Fracs
  PROVE  \E n \in Int, d \in Nat \ {0}, x, y \in Int : f = <<n, d>> /\ n * x + d * y = 1
<1>1. f \in Int \X (Nat \ {0}) /\ \E x, y \in Int : f[1] * x + f[2] * y = 1
  BY DEF Fracs
<1>2. PICK n \in Int, d \in Nat \ {0} : f = <<n, d>>
  BY <1>1
<1>3. f[1] = n /\ f[2] = d
  BY <1>2
<1>4. PICK x, y \in Int : n * x + d * y = 1
  BY <1>1, <1>3
<1>5. QED
  BY <1>2, <1>4

LEMMA FracBy ==
  ASSUME NEW n \in Int, NEW d \in Nat \ {0}, NEW x \in Int, NEW y \in Int, n * x + d * y = 1
  PROVE  <<n, d>> \in Fracs
<1>1. PICK f : f = <<n, d>>
  OBVIOUS
<1>2. f \in Int \X (Nat \ {0}) /\ f[1] = n /\ f[2] = d
  BY <1>1
<1>3. f[1] * x + f[2] * y = 1
  BY <1>2
<1>4. f \in Fracs
  BY <1>2, <1>3 DEF Fracs
<1>5. QED
  BY <1>1, <1>4

LEMMA NotBlank ==
  ASSUME NA \notin Int \X Int, NEW f \in Fracs
  PROVE  f # NA
BY DEF Fracs

LEMMA Cancel ==
  \A g \in Nat \ {0}, a, b \in Int : g * a = g * b => a = b
<1> SUFFICES ASSUME NEW g \in Nat \ {0}, NEW a \in Int, NEW b \in Int, g * a = g * b, a # b
             PROVE  FALSE
  OBVIOUS
<1>1. g * (a - b) = 0
  OBVIOUS
<1>2. CASE a - b >= 1
  <2>1. g * (a - b) >= g
    BY <1>2
  <2>2. QED
    BY <1>1, <2>1
<1>3. CASE a - b <= -1
  <2>1. g * (a - b) <= -g
    BY <1>3
  <2>2. QED
    BY <1>1, <2>1
<1>4. QED
  BY <1>2, <1>3

LEMMA FracIs ==
  ASSUME NEW n \in Int, NEW d \in Int, d # 0
  PROVE  Frac(n, d) \in Fracs /\ Ratio(Frac(n, d), n, d)
<1>1. PICK s \in {-1, 1} : s = (IF d < 0 THEN -1 ELSE 1) /\ s * d = Magnitude(d)
  BY DEF Magnitude
<1>2. PICK t \in {-1, 1} : t * n = Magnitude(n)
  BY DEF Magnitude
<1>3. PICK a \in Nat, b \in Nat \ {0} : a = Magnitude(n) /\ b = Magnitude(d)
  BY DEF Magnitude
<1>4. PICK g \in Nat : g = Gcd[<<a, b>>] /\ IsGcd(g, a, b)
  BY GcdIs
<1>5. PICK u, v, x, y \in Int : a = g * u /\ b = g * v /\ g = a * x + b * y
  BY <1>4 DEF IsGcd
<1>6. g \in Nat \ {0}
  BY <1>5
<1>7. PICK p \in Int : p = (s * t) * u
  OBVIOUS
<1>8. s * n = g * p /\ s * d = g * v
  <2>1. CASE t = 1
    <3>1. s * n = s * (g * u) /\ p = s * u
      BY <1>2, <1>3, <1>5, <1>7, <2>1
    <3>2. QED
      BY <1>1, <1>3, <1>5, <3>1
  <2>2. CASE t = -1
    <3>1. n = -(g * u) /\ p = -(s * u)
      BY <1>2, <1>3, <1>5, <1>7, <2>2
    <3>2. QED
      BY <1>1, <1>3, <1>5, <3>1
  <2>3. QED
    BY <2>1, <2>2
<1>9. (s * n) \div g = p /\ (s * d) \div g = v
  <2>1. (g * p) \div g = p
    BY <1>6, ExactDivision
  <2>2. (g * v) \div g = v
    BY <1>6, ExactDivision
  <2>3. QED
    BY <1>8, <2>1, <2>2
<1>10. Frac(n, d) = <<p, v>>
  <2>1. Gcd[<<Magnitude(n), Magnitude(d)>>] = g
    BY <1>3, <1>4
  <2>2. QED
    BY <1>1, <1>9, <2>1 DEF Frac
<1>11. v \in Nat \ {0}
  <2>1. g * v >= 1
    BY <1>5
  <2>2. ASSUME v <= 0 PROVE g * v <= 0
    BY <1>6, <2>2
  <2>3. QED
    BY <2>1, <2>2
<1>12. p * ((s * t) * x) + v * y = 1
  <2>1. u * x + v * y = 1
    <3>1. g * (u * x + v * y) = (g * u) * x + (g * v) * y
      OBVIOUS
    <3>2. g * (u * x + v * y) = g * 1
      BY <1>5, <3>1
    <3>3. PICK k \in Int : k = u * x + v * y
      OBVIOUS
    <3>4. k = 1
      BY <1>6, <3>2, <3>3, Cancel
    <3>5. QED
      BY <3>3, <3>4
  <2>2. p * ((s * t) * x) = u * x
    BY <1>7
  <2>3. QED
    BY <2>1, <2>2
<1>13. p * d = n * v
  <2>1. g * (p * d) = g * (n * v)
    <3>1. g * (p * d) = (g * p) * d /\ g * (n * v) = n * (g * v)
      OBVIOUS
    <3>2. (s * n) * d = n * (s * d)
      OBVIOUS
    <3>3. QED
      BY <1>8, <3>1, <3>2
  <2>2. PICK j \in Int, k \in Int : j = p * d /\ k = n * v
    OBVIOUS
  <2>3. j = k
    BY <1>6, <2>1, <2>2, Cancel
  <2>4. QED
    BY <2>2, <2>3
<1>14. <<p, v>> \in Fracs
  <2>1. PICK z \in Int : z = (s * t) * x
    OBVIOUS
  <2>2. p * z + v * y = 1
    BY <1>12, <2>1
  <2>3. QED
    BY <1>11, <2>2, FracBy
<1>15. QED
  BY <1>10, <1>13, <1>14 DEF Ratio

\* A fraction is known by its value.
LEMMA FracUnique ==
  ASSUME NEW f \in Fracs, NEW g \in Fracs, f[1] * g[2] = g[1] * f[2]
  PROVE  f = g
<1>1. PICK a \in Int, b \in Nat \ {0}, x, y \in Int : f = <<a, b>> /\ a * x + b * y = 1
  BY FracHas
<1>2. PICK c \in Int, d \in Nat \ {0}, z, w \in Int : g = <<c, d>> /\ c * z + d * w = 1
  BY FracHas
<1>3. a * d = c * b
  BY <1>1, <1>2
<1>4. PICK j \in Int : j = c * x + d * y
  OBVIOUS
<1>5. PICK k \in Int : k = a * z + b * w
  OBVIOUS
<1>6. d = b * j
  <2>1. d * (a * x + b * y) = d
    BY <1>1
  <2>2. d * (a * x + b * y) = (a * d) * x + (d * b) * y
    OBVIOUS
  <2>3. (c * b) * x + (d * b) * y = b * (c * x + d * y)
    OBVIOUS
  <2>4. QED
    BY <1>3, <1>4, <2>1, <2>2, <2>3
<1>7. b = d * k
  <2>1. b * (c * z + d * w) = b
    BY <1>2
  <2>2. b * (c * z + d * w) = (c * b) * z + (d * b) * w
    OBVIOUS
  <2>3. (a * d) * z + (d * b) * w = d * (a * z + b * w)
    OBVIOUS
  <2>4. QED
    BY <1>3, <1>5, <2>1, <2>2, <2>3
<1>8. \A s, t \in Nat \ {0}, m \in Int : s = t * m => s >= t
  <2> SUFFICES ASSUME NEW s \in Nat \ {0}, NEW t \in Nat \ {0}, NEW m \in Int, s = t * m
               PROVE  s >= t
    OBVIOUS
  <2>1. m >= 1
    <3>1. ASSUME m <= 0 PROVE t * m <= 0
      BY <3>1
    <3>2. QED
      BY <3>1
  <2>2. t * m >= t
    BY <2>1
  <2>3. QED
    BY <2>2
<1>9. b = d
  BY <1>6, <1>7, <1>8
<1>10. a = c
  <2>1. d * a = d * c
    BY <1>3, <1>9
  <2>2. QED
    BY <2>1, Cancel
<1>11. QED
  BY <1>1, <1>2, <1>9, <1>10

\* A factor of both sides falls out.
LEMMA FracScaled ==
  ASSUME NEW n \in Int, NEW d \in Int, d # 0, NEW k \in Int, k # 0
  PROVE  Frac(k * n, k * d) = Frac(n, d)
<1>1. k * d # 0 /\ k * n \in Int /\ k * d \in Int
  OBVIOUS
<1>2. PICK f \in Fracs, g \in Fracs : f = Frac(k * n, k * d) /\ g = Frac(n, d)
  BY <1>1, FracIs
<1>3. f[1] * (k * d) = (k * n) * f[2] /\ g[1] * d = n * g[2]
  BY <1>1, <1>2, FracIs DEF Ratio
<1>4. PICK a, b, c, e \in Int : a = f[1] /\ b = f[2] /\ c = g[1] /\ e = g[2]
  BY FracsAre
<1>5. a * d = n * b
  <2>1. k * (a * d - n * b) = 0
    <3>1. f[1] * (k * d) = (k * n) * f[2]
      BY <1>3
    <3>2. a * (k * d) = (k * n) * b
      BY <1>4, <3>1
    <3>3. QED
      BY <3>2
  <2>2. QED
    BY <2>1
<1>6. c * d = n * e
  <2>1. g[1] * d = n * g[2]
    BY <1>3
  <2>2. QED
    BY <1>4, <2>1
<1>7. a * e = c * b
  <2>1. d * (a * e) = d * (c * b)
    <3>1. (a * d) * e = (n * b) * e /\ (c * d) * b = (n * e) * b
      BY <1>5, <1>6
    <3>2. (n * b) * e = (n * e) * b
      OBVIOUS
    <3>3. QED
      BY <3>1, <3>2
  <2>2. d * (a * e - c * b) = 0
    BY <2>1
  <2>3. QED
    BY <2>2
<1>8. f = g
  BY <1>4, <1>7, FracUnique
<1>9. QED
  BY <1>2, <1>8

LEMMA WholeIs ==
  ASSUME NEW n \in Int
  PROVE  Whole(n) \in Fracs /\ Whole(n)[1] = n /\ Whole(n)[2] = 1
<1>1. n * 0 + 1 * 1 = 1
  OBVIOUS
<1>2. QED
  BY <1>1 DEF Whole, Fracs

LEMMA AddIs ==
  ASSUME NEW a \in Fracs, NEW b \in Fracs
  PROVE  Add(a, b) \in Fracs /\ Ratio(Add(a, b), a[1] * b[2] + b[1] * a[2], a[2] * b[2])
<1>1. a[1] \in Int /\ a[2] \in Nat \ {0} /\ b[1] \in Int /\ b[2] \in Nat \ {0}
  BY FracsAre
<1>2. a[1] * b[2] + b[1] * a[2] \in Int /\ a[2] * b[2] \in Int /\ a[2] * b[2] # 0
  BY <1>1
<1>3. QED
  BY <1>2, FracIs DEF Add

LEMMA MulIs ==
  ASSUME NEW a \in Fracs, NEW b \in Fracs
  PROVE  Mul(a, b) \in Fracs /\ Ratio(Mul(a, b), a[1] * b[1], a[2] * b[2])
<1>1. a[1] \in Int /\ a[2] \in Nat \ {0} /\ b[1] \in Int /\ b[2] \in Nat \ {0}
  BY FracsAre
<1>2. a[1] * b[1] \in Int /\ a[2] * b[2] \in Int /\ a[2] * b[2] # 0
  BY <1>1
<1>3. QED
  BY <1>2, FracIs DEF Mul

LEMMA NegatedIs ==
  ASSUME NEW a \in Fracs
  PROVE  Negated(a) \in Fracs /\ Negated(a)[1] = -a[1] /\ Negated(a)[2] = a[2]
<1>1. PICK n \in Int, d \in Nat \ {0}, x, y \in Int : a = <<n, d>> /\ n * x + d * y = 1
  BY FracHas
<1>2. (-n) * (-x) + d * y = 1
  BY <1>1
<1>3. <<-n, d>> \in Fracs
  <2>1. PICK m \in Int, z \in Int : m = -n /\ z = -x
    OBVIOUS
  <2>2. m * z + d * y = 1
    BY <1>2, <2>1
  <2>3. QED
    BY <2>1, <2>2, FracBy
<1>4. QED
  BY <1>1, <1>3 DEF Negated

LEMMA AbsIs ==
  ASSUME NEW a \in Fracs
  PROVE  Abs(a) \in Fracs
<1>1. CASE a[1] < 0
  <2>1. Abs(a) = Negated(a)
    BY <1>1 DEF Abs, Negated, Magnitude
  <2>2. QED
    BY <2>1, NegatedIs
<1>2. CASE ~(a[1] < 0)
  <2>1. Abs(a) = a
    BY <1>2, FracsAre DEF Abs, Magnitude
  <2>2. QED
    BY <2>1
<1>3. QED
  BY <1>1, <1>2

LEMMA SubIs ==
  ASSUME NEW a \in Fracs, NEW b \in Fracs
  PROVE  Sub(a, b) \in Fracs /\ Ratio(Sub(a, b), a[1] * b[2] - b[1] * a[2], a[2] * b[2])
<1>1. PICK c \in Fracs : c = Negated(b) /\ c[1] = -b[1] /\ c[2] = b[2]
  BY NegatedIs
<1>2. Add(a, c) \in Fracs /\ Ratio(Add(a, c), a[1] * c[2] + c[1] * a[2], a[2] * c[2])
  BY AddIs
<1>3. a[1] \in Int /\ a[2] \in Nat \ {0} /\ b[1] \in Int /\ b[2] \in Nat \ {0}
  BY FracsAre
<1>4. a[1] * c[2] + c[1] * a[2] = a[1] * b[2] - b[1] * a[2]
  BY <1>1, <1>3
<1>5. QED
  BY <1>1, <1>2, <1>4 DEF Sub

LEMMA DivIs ==
  ASSUME NEW a \in Fracs, NEW b \in Fracs, b[1] # 0
  PROVE  Div(a, b) \in Fracs /\ Ratio(Div(a, b), a[1] * b[2], a[2] * b[1])
<1>1. a[1] \in Int /\ a[2] \in Nat \ {0} /\ b[1] \in Int /\ b[2] \in Nat \ {0}
  BY FracsAre
<1>2. a[1] * b[2] \in Int /\ a[2] * b[1] \in Int /\ a[2] * b[1] # 0
  BY <1>1
<1>3. QED
  BY <1>2, FracIs DEF Div

\* Only zero has the numerator zero.
LEMMA ZeroIs ==
  ASSUME NEW a \in Fracs
  PROVE  Zero \in Fracs /\ (a[1] = 0 <=> a = Zero)
<1>1. Zero \in Fracs /\ Zero[1] = 0 /\ Zero[2] = 1
  BY WholeIs DEF Zero
<1>2. a[2] \in Nat \ {0}
  BY FracsAre
<1>3. a[1] = 0 => a = Zero
  BY <1>1, <1>2, FracUnique
<1>4. QED
  BY <1>1, <1>3

-----------------------------------------------------------------------------
(* Smoothing *)

LEMMA AddAllEmpty == AddUp(<<>>) = Zero
<1>1. FA!Fold(Zero, <<>>) = Zero
  BY FA!FoldEmpty
<1>2. FA!Fold(Zero, <<>>) = FoldLeft(Add, Zero, <<>>)
  BY DEF FA!Fold, FA!MapThenFoldSet, FoldLeft, MapThenFoldSet, FA!Max, Max
<1>3. QED
  BY <1>1, <1>2 DEF AddUp

LEMMA AddAllExt ==
  ASSUME NEW T, NEW s \in Seq(T), NEW v \in T
  PROVE  AddUp(Ext(s, v)) = Add(AddUp(s), v)
<1>1. FA!Fold(Zero, Append(s, v)) = Add(FA!Fold(Zero, s), v)
  BY FA!FoldAppend
<1>2. /\ FA!Fold(Zero, s) = FoldLeft(Add, Zero, s)
      /\ FA!Fold(Zero, Append(s, v)) = FoldLeft(Add, Zero, Append(s, v))
  BY DEF FA!Fold, FA!MapThenFoldSet, FoldLeft, MapThenFoldSet, FA!Max, Max
<1>3. QED
  BY <1>1, <1>2 DEF Ext, AddUp

\* A sum of fractions is one.
LEMMA AddAllIs ==
  ASSUME NEW s \in Seq(Fracs)
  PROVE  AddUp(s) \in Fracs
<1> DEFINE S == {r \in Seq(Fracs) : AddUp(r) \in Fracs}
<1>1. <<>> \in S
  <2>1. Zero \in Fracs
    BY WholeIs DEF Zero
  <2>2. QED
    BY <2>1, AddAllEmpty
<1>2. ASSUME NEW r \in Seq(Fracs), NEW e \in Fracs, r \in S PROVE Ext(r, e) \in S
  <2>1. Ext(r, e) \in Seq(Fracs)
    BY DEF Ext
  <2>2. AddUp(Ext(r, e)) = Add(AddUp(r), e)
    BY AddAllExt
  <2>3. AddUp(r) \in Fracs
    BY <1>2
  <2>4. Add(AddUp(r), e) \in Fracs
    BY <2>3, AddIs
  <2>5. QED
    BY <2>1, <2>2, <2>4
<1> HIDE DEF S
<1>3. Seq(Fracs) \subseteq S
  BY <1>1, <1>2, SeqInduction
<1>4. QED
  BY <1>3 DEF S

LEMMA SeedIs ==
  ASSUME NEW s \in Seq(Fracs), NEW n \in Nat \ {0}
  PROVE  Div(AddUp(s), Whole(n)) \in Fracs
<1>1. Whole(n) \in Fracs /\ Whole(n)[1] # 0
  BY WholeIs
<1>2. AddUp(s) \in Fracs
  BY AddAllIs
<1>3. QED
  BY <1>1, <1>2, DivIs

LEMMA EmaStepIs ==
  ASSUME NEW n \in Nat \ {0}, NEW value \in Fracs, NEW x \in Fracs
  PROVE  EmaStep(n, value, x) \in Fracs
<1>1. n + 1 \in Int /\ n + 1 # 0 /\ n - 1 \in Int
  OBVIOUS
<1>2. Frac(2, n + 1) \in Fracs /\ Frac(n - 1, n + 1) \in Fracs
  BY <1>1, FracIs
<1>3. Mul(Frac(2, n + 1), x) \in Fracs /\ Mul(Frac(n - 1, n + 1), value) \in Fracs
  BY <1>2, MulIs
<1>4. QED
  BY <1>3, AddIs DEF EmaStep

LEMMA RmaStepIs ==
  ASSUME NEW n \in Nat \ {0}, NEW value \in Fracs, NEW x \in Fracs
  PROVE  RmaStep(n, value, x) \in Fracs
<1>1. n - 1 \in Int /\ n \in Int
  OBVIOUS
<1>2. Whole(n - 1) \in Fracs /\ Whole(n) \in Fracs /\ Whole(n)[1] # 0
  BY <1>1, WholeIs
<1>3. Mul(Whole(n - 1), value) \in Fracs
  BY <1>2, MulIs
<1>4. Add(Mul(Whole(n - 1), value), x) \in Fracs
  BY <1>3, AddIs
<1>5. QED
  BY <1>2, <1>4, DivIs DEF RmaStep

LEMMA EarlyIs ==
  ASSUME NEW T, NEW f \in Seq(T), NEW n \in Nat
  PROVE  /\ Early(f, n) \in Seq(T)
         /\ Len(f) >= n => Early(f, n) = SubSeq(f, 1, n) /\ Len(Early(f, n)) = n
         /\ Len(f) <= n => Early(f, n) = f
<1>1. CASE Len(f) <= n
  <2>1. Len(f) = n => SubSeq(f, 1, n) = f
    OBVIOUS
  <2>2. QED
    BY <1>1, <2>1 DEF Early
<1>2. CASE Len(f) > n
  BY <1>2 DEF Early
<1>3. QED
  BY <1>1, <1>2

LEMMA EarlyExt ==
  ASSUME NEW T, NEW f \in Seq(T), NEW v \in T, NEW n \in Nat
  PROVE  /\ Len(f) < n => Early(Ext(f, v), n) = Ext(f, v)
         /\ Len(f) >= n => Early(Ext(f, v), n) = Early(f, n)
         /\ Len(f) >= n => SubSeq(Ext(f, v), 1, n) = SubSeq(f, 1, n)
<1>1. CASE Len(f) < n
  BY <1>1 DEF Early, Ext
<1>2. CASE Len(f) >= n
  <2>1. SubSeq(Ext(f, v), 1, n) = SubSeq(f, 1, n)
    BY <1>2 DEF Ext
  <2>2. Early(Ext(f, v), n) = SubSeq(Ext(f, v), 1, n)
    BY <1>2 DEF Early, Ext
  <2>3. Early(f, n) = SubSeq(f, 1, n)
    BY <1>2, EarlyIs
  <2>4. QED
    BY <1>2, <2>1, <2>2, <2>3
<1>3. QED
  BY <1>1, <1>2

LEMMA LaterExt ==
  ASSUME NEW T, NEW f \in Seq(T), NEW v \in T, NEW n \in Nat, n <= Len(f)
  PROVE  /\ SubSeq(Ext(f, v), n + 1, Len(Ext(f, v))) = Ext(SubSeq(f, n + 1, Len(f)), v)
         /\ SubSeq(f, n + 1, Len(f)) \in Seq(T)
<1> DEFINE p == SubSeq(f, n + 1, Len(f))
           r == Ext(f, v)
           q == SubSeq(r, n + 1, Len(r))
           m == Len(f) - n
<1>1. p \in Seq(T) /\ Len(p) = m /\ \A i \in 1..m : p[i] = f[n + i]
  OBVIOUS
<1>2. r \in Seq(T) /\ Len(r) = Len(f) + 1 /\ r[Len(f) + 1] = v /\ \A i \in 1..Len(f) : r[i] = f[i]
  BY DEF Ext
<1> HIDE DEF r
<1>3. q \in Seq(T) /\ Len(q) = m + 1 /\ \A i \in 1..(m + 1) : q[i] = r[n + i]
  BY <1>2
<1> HIDE DEF p, q
<1>4. /\ Ext(p, v) \in Seq(T) /\ Len(Ext(p, v)) = m + 1 /\ Ext(p, v)[m + 1] = v
      /\ \A i \in 1..m : Ext(p, v)[i] = p[i]
  BY <1>1 DEF Ext
<1>5. ASSUME NEW i \in 1..(m + 1) PROVE q[i] = Ext(p, v)[i]
  <2>1. CASE i = m + 1
    <3>1. n + i = Len(f) + 1
      BY <2>1
    <3>2. q[i] = v
      BY <1>2, <1>3, <3>1
    <3>3. QED
      BY <1>4, <2>1, <3>2
  <2>2. CASE i # m + 1
    <3>1. i \in 1..m /\ n + i \in 1..Len(f)
      BY <2>2
    <3>2. QED
      BY <1>1, <1>2, <1>3, <1>4, <3>1
  <2>3. QED
    BY <2>1, <2>2
<1>6. q = Ext(p, v)
  BY <1>3, <1>4, <1>5, SeqEqual
<1>7. QED
  BY <1>1, <1>6 DEF p, q, r

\* The average after s, begun at v.
EmaAfter(n, v, s) == FoldLeft(EmaNext, [len |-> n, value |-> v], s).value

EmaAll(b, s) == FoldLeft(EmaNext, b, s)

LEMMA EmaAllEmpty ==
  ASSUME NEW b
  PROVE  EmaAll(b, <<>>) = b
<1>1. FE!Fold(b, <<>>) = b
  BY FE!FoldEmpty
<1>2. FE!Fold(b, <<>>) = FoldLeft(EmaNext, b, <<>>)
  BY DEF FE!Fold, FE!MapThenFoldSet, FoldLeft, MapThenFoldSet, FE!Max, Max
<1>3. QED
  BY <1>1, <1>2 DEF EmaAll

LEMMA EmaAllExt ==
  ASSUME NEW b, NEW T, NEW s \in Seq(T), NEW e \in T
  PROVE  EmaAll(b, Ext(s, e)) = EmaNext(EmaAll(b, s), e)
<1>1. FE!Fold(b, Append(s, e)) = EmaNext(FE!Fold(b, s), e)
  BY FE!FoldAppend
<1>2. /\ FE!Fold(b, s) = FoldLeft(EmaNext, b, s)
      /\ FE!Fold(b, Append(s, e)) = FoldLeft(EmaNext, b, Append(s, e))
  BY DEF FE!Fold, FE!MapThenFoldSet, FoldLeft, MapThenFoldSet, FE!Max, Max
<1>3. QED
  BY <1>1, <1>2 DEF EmaAll, Ext

LEMMA EmaAfterNone ==
  ASSUME NEW n, NEW v
  PROVE  EmaAfter(n, v, <<>>) = v
<1>1. EmaAll([len |-> n, value |-> v], <<>>) = [len |-> n, value |-> v]
  BY EmaAllEmpty
<1>2. EmaAfter(n, v, <<>>) = EmaAll([len |-> n, value |-> v], <<>>).value
  BY DEF EmaAfter, EmaAll
<1>3. QED
  BY <1>1, <1>2

LEMMA EmaAfterIs ==
  ASSUME NEW n \in Nat \ {0}, NEW v \in Fracs, NEW s \in Seq(Fracs)
  PROVE  /\ EmaAfter(n, v, s) \in Fracs
         /\ EmaAll([len |-> n, value |-> v], s) = [len |-> n, value |-> EmaAfter(n, v, s)]
<1> DEFINE G(r) == EmaAll([len |-> n, value |-> v], r)
           S == {r \in Seq(Fracs) : G(r).value \in Fracs /\ G(r) = [len |-> n, value |-> G(r).value]}
<1>1. <<>> \in S
  <2>1. G(<<>>) = [len |-> n, value |-> v]
    BY EmaAllEmpty
  <2>2. QED
    BY <2>1
<1>2. ASSUME NEW r \in Seq(Fracs), NEW e \in Fracs, r \in S PROVE Ext(r, e) \in S
  <2>1. Ext(r, e) \in Seq(Fracs)
    BY DEF Ext
  <2>2. G(Ext(r, e)) = EmaNext(G(r), e)
    BY EmaAllExt
  <2>3. PICK a \in Fracs : G(r) = [len |-> n, value |-> a]
    BY <1>2
  <2>4. EmaNext([len |-> n, value |-> a], e) = [len |-> n, value |-> EmaStep(n, a, e)]
    BY DEF EmaNext
  <2>5. EmaStep(n, a, e) \in Fracs
    BY EmaStepIs
  <2>6. QED
    BY <2>1, <2>2, <2>3, <2>4, <2>5
<1>3. Seq(Fracs) \subseteq S
  <2> HIDE DEF S
  <2> QED
    BY <1>1, <1>2, SeqInduction
<1>4. EmaAfter(n, v, s) = G(s).value
  BY DEF EmaAfter, EmaAll
<1>5. QED
  BY <1>3, <1>4

LEMMA EmaAfterExt ==
  ASSUME NEW n \in Nat \ {0}, NEW v \in Fracs, NEW s \in Seq(Fracs), NEW e \in Fracs
  PROVE  EmaAfter(n, v, Ext(s, e)) = EmaStep(n, EmaAfter(n, v, s), e)
<1>1. PICK a : a = EmaAfter(n, v, s)
  OBVIOUS
<1>2. EmaAll([len |-> n, value |-> v], s) = [len |-> n, value |-> a]
  BY <1>1, EmaAfterIs
<1>3. EmaAll([len |-> n, value |-> v], Ext(s, e)) = EmaNext([len |-> n, value |-> a], e)
  BY <1>2, EmaAllExt
<1>4. EmaNext([len |-> n, value |-> a], e) = [len |-> n, value |-> EmaStep(n, a, e)]
  BY DEF EmaNext
<1>5. EmaAfter(n, v, Ext(s, e)) = EmaAll([len |-> n, value |-> v], Ext(s, e)).value
  BY DEF EmaAfter, EmaAll
<1>6. QED
  BY <1>1, <1>3, <1>4, <1>5

\* An average over all values so far, one value on.
LEMMA EmaExt ==
  ASSUME NEW f \in Seq(Fracs), NEW v \in Fracs, NEW L \in Nat \ {0}
  PROVE  /\ Len(f) < L => Ema(f, L) = NA
         /\ Len(f) >= L => Ema(f, L) \in Fracs
         /\ Len(f) + 1 < L => Ema(Ext(f, v), L) = NA
         /\ Len(f) + 1 = L => Ema(Ext(f, v), L) = Div(AddUp(Ext(f, v)), Whole(L))
         /\ Len(f) >= L => Ema(Ext(f, v), L) = EmaStep(L, Ema(f, L), v)
<1> DEFINE r == Ext(f, v)
<1>1. r \in Seq(Fracs) /\ Len(r) = Len(f) + 1
  BY DEF Ext
<1>2. \A s \in Seq(Fracs) : Len(s) >= L =>
        Ema(s, L) = EmaAfter(L, Seed(s, L), SubSeq(s, L + 1, Len(s)))
  BY DEF Ema, EmaAfter
<1>3. \A s \in Seq(Fracs) : Len(s) < L => Ema(s, L) = NA
  BY DEF Ema
<1>4. ASSUME Len(f) + 1 = L PROVE Ema(r, L) = Div(AddUp(r), Whole(L))
  <2>1. SubSeq(r, L + 1, Len(r)) = <<>> /\ SubSeq(r, 1, L) = r
    BY <1>1, <1>4
  <2>2. Seed(r, L) = Div(AddUp(r), Whole(L))
    BY <2>1 DEF Seed
  <2>3. Seed(r, L) \in Fracs
    BY <1>1, <2>2, SeedIs
  <2>4. EmaAfter(L, Seed(r, L), <<>>) = Seed(r, L)
    BY EmaAfterNone
  <2>5. Ema(r, L) = EmaAfter(L, Seed(r, L), SubSeq(r, L + 1, Len(r)))
    BY <1>1, <1>2, <1>4
  <2>6. QED
    BY <2>1, <2>2, <2>4, <2>5
<1>5. ASSUME Len(f) >= L PROVE Ema(f, L) \in Fracs /\ Ema(r, L) = EmaStep(L, Ema(f, L), v)
  <2>1. PICK a, p : a = Seed(f, L) /\ p = SubSeq(f, L + 1, Len(f))
    OBVIOUS
  <2>2. a \in Fracs
    <3>1. SubSeq(f, 1, L) \in Seq(Fracs)
      BY <1>5
    <3>2. QED
      BY <2>1, <3>1, SeedIs DEF Seed
  <2>3. SubSeq(r, L + 1, Len(r)) = Ext(p, v) /\ p \in Seq(Fracs)
    BY <1>5, <2>1, LaterExt
  <2>4. Seed(r, L) = a
    <3>1. SubSeq(r, 1, L) = SubSeq(f, 1, L)
      BY <1>5, EarlyExt
    <3>2. QED
      BY <2>1, <3>1 DEF Seed
  <2>5. Ema(f, L) = EmaAfter(L, a, p)
    BY <1>2, <1>5, <2>1
  <2>6. Ema(r, L) = EmaAfter(L, a, Ext(p, v))
    <3> HIDE DEF r
    <3>1. Len(r) >= L
      BY <1>1, <1>5
    <3>2. QED
      BY <1>1, <1>2, <2>3, <2>4, <3>1
  <2>7. EmaAfter(L, a, p) \in Fracs /\ EmaAfter(L, a, Ext(p, v)) = EmaStep(L, EmaAfter(L, a, p), v)
    BY <2>2, <2>3, EmaAfterIs, EmaAfterExt
  <2>8. QED
    BY <2>5, <2>6, <2>7
<1>6. QED
  BY <1>1, <1>3, <1>4, <1>5

\* The average after s, begun at v.
RmaAfter(n, v, s) == FoldLeft(RmaNext, [len |-> n, value |-> v], s).value

RmaAll(b, s) == FoldLeft(RmaNext, b, s)

LEMMA RmaAllEmpty ==
  ASSUME NEW b
  PROVE  RmaAll(b, <<>>) = b
<1>1. FR!Fold(b, <<>>) = b
  BY FR!FoldEmpty
<1>2. FR!Fold(b, <<>>) = FoldLeft(RmaNext, b, <<>>)
  BY DEF FR!Fold, FR!MapThenFoldSet, FoldLeft, MapThenFoldSet, FR!Max, Max
<1>3. QED
  BY <1>1, <1>2 DEF RmaAll

LEMMA RmaAllExt ==
  ASSUME NEW b, NEW T, NEW s \in Seq(T), NEW e \in T
  PROVE  RmaAll(b, Ext(s, e)) = RmaNext(RmaAll(b, s), e)
<1>1. FR!Fold(b, Append(s, e)) = RmaNext(FR!Fold(b, s), e)
  BY FR!FoldAppend
<1>2. /\ FR!Fold(b, s) = FoldLeft(RmaNext, b, s)
      /\ FR!Fold(b, Append(s, e)) = FoldLeft(RmaNext, b, Append(s, e))
  BY DEF FR!Fold, FR!MapThenFoldSet, FoldLeft, MapThenFoldSet, FR!Max, Max
<1>3. QED
  BY <1>1, <1>2 DEF RmaAll, Ext

LEMMA RmaAfterNone ==
  ASSUME NEW n, NEW v
  PROVE  RmaAfter(n, v, <<>>) = v
<1>1. RmaAll([len |-> n, value |-> v], <<>>) = [len |-> n, value |-> v]
  BY RmaAllEmpty
<1>2. RmaAfter(n, v, <<>>) = RmaAll([len |-> n, value |-> v], <<>>).value
  BY DEF RmaAfter, RmaAll
<1>3. QED
  BY <1>1, <1>2

LEMMA RmaAfterIs ==
  ASSUME NEW n \in Nat \ {0}, NEW v \in Fracs, NEW s \in Seq(Fracs)
  PROVE  /\ RmaAfter(n, v, s) \in Fracs
         /\ RmaAll([len |-> n, value |-> v], s) = [len |-> n, value |-> RmaAfter(n, v, s)]
<1> DEFINE G(r) == RmaAll([len |-> n, value |-> v], r)
           S == {r \in Seq(Fracs) : G(r).value \in Fracs /\ G(r) = [len |-> n, value |-> G(r).value]}
<1>1. <<>> \in S
  <2>1. G(<<>>) = [len |-> n, value |-> v]
    BY RmaAllEmpty
  <2>2. QED
    BY <2>1
<1>2. ASSUME NEW r \in Seq(Fracs), NEW e \in Fracs, r \in S PROVE Ext(r, e) \in S
  <2>1. Ext(r, e) \in Seq(Fracs)
    BY DEF Ext
  <2>2. G(Ext(r, e)) = RmaNext(G(r), e)
    BY RmaAllExt
  <2>3. PICK a \in Fracs : G(r) = [len |-> n, value |-> a]
    BY <1>2
  <2>4. RmaNext([len |-> n, value |-> a], e) = [len |-> n, value |-> RmaStep(n, a, e)]
    BY DEF RmaNext
  <2>5. RmaStep(n, a, e) \in Fracs
    BY RmaStepIs
  <2>6. QED
    BY <2>1, <2>2, <2>3, <2>4, <2>5
<1>3. Seq(Fracs) \subseteq S
  <2> HIDE DEF S
  <2> QED
    BY <1>1, <1>2, SeqInduction
<1>4. RmaAfter(n, v, s) = G(s).value
  BY DEF RmaAfter, RmaAll
<1>5. QED
  BY <1>3, <1>4

LEMMA RmaAfterExt ==
  ASSUME NEW n \in Nat \ {0}, NEW v \in Fracs, NEW s \in Seq(Fracs), NEW e \in Fracs
  PROVE  RmaAfter(n, v, Ext(s, e)) = RmaStep(n, RmaAfter(n, v, s), e)
<1>1. PICK a : a = RmaAfter(n, v, s)
  OBVIOUS
<1>2. RmaAll([len |-> n, value |-> v], s) = [len |-> n, value |-> a]
  BY <1>1, RmaAfterIs
<1>3. RmaAll([len |-> n, value |-> v], Ext(s, e)) = RmaNext([len |-> n, value |-> a], e)
  BY <1>2, RmaAllExt
<1>4. RmaNext([len |-> n, value |-> a], e) = [len |-> n, value |-> RmaStep(n, a, e)]
  BY DEF RmaNext
<1>5. RmaAfter(n, v, Ext(s, e)) = RmaAll([len |-> n, value |-> v], Ext(s, e)).value
  BY DEF RmaAfter, RmaAll
<1>6. QED
  BY <1>1, <1>3, <1>4, <1>5

\* An average over all values so far, one value on.
LEMMA RmaExt ==
  ASSUME NEW f \in Seq(Fracs), NEW v \in Fracs, NEW L \in Nat \ {0}
  PROVE  /\ Len(f) < L => Rma(f, L) = NA
         /\ Len(f) >= L => Rma(f, L) \in Fracs
         /\ Len(f) + 1 < L => Rma(Ext(f, v), L) = NA
         /\ Len(f) + 1 = L => Rma(Ext(f, v), L) = Div(AddUp(Ext(f, v)), Whole(L))
         /\ Len(f) >= L => Rma(Ext(f, v), L) = RmaStep(L, Rma(f, L), v)
<1> DEFINE r == Ext(f, v)
<1>1. r \in Seq(Fracs) /\ Len(r) = Len(f) + 1
  BY DEF Ext
<1>2. \A s \in Seq(Fracs) : Len(s) >= L =>
        Rma(s, L) = RmaAfter(L, Seed(s, L), SubSeq(s, L + 1, Len(s)))
  BY DEF Rma, RmaAfter
<1>3. \A s \in Seq(Fracs) : Len(s) < L => Rma(s, L) = NA
  BY DEF Rma
<1>4. ASSUME Len(f) + 1 = L PROVE Rma(r, L) = Div(AddUp(r), Whole(L))
  <2>1. SubSeq(r, L + 1, Len(r)) = <<>> /\ SubSeq(r, 1, L) = r
    BY <1>1, <1>4
  <2>2. Seed(r, L) = Div(AddUp(r), Whole(L))
    BY <2>1 DEF Seed
  <2>3. Seed(r, L) \in Fracs
    BY <1>1, <2>2, SeedIs
  <2>4. RmaAfter(L, Seed(r, L), <<>>) = Seed(r, L)
    BY RmaAfterNone
  <2>5. Rma(r, L) = RmaAfter(L, Seed(r, L), SubSeq(r, L + 1, Len(r)))
    BY <1>1, <1>2, <1>4
  <2>6. QED
    BY <2>1, <2>2, <2>4, <2>5
<1>5. ASSUME Len(f) >= L PROVE Rma(f, L) \in Fracs /\ Rma(r, L) = RmaStep(L, Rma(f, L), v)
  <2>1. PICK a, p : a = Seed(f, L) /\ p = SubSeq(f, L + 1, Len(f))
    OBVIOUS
  <2>2. a \in Fracs
    <3>1. SubSeq(f, 1, L) \in Seq(Fracs)
      BY <1>5
    <3>2. QED
      BY <2>1, <3>1, SeedIs DEF Seed
  <2>3. SubSeq(r, L + 1, Len(r)) = Ext(p, v) /\ p \in Seq(Fracs)
    BY <1>5, <2>1, LaterExt
  <2>4. Seed(r, L) = a
    <3>1. SubSeq(r, 1, L) = SubSeq(f, 1, L)
      BY <1>5, EarlyExt
    <3>2. QED
      BY <2>1, <3>1 DEF Seed
  <2>5. Rma(f, L) = RmaAfter(L, a, p)
    BY <1>2, <1>5, <2>1
  <2>6. Rma(r, L) = RmaAfter(L, a, Ext(p, v))
    <3> HIDE DEF r
    <3>1. Len(r) >= L
      BY <1>1, <1>5
    <3>2. QED
      BY <1>1, <1>2, <2>3, <2>4, <3>1
  <2>7. RmaAfter(L, a, p) \in Fracs /\ RmaAfter(L, a, Ext(p, v)) = RmaStep(L, RmaAfter(L, a, p), v)
    BY <2>2, <2>3, RmaAfterIs, RmaAfterExt
  <2>8. QED
    BY <2>5, <2>6, <2>7
<1>6. QED
  BY <1>1, <1>3, <1>4, <1>5

-----------------------------------------------------------------------------
(* The smoothing state *)

\* What a state tells when its average was a, will be b, and is next after a.
Advances(f, v, L, a, b, next) ==
  /\ Len(f) < L => a = NA
  /\ Len(f) >= L => a \in Fracs
  /\ Len(f) + 1 < L => b = NA
  /\ Len(f) + 1 = L => b = Div(AddUp(Ext(f, v)), Whole(L))
  /\ Len(f) >= L => b = next

LEMMA SmoothedIs ==
  ASSUME NA \notin Int \X Int,
         NEW f \in Seq(Fracs), NEW L \in Nat \ {0}, NEW v \in Fracs, NEW a, NEW b, NEW next,
         Advances(f, v, L, a, b, next)
  PROVE  \A o : Smoothed([value |-> a, warm |-> Early(f, L), out |-> o], v, L, next)
                  = [value |-> b, warm |-> Early(Ext(f, v), L), out |-> b]
<1> SUFFICES ASSUME NEW o
             PROVE  Smoothed([value |-> a, warm |-> Early(f, L), out |-> o], v, L, next)
                      = [value |-> b, warm |-> Early(Ext(f, v), L), out |-> b]
  OBVIOUS
<1> USE DEF Advances
<1>0. v # NA
  BY NotBlank
<1>1. CASE Len(f) >= L
  <2>1. a # NA
    BY <1>1, NotBlank
  <2>2. Early(Ext(f, v), L) = Early(f, L)
    BY <1>1, EarlyExt
  <2>3. QED
    BY <1>0, <1>1, <2>1, <2>2 DEF Smoothed
<1>2. CASE Len(f) < L
  <2>1. Early(f, L) = f /\ Early(Ext(f, v), L) = Ext(f, v)
    BY <1>2, EarlyExt DEF Early
  <2>2. Ext(f, v) = Append(f, v) /\ Len(Append(f, v)) = Len(f) + 1
    BY DEF Ext
  <2>3. CASE Len(f) + 1 < L
    <3>1. Smoothed([value |-> NA, warm |-> f, out |-> o], v, L, next)
            = [value |-> NA, warm |-> Append(f, v), out |-> NA]
      BY <1>0, <2>2, <2>3 DEF Smoothed
    <3>2. QED
      BY <1>2, <2>1, <2>2, <2>3, <3>1
  <2>4. CASE Len(f) + 1 = L
    <3>1. Smoothed([value |-> NA, warm |-> f, out |-> o], v, L, next)
            = [value |-> b, warm |-> Append(f, v), out |-> b]
      BY <1>0, <2>2, <2>4 DEF Smoothed
    <3>2. QED
      BY <1>2, <2>1, <2>2, <2>4, <3>1
  <2>5. QED
    BY <1>2, <2>3, <2>4
<1>3. QED
  BY <1>1, <1>2

\* A value fed to a kept average, and an na, which repeats what it told.
LEMMA EmaFed ==
  ASSUME NA \notin Int \X Int,
         NEW f \in Seq(Fracs), NEW L \in Nat \ {0}, NEW o, NEW v \in Fracs
  PROVE  EmaUpdate(EmaKept(f, L, o), v, L) = EmaTold(Ext(f, v), L)
<1>1. PICK a, b, next : a = Ema(f, L) /\ b = Ema(Ext(f, v), L) /\ next = EmaStep(L, a, v)
  OBVIOUS
<1>2. Advances(f, v, L, a, b, next)
  BY <1>1, EmaExt DEF Advances
<1>3. Smoothed([value |-> a, warm |-> Early(f, L), out |-> o], v, L, next)
        = [value |-> b, warm |-> Early(Ext(f, v), L), out |-> b]
  BY <1>2, SmoothedIs
<1>4. QED
  BY <1>1, <1>3 DEF EmaUpdate, EmaKept, EmaTold

LEMMA EmaBlank ==
  ASSUME NEW f, NEW L, NEW o
  PROVE  EmaUpdate(EmaKept(f, L, o), NA, L) = EmaTold(f, L)
BY DEF EmaUpdate, EmaKept, EmaTold, Smoothed

\* A value fed to a kept average, and an na, which repeats what it told.
LEMMA RmaFed ==
  ASSUME NA \notin Int \X Int,
         NEW f \in Seq(Fracs), NEW L \in Nat \ {0}, NEW o, NEW v \in Fracs
  PROVE  RmaUpdate(RmaKept(f, L, o), v, L) = RmaTold(Ext(f, v), L)
<1>1. PICK a, b, next : a = Rma(f, L) /\ b = Rma(Ext(f, v), L) /\ next = RmaStep(L, a, v)
  OBVIOUS
<1>2. Advances(f, v, L, a, b, next)
  BY <1>1, RmaExt DEF Advances
<1>3. Smoothed([value |-> a, warm |-> Early(f, L), out |-> o], v, L, next)
        = [value |-> b, warm |-> Early(Ext(f, v), L), out |-> b]
  BY <1>2, SmoothedIs
<1>4. QED
  BY <1>1, <1>3 DEF RmaUpdate, RmaKept, RmaTold

LEMMA RmaBlank ==
  ASSUME NEW f, NEW L, NEW o
  PROVE  RmaUpdate(RmaKept(f, L, o), NA, L) = RmaTold(f, L)
BY DEF RmaUpdate, RmaKept, RmaTold, Smoothed

-----------------------------------------------------------------------------
(* The series that are smoothed *)

LEMMA WholesExt ==
  ASSUME NEW s \in Seq(Int), NEW v \in Int
  PROVE  /\ Wholes(s) \in Seq(Fracs) /\ Len(Wholes(s)) = Len(s)
         /\ Wholes(Ext(s, v)) = Ext(Wholes(s), Whole(v)) /\ Whole(v) \in Fracs
<1> DEFINE f == [i \in Int |-> Whole(i)]
<1>1. f \in Maps(Int, Fracs)
  BY WholeIs DEF Maps
<1>2. Wholes(s) = Mapped(f, s)
  BY DEF Wholes, Mapped
<1>3. Wholes(Ext(s, v)) = Mapped(f, Ext(s, v))
  <2>1. PICK r \in Seq(Int) : r = Ext(s, v)
    BY ExtIs
  <2>2. Wholes(r) = Mapped(f, r)
    BY DEF Wholes, Mapped
  <2>3. QED
    BY <2>1, <2>2
<1>4. f[v] = Whole(v)
  OBVIOUS
<1> HIDE DEF f
<1>5. QED
  BY <1>1, <1>2, <1>3, <1>4, MappedIs, MappedExt, WholeIs

LEMMA DifferencesExt ==
  ASSUME NEW s \in Seq(Int), NEW v \in Int
  PROVE  /\ Differences(s) \in Seq(Int)
         /\ s = <<>> => Differences(s) = <<>> /\ Differences(Ext(s, v)) = <<>>
         /\ s # <<>> => /\ Len(Differences(s)) = Len(s) - 1
                        /\ s[Len(s)] \in Int
                        /\ Differences(Ext(s, v)) = Ext(Differences(s), v - s[Len(s)])
<1> DEFINE r == Ext(s, v)
           n == Len(s)
<1>1. r \in Seq(Int) /\ Len(r) = n + 1 /\ r[n + 1] = v /\ \A i \in 1..n : r[i] = s[i]
  BY DEF Ext
<1> HIDE DEF r
<1>2. Differences(s) \in Seq(Int)
  BY DEF Differences
<1>3. CASE s = <<>>
  <2>1. 1..(Len(s) - 1) = {} /\ 1..(Len(r) - 1) = {}
    BY <1>1, <1>3
  <2>2. Differences(s) = <<>> /\ Differences(r) = <<>>
    <3>1. \A p \in Seq(Int) : 1..(Len(p) - 1) = {} => Differences(p) = [i \in {} |-> 0]
      BY DEF Differences
    <3>2. [i \in {} |-> 0] = <<>>
      OBVIOUS
    <3>3. QED
      BY <1>1, <2>1, <3>1, <3>2
  <2>3. QED
    BY <1>2, <1>3, <2>2 DEF r
<1>4. CASE s # <<>>
  <2>1. n \in Nat \ {0} /\ s[n] \in Int
    BY <1>4
  <2>2. PICK m \in Nat : m = n - 1
    BY <2>1
  <2>3. PICK d, q : d = Differences(s) /\ q = Differences(r)
    OBVIOUS
  <2>4. d \in Seq(Int) /\ Len(d) = m /\ \A i \in 1..m : d[i] = s[i + 1] - s[i]
    BY <2>2, <2>3 DEF Differences
  <2>5. q \in Seq(Int) /\ Len(q) = m + 1 /\ \A i \in 1..(m + 1) : q[i] = r[i + 1] - r[i]
    <3>1. Len(r) - 1 = m + 1 /\ \A i \in 1..(m + 1) : r[i + 1] \in Int /\ r[i] \in Int
      BY <1>1, <2>2
    <3>2. q = [i \in 1..(m + 1) |-> r[i + 1] - r[i]]
      BY <2>3, <3>1 DEF Differences
    <3>3. \A i \in 1..(m + 1) : r[i + 1] - r[i] \in Int
      BY <3>1
    <3>4. QED
      BY <3>2, <3>3
  <2>6. PICK y \in Int : y = v - s[n]
    BY <2>1
  <2>7. /\ Ext(d, y) \in Seq(Int) /\ Len(Ext(d, y)) = m + 1 /\ Ext(d, y)[m + 1] = y
        /\ \A i \in 1..m : Ext(d, y)[i] = d[i]
    BY <2>4, <2>6 DEF Ext
  <2>8. ASSUME NEW i \in 1..(m + 1) PROVE q[i] = Ext(d, y)[i]
    <3>1. CASE i = m + 1
      <4>1. i = n /\ i + 1 = n + 1 /\ i \in 1..n
        BY <2>1, <2>2, <3>1
      <4>2. q[i] = r[n + 1] - r[n]
        BY <2>5, <4>1
      <4>3. QED
        BY <1>1, <2>6, <2>7, <3>1, <4>1, <4>2
    <3>2. CASE i # m + 1
      <4>1. i \in 1..m /\ i \in 1..n /\ i + 1 \in 1..n
        BY <2>2, <3>2
      <4>2. q[i] = s[i + 1] - s[i]
        BY <1>1, <2>5, <4>1
      <4>3. QED
        BY <2>4, <2>7, <4>1, <4>2
    <3>3. QED
      BY <3>1, <3>2
  <2>9. q = Ext(d, y)
    BY <2>5, <2>7, <2>8, SeqEqual
  <2>10. QED
    BY <1>2, <1>4, <2>1, <2>2, <2>3, <2>4, <2>6, <2>9 DEF r
<1>5. QED
  BY <1>3, <1>4

LEMMA LastOfExt ==
  ASSUME NEW T, NEW s \in Seq(T), NEW v \in T
  PROVE  /\ LastOf(Ext(s, v)) = v
         /\ s = <<>> => LastOf(s) = NA
         /\ s # <<>> => LastOf(s) = s[Len(s)] /\ s[Len(s)] \in T
<1>1. Ext(s, v) # <<>> /\ Len(Ext(s, v)) = Len(s) + 1 /\ Ext(s, v)[Len(s) + 1] = v
  BY DEF Ext
<1>2. s # <<>> => s[Len(s)] \in T
  OBVIOUS
<1>3. QED
  BY <1>1, <1>2 DEF LastOf

\* The exponential and the running average.
LEMMA EmaMeets ==
  ASSUME NA \notin Int, NA \notin Int \X Int,
         NEW q \in Seq(Int), NEW L \in Nat \ {0}, NEW x, NEW o
  PROVE  /\ x.c = NA => EmaUpdate(EmaKept(Wholes(q), L, o), Lift(x.c), L)
                          = EmaKept(Wholes(q), L, Ema(Wholes(q), L))
         /\ x.c \in Int => EmaUpdate(EmaKept(Wholes(q), L, o), Lift(x.c), L)
                             = EmaKept(Wholes(Ext(q, x.c)), L, Ema(Wholes(Ext(q, x.c)), L))
<1>1. ASSUME x.c = NA
      PROVE  EmaUpdate(EmaKept(Wholes(q), L, o), Lift(x.c), L)
               = EmaKept(Wholes(q), L, Ema(Wholes(q), L))
  BY <1>1, EmaBlank DEF EmaTold, Lift
<1>2. ASSUME x.c \in Int
      PROVE  EmaUpdate(EmaKept(Wholes(q), L, o), Lift(x.c), L)
               = EmaKept(Wholes(Ext(q, x.c)), L, Ema(Wholes(Ext(q, x.c)), L))
  <2>1. PICK v \in Int : v = x.c
    BY <1>2
  <2>2. Lift(v) = Whole(v)
    BY DEF Lift
  <2>3. Wholes(q) \in Seq(Fracs) /\ Wholes(Ext(q, v)) = Ext(Wholes(q), Whole(v)) /\ Whole(v) \in Fracs
    BY WholesExt
  <2>4. EmaUpdate(EmaKept(Wholes(q), L, o), Whole(v), L) = EmaTold(Ext(Wholes(q), Whole(v)), L)
    BY <2>3, EmaFed
  <2>5. QED
    BY <2>1, <2>2, <2>3, <2>4 DEF EmaTold
<1>3. QED
  BY <1>1, <1>2

LEMMA RmaMeets ==
  ASSUME NA \notin Int, NA \notin Int \X Int,
         NEW q \in Seq(Int), NEW L \in Nat \ {0}, NEW x, NEW o
  PROVE  /\ x.c = NA => RmaUpdate(RmaKept(Wholes(q), L, o), Lift(x.c), L)
                          = RmaKept(Wholes(q), L, Rma(Wholes(q), L))
         /\ x.c \in Int => RmaUpdate(RmaKept(Wholes(q), L, o), Lift(x.c), L)
                             = RmaKept(Wholes(Ext(q, x.c)), L, Rma(Wholes(Ext(q, x.c)), L))
<1>1. ASSUME x.c = NA
      PROVE  RmaUpdate(RmaKept(Wholes(q), L, o), Lift(x.c), L)
               = RmaKept(Wholes(q), L, Rma(Wholes(q), L))
  BY <1>1, RmaBlank DEF RmaTold, Lift
<1>2. ASSUME x.c \in Int
      PROVE  RmaUpdate(RmaKept(Wholes(q), L, o), Lift(x.c), L)
               = RmaKept(Wholes(Ext(q, x.c)), L, Rma(Wholes(Ext(q, x.c)), L))
  <2>1. PICK v \in Int : v = x.c
    BY <1>2
  <2>2. Lift(v) = Whole(v)
    BY DEF Lift
  <2>3. Wholes(q) \in Seq(Fracs) /\ Wholes(Ext(q, v)) = Ext(Wholes(q), Whole(v)) /\ Whole(v) \in Fracs
    BY WholesExt
  <2>4. RmaUpdate(RmaKept(Wholes(q), L, o), Whole(v), L) = RmaTold(Ext(Wholes(q), Whole(v)), L)
    BY <2>3, RmaFed
  <2>5. QED
    BY <2>1, <2>2, <2>3, <2>4 DEF RmaTold
<1>3. QED
  BY <1>1, <1>2

-----------------------------------------------------------------------------
(* Arithmetic on values of fractions *)

LEMMA CancelAny ==
  \A g, a, b \in Int : g # 0 /\ g * a = g * b => a = b
<1> SUFFICES ASSUME NEW g \in Int, NEW a \in Int, NEW b \in Int, g # 0, g * a = g * b
             PROVE  a = b
  OBVIOUS
<1>1. g * (a - b) = 0
  OBVIOUS
<1>2. QED
  BY <1>1

\* The fraction f has the value n / d.
Equals(f, n, d) == f \in Fracs /\ n \in Int /\ d \in Int /\ d # 0 /\ Ratio(f, n, d)

LEMMA EqualsHas ==
  ASSUME NEW f, NEW n, NEW d, Equals(f, n, d)
  PROVE  \E p \in Int, q \in Nat \ {0} : p = f[1] /\ q = f[2] /\ p * d = n * q
BY FracsAre DEF Equals, Ratio

LEMMA EqualsSelf ==
  ASSUME NEW f \in Fracs
  PROVE  Equals(f, f[1], f[2])
BY FracsAre DEF Equals, Ratio

LEMMA EqualsWhole ==
  ASSUME NEW n \in Int
  PROVE  Equals(Whole(n), n, 1)
BY WholeIs DEF Equals, Ratio

LEMMA EqualsSame ==
  ASSUME NEW f, NEW a, NEW b, Equals(f, a, b), NEW g, NEW c, NEW d, Equals(g, c, d), a * d = c * b
  PROVE  f = g
<1>1. a \in Int /\ b \in Int /\ b # 0 /\ c \in Int /\ d \in Int /\ d # 0 /\ f \in Fracs /\ g \in Fracs
  BY DEF Equals
<1>2. PICK p \in Int, q \in Int : p = f[1] /\ q = f[2] /\ p * b = a * q
  BY EqualsHas
<1>3. PICK r \in Int, s \in Int : r = g[1] /\ s = g[2] /\ r * d = c * s
  BY EqualsHas
<1>4. (b * d) * (p * s) = (b * d) * (r * q)
  <2>1. (b * d) * (p * s) = ((p * b) * s) * d /\ (b * d) * (r * q) = ((r * d) * q) * b
    BY <1>1
  <2>2. ((a * q) * s) * d = (a * d) * (q * s) /\ ((c * s) * q) * b = (c * b) * (q * s)
    BY <1>1
  <2>3. QED
    BY <1>2, <1>3, <2>1, <2>2
<1>5. PICK k \in Int, i \in Int, j \in Int : k = b * d /\ i = p * s /\ j = r * q
  BY <1>1
<1>6. k # 0
  BY <1>1, <1>5
<1>7. i = j
  <2>1. k * i = k * j
    BY <1>4, <1>5
  <2>2. QED
    BY <1>6, <2>1, CancelAny
<1>8. f[1] * g[2] = g[1] * f[2]
  BY <1>2, <1>3, <1>5, <1>7
<1>9. QED
  BY <1>1, <1>8, FracUnique

LEMMA EqualsAdd ==
  ASSUME NEW f, NEW a, NEW b, Equals(f, a, b), NEW g, NEW c, NEW d, Equals(g, c, d)
  PROVE  Equals(Add(f, g), a * d + c * b, b * d)
<1>1. a \in Int /\ b \in Int /\ b # 0 /\ c \in Int /\ d \in Int /\ d # 0 /\ f \in Fracs /\ g \in Fracs
  BY DEF Equals
<1>2. PICK p \in Int, q \in Nat \ {0} : p = f[1] /\ q = f[2] /\ p * b = a * q
  BY EqualsHas
<1>3. PICK r \in Int, s \in Nat \ {0} : r = g[1] /\ s = g[2] /\ r * d = c * s
  BY EqualsHas
<1>4. PICK h : h = Add(f, g)
  OBVIOUS
<1>5. h \in Fracs /\ h[1] * (q * s) = (p * s + r * q) * h[2]
  BY <1>1, <1>2, <1>3, <1>4, AddIs DEF Ratio
<1>6. PICK u \in Int, v \in Int : u = h[1] /\ v = h[2] /\ u * (q * s) = (p * s + r * q) * v
  BY <1>5, FracsAre
<1>7. (q * s) * (u * (b * d)) = (q * s) * ((a * d + c * b) * v)
  <2>1. (q * s) * (u * (b * d)) = (u * (q * s)) * (b * d)
    BY <1>1
  <2>2. ((p * s + r * q) * v) * (b * d) = (((p * b) * (s * d)) + ((r * d) * (q * b))) * v
    BY <1>1
  <2>3. (((a * q) * (s * d)) + ((c * s) * (q * b))) * v = (q * s) * ((a * d + c * b) * v)
    BY <1>1
  <2>4. QED
    BY <1>2, <1>3, <1>6, <2>1, <2>2, <2>3
<1>8. PICK k \in Int, i \in Int, j \in Int : k = q * s /\ i = u * (b * d) /\ j = (a * d + c * b) * v
  BY <1>1
<1>9. k # 0
  BY <1>2, <1>3, <1>8
<1>10. i = j
  <2>1. k * i = k * j
    BY <1>7, <1>8
  <2>2. QED
    BY <1>9, <2>1, CancelAny
<1>11. h[1] * (b * d) = (a * d + c * b) * h[2]
  BY <1>6, <1>8, <1>10
<1>12. a * d + c * b \in Int /\ b * d \in Int /\ b * d # 0
  BY <1>1
<1>13. QED
  BY <1>4, <1>5, <1>11, <1>12 DEF Equals, Ratio

LEMMA EqualsNegated ==
  ASSUME NEW f, NEW a, NEW b, Equals(f, a, b)
  PROVE  Equals(Negated(f), -a, b)
<1>1. a \in Int /\ b \in Int /\ b # 0 /\ f \in Fracs
  BY DEF Equals
<1>2. PICK p \in Int, q \in Nat \ {0} : p = f[1] /\ q = f[2] /\ p * b = a * q
  BY EqualsHas
<1>3. Negated(f) \in Fracs /\ Negated(f)[1] = -p /\ Negated(f)[2] = q
  BY <1>1, <1>2, NegatedIs
<1>4. (-p) * b = (-a) * q
  BY <1>1, <1>2
<1>5. QED
  BY <1>1, <1>3, <1>4 DEF Equals, Ratio

LEMMA EqualsMul ==
  ASSUME NEW f, NEW a, NEW b, Equals(f, a, b), NEW g, NEW c, NEW d, Equals(g, c, d)
  PROVE  Equals(Mul(f, g), a * c, b * d)
<1>1. a \in Int /\ b \in Int /\ b # 0 /\ c \in Int /\ d \in Int /\ d # 0 /\ f \in Fracs /\ g \in Fracs
  BY DEF Equals
<1>2. PICK p \in Int, q \in Nat \ {0} : p = f[1] /\ q = f[2] /\ p * b = a * q
  BY EqualsHas
<1>3. PICK r \in Int, s \in Nat \ {0} : r = g[1] /\ s = g[2] /\ r * d = c * s
  BY EqualsHas
<1>4. PICK h : h = Mul(f, g)
  OBVIOUS
<1>5. h \in Fracs /\ h[1] * (q * s) = (p * r) * h[2]
  BY <1>1, <1>2, <1>3, <1>4, MulIs DEF Ratio
<1>6. PICK u \in Int, v \in Int : u = h[1] /\ v = h[2] /\ u * (q * s) = (p * r) * v
  BY <1>5, FracsAre
<1>7. (q * s) * (u * (b * d)) = (q * s) * ((a * c) * v)
  <2>1. (q * s) * (u * (b * d)) = (u * (q * s)) * (b * d)
    BY <1>1
  <2>2. ((p * r) * v) * (b * d) = ((p * b) * (r * d)) * v
    BY <1>1
  <2>3. ((a * q) * (c * s)) * v = (q * s) * ((a * c) * v)
    BY <1>1
  <2>4. QED
    BY <1>2, <1>3, <1>6, <2>1, <2>2, <2>3
<1>8. PICK k \in Int, i \in Int, j \in Int : k = q * s /\ i = u * (b * d) /\ j = (a * c) * v
  BY <1>1
<1>9. k # 0
  BY <1>2, <1>3, <1>8
<1>10. i = j
  <2>1. k * i = k * j
    BY <1>7, <1>8
  <2>2. QED
    BY <1>9, <2>1, CancelAny
<1>11. h[1] * (b * d) = (a * c) * h[2]
  BY <1>6, <1>8, <1>10
<1>12. a * c \in Int /\ b * d \in Int /\ b * d # 0
  BY <1>1
<1>13. QED
  BY <1>4, <1>5, <1>11, <1>12 DEF Equals, Ratio

LEMMA EqualsDiv ==
  ASSUME NEW f, NEW a, NEW b, Equals(f, a, b), NEW g, NEW c, NEW d, Equals(g, c, d), c # 0
  PROVE  Equals(Div(f, g), a * d, b * c)
<1>1. a \in Int /\ b \in Int /\ b # 0 /\ c \in Int /\ d \in Int /\ d # 0 /\ f \in Fracs /\ g \in Fracs
  BY DEF Equals
<1>2. PICK p \in Int, q \in Nat \ {0} : p = f[1] /\ q = f[2] /\ p * b = a * q
  BY EqualsHas
<1>3. PICK r \in Int, s \in Nat \ {0} : r = g[1] /\ s = g[2] /\ r * d = c * s
  BY EqualsHas
<1>4. r # 0
  BY <1>1, <1>3
<1>5. PICK h : h = Div(f, g)
  OBVIOUS
<1>6. h \in Fracs /\ h[1] * (q * r) = (p * s) * h[2]
  BY <1>1, <1>2, <1>3, <1>4, <1>5, DivIs DEF Ratio
<1>7. PICK u \in Int, v \in Int : u = h[1] /\ v = h[2] /\ u * (q * r) = (p * s) * v
  BY <1>6, FracsAre
<1>8. (q * s) * (u * (b * c)) = (q * s) * ((a * d) * v)
  <2>1. (q * s) * (u * (b * c)) = ((u * q) * b) * (c * s)
    BY <1>1
  <2>2. ((u * q) * b) * (r * d) = ((u * (q * r)) * b) * d
    BY <1>1
  <2>3. (((p * s) * v) * b) * d = (((p * b) * s) * v) * d
    BY <1>1
  <2>4. (((a * q) * s) * v) * d = (q * s) * ((a * d) * v)
    BY <1>1
  <2>5. QED
    BY <1>2, <1>3, <1>7, <2>1, <2>2, <2>3, <2>4
<1>9. PICK k \in Int, i \in Int, j \in Int : k = q * s /\ i = u * (b * c) /\ j = (a * d) * v
  BY <1>1
<1>10. k # 0
  BY <1>2, <1>3, <1>9
<1>11. i = j
  <2>1. k * i = k * j
    BY <1>8, <1>9
  <2>2. QED
    BY <1>10, <2>1, CancelAny
<1>12. h[1] * (b * c) = (a * d) * h[2]
  BY <1>7, <1>9, <1>11
<1>13. a * d \in Int /\ b * c \in Int /\ b * c # 0
  BY <1>1
<1>14. QED
  BY <1>5, <1>6, <1>12, <1>13 DEF Equals, Ratio

-----------------------------------------------------------------------------
(* Averages of amounts are amounts *)

Parts == {f \in Fracs : f[1] >= 0}

LEMMA PartBy ==
  ASSUME NEW f, NEW n, NEW d, Equals(f, n, d), n >= 0, d > 0
  PROVE  f \in Parts
<1>1. PICK p \in Int, q \in Nat \ {0} : p = f[1] /\ p * d = n * q
  BY EqualsHas
<1>2. n \in Nat /\ d \in Nat \ {0} /\ f \in Fracs
  BY DEF Equals
<1>3. p >= 0
  <2>1. n * q >= 0
    BY <1>1, <1>2
  <2>2. ASSUME p <= -1 PROVE p * d <= -d
    BY <1>1, <1>2, <2>2
  <2>3. QED
    BY <1>1, <1>2, <2>1, <2>2
<1>4. QED
  BY <1>1, <1>2, <1>3 DEF Parts

LEMMA PartIs ==
  ASSUME NEW f \in Parts
  PROVE  f \in Fracs /\ f[1] \in Nat /\ f[2] \in Nat \ {0} /\ Equals(f, f[1], f[2])
BY FracsAre, EqualsSelf DEF Parts

LEMMA PartWhole ==
  ASSUME NEW n \in Nat
  PROVE  Whole(n) \in Parts
<1>1. Equals(Whole(n), n, 1) /\ n >= 0
  BY EqualsWhole
<1>2. QED
  BY <1>1, PartBy

LEMMA PartAdd ==
  ASSUME NEW f \in Parts, NEW g \in Parts
  PROVE  Add(f, g) \in Parts
<1>1. PICK a \in Nat, b \in Nat \ {0}, c \in Nat, d \in Nat \ {0} :
        a = f[1] /\ b = f[2] /\ c = g[1] /\ d = g[2]
  BY PartIs
<1>2. Equals(f, a, b) /\ Equals(g, c, d)
  BY <1>1, PartIs
<1>3. Equals(Add(f, g), a * d + c * b, b * d)
  BY <1>2, EqualsAdd
<1>4. a * d + c * b >= 0 /\ b * d > 0
  BY <1>1
<1>5. PICK n \in Int, m \in Int : n = a * d + c * b /\ m = b * d
  BY <1>1
<1>6. QED
  BY <1>3, <1>4, <1>5, PartBy

LEMMA PartMul ==
  ASSUME NEW f \in Parts, NEW g \in Parts
  PROVE  Mul(f, g) \in Parts
<1>1. PICK a \in Nat, b \in Nat \ {0}, c \in Nat, d \in Nat \ {0} :
        a = f[1] /\ b = f[2] /\ c = g[1] /\ d = g[2]
  BY PartIs
<1>2. Equals(f, a, b) /\ Equals(g, c, d)
  BY <1>1, PartIs
<1>3. Equals(Mul(f, g), a * c, b * d)
  BY <1>2, EqualsMul
<1>4. a * c >= 0 /\ b * d > 0
  BY <1>1
<1>5. PICK n \in Int, m \in Int : n = a * c /\ m = b * d
  BY <1>1
<1>6. QED
  BY <1>3, <1>4, <1>5, PartBy

LEMMA PartDiv ==
  ASSUME NEW f \in Parts, NEW g \in Parts, g[1] # 0
  PROVE  Div(f, g) \in Parts
<1>1. PICK a \in Nat, b \in Nat \ {0}, c \in Nat \ {0}, d \in Nat \ {0} :
        a = f[1] /\ b = f[2] /\ c = g[1] /\ d = g[2]
  BY PartIs
<1>2. Equals(f, a, b) /\ Equals(g, c, d) /\ c # 0
  BY <1>1, PartIs
<1>3. Equals(Div(f, g), a * d, b * c)
  BY <1>2, EqualsDiv
<1>4. a * d >= 0 /\ b * c > 0
  BY <1>1
<1>5. PICK n \in Int, m \in Int : n = a * d /\ m = b * c
  BY <1>1
<1>6. QED
  BY <1>3, <1>4, <1>5, PartBy

LEMMA PartRmaStep ==
  ASSUME NEW n \in Nat \ {0}, NEW value \in Parts, NEW x \in Parts
  PROVE  RmaStep(n, value, x) \in Parts
<1>1. n - 1 \in Nat
  OBVIOUS
<1>2. Whole(n - 1) \in Parts /\ Whole(n) \in Parts /\ Whole(n)[1] # 0
  BY <1>1, PartWhole, WholeIs
<1>3. Mul(Whole(n - 1), value) \in Parts
  BY <1>2, PartMul
<1>4. Add(Mul(Whole(n - 1), value), x) \in Parts
  BY <1>3, PartAdd
<1>5. QED
  BY <1>2, <1>4, PartDiv DEF RmaStep

LEMMA PartAddUp ==
  ASSUME NEW s \in Seq(Parts)
  PROVE  AddUp(s) \in Parts
<1> DEFINE S == {r \in Seq(Parts) : AddUp(r) \in Parts}
<1>1. <<>> \in S
  <2>1. Zero \in Parts
    BY PartWhole DEF Zero
  <2>2. QED
    BY <2>1, AddAllEmpty
<1>2. ASSUME NEW r \in Seq(Parts), NEW e \in Parts, r \in S PROVE Ext(r, e) \in S
  <2>1. Ext(r, e) \in Seq(Parts)
    BY DEF Ext
  <2>2. AddUp(Ext(r, e)) = Add(AddUp(r), e)
    BY AddAllExt
  <2>3. AddUp(r) \in Parts
    BY <1>2
  <2>4. Add(AddUp(r), e) \in Parts
    BY <2>3, PartAdd
  <2>5. QED
    BY <2>1, <2>2, <2>4
<1> HIDE DEF S
<1>3. Seq(Parts) \subseteq S
  BY <1>1, <1>2, SeqInduction
<1>4. QED
  BY <1>3 DEF S

LEMMA PartsAre ==
  ASSUME NEW f \in Seq(Parts)
  PROVE  f \in Seq(Fracs)
BY DEF Parts

\* A running average of amounts.
LEMMA PartRma ==
  ASSUME NEW f \in Seq(Parts), NEW L \in Nat \ {0}
  PROVE  Len(f) >= L => Rma(f, L) \in Parts
<1> DEFINE S == {r \in Seq(Parts) : Len(r) >= L => Rma(r, L) \in Parts}
<1>1. <<>> \in S
  OBVIOUS
<1>2. ASSUME NEW r \in Seq(Parts), NEW e \in Parts, r \in S PROVE Ext(r, e) \in S
  <2>1. Ext(r, e) \in Seq(Parts) /\ Len(Ext(r, e)) = Len(r) + 1
    BY DEF Ext
  <2>2. r \in Seq(Fracs) /\ e \in Fracs
    BY PartsAre, PartIs
  <2>3. /\ Len(r) + 1 = L => Rma(Ext(r, e), L) = Div(AddUp(Ext(r, e)), Whole(L))
        /\ Len(r) >= L => Rma(Ext(r, e), L) = RmaStep(L, Rma(r, L), e)
    BY <2>2, RmaExt
  <2>4. CASE Len(r) + 1 < L
    BY <2>1, <2>4
  <2>5. CASE Len(r) + 1 = L
    <3>1. AddUp(Ext(r, e)) \in Parts
      BY <2>1, PartAddUp
    <3>2. Whole(L) \in Parts /\ Whole(L)[1] # 0
      BY PartWhole, WholeIs
    <3>3. Div(AddUp(Ext(r, e)), Whole(L)) \in Parts
      BY <3>1, <3>2, PartDiv
    <3>4. QED
      BY <2>1, <2>3, <2>5, <3>3
  <2>6. CASE Len(r) >= L
    <3>1. Rma(r, L) \in Parts
      BY <1>2, <2>6
    <3>2. RmaStep(L, Rma(r, L), e) \in Parts
      BY <3>1, PartRmaStep
    <3>3. QED
      BY <2>1, <2>3, <2>6, <3>2
  <2>7. QED
    BY <2>4, <2>5, <2>6
<1>3. Seq(Parts) \subseteq S
  <2> HIDE DEF S
  <2> QED
    BY <1>1, <1>2, SeqInduction
<1>4. QED
  BY <1>3

-----------------------------------------------------------------------------
(* The relative strength *)

\* Gains over losses on the scale of 100 is gains over all.
LEMMA StrengthIs ==
  ASSUME NEW g \in Parts, NEW l \in Parts
  PROVE  /\ l = Zero /\ g = Zero => Add(g, l) = Zero
         /\ l = Zero /\ g # Zero => /\ Add(g, l) # Zero
                                    /\ Div(Mul(Whole(100), g), Add(g, l)) = Whole(100)
         /\ l # Zero => /\ Add(g, l) # Zero
                        /\ Div(Mul(Whole(100), g), Add(g, l))
                             = Sub(Whole(100), Div(Whole(100), Add(Whole(1), Div(g, l))))
<1>1. PICK a \in Nat, b \in Nat \ {0}, c \in Nat, d \in Nat \ {0} :
        a = g[1] /\ b = g[2] /\ c = l[1] /\ d = l[2]
  BY PartIs
<1>2. Equals(g, a, b) /\ Equals(l, c, d) /\ g \in Fracs /\ l \in Fracs
  BY <1>1, PartIs
<1>3. PICK n \in Nat, m \in Nat \ {0} : n = a * d + c * b /\ m = b * d
  <2>1. a * d + c * b \in Nat /\ b * d \in Nat \ {0}
    BY <1>1
  <2>2. QED
    BY <2>1
<1>4. Equals(Add(g, l), n, m) /\ Add(g, l) \in Fracs
  BY <1>2, <1>3, EqualsAdd DEF Equals
<1>5. (a = 0 <=> g = Zero) /\ (c = 0 <=> l = Zero)
  BY <1>1, <1>2, ZeroIs
<1>6. n = 0 <=> a = 0 /\ c = 0
  <2>1. a > 0 => a * d > 0
    BY <1>1
  <2>2. c > 0 => c * b > 0
    BY <1>1
  <2>3. a * d \in Nat /\ c * b \in Nat
    BY <1>1
  <2>4. a = 0 /\ c = 0 => n = 0
    BY <1>3
  <2>5. QED
    BY <1>1, <1>3, <2>1, <2>2, <2>3, <2>4
<1>7. n = 0 <=> Add(g, l) = Zero
  <2>1. PICK p \in Int, q \in Nat \ {0} : p = Add(g, l)[1] /\ p * m = n * q
    BY <1>4, EqualsHas
  <2>2. p = 0 <=> n = 0
    BY <1>3, <2>1
  <2>3. QED
    BY <1>4, <2>1, <2>2, ZeroIs
<1>8. ASSUME n # 0
      PROVE  Equals(Div(Mul(Whole(100), g), Add(g, l)), (100 * a) * m, b * n)
  <2>1. Equals(Mul(Whole(100), g), 100 * a, 1 * b)
    <3>1. PICK k \in Int, o \in Int : k = 100 /\ o = 1
      OBVIOUS
    <3>2. Equals(Whole(k), k, o)
      BY <3>1, EqualsWhole
    <3>3. Equals(Mul(Whole(k), g), k * a, o * b)
      BY <1>2, <3>2, EqualsMul
    <3>4. QED
      BY <3>1, <3>3
  <2>2. 1 * b = b
    BY <1>1
  <2>3. Equals(Mul(Whole(100), g), 100 * a, b)
    BY <2>1, <2>2
  <2>4. QED
    BY <1>4, <1>8, <2>3, EqualsDiv
<1>9. ASSUME l = Zero, g # Zero PROVE Div(Mul(Whole(100), g), Add(g, l)) = Whole(100)
  <2>1. n # 0 /\ c = 0
    BY <1>5, <1>6, <1>9
  <2>2. ((100 * a) * m) * 1 = 100 * (b * n)
    <3>1. n = a * d
      BY <1>3, <2>1
    <3>2. (100 * a) * (b * d) = 100 * (b * (a * d))
      BY <1>1
    <3>3. QED
      BY <1>1, <1>3, <3>1, <3>2
  <2>3. Equals(Div(Mul(Whole(100), g), Add(g, l)), (100 * a) * m, b * n)
    BY <1>8, <2>1
  <2>4. Equals(Whole(100), 100, 1)
    BY EqualsWhole
  <2>5. QED
    BY <2>2, <2>3, <2>4, EqualsSame
<1>10. ASSUME l # Zero
       PROVE  Div(Mul(Whole(100), g), Add(g, l))
                = Sub(Whole(100), Div(Whole(100), Add(Whole(1), Div(g, l))))
  <2>1. n # 0 /\ c # 0
    BY <1>5, <1>6, <1>10
  <2>2. PICK e \in Int, f \in Int : e = a * d /\ f = b * c
    BY <1>1
  <2>3. Equals(Div(g, l), e, f)
    BY <1>2, <2>1, <2>2, EqualsDiv
  <2>4. Equals(Whole(1), 1, 1) /\ Equals(Whole(100), 100, 1)
    BY EqualsWhole
  <2>5. Equals(Add(Whole(1), Div(g, l)), 1 * f + e * 1, 1 * f)
    BY <2>3, <2>4, EqualsAdd
  <2>6. 1 * f + e * 1 = n /\ 1 * f = f
    BY <1>3, <2>2
  <2>7. Equals(Add(Whole(1), Div(g, l)), n, f)
    BY <2>5, <2>6
  <2>8. Equals(Div(Whole(100), Add(Whole(1), Div(g, l))), 100 * f, 1 * n)
    BY <2>1, <2>4, <2>7, EqualsDiv
  <2>9. PICK i \in Int, j \in Int : i = 100 * f /\ j = n
    BY <1>3
  <2>10. PICK h : h = Div(Whole(100), Add(Whole(1), Div(g, l)))
    OBVIOUS
  <2>11. Equals(h, i, j)
    <3>1. 1 * n = n
      BY <1>3
    <3>2. QED
      BY <2>8, <2>9, <2>10, <3>1
  <2>12. Equals(Negated(h), -i, j)
    BY <2>11, EqualsNegated
  <2>13. Equals(Add(Whole(100), Negated(h)), 100 * j + (-i) * 1, 1 * j)
    BY <2>4, <2>12, EqualsAdd
  <2>14. Equals(Div(Mul(Whole(100), g), Add(g, l)), (100 * a) * m, b * n)
    BY <1>8, <2>1
  <2>15. ((100 * a) * m) * (1 * j) = (100 * j + (-i) * 1) * (b * n)
    <3>1. 100 * j + (-i) * 1 = 100 * e
      BY <1>3, <2>2, <2>9
    <3>2. (100 * e) * (b * n) = ((100 * a) * m) * n
      BY <1>1, <1>3, <2>2
    <3>3. QED
      BY <1>1, <1>3, <2>9, <3>1, <3>2
  <2>16. Div(Mul(Whole(100), g), Add(g, l)) = Add(Whole(100), Negated(h))
    BY <2>13, <2>14, <2>15, EqualsSame
  <2>17. QED
    BY <2>10, <2>16 DEF Sub
<1>11. QED
  BY <1>5, <1>6, <1>7, <1>9, <1>10

-----------------------------------------------------------------------------
(* Relative strength *)

LEMMA GainsExt ==
  ASSUME NEW s \in Seq(Int), NEW v \in Int
  PROVE  /\ Gains(s) \in Seq(Parts) /\ Len(Gains(s)) = Len(s)
         /\ Gains(Ext(s, v)) = Ext(Gains(s), Whole(IF v > 0 THEN v ELSE 0))
         /\ Whole(IF v > 0 THEN v ELSE 0) \in Parts
<1> DEFINE f == [i \in Int |-> Whole(IF i > 0 THEN i ELSE 0)]
<1>1. f \in Maps(Int, Parts)
  <2>1. \A i \in Int : Whole(IF i > 0 THEN i ELSE 0) \in Parts
    <3> TAKE i \in Int
    <3>1. PICK n \in Nat : n = IF i > 0 THEN i ELSE 0
      OBVIOUS
    <3>2. QED
      BY <3>1, PartWhole
  <2>2. QED
    BY <2>1 DEF Maps
<1>2. Gains(s) = Mapped(f, s)
  BY DEF Gains, Mapped
<1>3. Gains(Ext(s, v)) = Mapped(f, Ext(s, v))
  <2>1. PICK r \in Seq(Int) : r = Ext(s, v)
    BY ExtIs
  <2>2. Gains(r) = Mapped(f, r)
    BY DEF Gains, Mapped
  <2>3. QED
    BY <2>1, <2>2
<1>4. f[v] = Whole(IF v > 0 THEN v ELSE 0)
  OBVIOUS
<1> HIDE DEF f
<1>5. QED
  BY <1>1, <1>2, <1>3, <1>4, MappedIs, MappedExt

LEMMA LossesExt ==
  ASSUME NEW s \in Seq(Int), NEW v \in Int
  PROVE  /\ Losses(s) \in Seq(Parts) /\ Len(Losses(s)) = Len(s)
         /\ Losses(Ext(s, v)) = Ext(Losses(s), Whole(IF v < 0 THEN -v ELSE 0))
         /\ Whole(IF v < 0 THEN -v ELSE 0) \in Parts
<1> DEFINE f == [i \in Int |-> Whole(IF i < 0 THEN -i ELSE 0)]
<1>1. f \in Maps(Int, Parts)
  <2>1. \A i \in Int : Whole(IF i < 0 THEN -i ELSE 0) \in Parts
    <3> TAKE i \in Int
    <3>1. PICK n \in Nat : n = IF i < 0 THEN -i ELSE 0
      OBVIOUS
    <3>2. QED
      BY <3>1, PartWhole
  <2>2. QED
    BY <2>1 DEF Maps
<1>2. Losses(s) = Mapped(f, s)
  BY DEF Losses, Mapped
<1>3. Losses(Ext(s, v)) = Mapped(f, Ext(s, v))
  <2>1. PICK r \in Seq(Int) : r = Ext(s, v)
    BY ExtIs
  <2>2. Losses(r) = Mapped(f, r)
    BY DEF Losses, Mapped
  <2>3. QED
    BY <2>1, <2>2
<1>4. f[v] = Whole(IF v < 0 THEN -v ELSE 0)
  OBVIOUS
<1> HIDE DEF f
<1>5. QED
  BY <1>1, <1>2, <1>3, <1>4, MappedIs, MappedExt

\* What the two averages come to.
LEMMA RsiTold ==
  ASSUME NA \notin Int \X Int,
         NEW q \in Seq(Int), NEW L \in Nat \ {0}, NEW g, NEW l,
         g = Rma(Gains(Differences(q)), L), l = Rma(Losses(Differences(q)), L)
  PROVE  /\ q # <<>> => (g = NA <=> Len(q) <= L)
         /\ Len(q) <= L => Rsi(q, L) = NA
         /\ Len(q) > L => g \in Parts /\ l \in Parts
         /\ Len(q) > L /\ l = Zero => Rsi(q, L) = Whole(IF g = Zero THEN 50 ELSE 100)
         /\ Len(q) > L /\ l # Zero =>
              Rsi(q, L) = Sub(Whole(100), Div(Whole(100), Add(Whole(1), Div(g, l))))
<1>0. PICK d \in Seq(Int) : d = Differences(q) /\ (q # <<>> => Len(d) = Len(q) - 1)
  <2>1. 0 \in Int
    OBVIOUS
  <2>2. QED
    BY <2>1, DifferencesExt
<1>1. PICK gs \in Seq(Parts), ls \in Seq(Parts) :
        gs = Gains(d) /\ ls = Losses(d) /\ Len(gs) = Len(d) /\ Len(ls) = Len(d)
  <2>1. 0 \in Int
    OBVIOUS
  <2>2. QED
    BY <2>1, GainsExt, LossesExt
<1>2. g = Rma(gs, L) /\ l = Rma(ls, L)
  BY <1>0, <1>1
<1>3. Len(gs) < L => g = NA
  BY <1>2 DEF Rma
<1>4. Len(gs) >= L => g \in Parts /\ l \in Parts
  BY <1>1, <1>2, PartRma
<1>5. g \in Parts => g # NA
  BY NotBlank, PartIs
<1>6. Len(q) > L => q # <<>> /\ Len(gs) >= L
  BY <1>0, <1>1
<1>7. Len(q) <= L => Rsi(q, L) = NA
  <2> SUFFICES ASSUME Len(q) <= L PROVE Rsi(q, L) = NA
    OBVIOUS
  <2>1. ~(Len(q) > L)
    OBVIOUS
  <2>2. QED
    BY <2>1 DEF Rsi
<1>8. ASSUME Len(q) > L
      PROVE  /\ Add(g, l) = Zero => Rsi(q, L) = Whole(50)
             /\ Add(g, l) # Zero => Rsi(q, L) = Div(Mul(Whole(100), g), Add(g, l))
  <2>1. ~(Len(q) <= L)
    BY <1>8
  <2>2. QED
    BY <1>8, <2>1 DEF Rsi
<1>9. ASSUME Len(q) > L, l = Zero PROVE Rsi(q, L) = Whole(IF g = Zero THEN 50 ELSE 100)
  <2>1. g \in Parts /\ l \in Parts
    BY <1>4, <1>6, <1>9
  <2>2. CASE g = Zero
    <3>1. Add(g, l) = Zero
      BY <1>9, <2>1, <2>2, StrengthIs
    <3>2. QED
      BY <1>8, <1>9, <2>2, <3>1
  <2>3. CASE g # Zero
    <3>1. Add(g, l) # Zero /\ Div(Mul(Whole(100), g), Add(g, l)) = Whole(100)
      BY <1>9, <2>1, <2>3, StrengthIs
    <3>2. QED
      BY <1>8, <1>9, <2>3, <3>1
  <2>4. QED
    BY <2>2, <2>3
<1>10. ASSUME Len(q) > L, l # Zero
       PROVE  Rsi(q, L) = Sub(Whole(100), Div(Whole(100), Add(Whole(1), Div(g, l))))
  <2>1. g \in Parts /\ l \in Parts
    BY <1>4, <1>6, <1>10
  <2>2. /\ Add(g, l) # Zero
        /\ Div(Mul(Whole(100), g), Add(g, l))
             = Sub(Whole(100), Div(Whole(100), Add(Whole(1), Div(g, l))))
    BY <1>10, <2>1, StrengthIs
  <2>3. QED
    BY <1>8, <1>10, <2>2
<1>11. q # <<>> => (g = NA <=> Len(q) <= L)
  BY <1>0, <1>1, <1>3, <1>4, <1>5
<1>12. QED
  BY <1>4, <1>6, <1>7, <1>9, <1>10, <1>11

\* The relative strength of the gains and the losses.
LEMMA RsiStep ==
  ASSUME NA \notin Int, NA \notin Int \X Int,
         NEW q \in Seq(Int), NEW L \in Nat \ {0}, NEW x, NEW o
  PROVE  /\ x.c = NA => RsiUpdate(RsiKept(q, L, o), x, L) = RsiKept(q, L, NA)
         /\ x.c \in Int => RsiUpdate(RsiKept(q, L, o), x, L)
                             = RsiKept(Ext(q, x.c), L, Rsi(Ext(q, x.c), L))
<1>1. PICK p, g, l : /\ p = LastOf(q) /\ g = RmaTold(Gains(Differences(q)), L)
                     /\ l = RmaTold(Losses(Differences(q)), L)
  OBVIOUS
<1>2. RsiKept(q, L, o) = [prev |-> p, gain |-> g, loss |-> l, out |-> o]
  BY <1>1 DEF RsiKept
<1>3. ASSUME x.c = NA PROVE RsiUpdate(RsiKept(q, L, o), x, L) = RsiKept(q, L, NA)
  <2>1. RsiUpdate([prev |-> p, gain |-> g, loss |-> l, out |-> o], x, L)
          = [prev |-> p, gain |-> g, loss |-> l, out |-> NA]
    BY <1>3 DEF RsiUpdate
  <2>2. QED
    BY <1>1, <1>2, <2>1 DEF RsiKept
<1>4. ASSUME x.c \in Int
      PROVE  RsiUpdate(RsiKept(q, L, o), x, L) = RsiKept(Ext(q, x.c), L, Rsi(Ext(q, x.c), L))
  <2>1. PICK v, r : v \in Int /\ v = x.c /\ r = Ext(q, v)
    BY <1>4
  <2>2. r \in Seq(Int) /\ Len(r) = Len(q) + 1 /\ r # <<>>
    BY <2>1 DEF Ext
  <2>3. LastOf(r) = v /\ v # NA
    BY <2>1, LastOfExt
  <2>4. CASE q = <<>>
    <3>1. p = NA
      BY <1>1, <2>4 DEF LastOf
    <3>2. Differences(q) = <<>> /\ Differences(r) = <<>>
      BY <2>1, <2>4, DifferencesExt
    <3>3. Len(r) <= L
      BY <2>2, <2>4
    <3>4. Rsi(r, L) = NA
      BY <2>2, <3>3, RsiTold
    <3>5. RsiUpdate([prev |-> NA, gain |-> g, loss |-> l, out |-> o], x, L)
            = [prev |-> v, gain |-> g, loss |-> l, out |-> NA]
      BY <2>1, <2>3 DEF RsiUpdate
    <3>6. QED
      BY <1>1, <1>2, <2>1, <2>3, <3>1, <3>2, <3>4, <3>5 DEF RsiKept
  <2>5. CASE q # <<>>
    <3>1. p = q[Len(q)] /\ p \in Int /\ p # NA
      BY <1>1, <2>5, LastOfExt
    <3>2. PICK c \in Int : c = v - p
      BY <2>1, <3>1
    <3>3. Differences(q) \in Seq(Int) /\ Differences(r) = Ext(Differences(q), c)
      BY <2>1, <2>5, <3>1, <3>2, DifferencesExt
    <3>4. PICK d, e : d \in Seq(Int) /\ d = Differences(q) /\ e = Differences(r)
      BY <3>3
    <3>5. PICK up \in Parts, down \in Parts :
            /\ up = Whole(IF c > 0 THEN c ELSE 0) /\ down = Whole(IF c < 0 THEN -c ELSE 0)
            /\ Gains(e) = Ext(Gains(d), up) /\ Losses(e) = Ext(Losses(d), down)
      BY <3>3, <3>4, GainsExt, LossesExt
    <3>6. Gains(d) \in Seq(Fracs) /\ Losses(d) \in Seq(Fracs) /\ up \in Fracs /\ down \in Fracs
      BY <3>4, GainsExt, LossesExt, PartsAre, PartIs
    <3>7. PICK g2, l2 : g2 = RmaTold(Gains(e), L) /\ l2 = RmaTold(Losses(e), L)
      OBVIOUS
    <3>8. RmaUpdate(g, up, L) = g2 /\ RmaUpdate(l, down, L) = l2
      <4>1. g = RmaKept(Gains(d), L, Rma(Gains(d), L)) /\ l = RmaKept(Losses(d), L, Rma(Losses(d), L))
        BY <1>1, <3>4 DEF RmaTold
      <4>2. QED
        BY <3>5, <3>6, <3>7, <4>1, RmaFed
    <3>9. PICK a, b : a = Rma(Gains(e), L) /\ b = Rma(Losses(e), L)
      OBVIOUS
    <3>10. g2.out = a /\ l2.out = b
      BY <3>7, <3>9 DEF RmaTold, RmaKept
    <3>11. /\ a = NA => Rsi(r, L) = NA
           /\ a # NA /\ b = Zero => Rsi(r, L) = Whole(IF a = Zero THEN 50 ELSE 100)
           /\ a # NA /\ b # Zero =>
                Rsi(r, L) = Sub(Whole(100), Div(Whole(100), Add(Whole(1), Div(a, b))))
      <4>1. /\ a = NA <=> Len(r) <= L
            /\ Len(r) <= L => Rsi(r, L) = NA
            /\ Len(r) > L /\ b = Zero => Rsi(r, L) = Whole(IF a = Zero THEN 50 ELSE 100)
            /\ Len(r) > L /\ b # Zero =>
                 Rsi(r, L) = Sub(Whole(100), Div(Whole(100), Add(Whole(1), Div(a, b))))
        BY <2>2, <3>4, <3>9, RsiTold
      <4>2. Len(r) <= L \/ Len(r) > L
        BY <2>2
      <4>3. QED
        BY <4>1, <4>2
    <3>12. RsiUpdate([prev |-> p, gain |-> g, loss |-> l, out |-> o], x, L)
             = [prev |-> v, gain |-> g2, loss |-> l2, out |-> Rsi(r, L)]
      BY <2>1, <2>3, <3>1, <3>2, <3>5, <3>8, <3>10, <3>11 DEF RsiUpdate
    <3>13. QED
      BY <1>2, <2>1, <2>3, <3>4, <3>7, <3>12 DEF RsiKept
  <2>6. QED
    BY <2>4, <2>5
<1>5. QED
  BY <1>3, <1>4

-----------------------------------------------------------------------------
(* An average begun at the first value, and an average over such averages *)

LEMMA EmaFromExt ==
  ASSUME NEW s \in Seq(Fracs), NEW v \in Fracs, NEW n \in Nat \ {0}
  PROVE  /\ s = <<>> => EmaFrom(Ext(s, v), n) = v
         /\ s # <<>> => /\ EmaFrom(s, n) \in Fracs
                        /\ EmaFrom(Ext(s, v), n) = EmaStep(n, EmaFrom(s, n), v)
<1>1. \A r : EmaFrom(r, n) = EmaAfter(n, First(r), Rest(r))
  BY DEF EmaFrom, EmaAfter, First, Rest
<1>2. CASE s = <<>>
  <2>1. Rest(Ext(s, v)) = <<>> /\ First(Ext(s, v)) = v
    BY <1>2, RestAppend
  <2>2. EmaFrom(Ext(s, v), n) = EmaAfter(n, v, <<>>)
    BY <1>1, <2>1
  <2>3. QED
    BY <1>2, <2>2, EmaAfterNone
<1>3. CASE s # <<>>
  <2>1. Rest(Ext(s, v)) = Ext(Rest(s), v) /\ First(Ext(s, v)) = First(s)
    BY <1>3, RestAppend
  <2>2. PICK a \in Fracs, t \in Seq(Fracs) : a = First(s) /\ t = Rest(s)
    BY <1>3, RestIs
  <2>3. EmaFrom(s, n) = EmaAfter(n, a, t) /\ EmaFrom(Ext(s, v), n) = EmaAfter(n, a, Ext(t, v))
    BY <1>1, <2>1, <2>2
  <2>4. EmaAfter(n, a, t) \in Fracs /\ EmaAfter(n, a, Ext(t, v)) = EmaStep(n, EmaAfter(n, a, t), v)
    BY EmaAfterIs, EmaAfterExt
  <2>5. QED
    BY <1>3, <2>3, <2>4
<1>4. QED
  BY <1>2, <1>3

LEMMA EmaFromIs ==
  ASSUME NEW s \in Seq(Fracs), s # <<>>, NEW n \in Nat \ {0}
  PROVE  EmaFrom(s, n) \in Fracs
<1>1. Zero \in Fracs
  BY WholeIs DEF Zero
<1>2. QED
  BY <1>1, EmaFromExt

LEMMA EmasExt ==
  ASSUME NEW s \in Seq(Fracs), NEW v \in Fracs, NEW n \in Nat \ {0}
  PROVE  /\ EmasFrom(s, n) \in Seq(Fracs) /\ Len(EmasFrom(s, n)) = Len(s)
         /\ EmaFrom(Ext(s, v), n) \in Fracs
         /\ EmasFrom(Ext(s, v), n) = Ext(EmasFrom(s, n), EmaFrom(Ext(s, v), n))
<1> DEFINE r == Ext(s, v)
           k == Len(s)
<1>1. r \in Seq(Fracs) /\ Len(r) = k + 1 /\ r # <<>> /\ SubSeq(r, 1, k + 1) = r
  BY DEF Ext
<1>2. \A i \in 1..k : SubSeq(r, 1, i) = SubSeq(s, 1, i)
  BY DEF Ext
<1> HIDE DEF r
<1>3. \A p \in Seq(Fracs) : \A i \in 1..Len(p) : EmaFrom(SubSeq(p, 1, i), n) \in Fracs
  <2> SUFFICES ASSUME NEW p \in Seq(Fracs), NEW i \in 1..Len(p)
               PROVE  EmaFrom(SubSeq(p, 1, i), n) \in Fracs
    OBVIOUS
  <2>1. PICK t \in Seq(Fracs) : t = SubSeq(p, 1, i) /\ t # <<>>
    <3>1. SubSeq(p, 1, i) \in Seq(Fracs) /\ Len(SubSeq(p, 1, i)) = i /\ i > 0
      OBVIOUS
    <3>2. SubSeq(p, 1, i) # <<>>
      <4>1. Len(<<>>) = 0
        OBVIOUS
      <4>2. QED
        BY <3>1, <4>1
    <3>3. QED
      BY <3>1, <3>2
  <2>2. QED
    BY <2>1, EmaFromIs
<1>4. PICK a, b, y : a = EmasFrom(s, n) /\ b = EmasFrom(r, n) /\ y = EmaFrom(r, n)
  OBVIOUS
<1>5. a \in Seq(Fracs) /\ Len(a) = k /\ \A i \in 1..k : a[i] = EmaFrom(SubSeq(s, 1, i), n)
  BY <1>3, <1>4 DEF EmasFrom
<1>6. b \in Seq(Fracs) /\ Len(b) = k + 1 /\ \A i \in 1..(k + 1) : b[i] = EmaFrom(SubSeq(r, 1, i), n)
  BY <1>1, <1>3, <1>4 DEF EmasFrom
<1>7. y \in Fracs
  BY <1>1, <1>4, EmaFromIs
<1>8. /\ Ext(a, y) \in Seq(Fracs) /\ Len(Ext(a, y)) = k + 1 /\ Ext(a, y)[k + 1] = y
      /\ \A i \in 1..k : Ext(a, y)[i] = a[i]
  BY <1>5, <1>7 DEF Ext
<1>9. ASSUME NEW i \in 1..(k + 1) PROVE b[i] = Ext(a, y)[i]
  <2>1. CASE i = k + 1
    BY <1>1, <1>4, <1>6, <1>8, <2>1
  <2>2. CASE i # k + 1
    <3>1. i \in 1..k
      BY <2>2
    <3>2. QED
      BY <1>2, <1>5, <1>6, <1>8, <3>1
  <2>3. QED
    BY <2>1, <2>2
<1>10. b = Ext(a, y)
  BY <1>6, <1>8, <1>9, SeqEqual
<1>11. QED
  BY <1>4, <1>5, <1>7, <1>10 DEF r

LEMMA TwiceExt ==
  ASSUME NEW m \in Seq(Fracs), NEW v \in Fracs, NEW n \in Nat \ {0}, NEW one, NEW two,
         one = EmaFrom(Later(m, n), n), two = Twice(m, n)
  PROVE  /\ Len(m) = n => /\ EmaFrom(Later(Ext(m, v), n), n) = v
                          /\ Twice(Ext(m, v), n) = v
         /\ Len(m) > n => /\ one \in Fracs /\ two \in Fracs
                          /\ EmaFrom(Later(Ext(m, v), n), n) = EmaStep(n, one, v)
                          /\ Twice(Ext(m, v), n) = EmaStep(n + 1, two, EmaStep(n, one, v))
<1>1. \A r : Twice(r, n) = EmaFrom(EmasFrom(Later(r, n), n), n + 1)
  BY DEF Twice, Later
<1>2. ASSUME Len(m) >= n
      PROVE  Later(Ext(m, v), n) = Ext(Later(m, n), v) /\ Later(m, n) \in Seq(Fracs)
  BY <1>2, LaterExt DEF Later
<1>3. n + 1 \in Nat \ {0}
  OBVIOUS
<1>4. ASSUME Len(m) = n
      PROVE  EmaFrom(Later(Ext(m, v), n), n) = v /\ Twice(Ext(m, v), n) = v
  <2>1. Later(m, n) = <<>> /\ <<>> \in Seq(Fracs)
    BY <1>4 DEF Later
  <2>2. Later(Ext(m, v), n) = Ext(<<>>, v)
    BY <1>2, <1>4, <2>1
  <2>3. EmaFrom(Ext(<<>>, v), n) = v /\ EmaFrom(Ext(<<>>, v), n + 1) = v
    BY <1>3, <2>1, EmaFromExt
  <2>4. EmasFrom(<<>>, n) = <<>>
    <3>1. Len(EmasFrom(<<>>, n)) = 0 /\ EmasFrom(<<>>, n) \in Seq(Fracs)
      BY <2>1, EmasExt
    <3>2. QED
      BY <3>1
  <2>5. EmasFrom(Ext(<<>>, v), n) = Ext(<<>>, v)
    <3>1. EmasFrom(Ext(<<>>, v), n) = Ext(EmasFrom(<<>>, n), EmaFrom(Ext(<<>>, v), n))
      BY <2>1, EmasExt
    <3>2. QED
      BY <2>3, <2>4, <3>1
  <2>6. QED
    BY <1>1, <2>2, <2>3, <2>5
<1>5. ASSUME Len(m) > n
      PROVE  /\ one \in Fracs /\ two \in Fracs
             /\ EmaFrom(Later(Ext(m, v), n), n) = EmaStep(n, one, v)
             /\ Twice(Ext(m, v), n) = EmaStep(n + 1, two, EmaStep(n, one, v))
  <2>1. PICK k \in Seq(Fracs) : k = Later(m, n) /\ Later(Ext(m, v), n) = Ext(k, v)
    BY <1>2, <1>5
  <2>2. k # <<>>
    <3>1. Len(k) = Len(m) - n
      BY <1>5, <2>1 DEF Later
    <3>2. QED
      BY <1>5, <3>1
  <2>3. one \in Fracs /\ EmaFrom(Ext(k, v), n) = EmaStep(n, one, v)
    BY <2>1, <2>2, EmaFromExt
  <2>4. PICK e \in Seq(Fracs), y \in Fracs :
          e = EmasFrom(k, n) /\ Len(e) = Len(k) /\ y = EmaFrom(Ext(k, v), n)
          /\ EmasFrom(Ext(k, v), n) = Ext(e, y)
    BY EmasExt
  <2>5. e # <<>>
    BY <2>2, <2>4
  <2>6. EmaFrom(e, n + 1) \in Fracs /\ EmaFrom(Ext(e, y), n + 1) = EmaStep(n + 1, EmaFrom(e, n + 1), y)
    BY <1>3, <2>5, EmaFromExt
  <2>7. two = EmaFrom(e, n + 1) /\ Twice(Ext(m, v), n) = EmaFrom(Ext(e, y), n + 1)
    BY <1>1, <2>1, <2>4
  <2>8. QED
    BY <2>1, <2>3, <2>4, <2>6, <2>7
<1>6. QED
  BY <1>4, <1>5

LEMMA SizesExt ==
  ASSUME NEW s \in Seq(Fracs), NEW v \in Fracs
  PROVE  /\ Sizes(s) \in Seq(Fracs) /\ Len(Sizes(s)) = Len(s)
         /\ Sizes(Ext(s, v)) = Ext(Sizes(s), Abs(v)) /\ Abs(v) \in Fracs
<1> DEFINE f == [i \in Fracs |-> Abs(i)]
<1>1. f \in Maps(Fracs, Fracs)
  BY AbsIs DEF Maps
<1>2. Sizes(s) = Mapped(f, s)
  BY DEF Sizes, Mapped
<1>3. Sizes(Ext(s, v)) = Mapped(f, Ext(s, v))
  <2>1. PICK r \in Seq(Fracs) : r = Ext(s, v)
    BY ExtIs
  <2>2. Sizes(r) = Mapped(f, r)
    BY DEF Sizes, Mapped
  <2>3. QED
    BY <2>1, <2>2
<1>4. f[v] = Abs(v)
  OBVIOUS
<1> HIDE DEF f
<1>5. QED
  BY <1>1, <1>2, <1>3, <1>4, MappedIs, MappedExt, AbsIs

\* The true strength: averages of averages of the moves and of their sizes.
LEMMA TsiStep ==
  ASSUME NA \notin Int, NA \notin Int \X Int,
         NEW q \in Seq(Int), NEW L \in Nat \ {0}, NEW x, NEW o
  PROVE  /\ x.c = NA => TsiUpdate(TsiKept(q, L, o), x, L) = TsiKept(q, L, NA)
         /\ x.c \in Int => TsiUpdate(TsiKept(q, L, o), x, L)
                             = TsiKept(Ext(q, x.c), L, Tsi(Ext(q, x.c), L))
<1>1. PICK p, m, k : p = LastOf(q) /\ m = Wholes(Differences(q)) /\ k = Sizes(m)
  OBVIOUS
<1>2. PICK a1, a2, b1, b2 :
        /\ a1 = (IF Len(m) <= L THEN NA ELSE EmaFrom(Later(m, L), L))
        /\ a2 = (IF Len(m) <= L THEN NA ELSE EmaFrom(Later(k, L), L))
        /\ b1 = (IF Len(m) <= L THEN NA ELSE Twice(m, L))
        /\ b2 = (IF Len(m) <= L THEN NA ELSE Twice(k, L))
  OBVIOUS
<1>3. \A t : TsiKept(q, L, t) = [prev |-> p, count |-> Len(m), one |-> a1, oneAbs |-> a2,
                                two |-> b1, twoAbs |-> b2, out |-> t]
  BY <1>1, <1>2 DEF TsiKept
<1>4. ASSUME x.c = NA PROVE TsiUpdate(TsiKept(q, L, o), x, L) = TsiKept(q, L, NA)
  <2>1. PICK s : s = TsiKept(q, L, o)
    OBVIOUS
  <2>2. TsiUpdate(s, x, L) = [s EXCEPT !.out = NA]
    BY <1>4 DEF TsiUpdate
  <2>3. QED
    BY <1>3, <2>1, <2>2
<1>5. ASSUME x.c \in Int
      PROVE  TsiUpdate(TsiKept(q, L, o), x, L) = TsiKept(Ext(q, x.c), L, Tsi(Ext(q, x.c), L))
  <2>1. PICK v, r : v \in Int /\ v = x.c /\ r = Ext(q, v)
    BY <1>5
  <2>2. r \in Seq(Int) /\ LastOf(r) = v /\ v # NA
    BY <2>1, ExtIs, LastOfExt
  <2>3. PICK m2, k2 : m2 = Wholes(Differences(r)) /\ k2 = Sizes(m2)
    OBVIOUS
  <2>4. TsiKept(r, L, Tsi(r, L))
          = [prev |-> v, count |-> Len(m2),
             one |-> IF Len(m2) <= L THEN NA ELSE EmaFrom(Later(m2, L), L),
             oneAbs |-> IF Len(m2) <= L THEN NA ELSE EmaFrom(Later(k2, L), L),
             two |-> IF Len(m2) <= L THEN NA ELSE Twice(m2, L),
             twoAbs |-> IF Len(m2) <= L THEN NA ELSE Twice(k2, L),
             out |-> IF Len(m2) <= L \/ Twice(k2, L) = Zero THEN NA
                     ELSE Div(Twice(m2, L), Twice(k2, L))]
    BY <2>2, <2>3 DEF TsiKept, Tsi
  <2>5. PICK s : s = [prev |-> p, count |-> Len(m), one |-> a1, oneAbs |-> a2,
                      two |-> b1, twoAbs |-> b2, out |-> o]
    OBVIOUS
  <2>6. CASE q = <<>>
    <3>1. p = NA /\ Differences(q) = <<>> /\ Differences(r) = <<>>
      BY <1>1, <2>1, <2>6, DifferencesExt, LastOfExt
    <3>2. m2 = m /\ k2 = k
      BY <1>1, <2>3, <3>1
    <3>3. Len(m) = 0
      <4>1. <<>> \in Seq(Int)
        OBVIOUS
      <4>2. QED
        BY <1>1, <2>1, <3>1, <4>1, WholesExt
    <3>4. TsiUpdate(s, x, L) = [prev |-> v, count |-> 0, one |-> a1, oneAbs |-> a2,
                                two |-> b1, twoAbs |-> b2, out |-> NA]
      BY <2>1, <2>2, <2>5, <3>1 DEF TsiUpdate
    <3>5. QED
      BY <1>2, <1>3, <2>1, <2>4, <2>5, <3>2, <3>3, <3>4
  <2>7. CASE q # <<>>
    <3>1. p = q[Len(q)] /\ p \in Int /\ p # NA
      BY <1>1, <2>7, LastOfExt
    <3>2. PICK c \in Int : c = v - p
      BY <2>1, <3>1
    <3>3. PICK d \in Seq(Int) : d = Differences(q) /\ Differences(r) = Ext(d, c)
      BY <2>1, <2>7, <3>1, <3>2, DifferencesExt
    <3>4. PICK w \in Fracs, z \in Fracs : w = Whole(c) /\ z = Abs(w)
      BY WholeIs, AbsIs
    <3>5. /\ m \in Seq(Fracs) /\ k \in Seq(Fracs) /\ Len(k) = Len(m)
          /\ m2 = Ext(m, w) /\ k2 = Ext(k, z)
      BY <1>1, <2>3, <3>3, <3>4, WholesExt, SizesExt
    <3>6. Len(m2) = Len(m) + 1 /\ Len(m) \in Nat
      BY <3>5 DEF Ext
    <3>7. CASE Len(m) < L
      <4>1. TsiUpdate(s, x, L) = [prev |-> v, count |-> Len(m) + 1, one |-> a1, oneAbs |-> a2,
                                  two |-> b1, twoAbs |-> b2, out |-> NA]
        <5>1. ~(Len(m) >= L)
          BY <3>6, <3>7
        <5>2. s.count = Len(m) /\ s.prev = p
          BY <2>5
        <5>3. TsiUpdate(s, x, L) = [s EXCEPT !.prev = v, !.count = @ + 1, !.out = NA]
          BY <2>1, <2>2, <3>1, <3>7, <5>1, <5>2 DEF TsiUpdate
        <5>4. QED
          BY <2>5, <5>3
      <4>2. Len(m) <= L /\ Len(m2) <= L
        BY <3>6, <3>7
      <4>3. QED
        BY <1>2, <1>3, <2>1, <2>4, <2>5, <3>6, <4>1, <4>2
    <3>8. CASE Len(m) >= L
      <4>0. ~(Len(m) < L) /\ ~(Len(m2) <= L)
        BY <3>6, <3>8
      <4>1. PICK c1, c2, d1, d2 : /\ c1 = EmaFrom(Later(m2, L), L) /\ c2 = EmaFrom(Later(k2, L), L)
                                  /\ d1 = Twice(m2, L) /\ d2 = Twice(k2, L)
        OBVIOUS
      <4>2. /\ c1 = (IF a1 = NA THEN w ELSE EmaStep(L, a1, w))
            /\ c2 = (IF a2 = NA THEN z ELSE EmaStep(L, a2, z))
            /\ d1 = (IF b1 = NA THEN c1 ELSE EmaStep(L + 1, b1, c1))
            /\ d2 = (IF b2 = NA THEN c2 ELSE EmaStep(L + 1, b2, c2))
        <5>1. CASE Len(m) = L
          <6>1. c1 = w /\ d1 = w /\ c2 = z /\ d2 = z
            BY <3>5, <4>1, <5>1, TwiceExt
          <6>2. a1 = NA /\ a2 = NA /\ b1 = NA /\ b2 = NA
            BY <1>2, <5>1
          <6>3. QED
            BY <6>1, <6>2
        <5>2. CASE Len(m) > L
          <6>1. /\ a1 = EmaFrom(Later(m, L), L) /\ b1 = Twice(m, L)
                /\ a2 = EmaFrom(Later(k, L), L) /\ b2 = Twice(k, L)
            <7>1. ~(Len(m) <= L)
              BY <3>6, <5>2
            <7>2. QED
              BY <1>2, <7>1
          <6>2. a1 \in Fracs /\ b1 \in Fracs /\ c1 = EmaStep(L, a1, w)
                /\ d1 = EmaStep(L + 1, b1, EmaStep(L, a1, w))
            BY <3>5, <4>1, <5>2, <6>1, TwiceExt
          <6>3. a2 \in Fracs /\ b2 \in Fracs /\ c2 = EmaStep(L, a2, z)
                /\ d2 = EmaStep(L + 1, b2, EmaStep(L, a2, z))
            BY <3>5, <4>1, <5>2, <6>1, TwiceExt
          <6>4. a1 # NA /\ a2 # NA /\ b1 # NA /\ b2 # NA
            BY <6>2, <6>3, NotBlank
          <6>5. QED
            BY <6>2, <6>3, <6>4
        <5>3. QED
          BY <3>6, <3>8, <5>1, <5>2
      <4>3. TsiUpdate(s, x, L) = [prev |-> v, count |-> Len(m) + 1, one |-> c1, oneAbs |-> c2,
                                  two |-> d1, twoAbs |-> d2,
                                  out |-> IF d2 = Zero THEN NA ELSE Div(d1, d2)]
        <5>1. /\ s.count = Len(m) /\ s.prev = p /\ s.one = a1 /\ s.oneAbs = a2
              /\ s.two = b1 /\ s.twoAbs = b2
          BY <2>5
        <5>2. Whole(x.c - s.prev) = w
          BY <2>1, <3>2, <3>4, <5>1
        <5>3. QED
          BY <2>1, <2>2, <3>1, <3>4, <3>8, <4>0, <4>2, <5>1, <5>2 DEF TsiUpdate
      <4>4. QED
        BY <1>3, <2>1, <2>4, <2>5, <3>6, <4>0, <4>1, <4>3
    <3>9. QED
      BY <3>6, <3>7, <3>8
  <2>8. QED
    BY <2>6, <2>7
<1>6. QED
  BY <1>4, <1>5

-----------------------------------------------------------------------------
(* The line of two averages *)

LEMMA MacdLineIs ==
  ASSUME NEW s \in Seq(Fracs), NEW L \in Nat \ {0}
  PROVE  /\ Len(s) <= L => MacdLine(s, L, L + 1) = NA /\ Ema(s, L + 1) = NA
         /\ Len(s) > L => /\ MacdLine(s, L, L + 1) \in Fracs
                          /\ Ema(s, L) \in Fracs /\ Ema(s, L + 1) \in Fracs
                          /\ MacdLine(s, L, L + 1) = Sub(Ema(s, L), Ema(s, L + 1))
<1>1. L + 1 \in Nat \ {0} /\ Zero \in Fracs
  BY WholeIs DEF Zero
<1>2. /\ Len(s) >= L => Ema(s, L) \in Fracs
      /\ Len(s) < L + 1 => Ema(s, L + 1) = NA
      /\ Len(s) >= L + 1 => Ema(s, L + 1) \in Fracs
  BY <1>1, EmaExt
<1>3. CASE Len(s) <= L
  <2>1. Len(s) < L + 1
    BY <1>3
  <2>2. QED
    BY <1>2, <1>3, <2>1 DEF MacdLine
<1>4. CASE Len(s) > L
  <2>1. ~(Len(s) < L + 1) /\ ~(Len(s) < L) /\ Len(s) >= L /\ Len(s) >= L + 1
    BY <1>4
  <2>2. MacdLine(s, L, L + 1) = Sub(Ema(s, L), Ema(s, L + 1))
    BY <2>1 DEF MacdLine
  <2>3. Ema(s, L) \in Fracs /\ Ema(s, L + 1) \in Fracs
    BY <1>2, <2>1
  <2>4. Sub(Ema(s, L), Ema(s, L + 1)) \in Fracs
    BY <2>3, SubIs
  <2>5. QED
    BY <1>4, <2>2, <2>3, <2>4
<1>5. QED
  BY <1>3, <1>4

LinesGrow(c, v, L) ==
  /\ MacdLines(c, L, L + 1) \in Seq(Fracs \cup {NA})
  /\ MacdLine(Wholes(Clean(Ext(c, v))), L, L + 1) \in Fracs \cup {NA}
  /\ MacdLines(Ext(c, v), L, L + 1)
       = Ext(MacdLines(c, L, L + 1), MacdLine(Wholes(Clean(Ext(c, v))), L, L + 1))

LEMMA MacdLinesExt ==
  ASSUME NA \notin Int, NEW c \in Seq(Int \cup {NA}), NEW v \in Int \cup {NA}, NEW L \in Nat \ {0}
  PROVE  LinesGrow(c, v, L)
<1> DEFINE r == Ext(c, v)
           k == Len(c)
           V == Int \cup {NA}
           G(p) == MacdLine(Wholes(Clean(p)), L, L + 1)
<1>1. r \in Seq(V) /\ Len(r) = k + 1 /\ SubSeq(r, 1, k + 1) = r
  BY DEF Ext
<1>2. \A i \in 1..k : SubSeq(r, 1, i) = SubSeq(c, 1, i)
  BY DEF Ext
<1>3. ASSUME NEW p \in Seq(V) PROVE G(p) \in Fracs \cup {NA}
  <2>1. PICK s \in Seq(Fracs) : s = Wholes(Clean(p))
    <3>1. 0 \in Int /\ Clean(p) \in Seq(Int)
      BY CleanIs
    <3>2. QED
      BY <3>1, WholesExt
  <2>2. Len(s) <= L \/ Len(s) > L
    OBVIOUS
  <2>3. QED
    BY <2>1, <2>2, MacdLineIs
<1> HIDE DEF r
<1>4. PICK a, b, y : a = MacdLines(c, L, L + 1) /\ b = MacdLines(r, L, L + 1) /\ y = G(r)
  OBVIOUS
<1>5. /\ \A i \in 1..k : SubSeq(c, 1, i) \in Seq(V)
      /\ \A i \in 1..(k + 1) : SubSeq(r, 1, i) \in Seq(V)
  BY <1>1
<1>6. /\ \A i \in 1..k : G(SubSeq(c, 1, i)) \in Fracs \cup {NA}
      /\ \A i \in 1..(k + 1) : G(SubSeq(r, 1, i)) \in Fracs \cup {NA}
      /\ y \in Fracs \cup {NA}
  BY <1>1, <1>3, <1>4, <1>5
<1>7. a = [i \in 1..k |-> G(SubSeq(c, 1, i))] /\ b = [i \in 1..(k + 1) |-> G(SubSeq(r, 1, i))]
  BY <1>1, <1>4 DEF MacdLines
<1> HIDE DEF G
<1>8. a \in Seq(Fracs \cup {NA}) /\ Len(a) = k /\ \A i \in 1..k : a[i] = G(SubSeq(c, 1, i))
  BY <1>6, <1>7
<1>9. /\ b \in Seq(Fracs \cup {NA}) /\ Len(b) = k + 1
      /\ \A i \in 1..(k + 1) : b[i] = G(SubSeq(r, 1, i))
  BY <1>6, <1>7
<1>10. /\ Ext(a, y) \in Seq(Fracs \cup {NA}) /\ Len(Ext(a, y)) = k + 1 /\ Ext(a, y)[k + 1] = y
       /\ \A i \in 1..k : Ext(a, y)[i] = a[i]
  BY <1>6, <1>8 DEF Ext
<1>11. ASSUME NEW i \in 1..(k + 1) PROVE b[i] = Ext(a, y)[i]
  <2>1. CASE i = k + 1
    BY <1>1, <1>4, <1>9, <1>10, <2>1
  <2>2. CASE i # k + 1
    <3>1. i \in 1..k
      BY <2>2
    <3>2. QED
      BY <1>2, <1>8, <1>9, <1>10, <3>1
  <2>3. QED
    BY <2>1, <2>2
<1>12. b = Ext(a, y)
  BY <1>9, <1>10, <1>11, SeqEqual
<1>13. QED
  BY <1>4, <1>6, <1>8, <1>12 DEF r, G, LinesGrow

\* No line is told while the longer average has not enough values.
LEMMA MacdSilent ==
  ASSUME NA \notin Int, NEW c \in Seq(Int \cup {NA}), NEW L \in Nat \ {0}
  PROVE  /\ Clean(MacdLines(c, L, L + 1)) \in Seq(Fracs)
         /\ Len(Clean(c)) <= L => Clean(MacdLines(c, L, L + 1)) = <<>>
<1> DEFINE V == Int \cup {NA}
           U == Fracs \cup {NA}
           S == {p \in Seq(V) : Len(Clean(p)) <= L => Clean(MacdLines(p, L, L + 1)) = <<>>}
<1>1. <<>> \in S
  <2>1. MacdLines(<<>>, L, L + 1) = <<>>
    <3>1. NA \in V /\ <<>> \in Seq(V)
      OBVIOUS
    <3>2. DOMAIN MacdLines(<<>>, L, L + 1) = 1..0 /\ MacdLines(<<>>, L, L + 1) \in Seq(U)
      <4>1. MacdLines(<<>>, L, L + 1) \in Seq(U)
        BY <3>1, MacdLinesExt DEF LinesGrow
      <4>2. QED
        BY <4>1 DEF MacdLines
    <3>3. QED
      BY <3>2
  <2>2. QED
    BY <2>1, CleanEmpty
<1>2. ASSUME NEW p \in Seq(V), NEW e \in V, p \in S PROVE Ext(p, e) \in S
  <2>1. Ext(p, e) \in Seq(V)
    BY DEF Ext
  <2> SUFFICES ASSUME Len(Clean(Ext(p, e))) <= L
               PROVE  Clean(MacdLines(Ext(p, e), L, L + 1)) = <<>>
    BY <2>1
  <2>2. Clean(p) \in Seq(Int) /\ Clean(Ext(p, e)) \in Seq(Int)
    BY <2>1, CleanIs
  <2>3. Len(Clean(p)) <= L
    <3>1. e = NA => Clean(Ext(p, e)) = Clean(p)
      BY CleanAppend
    <3>2. e # NA => Clean(Ext(p, e)) = Ext(Clean(p), e)
      BY CleanAppend
    <3>3. e # NA => Len(Ext(Clean(p), e)) = Len(Clean(p)) + 1
      BY <2>2 DEF Ext
    <3>4. QED
      BY <2>2, <3>1, <3>2, <3>3
  <2>4. MacdLine(Wholes(Clean(Ext(p, e))), L, L + 1) = NA
    <3>1. 0 \in Int
      OBVIOUS
    <3>2. Wholes(Clean(Ext(p, e))) \in Seq(Fracs) /\ Len(Wholes(Clean(Ext(p, e)))) <= L
      BY <2>2, <3>1, WholesExt
    <3>3. QED
      BY <3>2, MacdLineIs
  <2>5. PICK a \in Seq(U) : /\ a = MacdLines(p, L, L + 1)
                            /\ MacdLines(Ext(p, e), L, L + 1) = Ext(a, NA)
    <3>1. /\ MacdLines(p, L, L + 1) \in Seq(U)
          /\ MacdLines(Ext(p, e), L, L + 1)
               = Ext(MacdLines(p, L, L + 1), MacdLine(Wholes(Clean(Ext(p, e))), L, L + 1))
      <4>1. LinesGrow(p, e, L)
        BY MacdLinesExt
      <4>2. QED
        BY <4>1 DEF LinesGrow
    <3>2. QED
      BY <2>4, <3>1
  <2>6. Clean(Ext(a, NA)) = Clean(a)
    <3>1. NA \in U
      OBVIOUS
    <3>2. QED
      BY <3>1, CleanAppend
  <2>7. QED
    BY <1>2, <2>3, <2>5, <2>6
<1>3. Seq(V) \subseteq S
  <2> HIDE DEF S, V
  <2> QED
    BY <1>1, <1>2, SeqInduction
<1>4. MacdLines(c, L, L + 1) \in Seq(U)
  <2>1. NA \in V
    OBVIOUS
  <2>2. QED
    BY <2>1, MacdLinesExt DEF LinesGrow
<1>5. Clean(MacdLines(c, L, L + 1)) \in Seq(Fracs)
  BY <1>4, CleanIs
<1>6. QED
  BY <1>3, <1>5

\* The line, its signal and the distance between them.
LEMMA MacdStep ==
  ASSUME NA \notin Int, NA \notin Int \X Int,
         NEW c \in Seq(Int \cup {NA}), NEW L \in Nat \ {0}, NEW x, x.c \in Int \cup {NA}, NEW o
  PROVE  MacdUpdate(MacdKept(c, L, o), x, L)
           = MacdKept(Ext(c, x.c), L, Macd(Ext(c, x.c), L, L + 1, L))
<1>1. PICK v, r : v \in Int \cup {NA} /\ v = x.c /\ r = Ext(c, v)
  OBVIOUS
<1>2. r \in Seq(Int \cup {NA})
  BY <1>1, ExtIs
<1>3. PICK q \in Seq(Int), p \in Seq(Int) : q = Clean(c) /\ p = Clean(r)
  BY <1>2, CleanIs
<1>4. /\ v = NA => p = q
      /\ v # NA => p = Ext(q, v) /\ v \in Int
  BY <1>1, <1>3, CleanAppend
<1>5. PICK s \in Seq(Fracs) : s = Wholes(p) /\ Len(s) = Len(p)
  <2>1. 0 \in Int
    OBVIOUS
  <2>2. QED
    BY <2>1, WholesExt
<1>6. ASSUME NEW M \in Nat \ {0}
      PROVE  EmaUpdate(EmaTold(Wholes(q), M), Lift(v), M) = EmaTold(s, M)
  <2>1. CASE v = NA
    BY <1>4, <1>5, <2>1, EmaBlank DEF EmaTold, Lift
  <2>2. CASE v # NA
    BY <1>1, <1>4, <1>5, <2>2, EmaMeets DEF EmaTold
  <2>3. QED
    BY <2>1, <2>2
<1>7. L + 1 \in Nat \ {0}
  OBVIOUS
<1>8. PICK told \in Seq(Fracs), told2 \in Seq(Fracs) :
        told = Clean(MacdLines(c, L, L + 1)) /\ told2 = Clean(MacdLines(r, L, L + 1))
  BY <1>2, MacdSilent
<1>9. PICK line \in Fracs \cup {NA}, a \in Seq(Fracs \cup {NA}) :
        /\ line = MacdLine(s, L, L + 1) /\ a = MacdLines(c, L, L + 1)
        /\ MacdLines(r, L, L + 1) = Ext(a, line)
  <2>1. /\ MacdLines(c, L, L + 1) \in Seq(Fracs \cup {NA})
        /\ MacdLine(Wholes(Clean(Ext(c, v))), L, L + 1) \in Fracs \cup {NA}
        /\ MacdLines(Ext(c, v), L, L + 1)
             = Ext(MacdLines(c, L, L + 1), MacdLine(Wholes(Clean(Ext(c, v))), L, L + 1))
    <3>1. LinesGrow(c, v, L)
      BY <1>1, MacdLinesExt
    <3>2. QED
      BY <3>1 DEF LinesGrow
  <2>2. MacdLine(Wholes(Clean(Ext(c, v))), L, L + 1) = MacdLine(s, L, L + 1)
    BY <1>1, <1>3, <1>5
  <2>3. QED
    BY <1>1, <2>1, <2>2
<1>10. /\ line = NA => told2 = told
       /\ line # NA => told2 = Ext(told, line) /\ line \in Fracs
  BY <1>8, <1>9, CleanAppend
<1>11. PICK f, w, g : f = EmaTold(s, L) /\ w = EmaTold(s, L + 1) /\ g = EmaTold(told, L)
  OBVIOUS
<1>12. f.out = Ema(s, L) /\ w.out = Ema(s, L + 1)
  BY <1>11 DEF EmaTold, EmaKept
<1>13. PICK f0, w0 : f0 = EmaTold(Wholes(q), L) /\ w0 = EmaTold(Wholes(q), L + 1)
  OBVIOUS
<1>14. EmaUpdate(f0, Lift(x.c), L) = f /\ EmaUpdate(w0, Lift(x.c), L + 1) = w
  BY <1>1, <1>6, <1>7, <1>11, <1>13
<1>15. MacdKept(c, L, o) = [fast |-> f0, slow |-> w0, signal |-> g, out |-> o]
  BY <1>3, <1>8, <1>11, <1>13 DEF MacdKept
<1>16. \A t : MacdKept(r, L, t) = [fast |-> f, slow |-> w, signal |-> EmaTold(told2, L), out |-> t]
  BY <1>3, <1>5, <1>8, <1>11 DEF MacdKept
<1>17. Macd(r, L, L + 1, L)
         = IF told2 = <<>> THEN <<NA, NA, NA>>
           ELSE <<told2[Len(told2)], Ema(told2, L),
                  IF Ema(told2, L) = NA THEN NA ELSE Sub(told2[Len(told2)], Ema(told2, L))>>
  BY <1>8 DEF Macd, Last
<1>18. CASE Len(s) <= L
  <2>1. Ema(s, L + 1) = NA /\ line = NA
    BY <1>9, <1>18, MacdLineIs
  <2>2. told2 = <<>> /\ told2 = told
    BY <1>2, <1>3, <1>5, <1>8, <1>10, <1>18, <2>1, MacdSilent
  <2>3. MacdUpdate([fast |-> f0, slow |-> w0, signal |-> g, out |-> o], x, L)
          = [fast |-> f, slow |-> w, signal |-> g, out |-> <<NA, NA, NA>>]
    BY <1>12, <1>14, <2>1 DEF MacdUpdate
  <2>4. QED
    BY <1>1, <1>11, <1>15, <1>16, <1>17, <2>2, <2>3
<1>19. CASE Len(s) > L
  <2>1. Ema(s, L) \in Fracs /\ Ema(s, L + 1) \in Fracs /\ line = Sub(Ema(s, L), Ema(s, L + 1))
        /\ line \in Fracs
    BY <1>9, <1>19, MacdLineIs
  <2>2. f.out # NA /\ w.out # NA /\ line # NA /\ line = Sub(f.out, w.out)
    BY <1>12, <2>1, NotBlank
  <2>3. told2 = Ext(told, line) /\ told2 # <<>> /\ told2[Len(told2)] = line
    <3>1. told2 = Ext(told, line)
      BY <1>10, <2>2
    <3>2. Len(told2) = Len(told) + 1 /\ told2[Len(told) + 1] = line /\ Len(told) \in Nat
      BY <1>8, <2>1, <3>1 DEF Ext
    <3>3. told2 # <<>>
      BY <1>8, <3>2
    <3>4. QED
      BY <3>1, <3>2, <3>3
  <2>4. PICK h : h = EmaTold(told2, L)
    OBVIOUS
  <2>5. EmaUpdate(g, line, L) = h
    BY <1>11, <2>1, <2>3, <2>4, EmaFed DEF EmaTold
  <2>6. h.out = Ema(told2, L)
    BY <2>4 DEF EmaTold, EmaKept
  <2>7. MacdUpdate([fast |-> f0, slow |-> w0, signal |-> g, out |-> o], x, L)
          = [fast |-> f, slow |-> w, signal |-> h,
             out |-> <<line, h.out, IF h.out = NA THEN NA ELSE Sub(line, h.out)>>]
    BY <1>14, <2>2, <2>5 DEF MacdUpdate
  <2>8. QED
    BY <1>1, <1>15, <1>16, <1>17, <2>3, <2>4, <2>6, <2>7
<1>20. QED
  BY <1>5, <1>18, <1>19

-----------------------------------------------------------------------------
(* Moves from bar to bar *)

\* Bars with whole prices.
Candles(B) == NA \notin B /\ \A b \in B : b.h \in Int /\ b.l \in Int /\ b.c \in Int

Steps(f, bars) == [i \in 1..(Len(bars) - 1) |-> Whole(f[<<bars[i + 1], bars[i]>>])]

LEMMA StepsExt ==
  ASSUME NEW B, NEW f \in Maps(B \X B, Int), NEW bars \in Seq(B), NEW x \in B
  PROVE  /\ Steps(f, bars) \in Seq(Fracs)
         /\ bars = <<>> => Steps(f, bars) = <<>> /\ Steps(f, Ext(bars, x)) = <<>>
         /\ bars # <<>> => /\ Len(Steps(f, bars)) = Len(bars) - 1
                           /\ bars[Len(bars)] \in B
                           /\ Whole(f[<<x, bars[Len(bars)]>>]) \in Fracs
                           /\ Steps(f, Ext(bars, x))
                                = Ext(Steps(f, bars), Whole(f[<<x, bars[Len(bars)]>>]))
<1>1. \A a, b \in B : Whole(f[<<a, b>>]) \in Fracs
  BY MapValue, WholeIs
<1>2. Len(bars) \in Nat /\ \A i \in 1..Len(bars) : bars[i] \in B
  OBVIOUS
<1> DEFINE G(a, b) == Whole(f[<<a, b>>])
<1>3. \A a, b \in B : G(a, b) \in Fracs
  BY <1>1
<1>4. Steps(f, bars) = [i \in 1..(Len(bars) - 1) |-> G(bars[i + 1], bars[i])]
  BY DEF Steps
<1>5. PICK r \in Seq(B) : r = Ext(bars, x) /\ Len(r) = Len(bars) + 1 /\ r[Len(bars) + 1] = x
                          /\ \A i \in 1..Len(bars) : r[i] = bars[i]
  BY ExtIs
<1>6. Steps(f, r) = [i \in 1..Len(bars) |-> G(r[i + 1], r[i])]
  BY <1>5 DEF Steps
<1>7. bars # <<>> => bars[Len(bars)] \in B /\ G(x, bars[Len(bars)]) \in Fracs
  BY <1>2, <1>3
<1> HIDE DEF G
<1>8. \A i \in 1..(Len(bars) - 1) : bars[i + 1] \in B /\ bars[i] \in B
  BY <1>2
<1>9. Steps(f, bars) \in Seq(Fracs) /\ (bars # <<>> => Len(Steps(f, bars)) = Len(bars) - 1)
  <2>1. \A i \in 1..(Len(bars) - 1) : G(bars[i + 1], bars[i]) \in Fracs
    BY <1>3, <1>8
  <2>2. CASE bars = <<>>
    BY <1>4, <2>2
  <2>3. CASE bars # <<>>
    <3>1. Len(bars) - 1 \in Nat
      BY <2>3
    <3>2. QED
      BY <1>4, <2>1, <3>1
  <2>4. QED
    BY <2>2, <2>3
<1>10. bars = <<>> => Steps(f, bars) = <<>> /\ Steps(f, r) = <<>>
  BY <1>4, <1>6
<1>11. bars # <<>> => Steps(f, r) = Ext(Steps(f, bars), G(x, bars[Len(bars)]))
  <2> SUFFICES ASSUME bars # <<>> PROVE Steps(f, r) = Ext(Steps(f, bars), G(x, bars[Len(bars)]))
    OBVIOUS
  <2>1. PICK a \in Seq(Fracs), y \in Fracs :
          a = Steps(f, bars) /\ Len(a) = Len(bars) - 1 /\ y = G(x, bars[Len(bars)])
    BY <1>7, <1>9
  <2>2. PICK k \in Nat : k = Len(bars) /\ k > 0
    BY <1>2
  <2>3. /\ Ext(a, y) \in Seq(Fracs) /\ Len(Ext(a, y)) = k /\ Ext(a, y)[k] = y
        /\ \A i \in 1..(k - 1) : Ext(a, y)[i] = a[i]
    BY <2>1, <2>2 DEF Ext
  <2>4. \A i \in 1..k : r[i] \in B /\ r[i + 1] \in B
    BY <1>5, <2>2
  <2>5. PICK b \in Seq(Fracs) : b = Steps(f, r) /\ Len(b) = k /\ \A i \in 1..k : b[i] = G(r[i + 1], r[i])
    <3>1. \A i \in 1..k : G(r[i + 1], r[i]) \in Fracs
      BY <1>3, <2>4
    <3>2. Steps(f, r) = [i \in 1..k |-> G(r[i + 1], r[i])]
      BY <1>6, <2>2
    <3> DEFINE h == [i \in 1..k |-> G(r[i + 1], r[i])]
    <3>3. h \in Seq(Fracs)
      BY <3>1, <2>2
    <3>4. Len(h) = k /\ \A i \in 1..k : h[i] = G(r[i + 1], r[i])
      BY <2>2
    <3>5. QED
      BY <3>2, <3>3, <3>4
  <2>6. ASSUME NEW i \in 1..k PROVE b[i] = Ext(a, y)[i]
    <3>1. CASE i = k
      <4>1. r[i + 1] = x /\ r[i] = bars[k]
        BY <1>5, <2>2, <3>1
      <4>2. QED
        BY <2>1, <2>2, <2>3, <2>5, <3>1, <4>1
    <3>2. CASE i # k
      <4>1. i \in 1..(k - 1) /\ i + 1 \in 1..k
        BY <2>2, <3>2
      <4>2. r[i + 1] = bars[i + 1] /\ r[i] = bars[i]
        BY <1>5, <2>2, <4>1
      <4>3. a[i] = G(bars[i + 1], bars[i])
        BY <1>4, <2>1, <2>2, <4>1
      <4>4. QED
        BY <2>3, <2>5, <4>1, <4>2, <4>3
    <3>3. QED
      BY <3>1, <3>2
  <2>7. b = Ext(a, y)
    BY <2>3, <2>5, <2>6, SeqEqual
  <2>8. QED
    BY <2>1, <2>5, <2>7
<1>12. QED
  BY <1>5, <1>7, <1>9, <1>10, <1>11 DEF G

LEMMA TrueRangeIs ==
  ASSUME NEW b, b.h \in Int, b.l \in Int, NEW p, p.c \in Int
  PROVE  TrueRange(b, p) \in Int
<1> DEFINE u == b.h - b.l
           v == Magnitude(b.h - p.c)
           w == Magnitude(b.l - p.c)
<1>1. u \in Int /\ v \in Int /\ w \in Int
  BY DEF Magnitude
<1> HIDE DEF u, v, w
<1>2. ToSet(<<u, v, w>>) = {u, v, w}
  <2>1. DOMAIN <<u, v, w>> = {1, 2, 3}
    OBVIOUS
  <2>2. QED
    BY <2>1 DEF ToSet
<1>3. \E m \in {u, v, w} : \A n \in {u, v, w} : n <= m
  BY <1>1
<1>4. Largest(<<u, v, w>>) \in {u, v, w}
  BY <1>2, <1>3 DEF Largest
<1>5. QED
  BY <1>1, <1>4 DEF u, v, w, TrueRange

\* The three moves, and what a bar adds to them.
MovesGrow(bars, x, ms, ms2, v) ==
  /\ ms \in Seq(Fracs)
  /\ bars = <<>> => ms = <<>> /\ ms2 = <<>>
  /\ bars # <<>> => v \in Fracs /\ ms2 = Ext(ms, v) /\ Len(ms) = Len(bars) - 1

LEMMA MovesExt ==
  ASSUME NEW B, Candles(B), NEW bars \in Seq(B), NEW x \in B
  PROVE  /\ MovesGrow(bars, x, Ranges(bars), Ranges(Ext(bars, x)), Whole(TrueRange(x, LastOf(bars))))
         /\ MovesGrow(bars, x, Climbs(bars), Climbs(Ext(bars, x)), Whole(PlusDm(x, LastOf(bars))))
         /\ MovesGrow(bars, x, Drops(bars), Drops(Ext(bars, x)), Whole(MinusDm(x, LastOf(bars))))
<1>1. PICK tr \in Maps(B \X B, Int) : \A a, b \in B : tr[<<a, b>>] = TrueRange(a, b)
  <2>1. [p \in B \X B |-> TrueRange(p[1], p[2])] \in [B \X B -> Int]
    BY TrueRangeIs DEF Candles
  <2>2. QED
    BY <2>1 DEF Maps
<1>2. PICK pl \in Maps(B \X B, Int) : \A a, b \in B : pl[<<a, b>>] = PlusDm(a, b)
  <2>1. [p \in B \X B |-> PlusDm(p[1], p[2])] \in [B \X B -> Int]
    BY DEF PlusDm, Candles
  <2>2. QED
    BY <2>1 DEF Maps
<1>3. PICK mi \in Maps(B \X B, Int) : \A a, b \in B : mi[<<a, b>>] = MinusDm(a, b)
  <2>1. [p \in B \X B |-> MinusDm(p[1], p[2])] \in [B \X B -> Int]
    BY DEF MinusDm, Candles
  <2>2. QED
    BY <2>1 DEF Maps
<1>4. ASSUME NEW s \in Seq(B)
      PROVE  Ranges(s) = Steps(tr, s) /\ Climbs(s) = Steps(pl, s) /\ Drops(s) = Steps(mi, s)
  <2>1. \A i \in 1..(Len(s) - 1) : s[i + 1] \in B /\ s[i] \in B
    OBVIOUS
  <2>2. /\ \A i \in 1..(Len(s) - 1) : tr[<<s[i + 1], s[i]>>] = TrueRange(s[i + 1], s[i])
        /\ \A i \in 1..(Len(s) - 1) : pl[<<s[i + 1], s[i]>>] = PlusDm(s[i + 1], s[i])
        /\ \A i \in 1..(Len(s) - 1) : mi[<<s[i + 1], s[i]>>] = MinusDm(s[i + 1], s[i])
    BY <1>1, <1>2, <1>3, <2>1
  <2>3. Ranges(s) = Steps(tr, s)
    BY <2>2 DEF Ranges, Moves, Steps
  <2>4. Climbs(s) = Steps(pl, s)
    BY <2>2 DEF Climbs, Moves, Steps
  <2>5. Drops(s) = Steps(mi, s)
    BY <2>2 DEF Drops, Moves, Steps
  <2>6. QED
    BY <2>3, <2>4, <2>5
<1>5. PICK r \in Seq(B) : r = Ext(bars, x)
  BY ExtIs
<1>6. bars # <<>> => LastOf(bars) = bars[Len(bars)] /\ bars[Len(bars)] \in B
  BY DEF LastOf
<1>7. ASSUME NEW f \in Maps(B \X B, Int)
      PROVE  MovesGrow(bars, x, Steps(f, bars), Steps(f, r), Whole(f[<<x, LastOf(bars)>>]))
  <2>1. /\ Steps(f, bars) \in Seq(Fracs)
        /\ bars = <<>> => Steps(f, bars) = <<>> /\ Steps(f, Ext(bars, x)) = <<>>
        /\ bars # <<>> => /\ Len(Steps(f, bars)) = Len(bars) - 1
                          /\ Whole(f[<<x, bars[Len(bars)]>>]) \in Fracs
                          /\ Steps(f, Ext(bars, x))
                               = Ext(Steps(f, bars), Whole(f[<<x, bars[Len(bars)]>>]))
    BY StepsExt
  <2>2. QED
    BY <1>5, <1>6, <2>1 DEF MovesGrow
<1>8. /\ bars # <<>> => tr[<<x, LastOf(bars)>>] = TrueRange(x, LastOf(bars))
      /\ bars # <<>> => pl[<<x, LastOf(bars)>>] = PlusDm(x, LastOf(bars))
      /\ bars # <<>> => mi[<<x, LastOf(bars)>>] = MinusDm(x, LastOf(bars))
  BY <1>1, <1>2, <1>3, <1>6
<1>9. MovesGrow(bars, x, Ranges(bars), Ranges(r), Whole(TrueRange(x, LastOf(bars))))
  BY <1>1, <1>4, <1>5, <1>7, <1>8 DEF MovesGrow
<1>10. MovesGrow(bars, x, Climbs(bars), Climbs(r), Whole(PlusDm(x, LastOf(bars))))
  BY <1>2, <1>4, <1>5, <1>7, <1>8 DEF MovesGrow
<1>11. MovesGrow(bars, x, Drops(bars), Drops(r), Whole(MinusDm(x, LastOf(bars))))
  BY <1>3, <1>4, <1>5, <1>7, <1>8 DEF MovesGrow
<1>12. QED
  BY <1>5, <1>9, <1>10, <1>11

-----------------------------------------------------------------------------
(* Directional movement *)

\* Averages of the moves: none yet, or all three.
Averaged(a) == a.tr = NA \/ (a.tr \in Fracs /\ a.plus \in Fracs /\ a.minus \in Fracs)

LEMMA DxIs ==
  ASSUME NA \notin Int \X Int, NEW a, Averaged(a)
  PROVE  /\ Dx(a) \in Fracs \cup {NA}
         /\ Silent(a) => Dx(a) = NA
         /\ ~Silent(a) => /\ Di(a, a.plus) \in Fracs /\ Di(a, a.minus) \in Fracs
                          /\ Add(Di(a, a.plus), Di(a, a.minus)) = Zero => Dx(a) = NA
                          /\ Add(Di(a, a.plus), Di(a, a.minus)) # Zero => Dx(a) \in Fracs
<1>1. CASE Silent(a)
  BY <1>1 DEF Dx
<1>2. CASE ~Silent(a)
  <2>1. PICK t \in Fracs, p \in Fracs, m \in Fracs : t = a.tr /\ p = a.plus /\ m = a.minus /\ t # Zero
    BY <1>2 DEF Silent, Averaged
  <2>2. PICK h \in Fracs : h = Whole(100)
    BY WholeIs
  <2>3. t[1] # 0
    BY <2>1, ZeroIs
  <2>4. ASSUME NEW s \in Fracs PROVE Di(a, s) \in Fracs
    <3>1. Mul(h, s) \in Fracs
      BY MulIs
    <3>2. Div(Mul(h, s), t) \in Fracs
      BY <2>3, <3>1, DivIs
    <3>3. QED
      BY <2>1, <2>2, <3>2 DEF Di
  <2>5. PICK d \in Fracs, e \in Fracs : d = Di(a, a.plus) /\ e = Di(a, a.minus)
    BY <2>1, <2>4
  <2>6. PICK both \in Fracs : both = Add(d, e)
    BY AddIs
  <2>7. CASE both = Zero
    BY <1>2, <2>5, <2>6, <2>7 DEF Dx
  <2>8. CASE both # Zero
    <3>1. both[1] # 0
      BY <2>8, ZeroIs
    <3>2. Abs(Sub(d, e)) \in Fracs
      BY SubIs, AbsIs
    <3>3. Mul(h, Abs(Sub(d, e))) \in Fracs
      BY <3>2, MulIs
    <3>4. Div(Mul(h, Abs(Sub(d, e))), both) \in Fracs
      BY <3>1, <3>3, DivIs
    <3>5. Dx(a) = Div(Mul(h, Abs(Sub(d, e))), both)
      BY <1>2, <2>2, <2>5, <2>6, <2>8 DEF Dx
    <3>6. QED
      BY <1>2, <2>5, <2>6, <2>8, <3>4, <3>5
  <2>9. QED
    BY <2>7, <2>8
<1>3. QED
  BY <1>1, <1>2

LEMMA MovedIs ==
  ASSUME NEW B, Candles(B), NEW bars \in Seq(B), NEW L \in Nat \ {0}
  PROVE  /\ Moved(bars, L) = [tr |-> Rma(Ranges(bars), L), plus |-> Rma(Climbs(bars), L),
                              minus |-> Rma(Drops(bars), L)]
         /\ Averaged(Moved(bars, L))
         /\ bars = <<>> => Silent(Moved(bars, L))
<1>1. PICK a : a = Moved(bars, L)
  OBVIOUS
<1>2. a = [tr |-> Rma(Ranges(bars), L), plus |-> Rma(Climbs(bars), L), minus |-> Rma(Drops(bars), L)]
  BY <1>1 DEF Moved, Ranges, Climbs, Drops
<1>3. CASE bars = <<>>
  <2>1. Ranges(bars) = <<>>
    BY <1>3 DEF Ranges, Moves
  <2>2. Len(<<>>) < L
    OBVIOUS
  <2>3. a.tr = NA
    BY <1>2, <2>1, <2>2 DEF Rma
  <2>4. QED
    BY <1>1, <1>2, <2>3 DEF Averaged, Silent
<1>4. CASE bars # <<>>
  <2>1. bars[Len(bars)] \in B
    BY <1>4
  <2>2. PICK x \in B : TRUE
    BY <2>1
  <2>3. PICK r \in Seq(Fracs), c \in Seq(Fracs), d \in Seq(Fracs) :
          /\ r = Ranges(bars) /\ c = Climbs(bars) /\ d = Drops(bars)
          /\ Len(r) = Len(c) /\ Len(r) = Len(d)
    BY <1>4, MovesExt DEF MovesGrow
  <2>4. PICK z \in Fracs : TRUE
    BY ZeroIs, WholeIs
  <2>5. ASSUME NEW s \in Seq(Fracs)
        PROVE  (Len(s) < L => Rma(s, L) = NA) /\ (Len(s) >= L => Rma(s, L) \in Fracs)
    BY RmaExt
  <2>6. CASE Len(r) < L
    BY <1>1, <1>2, <1>4, <2>3, <2>5, <2>6 DEF Averaged
  <2>7. CASE Len(r) >= L
    <3>1. Rma(r, L) \in Fracs /\ Rma(c, L) \in Fracs /\ Rma(d, L) \in Fracs
      BY <2>3, <2>5, <2>7
    <3>2. QED
      BY <1>1, <1>2, <1>4, <2>3, <3>1 DEF Averaged
  <2>8. QED
    BY <2>6, <2>7
<1>5. QED
  BY <1>3, <1>4

DxsGrow(bars, x, L) ==
  /\ Dxs(bars, L) \in Seq(Fracs \cup {NA})
  /\ Dx(Moved(Ext(bars, x), L)) \in Fracs \cup {NA}
  /\ Dxs(Ext(bars, x), L) = Ext(Dxs(bars, L), Dx(Moved(Ext(bars, x), L)))

LEMMA DxsExt ==
  ASSUME NA \notin Int \X Int,
         NEW B, Candles(B), NEW bars \in Seq(B), NEW x \in B, NEW L \in Nat \ {0}
  PROVE  DxsGrow(bars, x, L)
<1> DEFINE k == Len(bars)
           G(p) == Dx(Moved(p, L))
<1>1. PICK r \in Seq(B) : r = Ext(bars, x) /\ Len(r) = k + 1 /\ SubSeq(r, 1, k + 1) = r
                          /\ \A i \in 1..k : SubSeq(r, 1, i) = SubSeq(bars, 1, i)
  <2>1. Ext(bars, x) \in Seq(B) /\ Len(Ext(bars, x)) = k + 1
    BY DEF Ext
  <2>2. SubSeq(Ext(bars, x), 1, k + 1) = Ext(bars, x)
    BY <2>1
  <2>3. \A i \in 1..k : SubSeq(Ext(bars, x), 1, i) = SubSeq(bars, 1, i)
    BY DEF Ext
  <2>4. QED
    BY <2>1, <2>2, <2>3
<1>2. ASSUME NEW p \in Seq(B) PROVE G(p) \in Fracs \cup {NA}
  BY MovedIs, DxIs
<1>3. /\ \A i \in 1..k : SubSeq(bars, 1, i) \in Seq(B)
      /\ \A i \in 1..(k + 1) : SubSeq(r, 1, i) \in Seq(B)
  BY <1>1
<1>4. Dxs(bars, L) = [i \in 1..k |-> G(SubSeq(bars, 1, i))]
  BY DEF Dxs
<1>5. Dxs(r, L) = [i \in 1..(k + 1) |-> G(SubSeq(r, 1, i))]
  BY <1>1 DEF Dxs
<1>6. /\ \A i \in 1..k : G(SubSeq(bars, 1, i)) \in Fracs \cup {NA}
      /\ \A i \in 1..(k + 1) : G(SubSeq(r, 1, i)) \in Fracs \cup {NA}
      /\ G(r) \in Fracs \cup {NA}
  BY <1>2, <1>3
<1> HIDE DEF G
<1>7. PICK a, b, y : a = Dxs(bars, L) /\ b = Dxs(r, L) /\ y = G(r)
  OBVIOUS
<1>8. a \in Seq(Fracs \cup {NA}) /\ Len(a) = k /\ \A i \in 1..k : a[i] = G(SubSeq(bars, 1, i))
  BY <1>4, <1>6, <1>7
<1>9. /\ b \in Seq(Fracs \cup {NA}) /\ Len(b) = k + 1
      /\ \A i \in 1..(k + 1) : b[i] = G(SubSeq(r, 1, i))
  BY <1>5, <1>6, <1>7
<1>10. /\ Ext(a, y) \in Seq(Fracs \cup {NA}) /\ Len(Ext(a, y)) = k + 1 /\ Ext(a, y)[k + 1] = y
       /\ \A i \in 1..k : Ext(a, y)[i] = a[i]
  BY <1>6, <1>7, <1>8 DEF Ext
<1>11. ASSUME NEW i \in 1..(k + 1) PROVE b[i] = Ext(a, y)[i]
  <2>1. CASE i = k + 1
    BY <1>1, <1>7, <1>9, <1>10, <2>1
  <2>2. CASE i # k + 1
    <3>1. i \in 1..k
      BY <2>2
    <3>2. QED
      BY <1>1, <1>8, <1>9, <1>10, <3>1
  <2>3. QED
    BY <2>1, <2>2
<1>12. b = Ext(a, y)
  BY <1>9, <1>10, <1>11, SeqEqual
<1>13. QED
  BY <1>1, <1>6, <1>7, <1>8, <1>12 DEF G, DxsGrow

LEMMA MoveFed ==
  ASSUME NA \notin Int \X Int, NEW B, NEW bars \in Seq(B), NEW x, NEW ms, NEW ms2, NEW v,
         NA \notin B, MovesGrow(bars, x, ms, ms2, v), NEW L \in Nat \ {0}
  PROVE  /\ bars = <<>> => RmaUpdate(RmaTold(ms, L), NA, L) = RmaTold(ms2, L)
         /\ bars # <<>> => RmaUpdate(RmaTold(ms, L), v, L) = RmaTold(ms2, L)
<1>1. CASE bars = <<>>
  <2>1. ms = ms2
    BY <1>1 DEF MovesGrow
  <2>2. QED
    BY <1>1, <2>1, RmaBlank DEF RmaTold
<1>2. CASE bars # <<>>
  <2>1. ms \in Seq(Fracs) /\ v \in Fracs /\ ms2 = Ext(ms, v)
    BY <1>2 DEF MovesGrow
  <2>2. QED
    BY <1>2, <2>1, RmaFed DEF RmaTold
<1>3. QED
  BY <1>1, <1>2

LEMMA DxFed ==
  ASSUME NA \notin Int \X Int, NEW s \in Seq(Fracs \cup {NA}), NEW v \in Fracs \cup {NA},
         NEW L \in Nat \ {0}
  PROVE  RmaUpdate(RmaTold(Clean(s), L), v, L) = RmaTold(Clean(Ext(s, v)), L)
<1>1. Clean(s) \in Seq(Fracs)
  BY CleanIs
<1>2. /\ v = NA => Clean(Ext(s, v)) = Clean(s)
      /\ v # NA => Clean(Ext(s, v)) = Ext(Clean(s), v)
  BY CleanAppend
<1>3. CASE v = NA
  BY <1>2, <1>3, RmaBlank DEF RmaTold
<1>4. CASE v # NA
  BY <1>1, <1>2, <1>4, RmaFed DEF RmaTold
<1>5. QED
  BY <1>3, <1>4

\* Every move reaches its average, and dx its own only with a range.
LEMMA DmiStep ==
  ASSUME NA \notin Int \X Int,
         NEW B, Candles(B), NEW bars \in Seq(B), NEW x \in B, NEW L \in Nat \ {0}, NEW o
  PROVE  DmiUpdate(DmiKept(bars, L, o), x, L) = DmiKept(Ext(bars, x), L, DmiOfBars(Ext(bars, x), L))
<1>1. PICK r \in Seq(B) : r = Ext(bars, x) /\ Len(r) = Len(bars) + 1 /\ LastOf(r) = x
  <2>1. Ext(bars, x) \in Seq(B) /\ Len(Ext(bars, x)) = Len(bars) + 1
    BY DEF Ext
  <2>2. LastOf(Ext(bars, x)) = x
    BY LastOfExt
  <2>3. QED
    BY <2>1, <2>2
<1>2. PICK p : p = LastOf(bars) /\ (p = NA <=> bars = <<>>)
  BY DEF LastOf, Candles
<1>3. PICK t0, c0, d0, t, c, d :
        /\ t0 = RmaTold(Ranges(bars), L) /\ c0 = RmaTold(Climbs(bars), L)
        /\ d0 = RmaTold(Drops(bars), L)
        /\ t = RmaTold(Ranges(r), L) /\ c = RmaTold(Climbs(r), L) /\ d = RmaTold(Drops(r), L)
  OBVIOUS
<1>4. /\ RmaUpdate(t0, IF p = NA THEN NA ELSE Whole(TrueRange(x, p)), L) = t
      /\ RmaUpdate(c0, IF p = NA THEN NA ELSE Whole(PlusDm(x, p)), L) = c
      /\ RmaUpdate(d0, IF p = NA THEN NA ELSE Whole(MinusDm(x, p)), L) = d
  <2>1. /\ MovesGrow(bars, x, Ranges(bars), Ranges(r), Whole(TrueRange(x, p)))
        /\ MovesGrow(bars, x, Climbs(bars), Climbs(r), Whole(PlusDm(x, p)))
        /\ MovesGrow(bars, x, Drops(bars), Drops(r), Whole(MinusDm(x, p)))
    BY <1>1, <1>2, MovesExt
  <2>2. NA \notin B
    BY DEF Candles
  <2>3. /\ bars = <<>> => RmaUpdate(t0, NA, L) = t
        /\ bars # <<>> => RmaUpdate(t0, Whole(TrueRange(x, p)), L) = t
    BY <1>3, <2>1, <2>2, MoveFed
  <2>4. /\ bars = <<>> => RmaUpdate(c0, NA, L) = c
        /\ bars # <<>> => RmaUpdate(c0, Whole(PlusDm(x, p)), L) = c
    BY <1>3, <2>1, <2>2, MoveFed
  <2>5. /\ bars = <<>> => RmaUpdate(d0, NA, L) = d
        /\ bars # <<>> => RmaUpdate(d0, Whole(MinusDm(x, p)), L) = d
    BY <1>3, <2>1, <2>2, MoveFed
  <2>6. QED
    BY <1>2, <2>3, <2>4, <2>5
<1>5. PICK a : a = Moved(r, L) /\ a.tr = t.out /\ a.plus = c.out /\ a.minus = d.out
               /\ Averaged(a)
  <2>1. /\ Moved(r, L) = [tr |-> Rma(Ranges(r), L), plus |-> Rma(Climbs(r), L),
                          minus |-> Rma(Drops(r), L)]
        /\ Averaged(Moved(r, L))
    BY MovedIs
  <2>2. t.out = Rma(Ranges(r), L) /\ c.out = Rma(Climbs(r), L) /\ d.out = Rma(Drops(r), L)
    BY <1>3 DEF RmaTold, RmaKept
  <2>3. QED
    BY <2>1, <2>2
<1>6. PICK s \in Seq(Fracs \cup {NA}), v \in Fracs \cup {NA} :
        s = Dxs(bars, L) /\ v = Dx(a) /\ Dxs(r, L) = Ext(s, v)
  <2>1. DxsGrow(bars, x, L)
    BY DxsExt
  <2>2. QED
    BY <1>1, <1>5, <2>1 DEF DxsGrow
<1>7. PICK x0, x1 : x0 = RmaTold(Clean(s), L) /\ x1 = RmaTold(Clean(Ext(s, v)), L)
  OBVIOUS
<1>8. RmaUpdate(x0, v, L) = x1
  BY <1>7, DxFed
<1>9. /\ DmiKept(bars, L, o) = [prev |-> p, tr |-> t0, plus |-> c0, minus |-> d0, dx |-> x0, out |-> o]
      /\ \A e : DmiKept(r, L, e) = [prev |-> x, tr |-> t, plus |-> c, minus |-> d, dx |-> x1, out |-> e]
  BY <1>1, <1>2, <1>3, <1>6, <1>7 DEF DmiKept
<1>10. x1.out = Rma(Clean(Dxs(r, L)), L)
  BY <1>6, <1>7 DEF RmaTold, RmaKept
<1>11. CASE Silent(a)
  <2>1. v = NA
    BY <1>5, <1>6, <1>11, DxIs
  <2>2. x1 = x0
    <3>1. Clean(Ext(s, v)) = Clean(s)
      BY <2>1, CleanAppend
    <3>2. QED
      BY <1>7, <3>1
  <2>3. t.out = NA \/ t.out = Zero
    BY <1>5, <1>11 DEF Silent
  <2>4. DmiUpdate([prev |-> p, tr |-> t0, plus |-> c0, minus |-> d0, dx |-> x0, out |-> o], x, L)
          = [prev |-> x, tr |-> t, plus |-> c, minus |-> d, dx |-> x0, out |-> <<NA, NA, NA>>]
    <3>0. PICK s0 : s0 = [prev |-> p, tr |-> t0, plus |-> c0, minus |-> d0, dx |-> x0, out |-> o]
      OBVIOUS
    <3>1. /\ s0 = [prev |-> p, tr |-> t0, plus |-> c0, minus |-> d0, dx |-> x0, out |-> o]
          /\ s0.prev = p /\ s0.tr = t0 /\ s0.plus = c0 /\ s0.minus = d0 /\ s0.dx = x0
      BY <3>0
    <3>2. PICK tr, plus, minus :
            /\ tr = RmaUpdate(s0.tr, IF s0.prev = NA THEN NA ELSE Whole(TrueRange(x, s0.prev)), L)
            /\ plus = RmaUpdate(s0.plus, IF s0.prev = NA THEN NA ELSE Whole(PlusDm(x, s0.prev)), L)
            /\ minus = RmaUpdate(s0.minus, IF s0.prev = NA THEN NA ELSE Whole(MinusDm(x, s0.prev)), L)
            /\ tr = t /\ plus = c /\ minus = d
      BY <1>4, <3>1
    <3>3. DmiUpdate(s0, x, L) = [prev |-> x, tr |-> tr, plus |-> plus, minus |-> minus,
                                 dx |-> s0.dx, out |-> <<NA, NA, NA>>]
      BY <2>3, <3>2, SMTT(60) DEF DmiUpdate
    <3>4. QED
      BY <3>1, <3>2, <3>3
  <2>5. DmiOfBars(r, L) = <<NA, NA, NA>>
    <3>1. Dmi(r, L, L)[1] = NA
      BY <1>5, <1>11 DEF Dmi
    <3>2. QED
      BY <3>1 DEF DmiOfBars
  <2>6. QED
    BY <1>1, <1>9, <2>2, <2>4, <2>5
<1>12. CASE ~Silent(a)
  <2>1. bars # <<>>
    <3>1. ASSUME bars = <<>> PROVE FALSE
      <4>1. Ranges(r) = <<>>
        BY <1>1, <3>1, MovesExt DEF MovesGrow
      <4>2. Len(<<>>) < L
        OBVIOUS
      <4>3. t.out = NA
        BY <1>3, <4>1, <4>2 DEF RmaTold, RmaKept, Rma
      <4>4. QED
        BY <1>5, <1>12, <4>3 DEF Silent
    <3>2. QED
      BY <3>1
  <2>2. PICK pd, md : pd = Div(Mul(Whole(100), c.out), t.out) /\ md = Div(Mul(Whole(100), d.out), t.out)
    OBVIOUS
  <2>3. pd = Di(a, a.plus) /\ md = Di(a, a.minus) /\ pd \in Fracs
    BY <1>5, <1>12, <2>2, DxIs DEF Di
  <2>4. v = IF Add(pd, md) = Zero THEN NA ELSE Div(Mul(Whole(100), Abs(Sub(pd, md))), Add(pd, md))
    BY <1>6, <1>12, <2>3 DEF Dx
  <2>5. ~(t.out = NA \/ t.out = Zero)
    BY <1>5, <1>12 DEF Silent
  <2>6. DmiUpdate([prev |-> p, tr |-> t0, plus |-> c0, minus |-> d0, dx |-> x0, out |-> o], x, L)
          = [prev |-> x, tr |-> t, plus |-> c, minus |-> d, dx |-> x1, out |-> <<pd, md, x1.out>>]
    BY <1>4, <1>8, <2>2, <2>4, <2>5 DEF DmiUpdate
  <2>7. DmiOfBars(r, L) = <<pd, md, x1.out>>
    <3>1. Len(r) >= 2
      BY <1>1, <2>1
    <3>2. Dmi(r, L, L) = <<Di(a, a.plus), Di(a, a.minus), x1.out>>
      BY <1>5, <1>10, <1>12, <3>1 DEF Dmi
    <3>3. pd # NA
      BY <2>3, NotBlank
    <3>4. QED
      BY <2>3, <3>2, <3>3 DEF DmiOfBars
  <2>8. QED
    BY <1>1, <1>9, <2>6, <2>7
<1>13. QED
  BY <1>11, <1>12

-----------------------------------------------------------------------------
(* Bars with a close and a volume *)

LEMMA VolumesExt ==
  ASSUME NEW B, NEW bars \in Seq(B), NEW x \in B
  PROVE  /\ Len(Volumes(bars)) = Len(bars)
         /\ Volumes(Ext(bars, x)) = Ext(Volumes(bars), x.v)
<1> DEFINE q == Volumes(Ext(bars, x))
           r == Volumes(bars)
<1>1. /\ Len(Ext(bars, x)) = Len(bars) + 1 /\ Ext(bars, x)[Len(bars) + 1] = x
      /\ \A i \in 1..Len(bars) : Ext(bars, x)[i] = bars[i]
  BY ExtIs
<1>2. q = [i \in 1..(Len(bars) + 1) |-> IF i = Len(bars) + 1 THEN x.v ELSE bars[i].v]
  BY <1>1 DEF Volumes
<1>3. /\ r = [i \in 1..Len(bars) |-> bars[i].v] /\ Len(r) = Len(bars)
      /\ DOMAIN r = 1..Len(bars)
  BY DEF Volumes
<1>4. Ext(r, x.v) = [i \in 1..(Len(bars) + 1) |-> IF i = Len(bars) + 1 THEN x.v ELSE bars[i].v]
  BY <1>3 DEF Ext
<1>5. QED
  BY <1>2, <1>3, <1>4

LEMMA TradedEmpty == Traded(<<>>) = <<>>
<1>1. FB!Fold(<<>>, <<>>) = <<>>
  BY FB!FoldEmpty
<1>2. FB!Fold(<<>>, <<>>) = FoldLeft(KeepTraded, <<>>, <<>>)
  BY DEF FB!Fold, FB!MapThenFoldSet, FoldLeft, MapThenFoldSet, FB!Max, Max
<1>3. QED
  BY <1>1, <1>2 DEF Traded

LEMMA TradedAppend ==
  ASSUME NEW B, NEW bars \in Seq(B), NEW x \in B
  PROVE  /\ x.c = NA \/ x.v = NA => Traded(Ext(bars, x)) = Traded(bars)
         /\ x.c # NA /\ x.v # NA => Traded(Ext(bars, x)) = Ext(Traded(bars), x)
<1>1. FB!Fold(<<>>, Append(bars, x)) = KeepTraded(FB!Fold(<<>>, bars), x)
  BY FB!FoldAppend
<1>2. /\ FB!Fold(<<>>, bars) = FoldLeft(KeepTraded, <<>>, bars)
      /\ FB!Fold(<<>>, Append(bars, x)) = FoldLeft(KeepTraded, <<>>, Append(bars, x))
  BY DEF FB!Fold, FB!MapThenFoldSet, FoldLeft, MapThenFoldSet, FB!Max, Max
<1>3. Traded(Ext(bars, x)) = KeepTraded(Traded(bars), x)
  BY <1>1, <1>2 DEF Traded, Ext
<1>4. QED
  BY <1>3 DEF KeepTraded, IsBlank, Ext

\* The bars of B that are traded.
TradesOf(B) == {b \in B : b.c \in Int /\ b.v \in Int}

\* Bars that may lack a close or a volume.
Quotes(B) == \A b \in B : b.c \in Int \cup {NA} /\ b.v \in Int \cup {NA}

LEMMA TradedExt ==
  ASSUME NA \notin Int, NEW B, Quotes(B), NEW bars \in Seq(B), NEW x \in B
  PROVE  /\ Traded(bars) \in Seq(TradesOf(B))
         /\ x.c = NA \/ x.v = NA => Traded(Ext(bars, x)) = Traded(bars)
         /\ x.c # NA /\ x.v # NA => /\ x \in TradesOf(B)
                                    /\ Traded(Ext(bars, x)) = Ext(Traded(bars), x)
<1> DEFINE T == TradesOf(B)
           S == {r \in Seq(B) : Traded(r) \in Seq(T)}
<1>1. \A b \in B : b.c # NA /\ b.v # NA => b \in T
  BY DEF TradesOf, Quotes
<1>2. <<>> \in S
  <2>1. <<>> \in Seq(B) /\ <<>> \in Seq(T)
    OBVIOUS
  <2>2. QED
    BY <2>1, TradedEmpty
<1>3. ASSUME NEW r \in Seq(B), NEW e \in B, r \in S PROVE Ext(r, e) \in S
  <2>1. Ext(r, e) \in Seq(B)
    BY DEF Ext
  <2>2. CASE e.c = NA \/ e.v = NA
    <3>1. Traded(Ext(r, e)) = Traded(r)
      BY <2>2, TradedAppend
    <3>2. QED
      BY <1>3, <2>1, <3>1
  <2>3. CASE e.c # NA /\ e.v # NA
    <3>1. Traded(Ext(r, e)) = Ext(Traded(r), e)
      BY <2>3, TradedAppend
    <3>2. Traded(r) \in Seq(T) /\ e \in T
      BY <1>1, <1>3, <2>3
    <3>3. Ext(Traded(r), e) \in Seq(T)
      BY <3>2, ExtIs
    <3>4. QED
      BY <2>1, <3>1, <3>3
  <2>4. QED
    BY <2>2, <2>3
<1>4. Seq(B) \subseteq S
  <2> HIDE DEF S, T
  <2> QED
    BY <1>2, <1>3, SeqInduction
<1>5. QED
  BY <1>1, <1>4, TradedAppend

\* Closes, volumes and their products as maps of the bars.
LEMMA TradeMaps ==
  ASSUME NEW B
  PROVE  \E fc, fv, fp \in Maps(TradesOf(B), Int) :
           /\ \A b \in TradesOf(B) : fc[b] = b.c /\ fv[b] = b.v /\ fp[b] = b.c * b.v
           /\ \A s \in Seq(TradesOf(B)) :
                /\ Closes(s) = Mapped(fc, s) /\ Volumes(s) = Mapped(fv, s)
                /\ Dot(Closes(s), Volumes(s)) = Total(Mapped(fp, s))
<1> DEFINE T == TradesOf(B)
<1>1. \A b \in T : b.c \in Int /\ b.v \in Int /\ b.c * b.v \in Int
  BY DEF TradesOf
<1> HIDE DEF T
<1>2. PICK fc \in Maps(T, Int) : \A b \in T : fc[b] = b.c
  <2>1. [b \in T |-> b.c] \in [T -> Int]
    BY <1>1
  <2>2. QED
    BY <2>1 DEF Maps
<1>3. PICK fv \in Maps(T, Int) : \A b \in T : fv[b] = b.v
  <2>1. [b \in T |-> b.v] \in [T -> Int]
    BY <1>1
  <2>2. QED
    BY <2>1 DEF Maps
<1>4. PICK fp \in Maps(T, Int) : \A b \in T : fp[b] = b.c * b.v
  <2>1. [b \in T |-> b.c * b.v] \in [T -> Int]
    BY <1>1
  <2>2. QED
    BY <2>1 DEF Maps
<1>5. ASSUME NEW s \in Seq(T)
      PROVE  /\ Closes(s) = Mapped(fc, s) /\ Volumes(s) = Mapped(fv, s)
             /\ Dot(Closes(s), Volumes(s)) = Total(Mapped(fp, s))
  <2>1. \A i \in 1..Len(s) : s[i] \in T
    OBVIOUS
  <2>2. Closes(s) = Mapped(fc, s)
    BY <1>2, <2>1 DEF Closes, Mapped
  <2>3. Volumes(s) = Mapped(fv, s)
    BY <1>3, <2>1 DEF Volumes, Mapped
  <2>4. Len(Closes(s)) = Len(s)
    BY DEF Closes
  <2>5. Dot(Closes(s), Volumes(s)) = Total([i \in 1..Len(s) |-> Closes(s)[i] * Volumes(s)[i]])
    BY <2>4 DEF Dot
  <2>6. \A i \in 1..Len(s) : Closes(s)[i] * Volumes(s)[i] = fp[s[i]]
    BY <1>4, <2>1 DEF Closes, Volumes
  <2>7. [i \in 1..Len(s) |-> Closes(s)[i] * Volumes(s)[i]] = Mapped(fp, s)
    BY <2>6 DEF Mapped
  <2>8. QED
    BY <2>2, <2>3, <2>5, <2>7
<1>6. QED
  BY <1>2, <1>3, <1>4, <1>5 DEF T

===============================================================================
