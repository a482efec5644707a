-------------------------- MODULE TimeFunctionsProofs --------------------------
(***************************************************************************)
(* Proofs about TimeFunctions, for every value of its constants: sessions, *)
(* the buckets of a day and a week, time, time_close and change agree with *)
(* the calendar, through one change of the zone's offset.                  *)
(***************************************************************************)
EXTENDS TimeFunctions, TLAPS

\* The bars are in one unit, each told by its time, and they ascend.
InOrder ==
  /\ \A i \in 1..Len(bars) : \E t \in Nat : TellsUnit(t) /\ bars[i] = Stored(t)
  /\ \A i \in 2..Len(bars) : InUnits(bars[i - 1].time) < InUnits(bars[i].time)

TimeInv ==
  /\ feed \in Feeds
  /\ bars \in Seq([time : Nat, close : Nat])
  /\ live \in BOOLEAN
  /\ index = IF live THEN Len(bars) - 2 ELSE Len(bars) - 1
  /\ InOrder

-----------------------------------------------------------------------------
(* The bars *)

\* A feed has an interval, a unit and a zone.
LEMMA FeedFacts ==
  ASSUME feed \in Feeds
  PROVE  /\ feed.interval \in Nat \ {0} /\ feed.fine \in BOOLEAN /\ feed.closes \in BOOLEAN
         /\ feed.zone.before \in Int /\ feed.zone.after \in Int /\ feed.zone.at \in Int
         /\ MondayShows(feed.zone)
BY TimeAssumption DEF TimeAssumption

\* Feeds whose closes are read as the last unit of their bars.
ClosesTold == feed.closes \/ ~feed.fine

\* A bar whose time tells its unit is read as it was, and so is its close where it is told.
LEMMA StoredRead ==
  ASSUME feed \in Feeds, NEW t \in Nat
  PROVE  /\ Stored(t) \in [time : Nat, close : Nat]
         /\ TellsUnit(t) => /\ InUnits(Stored(t).time) = t
                            /\ t <= InUnits(Stored(t).close)
                            /\ ClosesTold => InUnits(Stored(t).close) = t + feed.interval - 1
<1>1. /\ Scale \in Nat \ {0} /\ Threshold \in Nat /\ feed.interval \in Nat \ {0}
      /\ feed.fine \in BOOLEAN /\ feed.closes \in BOOLEAN
  BY FeedFacts, TimeAssumption DEF TimeAssumption
<1>2. PICK c \in Nat : c = t + feed.interval - 1 /\ t <= c
  <2>1. t + feed.interval - 1 \in Nat /\ t <= t + feed.interval - 1
    BY <1>1
  <2>2. QED
    BY <2>1
<1>3. PICK u \in Nat : u = t * Scale
  BY <1>1
<1>4. (t * Scale) \div Scale = t /\ (c * Scale) \div Scale = c /\ t * Scale <= c * Scale
      /\ c * Scale \in Nat
  BY <1>1, <1>2
<1>5. CASE feed.fine /\ feed.closes
  <2>1. Stored(t) = [time |-> u, close |-> c * Scale]
    BY <1>2, <1>3, <1>5 DEF Stored
  <2>2. TellsUnit(t) => u > Threshold /\ c * Scale > Threshold
    BY <1>1, <1>3, <1>4, <1>5 DEF TellsUnit
  <2>3. QED
    BY <1>2, <1>3, <1>4, <2>1, <2>2 DEF InUnits
<1>6. CASE feed.fine /\ ~feed.closes
  <2>1. PICK d \in Nat : d = u + feed.interval - 1 /\ u <= d
    <3>1. u + feed.interval - 1 \in Nat /\ u <= u + feed.interval - 1
      BY <1>1
    <3>2. QED
      BY <3>1
  <2>2. Stored(t) = [time |-> u, close |-> d]
    BY <1>3, <1>6, <2>1 DEF Stored
  <2>3. TellsUnit(t) => u > Threshold /\ d > Threshold
    BY <1>1, <1>3, <1>6, <2>1 DEF TellsUnit
  <2>4. u \div Scale <= d \div Scale
    BY <1>1, <2>1
  <2>5. QED
    BY <1>3, <1>4, <1>6, <2>1, <2>2, <2>3, <2>4 DEF InUnits, ClosesTold
<1>7. CASE ~feed.fine
  <2>1. Stored(t) = [time |-> t, close |-> c]
    BY <1>2, <1>7 DEF Stored
  <2>2. TellsUnit(t) => ~(c > Threshold) /\ ~(t > Threshold)
    BY <1>1, <1>2, <1>7 DEF TellsUnit
  <2>3. QED
    BY <1>2, <2>1, <2>2 DEF InUnits
<1>8. QED
  BY <1>1, <1>5, <1>6, <1>7

\* A time in units is a number.
LEMMA UnitsAreNumbers ==
  ASSUME NEW t \in Nat
  PROVE  InUnits(t) \in Nat
BY TimeAssumption DEF TimeAssumption, InUnits

\* The elements of a sequence.
LEMMA ElementsOf ==
  ASSUME NEW U, NEW s \in Seq(U)
  PROVE  /\ Len(s) \in Nat /\ (s # <<>> => Len(s) > 0)
         /\ \A i \in 1..Len(s) : s[i] \in U
OBVIOUS

\* The bars are records of times.
LEMMA BarsAre ==
  ASSUME bars \in Seq([time : Nat, close : Nat])
  PROVE  /\ Len(bars) \in Nat
         /\ bars # <<>> => Len(bars) \in 1..Len(bars)
         /\ \A i \in 1..Len(bars) :
              bars[i] \in [time : Nat, close : Nat] /\ bars[i].time \in Nat /\ bars[i].close \in Nat
<1>1. Len(bars) \in Nat /\ (bars # <<>> => Len(bars) > 0)
  BY ElementsOf
<1>2. \A i \in 1..Len(bars) : bars[i] \in [time : Nat, close : Nat]
  BY ElementsOf
<1>3. QED
  BY <1>1, <1>2

\* The sequence with one bar more.
LEMMA BarAppended ==
  ASSUME bars \in Seq([time : Nat, close : Nat]), NEW bar \in [time : Nat, close : Nat],
         bars' = Append(bars, bar)
  PROVE  /\ bars' \in Seq([time : Nat, close : Nat]) /\ Len(bars') = Len(bars) + 1
         /\ bars'[Len(bars) + 1] = bar
         /\ \A i \in 1..Len(bars) : bars'[i] = bars[i]
OBVIOUS

\* A bar begins.
LEMMA BeginKeeps ==
  ASSUME TimeInv, NEW t \in NextTimes, BeginBar(t)
  PROVE  TimeInv'
<1>1. /\ feed \in Feeds /\ bars \in Seq([time : Nat, close : Nat]) /\ ~live
      /\ index = Len(bars) - 1 /\ bars' = Append(bars, Stored(t)) /\ live'
      /\ live' \in BOOLEAN
      /\ feed' = feed /\ index' = index /\ TellsUnit(t)
  BY DEF TimeInv, BeginBar
<1>2. PICK n \in Nat : n = Len(bars)
  BY <1>1, BarsAre
<1>3. t \in Nat /\ (n > 0 => InUnits(bars[n].time) < t)
  <2>1. CASE bars = <<>>
    BY <1>2, <2>1, TimeAssumption DEF TimeAssumption, NextTimes
  <2>2. CASE bars # <<>>
    <3>1. bars[n].time \in Nat
      BY <1>1, <1>2, <2>2, BarsAre
    <3>2. PICK u \in Nat : u = InUnits(bars[n].time)
      BY <3>1, UnitsAreNumbers
    <3>3. BarTime = u
      BY <1>2, <3>2 DEF BarTime, Current
    <3>4. PICK j \in Jumps : t = u + j
      BY <2>2, <3>3 DEF NextTimes
    <3>5. j \in Nat \ {0}
      BY TimeAssumption DEF TimeAssumption
    <3>6. QED
      BY <3>2, <3>4, <3>5
  <2>3. QED
    BY <2>1, <2>2
<1>4. PICK bar : bar = Stored(t)
  OBVIOUS
<1>5. bar \in [time : Nat, close : Nat] /\ (TellsUnit(t) => InUnits(bar.time) = t)
  BY <1>1, <1>3, <1>4, StoredRead
<1>6. /\ bars' \in Seq([time : Nat, close : Nat]) /\ Len(bars') = n + 1 /\ bars'[n + 1] = bar
      /\ \A i \in 1..n : bars'[i] = bars[i]
  BY <1>1, <1>2, <1>4, <1>5, BarAppended
<1>7. InOrder'
  <2>1. /\ \A i \in 1..n : \E u \in Nat : TellsUnit(u) /\ bars[i] = Stored(u)
        /\ \A i \in 2..n : InUnits(bars[i - 1].time) < InUnits(bars[i].time)
    BY <1>2 DEF TimeInv, InOrder
  <2>2. \A u : TellsUnit(u)' = TellsUnit(u) /\ Stored(u)' = Stored(u)
    BY <1>1 DEF TellsUnit, Stored
  <2>3. \A i \in 1..(n + 1) : i \in 1..n \/ i = n + 1
    OBVIOUS
  <2>4. ASSUME NEW i \in 1..(n + 1) PROVE \E u \in Nat : TellsUnit(u)' /\ bars'[i] = Stored(u)'
    <3>1. CASE i \in 1..n
      <4>1. PICK u \in Nat : TellsUnit(u) /\ bars[i] = Stored(u)
        BY <2>1, <3>1
      <4>2. QED
        BY <1>6, <2>2, <3>1, <4>1
    <3>2. CASE i = n + 1
      BY <1>1, <1>3, <1>4, <1>6, <2>2, <3>2
    <3>3. QED
      BY <2>3, <3>1, <3>2
  <2>5. ASSUME NEW i \in 2..(n + 1)
        PROVE  InUnits(bars'[i - 1].time) < InUnits(bars'[i].time)
    <3>1. CASE i = n + 1
      <4>1. i - 1 = n /\ n \in 1..n /\ n > 0
        BY <3>1
      <4>2. bars'[i - 1] = bars[n] /\ bars'[i] = bar
        BY <1>6, <3>1, <4>1
      <4>3. InUnits(bar.time) = t
        BY <1>1, <1>5
      <4>4. QED
        BY <1>3, <4>1, <4>2, <4>3
    <3>2. CASE i \in 2..n
      <4>1. i - 1 \in 1..n /\ i \in 1..n
        BY <3>2
      <4>2. QED
        BY <1>6, <2>1, <3>2, <4>1
    <3>3. QED
      BY <3>1, <3>2
  <2>6. \A x : InUnits(x)' = InUnits(x)
    BY DEF InUnits
  <2>7. QED
    BY <1>6, <2>4, <2>5, <2>6 DEF InOrder
<1>8. index' = IF live' THEN Len(bars') - 2 ELSE Len(bars') - 1
  BY <1>1, <1>2, <1>6
<1>9. QED
  BY <1>1, <1>6, <1>7, <1>8 DEF TimeInv

\* Bars stay in order, and bar_index counts those that have ended.
LEMMA TimeKept == TimeInv /\ [Next]_timeVars => TimeInv'
<1> SUFFICES ASSUME TimeInv, [Next]_timeVars PROVE TimeInv'
  OBVIOUS
<1>1. ASSUME NEW t \in NextTimes, BeginBar(t) PROVE TimeInv'
  BY <1>1, BeginKeeps
<1>2. ASSUME UNCHANGED <<feed, bars>> PROVE InOrder => InOrder'
  BY <1>2 DEF InOrder, TellsUnit, Stored, InUnits
<1>3. CASE EndBar
  <2>1. /\ live /\ live' = FALSE /\ index' = index + 1 /\ UNCHANGED <<feed, bars>>
    BY <1>3 DEF EndBar
  <2>2. Len(bars) \in Nat
    BY BarsAre DEF TimeInv
  <2>3. index' = Len(bars') - 1
    BY <2>1, <2>2 DEF TimeInv
  <2>4. QED
    BY <1>2, <2>1, <2>3 DEF TimeInv
<1>4. CASE UNCHANGED timeVars
  BY <1>2, <1>4 DEF timeVars, TimeInv
<1>5. QED
  BY <1>1, <1>3, <1>4 DEF Next

\* A run starts in order.
LEMMA TimeInit == Init => TimeInv
<1> SUFFICES ASSUME Init PROVE TimeInv
  OBVIOUS
<1>1. /\ feed \in Feeds /\ bars = <<>> /\ Len(bars) = 0
      /\ bars \in Seq([time : Nat, close : Nat]) /\ live = FALSE /\ index = -1
  BY DEF Init
<1>2. InOrder
  BY <1>1 DEF InOrder
<1>3. index = Len(bars) - 1
  BY <1>1
<1>4. QED
  BY <1>1, <1>2, <1>3 DEF TimeInv

\* The invariant holds in every reachable state.
THEOREM TimeInductive == Spec => []TimeInv
<1>1. QED
  BY TimeInit, TimeKept, PTL DEF Spec

-----------------------------------------------------------------------------
(* The current bar *)

\* The current bar, where there is one.
LEMMA CurrentRead ==
  ASSUME TimeInv, bars # <<>>
  PROVE  /\ BarTime \in Nat /\ BarTimeClose \in Nat /\ BarTime <= BarTimeClose
         /\ ClosesTold => BarTimeClose = BarTime + feed.interval - 1
<1>1. PICK n \in Nat : n = Len(bars) /\ n \in 1..Len(bars)
  BY BarsAre DEF TimeInv
<1>2. bars[n].time \in Nat /\ bars[n].close \in Nat
  BY <1>1, BarsAre DEF TimeInv
<1>3. BarTime = InUnits(bars[n].time) /\ BarTimeClose = InUnits(bars[n].close)
  BY <1>1 DEF BarTime, BarTimeClose, Current
<1>4. PICK t \in Nat : TellsUnit(t) /\ bars[n] = Stored(t)
  BY <1>1 DEF TimeInv, InOrder
<1>5. InUnits(bars[n].time) = t /\ t <= InUnits(bars[n].close)
      /\ (ClosesTold => InUnits(bars[n].close) = t + feed.interval - 1)
  BY <1>4, StoredRead DEF TimeInv
<1>6. QED
  BY <1>2, <1>3, <1>5, UnitsAreNumbers

\* Division by a positive number.
LEMMA Division ==
  ASSUME NEW x \in Int, NEW d \in Nat \ {0}
  PROVE  x \div d \in Int /\ x % d \in 0..(d - 1) /\ x = (x \div d) * d + (x % d)
OBVIOUS

\* A later time is not in an earlier bucket.
LEMMA DivisionMonotone ==
  ASSUME NEW x \in Int, NEW y \in Int, NEW d \in Nat \ {0}, x <= y
  PROVE  x \div d \in Int /\ y \div d \in Int /\ x \div d <= y \div d
OBVIOUS

-----------------------------------------------------------------------------
(* change *)

\* c is the product of v and d.
Product(c, v, d) == c \in Int /\ c = v * d

\* x is before y, and z not before it; two times lie in different buckets.
Ascend(x, y, z) == x <= y /\ y <= z
Apart(x, y, d) == x \div d # y \div d

\* A quotient is below v exactly when the number is below v times the divisor.
LEMMA QuotientBelow ==
  ASSUME NEW x \in Int, NEW v \in Int, NEW d \in Nat \ {0}, NEW c, Product(c, v, d)
  PROVE  x \div d \in Int /\ (x < c => x \div d < v) /\ (x \div d < v => x < c)
<1>1. x \div d \in Int /\ x % d \in Int /\ 0 <= x % d /\ x % d < d
      /\ x = (x \div d) * d + (x % d)
  OBVIOUS
<1>2. PICK i \in Int, r \in Int : i = x \div d /\ 0 <= r /\ r < d /\ x = i * d + r
  BY <1>1
<1>3. c \in Int /\ c = v * d
  BY DEF Product
<1>4. i < v => x < c
  <2>1. i < v => i + 1 <= v
    BY <1>2
  <2>2. i + 1 <= v => (i + 1) * d <= v * d
    BY <1>2
  <2>3. (i + 1) * d = i * d + d /\ i * d \in Int
    BY <1>2
  <2>4. QED
    BY <1>2, <1>3, <2>1, <2>2, <2>3
<1>5. ~(i < v) => ~(x < c)
  <2>1. v <= i => v * d <= i * d
    BY <1>2
  <2>2. i * d \in Int
    BY <1>2
  <2>3. QED
    BY <1>2, <1>3, <2>1, <2>2
<1>6. QED
  BY <1>2, <1>4, <1>5

\* A boundary between two times is one between the same times in the fine unit.
LEMMA ScaledApart ==
  ASSUME NEW x \in Nat, NEW y \in Nat, NEW z \in Nat, Ascend(x, y, z),
         NEW d \in Nat \ {0}, NEW m \in Nat \ {0}, Apart(y, z, d),
         NEW u \in Nat, Product(u, x, m), NEW w \in Nat, Product(w, z, m)
  PROVE  Apart(u, w, d)
<1>1. y \div d \in Int /\ z \div d \in Int /\ y \div d <= z \div d /\ y \div d # z \div d
      /\ x <= y /\ y <= z
  <2>1. x <= y /\ y <= z
    BY DEF Ascend
  <2>2. y \div d \in Int /\ z \div d \in Int /\ y \div d <= z \div d
    BY <2>1
  <2>3. QED
    BY <2>1, <2>2 DEF Apart
<1>2. PICK k \in Int : k = z \div d
  BY <1>1
<1>3. PICK b \in Int : b = k * d
  BY <1>2
<1>4. Product(b, k, d)
  BY <1>3 DEF Product
<1>5. y < b
  <2>1. y \div d < k
    BY <1>1, <1>2
  <2>2. ~(y < b) => ~(y \div d < k)
    BY <1>4, QuotientBelow
  <2>3. QED
    BY <2>1, <2>2
<1>6. b <= z
  <2>1. ~(z \div d < k)
    BY <1>2
  <2>2. ~(z < b)
    BY <1>2, <1>4, <2>1, QuotientBelow
  <2>3. QED
    BY <1>3, <2>2
<1>7. PICK v \in Int : v = k * m
  BY <1>2
<1>8. PICK c \in Int : c = b * m
  BY <1>3
<1>9. Product(c, v, d)
  BY <1>2, <1>3, <1>7, <1>8 DEF Product
<1>10. u < c /\ ~(w < c)
  <2>1. x < b
    BY <1>1, <1>3, <1>5
  <2>2. x * m < b * m
    BY <1>3, <2>1
  <2>3. b * m <= z * m
    BY <1>3, <1>6
  <2>4. QED
    BY <1>8, <2>2, <2>3 DEF Product
<1>11. u \div d < v
  <2>1. u < c => u \div d < v
    BY <1>9, QuotientBelow
  <2>2. QED
    BY <1>10, <2>1
<1>12. ~(w \div d < v)
  <2>1. ~(w < c) => ~(w \div d < v)
    BY <1>9, QuotientBelow
  <2>2. QED
    BY <1>10, <2>1
<1>13. QED
  BY <1>11, <1>12 DEF Apart

\* change() looks two bars back while a bar is open, as TimeInv places index.
LEMMA ChangeRead == TimeInv => ChangeMissesNone
<1> SUFFICES ASSUME TimeInv, NEW ms \in {Day, 7 * Day}, live, Len(bars) > 1,
                    BarTime \div ms # InUnits(bars[Len(bars) - 1].time) \div ms
             PROVE  Change(ms)
  BY DEF ChangeMissesNone
<1>1. PICK n \in Nat : n = Len(bars) /\ n > 1 /\ index = n - 2
  BY BarsAre DEF TimeInv
<1>2. ms \in Nat \ {0} /\ Scale \in Nat \ {0} /\ feed.fine \in BOOLEAN
  BY FeedFacts, TimeAssumption DEF TimeAssumption, TimeInv
<1>3. CASE n = 2
  BY <1>1, <1>3 DEF Change
<1>4. CASE n > 2
  <2>1. n - 1 \in 2..n /\ n \in 2..n /\ n - 1 - 1 = n - 2
        /\ n - 2 \in 1..n /\ n - 1 \in 1..n /\ n \in 1..n
    BY <1>4
  <2>2. InOrder
    BY DEF TimeInv
  <2>3. ASSUME NEW i \in 1..n
        PROVE  \E t \in Nat : InUnits(bars[i].time) = t
                              /\ bars[i].time = IF feed.fine THEN t * Scale ELSE t
    <3>1. PICK t \in Nat : TellsUnit(t) /\ bars[i] = Stored(t)
      BY <1>1, <2>2 DEF InOrder
    <3>2. InUnits(bars[i].time) = t
      BY <3>1, StoredRead DEF TimeInv
    <3>3. bars[i].time = IF feed.fine THEN t * Scale ELSE t
      BY <3>1 DEF Stored
    <3>4. QED
      BY <3>2, <3>3
  <2>4. PICK x \in Nat : InUnits(bars[n - 2].time) = x
                        /\ bars[n - 2].time = IF feed.fine THEN x * Scale ELSE x
    BY <2>1, <2>3
  <2>5. PICK y \in Nat : InUnits(bars[n - 1].time) = y
    BY <2>1, <2>3
  <2>6. PICK z \in Nat : InUnits(bars[n].time) = z
                        /\ bars[n].time = IF feed.fine THEN z * Scale ELSE z
    BY <2>1, <2>3
  <2>7. x < y /\ y < z
    <3>1. InUnits(bars[n - 1 - 1].time) < InUnits(bars[n - 1].time)
          /\ InUnits(bars[n - 1].time) < InUnits(bars[n].time)
      BY <1>1, <2>1, <2>2 DEF InOrder
    <3>2. QED
      BY <2>1, <2>4, <2>5, <2>6, <3>1
  <2>8. y \div ms # z \div ms
    BY <1>1, <2>5, <2>6 DEF BarTime, Current
  <2>9. bars[n - 2].time \div ms # bars[n].time \div ms
    <3>1. CASE feed.fine
      <4>1. PICK u \in Nat, w \in Nat : /\ u = x * Scale /\ w = z * Scale
                                        /\ Product(u, x, Scale) /\ Product(w, z, Scale)
        BY <1>2 DEF Product
      <4>2. Ascend(x, y, z)
        BY <2>7 DEF Ascend
      <4>3. Apart(y, z, ms)
        BY <2>8 DEF Apart
      <4>4. Apart(u, w, ms)
        BY <1>2, <4>1, <4>2, <4>3, ScaledApart
      <4>5. bars[n - 2].time = u /\ bars[n].time = w
        BY <2>4, <2>6, <3>1, <4>1
      <4>6. QED
        BY <4>4, <4>5 DEF Apart
    <3>2. CASE ~feed.fine
      <4>1. /\ x \div ms \in Int /\ y \div ms \in Int /\ z \div ms \in Int
            /\ x \div ms <= y \div ms /\ y \div ms <= z \div ms
        BY <1>2, <2>7, DivisionMonotone
      <4>2. QED
        BY <2>4, <2>6, <2>8, <3>2, <4>1
    <3>3. QED
      BY <1>2, <3>1, <3>2
  <2>10. QED
    BY <1>1, <2>9 DEF Change, Current
<1>5. QED
  BY <1>1, <1>3, <1>4

-----------------------------------------------------------------------------
(* Sessions *)

\* The instants of trading day d of a session, as in SessionsDeclared.
Window(s, d) == IF IsOvernight(s) THEN (d - 1) * Day + s.start .. d * Day + s.end
                                  ELSE d * Day + s.start .. d * Day + s.end
Owned(s, d) == IF s.start = s.end THEN Window(s, d) \ {d * Day + s.end} ELSE Window(s, d)

Clocks(s, start, end) == start \in Nat /\ end \in Nat /\ start = s.start /\ end = s.end

\* Day d begins at q, and the day before it at p.
DayAt(d, p, q) == p \in Int /\ q \in Int /\ p = (d - 1) * Day /\ q = d * Day

\* What is owned, day by day.
OwnedAt(s, w, start, end, d, p, q) ==
  w \in Owned(s, d) <=>
    /\ (start >= end => p + start <= w) /\ (start < end => q + start <= w)
    /\ w <= q + end
    /\ (start = end => w # q + end)

\* The window of a trading day as a comparison of numbers.
LEMMA OwnedIs ==
  ASSUME NEW s, NEW w \in Int, NEW start, NEW end, Clocks(s, start, end),
         NEW d, NEW p, NEW q, DayAt(d, p, q)
  PROVE  OwnedAt(s, w, start, end, d, p, q)
<1>0. /\ start \in Nat /\ end \in Nat /\ s.start = start /\ s.end = end
      /\ p \in Int /\ q \in Int /\ (d - 1) * Day = p /\ d * Day = q
  BY DEF Clocks, DayAt
<1>1. CASE start < end
  BY <1>0, <1>1 DEF Owned, Window, IsOvernight, OwnedAt
<1>2. CASE start = end
  <2>1. Owned(s, d) = (p + start .. q + end) \ {q + end}
    BY <1>0, <1>2 DEF Owned, Window, IsOvernight
  <2>2. QED
    BY <1>0, <1>2, <2>1 DEF OwnedAt
<1>3. CASE start > end
  BY <1>0, <1>3 DEF Owned, Window, IsOvernight, OwnedAt
<1>4. QED
  BY <1>0, <1>1, <1>2, <1>3

\* The bounds and the trading day of an instant at clock time c of a day that begins at x.
BoundsAt(s, w, start, end, day, x, c) ==
  /\ start < end => IntervalBounds(w, s) = <<x + start, x + end>>
  /\ start >= end /\ c >= start => IntervalBounds(w, s) = <<x + start, x + end + Day>>
  /\ start >= end /\ c < start => IntervalBounds(w, s) = <<x + start - Day, x + end>>
  /\ start >= end /\ c >= start => TradingDayCode(w, s) = DayCode(day + 1)
  /\ start < end \/ c < start => TradingDayCode(w, s) = DayCode(day)

\* What _interval_bounds and _trading_day_code answer, as comparisons of numbers.
LEMMA BoundsAre ==
  ASSUME NEW s, NEW w, NEW start, NEW end, Clocks(s, start, end),
         NEW day, day = DayOf(w), NEW p, NEW x, DayAt(day, p, x), NEW c \in Int, c = Clock(w)
  PROVE  BoundsAt(s, w, start, end, day, x, c)
<1>0. DayOf(w) * Day = x /\ start \in Nat /\ end \in Nat /\ s.start = start /\ s.end = end
  BY DEF Clocks, DayAt
<1>1. IsOvernight(s) <=> start >= end
  BY <1>0 DEF IsOvernight
<1>2. Clock(w) >= s.start <=> c >= start
  BY <1>0
<1>3. Clock(w) < s.start <=> c < start
  BY <1>0
<1>4. start < end <=> ~(start >= end)
  BY <1>0
<1>5. c < start <=> ~(c >= start)
  BY <1>0
<1>6. /\ start >= end /\ c >= start => TradingDayCode(w, s) = DayCode(day + 1)
      /\ start < end \/ c < start => TradingDayCode(w, s) = DayCode(day)
  BY <1>1, <1>2, <1>4, <1>5 DEF TradingDayCode
<1>7. CASE start < end
  BY <1>0, <1>1, <1>4, <1>6, <1>7 DEF IntervalBounds, BoundsAt
<1>8. CASE start >= end /\ c >= start
  BY <1>0, <1>1, <1>2, <1>3, <1>4, <1>5, <1>6, <1>8 DEF IntervalBounds, BoundsAt
<1>9. CASE start >= end /\ c < start
  BY <1>0, <1>1, <1>2, <1>3, <1>4, <1>5, <1>6, <1>9 DEF IntervalBounds, BoundsAt
<1>10. QED
  BY <1>4, <1>5, <1>7, <1>8, <1>9

\* Days of a whole number of units.
LEMMA DaysAre ==
  ASSUME NEW day \in Int, NEW d \in Nat
  PROVE  /\ day * d \in Int
         /\ (day - 1) * d = day * d - d /\ (day + 1) * d = day * d + d /\ (day + 1 - 1) * d = day * d
OBVIOUS

\* The wall clock of the current bar.
LEMMA WallIs ==
  ASSUME feed \in Feeds, NEW t \in Int
  PROVE  Wall(t, feed.zone) \in Int
<1>1. feed.zone.before \in Int /\ feed.zone.after \in Int
  BY FeedFacts
<1>2. QED
  BY <1>1 DEF Wall

\* An instant is in the session exactly on a trading day that owns it.
LEMMA InSessionIs ==
  ASSUME NEW s \in Sessions, NEW w \in Int
  PROVE  (/\ TradingDayCode(w, s) \in s.days
          /\ IntervalBounds(w, s)[1] <= w /\ w <= IntervalBounds(w, s)[2])
           <=> \E d \in DayOf(w)..(DayOf(w) + 1) : DayCode(d) \in s.days /\ w \in Owned(s, d)
<1>1. PICK start \in Nat, end \in Nat : /\ start = s.start /\ end = s.end
                                       /\ start < Day /\ end < Day /\ Day \in Nat \ {0}
  BY TimeAssumption DEF TimeAssumption
<1>2. PICK day \in Int : day = DayOf(w)
  BY <1>1, Division DEF DayOf
<1>3. PICK c \in 0..(Day - 1) : c = Clock(w) /\ w = day * Day + c
  BY <1>1, <1>2, Division DEF DayOf, Clock
<1>4. PICK x \in Int : x = day * Day
  BY <1>1
<1>5. DayAt(day, x - Day, x) /\ DayAt(day + 1, x, x + Day) /\ Clocks(s, start, end)
  <2>1. (day - 1) * Day = x - Day /\ (day + 1) * Day = x + Day /\ (day + 1 - 1) * Day = x
    BY <1>1, <1>4, DaysAre
  <2>2. x - Day \in Int /\ x + Day \in Int
    BY <1>1
  <2>3. QED
    BY <1>1, <1>4, <2>1, <2>2 DEF DayAt, Clocks
<1>6. w = x + c /\ 0 <= c /\ c < Day /\ c \in Int
  BY <1>1, <1>3, <1>4
<1>7. OwnedAt(s, w, start, end, day, x - Day, x)
  BY <1>5, OwnedIs
<1>8. OwnedAt(s, w, start, end, day + 1, x, x + Day)
  BY <1>5, OwnedIs
<1>9. BoundsAt(s, w, start, end, day, x, c)
  <2>1. c = Clock(w) /\ c \in Int
    BY <1>3, <1>6
  <2>2. QED
    BY <1>2, <1>5, <2>1, BoundsAre
<1>10. \A d : d \in DayOf(w)..(DayOf(w) + 1) <=> d = day \/ d = day + 1
  BY <1>2
<1>11. CASE start < end
  <2>1. TradingDayCode(w, s) = DayCode(day) /\ IntervalBounds(w, s) = <<x + start, x + end>>
    BY <1>9, <1>11 DEF BoundsAt
  <2>2. w \in Owned(s, day) <=> x + start <= w /\ w <= x + end
    BY <1>1, <1>6, <1>7, <1>11 DEF OwnedAt
  <2>3. w \notin Owned(s, day + 1)
    BY <1>1, <1>6, <1>8, <1>11 DEF OwnedAt
  <2>4. QED
    BY <1>10, <2>1, <2>2, <2>3
<1>12. CASE start >= end /\ c >= start
  <2>1. TradingDayCode(w, s) = DayCode(day + 1) /\ IntervalBounds(w, s) = <<x + start, x + end + Day>>
    BY <1>9, <1>12 DEF BoundsAt
  <2>2. w \in Owned(s, day + 1) /\ x + start <= w /\ w <= x + end + Day
    BY <1>1, <1>6, <1>8, <1>12 DEF OwnedAt
  <2>3. w \notin Owned(s, day)
    BY <1>1, <1>6, <1>7, <1>12 DEF OwnedAt
  <2>4. QED
    BY <1>10, <2>1, <2>2, <2>3
<1>13. CASE start >= end /\ c < start
  <2>1. TradingDayCode(w, s) = DayCode(day) /\ IntervalBounds(w, s) = <<x + start - Day, x + end>>
    BY <1>9, <1>13 DEF BoundsAt
  <2>2. w \in Owned(s, day) <=> x + start - Day <= w /\ w <= x + end
    BY <1>1, <1>6, <1>7, <1>13 DEF OwnedAt
  <2>3. w \notin Owned(s, day + 1)
    BY <1>1, <1>6, <1>8, <1>13 DEF OwnedAt
  <2>4. QED
    BY <1>10, <2>1, <2>2, <2>3
<1>14. QED
  BY <1>1, <1>6, <1>11, <1>12, <1>13

\* timefunc.py: the bar's open is in a session as it is declared.
LEMMA SessionsRead == TimeInv => SessionsDeclared
<1> SUFFICES ASSUME TimeInv, NEW s \in Sessions, bars # <<>>
             PROVE  IsTimestampInSession(BarTime, s, feed.zone)
                      <=> \E d \in DayOf(Wall(BarTime, feed.zone))..(DayOf(Wall(BarTime, feed.zone)) + 1) :
                            /\ DayCode(d) \in s.days
                            /\ Wall(BarTime, feed.zone) \in Owned(s, d)
  BY DEF SessionsDeclared, Owned, Window
<1>1. PICK w \in Int : w = Wall(BarTime, feed.zone)
  BY CurrentRead, WallIs DEF TimeInv
<1>2. IsTimestampInSession(BarTime, s, feed.zone) <=>
        /\ TradingDayCode(w, s) \in s.days
        /\ IntervalBounds(w, s)[1] <= w /\ w <= IntervalBounds(w, s)[2]
  BY <1>1 DEF IsTimestampInSession
<1>3. QED
  BY <1>1, <1>2, InSessionIs

-----------------------------------------------------------------------------
(* Buckets *)

IsMonday(m) == m \in Int /\ m % (7 * Day) = 0

\* m is the Monday of the week wall is in.
MondayOf(wall, m) == IsMonday(m) /\ m <= wall /\ wall < m + 7 * Day

ZoneOK(zone) ==
  /\ zone.before \in Int /\ zone.after \in Int /\ zone.at \in Int
  /\ MondayShows(zone)

\* A week has a Monday, the next one is the end of it, and two are a week apart or more.
LEMMA WeekIs ==
  ASSUME NEW wall \in Int
  PROVE  MondayOf(wall, (DayOf(wall) - Weekday(DayOf(wall))) * Day)
<1>1. Day \in Nat \ {0}
  BY TimeAssumption DEF TimeAssumption
<1>2. PICK day \in Int : day = DayOf(wall) /\ day = wall \div Day
  BY <1>1, Division DEF DayOf
<1>3. PICK k \in Int : k = day \div 7
  OBVIOUS
<1>4. (day - (day % 7)) * Day = k * (7 * Day) /\ k * (7 * Day) <= wall /\ wall < k * (7 * Day) + 7 * Day
  BY <1>1, <1>2, <1>3
<1>5. (k * (7 * Day)) % (7 * Day) = 0 /\ k * (7 * Day) \in Int
  BY <1>1
<1>6. (DayOf(wall) - Weekday(DayOf(wall))) * Day = k * (7 * Day)
  BY <1>2, <1>4 DEF Weekday
<1>7. QED
  BY <1>4, <1>5, <1>6 DEF MondayOf, IsMonday

\* Two Mondays are a whole number of weeks apart.
LEMMA MondaysApart ==
  ASSUME NEW a, NEW b, IsMonday(a), IsMonday(b)
  PROVE  /\ IsMonday(a + 7 * Day)
         /\ a < b => a + 7 * Day <= b
<1>1. PICK week \in Nat \ {0} : week = 7 * Day
  BY TimeAssumption DEF TimeAssumption
<1>2. a \in Int /\ b \in Int /\ a % week = 0 /\ b % week = 0
  BY <1>1 DEF IsMonday
<1>3. PICK j \in Int : a = j * week
  <2>1. a \div week \in Int /\ a = (a \div week) * week + (a % week)
    BY <1>1, <1>2, Division
  <2>2. a = (a \div week) * week
    BY <1>1, <1>2, <2>1
  <2>3. QED
    BY <2>1, <2>2
<1>4. PICK k \in Int : b = k * week
  <2>1. b \div week \in Int /\ b = (b \div week) * week + (b % week)
    BY <1>1, <1>2, Division
  <2>2. b = (b \div week) * week
    BY <1>1, <1>2, <2>1
  <2>3. QED
    BY <2>1, <2>2
<1>5. a + week = (j + 1) * week
  BY <1>1, <1>3
<1>6. ((j + 1) * week) % week = 0
  BY <1>1
<1>7. ASSUME a < b PROVE a + week <= b
  <2>1. ~(k <= j)
    <3>1. k <= j => k * week <= j * week
      BY <1>1
    <3>2. QED
      BY <1>2, <1>3, <1>4, <1>7, <3>1
  <2>2. j + 1 <= k
    BY <2>1
  <2>3. (j + 1) * week <= k * week
    BY <1>1, <2>2
  <2>4. QED
    BY <1>4, <1>5, <2>3
<1>8. QED
  BY <1>1, <1>2, <1>5, <1>6, <1>7 DEF IsMonday

\* No change of the zone passes a Monday midnight inside.
LEMMA MondayOutside ==
  ASSUME NEW zone, ZoneOK(zone), NEW m, IsMonday(m)
  PROVE  /\ ~(zone.at + zone.before < m /\ m < zone.at + zone.after)
         /\ ~(zone.at + zone.after < m /\ m < zone.at + zone.before)
<1>1. PICK lo \in Int, hi \in Int : lo = zone.at + zone.before /\ hi = zone.at + zone.after
  BY DEF ZoneOK
<1>2. \A wall \in (lo + 1 .. hi - 1) \cup (hi + 1 .. lo - 1) : wall % (7 * Day) # 0
  BY <1>1 DEF ZoneOK, MondayShows
<1>3. m \in Int /\ m \notin lo + 1 .. hi - 1 /\ m \notin hi + 1 .. lo - 1
  BY <1>2 DEF IsMonday
<1>4. QED
  BY <1>1, <1>3

\* The two readings of a Monday midnight.
UtcIs(m, b, a, at, u) ==
  /\ m \in Int /\ b \in Int /\ a \in Int /\ at \in Int /\ u \in Int
  /\ m - b < at \/ m - a < at => u = m - b
  /\ ~(m - b < at) /\ ~(m - a < at) => u = m - a
  /\ ~(at + b < m /\ m < at + a)
  /\ ~(at + a < m /\ m < at + b)

\* The instant of a Monday midnight is one of the two its zone may give.
LEMMA UtcOfMonday ==
  ASSUME NEW zone, ZoneOK(zone), NEW m, IsMonday(m)
  PROVE  UtcIs(m, zone.before, zone.after, zone.at, Utc(m, zone))
<1>1. m \in Int /\ zone.before \in Int /\ zone.after \in Int /\ zone.at \in Int
  BY DEF ZoneOK, IsMonday
<1>2. Utc(m, zone) \in Int
  BY <1>1 DEF Utc
<1>3. QED
  BY <1>1, <1>2, MondayOutside DEF UtcIs, Utc

\* A week contains the times whose wall clock is in it.
LEMMA WeekContains ==
  ASSUME NEW m, NEW n, NEW b, NEW a, NEW at, NEW u, NEW v,
         UtcIs(m, b, a, at, u), UtcIs(n, b, a, at, v),
         NEW t \in Int, NEW wall, wall = t + (IF t < at THEN b ELSE a), m <= wall, wall < n
  PROVE  u <= t /\ t < v
<1>1. CASE t < at
  BY <1>1 DEF UtcIs
<1>2. CASE ~(t < at)
  BY <1>2 DEF UtcIs
<1>3. QED
  BY <1>1, <1>2

\* Mondays are in the order of their midnights.
LEMMA UtcOrder ==
  ASSUME NEW m, NEW n, NEW b, NEW a, NEW at, NEW u, NEW v,
         UtcIs(m, b, a, at, u), UtcIs(n, b, a, at, v), m <= n
  PROVE  u <= v
BY DEF UtcIs

\* A clock put back does not go back over a Monday.
LEMMA NoWeekAgain ==
  ASSUME NEW m, NEW b, NEW a, NEW at, NEW u, UtcIs(m, b, a, at, u),
         NEW t \in Int, NEW later \in Int, t < later, m <= t + (IF t < at THEN b ELSE a)
  PROVE  m <= later + (IF later < at THEN b ELSE a)
<1>1. CASE later < at
  BY <1>1 DEF UtcIs
<1>2. CASE ~(later < at) /\ t < at
  BY <1>2 DEF UtcIs
<1>3. CASE ~(later < at) /\ ~(t < at)
  BY <1>3 DEF UtcIs
<1>4. QED
  BY <1>1, <1>2, <1>3

\* The Monday of a time, and the bucket that begins on it.
WeekOf(t, zone, m) ==
  /\ MondayOf(Wall(t, zone), m)
  /\ WeeklyBucket(t, zone) = <<Utc(m, zone), Utc(m + 7 * Day, zone)>>

\* The bucket of a time opens on the Monday of its wall clock.
LEMMA WeekOfTime ==
  ASSUME NEW zone, ZoneOK(zone), NEW t \in Int
  PROVE  WeekOf(t, zone, (DayOf(Wall(t, zone)) - Weekday(DayOf(Wall(t, zone)))) * Day)
<1>1. Wall(t, zone) \in Int
  BY DEF ZoneOK, Wall
<1>2. QED
  BY <1>1, WeekIs DEF WeekOf, WeeklyBucket

\* The bucket of a week contains its bar.
LEMMA WeekHolds ==
  ASSUME NEW zone, ZoneOK(zone), NEW t \in Int
  PROVE  /\ WeeklyBucket(t, zone)[1] \in Int /\ WeeklyBucket(t, zone)[2] \in Int
         /\ WeeklyBucket(t, zone)[1] <= t /\ t < WeeklyBucket(t, zone)[2]
<1>1. PICK m : WeekOf(t, zone, m)
  BY WeekOfTime
<1>2. PICK n : n = m + 7 * Day
  OBVIOUS
<1>3. /\ IsMonday(m) /\ m <= Wall(t, zone) /\ Wall(t, zone) < n
      /\ WeeklyBucket(t, zone) = <<Utc(m, zone), Utc(n, zone)>>
  BY <1>1, <1>2 DEF WeekOf, MondayOf
<1>4. IsMonday(n)
  BY <1>2, <1>3, MondaysApart
<1>5. PICK u, v : u = Utc(m, zone) /\ v = Utc(n, zone)
  OBVIOUS
<1>6. /\ UtcIs(m, zone.before, zone.after, zone.at, u)
      /\ UtcIs(n, zone.before, zone.after, zone.at, v)
  BY <1>3, <1>4, <1>5, UtcOfMonday
<1>7. u <= t /\ t < v
  <2>1. PICK wall : wall = Wall(t, zone)
    OBVIOUS
  <2>2. wall = t + (IF t < zone.at THEN zone.before ELSE zone.after) /\ m <= wall /\ wall < n
    BY <1>3, <2>1 DEF Wall
  <2>3. QED
    BY <1>6, <2>2, WeekContains
<1>8. u \in Int /\ v \in Int
  BY <1>6 DEF UtcIs
<1>9. QED
  BY <1>3, <1>5, <1>7, <1>8

\* A later time is in the same week, or in one that opens when the other has closed.
LEMMA WeeksTile ==
  ASSUME NEW zone, ZoneOK(zone), NEW t \in Int, NEW later \in Int, t < later
  PROVE  \/ WeeklyBucket(t, zone) = WeeklyBucket(later, zone)
         \/ WeeklyBucket(t, zone)[2] <= WeeklyBucket(later, zone)[1]
<1>1. PICK m : WeekOf(t, zone, m)
  BY WeekOfTime
<1>2. PICK n : WeekOf(later, zone, n)
  BY WeekOfTime
<1>3. /\ IsMonday(m) /\ m \in Int /\ m <= Wall(t, zone) /\ IsMonday(n) /\ n \in Int
      /\ Wall(later, zone) < n + 7 * Day
      /\ Wall(later, zone) \in Int
  BY <1>1, <1>2 DEF WeekOf, MondayOf, IsMonday, ZoneOK, Wall
<1>4. PICK next : next = m + 7 * Day /\ IsMonday(next)
  BY <1>3, MondaysApart
<1>5. ~(n < m)
  <2> SUFFICES ASSUME n < m PROVE FALSE
    OBVIOUS
  <2>1. n + 7 * Day <= m
    BY <1>3, MondaysApart
  <2>2. UtcIs(m, zone.before, zone.after, zone.at, Utc(m, zone))
    BY <1>3, UtcOfMonday
  <2>3. m <= t + (IF t < zone.at THEN zone.before ELSE zone.after)
    BY <1>3 DEF Wall
  <2>4. m <= later + (IF later < zone.at THEN zone.before ELSE zone.after)
    BY <2>2, <2>3, NoWeekAgain
  <2>5. m <= Wall(later, zone)
    BY <2>4 DEF Wall
  <2>6. n + 7 * Day \in Int
    BY <1>3, TimeAssumption DEF TimeAssumption
  <2>7. QED
    BY <1>3, <2>1, <2>5, <2>6
<1>6. CASE n = m
  BY <1>1, <1>2, <1>6 DEF WeekOf
<1>7. CASE m < n
  <2>1. next <= n
    BY <1>3, <1>4, <1>7, MondaysApart
  <2>2. /\ UtcIs(next, zone.before, zone.after, zone.at, Utc(next, zone))
        /\ UtcIs(n, zone.before, zone.after, zone.at, Utc(n, zone))
    BY <1>3, <1>4, UtcOfMonday
  <2>3. Utc(next, zone) <= Utc(n, zone)
    BY <2>1, <2>2, UtcOrder
  <2>4. WeeklyBucket(t, zone)[2] = Utc(next, zone) /\ WeeklyBucket(later, zone)[1] = Utc(n, zone)
    BY <1>1, <1>2, <1>4 DEF WeekOf
  <2>5. QED
    BY <2>3, <2>4
<1>8. QED
  BY <1>3, <1>5, <1>6, <1>7

\* The bucket of a day contains its bar, and days tile.
LEMMA DayHolds ==
  ASSUME NEW t \in Int
  PROVE  /\ DailyBucket(t)[1] \in Int /\ DailyBucket(t)[2] \in Int
         /\ DailyBucket(t)[1] <= t /\ t < DailyBucket(t)[2]
<1>1. Day \in Nat \ {0}
  BY TimeAssumption DEF TimeAssumption
<1>2. PICK q \in Int : q = t \div Day /\ q * Day <= t /\ t < q * Day + Day
  <2>1. t \div Day \in Int /\ t % Day \in 0..(Day - 1) /\ t = (t \div Day) * Day + (t % Day)
    BY <1>1, Division
  <2>2. QED
    BY <1>1, <2>1
<1>3. q * Day \in Int
  BY <1>1
<1>4. DailyBucket(t) = <<q * Day, q * Day + Day>>
  BY <1>2 DEF DailyBucket
<1>5. QED
  BY <1>1, <1>2, <1>3, <1>4

\* Two times share a day, or the earlier day closes before the later one opens.
LEMMA DaysTile ==
  ASSUME NEW t \in Int, NEW later \in Int, t < later
  PROVE  DailyBucket(t) = DailyBucket(later) \/ DailyBucket(t)[2] <= DailyBucket(later)[1]
<1>1. Day \in Nat \ {0}
  BY TimeAssumption DEF TimeAssumption
<1>2. PICK p \in Int, q \in Int : p = t \div Day /\ q = later \div Day /\ p <= q
  BY <1>1, DivisionMonotone
<1>3. CASE p = q
  BY <1>2, <1>3 DEF DailyBucket
<1>4. CASE p < q
  <2>1. p + 1 <= q
    BY <1>4
  <2>2. (p + 1) * Day <= q * Day
    BY <1>1, <2>1
  <2>3. (p + 1) * Day = p * Day + Day
    BY <1>1
  <2>4. DailyBucket(t)[2] = p * Day + Day /\ DailyBucket(later)[1] = q * Day
    BY <1>2 DEF DailyBucket
  <2>5. QED
    BY <2>2, <2>3, <2>4
<1>5. QED
  BY <1>2, <1>3, <1>4

\* timefunc.py: buckets contain their bars and tile.
LEMMA BucketsRead == TimeInv => BucketsTile
<1> SUFFICES ASSUME TimeInv, bars # <<>> PROVE BucketsTile
  BY DEF BucketsTile
<1>1. PICK n \in Nat : n = Len(bars) /\ n \in 1..Len(bars)
  BY BarsAre DEF TimeInv
<1>2. PICK now \in Nat : now = BarTime
  BY CurrentRead
<1>3. PICK before : before = InUnits(bars[Len(bars) - 1].time)
  OBVIOUS
<1>4. ASSUME Len(bars) > 1 PROVE before \in Nat /\ before < now
  <2>1. n \in 2..n /\ n - 1 \in 1..n
    BY <1>1, <1>4
  <2>2. bars[n - 1].time \in Nat
    BY <1>1, <2>1, BarsAre DEF TimeInv
  <2>3. before \in Nat
    BY <1>1, <1>3, <2>2, UnitsAreNumbers
  <2>4. InUnits(bars[n - 1].time) < InUnits(bars[n].time)
    BY <1>1, <2>1 DEF TimeInv, InOrder
  <2>5. now = InUnits(bars[n].time)
    BY <1>1, <1>2 DEF BarTime, Current
  <2>6. QED
    BY <1>1, <1>3, <2>3, <2>4, <2>5
<1>5. PICK zone : zone = feed.zone /\ ZoneOK(zone)
  BY FeedFacts DEF TimeInv, ZoneOK
<1>6. /\ DailyBucket(now)[1] <= now /\ now < DailyBucket(now)[2]
      /\ Len(bars) > 1 => \/ DailyBucket(before) = DailyBucket(now)
                           \/ DailyBucket(before)[2] <= DailyBucket(now)[1]
  BY <1>4, DayHolds, DaysTile
<1>7. /\ WeeklyBucket(now, zone)[1] <= now /\ now < WeeklyBucket(now, zone)[2]
      /\ Len(bars) > 1 => \/ WeeklyBucket(before, zone) = WeeklyBucket(now, zone)
                           \/ WeeklyBucket(before, zone)[2] <= WeeklyBucket(now, zone)[1]
  BY <1>4, <1>5, WeekHolds, WeeksTile
<1>8. QED
  BY <1>2, <1>3, <1>5, <1>6, <1>7 DEF BucketsTile

-----------------------------------------------------------------------------
(* time and time_close *)

\* timefunc.py: time and time_close agree.
LEMMA TimesRead == TimeInv => TimeAndCloseAgree
<1> SUFFICES ASSUME TimeInv, bars # <<>>, NEW s \in Sessions,
                    NEW tf \in {"none", "chart", "D", "W", "other"}, Time(tf, s) # NA
             PROVE  /\ Time(tf, s) <= BarTime /\ BarTime <= TimeClose(tf, s)
                    /\ tf \in {"none", "chart"} /\ (feed.closes \/ ~feed.fine) =>
                         TimeClose(tf, s) - Time(tf, s) = feed.interval - 1
  BY DEF TimeAndCloseAgree
<1>1. PICK now \in Nat, close \in Nat :
        now = BarTime /\ close = BarTimeClose /\ now <= close
          /\ (ClosesTold => close = now + feed.interval - 1)
  BY CurrentRead
<1>2. feed.interval \in Nat \ {0} /\ NA \notin Int /\ ZoneOK(feed.zone)
  BY FeedFacts, TimeAssumption DEF TimeInv, ZoneOK, TimeAssumption
<1>3. PICK bucket : bucket = HigherTimeframeBucket(tf)
  OBVIOUS
<1>4. \/ bucket = <<>>
      \/ /\ tf \notin {"none", "chart"} /\ bucket # <<>>
         /\ bucket[1] \in Int /\ bucket[2] \in Int /\ bucket[1] <= now /\ now < bucket[2]
  <2>1. CASE tf = "D" /\ feed.interval < Day
    <3>1. bucket = DailyBucket(now)
      BY <1>1, <1>3, <2>1 DEF HigherTimeframeBucket
    <3>2. bucket # <<>>
      BY <3>1 DEF DailyBucket
    <3>3. QED
      BY <2>1, <3>1, <3>2, DayHolds
  <2>2. CASE tf = "W" /\ feed.interval < 7 * Day
    <3>1. bucket = WeeklyBucket(now, feed.zone)
      BY <1>1, <1>3, <2>2 DEF HigherTimeframeBucket
    <3>2. bucket # <<>>
      BY <3>1 DEF WeeklyBucket
    <3>3. QED
      BY <1>2, <2>2, <3>1, <3>2, WeekHolds
  <2>3. CASE ~(tf = "D" /\ feed.interval < Day) /\ ~(tf = "W" /\ feed.interval < 7 * Day)
    BY <1>3, <2>3 DEF HigherTimeframeBucket
  <2>4. QED
    BY <2>1, <2>2, <2>3
<1>5. CASE bucket = <<>>
  <2>1. CASE Supported(tf) /\ BarInSession(s)
    <3>1. Time(tf, s) = now /\ TimeClose(tf, s) = close
      BY <1>1, <1>3, <1>5, <2>1 DEF Time, TimeClose, Told
    <3>2. ClosesTold => close - now = feed.interval - 1
      BY <1>1, <1>2
    <3>3. QED
      BY <1>1, <3>1, <3>2 DEF ClosesTold
  <2>2. CASE ~(Supported(tf) /\ BarInSession(s))
    BY <1>3, <1>5, <2>2 DEF Time, TimeClose, Told
  <2>3. QED
    BY <2>1, <2>2
<1>6. CASE bucket # <<>>
  <2>1. Time(tf, s) = bucket[1] /\ TimeClose(tf, s) = bucket[2]
    BY <1>3, <1>6 DEF Time, TimeClose, Told
  <2>2. bucket[1] # NA /\ bucket[2] # NA /\ bucket[1] <= now /\ now <= bucket[2]
    BY <1>2, <1>4, <1>6
  <2>3. QED
    BY <1>1, <1>4, <1>6, <2>1, <2>2
<1>7. QED
  BY <1>5, <1>6

-----------------------------------------------------------------------------
(* Theorems *)

\* timefunc.py:102-125: in every state the open of the bar is in a session exactly when
\* a trading day the session declares owns it.
THEOREM SessionsCorrect == Spec => []SessionsDeclared
<1>1. QED
  BY TimeInductive, SessionsRead, PTL

\* timefunc.py:236-265: with feeds whose times tell their unit, days and weeks contain
\* their bars and tile the time line, through a change of the zone's offset.
THEOREM BucketsCorrect == Spec => []BucketsTile
<1>1. TimeInv => BucketsTile
  BY BucketsRead
<1>2. QED
  BY <1>1, TimeInductive, PTL

\* timefunc.py:144-190: with such feeds time() and time_close() enclose the bar.
THEOREM TimesCorrect == Spec => []TimeAndCloseAgree
<1>1. TimeInv => TimeAndCloseAgree
  BY TimesRead
<1>2. QED
  BY <1>1, TimeInductive, PTL

\* timefunc.py:128-142: with such feeds, in either unit, change() is true on every bar
\* that opens a day or a week.
THEOREM ChangeCorrect == Spec => []ChangeMissesNone
<1>1. TimeInv => ChangeMissesNone
  BY ChangeRead
<1>2. QED
  BY <1>1, TimeInductive, PTL

=============================================================================
