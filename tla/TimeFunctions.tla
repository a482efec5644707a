----------------------------- MODULE TimeFunctions -----------------------------
(***************************************************************************)
(* pinelib/core/timefunc.py: sessions, time(), time_close() and change()   *)
(* on the bar a runtime is at, and the buckets of a higher timeframe.      *)
(*                                                                         *)
(* Abstractions.  Time is an integer of units: a day has Day of them, unit *)
(* 0 is midnight of a Monday in UTC.  A zone is one change of its offset;  *)
(* comparing datetimes of one zone compares wall clocks.  A bar time above *)
(* Threshold is in the finer unit of a microsecond feed, Scale to the      *)
(* unit.  Calendar fields, which read the wall clock, and the parsing of   *)
(* session strings and timeframe names are left out.                       *)
(***************************************************************************)
EXTENDS Integers, Sequences

CONSTANTS
  NA,
  Day,          \* units of a day (86_400_000 ms)
  Scale,        \* fine units of a unit (1000)
  Threshold,    \* the largest time that is taken to be in units (10**15)
  Feeds,        \* [interval, fine, closes, zone]: chart timeframe, unit of the
                \* times, whether bars come with their close, exchange zone
  Sessions,     \* [start, end, days]: clock times and the set of day codes
  Jumps,        \* units from one bar to the next
  FirstTimes,   \* times of the first bar
  MaxBars       \* bound on the bars

\* The change of a zone skips no Monday midnight and repeats none.
MondayShows(zone) ==
  \A wall \in (zone.at + zone.before + 1 .. zone.at + zone.after - 1)
                \cup (zone.at + zone.after + 1 .. zone.at + zone.before - 1) :
    wall % (7 * Day) # 0

ASSUME TimeAssumption ==
  /\ Day \in Nat \ {0} /\ Scale \in Nat \ {0} /\ Threshold \in Nat
  /\ NA \notin Int
  /\ \A f \in Feeds :
       /\ f.interval \in Nat \ {0} /\ f.fine \in BOOLEAN /\ f.closes \in BOOLEAN
       /\ f.zone \in [before : Int, after : Int, at : Int] /\ MondayShows(f.zone)
  /\ Sessions \subseteq [start : 0..(Day - 1), end : 0..(Day - 1), days : SUBSET (1..7)]
  /\ FirstTimes \subseteq Nat /\ Jumps \subseteq Nat \ {0}

VARIABLES
  feed,
  bars,         \* chart_bars: [time, close] as stored
  index,        \* bar_index
  live          \* a bar is begun and not ended

timeVars == <<feed, bars, index, live>>

-----------------------------------------------------------------------------
(* Wall clocks *)

\* datetime.fromtimestamp(ts, zone)
Wall(t, zone) == t + (IF t < zone.at THEN zone.before ELSE zone.after)

\* datetime.timestamp() of a wall clock time with fold 0: the first of two
\* readings, and the offset before the change for one that never shows.
Utc(wall, zone) ==
  IF wall - zone.before < zone.at \/ wall - zone.after < zone.at
  THEN wall - zone.before ELSE wall - zone.after

Clock(wall) == wall % Day
DayOf(wall) == wall \div Day
Weekday(day) == day % 7                     \* Monday is 0
DayCode(day) == ((day + 1) % 7) + 1         \* Sunday is 1

-----------------------------------------------------------------------------
(* Sessions *)

IsOvernight(s) == s.start >= s.end

IntervalBounds(wall, s) ==
  LET day == DayOf(wall) * Day
  IN  CASE ~IsOvernight(s) -> <<day + s.start, day + s.end>>
        [] IsOvernight(s) /\ Clock(wall) >= s.start -> <<day + s.start, day + s.end + Day>>
        [] IsOvernight(s) /\ Clock(wall) < s.start -> <<day + s.start - Day, day + s.end>>

\* Mutant: an evening belongs to the day it begins on.
CalendarDay(wall, s) == DayCode(DayOf(wall))

TradingDayCode(wall, s) ==
  DayCode(IF IsOvernight(s) /\ Clock(wall) >= s.start THEN DayOf(wall) + 1 ELSE DayOf(wall))

IsTimestampInSession(t, s, zone) ==
  LET wall == Wall(t, zone)
      bounds == IntervalBounds(wall, s)
  IN  TradingDayCode(wall, s) \in s.days /\ bounds[1] <= wall /\ wall <= bounds[2]

-----------------------------------------------------------------------------
(* The bar the runtime is at *)

Current == bars[Len(bars)]

InUnits(t) == IF t > Threshold THEN t \div Scale ELSE t

BarTime == InUnits(Current.time)

\* Mutant: the close is not brought to the unit of the open.
BarTimeCloseAsStored == Current.close

BarTimeClose == InUnits(Current.close)

BarInSession(s) ==
  /\ IsTimestampInSession(BarTime, s, feed.zone)
  /\ feed.interval # Day => IsTimestampInSession(BarTimeClose, s, feed.zone)

DailyBucket(t) == <<(t \div Day) * Day, (t \div Day) * Day + Day>>

\* Mutant: a week always lasts seven days of UTC.
WeeklyBucketFixed(t, zone) ==
  LET day == DayOf(Wall(t, zone))
      open == Utc((day - Weekday(day)) * Day, zone)
  IN  <<open, open + 7 * Day>>

WeeklyBucket(t, zone) ==
  LET day == DayOf(Wall(t, zone))
      week == (day - Weekday(day)) * Day
  IN  <<Utc(week, zone), Utc(week + 7 * Day, zone)>>

\* tf: "none", "chart", "D", "W" or a timeframe that is not supported.
HigherTimeframeBucket(tf) ==
  CASE tf = "D" /\ feed.interval < Day -> DailyBucket(BarTime)
    [] tf = "W" /\ feed.interval < 7 * Day -> WeeklyBucket(BarTime, feed.zone)
    [] OTHER -> <<>>

Supported(tf) == tf \in {"none", "chart"} \/ (tf = "D" /\ feed.interval = Day)

\* time() and time_close(): the side of the bucket, or the bar's own time.
Told(tf, s, side, own) ==
  LET bucket == HigherTimeframeBucket(tf)
  IN  CASE bucket # <<>> -> bucket[side]
        [] bucket = <<>> /\ Supported(tf) /\ BarInSession(s) -> own
        [] bucket = <<>> /\ ~(Supported(tf) /\ BarInSession(s)) -> NA

Time(tf, s) == Told(tf, s, 1, BarTime)
TimeClose(tf, s) == Told(tf, s, 2, BarTimeClose)

\* Mutant: the bar is compared with itself.
ChangeFromItself(ms) ==
  \/ index <= 0
  \/ bars[index + 2].time \div ms # Current.time \div ms

\* chart_bars[bar_index - 1], where bar_index counts the bars that have ended: two
\* bars back while a bar is open.  The times are divided as stored, in either unit.
Change(ms) ==
  \/ index <= 0
  \/ bars[index].time \div ms # Current.time \div ms

-----------------------------------------------------------------------------

Init ==
  /\ feed \in Feeds
  /\ bars = <<>>
  /\ index = -1
  /\ live = FALSE

\* The provider's close is the last unit of the bar.  A bar without one gets its
\* close in units, also where its time is in the fine unit.
Stored(t) ==
  LET time == IF feed.fine THEN t * Scale ELSE t
      close == IF feed.fine /\ feed.closes THEN (t + feed.interval - 1) * Scale
                                          ELSE time + feed.interval - 1
  IN  [time |-> time, close |-> close]

\* A bound on the feeds: the times in the fine unit are above the threshold, as
\* microseconds are from September 2001 on, and the others are not.
TellsUnit(t) ==
  IF feed.fine THEN t * Scale > Threshold ELSE t + feed.interval - 1 <= Threshold

BeginBar(t) ==
  /\ ~live /\ Len(bars) < MaxBars
  /\ TellsUnit(t)
  /\ bars' = Append(bars, Stored(t))
  /\ live' = TRUE
  /\ UNCHANGED <<feed, index>>

EndBar ==
  /\ live
  /\ index' = index + 1
  /\ live' = FALSE
  /\ UNCHANGED <<feed, bars>>

NextTimes == IF bars = <<>> THEN FirstTimes ELSE {BarTime + j : j \in Jumps}

Next == (\E t \in NextTimes : BeginBar(t)) \/ EndBar

Spec == Init /\ [][Next]_timeVars

-----------------------------------------------------------------------------
(* Properties *)

\* A bar's open is in a session exactly when it lies in the window of a trading
\* day the session declares; an overnight window belongs to the day it ends on.
\* Both ends count, but a round-the-clock session hands its end to the next day.
SessionsDeclared ==
  \A s \in Sessions : bars # <<>> =>
    LET wall == Wall(BarTime, feed.zone)
        Window(d) == IF IsOvernight(s) THEN (d - 1) * Day + s.start .. d * Day + s.end
                                       ELSE d * Day + s.start .. d * Day + s.end
        Owned(d) == IF s.start = s.end THEN Window(d) \ {d * Day + s.end} ELSE Window(d)
    IN  IsTimestampInSession(BarTime, s, feed.zone)
          <=> \E d \in DayOf(wall)..(DayOf(wall) + 1) :
                DayCode(d) \in s.days /\ wall \in Owned(d)

\* The buckets of a day or a week contain their bar and tile the time line: the
\* next bar is in the same bucket or in one that opens at or after its close,
\* also in the weeks in which the zone changes its offset.
BucketsTile ==
  LET Before == InUnits(bars[Len(bars) - 1].time)
      Tiles(Bucket(_)) ==
        LET now == Bucket(BarTime)
        IN  /\ now[1] <= BarTime /\ BarTime < now[2]
            /\ Len(bars) > 1 => Bucket(Before) = now \/ Bucket(Before)[2] <= now[1]
  IN  bars # <<>> =>
        /\ Tiles(DailyBucket)
        /\ Tiles(LAMBDA t : WeeklyBucket(t, feed.zone))

\* Where time() answers, time_close() does, and the two enclose the bar.  On the
\* chart's own timeframe they are its open and its last unit, whichever unit the
\* feed uses; not so where a close is inferred in units for a time in the fine one.
TimeAndCloseAgree ==
  \A s \in Sessions, tf \in {"none", "chart", "D", "W", "other"} :
    bars # <<>> /\ Time(tf, s) # NA =>
      /\ Time(tf, s) <= BarTime /\ BarTime <= TimeClose(tf, s)
      /\ tf \in {"none", "chart"} /\ (feed.closes \/ ~feed.fine) =>
           TimeClose(tf, s) - Time(tf, s) = feed.interval - 1

\* change() misses no new day and no new week: while a bar is open it is true if the
\* bar before lies in an earlier one, though it compares with the bar two back, and
\* in a fine feed by buckets a Scale-th as long.  It is true on other bars as well.
ChangeMissesNone ==
  \A ms \in {Day, 7 * Day} : live /\ Len(bars) > 1 =>
    (BarTime \div ms # InUnits(bars[Len(bars) - 1].time) \div ms => Change(ms))

=============================================================================
