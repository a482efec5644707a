---------------------------- MODULE IndicatorWindows ----------------------------
(***************************************************************************)
(* What the indicators of pinelib/ta compute, from the values of a window, *)
(* oldest first: the batch and history branches of ta/_impl_core.py,       *)
(* _impl_statistics.py, _impl_stats2.py, _impl_trend.py, _impl_channels.py *)
(* and _impl_momentum.py.  The state classes that a runtime keeps instead  *)
(* are in IndicatorStates.                                                 *)
(*                                                                         *)
(* Abstractions.  Floats are exact fractions, so rounding and the drift of *)
(* running totals are left out.  A standard deviation is its variance and  *)
(* a correlation its covariance and product of variances: no square root.  *)
(***************************************************************************)
EXTENDS Fractions, FiniteSets

Triangle(n) == (n * (n + 1)) \div 2

(* Averages and ranks of one window *)

Sma(win) == Frac(Total(win), Len(win))

Wma(win) == Frac(Weighted(win), Triangle(Len(win)))

\* The k-th value of the sorted window.
Ranked(win, k) ==
  CHOOSE v \in ToSet(win) : /\ Cardinality({i \in 1..Len(win) : win[i] < v}) < k
                            /\ k <= Cardinality({i \in 1..Len(win) : win[i] <= v})

Median(win) ==
  LET mid == Len(win) \div 2
  IN  IF Len(win) % 2 = 0 THEN Frac(Ranked(win, mid) + Ranked(win, mid + 1), 2)
                          ELSE Whole(Ranked(win, mid + 1))

\* The most frequent value, the first such in the window.
Mode(win) ==
  LET Count(i) == Cardinality({j \in 1..Len(win) : win[j] = win[i]})
      first == CHOOSE i \in 1..Len(win) : \A j \in 1..Len(win) :
                 Count(j) < Count(i) \/ (Count(j) = Count(i) /\ i <= j)
  IN  Whole(win[first])

Swma(win) == Frac(win[1] + 2 * win[2] + 2 * win[3] + win[4], 6)

PercentRank(win) ==
  Frac(100 * Cardinality({i \in 1..Len(win) : win[i] <= win[Len(win)]}), Len(win))

NearestRank(win, percentage) ==
  LET known == Clean(win)
      n     == Len(known)
      rank  == (percentage * n + 99) \div 100
  IN  IF n = 0 THEN NA
      ELSE Whole(Ranked(known, IF rank < 1 THEN 1 ELSE IF rank > n THEN n ELSE rank))

(* Spread of one window *)

Dot(xs, ys) == Total([i \in 1..Len(xs) |-> xs[i] * ys[i]])

\* n times the distance of every value from the mean.
Deviations(win) == [i \in 1..Len(win) |-> Len(win) * win[i] - Total(win)]

Variance(win, biased) ==
  LET n == Len(win)
      d == Deviations(win)
  IN  IF ~biased /\ n <= 1 THEN NA
      ELSE Frac(Dot(d, d), n * n * (IF biased THEN n ELSE n - 1))

Dev(win) ==
  LET d == Deviations(win)
  IN  Frac(Total([i \in 1..Len(win) |-> Magnitude(d[i])]), Len(win) * Len(win))

Cci(win) ==
  IF Dev(win) = Zero THEN NA
  ELSE Div(Frac(Deviations(win)[Len(win)], Len(win)), Mul(Frac(3, 200), Dev(win)))

Correlation(xs, ys) ==
  LET dx == Deviations(xs)
      dy == Deviations(ys)
  IN  IF Dot(dx, dx) = 0 \/ Dot(dy, dy) = 0 THEN NA
      ELSE <<Dot(dx, dy), Dot(dx, dx) * Dot(dy, dy)>>

(* Volume *)

Vwma(xs, vols) == IF Total(vols) = 0 THEN NA ELSE Frac(Dot(xs, vols), Total(vols))

\* The flow of a window whose first bar is the one before it.
Flow(xs, vols, rises) ==
  Total([i \in 1..(Len(xs) - 1) |->
    IF (rises /\ xs[i + 1] > xs[i]) \/ (~rises /\ xs[i + 1] < xs[i])
    THEN xs[i + 1] * vols[i + 1] ELSE 0])

\* What a rising and a falling flow come to, on the scale of 100.
FlowIndex(pos, neg) ==
  IF neg = 0 THEN Whole(100)
  ELSE Sub(Whole(100), Div(Whole(100), Add(Whole(1), Frac(pos, neg))))

Mfi(xs, vols) == FlowIndex(Flow(xs, vols, TRUE), Flow(xs, vols, FALSE))

(* Changes *)

Change(win) == Whole(win[Len(win)] - win[1])

Roc(win) ==
  IF win[1] = 0 THEN NA ELSE Frac(100 * (win[Len(win)] - win[1]), win[1])

Differences(win) == [i \in 1..(Len(win) - 1) |-> win[i + 1] - win[i]]

Cmo(win) ==
  LET d   == Differences(win)
      all == Total([i \in 1..Len(d) |-> Magnitude(d[i])])
  IN  IF all = 0 THEN NA ELSE Frac(100 * Total(d), all)

Stoch(close, highs, lows) ==
  LET hi == Largest(highs)
      lo == Smallest(lows)
  IN  IF hi = lo THEN NA ELSE Frac(100 * (close - lo), hi - lo)

(* Pivots.  A batch marks the centre, a runtime tells it rightbars later. *)

IsPivot(win, left, high) ==
  LET centre == win[left + 1]
  IN  /\ ~HasBlank(win)
      /\ \A i \in 1..Len(win) : IF high THEN win[i] <= centre ELSE centre <= win[i]

PivotBatch(seq, index, left, right, high) ==
  IF index <= left \/ index + right > Len(seq) THEN NA
  ELSE LET win == SubSeq(seq, index - left, index + right)
       IN  IF IsPivot(win, left, high) THEN Whole(seq[index]) ELSE NA

\* source[offset] on the last bar of seq, na before the first bar.
Back(seq, offset) == IF offset < Len(seq) THEN seq[Len(seq) - offset] ELSE NA

\* Mutant: the centre is taken one bar too late.
PivotLate(seq, left, right, high) ==
  LET vals == [i \in 1..(left + right + 1) |-> Back(seq, left + right + 1 - i)]
  IN  IF Back(seq, right) = NA \/ ~IsPivot(vals, left + 1, high) THEN NA
      ELSE Whole(Back(seq, right))

Pivot(seq, left, right, high) ==
  LET vals == [i \in 1..(left + right + 1) |-> Back(seq, left + right + 1 - i)]
  IN  IF Back(seq, right) = NA \/ ~IsPivot(vals, left, high) THEN NA
      ELSE Whole(Back(seq, right))

(* Smoothing over all values so far: a seed of the first n, then one step each *)

Seed(seq, n) == Div(AddUp(SubSeq(seq, 1, n)), Whole(n))

EmaStep(n, value, x) == Add(Mul(Frac(2, n + 1), x), Mul(Frac(n - 1, n + 1), value))
RmaStep(n, value, x) == Div(Add(Mul(Whole(n - 1), value), x), Whole(n))

\* smoothed: [len, value], an average and the length it is taken with.
EmaNext(smoothed, x) == [smoothed EXCEPT !.value = EmaStep(smoothed.len, @, x)]
RmaNext(smoothed, x) == [smoothed EXCEPT !.value = RmaStep(smoothed.len, @, x)]

Ema(seq, n) ==
  IF Len(seq) < n THEN NA
  ELSE FoldLeft(EmaNext, [len |-> n, value |-> Seed(seq, n)],
                SubSeq(seq, n + 1, Len(seq))).value

Rma(seq, n) ==
  IF Len(seq) < n THEN NA
  ELSE FoldLeft(RmaNext, [len |-> n, value |-> Seed(seq, n)],
                SubSeq(seq, n + 1, Len(seq))).value

\* The average begun at the first value.
EmaFrom(seq, n) == FoldLeft(EmaNext, [len |-> n, value |-> Head(seq)], Tail(seq)).value

Wholes(seq) == [i \in 1..Len(seq) |-> Whole(seq[i])]

Half(n) == IF n < 2 THEN 1 ELSE n \div 2
Root(n) == CHOOSE r \in 1..n : r * r <= n /\ n < (r + 1) * (r + 1)

HmaRaw(halves, fulls) == Sub(Mul(Whole(2), Wma(halves)), Wma(fulls))

HmaSmooth(raws, root) ==
  Div(AddUp([i \in 1..Len(raws) |-> Mul(Whole(i), raws[i])]),
      Whole(Triangle(root)))

\* The raw values from the first full window on.
HmaRaws(seq, n) ==
  [i \in 1..(IF Len(seq) < n THEN 0 ELSE Len(seq) - n + 1) |->
     LET s == SubSeq(seq, 1, n + i - 1) IN HmaRaw(LastN(s, Half(n)), LastN(s, n))]

Hma(seq, n) ==
  IF Len(HmaRaws(seq, n)) < Root(n) THEN NA
  ELSE HmaSmooth(LastN(HmaRaws(seq, n), Root(n)), Root(n))

\* Of a series with na: the line is told on every bar, an na repeats it.
MacdLine(s, fast, slow) ==
  IF Len(s) < slow \/ Len(s) < fast THEN NA ELSE Sub(Ema(s, fast), Ema(s, slow))

MacdLines(seq, fast, slow) ==
  [i \in 1..Len(seq) |-> MacdLine(Wholes(Clean(SubSeq(seq, 1, i))), fast, slow)]

Macd(seq, fast, slow, signal) ==
  LET told == Clean(MacdLines(seq, fast, slow))
      sig == Ema(told, signal)
  IN  IF told = <<>> THEN <<NA, NA, NA>>
      ELSE <<Last(told), sig, IF sig = NA THEN NA ELSE Sub(Last(told), sig)>>

(* Directional movement: the batch branch of dmi *)

\* Mutant: a gap from the close before is left out.
TrueRangeOfBar(b, p) == b.h - b.l

TrueRange(b, p) ==
  Largest(<<b.h - b.l, Magnitude(b.h - p.c), Magnitude(b.l - p.c)>>)

PlusDm(b, p) == IF b.h - p.h > p.l - b.l /\ b.h > p.h THEN b.h - p.h ELSE 0
MinusDm(b, p) == IF p.l - b.l > b.h - p.h /\ p.l > b.l THEN p.l - b.l ELSE 0

\* A move per bar but the first.
Moves(bars, Op(_, _)) == [i \in 1..(Len(bars) - 1) |-> Whole(Op(bars[i + 1], bars[i]))]

\* The smoothed moves on the last bar.
Moved(bars, length) ==
  [tr |-> Rma(Moves(bars, TrueRange), length),
   plus |-> Rma(Moves(bars, PlusDm), length),
   minus |-> Rma(Moves(bars, MinusDm), length)]

Silent(a) == a.tr = NA \/ a.tr = Zero
Di(a, side) == Div(Mul(Whole(100), side), a.tr)

Dx(a) ==
  LET both == Add(Di(a, a.plus), Di(a, a.minus))
  IN  IF Silent(a) THEN NA
      ELSE IF both = Zero THEN NA
      ELSE Div(Mul(Whole(100), Abs(Sub(Di(a, a.plus), Di(a, a.minus)))), both)

Dxs(bars, length) == [n \in 1..Len(bars) |-> Dx(Moved(SubSeq(bars, 1, n), length))]

Dmi(bars, length, smoothing) ==
  LET now == Moved(bars, length)
      adx == Rma(Clean(Dxs(bars, length)), smoothing)
  IN  CASE Len(bars) < 2 -> <<NA, NA, NA>>
        [] Len(bars) >= 2 /\ Silent(now) -> <<NA, NA, adx>>
        [] Len(bars) >= 2 /\ ~Silent(now) -> <<Di(now, now.plus), Di(now, now.minus), adx>>

=============================================================================
