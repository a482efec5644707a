---------------------------- MODULE IndicatorStates ----------------------------
(***************************************************************************)
(* The states a runtime keeps for its indicators (ta/_impl_core.py,        *)
(* _impl_states.py, _impl_trend.py): each is updated once per call with    *)
(* the current value and answers from running totals and bounded windows.  *)
(* An update maps the state, the bar and the length to the state after it, *)
(* whose out is the answer; Indicators feeds it bar by bar.                *)
(*                                                                         *)
(* Abstractions.  See IndicatorWindows for the numbers.  A bool source, a  *)
(* missing state id, a length that is not positive or not the one the id   *)
(* began with are refused before any state changes and are left out.       *)
(***************************************************************************)
EXTENDS IndicatorWindows

-----------------------------------------------------------------------------
(* Windows of the values that are not na *)

NewWindow == [win |-> <<>>, out |-> NA]

NewSma == [win |-> <<>>, total |-> 0, out |-> NA]

SmaUpdate(s, x, L) ==
  LET dropped == IF Len(s.win) < L THEN 0 ELSE Head(s.win)
      win   == IF x.c = NA THEN s.win ELSE Push(s.win, x.c, L)
      total == IF x.c = NA THEN s.total ELSE s.total + x.c - dropped
  IN  [win |-> win, total |-> total, out |-> IF Len(win) < L THEN NA ELSE Frac(total, L)]

MedianUpdate(s, x, L) ==
  LET win == IF x.c = NA THEN s.win ELSE Push(s.win, x.c, L)
  IN  [win |-> win, out |-> IF Len(win) < L THEN NA ELSE Median(win)]

ModeUpdate(s, x, L) ==
  LET win == IF x.c = NA THEN s.win ELSE Push(s.win, x.c, L)
  IN  [win |-> win, out |-> IF Len(win) < L THEN NA ELSE Mode(win)]

HighestUpdate(s, x, L) ==
  LET win == IF x.c = NA THEN s.win ELSE Push(s.win, x.c, L)
  IN  [win |-> win, out |-> IF win = <<>> THEN NA ELSE Whole(Largest(win))]

LowestUpdate(s, x, L) ==
  LET win == IF x.c = NA THEN s.win ELSE Push(s.win, x.c, L)
  IN  [win |-> win, out |-> IF win = <<>> THEN NA ELSE Whole(Smallest(win))]

ChangeUpdate(s, x, L) ==
  LET win == Push(s.win, x.c, L + 1)
  IN  IF x.c = NA THEN [s EXCEPT !.out = NA]
      ELSE [win |-> win, out |-> IF Len(win) <= L THEN NA ELSE Change(win)]

RocUpdate(s, x, L) ==
  LET win == Push(s.win, x.c, L + 1)
  IN  IF x.c = NA THEN [s EXCEPT !.out = NA]
      ELSE [win |-> win, out |-> IF Len(win) <= L THEN NA ELSE Roc(win)]

NewWma == [win |-> <<>>, total |-> 0, weighted |-> 0, out |-> NA]

\* Mutant: the weighted total loses the total that already has the new value.
WmaSwapped(s, x, L) ==
  LET full  == Len(s.win) >= L
      total == IF full THEN s.total - Head(s.win) + x.c ELSE s.total + x.c
      weighted == IF full THEN s.weighted - total + L * x.c
                  ELSE s.weighted + (Len(s.win) + 1) * x.c
      win   == Push(s.win, x.c, L)
  IN  IF x.c = NA THEN [s EXCEPT !.out = NA]
      ELSE [win |-> win, total |-> total, weighted |-> weighted,
            out |-> IF Len(win) < L THEN NA ELSE Frac(weighted, Triangle(L))]

WmaUpdate(s, x, L) ==
  LET full  == Len(s.win) >= L
      total == IF full THEN s.total - Head(s.win) + x.c ELSE s.total + x.c
      weighted == IF full THEN s.weighted - s.total + L * x.c
                  ELSE s.weighted + (Len(s.win) + 1) * x.c
      win   == Push(s.win, x.c, L)
  IN  IF x.c = NA THEN [s EXCEPT !.out = NA]
      ELSE [win |-> win, total |-> total, weighted |-> weighted,
            out |-> IF Len(win) < L THEN NA ELSE Frac(weighted, Triangle(L))]

NewHma == [halves |-> <<>>, fulls |-> <<>>, results |-> <<>>, out |-> NA]

HmaUpdate(s, x, L) ==
  LET halves == Push(s.halves, x.c, Half(L))
      fulls  == Push(s.fulls, x.c, L)
      ready  == Len(fulls) >= L
      results == IF ready THEN Push(s.results, HmaRaw(halves, fulls), Root(L)) ELSE s.results
  IN  IF x.c = NA THEN [s EXCEPT !.out = NA]
      ELSE [halves |-> halves, fulls |-> fulls, results |-> results,
            out |-> IF ~ready \/ Len(results) < Root(L) THEN NA
                    ELSE HmaSmooth(results, Root(L))]

NewVwma == [win |-> <<>>, vols |-> <<>>, weighted |-> 0, volume |-> 0, out |-> NA]

VwmaUpdate(s, x, L) ==
  LET over == Len(s.win) >= L
      weighted == s.weighted + x.c * x.v - (IF over THEN Head(s.win) * Head(s.vols) ELSE 0)
      volume == s.volume + x.v - (IF over THEN Head(s.vols) ELSE 0)
      win == Push(s.win, x.c, L)
  IN  IF x.c = NA \/ x.v = NA THEN [s EXCEPT !.out = NA]
      ELSE [win |-> win, vols |-> Push(s.vols, x.v, L),
            weighted |-> weighted, volume |-> volume,
            out |-> IF Len(win) < L \/ volume = 0 THEN NA ELSE Frac(weighted, volume)]

NewFlow == [sources |-> <<>>, flows |-> <<>>, pos |-> 0, neg |-> 0, out |-> NA]

\* _SourceMfiState: one source more than flows, both bounded by the length.
MfiUpdate(s, x, L) ==
  LET first == s.sources = <<>>
      flow  == x.c * x.v
      grown == Append(s.sources, x.c)
      flows == IF first THEN <<>> ELSE Append(s.flows, flow)
      over  == Len(grown) > L + 1
      pos == s.pos + (IF ~first /\ x.c > Last(s.sources) THEN flow ELSE 0)
                   - (IF over /\ grown[2] > grown[1] THEN flows[1] ELSE 0)
      neg == s.neg + (IF ~first /\ x.c < Last(s.sources) THEN flow ELSE 0)
                   - (IF over /\ grown[2] < grown[1] THEN flows[1] ELSE 0)
  IN  IF x.c = NA \/ x.v = NA THEN [s EXCEPT !.out = NA]
      ELSE [sources |-> IF over THEN Tail(grown) ELSE grown,
            flows |-> IF over THEN Tail(flows) ELSE flows, pos |-> pos, neg |-> neg,
            out |-> IF Len(grown) <= L THEN NA ELSE FlowIndex(pos, neg)]

NewCmo == [prev |-> NA, changes |-> <<>>, pos |-> 0, neg |-> 0, out |-> NA]

CmoUpdate(s, x, L) ==
  LET change == x.c - s.prev
      over == Len(s.changes) >= L
      AtLeast0(n) == IF n < 0 THEN 0 ELSE n
      grownPos == s.pos + (IF change > 0 THEN change ELSE 0)
      grownNeg == s.neg + (IF change < 0 THEN -change ELSE 0)
      pos == IF over /\ Head(s.changes) > 0 THEN AtLeast0(grownPos - Head(s.changes)) ELSE grownPos
      neg == IF over /\ Head(s.changes) < 0 THEN AtLeast0(grownNeg + Head(s.changes)) ELSE grownNeg
      changes == Push(s.changes, change, L)
  IN  CASE x.c = NA -> [s EXCEPT !.out = NA]
        [] x.c # NA /\ s.prev = NA -> [s EXCEPT !.prev = x.c, !.out = NA]
        [] x.c # NA /\ s.prev # NA ->
             [prev |-> x.c, changes |-> changes, pos |-> pos, neg |-> neg,
              out |-> IF Len(changes) < L \/ pos + neg = 0 THEN NA
                      ELSE Frac(100 * (pos - neg), pos + neg)]

-----------------------------------------------------------------------------
(* Windows that count na *)

NewVariance == [win |-> <<>>, total |-> 0, squares |-> 0, blanks |-> 0, out |-> NA]

VarianceUpdate(s, x, L) ==
  LET Sum(v) == IF v = NA THEN 0 ELSE v
      Count(v) == IF v = NA THEN 1 ELSE 0
      old == IF Len(s.win) < L THEN 0 ELSE Head(s.win)
      win == Push(s.win, x.c, L)
      total == s.total + Sum(x.c) - Sum(old)
      squares == s.squares + Sum(x.c) * Sum(x.c) - Sum(old) * Sum(old)
      blanks == s.blanks + Count(x.c) - Count(old)
  IN  [win |-> win, total |-> total, squares |-> squares, blanks |-> blanks,
       out |-> IF Len(win) < L \/ blanks # 0 THEN NA
               ELSE Frac(L * squares - total * total, L * L)]

CciUpdate(s, x, L) ==
  LET win == Push(s.win, x.c, L)
  IN  [win |-> win, out |-> IF Len(win) < L \/ HasBlank(win) THEN NA ELSE Cci(win)]

NewPair == [lefts |-> <<>>, rights |-> <<>>, out |-> NA]

CorrelationUpdate(s, x, L) ==
  LET xs == Push(s.lefts, x.c, L)
      ys == Push(s.rights, x.v, L)
  IN  [lefts |-> xs, rights |-> ys,
       out |-> IF Len(xs) < L \/ HasBlank(xs) \/ HasBlank(ys) THEN NA
               ELSE Correlation(xs, ys)]

-----------------------------------------------------------------------------
(* Smoothing *)

NewSmooth == [value |-> NA, warm |-> <<>>, out |-> NA]

\* v is a fraction or na; an na repeats the value told before.  next is the
\* smoothed value after v, where there is one to smooth.
Smoothed(s, v, L, next) ==
  LET warm == Append(s.warm, v)
      seed == Div(AddUp(warm), Whole(L))
  IN  CASE v = NA -> [s EXCEPT !.out = s.value]
        [] v # NA /\ s.value # NA -> [value |-> next, warm |-> s.warm, out |-> next]
        [] v # NA /\ s.value = NA /\ Len(warm) < L ->
             [value |-> NA, warm |-> warm, out |-> NA]
        [] v # NA /\ s.value = NA /\ Len(warm) >= L ->
             [value |-> seed, warm |-> warm, out |-> seed]

EmaUpdate(s, v, L) == Smoothed(s, v, L, EmaStep(L, s.value, v))
RmaUpdate(s, v, L) == Smoothed(s, v, L, RmaStep(L, s.value, v))

Lift(v) == IF v = NA THEN NA ELSE Whole(v)

NewRsi == [prev |-> NA, gain |-> NewSmooth, loss |-> NewSmooth, out |-> NA]

RsiUpdate(s, x, L) ==
  LET change == x.c - s.prev
      gain == RmaUpdate(s.gain, Whole(IF change > 0 THEN change ELSE 0), L)
      loss == RmaUpdate(s.loss, Whole(IF change < 0 THEN -change ELSE 0), L)
      Told == CASE gain.out = NA -> NA
                [] gain.out # NA /\ loss.out = Zero ->
                     Whole(IF gain.out = Zero THEN 50 ELSE 100)
                [] gain.out # NA /\ loss.out # Zero ->
                     Sub(Whole(100), Div(Whole(100), Add(Whole(1), Div(gain.out, loss.out))))
  IN  CASE x.c = NA -> [s EXCEPT !.out = NA]
        [] x.c # NA /\ s.prev = NA -> [s EXCEPT !.prev = x.c, !.out = NA]
        [] x.c # NA /\ s.prev # NA ->
             [prev |-> x.c, gain |-> gain, loss |-> loss, out |-> Told]

NewMacd == [fast |-> NewSmooth, slow |-> NewSmooth, signal |-> NewSmooth, out |-> <<NA, NA, NA>>]

\* Lengths L, L + 1 and L; the signal is fed only when both averages are there.
MacdUpdate(s, x, L) ==
  LET fast == EmaUpdate(s.fast, Lift(x.c), L)
      slow == EmaUpdate(s.slow, Lift(x.c), L + 1)
      line == Sub(fast.out, slow.out)
      signal == EmaUpdate(s.signal, line, L)
  IN  IF fast.out = NA \/ slow.out = NA
      THEN [s EXCEPT !.fast = fast, !.slow = slow, !.out = <<NA, NA, NA>>]
      ELSE [fast |-> fast, slow |-> slow, signal |-> signal,
            out |-> <<line, signal.out, IF signal.out = NA THEN NA ELSE Sub(line, signal.out)>>]

NewTsi == [prev |-> NA, count |-> 0, one |-> NA, oneAbs |-> NA, two |-> NA,
           twoAbs |-> NA, out |-> NA]

\* Short length L and long length L + 1; the deques of momenta are never read.
TsiUpdate(s, x, L) ==
  LET momentum == Whole(x.c - s.prev)
      Next1(old, v) == IF old = NA THEN v ELSE EmaStep(L, old, v)
      Next2(old, v) == IF old = NA THEN v ELSE EmaStep(L + 1, old, v)
      one == Next1(s.one, momentum)
      oneAbs == Next1(s.oneAbs, Abs(momentum))
      two == Next2(s.two, one)
      twoAbs == Next2(s.twoAbs, oneAbs)
  IN  CASE x.c = NA -> [s EXCEPT !.out = NA]
        [] x.c # NA /\ s.prev = NA -> [s EXCEPT !.prev = x.c, !.count = 0, !.out = NA]
        [] x.c # NA /\ s.prev # NA /\ s.count < L ->
             [s EXCEPT !.prev = x.c, !.count = @ + 1, !.out = NA]
        [] x.c # NA /\ s.prev # NA /\ s.count >= L ->
             [prev |-> x.c, count |-> s.count + 1,
              one |-> one, oneAbs |-> oneAbs, two |-> two, twoAbs |-> twoAbs,
              out |-> IF twoAbs = Zero THEN NA ELSE Div(two, twoAbs)]

-----------------------------------------------------------------------------
(* Bars: directional movement, trailing stops, sessions, crosses *)

NewDmi == [prev |-> NA, tr |-> NewSmooth, plus |-> NewSmooth, minus |-> NewSmooth,
           dx |-> NewSmooth, out |-> <<NA, NA, NA>>]

\* Both lengths are L; without a range nothing reaches the average of dx.
DmiUpdate(s, x, L) ==
  LET Move(v) == IF s.prev = NA THEN NA ELSE Whole(v)
      tr == RmaUpdate(s.tr, Move(TrueRange(x, s.prev)), L)
      plus == RmaUpdate(s.plus, Move(PlusDm(x, s.prev)), L)
      minus == RmaUpdate(s.minus, Move(MinusDm(x, s.prev)), L)
      plusDi == Div(Mul(Whole(100), plus.out), tr.out)
      minusDi == Div(Mul(Whole(100), minus.out), tr.out)
      both == Add(plusDi, minusDi)
      dx == RmaUpdate(s.dx, IF both = Zero THEN NA
              ELSE Div(Mul(Whole(100), Abs(Sub(plusDi, minusDi))), both), L)
      silent == tr.out = NA \/ tr.out = Zero
  IN  [prev |-> x, tr |-> tr, plus |-> plus, minus |-> minus,
       dx |-> IF silent THEN s.dx ELSE dx,
       out |-> IF silent THEN <<NA, NA, NA>> ELSE <<plusDi, minusDi, dx.out>>]

NewSupertrend == [atr |-> NewSmooth, upper |-> NA, lower |-> NA, line |-> NA,
                  close |-> NA, seen |-> 0, out |-> <<NA, 1>>]

\* Mutant: the bands forget where they were.
BandOfBar(s, bub, blb, pc) == [upper |-> bub, lower |-> blb]

Band(s, bub, blb, pc) ==
  [upper |-> IF s.upper = NA \/ Less(bub, s.upper) \/ Less(s.upper, pc) THEN bub ELSE s.upper,
   lower |-> IF s.lower = NA \/ Less(s.lower, blb) \/ Less(pc, s.lower) THEN blb ELSE s.lower]

\* The factor is 1; direction -1 is a rising trend, on the lower band.
SupertrendUpdate(s, x, L) ==
  LET tr == IF s.close = NA THEN x.h - x.l ELSE TrueRange(x, [c |-> s.close])
      atr == RmaUpdate(s.atr, Whole(tr), L)
      mid == Frac(x.h + x.l, 2)
      pc == Whole(IF s.close = NA THEN x.c ELSE s.close)
      band == Band(s, Add(mid, atr.out), Sub(mid, atr.out), pc)
      up == /\ s.line # NA
            /\ IF s.line = s.upper THEN Less(band.upper, Whole(x.c))
                                   ELSE ~Less(Whole(x.c), band.lower)
      line == IF up THEN band.lower ELSE band.upper
  IN  IF atr.out = NA
      THEN [atr |-> atr, upper |-> s.upper, lower |-> s.lower, line |-> s.line,
            close |-> x.c, seen |-> s.seen + 1,
            out |-> <<IF s.seen = 0 THEN Zero ELSE NA, 1>>]
      ELSE [atr |-> atr, upper |-> band.upper, lower |-> band.lower, line |-> line,
            close |-> x.c, seen |-> s.seen + 1,
            out |-> <<line, IF up THEN -1 ELSE 1>>]

NewSar == [long |-> TRUE, af |-> Zero, ep |-> Zero, sar |-> Zero, first |-> TRUE, out |-> NA]

SarStart == Frac(1, 4)
SarMax == Frac(1, 2)

\* start and increment 1/4, maximum 1/2.
SarUpdate(s, x, L) ==
  LET h == Whole(x.h)
      l == Whole(x.l)
      sar == Add(s.sar, Mul(s.af, Sub(s.ep, s.sar)))
      flips == IF s.long THEN Less(l, sar) ELSE Less(sar, h)
      extends == IF s.long THEN Less(s.ep, h) ELSE Less(l, s.ep)
      Told(t) == [t EXCEPT !.out = t.sar]
  IN  CASE s.first -> [s EXCEPT !.ep = h, !.sar = l, !.first = FALSE, !.af = SarStart]
        [] ~s.first /\ flips ->
             Told([s EXCEPT !.long = ~@, !.sar = s.ep, !.af = SarStart,
                            !.ep = IF s.long THEN l ELSE h])
        [] ~s.first /\ ~flips /\ extends ->
             Told([s EXCEPT !.sar = sar, !.ep = IF s.long THEN h ELSE l,
                            !.af = MinOf(Add(@, SarStart), SarMax)])
        [] ~s.first /\ ~flips /\ ~extends -> Told([s EXCEPT !.sar = sar])

NewVwap == [vol |-> 0, pv |-> 0, day |-> NA, out |-> NA]

VwapUpdate(s, x, L) ==
  LET fresh == s.day # NA /\ s.day # x.day
      vol == (IF fresh THEN 0 ELSE s.vol) + x.v
      pv == (IF fresh THEN 0 ELSE s.pv) + x.c * x.v
  IN  IF x.c = NA \/ x.v = NA THEN [s EXCEPT !.out = NA]
      ELSE [vol |-> vol, pv |-> pv, day |-> x.day,
            out |-> IF vol = 0 THEN NA ELSE Frac(pv, vol)]

NewCross == [left |-> NA, right |-> NA, seen |-> FALSE, out |-> <<FALSE, FALSE>>]

\* pine_lt, pine_lte: a comparison with na is false.
PineLt(a, b) == a # NA /\ b # NA /\ a < b
PineLte(a, b) == a # NA /\ b # NA /\ a <= b

\* crossover and crossunder, a state each with the same two sources.
CrossUpdate(s, x, L) ==
  [left |-> x.c, right |-> x.v, seen |-> TRUE,
   out |-> <<s.seen /\ PineLt(x.v, x.c) /\ PineLte(s.left, s.right),
             s.seen /\ PineLt(x.c, x.v) /\ PineLte(s.right, s.left)>>]

=============================================================================
