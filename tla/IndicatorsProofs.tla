--------------------------- MODULE IndicatorsProofs ---------------------------
(***************************************************************************)
(* Proofs about Indicators, for every value of its constants: every        *)
(* helper, every length and every run of bars, with na anywhere.           *)
(*                                                                         *)
(* StateIsDefinition says nothing of what a state holds besides its answer *)
(* and is not inductive.  KeptInv is: the state is what Kept restates from *)
(* the bars so far.  The first part shows, helper by helper, that a bar    *)
(* more keeps it so; then come the pivots, the trailing stops, which need  *)
(* an invariant of their own (SarSound, TrendSound), and the ranges, which *)
(* follow from the definitions once the answers are known to be them.      *)
(***************************************************************************)
EXTENDS IndicatorLemmas

-----------------------------------------------------------------------------
(* Weighing by volume *)

LEMMA WindowFull ==
  ASSUME NEW T, NEW r \in Seq(T), NEW L \in Nat \ {0}, NEW z, z = Recent(r, L)
  PROVE  /\ Len(r) < L => Len(z) < L
         /\ ~(Len(r) < L) => ~(Len(z) < L) /\ z = LastN(r, L)
<1>1. /\ Len(r) < L <=> Len(z) < L
      /\ Len(r) >= L => z = LastN(r, L)
  BY WindowIs
<1>2. Len(r) < L \/ Len(r) >= L
  OBVIOUS
<1>3. QED
  BY <1>1, <1>2

LEMMA VwmaStep ==
  ASSUME NA \notin Int, NEW B, NEW t \in Seq(TradesOf(B)), NEW L \in Nat \ {0}, NEW x, NEW o
  PROVE  /\ x.c = NA \/ x.v = NA => VwmaUpdate(VwmaKept(t, L, o), x, L) = VwmaKept(t, L, NA)
         /\ x \in TradesOf(B) => VwmaUpdate(VwmaKept(t, L, o), x, L)
                                   = VwmaKept(Ext(t, x), L, Over(Ext(t, x), L, VwmaOfBars))
<1>1. PICK w, a, u, d, v : /\ w = Recent(t, L) /\ a = Closes(w) /\ u = Volumes(w)
                           /\ d = Dot(a, u) /\ v = Total(u)
  OBVIOUS
<1>2. VwmaKept(t, L, o) = [win |-> a, vols |-> u, weighted |-> d, volume |-> v, out |-> o]
  BY <1>1 DEF VwmaKept
<1>3. ASSUME x.c = NA \/ x.v = NA
      PROVE  VwmaUpdate(VwmaKept(t, L, o), x, L) = VwmaKept(t, L, NA)
  BY <1>1, <1>2, <1>3 DEF VwmaKept, VwmaUpdate
<1>4. ASSUME x \in TradesOf(B)
      PROVE  VwmaUpdate(VwmaKept(t, L, o), x, L)
               = VwmaKept(Ext(t, x), L, Over(Ext(t, x), L, VwmaOfBars))
  <2> DEFINE T == TradesOf(B)
  <2>1. x.c \in Int /\ x.v \in Int
    BY <1>4 DEF TradesOf
  <2>2. PICK fc \in Maps(T, Int), fv \in Maps(T, Int), fp \in Maps(T, Int) :
          /\ \A b \in T : fc[b] = b.c /\ fv[b] = b.v /\ fp[b] = b.c * b.v
          /\ \A s \in Seq(T) : /\ Closes(s) = Mapped(fc, s) /\ Volumes(s) = Mapped(fv, s)
                               /\ Dot(Closes(s), Volumes(s)) = Total(Mapped(fp, s))
    BY TradeMaps
  <2> HIDE DEF T
  <2>3. x \in T
    BY <1>4 DEF T
  <2>4. t \in Seq(T)
    BY DEF T
  <2>5. PICK r \in Seq(T), z \in Seq(T) : /\ r = Ext(t, x) /\ z = Recent(r, L) /\ z = Push(w, x, L)
                                          /\ w \in Seq(T) /\ Len(w) <= L
    BY <1>1, <2>3, <2>4, WindowPush
  <2>6. PICK a2, u2, d2, v2 : a2 = Closes(z) /\ u2 = Volumes(z) /\ d2 = Dot(a2, u2) /\ v2 = Total(u2)
    OBVIOUS
  <2>7. a2 = Push(a, x.c, L) /\ u2 = Push(u, x.v, L)
    <3>1. Mapped(fc, z) = Push(Mapped(fc, w), fc[x], L) /\ Mapped(fv, z) = Push(Mapped(fv, w), fv[x], L)
      BY <2>3, <2>5, MappedPush
    <3>2. QED
      BY <1>1, <2>2, <2>3, <2>5, <2>6, <3>1
  <2>8. d = Total(Mapped(fp, w)) /\ v = Total(Mapped(fv, w))
        /\ d2 = Total(Mapped(fp, z)) /\ v2 = Total(Mapped(fv, z))
    BY <1>1, <2>2, <2>5, <2>6
  <2>9. Len(a) = Len(w) /\ Len(a2) = Len(z)
    BY <1>1, <2>6 DEF Closes
  <2>10. d \in Int /\ v \in Int /\ fp[x] = x.c * x.v /\ fv[x] = x.v
    BY <2>2, <2>3, <2>5, <2>8, MappedTotalPush
  <2>11. ASSUME Len(w) < L
         PROVE  d2 = d + x.c * x.v - 0 /\ v2 = v + x.v - 0
    <3>1. /\ Total(Mapped(fp, z)) = Total(Mapped(fp, w)) + fp[x]
          /\ Total(Mapped(fv, z)) = Total(Mapped(fv, w)) + fv[x]
      BY <2>3, <2>5, <2>11, MappedTotalPush
    <3>2. PICK k \in Int : k = x.c * x.v
      BY <2>1
    <3>3. QED
      BY <2>1, <2>8, <2>10, <3>1, <3>2
  <2>12. ASSUME Len(w) >= L
         PROVE  /\ d2 = d + x.c * x.v - Head(a) * Head(u) /\ v2 = v + x.v - Head(u)
    <3>1. /\ w # <<>> /\ First(w) \in T
          /\ Total(Mapped(fp, z)) = Total(Mapped(fp, w)) + fp[x] - fp[First(w)]
          /\ Total(Mapped(fv, z)) = Total(Mapped(fv, w)) + fv[x] - fv[First(w)]
      BY <2>3, <2>5, <2>12, MappedTotalPush
    <3>2. First(Mapped(fc, w)) = fc[First(w)] /\ First(Mapped(fv, w)) = fv[First(w)]
      BY <2>5, <3>1, MappedFirst
    <3>3. Head(a) = fc[First(w)] /\ Head(u) = fv[First(w)]
      BY <1>1, <2>2, <2>5, <3>2 DEF First
    <3>4. fp[First(w)] = fc[First(w)] * fv[First(w)]
      BY <2>2, <3>1
    <3>5. PICK k \in Int : k = x.c * x.v
      BY <2>1
    <3>6. PICK m : m = Head(a) * Head(u)
      OBVIOUS
    <3>7. QED
      BY <2>1, <2>8, <2>10, <3>1, <3>3, <3>4, <3>5, <3>6
  <2>13. PICK over, dd, vv : /\ over = (Len(a) >= L)
                             /\ dd = d + x.c * x.v - (IF Len(a) >= L THEN Head(a) * Head(u) ELSE 0)
                             /\ vv = v + x.v - (IF Len(a) >= L THEN Head(u) ELSE 0)
    OBVIOUS
  <2>14. dd = d2 /\ vv = v2
    <3>1. Len(w) < L \/ Len(w) >= L
      BY <2>5
    <3>2. Len(w) < L => ~(Len(w) >= L)
      BY <2>5
    <3>3. QED
      BY <2>9, <2>11, <2>12, <2>13, <3>1, <3>2
  <2>15. x.c # NA /\ x.v # NA
    BY <2>1
  <2>16. VwmaUpdate([win |-> a, vols |-> u, weighted |-> d, volume |-> v, out |-> o], x, L)
           = [win |-> a2, vols |-> u2, weighted |-> dd, volume |-> vv,
              out |-> IF Len(a2) < L \/ vv = 0 THEN NA ELSE Frac(dd, vv)]
    BY <2>7, <2>13, <2>15 DEF VwmaUpdate
  <2>17. Over(r, L, VwmaOfBars) = IF Len(a2) < L \/ v2 = 0 THEN NA ELSE Frac(d2, v2)
    <3>1. CASE Len(r) < L
      <4>1. Len(z) < L
        BY <2>5, <3>1, WindowIs
      <4>2. QED
        BY <2>9, <3>1, <4>1 DEF Over
    <3>2. CASE ~(Len(r) < L)
      <4>1. ~(Len(z) < L) /\ z = LastN(r, L)
        BY <2>5, <3>2, WindowFull
      <4>2. Over(r, L, VwmaOfBars) = VwmaOfBars(z)
        BY <3>2, <4>1 DEF Over
      <4>3. VwmaOfBars(z) = IF v2 = 0 THEN NA ELSE Frac(d2, v2)
        BY <2>6 DEF VwmaOfBars, Vwma
      <4>4. QED
        BY <2>9, <4>1, <4>2, <4>3
    <3>3. QED
      BY <3>1, <3>2
  <2>18. \A e : VwmaKept(r, L, e) = [win |-> a2, vols |-> u2, weighted |-> d2, volume |-> v2, out |-> e]
    BY <2>5, <2>6 DEF VwmaKept
  <2>19. PICK e : e = Over(r, L, VwmaOfBars)
    OBVIOUS
  <2>20. VwmaUpdate(VwmaKept(t, L, o), x, L) = VwmaKept(r, L, e)
    BY <1>2, <2>14, <2>16, <2>17, <2>18, <2>19
  <2>21. QED
    BY <2>5, <2>19, <2>20
<1>5. QED
  BY <1>3, <1>4

-----------------------------------------------------------------------------
(* Two series *)

LEMMA CrossStep ==
  ASSUME NEW B, NEW bars \in Seq(B), NEW x \in B, NEW L, NEW o
  PROVE  CrossUpdate(CrossKept(bars, o), x, L) = CrossKept(Ext(bars, x), Cross(Ext(bars, x)))
<1>1. PICK n \in Nat : n = Len(bars)
  OBVIOUS
<1>2. PICK r \in Seq(B) : /\ r = Ext(bars, x) /\ Len(r) = n + 1 /\ r[n + 1] = x
                          /\ \A i \in 1..n : r[i] = bars[i]
  <2>1. /\ Ext(bars, x) \in Seq(B) /\ Len(Ext(bars, x)) = n + 1 /\ Ext(bars, x)[n + 1] = x
        /\ \A i \in 1..n : Ext(bars, x)[i] = bars[i]
    BY <1>1 DEF Ext
  <2>2. QED
    BY <2>1
<1>3. LastOf(Closes(r)) = x.c /\ LastOf(Volumes(r)) = x.v /\ r # <<>>
  <2>1. /\ Closes(r) = [i \in 1..(n + 1) |-> r[i].c] /\ Len(Closes(r)) = n + 1
        /\ Volumes(r) = [i \in 1..(n + 1) |-> r[i].v] /\ Len(Volumes(r)) = n + 1
    BY <1>2 DEF Closes, Volumes
  <2>2. n + 1 \in 1..(n + 1)
    OBVIOUS
  <2>3. Closes(r)[n + 1] = x.c /\ Volumes(r)[n + 1] = x.v
    BY <1>2, <2>1, <2>2
  <2>4. Closes(r) # <<>> /\ Volumes(r) # <<>> /\ r # <<>>
    <3>1. Len(<<>>) = 0 /\ n + 1 # 0
      OBVIOUS
    <3>2. QED
      BY <1>2, <2>1, <3>1
  <2>5. QED
    BY <2>1, <2>3, <2>4 DEF LastOf
<1>4. CASE bars = <<>>
  <2>1. n = 0 /\ Len(r) < 2
    BY <1>1, <1>2, <1>4
  <2>2. Cross(r) = <<FALSE, FALSE>>
    BY <2>1 DEF Cross
  <2>3. CrossUpdate(CrossKept(bars, o), x, L)
          = [left |-> x.c, right |-> x.v, seen |-> TRUE, out |-> <<FALSE, FALSE>>]
    <3>1. CrossKept(bars, o).seen = FALSE
      BY <1>4 DEF CrossKept
    <3>2. QED
      BY <3>1, Zenon DEF CrossUpdate
  <2>4. QED
    BY <1>2, <1>3, <2>2, <2>3 DEF CrossKept
<1>5. CASE bars # <<>>
  <2>1. n >= 1 /\ ~(Len(r) < 2) /\ Len(r) - 1 = n /\ Len(r) = n + 1 /\ r[n] = bars[n]
    BY <1>1, <1>2, <1>5
  <2>2. PICK p, q : p = bars[n].c /\ q = bars[n].v
    OBVIOUS
  <2>3. LastOf(Closes(bars)) = p /\ LastOf(Volumes(bars)) = q
    <3>1. /\ Closes(bars) = [i \in 1..n |-> bars[i].c] /\ Len(Closes(bars)) = n
          /\ Volumes(bars) = [i \in 1..n |-> bars[i].v] /\ Len(Volumes(bars)) = n
      BY <1>1 DEF Closes, Volumes
    <3>2. n \in 1..n
      BY <2>1
    <3>3. Closes(bars)[n] = p /\ Volumes(bars)[n] = q
      BY <2>2, <3>1, <3>2
    <3>4. Closes(bars) # <<>> /\ Volumes(bars) # <<>>
      BY <2>1, <3>1
    <3>5. QED
      BY <3>1, <3>3, <3>4 DEF LastOf
  <2>4. Cross(r) = <<PineLt(x.v, x.c) /\ PineLte(p, q), PineLt(x.c, x.v) /\ PineLte(q, p)>>
    BY <1>2, <2>1, <2>2 DEF Cross
  <2>5. PICK k : k = CrossKept(bars, o)
    OBVIOUS
  <2> DEFINE R == [left |-> p, right |-> q, seen |-> TRUE, out |-> o]
  <2>51. k = R
    BY <1>5, <2>3, <2>5 DEF CrossKept
  <2>52. k.left = p /\ k.right = q /\ k.seen = TRUE
    BY <2>51
  <2>6. CrossUpdate(k, x, L)
          = [left |-> x.c, right |-> x.v, seen |-> TRUE,
             out |-> <<PineLt(x.v, x.c) /\ PineLte(p, q), PineLt(x.c, x.v) /\ PineLte(q, p)>>]
    BY <2>52 DEF CrossUpdate
  <2>7. QED
    BY <1>2, <1>3, <2>4, <2>5, <2>6 DEF CrossKept
<1>6. QED
  BY <1>4, <1>5

LEMMA CorrelationStep ==
  ASSUME NEW B, NEW bars \in Seq(B), NEW x \in B, NEW L \in Nat \ {0}, NEW o
  PROVE  CorrelationUpdate(PairKept(bars, L, o), x, L)
           = PairKept(Ext(bars, x), L, CorrelationOfBars(Ext(bars, x), L))
<1>1. PICK r \in Seq(B) : r = Ext(bars, x)
  BY ExtIs
<1> DEFINE C == {b.c : b \in B}
           V == {b.v : b \in B}
<1>2. ASSUME NEW s \in Seq(B)
      PROVE  /\ Closes(s) \in Seq(C) /\ Len(Closes(s)) = Len(s)
             /\ Volumes(s) \in Seq(V) /\ Len(Volumes(s)) = Len(s)
  <2>1. \A i \in 1..Len(s) : s[i].c \in C /\ s[i].v \in V
    OBVIOUS
  <2> HIDE DEF C, V
  <2>2. QED
    BY <2>1 DEF Closes, Volumes
<1>3. x.c \in C /\ x.v \in V
  OBVIOUS
<1> HIDE DEF C, V
<1>4. PICK cs \in Seq(C), vs \in Seq(V) : cs = Closes(bars) /\ vs = Volumes(bars)
  BY <1>2
<1>5. PICK cr \in Seq(C), vr \in Seq(V) :
        /\ cr = Closes(r) /\ vr = Volumes(r) /\ Len(cr) = Len(r) /\ Len(vr) = Len(r)
        /\ cr = Ext(cs, x.c) /\ vr = Ext(vs, x.v)
  BY <1>1, <1>2, <1>4, ClosesExt, VolumesExt
<1>6. PICK p, q : p = Recent(cr, L) /\ q = Recent(vr, L)
  OBVIOUS
<1>7. Push(Recent(cs, L), x.c, L) = p
  BY <1>3, <1>5, <1>6, RecentPush
<1>8. Push(Recent(vs, L), x.v, L) = q
  BY <1>3, <1>5, <1>6, RecentPush
<1>9. Len(p) < L <=> Len(r) < L
  BY <1>5, <1>6, WindowIs
<1>10. Len(r) < L \/ (p = LastN(cr, L) /\ q = LastN(vr, L))
  <2>1. Len(r) < L \/ Len(r) >= L
    OBVIOUS
  <2>2. Len(cr) >= L => p = LastN(cr, L)
    BY <1>6, WindowIs
  <2>3. Len(vr) >= L => q = LastN(vr, L)
    BY <1>6, WindowIs
  <2>4. QED
    BY <1>5, <2>1, <2>2, <2>3
<1>11. PICK k : k = PairKept(bars, L, o)
  OBVIOUS
<1>15. k = [lefts |-> Recent(cs, L), rights |-> Recent(vs, L), out |-> o]
  BY <1>4, <1>11 DEF PairKept
<1>16. k.lefts = Recent(cs, L) /\ k.rights = Recent(vs, L)
  BY <1>15
<1>12. CorrelationUpdate(k, x, L)
         = [lefts |-> p, rights |-> q,
            out |-> IF Len(p) < L \/ HasBlank(p) \/ HasBlank(q) THEN NA ELSE Correlation(p, q)]
  BY <1>7, <1>8, <1>16 DEF CorrelationUpdate
<1>13. CorrelationOfBars(r, L)
         = IF Len(p) < L \/ HasBlank(p) \/ HasBlank(q) THEN NA ELSE Correlation(p, q)
  <2>1. CASE Len(r) < L
    BY <1>9, <2>1 DEF CorrelationOfBars
  <2>2. CASE ~(Len(r) < L)
    BY <1>5, <1>9, <1>10, <2>2 DEF CorrelationOfBars
  <2>3. QED
    BY <2>1, <2>2
<1>14. QED
  BY <1>1, <1>5, <1>6, <1>11, <1>12, <1>13 DEF PairKept

-----------------------------------------------------------------------------
(* Momentum *)

ChangeParts(up, down, size) ==
  \A v \in Int : /\ v > 0 => up[v] = v /\ down[v] = 0 /\ size[v] = v
                 /\ v < 0 => up[v] = 0 /\ down[v] = -v /\ size[v] = -v
                 /\ v = 0 => up[v] = 0 /\ down[v] = 0 /\ size[v] = 0

\* Rising and falling parts, which make up a sum and its magnitudes.
LEMMA ChangeMaps ==
  \E up, down, size \in Maps(Int, Int) :
    /\ ChangeParts(up, down, size)
    /\ \A s \in Seq(Int) : /\ Rises(s) = Mapped(up, s) /\ Falls(s) = Mapped(down, s)
                           /\ [i \in 1..Len(s) |-> Magnitude(s[i])] = Mapped(size, s)
<1>1. PICK up \in Maps(Int, Int) : up = [v \in Int |-> IF v > 0 THEN v ELSE 0]
  <2>1. [v \in Int |-> IF v > 0 THEN v ELSE 0] \in [Int -> Int]
    OBVIOUS
  <2>2. QED
    BY <2>1 DEF Maps
<1>2. PICK down \in Maps(Int, Int) : down = [v \in Int |-> IF v < 0 THEN -v ELSE 0]
  <2>1. [v \in Int |-> IF v < 0 THEN -v ELSE 0] \in [Int -> Int]
    OBVIOUS
  <2>2. QED
    BY <2>1 DEF Maps
<1>3. PICK size \in Maps(Int, Int) : size = [v \in Int |-> Magnitude(v)]
  <2>1. [v \in Int |-> Magnitude(v)] \in [Int -> Int]
    BY DEF Magnitude
  <2>2. QED
    BY <2>1 DEF Maps
<1>4. ChangeParts(up, down, size)
  BY <1>1, <1>2, <1>3 DEF Magnitude, ChangeParts
<1>5. ASSUME NEW s \in Seq(Int)
      PROVE  /\ Rises(s) = Mapped(up, s) /\ Falls(s) = Mapped(down, s)
             /\ [i \in 1..Len(s) |-> Magnitude(s[i])] = Mapped(size, s)
  <2>1. \A i \in 1..Len(s) : s[i] \in Int
    OBVIOUS
  <2>2. Rises(s) = Mapped(up, s)
    BY <1>1, <2>1 DEF Rises, Mapped
  <2>3. Falls(s) = Mapped(down, s)
    BY <1>2, <2>1 DEF Falls, Mapped
  <2>4. [i \in 1..Len(s) |-> Magnitude(s[i])] = Mapped(size, s)
    BY <1>3, <2>1 DEF Mapped
  <2>5. QED
    BY <2>2, <2>3, <2>4
<1>6. QED
  BY <1>4, <1>5

LEMMA MappedEmpty ==
  ASSUME NEW f
  PROVE  Mapped(f, <<>>) = <<>>
BY DEF Mapped

LEMMA ChangeTotals ==
  ASSUME NEW s \in Seq(Int), NEW up \in Maps(Int, Int), NEW down \in Maps(Int, Int),
         NEW size \in Maps(Int, Int),
         ChangeParts(up, down, size)
  PROVE  /\ Total(Mapped(up, s)) \in Nat /\ Total(Mapped(down, s)) \in Nat
         /\ Total(s) = Total(Mapped(up, s)) - Total(Mapped(down, s))
         /\ Total(Mapped(size, s)) = Total(Mapped(up, s)) + Total(Mapped(down, s))
<1> DEFINE S == {r \in Seq(Int) :
                   /\ Total(Mapped(up, r)) \in Nat /\ Total(Mapped(down, r)) \in Nat
                   /\ Total(r) = Total(Mapped(up, r)) - Total(Mapped(down, r))
                   /\ Total(Mapped(size, r)) = Total(Mapped(up, r)) + Total(Mapped(down, r))}
<1>1. <<>> \in S
  <2>1. <<>> \in Seq(Int)
    OBVIOUS
  <2>2. QED
    BY <2>1, MappedEmpty, TotalEmpty
<1>2. ASSUME NEW r \in Seq(Int), NEW e \in Int, r \in S PROVE Ext(r, e) \in S
  <2>1. Ext(r, e) \in Seq(Int)
    BY DEF Ext
  <2>2. ASSUME NEW f \in Maps(Int, Int)
        PROVE  /\ Total(Mapped(f, Ext(r, e))) = Total(Mapped(f, r)) + f[e]
               /\ Total(Mapped(f, r)) \in Int /\ f[e] \in Int
    <3>1. Mapped(f, r) \in Seq(Int)
      BY MappedIs
    <3>2. f[e] \in Int /\ Mapped(f, Ext(r, e)) = Ext(Mapped(f, r), f[e])
      BY MappedExt
    <3>3. Total(Ext(Mapped(f, r), f[e])) = Total(Mapped(f, r)) + f[e]
      BY <3>1, <3>2, TotalAppend
    <3>4. Total(Mapped(f, r)) \in Int
      BY <3>1, TotalInt
    <3>5. QED
      BY <3>2, <3>3, <3>4
  <2>3. Total(Ext(r, e)) = Total(r) + e
    BY TotalAppend
  <2>4. /\ Total(Mapped(up, r)) \in Nat /\ Total(Mapped(down, r)) \in Nat
        /\ Total(r) = Total(Mapped(up, r)) - Total(Mapped(down, r))
        /\ Total(Mapped(size, r)) = Total(Mapped(up, r)) + Total(Mapped(down, r))
    BY <1>2
  <2>5. PICK a \in Nat, b \in Nat, t \in Int, c \in Int : /\ a = Total(Mapped(up, r)) /\ b = Total(Mapped(down, r))
                                          /\ t = Total(r) /\ c = Total(Mapped(size, r))
                                          /\ t = a - b /\ c = a + b
    BY <2>4
  <2>6. PICK a2, b2, t2, c2 :
          /\ a2 = Total(Mapped(up, Ext(r, e))) /\ b2 = Total(Mapped(down, Ext(r, e)))
          /\ t2 = Total(Ext(r, e)) /\ c2 = Total(Mapped(size, Ext(r, e)))
    OBVIOUS
  <2>7. a2 = a + up[e] /\ b2 = b + down[e] /\ t2 = t + e /\ c2 = c + size[e]
    BY <2>2, <2>3, <2>5, <2>6
  <2>71. PICK p \in Int, q \in Int, z \in Int : p = up[e] /\ q = down[e] /\ z = size[e]
    BY <2>2
  <2>72. /\ e > 0 => p = e /\ q = 0 /\ z = e
         /\ e < 0 => p = 0 /\ q = -e /\ z = -e
         /\ e = 0 => p = 0 /\ q = 0 /\ z = 0
    BY <2>71 DEF ChangeParts
  <2>8. a2 \in Nat /\ b2 \in Nat /\ t2 = a2 - b2 /\ c2 = a2 + b2
    <3>1. a2 = a + p /\ b2 = b + q /\ t2 = t + e /\ c2 = c + z
      BY <2>7, <2>71
    <3>2. t = a - b /\ c = a + b
      BY <2>5
    <3>3. CASE e > 0
      BY <2>72, <3>1, <3>2, <3>3
    <3>4. CASE e < 0
      BY <2>72, <3>1, <3>2, <3>4
    <3>5. CASE e = 0
      BY <2>72, <3>1, <3>2, <3>5
    <3>6. QED
      BY <3>3, <3>4, <3>5
  <2>9. QED
    BY <2>1, <2>6, <2>8
<1>3. Seq(Int) \subseteq S
  <2> HIDE DEF S
  <2> QED
    BY <1>1, <1>2, SeqInduction
<1>4. QED
  BY <1>3

LEMMA DifferencesLast ==
  ASSUME NEW s \in Seq(Int), NEW n \in Nat \ {0}
  PROVE  /\ Len(s) >= n + 1 => /\ Differences(LastN(s, n + 1)) = Recent(Differences(s), n)
                               /\ Len(Recent(Differences(s), n)) = n
         /\ s # <<>> /\ Len(s) < n + 1 => Len(Recent(Differences(s), n)) < n
         /\ s = <<>> => Len(Recent(Differences(s), n)) < n
<1>1. Differences(s) \in Seq(Int)
  BY DifferencesExt
<1>2. /\ s = <<>> => Differences(s) = <<>>
      /\ s # <<>> => Len(Differences(s)) = Len(s) - 1
  BY DifferencesExt
<1>3. PICK d \in Seq(Int), e \in Seq(Int) : d = Differences(s) /\ e = Recent(d, n)
  BY <1>1, WindowIs
<1>4. /\ Len(d) < n => Len(e) < n
      /\ Len(d) >= n => Len(e) = n
      /\ \A i \in 1..Len(e) : e[i] = d[Len(d) - Len(e) + i]
  <2>1. /\ Len(d) < n <=> Len(e) < n
        /\ Len(d) >= n => Len(e) = n
    BY <1>3, WindowIs
  <2>2. \A i \in 1..Len(e) : e[i] = d[Len(d) - Len(e) + i]
    <3>1. n \in Nat
      OBVIOUS
    <3>2. QED
      BY <1>3, <3>1, RecentIs
  <2>3. QED
    BY <2>1, <2>2
<1>5. CASE s = <<>>
  <2>1. Len(d) = 0
    BY <1>2, <1>3, <1>5
  <2>2. Len(s) = 0
    BY <1>5
  <2>3. QED
    BY <1>3, <1>4, <1>5, <2>1, <2>2
<1>6. CASE s # <<>> /\ Len(s) < n + 1
  <2>1. Len(d) < n /\ ~(Len(s) >= n + 1)
    BY <1>2, <1>3, <1>6
  <2>2. QED
    BY <1>3, <1>4, <1>6, <2>1
<1>7. CASE s # <<>> /\ Len(s) >= n + 1
  <2>1. PICK m \in Nat : m = Len(s) /\ Len(d) = m - 1 /\ m - 1 >= n /\ m >= n + 1
    BY <1>2, <1>3, <1>7
  <2>2. Len(e) = n /\ \A i \in 1..n : e[i] = d[m - 1 - n + i]
    BY <1>4, <2>1
  <2>3. n + 1 \in Nat /\ n + 1 <= Len(s)
    BY <2>1
  <2>4. PICK w \in Seq(Int) : w = LastN(s, n + 1) /\ Len(w) = n + 1
                              /\ \A i \in 1..(n + 1) : w[i] = s[m - (n + 1) + i]
    <3>1. /\ LastN(s, n + 1) \in Seq(Int) /\ Len(LastN(s, n + 1)) = n + 1
          /\ \A i \in 1..(n + 1) : LastN(s, n + 1)[i] = s[Len(s) - (n + 1) + i]
      BY <2>3, LastNIs
    <3>2. QED
      BY <2>1, <3>1
  <2>5. PICK f \in Seq(Int) : f = Differences(w) /\ Len(f) = n
    <3>1. w # <<>>
      BY <2>4
    <3>2. Differences(w) \in Seq(Int) /\ Len(Differences(w)) = Len(w) - 1
      BY <3>1, DifferencesExt
    <3>3. QED
      BY <2>4, <3>2
  <2>6. ASSUME NEW i \in 1..n PROVE f[i] = e[i]
    <3>1. f[i] = w[i + 1] - w[i]
      BY <2>4, <2>5 DEF Differences
    <3>2. i \in 1..(n + 1) /\ i + 1 \in 1..(n + 1) /\ m - 1 - n + i \in 1..(m - 1)
      BY <2>1
    <3>3. w[i + 1] = s[m - (n + 1) + (i + 1)] /\ w[i] = s[m - (n + 1) + i]
      BY <2>4, <3>2
    <3>4. PICK j \in 1..(m - 1) : j = m - 1 - n + i
      BY <3>2
    <3>5. m - (n + 1) + (i + 1) = j + 1 /\ m - (n + 1) + i = j
      BY <3>4
    <3>6. e[i] = d[j]
      BY <2>2, <3>4
    <3>7. d[j] = s[j + 1] - s[j]
      BY <1>3, <2>1, <3>4 DEF Differences
    <3>8. QED
      BY <3>1, <3>3, <3>5, <3>6, <3>7
  <2>7. f = e
    BY <2>2, <2>5, <2>6, SeqEqual
  <2>8. QED
    BY <1>3, <1>7, <2>1, <2>2, <2>4, <2>5, <2>7
<1>8. QED
  BY <1>5, <1>6, <1>7

CmoAt(q, L) == Over(q, L + 1, Cmo)

LEMMA CmoOver ==
  ASSUME NEW r \in Seq(Int), r # <<>>, NEW L \in Nat \ {0}, NEW d, NEW p, NEW n,
         d = Recent(Differences(r), L), p = Total(Rises(d)), n = Total(Falls(d))
  PROVE  /\ p \in Nat /\ n \in Nat
         /\ Len(d) < L \/ p + n = 0 => CmoAt(r, L) = NA
         /\ ~(Len(d) < L) /\ p + n # 0 => CmoAt(r, L) = Frac(100 * (p - n), p + n)
<1>1. PICK up \in Maps(Int, Int), down \in Maps(Int, Int), size \in Maps(Int, Int) :
        /\ ChangeParts(up, down, size)
        /\ \A s \in Seq(Int) : /\ Rises(s) = Mapped(up, s) /\ Falls(s) = Mapped(down, s)
                               /\ [i \in 1..Len(s) |-> Magnitude(s[i])] = Mapped(size, s)
  BY ChangeMaps
<1>2. d \in Seq(Int)
  <2>1. Differences(r) \in Seq(Int)
    BY DifferencesExt
  <2>2. QED
    BY <2>1, WindowIs
<1>3. p = Total(Mapped(up, d)) /\ n = Total(Mapped(down, d))
  BY <1>1, <1>2
<1>4. p \in Nat /\ n \in Nat /\ Total(d) = p - n /\ Total(Mapped(size, d)) = p + n
  <2>1. ChangeParts(up, down, size)
    BY <1>1
  <2>2. QED
    BY <1>2, <1>3, <2>1, ChangeTotals
<1>5. CASE Len(r) < L + 1
  <2>1. Len(d) < L
    BY <1>5, DifferencesLast
  <2>2. CmoAt(r, L) = NA
    BY <1>5 DEF Over, CmoAt
  <2>3. QED
    BY <1>4, <2>1, <2>2
<1>6. CASE ~(Len(r) < L + 1)
  <2>1. Len(r) >= L + 1
    BY <1>6
  <2>2. Differences(LastN(r, L + 1)) = d /\ Len(d) = L
    BY <2>1, DifferencesLast
  <2>3. ~(Len(d) < L)
    BY <2>2
  <2>4. CmoAt(r, L) = Cmo(LastN(r, L + 1))
    BY <1>6 DEF Over, CmoAt
  <2>5. Total([i \in 1..Len(d) |-> Magnitude(d[i])]) = p + n
    BY <1>1, <1>2, <1>4
  <2>6. Cmo(LastN(r, L + 1)) = IF p + n = 0 THEN NA ELSE Frac(100 * (p - n), p + n)
    BY <1>4, <2>2, <2>5 DEF Cmo
  <2>7. QED
    BY <1>4, <2>3, <2>4, <2>6
<1>7. QED
  BY <1>5, <1>6

\* The totals of rises and falls follow the window of changes.
LEMMA CmoTotals ==
  ASSUME NEW d \in Seq(Int), NEW e \in Int, NEW L \in Nat \ {0}, Len(d) <= L, NEW d2,
         d2 = Push(d, e, L)
  PROVE  /\ Total(Rises(d2))
              = LET all == Total(Rises(d)) + (IF e > 0 THEN e ELSE 0)
                IN  IF Len(d) >= L /\ First(d) > 0
                    THEN IF all - First(d) < 0 THEN 0 ELSE all - First(d)
                    ELSE all
         /\ Total(Falls(d2))
              = LET all == Total(Falls(d)) + (IF e < 0 THEN -e ELSE 0)
                IN  IF Len(d) >= L /\ First(d) < 0
                    THEN IF all + First(d) < 0 THEN 0 ELSE all + First(d)
                    ELSE all
<1>1. PICK up \in Maps(Int, Int), down \in Maps(Int, Int), size \in Maps(Int, Int) :
        /\ ChangeParts(up, down, size)
        /\ \A s \in Seq(Int) : /\ Rises(s) = Mapped(up, s) /\ Falls(s) = Mapped(down, s)
                               /\ [i \in 1..Len(s) |-> Magnitude(s[i])] = Mapped(size, s)
  BY ChangeMaps
<1>2. d2 \in Seq(Int)
  BY PushIs
<1>3. ChangeParts(up, down, size)
  BY <1>1
<1>4. PICK p \in Int, n \in Int, p2 \in Nat, n2 \in Nat :
        /\ p = Total(Rises(d)) /\ n = Total(Falls(d))
        /\ p2 = Total(Rises(d2)) /\ n2 = Total(Falls(d2))
        /\ p = Total(Mapped(up, d)) /\ n = Total(Mapped(down, d))
        /\ p2 = Total(Mapped(up, d2)) /\ n2 = Total(Mapped(down, d2))
  <2>1. Total(Mapped(up, d)) \in Nat /\ Total(Mapped(down, d)) \in Nat
    BY <1>3, ChangeTotals
  <2>2. Total(Mapped(up, d2)) \in Nat /\ Total(Mapped(down, d2)) \in Nat
    BY <1>2, <1>3, ChangeTotals
  <2>3. /\ Rises(d) = Mapped(up, d) /\ Falls(d) = Mapped(down, d)
        /\ Rises(d2) = Mapped(up, d2) /\ Falls(d2) = Mapped(down, d2)
    BY <1>1, <1>2
  <2>4. QED
    BY <2>1, <2>2, <2>3
<1>5. PICK ue \in Int, ne \in Int : /\ ue = up[e] /\ ne = down[e]
                                    /\ ue = (IF e > 0 THEN e ELSE 0) /\ ne = (IF e < 0 THEN -e ELSE 0)
  <2>1. e > 0 \/ e < 0 \/ e = 0
    OBVIOUS
  <2>2. QED
    BY <1>3, <2>1 DEF ChangeParts
<1>6. CASE Len(d) < L
  <2>1. p2 = p + ue /\ n2 = n + ne
    <3>1. /\ Total(Mapped(up, d2)) = Total(Mapped(up, d)) + up[e]
          /\ Total(Mapped(down, d2)) = Total(Mapped(down, d)) + down[e]
      BY <1>6, MappedTotalPush
    <3>2. QED
      BY <1>4, <1>5, <3>1
  <2>2. ~(Len(d) >= L)
    BY <1>6
  <2>3. QED
    BY <1>4, <1>5, <2>1, <2>2
<1>7. CASE Len(d) >= L
  <2>1. /\ First(d) \in Int
        /\ Total(Mapped(up, d2)) = Total(Mapped(up, d)) + up[e] - up[First(d)]
        /\ Total(Mapped(down, d2)) = Total(Mapped(down, d)) + down[e] - down[First(d)]
    <3>0. First(d) \in Int
      <4>1. d # <<>>
        BY <1>7
      <4>2. QED
        BY <4>1, RestIs
    <3>1. ASSUME NEW f \in Maps(Int, Int)
          PROVE  Total(Mapped(f, Push(d, e, L))) = Total(Mapped(f, d)) + f[e] - f[First(d)]
      <4>1. PICK T : T = Int
        OBVIOUS
      <4>2. f \in Maps(T, Int) /\ d \in Seq(T) /\ e \in T
        BY <4>1
      <4>3. QED
        BY <1>7, <4>2, MappedTotalPush
    <3>2. QED
      BY <3>0, <3>1
  <2>2. PICK h \in Int, uh \in Int, nh \in Int :
          /\ h = First(d) /\ uh = up[h] /\ nh = down[h]
          /\ uh = (IF h > 0 THEN h ELSE 0) /\ nh = (IF h < 0 THEN -h ELSE 0)
    <3>1. First(d) > 0 \/ First(d) < 0 \/ First(d) = 0
      BY <2>1
    <3>2. QED
      BY <1>3, <2>1, <3>1 DEF ChangeParts
  <2>3. p2 = p + ue - uh /\ n2 = n + ne - nh
    BY <1>4, <1>5, <2>1, <2>2
  <2>4. /\ p2 = IF h > 0 THEN IF p + ue - h < 0 THEN 0 ELSE p + ue - h ELSE p + ue
        /\ n2 = IF h < 0 THEN IF n + ne + h < 0 THEN 0 ELSE n + ne + h ELSE n + ne
    BY <2>2, <2>3
  <2>5. QED
    BY <1>4, <1>5, <1>7, <2>2, <2>4
<1>8. QED
  BY <1>6, <1>7

LEMMA CmoStep ==
  ASSUME NA \notin Int, NEW q \in Seq(Int), NEW L \in Nat \ {0}, NEW x, NEW o
  PROVE  /\ x.c = NA => CmoUpdate(CmoKept(q, L, o), x, L) = CmoKept(q, L, NA)
         /\ x.c \in Int => CmoUpdate(CmoKept(q, L, o), x, L)
                             = CmoKept(Ext(q, x.c), L, CmoAt(Ext(q, x.c), L))
<1>1. PICK l, d, p, n : /\ l = LastOf(q) /\ d = Recent(Differences(q), L)
                        /\ p = Total(Rises(d)) /\ n = Total(Falls(d))
  OBVIOUS
<1>2. CmoKept(q, L, o) = [prev |-> l, changes |-> d, pos |-> p, neg |-> n, out |-> o]
  BY <1>1 DEF CmoKept
<1>3. ASSUME x.c = NA
      PROVE  CmoUpdate(CmoKept(q, L, o), x, L) = CmoKept(q, L, NA)
  BY <1>1, <1>2, <1>3 DEF CmoKept, CmoUpdate
<1>4. ASSUME x.c \in Int
      PROVE  CmoUpdate(CmoKept(q, L, o), x, L)
               = CmoKept(Ext(q, x.c), L, CmoAt(Ext(q, x.c), L))
  <2>1. PICK c \in Int : c = x.c /\ c # NA
    BY <1>4
  <2>2. PICK r \in Seq(Int) : r = Ext(q, c) /\ r # <<>> /\ LastOf(r) = c
    <3>1. Ext(q, c) \in Seq(Int) /\ Ext(q, c) # <<>>
      BY DEF Ext
    <3>2. QED
      BY <3>1, LastOfExt
  <2>3. PICK d2, p2, n2, e : /\ d2 = Recent(Differences(r), L) /\ e = CmoAt(r, L)
                             /\ p2 = Total(Rises(d2)) /\ n2 = Total(Falls(d2))
    OBVIOUS
  <2>4. p2 \in Nat /\ n2 \in Nat
        /\ e = IF Len(d2) < L \/ p2 + n2 = 0 THEN NA ELSE Frac(100 * (p2 - n2), p2 + n2)
    <3>1. r # <<>>
      BY <2>2
    <3>2. QED
      BY <2>3, <3>1, CmoOver
  <2>5. CmoKept(r, L, e) = [prev |-> c, changes |-> d2, pos |-> p2, neg |-> n2, out |-> e]
    BY <2>2, <2>3 DEF CmoKept
  <2>6. CASE q = <<>>
    <3>1. Differences(q) = <<>> /\ Differences(r) = <<>>
      BY <2>2, <2>6, DifferencesExt
    <3>2. d2 = <<>> /\ d = <<>> /\ l = NA
      BY <1>1, <2>3, <2>6, <3>1 DEF Recent, LastOf
    <3>3. e = NA /\ p2 = p /\ n2 = n
      BY <1>1, <2>3, <2>4, <3>2
    <3>4. CmoUpdate([prev |-> l, changes |-> d, pos |-> p, neg |-> n, out |-> o], x, L)
            = [prev |-> c, changes |-> d, pos |-> p, neg |-> n, out |-> NA]
      BY <2>1, <3>2 DEF CmoUpdate
    <3>5. QED
      BY <1>2, <2>1, <2>2, <2>3, <2>5, <3>2, <3>3, <3>4
  <2>7. CASE q # <<>>
    <3>1. l \in Int /\ l = q[Len(q)]
      BY <1>1, <2>7, LastOfExt
    <3>2. PICK m \in Int : m = c - l
      BY <3>1
    <3>3. Differences(q) \in Seq(Int) /\ Differences(r) = Ext(Differences(q), m)
      BY <2>2, <2>7, <3>1, <3>2, DifferencesExt
    <3>4. /\ d \in Seq(Int) /\ Len(d) <= L /\ d2 = Push(d, m, L)
      BY <1>1, <2>3, <3>3, WindowPush
    <3>5. /\ p2 = LET all == p + (IF m > 0 THEN m ELSE 0)
                  IN  IF Len(d) >= L /\ First(d) > 0
                      THEN IF all - First(d) < 0 THEN 0 ELSE all - First(d)
                      ELSE all
          /\ n2 = LET all == n + (IF m < 0 THEN -m ELSE 0)
                  IN  IF Len(d) >= L /\ First(d) < 0
                      THEN IF all + First(d) < 0 THEN 0 ELSE all + First(d)
                      ELSE all
      BY <1>1, <2>3, <3>4, CmoTotals
    <3>6. l # NA
      BY <3>1
    <3>7. CmoUpdate([prev |-> l, changes |-> d, pos |-> p, neg |-> n, out |-> o], x, L)
            = [prev |-> c, changes |-> d2, pos |-> p2, neg |-> n2,
               out |-> IF Len(d2) < L \/ p2 + n2 = 0 THEN NA ELSE Frac(100 * (p2 - n2), p2 + n2)]
      BY <2>1, <3>2, <3>4, <3>5, <3>6 DEF CmoUpdate, First
    <3>8. QED
      BY <1>2, <2>1, <2>2, <2>3, <2>4, <2>5, <3>7
  <2>8. QED
    BY <2>6, <2>7
<1>5. QED
  BY <1>3, <1>4

-----------------------------------------------------------------------------
(* Spread *)

\* A value with na as 0, its square, and whether it is na.
ValueParts(val, sq, none) ==
  \A v \in Int \cup {NA} : /\ v = NA => val[v] = 0 /\ sq[v] = 0 /\ none[v] = 1
                           /\ v # NA => val[v] = v /\ sq[v] = v * v /\ none[v] = 0

LEMMA ValueMaps ==
  ASSUME NA \notin Int
  PROVE  \E val, sq, none \in Maps(Int \cup {NA}, Int) :
           /\ ValueParts(val, sq, none)
           /\ \A w \in Seq(Int \cup {NA}) : /\ Known(w) = Mapped(val, w) /\ Blanks(w) = Mapped(none, w)
                                            /\ Dot(Known(w), Known(w)) = Total(Mapped(sq, w))
<1> DEFINE V == Int \cup {NA}
<1>1. PICK val \in Maps(V, Int) : val = [v \in V |-> IF v = NA THEN 0 ELSE v]
  <2>1. [v \in V |-> IF v = NA THEN 0 ELSE v] \in [V -> Int]
    OBVIOUS
  <2>2. QED
    BY <2>1 DEF Maps
<1>2. PICK sq \in Maps(V, Int) : sq = [v \in V |-> IF v = NA THEN 0 ELSE v * v]
  <2>1. [v \in V |-> IF v = NA THEN 0 ELSE v * v] \in [V -> Int]
    OBVIOUS
  <2>2. QED
    BY <2>1 DEF Maps
<1>3. PICK none \in Maps(V, Int) : none = [v \in V |-> IF v = NA THEN 1 ELSE 0]
  <2>1. [v \in V |-> IF v = NA THEN 1 ELSE 0] \in [V -> Int]
    OBVIOUS
  <2>2. QED
    BY <2>1 DEF Maps
<1>4. ValueParts(val, sq, none)
  BY <1>1, <1>2, <1>3 DEF ValueParts
<1>5. ASSUME NEW w \in Seq(V)
      PROVE  /\ Known(w) = Mapped(val, w) /\ Blanks(w) = Mapped(none, w)
             /\ Dot(Known(w), Known(w)) = Total(Mapped(sq, w))
  <2>1. \A i \in 1..Len(w) : w[i] \in V
    OBVIOUS
  <2>2. Known(w) = Mapped(val, w)
    BY <1>1, <2>1 DEF Known, Mapped
  <2>3. Blanks(w) = Mapped(none, w)
    BY <1>3, <2>1 DEF Blanks, Mapped
  <2>4. Len(Known(w)) = Len(w) /\ \A i \in 1..Len(w) : Known(w)[i] = IF w[i] = NA THEN 0 ELSE w[i]
    BY DEF Known
  <2>5. \A i \in 1..Len(w) : Known(w)[i] * Known(w)[i] = sq[w[i]]
    <3> SUFFICES ASSUME NEW i \in 1..Len(w) PROVE Known(w)[i] * Known(w)[i] = sq[w[i]]
      OBVIOUS
    <3>1. PICK v \in V : v = w[i]
      BY <2>1
    <3>2. sq[v] = IF v = NA THEN 0 ELSE v * v
      BY <1>2
    <3>3. Known(w)[i] = IF v = NA THEN 0 ELSE v
      BY <2>4, <3>1
    <3>4. CASE v = NA
      BY <3>1, <3>2, <3>3, <3>4
    <3>5. CASE v # NA
      BY <3>1, <3>2, <3>3, <3>5
    <3>6. QED
      BY <3>4, <3>5
  <2>6. [i \in 1..Len(w) |-> Known(w)[i] * Known(w)[i]] = Mapped(sq, w)
    BY <2>5 DEF Mapped
  <2>7. Dot(Known(w), Known(w)) = Total([i \in 1..Len(w) |-> Known(w)[i] * Known(w)[i]])
    BY <2>4 DEF Dot
  <2>8. QED
    BY <2>2, <2>3, <2>6, <2>7
<1>6. QED
  BY <1>4, <1>5

\* No na is counted exactly when there is none.
LEMMA BlankCount ==
  ASSUME NA \notin Int, NEW w \in Seq(Int \cup {NA}), NEW none \in Maps(Int \cup {NA}, Int),
         \A v \in Int \cup {NA} : none[v] = IF v = NA THEN 1 ELSE 0
  PROVE  Total(Mapped(none, w)) \in Nat /\ (Total(Mapped(none, w)) = 0 <=> ~HasBlank(w))
<1> DEFINE V == Int \cup {NA}
           S == {r \in Seq(V) :
                   Total(Mapped(none, r)) \in Nat /\ (Total(Mapped(none, r)) = 0 <=> ~HasBlank(r))}
<1>1. <<>> \in S
  <2>1. <<>> \in Seq(V) /\ ~HasBlank(<<>>)
    BY DEF HasBlank
  <2>2. QED
    BY <2>1, MappedEmpty, TotalEmpty
<1>2. ASSUME NEW r \in Seq(V), NEW e \in V, r \in S PROVE Ext(r, e) \in S
  <2>1. Ext(r, e) \in Seq(V)
    BY DEF Ext
  <2>2. Mapped(none, r) \in Seq(Int)
    BY MappedIs
  <2>3. none[e] \in Int /\ Mapped(none, Ext(r, e)) = Ext(Mapped(none, r), none[e])
    BY MappedExt
  <2>4. Total(Ext(Mapped(none, r), none[e])) = Total(Mapped(none, r)) + none[e]
    BY <2>2, <2>3, TotalAppend
  <2>5. HasBlank(Ext(r, e)) <=> HasBlank(r) \/ e = NA
    <3>1. /\ Len(Ext(r, e)) = Len(r) + 1 /\ Ext(r, e)[Len(r) + 1] = e
          /\ \A i \in 1..Len(r) : Ext(r, e)[i] = r[i]
      BY DEF Ext
    <3>2. \A i \in 1..(Len(r) + 1) : i = Len(r) + 1 \/ i \in 1..Len(r)
      OBVIOUS
    <3>3. Len(r) + 1 \in 1..(Len(r) + 1) /\ \A i \in 1..Len(r) : i \in 1..(Len(r) + 1)
      OBVIOUS
    <3>4. QED
      BY <3>1, <3>2, <3>3 DEF HasBlank, IsBlank
  <2>6. PICK k \in Nat, m \in Int : /\ k = Total(Mapped(none, r)) /\ m = none[e]
                                    /\ (k = 0 <=> ~HasBlank(r)) /\ m = IF e = NA THEN 1 ELSE 0
    BY <1>2, <2>3
  <2>7. k + m \in Nat /\ (k + m = 0 <=> ~(HasBlank(r) \/ e = NA))
    BY <2>6
  <2>8. QED
    BY <2>1, <2>3, <2>4, <2>5, <2>6, <2>7
<1>3. Seq(V) \subseteq S
  <2> HIDE DEF S, V
  <2> QED
    BY <1>1, <1>2, SeqInduction
<1>4. QED
  BY <1>3

\* The squares of a * w[i] - b add up by the totals of w.
LEMMA ShiftedSquares ==
  ASSUME NEW w \in Seq(Int), NEW a \in Int, NEW b \in Int
  PROVE  Total([i \in 1..Len(w) |-> (a * w[i] - b) * (a * w[i] - b)])
           = a * a * Dot(w, w) - 2 * a * b * Total(w) + Len(w) * (b * b)
<1>1. PICK f \in Maps(Int, Int) : f = [v \in Int |-> (a * v - b) * (a * v - b)]
  <2>1. [v \in Int |-> (a * v - b) * (a * v - b)] \in [Int -> Int]
    OBVIOUS
  <2>2. QED
    BY <2>1 DEF Maps
<1>2. PICK g \in Maps(Int, Int) : g = [v \in Int |-> v * v]
  <2>1. [v \in Int |-> v * v] \in [Int -> Int]
    OBVIOUS
  <2>2. QED
    BY <2>1 DEF Maps
<1>3. ASSUME NEW r \in Seq(Int)
      PROVE  /\ [i \in 1..Len(r) |-> (a * r[i] - b) * (a * r[i] - b)] = Mapped(f, r)
             /\ [i \in 1..Len(r) |-> r[i] * r[i]] = Mapped(g, r)
  <2>1. \A i \in 1..Len(r) : r[i] \in Int
    OBVIOUS
  <2>2. [i \in 1..Len(r) |-> (a * r[i] - b) * (a * r[i] - b)] = Mapped(f, r)
    BY <1>1, <2>1 DEF Mapped
  <2>3. [i \in 1..Len(r) |-> r[i] * r[i]] = Mapped(g, r)
    BY <1>2, <2>1 DEF Mapped
  <2>4. QED
    BY <2>2, <2>3
<1> DEFINE S == {r \in Seq(Int) :
                   /\ Total(Mapped(g, r)) \in Int /\ Total(r) \in Int
                   /\ Total(Mapped(f, r)) = a * a * Total(Mapped(g, r)) - 2 * a * b * Total(r)
                                              + Len(r) * (b * b)}
<1>4. <<>> \in S
  <2>1. <<>> \in Seq(Int) /\ Len(<<>>) = 0
    OBVIOUS
  <2>2. a * a * 0 - 2 * a * b * 0 + 0 * (b * b) = 0
    OBVIOUS
  <2>3. QED
    BY <2>1, <2>2, MappedEmpty, TotalEmpty
<1>5. ASSUME NEW r \in Seq(Int), NEW e \in Int, r \in S PROVE Ext(r, e) \in S
  <2>1. Ext(r, e) \in Seq(Int) /\ Len(Ext(r, e)) = Len(r) + 1
    BY DEF Ext
  <2>2. ASSUME NEW h \in Maps(Int, Int)
        PROVE  Total(Mapped(h, Ext(r, e))) = Total(Mapped(h, r)) + h[e]
    <3>1. Mapped(h, r) \in Seq(Int)
      BY MappedIs
    <3>2. h[e] \in Int /\ Mapped(h, Ext(r, e)) = Ext(Mapped(h, r), h[e])
      BY MappedExt
    <3>3. QED
      BY <3>1, <3>2, TotalAppend
  <2>3. Total(Ext(r, e)) = Total(r) + e
    BY TotalAppend
  <2>4. f[e] = (a * e - b) * (a * e - b) /\ g[e] = e * e
    BY <1>1, <1>2
  <2>5. PICK k \in Nat, sq \in Int, t \in Int :
          /\ k = Len(r) /\ sq = Total(Mapped(g, r)) /\ t = Total(r)
          /\ Total(Mapped(f, r)) = a * a * sq - 2 * a * b * t + k * (b * b)
    BY <1>5
  <2>6. (a * a * sq - 2 * a * b * t + k * (b * b)) + (a * e - b) * (a * e - b)
          = a * a * (sq + e * e) - 2 * a * b * (t + e) + (k + 1) * (b * b)
    OBVIOUS
  <2>7. Total(Mapped(g, Ext(r, e))) = sq + e * e /\ Total(Ext(r, e)) = t + e
    BY <2>2, <2>3, <2>4, <2>5
  <2>8. sq + e * e \in Int /\ t + e \in Int
    OBVIOUS
  <2>9. Total(Mapped(f, Ext(r, e)))
          = (a * a * sq - 2 * a * b * t + k * (b * b)) + (a * e - b) * (a * e - b)
    BY <2>2, <2>4, <2>5
  <2>10. QED
    BY <2>1, <2>5, <2>6, <2>7, <2>8, <2>9
<1>6. Seq(Int) \subseteq S
  <2> HIDE DEF S
  <2> QED
    BY <1>4, <1>5, SeqInduction
<1>7. Total(Mapped(f, w)) = a * a * Total(Mapped(g, w)) - 2 * a * b * Total(w) + Len(w) * (b * b)
  BY <1>6
<1>8. QED
  BY <1>3, <1>7 DEF Dot

BiasedAt(c, L) == Strict(c, L, Biased)

LEMMA FracScaledAny ==
  \A n, d, k \in Int : d # 0 /\ k # 0 => Frac(k * n, k * d) = Frac(n, d)
BY FracScaled

LEMMA VarianceIs ==
  ASSUME NEW w \in Seq(Int), w # <<>>, NEW L \in Nat \ {0}, L = Len(w)
  PROVE  Variance(w, TRUE) = Frac(L * Dot(w, w) - Total(w) * Total(w), L * L)
<1>1. PICK t \in Int, s \in Int : t = Total(w) /\ s = Dot(w, w)
  <2>1. [i \in 1..Len(w) |-> w[i] * w[i]] \in Seq(Int)
    OBVIOUS
  <2>2. Total(w) \in Int /\ Total([i \in 1..Len(w) |-> w[i] * w[i]]) \in Int
    BY <2>1, TotalInt
  <2>3. QED
    BY <2>2 DEF Dot
<1>2. PICK d : d = Deviations(w)
  OBVIOUS
<1>3. Len(d) = Len(w) /\ \A i \in 1..Len(w) : d[i] = L * w[i] - t
  BY <1>1, <1>2 DEF Deviations
<1>4. Dot(d, d) = Total([i \in 1..Len(w) |-> (L * w[i] - t) * (L * w[i] - t)])
  <2>1. Dot(d, d) = Total([i \in 1..Len(w) |-> d[i] * d[i]])
    BY <1>3 DEF Dot
  <2>2. \A i \in 1..Len(w) : d[i] * d[i] = (L * w[i] - t) * (L * w[i] - t)
    BY <1>3
  <2>3. [i \in 1..Len(w) |-> d[i] * d[i]] = [i \in 1..Len(w) |-> (L * w[i] - t) * (L * w[i] - t)]
    BY <2>2
  <2>4. QED
    BY <2>1, <2>3
<1>5. Dot(d, d) = L * L * s - 2 * L * t * t + L * (t * t)
  <2>1. L \in Int
    OBVIOUS
  <2>2. Total([i \in 1..Len(w) |-> (L * w[i] - t) * (L * w[i] - t)])
          = L * L * Dot(w, w) - 2 * L * t * Total(w) + Len(w) * (t * t)
    BY <2>1, ShiftedSquares
  <2>3. QED
    BY <1>1, <1>4, <2>2
<1>6. L * L * s - 2 * L * t * t + L * (t * t) = L * (L * s - t * t)
  OBVIOUS
<1>7. Variance(w, TRUE) = Frac(Dot(d, d), L * L * L)
  BY <1>2 DEF Variance
<1>8. PICK n \in Int, k \in Int : n = L * s - t * t /\ k = L * L /\ k # 0 /\ L * L * L = L * k
  <2>1. L * s - t * t \in Int /\ L * L \in Int /\ L * L # 0 /\ L * L * L = L * (L * L)
    OBVIOUS
  <2>2. QED
    BY <2>1
<1>9. Frac(L * n, L * k) = Frac(n, k)
  <2>1. L \in Int /\ L # 0 /\ k # 0
    BY <1>8
  <2>2. n \in Int /\ k \in Int
    OBVIOUS
  <2>3. QED
    BY <2>1, <2>2, FracScaledAny, Zenon
<1>10. QED
  BY <1>1, <1>5, <1>6, <1>7, <1>8, <1>9

LEMMA KnownSame ==
  ASSUME NA \notin Int, NEW w \in Seq(Int \cup {NA}), ~HasBlank(w)
  PROVE  w \in Seq(Int) /\ Known(w) = w
<1>1. \A i \in 1..Len(w) : w[i] \in Int /\ w[i] # NA
  BY DEF HasBlank, IsBlank
<1>2. w \in Seq(Int)
  BY <1>1
<1>3. PICK k \in Seq(Int) : k = Known(w) /\ Len(k) = Len(w) /\ \A i \in 1..Len(w) : k[i] = w[i]
  <2>1. Known(w) = [i \in 1..Len(w) |-> w[i]]
    BY <1>1 DEF Known
  <2>2. [i \in 1..Len(w) |-> w[i]] \in Seq(Int)
    BY <1>1
  <2>3. QED
    BY <2>1, <2>2
<1>4. k = w
  BY <1>2, <1>3, SeqEqual
<1>5. QED
  BY <1>2, <1>3, <1>4

Spread(w, L) == Frac(L * Dot(Known(w), Known(w)) - Total(Known(w)) * Total(Known(w)), L * L)

LEMMA VarianceOver ==
  ASSUME NA \notin Int, NEW r \in Seq(Int \cup {NA}), NEW L \in Nat \ {0}, NEW z, NEW b,
         z = Recent(r, L), b = Total(Blanks(z))
  PROVE  /\ Len(z) < L \/ b # 0 => BiasedAt(r, L) = NA
         /\ ~(Len(z) < L) /\ b = 0 => BiasedAt(r, L) = Spread(z, L)
<1> DEFINE V == Int \cup {NA}
<1>1. z \in Seq(V) /\ Len(z) <= L
  BY WindowIs
<1>2. PICK val \in Maps(V, Int), sq \in Maps(V, Int), none \in Maps(V, Int) :
        /\ ValueParts(val, sq, none)
        /\ \A w \in Seq(V) : /\ Known(w) = Mapped(val, w) /\ Blanks(w) = Mapped(none, w)
                             /\ Dot(Known(w), Known(w)) = Total(Mapped(sq, w))
  BY ValueMaps
<1>3. b = 0 <=> ~HasBlank(z)
  <2>1. \A v \in V : none[v] = IF v = NA THEN 1 ELSE 0
    BY <1>2 DEF ValueParts
  <2>2. Total(Mapped(none, z)) = 0 <=> ~HasBlank(z)
    BY <1>1, <2>1, BlankCount
  <2>3. QED
    BY <1>1, <1>2, <2>2
<1>4. CASE Len(r) < L
  <2>1. Len(z) < L
    BY <1>4, WindowFull
  <2>2. QED
    BY <1>4, <2>1 DEF BiasedAt, Strict
<1>5. CASE ~(Len(r) < L)
  <2>1. ~(Len(z) < L) /\ z = LastN(r, L)
    BY <1>5, WindowFull
  <2>2. BiasedAt(r, L) = IF HasBlank(z) THEN NA ELSE Variance(z, TRUE)
    BY <1>5, <2>1 DEF BiasedAt, Strict, Biased
  <2>3. ASSUME ~HasBlank(z)
        PROVE  Variance(z, TRUE) = Spread(z, L)
    <3>1. z \in Seq(Int) /\ Known(z) = z
      BY <1>1, <2>3, KnownSame
    <3>2. Len(z) = L /\ z # <<>>
      BY <1>1, <2>1
    <3>3. Variance(z, TRUE) = Frac(L * Dot(z, z) - Total(z) * Total(z), L * L)
      BY <3>1, <3>2, VarianceIs
    <3>4. QED
      BY <3>1, <3>3 DEF Spread
  <2>4. QED
    BY <1>3, <2>1, <2>2, <2>3
<1>6. QED
  BY <1>4, <1>5

SpreadOr(z, L, b) == IF Len(z) < L \/ b # 0 THEN NA ELSE Spread(z, L)

LEMMA VarianceIsSpread ==
  ASSUME NA \notin Int, NEW r \in Seq(Int \cup {NA}), NEW L \in Nat \ {0}
  PROVE  BiasedAt(r, L) = SpreadOr(Recent(r, L), L, Total(Blanks(Recent(r, L))))
<1>1. PICK z, b : z = Recent(r, L) /\ b = Total(Blanks(z))
  OBVIOUS
<1>2. /\ Len(z) < L \/ b # 0 => BiasedAt(r, L) = NA
      /\ ~(Len(z) < L) /\ b = 0 => BiasedAt(r, L) = Spread(z, L)
  BY <1>1, VarianceOver
<1>3. QED
  BY <1>1, <1>2 DEF SpreadOr

LEMMA VarianceStep ==
  ASSUME NA \notin Int, NEW c \in Seq(Int \cup {NA}), NEW L \in Nat \ {0}, NEW x,
         x.c \in Int \cup {NA}, NEW o
  PROVE  VarianceUpdate(VarianceKept(c, L, o), x, L)
           = VarianceKept(Ext(c, x.c), L, BiasedAt(Ext(c, x.c), L))
<1> DEFINE V == Int \cup {NA}
<1>1. PICK v \in V : v = x.c
  OBVIOUS
<1>2. PICK val \in Maps(V, Int), sq \in Maps(V, Int), none \in Maps(V, Int) :
        /\ ValueParts(val, sq, none)
        /\ \A w \in Seq(V) : /\ Known(w) = Mapped(val, w) /\ Blanks(w) = Mapped(none, w)
                             /\ Dot(Known(w), Known(w)) = Total(Mapped(sq, w))
  BY ValueMaps
<1> HIDE DEF V
<1>3. c \in Seq(V)
  BY DEF V
<1>4. PICK w \in Seq(V), z \in Seq(V), r \in Seq(V) :
        /\ w = Recent(c, L) /\ r = Ext(c, v) /\ z = Recent(r, L) /\ Len(w) <= L /\ z = Push(w, v, L)
  <2>1. PICK w, z, r : w = Recent(c, L) /\ r = Ext(c, v) /\ z = Recent(r, L)
    OBVIOUS
  <2>2. /\ Recent(c, L) \in Seq(V) /\ Len(Recent(c, L)) <= L
        /\ r \in Seq(V) /\ Recent(r, L) \in Seq(V)
        /\ Push(Recent(c, L), v, L) = Recent(r, L)
    BY <1>3, <2>1, WindowPush
  <2>3. QED
    BY <2>1, <2>2
<1>5. PICK t, s, b, t2, s2, b2 :
        /\ t = Total(Known(w)) /\ s = Dot(Known(w), Known(w)) /\ b = Total(Blanks(w))
        /\ t2 = Total(Known(z)) /\ s2 = Dot(Known(z), Known(z)) /\ b2 = Total(Blanks(z))
  OBVIOUS
<1>6. /\ t = Total(Mapped(val, w)) /\ s = Total(Mapped(sq, w)) /\ b = Total(Mapped(none, w))
      /\ t2 = Total(Mapped(val, z)) /\ s2 = Total(Mapped(sq, z)) /\ b2 = Total(Mapped(none, z))
  BY <1>2, <1>4, <1>5
<1>7. VarianceKept(c, L, o) = [win |-> w, total |-> t, squares |-> s, blanks |-> b, out |-> o]
  BY <1>4, <1>5 DEF VarianceKept
<1>8. \A e : VarianceKept(r, L, e) = [win |-> z, total |-> t2, squares |-> s2, blanks |-> b2, out |-> e]
  BY <1>4, <1>5 DEF VarianceKept
<1> DEFINE Sum(e) == IF e = NA THEN 0 ELSE e
           Count(e) == IF e = NA THEN 1 ELSE 0
           old == IF Len(w) < L THEN 0 ELSE Head(w)
<1>9. \A e \in V : val[e] = Sum(e) /\ sq[e] = Sum(e) * Sum(e) /\ none[e] = Count(e)
  <2> SUFFICES ASSUME NEW e \in V
               PROVE  val[e] = Sum(e) /\ sq[e] = Sum(e) * Sum(e) /\ none[e] = Count(e)
    OBVIOUS
  <2>1. /\ e = NA => val[e] = 0 /\ sq[e] = 0 /\ none[e] = 1
        /\ e # NA => val[e] = e /\ sq[e] = e * e /\ none[e] = 0
    BY <1>2 DEF ValueParts, V
  <2>2. CASE e = NA
    BY <2>1, <2>2
  <2>3. CASE e # NA
    BY <2>1, <2>3
  <2>4. QED
    BY <2>2, <2>3
<1>91. Sum(0) = 0 /\ Count(0) = 0 /\ 0 * 0 = 0
  OBVIOUS
<1> HIDE DEF Sum, Count
<1>10. /\ t2 = t + Sum(v) - Sum(old)
       /\ s2 = s + Sum(v) * Sum(v) - Sum(old) * Sum(old)
       /\ b2 = b + Count(v) - Count(old)
  <2>1. /\ t \in Int /\ s \in Int /\ b \in Int
        /\ val[v] \in Int /\ sq[v] \in Int /\ none[v] \in Int
    BY <1>4, <1>6, MappedTotalPush
  <2>2. PICK p \in Int, k \in Int, m \in Int : p = Sum(v) /\ k = Sum(v) * Sum(v) /\ m = Count(v)
                                               /\ p = val[v] /\ k = sq[v] /\ m = none[v]
    BY <1>9, <2>1
  <2>3. CASE Len(w) < L
    <3>1. /\ Total(Mapped(val, z)) = Total(Mapped(val, w)) + val[v]
          /\ Total(Mapped(sq, z)) = Total(Mapped(sq, w)) + sq[v]
          /\ Total(Mapped(none, z)) = Total(Mapped(none, w)) + none[v]
      BY <1>4, <2>3, MappedTotalPush
    <3>2. t2 = t + p /\ s2 = s + k /\ b2 = b + m
      BY <1>6, <2>2, <3>1
    <3>3. old = 0
      BY <2>3
    <3> HIDE DEF old
    <3>4. PICK p0 \in Int, k0 \in Int, m0 \in Int :
            /\ p0 = Sum(old) /\ k0 = Sum(old) * Sum(old) /\ m0 = Count(old)
            /\ p0 = 0 /\ k0 = 0 /\ m0 = 0
      BY <1>91, <3>3
    <3>5. t2 = t + p - p0 /\ s2 = s + k - k0 /\ b2 = b + m - m0
      BY <2>1, <3>2, <3>4
    <3>6. QED
      BY <2>2, <3>4, <3>5
  <2>4. CASE Len(w) >= L
    <3>1. w # <<>> /\ First(w) \in V
      BY <1>4, <2>4, MappedTotalPush
    <3>2. ASSUME NEW f \in Maps(V, Int)
          PROVE  Total(Mapped(f, z)) = Total(Mapped(f, w)) + f[v] - f[First(w)]
      BY <1>4, <2>4, MappedTotalPush
    <3>3. ~(Len(w) < L)
      BY <1>4, <2>4
    <3>4. old = First(w)
      BY <3>3 DEF First
    <3> HIDE DEF old
    <3>5. val[old] \in Int /\ sq[old] \in Int /\ none[old] \in Int
      BY <3>1, <3>4, MapValue
    <3>6. PICK p0 \in Int, k0 \in Int, m0 \in Int :
            /\ p0 = Sum(old) /\ k0 = Sum(old) * Sum(old) /\ m0 = Count(old)
            /\ p0 = val[old] /\ k0 = sq[old] /\ m0 = none[old]
      BY <1>9, <3>1, <3>4, <3>5
    <3>7. t2 = t + p - p0 /\ s2 = s + k - k0 /\ b2 = b + m - m0
      BY <1>6, <2>2, <3>2, <3>4, <3>6
    <3>8. QED
      BY <2>2, <3>6, <3>7
  <2>5. QED
    BY <1>4, <2>3, <2>4
<1>11. VarianceUpdate([win |-> w, total |-> t, squares |-> s, blanks |-> b, out |-> o], x, L)
         = [win |-> z, total |-> t2, squares |-> s2, blanks |-> b2,
            out |-> IF Len(z) < L \/ b2 # 0 THEN NA ELSE Frac(L * s2 - t2 * t2, L * L)]
  BY <1>1, <1>4, <1>10 DEF VarianceUpdate, Sum, Count
<1>12. PICK e : e = BiasedAt(r, L)
  OBVIOUS
<1>13. e = IF Len(z) < L \/ b2 # 0 THEN NA ELSE Frac(L * s2 - t2 * t2, L * L)
  <2>1. r \in Seq(Int \cup {NA})
    BY <1>4 DEF V
  <2>2. BiasedAt(r, L) = SpreadOr(Recent(r, L), L, Total(Blanks(Recent(r, L))))
    BY <2>1, VarianceIsSpread
  <2>3. e = SpreadOr(z, L, b2)
    BY <1>4, <1>5, <1>12, <2>2
  <2>4. QED
    BY <1>5, <2>3 DEF SpreadOr, Spread
<1>14. VarianceUpdate(VarianceKept(c, L, o), x, L) = VarianceKept(r, L, e)
  BY <1>7, <1>8, <1>11, <1>13
<1>15. QED
  BY <1>1, <1>4, <1>12, <1>14

-----------------------------------------------------------------------------
(* Sessions *)

Begins(s, i) ==
  /\ i \in 1..Len(s)
  /\ i = 1 \/ s[i - 1].day # s[Len(s)].day
  /\ \A j \in i..Len(s) : s[j].day = s[Len(s)].day

LEMMA BeginsExt ==
  ASSUME NEW T, NEW s \in Seq(T), NEW x \in T
  PROVE  /\ s = <<>> => Begins(Ext(s, x), 1)
         /\ s # <<>> /\ s[Len(s)].day # x.day => Begins(Ext(s, x), Len(s) + 1)
         /\ s # <<>> /\ s[Len(s)].day = x.day => \A i : Begins(s, i) => Begins(Ext(s, x), i)
<1>1. PICK n \in Nat : n = Len(s)
  OBVIOUS
<1>2. PICK r \in Seq(T) : /\ r = Ext(s, x) /\ Len(r) = n + 1 /\ r[n + 1] = x
                          /\ \A i \in 1..n : r[i] = s[i]
  <2>1. /\ Ext(s, x) \in Seq(T) /\ Len(Ext(s, x)) = n + 1 /\ Ext(s, x)[n + 1] = x
        /\ \A i \in 1..n : Ext(s, x)[i] = s[i]
    BY <1>1 DEF Ext
  <2>2. QED
    BY <2>1
<1>3. CASE s = <<>>
  <2>1. n = 0
    BY <1>1, <1>3
  <2>2. QED
    BY <1>2, <1>3, <2>1 DEF Begins
<1>4. CASE s # <<>>
  <2>1. n >= 1 /\ n \in 1..n /\ r[n] = s[n]
    BY <1>1, <1>2, <1>4
  <2>2. ASSUME s[n].day # x.day PROVE Begins(r, n + 1)
    <3>1. n + 1 \in 1..(n + 1) /\ (n + 1) - 1 = n
      OBVIOUS
    <3>2. \A j \in (n + 1)..(n + 1) : r[j].day = r[n + 1].day
      OBVIOUS
    <3>3. r[(n + 1) - 1].day # r[n + 1].day
      BY <1>2, <2>1, <2>2, <3>1
    <3>4. QED
      BY <1>2, <3>1, <3>2, <3>3 DEF Begins
  <2>3. ASSUME s[n].day = x.day, NEW i, Begins(s, i) PROVE Begins(r, i)
    <3>1. /\ i \in 1..n /\ (i = 1 \/ s[i - 1].day # s[n].day)
          /\ \A j \in i..n : s[j].day = s[n].day
      BY <1>1, <2>3 DEF Begins
    <3>2. i \in 1..(n + 1)
      BY <3>1
    <3>3. i = 1 \/ r[i - 1].day # r[n + 1].day
      <4>1. CASE i = 1
        BY <4>1
      <4>2. CASE i # 1
        <5>1. i - 1 \in 1..n
          BY <3>1, <4>2
        <5>2. QED
          BY <1>2, <2>3, <3>1, <4>2, <5>1
      <4>3. QED
        BY <4>1, <4>2
    <3>4. ASSUME NEW j \in i..(n + 1) PROVE r[j].day = r[n + 1].day
      <4>1. CASE j = n + 1
        BY <4>1
      <4>2. CASE j # n + 1
        <5>1. j \in i..n /\ j \in 1..n
          BY <3>1, <4>2
        <5>2. QED
          BY <1>2, <2>3, <3>1, <5>1
      <4>3. QED
        BY <4>1, <4>2
    <3>5. QED
      BY <1>2, <3>2, <3>3, <3>4 DEF Begins
  <2>4. QED
    BY <1>1, <1>2, <1>4, <2>2, <2>3
<1>5. QED
  BY <1>3, <1>4

LEMMA BeginsOnce ==
  ASSUME NEW T, NEW s \in Seq(T), NEW i, NEW k, Begins(s, i), Begins(s, k)
  PROVE  i = k
<1>1. PICK n \in Nat : n = Len(s)
  OBVIOUS
<1>2. /\ i \in 1..n /\ (i = 1 \/ s[i - 1].day # s[n].day)
      /\ \A j \in i..n : s[j].day = s[n].day
  BY <1>1 DEF Begins
<1>3. /\ k \in 1..n /\ (k = 1 \/ s[k - 1].day # s[n].day)
      /\ \A j \in k..n : s[j].day = s[n].day
  BY <1>1 DEF Begins
<1>4. ASSUME i < k PROVE FALSE
  <2>1. k - 1 \in i..n /\ k # 1
    BY <1>2, <1>3, <1>4
  <2>2. QED
    BY <1>2, <1>3, <2>1
<1>5. ASSUME k < i PROVE FALSE
  <2>1. i - 1 \in k..n /\ i # 1
    BY <1>2, <1>3, <1>5
  <2>2. QED
    BY <1>2, <1>3, <2>1
<1>6. QED
  BY <1>2, <1>3, <1>4, <1>5

LEMMA BeginsSome ==
  ASSUME NEW T, NEW s \in Seq(T), s # <<>>
  PROVE  \E i : Begins(s, i)
<1> DEFINE S == {r \in Seq(T) : r # <<>> => \E i : Begins(r, i)}
<1>1. <<>> \in S
  OBVIOUS
<1>2. ASSUME NEW r \in Seq(T), NEW e \in T, r \in S PROVE Ext(r, e) \in S
  <2>1. Ext(r, e) \in Seq(T)
    BY DEF Ext
  <2>2. CASE r = <<>>
    BY <2>1, <2>2, BeginsExt
  <2>3. CASE r # <<>> /\ r[Len(r)].day # e.day
    BY <2>1, <2>3, BeginsExt
  <2>4. CASE r # <<>> /\ r[Len(r)].day = e.day
    <3>1. PICK i : Begins(r, i)
      BY <1>2, <2>4
    <3>2. Begins(Ext(r, e), i)
      BY <2>4, <3>1, BeginsExt
    <3>3. QED
      BY <2>1, <3>2
  <2>5. QED
    BY <2>2, <2>3, <2>4
<1>3. Seq(T) \subseteq S
  <2> HIDE DEF S
  <2> QED
    BY <1>1, <1>2, SeqInduction
<1>4. QED
  BY <1>3

LEMMA LastDayIs ==
  ASSUME NEW T, NEW s \in Seq(T), NEW i, Begins(s, i)
  PROVE  LastDay(s) = SubSeq(s, i, Len(s))
<1> DEFINE Opens(k) == k = 1 \/ s[k - 1].day # s[Len(s)].day
           first == CHOOSE k \in 1..Len(s) :
                      Opens(k) /\ \A j \in k..Len(s) : s[j].day = s[Len(s)].day
<1>1. Begins(s, first)
  BY DEF Begins
<1>2. first = i
  <2> HIDE DEF first
  <2> QED
    BY <1>1, BeginsOnce
<1>3. QED
  BY <1>2 DEF LastDay

LEMMA LastDayExt ==
  ASSUME NEW T, NEW s \in Seq(T), NEW x \in T
  PROVE  /\ s # <<>> => LastDay(s) \in Seq(T)
         /\ s = <<>> => LastDay(Ext(s, x)) = Ext(<<>>, x)
         /\ s # <<>> /\ s[Len(s)].day # x.day => LastDay(Ext(s, x)) = Ext(<<>>, x)
         /\ s # <<>> /\ s[Len(s)].day = x.day => LastDay(Ext(s, x)) = Ext(LastDay(s), x)
<1>1. PICK n \in Nat : n = Len(s)
  OBVIOUS
<1>2. PICK r \in Seq(T) : r = Ext(s, x) /\ Len(r) = n + 1
  <2>1. Ext(s, x) \in Seq(T) /\ Len(Ext(s, x)) = n + 1
    BY <1>1 DEF Ext
  <2>2. QED
    BY <2>1
<1>3. SubSeq(r, n + 1, n + 1) = Ext(<<>>, x)
  <2>1. r[n + 1] = x
    BY <1>1, <1>2 DEF Ext
  <2>2. PICK a \in Seq(T) : a = SubSeq(r, n + 1, n + 1) /\ Len(a) = 1 /\ a[1] = x
    <3>1. SubSeq(r, n + 1, n + 1) \in Seq(T) /\ Len(SubSeq(r, n + 1, n + 1)) = 1
      BY <1>2
    <3>2. SubSeq(r, n + 1, n + 1)[1] = x
      <4>1. PICK k \in Nat : k = n + 1
        OBVIOUS
      <4>2. k \in 1..Len(r) /\ r[k] = x /\ SubSeq(r, k, k) = [i \in 1..1 |-> r[k + i - 1]]
        BY <1>1, <1>2, <2>1, <4>1
      <4>3. SubSeq(r, k, k)[1] = r[k + 1 - 1]
        BY <4>2
      <4>4. k + 1 - 1 = k
        OBVIOUS
      <4>5. QED
        BY <4>1, <4>2, <4>3, <4>4
    <3>3. QED
      BY <3>1, <3>2
  <2>3. Ext(<<>>, x) \in Seq(T) /\ Len(Ext(<<>>, x)) = 1 /\ Ext(<<>>, x)[1] = x
    BY DEF Ext
  <2>4. \A k \in 1..Len(a) : a[k] = Ext(<<>>, x)[k]
    BY <2>2, <2>3
  <2>5. QED
    BY <2>2, <2>3, <2>4, SeqEqual
<1>4. CASE s = <<>>
  <2>1. n = 0
    BY <1>1, <1>4
  <2>2. Begins(r, 1)
    BY <1>2, <1>4, BeginsExt
  <2>3. LastDay(r) = SubSeq(r, 1, n + 1)
    BY <1>2, <2>2, LastDayIs
  <2>4. QED
    BY <1>2, <1>3, <1>4, <2>1, <2>3
<1>5. CASE s # <<>>
  <2>1. PICK i : Begins(s, i)
    BY <1>5, BeginsSome
  <2>2. LastDay(s) = SubSeq(s, i, n) /\ i \in 1..n
    BY <1>1, <2>1, LastDayIs DEF Begins
  <2>3. LastDay(s) \in Seq(T)
    BY <1>1, <2>2
  <2>4. ASSUME s[n].day # x.day PROVE LastDay(r) = Ext(<<>>, x)
    <3>1. Begins(r, n + 1)
      BY <1>1, <1>2, <1>5, <2>4, BeginsExt
    <3>2. LastDay(r) = SubSeq(r, n + 1, n + 1)
      BY <1>2, <3>1, LastDayIs
    <3>3. QED
      BY <1>3, <3>2
  <2>5. ASSUME s[n].day = x.day PROVE LastDay(r) = Ext(LastDay(s), x)
    <3>1. Begins(r, i)
      BY <1>1, <1>2, <1>5, <2>1, <2>5, BeginsExt
    <3>2. LastDay(r) = SubSeq(r, i, n + 1)
      BY <1>2, <3>1, LastDayIs
    <3>3. PICK m \in Nat : m = i - 1 /\ m <= n /\ i = m + 1
      BY <2>2
    <3>4. SubSeq(Ext(s, x), m + 1, Len(Ext(s, x))) = Ext(SubSeq(s, m + 1, Len(s)), x)
      <4>1. m <= Len(s)
        BY <1>1, <3>3
      <4>2. QED
        BY <4>1, LaterExt, Zenon
    <3>5. QED
      BY <1>1, <1>2, <2>2, <3>2, <3>3, <3>4
  <2>6. QED
    BY <1>1, <1>2, <1>5, <2>3, <2>4, <2>5
<1>6. QED
  BY <1>4, <1>5

\* The totals over the session of the last bar, one traded bar later.
SessionGrows(t, x) ==
  LET now == LastDay(Ext(t, x))
      old == LastDay(t)
      same == t # <<>> /\ t[Len(t)].day = x.day
  IN  /\ same => Total(Volumes(old)) \in Int /\ Dot(Closes(old), Volumes(old)) \in Int
      /\ Total(Volumes(now)) = x.v + (IF same THEN Total(Volumes(old)) ELSE 0)
      /\ Dot(Closes(now), Volumes(now))
           = x.c * x.v + (IF same THEN Dot(Closes(old), Volumes(old)) ELSE 0)

LEMMA SessionExt ==
  ASSUME NEW B, NEW t \in Seq(TradesOf(B)), NEW x \in TradesOf(B)
  PROVE  SessionGrows(t, x)
<1> DEFINE T == TradesOf(B)
<1>1. x.c \in Int /\ x.v \in Int
  BY DEF TradesOf
<1>2. PICK fc \in Maps(T, Int), fv \in Maps(T, Int), fp \in Maps(T, Int) :
        /\ \A b \in T : fc[b] = b.c /\ fv[b] = b.v /\ fp[b] = b.c * b.v
        /\ \A s \in Seq(T) : /\ Closes(s) = Mapped(fc, s) /\ Volumes(s) = Mapped(fv, s)
                             /\ Dot(Closes(s), Volumes(s)) = Total(Mapped(fp, s))
  BY TradeMaps
<1> HIDE DEF T
<1>3. t \in Seq(T) /\ x \in T
  BY DEF T
<1>4. ASSUME NEW s \in Seq(T)
      PROVE  /\ Total(Volumes(s)) \in Int /\ Dot(Closes(s), Volumes(s)) \in Int
             /\ Total(Volumes(Ext(s, x))) = Total(Volumes(s)) + x.v
             /\ Dot(Closes(Ext(s, x)), Volumes(Ext(s, x))) = Dot(Closes(s), Volumes(s)) + x.c * x.v
  <2>1. Ext(s, x) \in Seq(T)
    BY <1>3, ExtIs
  <2>2. /\ fv[x] \in Int /\ Mapped(fv, Ext(s, x)) = Ext(Mapped(fv, s), fv[x])
        /\ fp[x] \in Int /\ Mapped(fp, Ext(s, x)) = Ext(Mapped(fp, s), fp[x])
        /\ Mapped(fv, s) \in Seq(Int) /\ Mapped(fp, s) \in Seq(Int)
    BY <1>3, MappedExt, MappedIs
  <2>3. /\ Total(Ext(Mapped(fv, s), fv[x])) = Total(Mapped(fv, s)) + fv[x]
        /\ Total(Ext(Mapped(fp, s), fp[x])) = Total(Mapped(fp, s)) + fp[x]
        /\ Total(Mapped(fv, s)) \in Int /\ Total(Mapped(fp, s)) \in Int
    BY <2>2, TotalAppend, TotalInt
  <2>4. fv[x] = x.v /\ fp[x] = x.c * x.v
    BY <1>2, <1>3
  <2>5. /\ Volumes(s) = Mapped(fv, s) /\ Dot(Closes(s), Volumes(s)) = Total(Mapped(fp, s))
        /\ Volumes(Ext(s, x)) = Mapped(fv, Ext(s, x))
        /\ Dot(Closes(Ext(s, x)), Volumes(Ext(s, x))) = Total(Mapped(fp, Ext(s, x)))
    BY <1>2, <2>1
  <2>6. QED
    BY <2>2, <2>3, <2>4, <2>5
<1>5. <<>> \in Seq(T) /\ Total(Volumes(<<>>)) = 0 /\ Dot(Closes(<<>>), Volumes(<<>>)) = 0
  <2>1. <<>> \in Seq(T)
    OBVIOUS
  <2>2. Mapped(fv, <<>>) = <<>> /\ Mapped(fp, <<>>) = <<>>
    BY MappedEmpty
  <2>3. QED
    BY <1>2, <2>1, <2>2, TotalEmpty
<1>6. PICK k \in Int : k = x.c * x.v
  BY <1>1
<1>7. CASE t # <<>> /\ t[Len(t)].day = x.day
  <2>1. LastDay(t) \in Seq(T) /\ LastDay(Ext(t, x)) = Ext(LastDay(t), x)
    BY <1>3, <1>7, LastDayExt
  <2>2. PICK s \in Seq(T) : s = LastDay(t)
    BY <2>1
  <2>3. LastDay(Ext(t, x)) = Ext(s, x)
    BY <2>1, <2>2
  <2>4. QED
    BY <1>1, <1>4, <1>6, <1>7, <2>2, <2>3 DEF SessionGrows
<1>8. CASE t = <<>> \/ t[Len(t)].day # x.day
  <2>1. LastDay(Ext(t, x)) = Ext(<<>>, x)
    BY <1>3, <1>8, LastDayExt
  <2>2. /\ Total(Volumes(Ext(<<>>, x))) = 0 + x.v
        /\ Dot(Closes(Ext(<<>>, x)), Volumes(Ext(<<>>, x))) = 0 + x.c * x.v
    BY <1>4, <1>5
  <2>3. QED
    BY <1>1, <1>6, <1>8, <2>1, <2>2 DEF SessionGrows
<1>9. QED
  BY <1>7, <1>8

VwapAt(t) == IF t = <<>> THEN NA ELSE Vwma(Closes(LastDay(t)), Volumes(LastDay(t)))

LEMMA VwapStep ==
  ASSUME NA \notin Int, NEW B, \A b \in TradesOf(B) : b.day \in Int,
         NEW t \in Seq(TradesOf(B)), NEW x, NEW o
  PROVE  /\ x.c = NA \/ x.v = NA => \A L : VwapUpdate(VwapKept(t, o), x, L) = VwapKept(t, NA)
         /\ x \in TradesOf(B) => \A L : VwapUpdate(VwapKept(t, o), x, L)
                                          = VwapKept(Ext(t, x), VwapAt(Ext(t, x)))
<1>1. ASSUME x.c = NA \/ x.v = NA, NEW L
      PROVE  VwapUpdate(VwapKept(t, o), x, L) = VwapKept(t, NA)
  BY <1>1 DEF VwapKept, VwapUpdate
<1>2. ASSUME x \in TradesOf(B), NEW L
      PROVE  VwapUpdate(VwapKept(t, o), x, L) = VwapKept(Ext(t, x), VwapAt(Ext(t, x)))
  <2>1. x.c \in Int /\ x.v \in Int /\ x.day \in Int
    BY <1>2 DEF TradesOf
  <2>2. PICK r : r = Ext(t, x) /\ r # <<>> /\ r[Len(r)].day = x.day
    <3>1. Ext(t, x) # <<>> /\ Ext(t, x)[Len(Ext(t, x))] = x
      BY <1>2 DEF Ext
    <3>2. QED
      BY <3>1
  <2>3. PICK v, p, v2, p2 :
          /\ v = Total(Volumes(LastDay(t))) /\ p = Dot(Closes(LastDay(t)), Volumes(LastDay(t)))
          /\ v2 = Total(Volumes(LastDay(r))) /\ p2 = Dot(Closes(LastDay(r)), Volumes(LastDay(r)))
    OBVIOUS
  <2>4. SessionGrows(t, x)
    BY <1>2, SessionExt
  <2>5. PICK same \in BOOLEAN : same = (t # <<>> /\ t[Len(t)].day = x.day)
    OBVIOUS
  <2>6. /\ v2 = x.v + (IF same THEN v ELSE 0)
        /\ p2 = x.c * x.v + (IF same THEN p ELSE 0)
    BY <2>2, <2>3, <2>4, <2>5 DEF SessionGrows
  <2>7. VwapKept(r, VwapAt(r)) = [vol |-> v2, pv |-> p2, day |-> x.day,
                                  out |-> IF v2 = 0 THEN NA ELSE Frac(p2, v2)]
    BY <2>2, <2>3 DEF VwapKept, VwapAt, Vwma
  <2>8. PICK d : d = IF t = <<>> THEN NA ELSE t[Len(t)].day
    OBVIOUS
  <2>9. same = (d = x.day)
    <3>1. NA # x.day
      BY <2>1
    <3>2. QED
      BY <2>5, <2>8, <3>1
  <2>10. VwapKept(t, o) = [vol |-> IF t = <<>> THEN 0 ELSE v, pv |-> IF t = <<>> THEN 0 ELSE p,
                           day |-> d, out |-> o]
    BY <2>3, <2>8 DEF VwapKept
  <2>11. PICK k \in Int : k = x.c * x.v
    BY <2>1
  <2>12. PICK u, w : /\ u = (IF d # NA /\ d # x.day THEN 0 ELSE IF t = <<>> THEN 0 ELSE v) + x.v
                    /\ w = (IF d # NA /\ d # x.day THEN 0 ELSE IF t = <<>> THEN 0 ELSE p) + k
    OBVIOUS
  <2>13. VwapUpdate(VwapKept(t, o), x, L)
           = [vol |-> u, pv |-> w, day |-> x.day, out |-> IF u = 0 THEN NA ELSE Frac(w, u)]
    BY <2>1, <2>10, <2>11, <2>12 DEF VwapUpdate
  <2>14. u = v2 /\ w = p2
    <3>1. CASE same
      <4>1. v \in Int /\ p \in Int /\ t # <<>> /\ d = x.day
        BY <2>3, <2>4, <2>5, <2>9, <3>1 DEF SessionGrows
      <4>2. QED
        BY <2>1, <2>6, <2>11, <2>12, <3>1, <4>1
    <3>2. CASE ~same
      <4>1. d # x.day /\ (t = <<>> \/ d # NA)
        <5>1. ASSUME t # <<>>
              PROVE  d \in Int
          <6>1. t[Len(t)] \in TradesOf(B)
            BY <5>1
          <6>2. QED
            BY <2>8, <5>1, <6>1
        <5>2. QED
          BY <2>9, <3>2, <5>1
      <4>2. u = 0 + x.v /\ w = 0 + k
        BY <2>12, <4>1
      <4>3. QED
        BY <2>1, <2>6, <2>11, <3>2, <4>2
    <3>3. QED
      BY <3>1, <3>2
  <2>15. QED
    BY <2>2, <2>7, <2>13, <2>14
<1>3. QED
  BY <1>1, <1>2

-----------------------------------------------------------------------------
(* Money flow *)

LEMMA Listed ==
  ASSUME NEW U, NEW n \in Nat, NEW f \in [1..n -> U]
  PROVE  f \in Seq(U) /\ Len(f) = n
OBVIOUS

LEMMA IntExt ==
  ASSUME NEW s \in Seq(Int), NEW e \in Int
  PROVE  /\ Ext(s, e) \in Seq(Int) /\ Len(Ext(s, e)) = Len(s) + 1
         /\ Ext(s, e)[Len(s) + 1] = e
         /\ \A i \in 1..Len(s) : Ext(s, e)[i] = s[i]
<1>1. PICK U : U = Int
  OBVIOUS
<1>2. s \in Seq(U) /\ e \in U
  BY <1>1
<1>3. /\ Ext(s, e) \in Seq(U) /\ Len(Ext(s, e)) = Len(s) + 1
      /\ Ext(s, e)[Len(s) + 1] = e
      /\ \A i \in 1..Len(s) : Ext(s, e)[i] = s[i]
  BY <1>2, ExtIs
<1>4. QED
  BY <1>1, <1>3

LEMMA IntRest ==
  ASSUME NEW s \in Seq(Int), s # <<>>
  PROVE  /\ Rest(s) \in Seq(Int) /\ Len(Rest(s)) = Len(s) - 1
         /\ \A i \in 1..(Len(s) - 1) : Rest(s)[i] = s[i + 1]
<1>1. PICK U : U = Int
  OBVIOUS
<1>2. s \in Seq(U)
  BY <1>1
<1>3. QED
  BY <1>1, <1>2, RestIs

\* What g says of every bar but the first and the bar before it.
Legs(g, s) == [i \in 1..(Len(s) - 1) |-> g[<<s[i + 1], s[i]>>]]

LEMMA LegsExt ==
  ASSUME NEW T, NEW g \in Maps(T \X T, Int), NEW s \in Seq(T), NEW x \in T
  PROVE  /\ s = <<>> => Legs(g, Ext(s, x)) = <<>>
         /\ s # <<>> => /\ Legs(g, s) \in Seq(Int) /\ Len(Legs(g, s)) = Len(s) - 1
                        /\ s[Len(s)] \in T /\ g[<<x, s[Len(s)]>>] \in Int
                        /\ Legs(g, Ext(s, x)) = Ext(Legs(g, s), g[<<x, s[Len(s)]>>])
<1>1. PICK n \in Nat, r \in Seq(T) : n = Len(s) /\ r = Ext(s, x) /\ Len(r) = n + 1
                                    /\ r[n + 1] = x /\ \A i \in 1..n : r[i] = s[i]
  <2>1. /\ Ext(s, x) \in Seq(T) /\ Len(Ext(s, x)) = Len(s) + 1
        /\ Ext(s, x)[Len(s) + 1] = x /\ \A i \in 1..Len(s) : Ext(s, x)[i] = s[i]
    BY ExtIs
  <2>2. PICK n \in Nat : n = Len(s)
    OBVIOUS
  <2>3. QED
    BY <2>1, <2>2
<1>2. CASE s = <<>>
  <2>1. n = 0
    BY <1>1, <1>2
  <2>2. QED
    BY <1>1, <1>2, <2>1 DEF Legs
<1>3. CASE s # <<>>
  <2>1. n # 0 /\ s[n] \in T
    BY <1>1, <1>3
  <2>2. \A a \in T, b \in T : g[<<a, b>>] \in Int
    BY DEF Maps
  <2>3. PICK e \in Int : e = g[<<x, s[n]>>]
    BY <2>1, <2>2
  <2>4. PICK m \in Nat : n = m + 1
    <3>1. n - 1 \in Nat /\ n = n - 1 + 1
      BY <2>1
    <3>2. QED
      BY <3>1
  <2>5. PICK a \in Seq(Int) : a = Legs(g, s) /\ Len(a) = m
                              /\ \A i \in 1..m : a[i] = g[<<s[i + 1], s[i]>>]
    <3>1. Legs(g, s) = [i \in 1..m |-> g[<<s[i + 1], s[i]>>]]
      BY <1>1, <2>4 DEF Legs
    <3>2. \A i \in 1..n : s[i] \in T
      BY <1>1
    <3>3. \A i \in 1..m : i \in 1..n /\ i + 1 \in 1..n
      BY <2>4
    <3>4. \A i \in 1..m : g[<<s[i + 1], s[i]>>] \in Int
      BY <2>2, <3>2, <3>3
    <3>5. [i \in 1..m |-> g[<<s[i + 1], s[i]>>]] \in [1..m -> Int]
      BY <3>4
    <3>6. [i \in 1..m |-> g[<<s[i + 1], s[i]>>]] \in Seq(Int)
          /\ Len([i \in 1..m |-> g[<<s[i + 1], s[i]>>]]) = m
      BY <3>5, Listed
    <3>7. QED
      BY <3>1, <3>6
  <2>6. PICK b \in Seq(Int) : b = Legs(g, r) /\ Len(b) = m + 1
                              /\ \A i \in 1..(m + 1) : b[i] = g[<<r[i + 1], r[i]>>]
    <3>1. Legs(g, r) = [i \in 1..(m + 1) |-> g[<<r[i + 1], r[i]>>]]
      BY <1>1, <2>4 DEF Legs
    <3>2. \A i \in 1..(n + 1) : r[i] \in T
      BY <1>1
    <3>3. \A i \in 1..(m + 1) : i \in 1..(n + 1) /\ i + 1 \in 1..(n + 1)
      BY <2>4
    <3>4. \A i \in 1..(m + 1) : g[<<r[i + 1], r[i]>>] \in Int
      BY <2>2, <3>2, <3>3
    <3>5. [i \in 1..(m + 1) |-> g[<<r[i + 1], r[i]>>]] \in [1..(m + 1) -> Int]
      BY <3>4
    <3>6. m + 1 \in Nat
      OBVIOUS
    <3>7. QED
      BY <3>1, <3>5, <3>6, Listed
  <2>7. PICK c \in Seq(Int) : c = Ext(a, e) /\ Len(c) = m + 1 /\ c[m + 1] = e
                              /\ \A i \in 1..m : c[i] = a[i]
    <3>1. /\ Ext(a, e) \in Seq(Int) /\ Len(Ext(a, e)) = Len(a) + 1
          /\ Ext(a, e)[Len(a) + 1] = e /\ \A i \in 1..Len(a) : Ext(a, e)[i] = a[i]
      BY IntExt
    <3>2. QED
      BY <2>5, <3>1
  <2>8. \A i \in 1..m : b[i] = c[i]
    <3> SUFFICES ASSUME NEW i \in 1..m PROVE b[i] = c[i]
      OBVIOUS
    <3>1. i \in 1..n /\ i + 1 \in 1..n /\ i \in 1..(m + 1)
      BY <2>4
    <3>2. r[i] = s[i] /\ r[i + 1] = s[i + 1]
      BY <1>1, <3>1
    <3>3. QED
      BY <2>5, <2>6, <2>7, <3>1, <3>2
  <2>9. b[m + 1] = c[m + 1]
    <3>1. n \in 1..n /\ n \in 1..(m + 1)
      BY <2>4
    <3>2. r[n] = s[n] /\ r[n + 1] = x
      BY <1>1, <3>1
    <3>3. b[n] = g[<<r[n + 1], r[n]>>]
      BY <2>6, <3>1
    <3>4. QED
      BY <2>3, <2>4, <2>7, <3>2, <3>3
  <2>10. \A i \in 1..(m + 1) : b[i] = c[i]
    <3>1. \A i \in 1..(m + 1) : i \in 1..m \/ i = m + 1
      OBVIOUS
    <3>2. QED
      BY <2>8, <2>9, <3>1
  <2>11. b = c
    BY <2>6, <2>7, <2>10, SeqEqual
  <2>12. Legs(g, Ext(s, x)) = Ext(Legs(g, s), g[<<x, s[Len(s)]>>])
    BY <1>1, <2>3, <2>5, <2>6, <2>7, <2>11
  <2>13. m = Len(s) - 1
    BY <1>1, <2>4
  <2>14. QED
    BY <1>1, <1>3, <2>1, <2>3, <2>5, <2>12, <2>13
<1>4. QED
  BY <1>2, <1>3

LEMMA LegsRest ==
  ASSUME NEW T, NEW g \in Maps(T \X T, Int), NEW s \in Seq(T), Len(s) >= 2
  PROVE  /\ Legs(g, s) \in Seq(Int) /\ Legs(g, s) # <<>>
         /\ First(Legs(g, s)) = g[<<s[2], s[1]>>] /\ s[1] \in T /\ s[2] \in T
         /\ Legs(g, Rest(s)) = Rest(Legs(g, s))
<1>1. PICK m \in Nat : Len(s) = m + 2
  <2>1. Len(s) - 2 \in Nat /\ Len(s) = Len(s) - 2 + 2
    OBVIOUS
  <2>2. QED
    BY <2>1
<1>2. s # <<>>
  OBVIOUS
<1>3. PICK r \in Seq(T) : r = Rest(s) /\ Len(r) = m + 1 /\ \A i \in 1..(m + 1) : r[i] = s[i + 1]
  BY <1>1, <1>2, RestIs
<1>4. \A a \in T, b \in T : g[<<a, b>>] \in Int
  BY DEF Maps
<1>5. PICK a \in Seq(Int) : a = Legs(g, s) /\ Len(a) = m + 1
                            /\ \A i \in 1..(m + 1) : a[i] = g[<<s[i + 1], s[i]>>]
  <2>1. Legs(g, s) = [i \in 1..(m + 1) |-> g[<<s[i + 1], s[i]>>]]
    BY <1>1 DEF Legs
  <2>2. \A i \in 1..(m + 1) : s[i + 1] \in T /\ s[i] \in T
    BY <1>1
  <2>3. \A i \in 1..(m + 1) : g[<<s[i + 1], s[i]>>] \in Int
    BY <1>4, <2>2
  <2>4. [i \in 1..(m + 1) |-> g[<<s[i + 1], s[i]>>]] \in [1..(m + 1) -> Int] /\ m + 1 \in Nat
    BY <2>3
  <2>5. Legs(g, s) \in Seq(Int) /\ Len(Legs(g, s)) = m + 1
    BY <2>1, <2>4, Listed
  <2>6. QED
    BY <2>1, <2>5
<1>6. PICK b \in Seq(Int) : b = Legs(g, r) /\ Len(b) = m
                            /\ \A i \in 1..m : b[i] = g[<<r[i + 1], r[i]>>]
  <2>1. Legs(g, r) = [i \in 1..m |-> g[<<r[i + 1], r[i]>>]]
    BY <1>3 DEF Legs
  <2>2. \A i \in 1..m : r[i + 1] \in T /\ r[i] \in T
    BY <1>3
  <2>3. \A i \in 1..m : g[<<r[i + 1], r[i]>>] \in Int
    BY <1>4, <2>2
  <2>4. [i \in 1..m |-> g[<<r[i + 1], r[i]>>]] \in [1..m -> Int]
    BY <2>3
  <2>5. Legs(g, r) \in Seq(Int) /\ Len(Legs(g, r)) = m
    BY <2>1, <2>4, Listed
  <2>6. QED
    BY <2>1, <2>5
<1>7. a # <<>>
  BY <1>5
<1>8. PICK c \in Seq(Int) : c = Rest(a) /\ Len(c) = m /\ \A i \in 1..m : c[i] = a[i + 1]
  <2>1. /\ Rest(a) \in Seq(Int) /\ Len(Rest(a)) = Len(a) - 1
        /\ \A i \in 1..(Len(a) - 1) : Rest(a)[i] = a[i + 1]
    BY <1>7, IntRest
  <2>2. Len(a) - 1 = m
    BY <1>5
  <2>3. QED
    BY <2>1, <2>2
<1>9. \A i \in 1..m : b[i] = c[i]
  <2> SUFFICES ASSUME NEW i \in 1..m PROVE b[i] = c[i]
    OBVIOUS
  <2>1. i \in 1..(m + 1) /\ i + 1 \in 1..(m + 1)
    OBVIOUS
  <2>2. r[i] = s[i + 1] /\ r[i + 1] = s[i + 1 + 1]
    BY <1>3, <2>1
  <2>3. QED
    BY <1>5, <1>6, <1>8, <2>1, <2>2
<1>10. b = c
  BY <1>6, <1>8, <1>9, SeqEqual
<1>11. First(a) = a[1] /\ 1 \in 1..(m + 1)
  BY <1>7 DEF First
<1>12. s[1] \in T /\ s[2] \in T /\ a[1] = g[<<s[2], s[1]>>]
  BY <1>1, <1>5, <1>11
<1>13. QED
  BY <1>3, <1>5, <1>6, <1>7, <1>8, <1>10, <1>11, <1>12

FlowParts(B, all, up, down) ==
  \A a \in TradesOf(B), b \in TradesOf(B) :
    /\ all[<<a, b>>] = a.c * a.v
    /\ a.c > b.c => up[<<a, b>>] = a.c * a.v /\ down[<<a, b>>] = 0
    /\ a.c < b.c => up[<<a, b>>] = 0 /\ down[<<a, b>>] = a.c * a.v
    /\ a.c = b.c => up[<<a, b>>] = 0 /\ down[<<a, b>>] = 0

FlowsAre(B, all, up, down) ==
  \A s \in Seq(TradesOf(B)) :
    /\ Flows(Closes(s), Volumes(s)) = Legs(all, s)
    /\ Inflow(Closes(s), Volumes(s)) = Total(Legs(up, s))
    /\ Outflow(Closes(s), Volumes(s)) = Total(Legs(down, s))

LEMMA FlowMaps ==
  ASSUME NEW B
  PROVE  \E all, up, down \in Maps(TradesOf(B) \X TradesOf(B), Int) :
           FlowParts(B, all, up, down) /\ FlowsAre(B, all, up, down)
<1> DEFINE T == TradesOf(B)
           all == [p \in T \X T |-> p[1].c * p[1].v]
           up == [p \in T \X T |-> IF p[1].c > p[2].c THEN p[1].c * p[1].v ELSE 0]
           down == [p \in T \X T |-> IF p[1].c < p[2].c THEN p[1].c * p[1].v ELSE 0]
<1>1. \A b \in T : b.c \in Int /\ b.v \in Int /\ b.c * b.v \in Int
  BY DEF TradesOf
<1> HIDE DEF T
<1>2. all \in Maps(T \X T, Int) /\ up \in Maps(T \X T, Int) /\ down \in Maps(T \X T, Int)
  BY <1>1 DEF Maps
<1>3. \A a \in T, b \in T :
        /\ all[<<a, b>>] = a.c * a.v
        /\ up[<<a, b>>] = IF a.c > b.c THEN a.c * a.v ELSE 0
        /\ down[<<a, b>>] = IF a.c < b.c THEN a.c * a.v ELSE 0
  OBVIOUS
<1>4. FlowParts(B, all, up, down)
  <2>1. \A a \in T, b \in T : /\ a.c > b.c => ~(a.c < b.c)
                              /\ a.c < b.c => ~(a.c > b.c)
                              /\ a.c = b.c => ~(a.c > b.c) /\ ~(a.c < b.c)
    BY <1>1
  <2>2. QED
    BY <1>3, <2>1 DEF FlowParts, T
<1> HIDE DEF all, up, down
<1>5. FlowsAre(B, all, up, down)
  <2> SUFFICES ASSUME NEW s \in Seq(T)
               PROVE  /\ Flows(Closes(s), Volumes(s)) = Legs(all, s)
                      /\ Inflow(Closes(s), Volumes(s)) = Total(Legs(up, s))
                      /\ Outflow(Closes(s), Volumes(s)) = Total(Legs(down, s))
    BY DEF FlowsAre, T
  <2>1. PICK n \in Nat : n = Len(s)
    OBVIOUS
  <2>2. PICK w, u : /\ w = Closes(s) /\ u = Volumes(s) /\ Len(w) = n
                    /\ \A i \in 1..n : w[i] = s[i].c /\ u[i] = s[i].v
    <3>1. PICK w : w = Closes(s) /\ w = [i \in 1..n |-> s[i].c]
      BY <2>1 DEF Closes
    <3>2. PICK u : u = Volumes(s) /\ u = [i \in 1..n |-> s[i].v]
      BY <2>1 DEF Volumes
    <3>3. Len(w) = n
      BY <3>1
    <3>4. QED
      BY <3>1, <3>2, <3>3
  <2>3. \A i \in 1..(n - 1) : /\ s[i] \in T /\ s[i + 1] \in T
                              /\ w[i] = s[i].c /\ w[i + 1] = s[i + 1].c /\ u[i + 1] = s[i + 1].v
    BY <2>1, <2>2
  <2>4. Flows(w, u) = Legs(all, s)
    BY <1>3, <2>1, <2>2, <2>3 DEF Flows, Legs
  <2>5. Inflow(w, u) = Total(Legs(up, s))
    <3>1. [i \in 1..(n - 1) |-> IF (TRUE /\ w[i + 1] > w[i]) \/ (~TRUE /\ w[i + 1] < w[i])
                                THEN w[i + 1] * u[i + 1] ELSE 0] = Legs(up, s)
      BY <1>3, <2>1, <2>3 DEF Legs
    <3>2. QED
      BY <2>2, <3>1 DEF Flow, Inflow
  <2>6. Outflow(w, u) = Total(Legs(down, s))
    <3>1. [i \in 1..(n - 1) |-> IF (FALSE /\ w[i + 1] > w[i]) \/ (~FALSE /\ w[i + 1] < w[i])
                                THEN w[i + 1] * u[i + 1] ELSE 0] = Legs(down, s)
      BY <1>3, <2>1, <2>3 DEF Legs
    <3>2. QED
      BY <2>2, <3>1 DEF Flow, Outflow
  <2>7. QED
    BY <2>2, <2>4, <2>5, <2>6
<1>6. QED
  BY <1>2, <1>4, <1>5 DEF T

\* The flows of a window that one traded bar joins, and that its first bar leaves.
FlowGrows(s, x) ==
  LET w == Closes(s)
      u == Volumes(s)
      w2 == Closes(Ext(s, x))
      u2 == Volumes(Ext(s, x))
  IN  /\ Inflow(w, u) \in Int /\ Outflow(w, u) \in Int
      /\ s # <<>> => Last(w) \in Int
      /\ Flows(w2, u2) = IF s = <<>> THEN <<>> ELSE Ext(Flows(w, u), x.c * x.v)
      /\ Inflow(w2, u2)
           = Inflow(w, u) + (IF s # <<>> /\ x.c > Last(w) THEN x.c * x.v ELSE 0)
      /\ Outflow(w2, u2)
           = Outflow(w, u) + (IF s # <<>> /\ x.c < Last(w) THEN x.c * x.v ELSE 0)

FlowDrops(s) ==
  LET w == Closes(s)
      u == Volumes(s)
      w2 == Closes(Rest(s))
      u2 == Volumes(Rest(s))
  IN  /\ Inflow(w, u) \in Int /\ Outflow(w, u) \in Int
      /\ w[1] \in Int /\ w[2] \in Int /\ Flows(w, u)[1] \in Int
      /\ w2 = Rest(w) /\ Flows(w2, u2) = Rest(Flows(w, u))
      /\ Inflow(w2, u2) = Inflow(w, u) - (IF w[2] > w[1] THEN Flows(w, u)[1] ELSE 0)
      /\ Outflow(w2, u2) = Outflow(w, u) - (IF w[2] < w[1] THEN Flows(w, u)[1] ELSE 0)

LEMMA FlowExt ==
  ASSUME NEW B, NEW s \in Seq(TradesOf(B)), NEW x \in TradesOf(B)
  PROVE  FlowGrows(s, x)
<1> DEFINE T == TradesOf(B)
<1>1. PICK all \in Maps(T \X T, Int), up \in Maps(T \X T, Int), down \in Maps(T \X T, Int) :
        FlowParts(B, all, up, down) /\ FlowsAre(B, all, up, down)
  BY FlowMaps
<1>2. \A b \in T : b.c \in Int /\ b.v \in Int
  BY DEF TradesOf
<1>3. PICK k \in Int : k = x.c * x.v
  BY <1>2
<1>4. PICK r \in Seq(T) : r = Ext(s, x)
  BY ExtIs
<1>5. PICK w, u, w2, u2 : w = Closes(s) /\ u = Volumes(s) /\ w2 = Closes(r) /\ u2 = Volumes(r)
  OBVIOUS
<1>6. /\ Flows(w, u) = Legs(all, s) /\ Inflow(w, u) = Total(Legs(up, s))
      /\ Outflow(w, u) = Total(Legs(down, s))
      /\ Flows(w2, u2) = Legs(all, r) /\ Inflow(w2, u2) = Total(Legs(up, r))
      /\ Outflow(w2, u2) = Total(Legs(down, r))
  BY <1>1, <1>4, <1>5 DEF FlowsAre
<1>7. CASE s = <<>>
  <2>1. Legs(all, r) = <<>> /\ Legs(up, r) = <<>> /\ Legs(down, r) = <<>>
    <3>1. Len(r) = 1
      BY <1>4, <1>7 DEF Ext
    <3>2. QED
      BY <3>1 DEF Legs
  <2>2. Legs(up, s) = <<>> /\ Legs(down, s) = <<>>
    BY <1>7 DEF Legs
  <2>3. /\ Inflow(w, u) = 0 /\ Outflow(w, u) = 0 /\ Flows(w2, u2) = <<>>
        /\ Inflow(w2, u2) = 0 /\ Outflow(w2, u2) = 0
    BY <1>6, <2>1, <2>2, TotalEmpty
  <2>4. /\ Inflow(w2, u2) = Inflow(w, u) + 0 /\ Outflow(w2, u2) = Outflow(w, u) + 0
    BY <2>3
  <2>5. Inflow(w, u) \in Int /\ Outflow(w, u) \in Int
    BY <2>3
  <2>6. QED
    BY <1>4, <1>5, <1>7, <2>3, <2>4, <2>5 DEF FlowGrows
<1>8. CASE s # <<>>
  <2>1. PICK b \in T : b = s[Len(s)]
    BY <1>8
  <2>2. Last(w) = b.c
    <3>1. Len(s) \in 1..Len(s)
      BY <1>8
    <3>2. w[Len(s)] = b.c /\ Len(w) = Len(s)
      BY <1>5, <2>1, <3>1 DEF Closes
    <3>3. QED
      BY <3>2 DEF Last
  <2>3. PICK e \in Int, f \in Int, d \in Int : e = all[<<x, b>>] /\ f = up[<<x, b>>] /\ d = down[<<x, b>>]
    <3>1. all[<<x, b>>] \in Int /\ up[<<x, b>>] \in Int /\ down[<<x, b>>] \in Int
      BY <1>1 DEF Maps
    <3>2. QED
      BY <3>1
  <2>4. /\ Legs(all, r) = Ext(Legs(all, s), e)
        /\ Legs(up, r) = Ext(Legs(up, s), f) /\ Legs(up, s) \in Seq(Int)
        /\ Legs(down, r) = Ext(Legs(down, s), d) /\ Legs(down, s) \in Seq(Int)
    BY <1>1, <1>4, <1>8, <2>1, <2>3, LegsExt
  <2>5. /\ Total(Legs(up, s)) \in Int /\ Total(Legs(up, r)) = Total(Legs(up, s)) + f
        /\ Total(Legs(down, s)) \in Int /\ Total(Legs(down, r)) = Total(Legs(down, s)) + d
    BY <2>3, <2>4, TotalAppend, TotalInt
  <2>6. /\ e = k
        /\ x.c > b.c => f = k /\ d = 0
        /\ x.c < b.c => f = 0 /\ d = k
        /\ x.c = b.c => f = 0 /\ d = 0
    BY <1>1, <1>3, <2>1, <2>3 DEF FlowParts
  <2>7. f = (IF x.c > b.c THEN k ELSE 0) /\ d = (IF x.c < b.c THEN k ELSE 0)
    BY <1>2, <2>1, <2>6
  <2>8. b.c \in Int
    BY <1>2, <2>1
  <2>9. QED
    BY <1>3, <1>4, <1>5, <1>6, <1>8, <2>2, <2>4, <2>5, <2>6, <2>7, <2>8 DEF FlowGrows
<1>9. QED
  BY <1>7, <1>8

LEMMA FlowRest ==
  ASSUME NEW B, NEW s \in Seq(TradesOf(B)), Len(s) >= 2
  PROVE  FlowDrops(s)
<1> DEFINE T == TradesOf(B)
<1>1. PICK all \in Maps(T \X T, Int), up \in Maps(T \X T, Int), down \in Maps(T \X T, Int) :
        FlowParts(B, all, up, down) /\ FlowsAre(B, all, up, down)
  BY FlowMaps
<1>2. \A b \in T : b.c \in Int /\ b.v \in Int /\ b.c * b.v \in Int
  BY DEF TradesOf
<1>3. s # <<>>
  OBVIOUS
<1>4. PICK r \in Seq(T) : r = Rest(s)
  BY <1>3, RestIs
<1>5. PICK w, u, w2, u2 : w = Closes(s) /\ u = Volumes(s) /\ w2 = Closes(r) /\ u2 = Volumes(r)
  OBVIOUS
<1>6. /\ Flows(w, u) = Legs(all, s) /\ Inflow(w, u) = Total(Legs(up, s))
      /\ Outflow(w, u) = Total(Legs(down, s))
      /\ Flows(w2, u2) = Legs(all, r) /\ Inflow(w2, u2) = Total(Legs(up, r))
      /\ Outflow(w2, u2) = Total(Legs(down, r))
  BY <1>1, <1>4, <1>5 DEF FlowsAre
<1>7. PICK a \in T, b \in T : a = s[1] /\ b = s[2] /\ w[1] = a.c /\ w[2] = b.c
  <2>1. s[1] \in T /\ s[2] \in T /\ 1 \in 1..Len(s) /\ 2 \in 1..Len(s)
    OBVIOUS
  <2>2. w[1] = s[1].c /\ w[2] = s[2].c
    BY <1>5, <2>1 DEF Closes
  <2>3. QED
    BY <2>1, <2>2
<1>8. PICK e \in Int, f \in Int, d \in Int : e = all[<<b, a>>] /\ f = up[<<b, a>>] /\ d = down[<<b, a>>]
  <2>1. all[<<b, a>>] \in Int /\ up[<<b, a>>] \in Int /\ down[<<b, a>>] \in Int
    BY <1>1, <1>7 DEF Maps
  <2>2. QED
    BY <2>1
<1>9. /\ Legs(all, s) \in Seq(Int) /\ Legs(all, s) # <<>> /\ First(Legs(all, s)) = e
      /\ Legs(up, s) \in Seq(Int) /\ Legs(up, s) # <<>> /\ First(Legs(up, s)) = f
      /\ Legs(down, s) \in Seq(Int) /\ Legs(down, s) # <<>> /\ First(Legs(down, s)) = d
      /\ Legs(all, r) = Rest(Legs(all, s)) /\ Legs(up, r) = Rest(Legs(up, s))
      /\ Legs(down, r) = Rest(Legs(down, s))
  BY <1>1, <1>4, <1>7, <1>8, LegsRest
<1>10. /\ Total(Legs(up, s)) \in Int /\ Total(Legs(up, r)) = Total(Legs(up, s)) - f
       /\ Total(Legs(down, s)) \in Int /\ Total(Legs(down, r)) = Total(Legs(down, s)) - d
  BY <1>9, TotalRest, TotalInt
<1>11. Legs(all, s)[1] = e
  BY <1>9 DEF First
<1>12. /\ b.c > a.c => f = e /\ d = 0
       /\ b.c < a.c => f = 0 /\ d = e
       /\ b.c = a.c => f = 0 /\ d = 0
  BY <1>1, <1>7, <1>8 DEF FlowParts
<1>13. f = (IF b.c > a.c THEN e ELSE 0) /\ d = (IF b.c < a.c THEN e ELSE 0) /\ a.c \in Int /\ b.c \in Int
  BY <1>2, <1>7, <1>12
<1>14. w2 = Rest(w)
  <2>1. PICK fc \in Maps(T, Int) : \A q \in Seq(T) : Closes(q) = Mapped(fc, q)
    BY TradeMaps
  <2>2. Mapped(fc, r) = Rest(Mapped(fc, s))
    <3>1. PICK n \in Nat : Len(s) = n + 1 /\ Len(r) = n /\ \A i \in 1..n : r[i] = s[i + 1]
      <4>1. Len(r) = Len(s) - 1 /\ \A i \in 1..(Len(s) - 1) : r[i] = s[i + 1]
        BY <1>3, <1>4, RestIs
      <4>2. Len(s) - 1 \in Nat
        OBVIOUS
      <4>3. QED
        BY <4>1, <4>2
    <3>2. PICK m \in Seq(Int) : m = Mapped(fc, s) /\ Len(m) = n + 1 /\ m # <<>>
                                /\ \A i \in 1..(n + 1) : m[i] = fc[s[i]]
      BY <3>1, MappedIs
    <3>3. PICK m1 \in Seq(Int) : m1 = Mapped(fc, r) /\ Len(m1) = n
                                 /\ \A i \in 1..n : m1[i] = fc[r[i]]
      BY <3>1, MappedIs
    <3>4. PICK m2 \in Seq(Int) : m2 = Rest(m) /\ Len(m2) = n /\ \A i \in 1..n : m2[i] = m[i + 1]
      <4>1. /\ Rest(m) \in Seq(Int) /\ Len(Rest(m)) = Len(m) - 1
            /\ \A i \in 1..(Len(m) - 1) : Rest(m)[i] = m[i + 1]
        BY <3>2, IntRest
      <4>2. Len(m) - 1 = n
        BY <3>2
      <4>3. QED
        BY <4>1, <4>2
    <3>5. \A i \in 1..n : m1[i] = m2[i]
      <4> SUFFICES ASSUME NEW i \in 1..n PROVE m1[i] = m2[i]
        OBVIOUS
      <4>1. i + 1 \in 1..(n + 1)
        OBVIOUS
      <4>2. m[i + 1] = fc[s[i + 1]]
        BY <3>2, <4>1
      <4>3. QED
        BY <3>1, <3>3, <3>4, <4>2
    <3>6. QED
      BY <3>2, <3>3, <3>4, <3>5, SeqEqual
  <2>3. QED
    BY <1>4, <1>5, <2>1, <2>2
<1>15. QED
  BY <1>4, <1>5, <1>6, <1>7, <1>9, <1>10, <1>11, <1>13, <1>14 DEF FlowDrops

MfiAt(t, L) == Over(t, L + 1, MfiOfBars)

LEMMA MfiOver ==
  ASSUME NEW T, NEW r \in Seq(T), NEW L \in Nat \ {0}, NEW z, z = Recent(r, L + 1)
  PROVE  /\ Len(z) <= L => MfiAt(r, L) = NA
         /\ ~(Len(z) <= L) => MfiAt(r, L) = FlowIndex(Inflow(Closes(z), Volumes(z)),
                                                      Outflow(Closes(z), Volumes(z)))
<1>1. PICK n \in Nat \ {0} : n = L + 1
  OBVIOUS
<1>2. /\ z \in Seq(T)
      /\ Len(r) < n <=> Len(z) < n
      /\ Len(r) >= n => z = LastN(r, n)
  <2>1. z = Recent(r, n)
    BY <1>1
  <2>2. /\ Recent(r, n) \in Seq(T)
        /\ Len(r) < n <=> Len(Recent(r, n)) < n
        /\ Len(r) >= n => Recent(r, n) = LastN(r, n)
    BY WindowIs
  <2>3. QED
    BY <2>1, <2>2
<1>3. Len(z) <= L <=> Len(z) < n
  BY <1>1, <1>2
<1>4. MfiAt(r, L) = IF Len(r) < n THEN NA ELSE MfiOfBars(LastN(r, n))
  BY <1>1 DEF MfiAt, Over
<1>5. QED
  <2>1. Len(r) < n <=> Len(z) <= L
    BY <1>2, <1>3
  <2>2. ~(Len(r) < n) => z = LastN(r, n)
    BY <1>2
  <2>3. QED
    BY <1>4, <2>1, <2>2 DEF MfiOfBars, Mfi, Inflow, Outflow

LEMMA MfiStep ==
  ASSUME NA \notin Int, NEW B, NEW t \in Seq(TradesOf(B)), NEW L \in Nat \ {0}, NEW x, NEW o
  PROVE  /\ x.c = NA \/ x.v = NA => MfiUpdate(MfiKept(t, L, o), x, L) = MfiKept(t, L, NA)
         /\ x \in TradesOf(B) => MfiUpdate(MfiKept(t, L, o), x, L)
                                   = MfiKept(Ext(t, x), L, MfiAt(Ext(t, x), L))
<1>1. ASSUME x.c = NA \/ x.v = NA
      PROVE  MfiUpdate(MfiKept(t, L, o), x, L) = MfiKept(t, L, NA)
  BY <1>1 DEF MfiKept, MfiUpdate
<1>2. ASSUME x \in TradesOf(B)
      PROVE  MfiUpdate(MfiKept(t, L, o), x, L) = MfiKept(Ext(t, x), L, MfiAt(Ext(t, x), L))
  <2> DEFINE T == TradesOf(B)
  <2>1. x.c \in Int /\ x.v \in Int
    BY <1>2 DEF TradesOf
  <2>2. PICK n \in Nat \ {0} : n = L + 1 /\ n >= 2
    OBVIOUS
  <2>3. PICK z \in Seq(T), r \in Seq(T), z2 \in Seq(T) :
          /\ z = Recent(t, n) /\ r = Ext(t, x) /\ z2 = Recent(r, n) /\ Len(z) <= n
          /\ z2 = Push(z, x, n)
    <3>1. PICK z, r, z2 : z = Recent(t, n) /\ r = Ext(t, x) /\ z2 = Recent(r, n)
      OBVIOUS
    <3>2. /\ Recent(t, n) \in Seq(T) /\ Len(Recent(t, n)) <= n
          /\ r \in Seq(T) /\ Recent(r, n) \in Seq(T)
          /\ Push(Recent(t, n), x, n) = Recent(r, n)
      BY <1>2, <3>1, WindowPush
    <3>3. QED
      BY <3>1, <3>2
  <2>4. PICK g \in Seq(T) : g = Ext(z, x) /\ Len(g) = Len(z) + 1
    <3>1. Ext(z, x) \in Seq(T) /\ Len(Ext(z, x)) = Len(z) + 1
      BY <1>2, ExtIs
    <3>2. QED
      BY <3>1
  <2>5. /\ Len(z) < n => z2 = g
        /\ Len(z) >= n => z2 = Rest(g)
    <3>1. /\ Len(z) < n => z2 = Ext(z, x)
          /\ Len(z) >= n => z2 = Ext(Rest(z), x)
      BY <1>2, <2>3, PushIs
    <3>2. Len(z) >= n => z # <<>>
      OBVIOUS
    <3>3. z # <<>> => Rest(Ext(z, x)) = Ext(Rest(z), x)
      BY <1>2, RestAppend
    <3>4. QED
      BY <2>4, <3>1, <3>2, <3>3
  <2>6. PICK w, fl, p, m, wg, fg, pg, mg, w2, fl2, p2, m2 :
          /\ w = Closes(z) /\ fl = Flows(Closes(z), Volumes(z))
          /\ p = Inflow(Closes(z), Volumes(z)) /\ m = Outflow(Closes(z), Volumes(z))
          /\ wg = Closes(g) /\ fg = Flows(Closes(g), Volumes(g))
          /\ pg = Inflow(Closes(g), Volumes(g)) /\ mg = Outflow(Closes(g), Volumes(g))
          /\ w2 = Closes(z2) /\ fl2 = Flows(Closes(z2), Volumes(z2))
          /\ p2 = Inflow(Closes(z2), Volumes(z2)) /\ m2 = Outflow(Closes(z2), Volumes(z2))
    OBVIOUS
  <2>7. MfiKept(t, L, o) = [sources |-> w, flows |-> fl, pos |-> p, neg |-> m, out |-> o]
    BY <2>2, <2>3, <2>6 DEF MfiKept
  <2>8. \A e : MfiKept(r, L, e) = [sources |-> w2, flows |-> fl2, pos |-> p2, neg |-> m2, out |-> e]
    BY <2>2, <2>3, <2>6 DEF MfiKept
  <2>9. PICK k \in Int : k = x.c * x.v
    BY <2>1
  <2>10. /\ wg = Ext(w, x.c) /\ Len(w) = Len(z) /\ Len(wg) = Len(z) + 1
         /\ w = <<>> <=> z = <<>>
    <3>1. Len(Closes(z)) = Len(z) /\ Closes(Ext(z, x)) = Ext(Closes(z), x.c)
      BY <1>2, ClosesExt
    <3>2. Len(Closes(g)) = Len(g)
      BY <1>2, ClosesExt
    <3>3. w = <<>> <=> z = <<>>
      BY <2>6 DEF Closes
    <3>4. QED
      BY <2>4, <2>6, <3>1, <3>2, <3>3
  <2>11. /\ p \in Int /\ m \in Int /\ (w # <<>> => Last(w) \in Int)
         /\ fg = IF w = <<>> THEN <<>> ELSE Ext(fl, k)
         /\ pg = p + (IF w # <<>> /\ x.c > Last(w) THEN k ELSE 0)
         /\ mg = m + (IF w # <<>> /\ x.c < Last(w) THEN k ELSE 0)
    <3>1. FlowGrows(z, x)
      BY <1>2, FlowExt
    <3>2. QED
      BY <2>4, <2>6, <2>9, <2>10, <3>1 DEF FlowGrows
  <2>12. pg \in Int /\ mg \in Int
    BY <2>9, <2>11
  <2>13. PICK over \in BOOLEAN : over <=> (Len(wg) > L + 1)
    OBVIOUS
  <2>14. over <=> Len(z) >= n
    BY <2>2, <2>10, <2>13
  <2>15. ASSUME Len(z) < n
         PROVE  w2 = wg /\ fl2 = fg /\ p2 = pg /\ m2 = mg
    BY <2>5, <2>6, <2>15
  <2>16. ASSUME Len(z) >= n
         PROVE  /\ w2 = Rest(wg) /\ fl2 = Rest(fg) /\ fg[1] \in Int
                /\ p2 = pg - (IF wg[2] > wg[1] THEN fg[1] ELSE 0)
                /\ m2 = mg - (IF wg[2] < wg[1] THEN fg[1] ELSE 0)
    <3>1. Len(g) >= 2
      BY <2>2, <2>4, <2>16
    <3>2. FlowDrops(g)
      BY <3>1, FlowRest
    <3>3. QED
      BY <2>5, <2>6, <2>16, <3>2 DEF FlowDrops
  <2>17. PICK e : e = MfiAt(r, L)
    OBVIOUS
  <2>18. /\ Len(wg) <= L => e = NA
         /\ ~(Len(wg) <= L) => e = FlowIndex(p2, m2)
    <3>1. z2 = Recent(r, L + 1)
      BY <2>2, <2>3
    <3>2. /\ Len(z2) <= L => MfiAt(r, L) = NA
          /\ ~(Len(z2) <= L) => MfiAt(r, L) = FlowIndex(p2, m2)
      BY <2>6, <3>1, MfiOver
    <3>3. Len(z2) <= L <=> Len(wg) <= L
      <4>1. CASE Len(z) < n
        BY <2>4, <2>5, <2>10, <4>1
      <4>2. CASE Len(z) >= n
        <5>1. Len(z2) = n
          BY <1>2, <2>3, <4>2, PushIs
        <5>2. QED
          BY <2>2, <2>10, <4>2, <5>1
      <4>3. QED
        BY <4>1, <4>2
    <3>4. QED
      BY <2>17, <3>2, <3>3
  <2> DEFINE E1 == IF ~(w = <<>>) /\ x.c > Last(w) THEN k ELSE 0
             E2 == IF ~(w = <<>>) /\ x.c < Last(w) THEN k ELSE 0
             C1 == IF Len(wg) > L + 1 /\ wg[2] > wg[1] THEN fg[1] ELSE 0
             C2 == IF Len(wg) > L + 1 /\ wg[2] < wg[1] THEN fg[1] ELSE 0
  <2>19. PICK a, b : a = p + E1 - C1 /\ b = m + E2 - C2
    OBVIOUS
  <2>20. MfiUpdate(MfiKept(t, L, o), x, L)
           = [sources |-> IF over THEN Rest(wg) ELSE wg, flows |-> IF over THEN Rest(fg) ELSE fg,
              pos |-> a, neg |-> b, out |-> IF Len(wg) <= L THEN NA ELSE FlowIndex(a, b)]
    <3>1. ~(x.c = NA \/ x.v = NA)
      BY <2>1
    <3>2. QED
      <4>1. Append(w, x.c) = wg
        BY <2>10 DEF Ext
      <4>2. (IF w = <<>> THEN <<>> ELSE Append(fl, k)) = fg
        BY <2>11 DEF Ext
      <4>3. PICK y : y = MfiUpdate([sources |-> w, flows |-> fl, pos |-> p, neg |-> m, out |-> o], x, L)
        OBVIOUS
      <4>4. y = [sources |-> IF Len(wg) > L + 1 THEN Tail(wg) ELSE wg,
                 flows |-> IF Len(wg) > L + 1 THEN Tail(fg) ELSE fg,
                 pos |-> p + E1 - C1, neg |-> m + E2 - C2,
                 out |-> IF Len(wg) <= L THEN NA ELSE FlowIndex(p + E1 - C1, m + E2 - C2)]
        BY <2>9, <3>1, <4>1, <4>2, <4>3, Zenon DEF MfiUpdate
      <4> HIDE DEF E1, E2, C1, C2
      <4>6. y = [sources |-> IF Len(wg) > L + 1 THEN Tail(wg) ELSE wg,
                 flows |-> IF Len(wg) > L + 1 THEN Tail(fg) ELSE fg,
                 pos |-> a, neg |-> b,
                 out |-> IF Len(wg) <= L THEN NA ELSE FlowIndex(a, b)]
        BY <2>19, <4>4
      <4>7. QED
        BY <2>7, <2>13, <4>3, <4>6 DEF Rest
  <2>21. a = p2 /\ b = m2
    <3>1. pg = p + E1 /\ mg = m + E2
      BY <2>11
    <3>2. /\ ~over => C1 = 0 /\ C2 = 0
          /\ over => /\ C1 = IF wg[2] > wg[1] THEN fg[1] ELSE 0
                     /\ C2 = IF wg[2] < wg[1] THEN fg[1] ELSE 0
      BY <2>13
    <3>3. over => p2 = pg - C1 /\ m2 = mg - C2
      <4>1. ASSUME over PROVE p2 = pg - C1 /\ m2 = mg - C2
        BY <2>14, <2>16, <3>2, <4>1
      <4>2. QED
        BY <4>1
    <3>4. a = pg - C1 /\ b = mg - C2
      <4>1. E1 \in Int /\ E2 \in Int
        BY <2>9
      <4>2. C1 \in Int /\ C2 \in Int
        <5>1. over => fg[1] \in Int
          BY <2>14, <2>16
        <5>2. QED
          BY <2>13, <5>1
      <4> HIDE DEF E1, E2, C1, C2
      <4>3. QED
        BY <2>11, <2>19, <3>1, <4>1, <4>2
    <3> HIDE DEF E1, E2, C1, C2
    <3>5. CASE ~over
      BY <2>12, <2>14, <2>15, <3>2, <3>4, <3>5
    <3>6. CASE over
      BY <3>3, <3>4, <3>6
    <3>7. QED
      BY <3>5, <3>6
  <2>22. MfiUpdate(MfiKept(t, L, o), x, L)
           = [sources |-> w2, flows |-> fl2, pos |-> p2, neg |-> m2, out |-> e]
    BY <2>14, <2>15, <2>16, <2>18, <2>20, <2>21
  <2>23. QED
    BY <2>3, <2>8, <2>17, <2>22
<1>3. QED
  BY <1>1, <1>2

-----------------------------------------------------------------------------
(* The average of hma *)

LEMMA HalfIs ==
  ASSUME NEW n \in Nat \ {0}
  PROVE  Half(n) \in Nat \ {0} /\ Half(n) <= n
<1>1. n \div 2 \in Int /\ n % 2 \in 0..1 /\ n = 2 * (n \div 2) + (n % 2)
  OBVIOUS
<1>2. QED
  BY <1>1 DEF Half

LEMMA RootExists ==
  ASSUME NEW n \in Nat \ {0}
  PROVE  \E r \in 1..n : r * r <= n /\ n < (r + 1) * (r + 1)
<1> DEFINE Has(k) == \E r \in 1..k : r * r <= k /\ k < (r + 1) * (r + 1)
           S == {k \in Nat : k # 0 => Has(k)}
<1>1. 0 \in S
  OBVIOUS
<1>2. ASSUME NEW k \in Nat, k \in S
      PROVE  k + 1 \in S
  <2>1. CASE k = 0
    <3>1. 1 \in 1..(k + 1) /\ 1 * 1 <= k + 1 /\ k + 1 < (1 + 1) * (1 + 1)
      BY <2>1
    <3>2. QED
      BY <3>1
  <2>2. CASE k # 0
    <3>1. PICK r \in 1..k : r * r <= k /\ k < (r + 1) * (r + 1)
      BY <1>2, <2>2
    <3>2. PICK s \in Int : s = (r + 1) * (r + 1)
      OBVIOUS
    <3>3. CASE k + 1 < s
      <4>1. r \in 1..(k + 1) /\ r * r <= k + 1 /\ k + 1 < (r + 1) * (r + 1)
        BY <3>1, <3>2, <3>3
      <4>2. QED
        BY <4>1
    <3>4. CASE ~(k + 1 < s)
      <4>1. k + 1 = s
        BY <3>1, <3>2, <3>4
      <4>2. (r + 1 + 1) * (r + 1 + 1) = s + 2 * (r + 1) + 1
        BY <3>2
      <4>3. r + 1 \in 1..(k + 1) /\ (r + 1) * (r + 1) <= k + 1
            /\ k + 1 < (r + 1 + 1) * (r + 1 + 1)
        BY <3>2, <4>1, <4>2
      <4>4. PICK p \in 1..(k + 1) : p = r + 1
        BY <4>3
      <4>5. p * p <= k + 1 /\ k + 1 < (p + 1) * (p + 1)
        BY <4>3, <4>4
      <4>6. QED
        BY <4>5
    <3>5. QED
      BY <3>3, <3>4
  <2>3. QED
    BY <2>1, <2>2
<1> HIDE DEF S
<1>3. Nat \subseteq S
  BY <1>1, <1>2, FT!SetInduction
<1>4. QED
  BY <1>3 DEF S

LEMMA RootIs ==
  ASSUME NEW n \in Nat \ {0}
  PROVE  Root(n) \in Nat \ {0}
<1>1. Root(n) \in 1..n
  BY RootExists DEF Root
<1>2. QED
  BY <1>1

Raws == {HmaRaw(a, b) : a \in Seq(Int), b \in Seq(Int)}

\* The raw value of a whole window more, at the end of s.
RawAt(s, n) == HmaRaw(LastN(s, Half(n)), LastN(s, n))

LEMMA RawIs ==
  ASSUME NEW s \in Seq(Int), NEW n \in Nat \ {0}, Len(s) >= n
  PROVE  /\ RawAt(s, n) = HmaRaw(Recent(s, Half(n)), Recent(s, n))
         /\ RawAt(s, n) \in Raws
<1>1. Half(n) \in Nat \ {0} /\ Half(n) <= Len(s)
  BY HalfIs
<1>2. /\ Recent(s, Half(n)) = LastN(s, Half(n)) /\ Recent(s, Half(n)) \in Seq(Int)
      /\ Recent(s, n) = LastN(s, n) /\ Recent(s, n) \in Seq(Int)
  BY <1>1, WindowIs
<1>3. QED
  BY <1>2 DEF RawAt, Raws

RawsGrow(q, v, n) ==
  /\ HmaRaws(q, n) \in Seq(Raws)
  /\ Len(q) + 1 < n => HmaRaws(Ext(q, v), n) = HmaRaws(q, n) /\ HmaRaws(q, n) = <<>>
  /\ Len(q) + 1 >= n => /\ RawAt(Ext(q, v), n) \in Raws
                        /\ HmaRaws(Ext(q, v), n) = Ext(HmaRaws(q, n), RawAt(Ext(q, v), n))

LEMMA RawsAre ==
  ASSUME NEW q \in Seq(Int), NEW n \in Nat \ {0}, NEW m \in Nat,
         Len(q) < n => m = 0, Len(q) >= n => Len(q) = n + m - 1
  PROVE  /\ HmaRaws(q, n) \in Seq(Raws) /\ Len(HmaRaws(q, n)) = m
         /\ \A i \in 1..m : HmaRaws(q, n)[i] = RawAt(SubSeq(q, 1, n + i - 1), n)
<1>1. m = IF Len(q) < n THEN 0 ELSE Len(q) - n + 1
  OBVIOUS
<1>2. HmaRaws(q, n) = [i \in 1..m |-> RawAt(SubSeq(q, 1, n + i - 1), n)]
  BY <1>1 DEF HmaRaws, RawAt
<1>3. ASSUME NEW i \in 1..m
      PROVE  RawAt(SubSeq(q, 1, n + i - 1), n) \in Raws
  <2>1. PICK j \in Nat : j = n + i - 1 /\ j <= Len(q) /\ j >= n
    OBVIOUS
  <2>2. SubSeq(q, 1, j) \in Seq(Int) /\ Len(SubSeq(q, 1, j)) = j
    BY <2>1
  <2>3. QED
    BY <2>1, <2>2, RawIs
<1>4. [i \in 1..m |-> RawAt(SubSeq(q, 1, n + i - 1), n)] \in [1..m -> Raws]
  BY <1>3
<1>5. HmaRaws(q, n) \in Seq(Raws) /\ Len(HmaRaws(q, n)) = m
  BY <1>2, <1>4, Listed
<1>6. QED
  BY <1>2, <1>5

LEMMA RawsExt ==
  ASSUME NEW q \in Seq(Int), NEW v \in Int, NEW n \in Nat \ {0}
  PROVE  RawsGrow(q, v, n)
<1>1. PICK k \in Nat, r \in Seq(Int) : /\ k = Len(q) /\ r = Ext(q, v) /\ Len(r) = k + 1
                                        /\ \A i \in 1..k : r[i] = q[i]
  <2>1. /\ Ext(q, v) \in Seq(Int) /\ Len(Ext(q, v)) = Len(q) + 1
        /\ \A i \in 1..Len(q) : Ext(q, v)[i] = q[i]
    BY IntExt
  <2>2. PICK k \in Nat : k = Len(q)
    OBVIOUS
  <2>3. QED
    BY <2>1, <2>2
<1>2. PICK m \in Nat : (k < n => m = 0) /\ (k >= n => k = n + m - 1)
  <2>1. CASE k < n
    BY <2>1
  <2>2. CASE k >= n
    <3>1. k - n + 1 \in Nat /\ k = n + (k - n + 1) - 1
      BY <2>2
    <3>2. QED
      BY <2>2, <3>1
  <2>3. QED
    BY <2>1, <2>2
<1>3. /\ HmaRaws(q, n) \in Seq(Raws) /\ Len(HmaRaws(q, n)) = m
      /\ \A i \in 1..m : HmaRaws(q, n)[i] = RawAt(SubSeq(q, 1, n + i - 1), n)
  BY <1>1, <1>2, RawsAre
<1>4. ASSUME k + 1 < n
      PROVE  HmaRaws(r, n) = <<>> /\ HmaRaws(q, n) = <<>>
  <2>1. Len(HmaRaws(q, n)) = 0
    BY <1>2, <1>3, <1>4
  <2>2. Len(HmaRaws(r, n)) = 0 /\ HmaRaws(r, n) \in Seq(Raws)
    <3>1. Len(r) < n /\ ~(Len(r) >= n) /\ 0 \in Nat
      BY <1>1, <1>4
    <3>2. QED
      BY <3>1, RawsAre
  <2>3. QED
    BY <1>3, <2>1, <2>2
<1>5. ASSUME k + 1 >= n
      PROVE  /\ RawAt(r, n) \in Raws
             /\ HmaRaws(r, n) = Ext(HmaRaws(q, n), RawAt(r, n))
  <2>1. RawAt(r, n) \in Raws
    BY <1>1, <1>5, RawIs
  <2>2. PICK a \in Seq(Raws) : a = HmaRaws(q, n) /\ Len(a) = m
                               /\ \A i \in 1..m : a[i] = RawAt(SubSeq(q, 1, n + i - 1), n)
    BY <1>3
  <2>3. PICK c \in Seq(Raws) : c = Ext(a, RawAt(r, n)) /\ Len(c) = m + 1 /\ c[m + 1] = RawAt(r, n)
                               /\ \A i \in 1..m : c[i] = a[i]
    <3>1. /\ Ext(a, RawAt(r, n)) \in Seq(Raws) /\ Len(Ext(a, RawAt(r, n))) = Len(a) + 1
          /\ Ext(a, RawAt(r, n))[Len(a) + 1] = RawAt(r, n)
          /\ \A i \in 1..Len(a) : Ext(a, RawAt(r, n))[i] = a[i]
      BY <2>1, ExtIs
    <3>2. QED
      BY <2>2, <3>1
  <2>4. PICK l \in Nat : l = m + 1 /\ k + 1 = n + l - 1
    <3>1. m + 1 \in Nat /\ k + 1 = n + (m + 1) - 1
      BY <1>2, <1>5
    <3>2. QED
      BY <3>1
  <2>5. PICK b \in Seq(Raws) : b = HmaRaws(r, n) /\ Len(b) = l
                               /\ \A i \in 1..l : b[i] = RawAt(SubSeq(r, 1, n + i - 1), n)
    <3>1. (Len(r) < n => l = 0) /\ (Len(r) >= n => Len(r) = n + l - 1)
      BY <1>1, <1>5, <2>4
    <3>2. /\ HmaRaws(r, n) \in Seq(Raws) /\ Len(HmaRaws(r, n)) = l
          /\ \A i \in 1..l : HmaRaws(r, n)[i] = RawAt(SubSeq(r, 1, n + i - 1), n)
      BY <3>1, RawsAre
    <3>3. QED
      BY <3>2
  <2>6. ASSUME NEW i \in 1..m
        PROVE  b[i] = c[i]
    <3>1. PICK j \in Nat : j = n + i - 1 /\ j <= k
      BY <1>2
    <3>2. SubSeq(r, 1, j) = SubSeq(q, 1, j)
      <4>1. \A p \in 1..j : r[p] = q[p]
        BY <1>1, <3>1
      <4>2. SubSeq(r, 1, j) = [p \in 1..j |-> r[p]] /\ SubSeq(q, 1, j) = [p \in 1..j |-> q[p]]
        BY <1>1, <3>1
      <4>3. QED
        BY <4>1, <4>2
    <3>3. i \in 1..l
      BY <2>4
    <3>4. b[i] = RawAt(SubSeq(r, 1, j), n) /\ a[i] = RawAt(SubSeq(q, 1, j), n)
      BY <2>2, <2>5, <3>1, <3>3
    <3>5. QED
      BY <2>3, <3>2, <3>4
  <2>7. b[l] = c[l]
    <3>1. SubSeq(r, 1, k + 1) = r
      BY <1>1
    <3>2. b[l] = RawAt(SubSeq(r, 1, n + l - 1), n)
      <4>1. l \in 1..l
        BY <2>4
      <4>2. QED
        BY <2>5, <4>1
    <3>3. QED
      BY <2>3, <2>4, <3>1, <3>2
  <2>8. \A i \in 1..l : i \in 1..m \/ i = l
    BY <2>4
  <2>9. b = c
    BY <2>3, <2>4, <2>5, <2>6, <2>7, <2>8, SeqEqual
  <2>10. QED
    BY <2>1, <2>2, <2>3, <2>5, <2>9
<1>6. QED
  BY <1>1, <1>3, <1>4, <1>5 DEF RawsGrow

LEMMA HmaStep ==
  ASSUME NA \notin Int, NEW q \in Seq(Int), NEW L \in Nat \ {0}, NEW x, NEW o
  PROVE  /\ x.c = NA => HmaUpdate(HmaKept(q, L, o), x, L) = HmaKept(q, L, NA)
         /\ x.c \in Int => HmaUpdate(HmaKept(q, L, o), x, L)
                             = HmaKept(Ext(q, x.c), L, Hma(Ext(q, x.c), L))
<1>1. ASSUME x.c = NA
      PROVE  HmaUpdate(HmaKept(q, L, o), x, L) = HmaKept(q, L, NA)
  BY <1>1 DEF HmaKept, HmaUpdate
<1>2. ASSUME x.c \in Int
      PROVE  HmaUpdate(HmaKept(q, L, o), x, L) = HmaKept(Ext(q, x.c), L, Hma(Ext(q, x.c), L))
  <2>1. PICK v \in Int : v = x.c /\ x.c # NA
    BY <1>2
  <2>2. PICK h \in Nat \ {0}, s \in Nat \ {0} : h = Half(L) /\ s = Root(L)
    BY HalfIs, RootIs
  <2>3. PICK r \in Seq(Int) : r = Ext(q, v)
    BY IntExt
  <2>4. PICK raws, raws2 : raws \in Seq(Raws) /\ raws = HmaRaws(q, L) /\ raws2 = HmaRaws(r, L)
    BY <2>3, RawsExt DEF RawsGrow
  <2>5. PICK w, f, u, w2, f2, u2 :
          /\ w = Recent(q, h) /\ f = Recent(q, L) /\ u = Recent(raws, s)
          /\ w2 = Recent(r, h) /\ f2 = Recent(r, L) /\ u2 = Recent(raws2, s)
    OBVIOUS
  <2>6. HmaKept(q, L, o) = [halves |-> w, fulls |-> f, results |-> u, out |-> o]
    BY <2>2, <2>4, <2>5 DEF HmaKept
  <2>7. \A e : HmaKept(r, L, e) = [halves |-> w2, fulls |-> f2, results |-> u2, out |-> e]
    BY <2>2, <2>4, <2>5 DEF HmaKept
  <2>8. w2 = Push(w, v, h) /\ f2 = Push(f, v, L) /\ (Len(f2) < L <=> Len(r) < L)
    <3>1. PICK U : U = Int
      OBVIOUS
    <3>2. q \in Seq(U) /\ v \in U /\ r \in Seq(U)
      BY <3>1
    <3>3. Push(Recent(q, h), v, h) = Recent(Ext(q, v), h) /\ Push(Recent(q, L), v, L) = Recent(Ext(q, v), L)
      BY <3>2, RecentPush
    <3>4. Len(r) < L <=> Len(Recent(r, L)) < L
      BY <3>2, WindowIs
    <3>5. QED
      BY <2>3, <2>5, <3>3, <3>4
  <2>9. Len(r) = Len(q) + 1
    BY <2>3 DEF Ext
  <2>10. RawsGrow(q, v, L)
    BY RawsExt
  <2>11. PICK e, y : e = Hma(r, L) /\ y = HmaUpdate(HmaKept(q, L, o), x, L)
    OBVIOUS
  <2>12. Len(f2) \in Nat
    BY <2>5, WindowIs
  <2>13. CASE Len(r) < L
    <3>1. raws2 = raws /\ raws2 = <<>>
      BY <2>3, <2>4, <2>9, <2>10, <2>13 DEF RawsGrow
    <3>2. e = NA
      BY <2>2, <2>4, <2>11, <3>1 DEF Hma
    <3>3. u2 = u
      BY <2>5, <3>1
    <3>4. ~(Len(f2) >= L)
      BY <2>8, <2>12, <2>13
    <3>5. y = [halves |-> w2, fulls |-> f2, results |-> u2, out |-> NA]
      BY <2>1, <2>2, <2>6, <2>8, <2>11, <3>3, <3>4 DEF HmaUpdate
    <3>6. QED
      BY <2>1, <2>3, <2>7, <2>11, <3>2, <3>5
  <2>14. CASE ~(Len(r) < L)
    <3>1. PICK a \in Raws : a = RawAt(r, L) /\ raws2 = Ext(raws, a)
      <4>1. Len(q) + 1 >= L
        BY <2>9, <2>14
      <4>2. QED
        BY <2>3, <2>4, <2>10, <4>1 DEF RawsGrow
    <3>2. a = HmaRaw(w2, f2)
      <4>1. Len(r) >= L
        BY <2>14
      <4>2. QED
        BY <2>2, <2>5, <3>1, <4>1, RawIs
    <3>3. u2 = Push(u, a, s)
      <4>1. Push(Recent(raws, s), a, s) = Recent(Ext(raws, a), s)
        BY <2>4, RecentPush
      <4>2. QED
        BY <2>5, <3>1, <4>1
    <3>4. /\ Len(raws2) < s <=> Len(u2) < s
          /\ Len(raws2) >= s => u2 = LastN(raws2, s)
          /\ Len(raws2) \in Nat
      <4>1. raws2 \in Seq(Raws)
        BY <2>4, <3>1, ExtIs
      <4>2. /\ Len(raws2) < s <=> Len(Recent(raws2, s)) < s
            /\ Len(raws2) >= s => Recent(raws2, s) = LastN(raws2, s)
        BY <4>1, WindowIs
      <4>3. Len(raws2) \in Nat
        BY <4>1
      <4>4. QED
        BY <2>5, <4>2, <4>3
    <3>5. e = IF Len(u2) < s THEN NA ELSE HmaSmooth(u2, s)
      <4>1. e = IF Len(raws2) < s THEN NA ELSE HmaSmooth(LastN(raws2, s), s)
        BY <2>2, <2>4, <2>11 DEF Hma
      <4>2. QED
        BY <3>4, <4>1
    <3>6. Len(f2) >= L
      BY <2>8, <2>12, <2>14
    <3>7. y = [halves |-> w2, fulls |-> f2, results |-> u2,
               out |-> IF Len(u2) < s THEN NA ELSE HmaSmooth(u2, s)]
      BY <2>1, <2>2, <2>6, <2>8, <2>11, <3>2, <3>3, <3>6 DEF HmaUpdate
    <3>8. QED
      BY <2>1, <2>3, <2>7, <2>11, <3>5, <3>7
  <2>15. QED
    BY <2>13, <2>14
<1>3. QED
  BY <1>1, <1>2

-----------------------------------------------------------------------------
(* The first state *)

LEMMA NothingYet ==
  /\ Closes(<<>>) = <<>> /\ Volumes(<<>>) = <<>> /\ Seen(<<>>) = <<>> /\ Traded(<<>>) = <<>>
  /\ Total(<<>>) = 0 /\ Wholes(<<>>) = <<>> /\ Differences(<<>>) = <<>>
  /\ \A n \in Nat : Recent(<<>>, n) = <<>> /\ Early(<<>>, n) = <<>>
  /\ \A s : Dot(<<>>, s) = 0
  /\ Len(<<>>) = 0
<1>1. Closes(<<>>) = <<>> /\ Volumes(<<>>) = <<>>
  BY DEF Closes, Volumes
<1>2. Seen(<<>>) = <<>>
  BY <1>1, CleanEmpty DEF Seen
<1>3. Wholes(<<>>) = <<>> /\ Differences(<<>>) = <<>>
  BY DEF Wholes, Differences
<1>4. \A n \in Nat : Recent(<<>>, n) = <<>> /\ Early(<<>>, n) = <<>>
  BY DEF Recent, Early
<1>5. \A s : Dot(<<>>, s) = 0
  <2>1. ASSUME NEW s
        PROVE  Dot(<<>>, s) = 0
    <3>1. [i \in 1..Len(<<>>) |-> <<>>[i] * s[i]] = <<>>
      OBVIOUS
    <3>2. QED
      BY <3>1, TotalEmpty DEF Dot
  <2>2. QED
    BY <2>1
<1>6. QED
  BY <1>1, <1>2, <1>3, <1>4, <1>5, TotalEmpty, TradedEmpty

LEMMA SmoothNew ==
  ASSUME NEW L \in Nat \ {0}
  PROVE  /\ EmaKept(<<>>, L, NA) = NewSmooth /\ RmaKept(<<>>, L, NA) = NewSmooth
         /\ Ema(<<>>, L) = NA /\ Rma(<<>>, L) = NA
         /\ EmaTold(<<>>, L) = NewSmooth /\ RmaTold(<<>>, L) = NewSmooth
<1>1. Ema(<<>>, L) = NA /\ Rma(<<>>, L) = NA
  BY DEF Ema, Rma
<1>2. Early(<<>>, L) = <<>>
  BY NothingYet
<1>3. QED
  BY <1>1, <1>2 DEF EmaKept, RmaKept, EmaTold, RmaTold, NewSmooth

\* What the first call finds is what no bar at all leaves.
StartsRight(fn, L) ==
  Fresh(fn) = Kept(fn, <<>>, L, Answer(fn, <<>>, L))

LEMMA AnswerOfNothing ==
  ASSUME NEW fn, NEW L
  PROVE  Answer(fn, <<>>, L) = Defined(fn, <<>>, L)
BY DEF Answer, LastIsBlank

LEMMA WindowsStart ==
  ASSUME NEW L \in Nat \ {0}, NEW fn \in {"sma", "median", "mode", "highest", "lowest", "change",
                                          "roc", "dev", "wma", "ema", "rma"}
  PROVE  StartsRight(fn, L)
<1>1. /\ Seen(<<>>) = <<>> /\ Closes(<<>>) = <<>> /\ Wholes(<<>>) = <<>>
      /\ Recent(<<>>, L) = <<>> /\ Recent(<<>>, L + 1) = <<>> /\ Total(<<>>) = 0
      /\ Len(<<>>) < L /\ Len(<<>>) < L + 1
  <2>1. L + 1 \in Nat /\ L \in Nat /\ 0 < L /\ 0 < L + 1
    OBVIOUS
  <2>2. QED
    BY <2>1, NothingYet
<1>2. PICK a : a = Defined(fn, <<>>, L)
  OBVIOUS
<1>3. CASE fn = "sma"
  <2>1. a = NA
    BY <1>1, <1>2, <1>3 DEF Defined, Over
  <2>2. Kept(fn, <<>>, L, a) = SmaKept(<<>>, L, NA)
    BY <1>1, <1>3, <2>1 DEF Kept
  <2>3. QED
    BY <1>1, <1>2, <1>3, <2>2, AnswerOfNothing DEF StartsRight, Fresh, SmaKept, NewSma
<1>4. CASE fn \in {"median", "mode"}
  <2>1. a = NA
    BY <1>1, <1>2, <1>4 DEF Defined, Over
  <2>2. Kept(fn, <<>>, L, a) = WindowKept(<<>>, L, NA)
    BY <1>1, <1>4, <2>1 DEF Kept
  <2>3. QED
    BY <1>1, <1>2, <1>4, <2>2, AnswerOfNothing DEF StartsRight, Fresh, WindowKept, NewWindow
<1>5. CASE fn \in {"highest", "lowest"}
  <2>1. a = NA
    BY <1>1, <1>2, <1>5 DEF Defined, Extreme
  <2>2. Kept(fn, <<>>, L, a) = WindowKept(<<>>, L, NA)
    BY <1>1, <1>5, <2>1 DEF Kept
  <2>3. QED
    BY <1>1, <1>2, <1>5, <2>2, AnswerOfNothing DEF StartsRight, Fresh, WindowKept, NewWindow
<1>6. CASE fn \in {"change", "roc"}
  <2>1. a = NA
    BY <1>1, <1>2, <1>6 DEF Defined, Over
  <2>2. Kept(fn, <<>>, L, a) = WindowKept(<<>>, L + 1, NA)
    BY <1>1, <1>6, <2>1 DEF Kept
  <2>3. QED
    BY <1>1, <1>2, <1>6, <2>2, AnswerOfNothing DEF StartsRight, Fresh, WindowKept, NewWindow
<1>7. CASE fn = "dev"
  <2>1. a = NA
    BY <1>1, <1>2, <1>7 DEF Defined, Strict
  <2>2. Kept(fn, <<>>, L, a) = WindowKept(<<>>, L, NA)
    BY <1>1, <1>7, <2>1 DEF Kept
  <2>3. QED
    BY <1>1, <1>2, <1>7, <2>2, AnswerOfNothing DEF StartsRight, Fresh, WindowKept, NewWindow
<1>8. CASE fn = "wma"
  <2>1. a = NA
    BY <1>1, <1>2, <1>8 DEF Defined, Over
  <2>2. Kept(fn, <<>>, L, a) = WmaKept(<<>>, L, NA)
    BY <1>1, <1>8, <2>1 DEF Kept
  <2>3. QED
    BY <1>1, <1>2, <1>8, <2>2, AnswerOfNothing, WeightedEmpty
    DEF StartsRight, Fresh, WmaKept, NewWma
<1>9. CASE fn = "ema"
  <2>1. a = NA
    BY <1>1, <1>2, <1>9, SmoothNew DEF Defined
  <2>2. Kept(fn, <<>>, L, a) = EmaKept(<<>>, L, NA)
    BY <1>1, <1>9, <2>1 DEF Kept
  <2>3. QED
    BY <1>2, <1>9, <2>2, AnswerOfNothing, SmoothNew DEF StartsRight, Fresh
<1>10. CASE fn = "rma"
  <2>1. a = NA
    BY <1>1, <1>2, <1>10, SmoothNew DEF Defined
  <2>2. Kept(fn, <<>>, L, a) = RmaKept(<<>>, L, NA)
    BY <1>1, <1>10, <2>1 DEF Kept
  <2>3. QED
    BY <1>2, <1>10, <2>2, AnswerOfNothing, SmoothNew DEF StartsRight, Fresh
<1>11. QED
  BY <1>3, <1>4, <1>5, <1>6, <1>7, <1>8, <1>9, <1>10

LEMMA HmaStarts ==
  ASSUME NEW L \in Nat \ {0}
  PROVE  StartsRight("hma", L)
<1>1. Half(L) \in Nat \ {0} /\ Root(L) \in Nat \ {0}
  BY HalfIs, RootIs
<1>2. HmaRaws(<<>>, L) = <<>> /\ Len(HmaRaws(<<>>, L)) = 0
  <2>1. Len(<<>>) < L /\ Len(<<>>) = 0
    OBVIOUS
  <2>2. QED
    BY <2>1 DEF HmaRaws
<1>3. Hma(<<>>, L) = NA
  BY <1>1, <1>2 DEF Hma
<1>4. Kept("hma", <<>>, L, NA) = HmaKept(<<>>, L, NA)
  BY NothingYet DEF Kept
<1>5. HmaKept(<<>>, L, NA) = NewHma
  <2>1. Recent(<<>>, Half(L)) = <<>> /\ Recent(<<>>, L) = <<>> /\ Recent(<<>>, Root(L)) = <<>>
    BY <1>1, NothingYet
  <2>2. QED
    BY <1>2, <2>1 DEF HmaKept, NewHma
<1>6. Defined("hma", <<>>, L) = NA
  BY <1>3, NothingYet DEF Defined
<1>7. QED
  BY <1>4, <1>5, <1>6, AnswerOfNothing DEF StartsRight, Fresh

LEMMA VwmaStarts ==
  ASSUME NEW L \in Nat \ {0}
  PROVE  StartsRight("vwma", L)
<1>1. Recent(<<>>, L) = <<>> /\ Len(<<>>) < L
  BY NothingYet
<1>2. Kept("vwma", <<>>, L, NA) = VwmaKept(<<>>, L, NA)
  BY NothingYet DEF Kept
<1>3. VwmaKept(<<>>, L, NA) = NewVwma
  BY <1>1, NothingYet DEF VwmaKept, NewVwma
<1>4. Defined("vwma", <<>>, L) = NA
  BY <1>1, NothingYet DEF Defined, Over
<1>5. QED
  BY <1>2, <1>3, <1>4, AnswerOfNothing DEF StartsRight, Fresh

LEMMA MfiStarts ==
  ASSUME NEW L \in Nat \ {0}
  PROVE  StartsRight("mfi", L)
<1>1. Recent(<<>>, L + 1) = <<>> /\ Len(<<>>) < L + 1
  <2>1. L + 1 \in Nat /\ 0 < L + 1
    OBVIOUS
  <2>2. QED
    BY <2>1, NothingYet
<1>2. Kept("mfi", <<>>, L, NA) = MfiKept(<<>>, L, NA)
  BY NothingYet DEF Kept
<1>3. Flows(<<>>, <<>>) = <<>> /\ Inflow(<<>>, <<>>) = 0 /\ Outflow(<<>>, <<>>) = 0
  <2>1. Len(<<>>) - 1 = -1 /\ 1..(-1) = {}
    OBVIOUS
  <2>2. Flows(<<>>, <<>>) = <<>>
    BY <2>1 DEF Flows
  <2>3. Inflow(<<>>, <<>>) = Total(<<>>)
    BY <2>1 DEF Inflow, Flow
  <2>4. Outflow(<<>>, <<>>) = Total(<<>>)
    BY <2>1 DEF Outflow, Flow
  <2>5. QED
    BY <2>2, <2>3, <2>4, TotalEmpty
<1>4. MfiKept(<<>>, L, NA) = NewFlow
  BY <1>1, <1>3, NothingYet DEF MfiKept, NewFlow
<1>5. Defined("mfi", <<>>, L) = NA
  BY <1>1, NothingYet DEF Defined, Over
<1>6. QED
  BY <1>2, <1>4, <1>5, AnswerOfNothing DEF StartsRight, Fresh

LEMMA CmoStarts ==
  ASSUME NEW L \in Nat \ {0}
  PROVE  StartsRight("cmo", L)
<1>1. Recent(<<>>, L) = <<>> /\ Len(<<>>) < L + 1
  <2>1. L \in Nat /\ 0 < L + 1
    OBVIOUS
  <2>2. QED
    BY <2>1, NothingYet
<1>2. Kept("cmo", <<>>, L, NA) = CmoKept(<<>>, L, NA)
  BY NothingYet DEF Kept
<1>3. Rises(<<>>) = <<>> /\ Falls(<<>>) = <<>> /\ LastOf(<<>>) = NA
  BY DEF Rises, Falls, LastOf
<1>4. CmoKept(<<>>, L, NA) = NewCmo
  BY <1>1, <1>3, NothingYet DEF CmoKept, NewCmo
<1>5. Defined("cmo", <<>>, L) = NA
  BY <1>1, NothingYet DEF Defined, Over
<1>6. QED
  BY <1>2, <1>4, <1>5, AnswerOfNothing DEF StartsRight, Fresh

LEMMA VarianceStarts ==
  ASSUME NEW L \in Nat \ {0}
  PROVE  StartsRight("variance", L)
<1>1. Recent(<<>>, L) = <<>> /\ Len(<<>>) < L
  BY NothingYet
<1>2. Kept("variance", <<>>, L, NA) = VarianceKept(<<>>, L, NA)
  BY NothingYet DEF Kept
<1>3. Known(<<>>) = <<>> /\ Blanks(<<>>) = <<>>
  BY DEF Known, Blanks
<1>4. VarianceKept(<<>>, L, NA) = NewVariance
  BY <1>1, <1>3, NothingYet DEF VarianceKept, NewVariance
<1>5. Defined("variance", <<>>, L) = NA
  BY <1>1, NothingYet DEF Defined, Strict
<1>6. QED
  BY <1>2, <1>4, <1>5, AnswerOfNothing DEF StartsRight, Fresh

LEMMA PairStarts ==
  ASSUME NEW L \in Nat \ {0}
  PROVE  StartsRight("correlation", L)
<1>1. Recent(<<>>, L) = <<>> /\ Len(<<>>) < L
  BY NothingYet
<1>2. Kept("correlation", <<>>, L, NA) = PairKept(<<>>, L, NA)
  BY DEF Kept
<1>3. PairKept(<<>>, L, NA) = NewPair
  BY <1>1, NothingYet DEF PairKept, NewPair
<1>4. Defined("correlation", <<>>, L) = NA
  BY <1>1 DEF Defined, CorrelationOfBars
<1>5. QED
  BY <1>2, <1>3, <1>4, AnswerOfNothing DEF StartsRight, Fresh

LEMMA RsiStarts ==
  ASSUME NEW L \in Nat \ {0}
  PROVE  StartsRight("rsi", L)
<1>1. Gains(<<>>) = <<>> /\ Losses(<<>>) = <<>> /\ LastOf(<<>>) = NA
  BY DEF Gains, Losses, LastOf
<1>2. Kept("rsi", <<>>, L, NA) = RsiKept(<<>>, L, NA)
  BY NothingYet DEF Kept
<1>3. RsiKept(<<>>, L, NA) = NewRsi
  BY <1>1, NothingYet, SmoothNew DEF RsiKept, NewRsi
<1>4. Defined("rsi", <<>>, L) = NA
  <2>1. Len(<<>>) <= L /\ ~(Len(<<>>) > L)
    OBVIOUS
  <2>2. Rsi(<<>>, L) = NA
    BY <2>1 DEF Rsi
  <2>3. QED
    BY <2>2, NothingYet DEF Defined
<1>5. QED
  BY <1>2, <1>3, <1>4, AnswerOfNothing DEF StartsRight, Fresh

LEMMA MacdStarts ==
  ASSUME NEW L \in Nat \ {0}
  PROVE  StartsRight("macd", L)
<1>1. MacdLines(<<>>, L, L + 1) = <<>>
  BY DEF MacdLines
<1>2. Macd(<<>>, L, L + 1, L) = <<NA, NA, NA>>
  BY <1>1, CleanEmpty DEF Macd
<1>3. Kept("macd", <<>>, L, <<NA, NA, NA>>) = MacdKept(<<>>, L, <<NA, NA, NA>>)
  BY NothingYet DEF Kept
<1>4. L + 1 \in Nat \ {0}
  OBVIOUS
<1>5. MacdKept(<<>>, L, <<NA, NA, NA>>) = NewMacd
  BY <1>1, <1>4, CleanEmpty, NothingYet, SmoothNew DEF MacdKept, NewMacd
<1>6. Defined("macd", <<>>, L) = <<NA, NA, NA>>
  BY <1>2, NothingYet DEF Defined
<1>7. QED
  BY <1>3, <1>5, <1>6, AnswerOfNothing DEF StartsRight, Fresh

LEMMA TsiStarts ==
  ASSUME NEW L \in Nat \ {0}
  PROVE  StartsRight("tsi", L)
<1>1. Len(<<>>) <= L /\ Len(<<>>) = 0 /\ LastOf(<<>>) = NA
  BY DEF LastOf
<1>2. Kept("tsi", <<>>, L, NA) = TsiKept(<<>>, L, NA)
  BY NothingYet DEF Kept
<1>3. TsiKept(<<>>, L, NA) = NewTsi
  BY <1>1, NothingYet DEF TsiKept, NewTsi
<1>4. Defined("tsi", <<>>, L) = NA
  BY <1>1, NothingYet DEF Defined, Tsi
<1>5. QED
  BY <1>2, <1>3, <1>4, AnswerOfNothing DEF StartsRight, Fresh

LEMMA DmiStarts ==
  ASSUME NEW L \in Nat \ {0}
  PROVE  StartsRight("dmi", L)
<1>1. Len(<<>>) < 2 /\ ~(Len(<<>>) >= 2) /\ Len(<<>>) - 1 = -1 /\ 1..(-1) = {} /\ LastOf(<<>>) = NA
  BY DEF LastOf
<1>2. Ranges(<<>>) = <<>> /\ Climbs(<<>>) = <<>> /\ Drops(<<>>) = <<>> /\ Dxs(<<>>, L) = <<>>
  BY <1>1 DEF Ranges, Climbs, Drops, Moves, Dxs
<1>3. Kept("dmi", <<>>, L, <<NA, NA, NA>>) = DmiKept(<<>>, L, <<NA, NA, NA>>)
  BY DEF Kept
<1>4. DmiKept(<<>>, L, <<NA, NA, NA>>) = NewDmi
  BY <1>1, <1>2, CleanEmpty, SmoothNew DEF DmiKept, NewDmi
<1>5. Defined("dmi", <<>>, L) = <<NA, NA, NA>>
  <2>1. Dmi(<<>>, L, L) = <<NA, NA, NA>>
    BY <1>1 DEF Dmi
  <2>2. QED
    BY <2>1 DEF Defined, DmiOfBars
<1>6. QED
  BY <1>3, <1>4, <1>5, AnswerOfNothing DEF StartsRight, Fresh

LEMMA VwapStarts ==
  ASSUME NEW L
  PROVE  StartsRight("vwap", L)
<1>1. Kept("vwap", <<>>, L, NA) = VwapKept(<<>>, NA)
  BY NothingYet DEF Kept
<1>2. VwapKept(<<>>, NA) = NewVwap
  BY DEF VwapKept, NewVwap
<1>3. Defined("vwap", <<>>, L) = NA
  BY NothingYet DEF Defined, Vwap
<1>4. QED
  BY <1>1, <1>2, <1>3, AnswerOfNothing DEF StartsRight, Fresh

LEMMA CrossStarts ==
  ASSUME NEW L
  PROVE  StartsRight("cross", L)
<1>1. Len(<<>>) < 2 /\ LastOf(<<>>) = NA
  BY DEF LastOf
<1>2. Kept("cross", <<>>, L, <<FALSE, FALSE>>) = CrossKept(<<>>, <<FALSE, FALSE>>)
  BY DEF Kept
<1>3. CrossKept(<<>>, <<FALSE, FALSE>>) = NewCross
  BY <1>1, NothingYet DEF CrossKept, NewCross
<1>4. Defined("cross", <<>>, L) = <<FALSE, FALSE>>
  BY <1>1 DEF Defined, Cross
<1>5. QED
  BY <1>2, <1>3, <1>4, AnswerOfNothing DEF StartsRight, Fresh

-----------------------------------------------------------------------------
(* One bar more *)

Follows(fn, bars, x, L) ==
  \A o : Update(fn, Kept(fn, bars, L, o), x, L)
           = Kept(fn, Ext(bars, x), L, Answer(fn, Ext(bars, x), L))

Priced(B) == \A b \in B : b.c \in Int \cup {NA}

\* The series of the bars so far, one bar later.
LEMMA SeenExt ==
  ASSUME NA \notin Int, NEW B, Priced(B), NEW bars \in Seq(B), NEW x \in B
  PROVE  /\ Seen(bars) \in Seq(Int) /\ Closes(bars) \in Seq(Int \cup {NA})
         /\ Closes(Ext(bars, x)) = Ext(Closes(bars), x.c) /\ x.c \in Int \cup {NA}
         /\ x.c = NA => Seen(Ext(bars, x)) = Seen(bars)
         /\ x.c # NA => x.c \in Int /\ Seen(Ext(bars, x)) = Ext(Seen(bars), x.c)
<1>1. x.c \in Int \cup {NA} /\ \A i \in 1..Len(bars) : bars[i].c \in Int \cup {NA}
  BY DEF Priced
<1>2. Closes(bars) \in Seq(Int \cup {NA})
  <2>1. PICK n \in Nat : n = Len(bars)
    OBVIOUS
  <2>2. Closes(bars) = [i \in 1..n |-> bars[i].c]
    BY <2>1 DEF Closes
  <2>3. [i \in 1..n |-> bars[i].c] \in [1..n -> Int \cup {NA}]
    BY <1>1, <2>1
  <2>4. QED
    BY <2>2, <2>3, Listed
<1>3. Closes(Ext(bars, x)) = Ext(Closes(bars), x.c)
  BY ClosesExt
<1>4. Seen(bars) \in Seq(Int)
  BY <1>2, CleanIs DEF Seen
<1>5. /\ x.c = NA => Clean(Ext(Closes(bars), x.c)) = Clean(Closes(bars))
      /\ x.c # NA => Clean(Ext(Closes(bars), x.c)) = Ext(Clean(Closes(bars)), x.c)
  BY <1>1, <1>2, CleanAppend
<1>6. QED
  BY <1>1, <1>2, <1>3, <1>4, <1>5 DEF Seen

LEMMA LastIs ==
  ASSUME NEW B, NEW bars \in Seq(B), NEW x \in B, NEW fn
  PROVE  LastIsBlank(fn, Ext(bars, x)) <=> \/ x.c = NA
                                           \/ fn \in {"vwma", "mfi", "vwap"} /\ x.v = NA
<1>1. PICK r : r = Ext(bars, x) /\ r # <<>> /\ Last(r) = x
  <2>1. Ext(bars, x) # <<>> /\ Last(Ext(bars, x)) = x
    BY DEF Ext, Last
  <2>2. QED
    BY <2>1
<1>2. QED
  BY <1>1 DEF LastIsBlank, IsBlank

\* A helper that repeats its answer on an na.
LEMMA Repeats ==
  ASSUME NEW fn, fn \notin Skips, NEW bars, NEW x, NEW L
  PROVE  Answer(fn, Ext(bars, x), L) = Defined(fn, Ext(bars, x), L)
BY DEF Answer

\* A helper that answers an na with na.
LEMMA Silences ==
  ASSUME NEW B, NEW bars \in Seq(B), NEW x \in B, NEW L,
         NEW fn \in Skips, fn \notin {"vwma", "mfi", "vwap"}
  PROVE  /\ x.c = NA => Answer(fn, Ext(bars, x), L) = NA
         /\ x.c # NA => Answer(fn, Ext(bars, x), L) = Defined(fn, Ext(bars, x), L)
BY LastIs DEF Answer

LEMMA TradeSilences ==
  ASSUME NEW B, NEW bars \in Seq(B), NEW x \in B, NEW L, NEW fn \in {"vwma", "mfi", "vwap"}
  PROVE  /\ x.c = NA \/ x.v = NA => Answer(fn, Ext(bars, x), L) = NA
         /\ x.c # NA /\ x.v # NA => Answer(fn, Ext(bars, x), L) = Defined(fn, Ext(bars, x), L)
BY LastIs DEF Answer, Skips

LEMMA SmaFollows ==
  ASSUME NA \notin Int, NEW B, Priced(B), NEW bars \in Seq(B), NEW x \in B, NEW L \in Nat \ {0}
  PROVE  Follows("sma", bars, x, L)
<1>1. PICK q, r, a :
        /\ q \in Seq(Int)
        /\ q = Seen(bars) /\ r = Seen(Ext(bars, x)) /\ a = Answer("sma", Ext(bars, x), L)
        /\ x.c = NA => r = q
        /\ x.c # NA => x.c \in Int /\ r = Ext(q, x.c)
  BY SeenExt
<1>2. a = Over(r, L, Sma)
  BY <1>1, Repeats DEF Skips, Defined
<1>3. /\ \A o : Kept("sma", bars, L, o) = SmaKept(q, L, o)
      /\ Kept("sma", Ext(bars, x), L, a) = SmaKept(r, L, a)
      /\ \A s : Update("sma", s, x, L) = SmaUpdate(s, x, L)
  BY <1>1 DEF Kept, Update
<1>4. \A o : SmaUpdate(SmaKept(q, L, o), x, L) = SmaKept(r, L, a)
  BY <1>1, <1>2, SmaStep
<1>5. QED
  BY <1>1, <1>3, <1>4 DEF Follows

DevAt(c, L) == Strict(c, L, Cci)

LEMMA DevAtStep ==
  ASSUME NA \notin Int, NEW c \in Seq(Int \cup {NA}), NEW L \in Nat \ {0}, NEW x,
         x.c \in Int \cup {NA}, NEW o
  PROVE  CciUpdate(WindowKept(c, L, o), x, L) = WindowKept(Ext(c, x.c), L, DevAt(Ext(c, x.c), L))
BY DevStep DEF DevAt

LEMMA MedianFollows ==
  ASSUME NA \notin Int, NEW B, Priced(B), NEW bars \in Seq(B), NEW x \in B, NEW L \in Nat \ {0}
  PROVE  Follows("median", bars, x, L)
<1>1. PICK q, r, a :
        /\ q \in Seq(Int)
        /\ q = Seen(bars) /\ r = Seen(Ext(bars, x)) /\ a = Answer("median", Ext(bars, x), L)
        /\ x.c = NA => r = q
        /\ x.c # NA => x.c \in Int /\ r = Ext(q, x.c)
  BY SeenExt
<1>2. a = Over(r, L, Median)
  BY <1>1, Repeats DEF Skips, Defined
<1>3. /\ \A o : Kept("median", bars, L, o) = WindowKept(q, L, o)
      /\ Kept("median", Ext(bars, x), L, a) = WindowKept(r, L, a)
      /\ \A s : Update("median", s, x, L) = MedianUpdate(s, x, L)
  BY <1>1 DEF Kept, Update
<1>4. \A o : MedianUpdate(WindowKept(q, L, o), x, L) = WindowKept(r, L, a)
  BY <1>1, <1>2, MedianStep
<1>5. QED
  BY <1>1, <1>3, <1>4 DEF Follows

LEMMA ModeFollows ==
  ASSUME NA \notin Int, NEW B, Priced(B), NEW bars \in Seq(B), NEW x \in B, NEW L \in Nat \ {0}
  PROVE  Follows("mode", bars, x, L)
<1>1. PICK q, r, a :
        /\ q \in Seq(Int)
        /\ q = Seen(bars) /\ r = Seen(Ext(bars, x)) /\ a = Answer("mode", Ext(bars, x), L)
        /\ x.c = NA => r = q
        /\ x.c # NA => x.c \in Int /\ r = Ext(q, x.c)
  BY SeenExt
<1>2. a = Over(r, L, Mode)
  BY <1>1, Repeats DEF Skips, Defined
<1>3. /\ \A o : Kept("mode", bars, L, o) = WindowKept(q, L, o)
      /\ Kept("mode", Ext(bars, x), L, a) = WindowKept(r, L, a)
      /\ \A s : Update("mode", s, x, L) = ModeUpdate(s, x, L)
  BY <1>1 DEF Kept, Update
<1>4. \A o : ModeUpdate(WindowKept(q, L, o), x, L) = WindowKept(r, L, a)
  BY <1>1, <1>2, ModeStep
<1>5. QED
  BY <1>1, <1>3, <1>4 DEF Follows

LEMMA HighestFollows ==
  ASSUME NA \notin Int, NEW B, Priced(B), NEW bars \in Seq(B), NEW x \in B, NEW L \in Nat \ {0}
  PROVE  Follows("highest", bars, x, L)
<1>1. PICK q, r, a :
        /\ q \in Seq(Int)
        /\ q = Seen(bars) /\ r = Seen(Ext(bars, x)) /\ a = Answer("highest", Ext(bars, x), L)
        /\ x.c = NA => r = q
        /\ x.c # NA => x.c \in Int /\ r = Ext(q, x.c)
  BY SeenExt
<1>2. a = Extreme(r, L, Largest)
  BY <1>1, Repeats DEF Skips, Defined
<1>3. /\ \A o : Kept("highest", bars, L, o) = WindowKept(q, L, o)
      /\ Kept("highest", Ext(bars, x), L, a) = WindowKept(r, L, a)
      /\ \A s : Update("highest", s, x, L) = HighestUpdate(s, x, L)
  BY <1>1 DEF Kept, Update
<1>4. \A o : HighestUpdate(WindowKept(q, L, o), x, L) = WindowKept(r, L, a)
  BY <1>1, <1>2, HighestStep
<1>5. QED
  BY <1>1, <1>3, <1>4 DEF Follows

LEMMA LowestFollows ==
  ASSUME NA \notin Int, NEW B, Priced(B), NEW bars \in Seq(B), NEW x \in B, NEW L \in Nat \ {0}
  PROVE  Follows("lowest", bars, x, L)
<1>1. PICK q, r, a :
        /\ q \in Seq(Int)
        /\ q = Seen(bars) /\ r = Seen(Ext(bars, x)) /\ a = Answer("lowest", Ext(bars, x), L)
        /\ x.c = NA => r = q
        /\ x.c # NA => x.c \in Int /\ r = Ext(q, x.c)
  BY SeenExt
<1>2. a = Extreme(r, L, Smallest)
  BY <1>1, Repeats DEF Skips, Defined
<1>3. /\ \A o : Kept("lowest", bars, L, o) = WindowKept(q, L, o)
      /\ Kept("lowest", Ext(bars, x), L, a) = WindowKept(r, L, a)
      /\ \A s : Update("lowest", s, x, L) = LowestUpdate(s, x, L)
  BY <1>1 DEF Kept, Update
<1>4. \A o : LowestUpdate(WindowKept(q, L, o), x, L) = WindowKept(r, L, a)
  BY <1>1, <1>2, LowestStep
<1>5. QED
  BY <1>1, <1>3, <1>4 DEF Follows

LEMMA EmaFollows ==
  ASSUME NA \notin Int, NA \notin Int \X Int, NEW B, Priced(B), NEW bars \in Seq(B), NEW x \in B, NEW L \in Nat \ {0}
  PROVE  Follows("ema", bars, x, L)
<1>1. PICK q, r, a :
        /\ q \in Seq(Int)
        /\ q = Seen(bars) /\ r = Seen(Ext(bars, x)) /\ a = Answer("ema", Ext(bars, x), L)
        /\ x.c = NA => r = q
        /\ x.c # NA => x.c \in Int /\ r = Ext(q, x.c)
  BY SeenExt
<1>2. a = Ema(Wholes(r), L)
  BY <1>1, Repeats DEF Skips, Defined
<1>3. /\ \A o : Kept("ema", bars, L, o) = EmaKept(Wholes(q), L, o)
      /\ Kept("ema", Ext(bars, x), L, a) = EmaKept(Wholes(r), L, a)
      /\ \A s : Update("ema", s, x, L) = EmaUpdate(s, Lift(x.c), L)
  BY <1>1 DEF Kept, Update
<1>4. \A o : EmaUpdate(EmaKept(Wholes(q), L, o), Lift(x.c), L) = EmaKept(Wholes(r), L, a)
  BY <1>1, <1>2, EmaMeets
<1>5. QED
  BY <1>1, <1>3, <1>4 DEF Follows

LEMMA RmaFollows ==
  ASSUME NA \notin Int, NA \notin Int \X Int, NEW B, Priced(B), NEW bars \in Seq(B), NEW x \in B, NEW L \in Nat \ {0}
  PROVE  Follows("rma", bars, x, L)
<1>1. PICK q, r, a :
        /\ q \in Seq(Int)
        /\ q = Seen(bars) /\ r = Seen(Ext(bars, x)) /\ a = Answer("rma", Ext(bars, x), L)
        /\ x.c = NA => r = q
        /\ x.c # NA => x.c \in Int /\ r = Ext(q, x.c)
  BY SeenExt
<1>2. a = Rma(Wholes(r), L)
  BY <1>1, Repeats DEF Skips, Defined
<1>3. /\ \A o : Kept("rma", bars, L, o) = RmaKept(Wholes(q), L, o)
      /\ Kept("rma", Ext(bars, x), L, a) = RmaKept(Wholes(r), L, a)
      /\ \A s : Update("rma", s, x, L) = RmaUpdate(s, Lift(x.c), L)
  BY <1>1 DEF Kept, Update
<1>4. \A o : RmaUpdate(RmaKept(Wholes(q), L, o), Lift(x.c), L) = RmaKept(Wholes(r), L, a)
  BY <1>1, <1>2, RmaMeets
<1>5. QED
  BY <1>1, <1>3, <1>4 DEF Follows

LEMMA ChangeFollows ==
  ASSUME NA \notin Int, NEW B, Priced(B), NEW bars \in Seq(B), NEW x \in B, NEW L \in Nat \ {0}
  PROVE  Follows("change", bars, x, L)
<1>1. PICK q, r, a :
        /\ q \in Seq(Int)
        /\ q = Seen(bars) /\ r = Seen(Ext(bars, x)) /\ a = Answer("change", Ext(bars, x), L)
        /\ x.c = NA => r = q
        /\ x.c # NA => x.c \in Int /\ r = Ext(q, x.c)
  BY SeenExt
<1>2. (x.c = NA => a = NA) /\ (x.c # NA => a = Over(r, L + 1, Change))
  <2>1. /\ x.c = NA => Answer("change", Ext(bars, x), L) = NA
        /\ x.c # NA => Answer("change", Ext(bars, x), L) = Defined("change", Ext(bars, x), L)
    BY Silences DEF Skips
  <2>2. QED
    BY <1>1, <2>1 DEF Defined
<1>3. /\ \A o : Kept("change", bars, L, o) = WindowKept(q, L + 1, o)
      /\ Kept("change", Ext(bars, x), L, a) = WindowKept(r, L + 1, a)
      /\ \A s : Update("change", s, x, L) = ChangeUpdate(s, x, L)
  BY <1>1 DEF Kept, Update
<1>4. \A o : ChangeUpdate(WindowKept(q, L + 1, o), x, L) = WindowKept(r, L + 1, a)
  BY <1>1, <1>2, ChangeStep
<1>5. QED
  BY <1>1, <1>3, <1>4 DEF Follows

LEMMA RocFollows ==
  ASSUME NA \notin Int, NEW B, Priced(B), NEW bars \in Seq(B), NEW x \in B, NEW L \in Nat \ {0}
  PROVE  Follows("roc", bars, x, L)
<1>1. PICK q, r, a :
        /\ q \in Seq(Int)
        /\ q = Seen(bars) /\ r = Seen(Ext(bars, x)) /\ a = Answer("roc", Ext(bars, x), L)
        /\ x.c = NA => r = q
        /\ x.c # NA => x.c \in Int /\ r = Ext(q, x.c)
  BY SeenExt
<1>2. (x.c = NA => a = NA) /\ (x.c # NA => a = Over(r, L + 1, Roc))
  <2>1. /\ x.c = NA => Answer("roc", Ext(bars, x), L) = NA
        /\ x.c # NA => Answer("roc", Ext(bars, x), L) = Defined("roc", Ext(bars, x), L)
    BY Silences DEF Skips
  <2>2. QED
    BY <1>1, <2>1 DEF Defined
<1>3. /\ \A o : Kept("roc", bars, L, o) = WindowKept(q, L + 1, o)
      /\ Kept("roc", Ext(bars, x), L, a) = WindowKept(r, L + 1, a)
      /\ \A s : Update("roc", s, x, L) = RocUpdate(s, x, L)
  BY <1>1 DEF Kept, Update
<1>4. \A o : RocUpdate(WindowKept(q, L + 1, o), x, L) = WindowKept(r, L + 1, a)
  BY <1>1, <1>2, RocStep
<1>5. QED
  BY <1>1, <1>3, <1>4 DEF Follows

LEMMA WmaFollows ==
  ASSUME NA \notin Int, NEW B, Priced(B), NEW bars \in Seq(B), NEW x \in B, NEW L \in Nat \ {0}
  PROVE  Follows("wma", bars, x, L)
<1>1. PICK q, r, a :
        /\ q \in Seq(Int)
        /\ q = Seen(bars) /\ r = Seen(Ext(bars, x)) /\ a = Answer("wma", Ext(bars, x), L)
        /\ x.c = NA => r = q
        /\ x.c # NA => x.c \in Int /\ r = Ext(q, x.c)
  BY SeenExt
<1>2. (x.c = NA => a = NA) /\ (x.c # NA => a = Over(r, L, Wma))
  <2>1. /\ x.c = NA => Answer("wma", Ext(bars, x), L) = NA
        /\ x.c # NA => Answer("wma", Ext(bars, x), L) = Defined("wma", Ext(bars, x), L)
    BY Silences DEF Skips
  <2>2. QED
    BY <1>1, <2>1 DEF Defined
<1>3. /\ \A o : Kept("wma", bars, L, o) = WmaKept(q, L, o)
      /\ Kept("wma", Ext(bars, x), L, a) = WmaKept(r, L, a)
      /\ \A s : Update("wma", s, x, L) = WmaUpdate(s, x, L)
  BY <1>1 DEF Kept, Update
<1>4. \A o : WmaUpdate(WmaKept(q, L, o), x, L) = WmaKept(r, L, a)
  BY <1>1, <1>2, WmaStep
<1>5. QED
  BY <1>1, <1>3, <1>4 DEF Follows

LEMMA HmaFollows ==
  ASSUME NA \notin Int, NEW B, Priced(B), NEW bars \in Seq(B), NEW x \in B, NEW L \in Nat \ {0}
  PROVE  Follows("hma", bars, x, L)
<1>1. PICK q, r, a :
        /\ q \in Seq(Int)
        /\ q = Seen(bars) /\ r = Seen(Ext(bars, x)) /\ a = Answer("hma", Ext(bars, x), L)
        /\ x.c = NA => r = q
        /\ x.c # NA => x.c \in Int /\ r = Ext(q, x.c)
  BY SeenExt
<1>2. (x.c = NA => a = NA) /\ (x.c # NA => a = Hma(r, L))
  <2>1. /\ x.c = NA => Answer("hma", Ext(bars, x), L) = NA
        /\ x.c # NA => Answer("hma", Ext(bars, x), L) = Defined("hma", Ext(bars, x), L)
    BY Silences DEF Skips
  <2>2. QED
    BY <1>1, <2>1 DEF Defined
<1>3. /\ \A o : Kept("hma", bars, L, o) = HmaKept(q, L, o)
      /\ Kept("hma", Ext(bars, x), L, a) = HmaKept(r, L, a)
      /\ \A s : Update("hma", s, x, L) = HmaUpdate(s, x, L)
  BY <1>1 DEF Kept, Update
<1>4. ASSUME NEW o
      PROVE  HmaUpdate(HmaKept(q, L, o), x, L) = HmaKept(r, L, a)
  <2>1. /\ x.c = NA => HmaUpdate(HmaKept(q, L, o), x, L) = HmaKept(q, L, NA)
        /\ x.c \in Int => HmaUpdate(HmaKept(q, L, o), x, L)
                            = HmaKept(Ext(q, x.c), L, Hma(Ext(q, x.c), L))
    BY <1>1, HmaStep
  <2>2. QED
    BY <1>1, <1>2, <2>1
<1>5. QED
  BY <1>1, <1>3, <1>4 DEF Follows

LEMMA CmoFollows ==
  ASSUME NA \notin Int, NEW B, Priced(B), NEW bars \in Seq(B), NEW x \in B, NEW L \in Nat \ {0}
  PROVE  Follows("cmo", bars, x, L)
<1>1. PICK q, r, a :
        /\ q \in Seq(Int)
        /\ q = Seen(bars) /\ r = Seen(Ext(bars, x)) /\ a = Answer("cmo", Ext(bars, x), L)
        /\ x.c = NA => r = q
        /\ x.c # NA => x.c \in Int /\ r = Ext(q, x.c)
  BY SeenExt
<1>2. (x.c = NA => a = NA) /\ (x.c # NA => a = CmoAt(r, L))
  <2>1. /\ x.c = NA => Answer("cmo", Ext(bars, x), L) = NA
        /\ x.c # NA => Answer("cmo", Ext(bars, x), L) = Defined("cmo", Ext(bars, x), L)
    BY Silences DEF Skips
  <2>2. QED
    BY <1>1, <2>1 DEF Defined, CmoAt
<1>3. /\ \A o : Kept("cmo", bars, L, o) = CmoKept(q, L, o)
      /\ Kept("cmo", Ext(bars, x), L, a) = CmoKept(r, L, a)
      /\ \A s : Update("cmo", s, x, L) = CmoUpdate(s, x, L)
  BY <1>1 DEF Kept, Update
<1>4. ASSUME NEW o
      PROVE  CmoUpdate(CmoKept(q, L, o), x, L) = CmoKept(r, L, a)
  <2>1. /\ x.c = NA => CmoUpdate(CmoKept(q, L, o), x, L) = CmoKept(q, L, NA)
        /\ x.c \in Int => CmoUpdate(CmoKept(q, L, o), x, L)
                            = CmoKept(Ext(q, x.c), L, CmoAt(Ext(q, x.c), L))
    BY <1>1, CmoStep
  <2>2. QED
    BY <1>1, <1>2, <2>1
<1>5. QED
  BY <1>1, <1>3, <1>4 DEF Follows

LEMMA RsiFollows ==
  ASSUME NA \notin Int, NA \notin Int \X Int, NEW B, Priced(B), NEW bars \in Seq(B), NEW x \in B, NEW L \in Nat \ {0}
  PROVE  Follows("rsi", bars, x, L)
<1>1. PICK q, r, a :
        /\ q \in Seq(Int)
        /\ q = Seen(bars) /\ r = Seen(Ext(bars, x)) /\ a = Answer("rsi", Ext(bars, x), L)
        /\ x.c = NA => r = q
        /\ x.c # NA => x.c \in Int /\ r = Ext(q, x.c)
  BY SeenExt
<1>2. (x.c = NA => a = NA) /\ (x.c # NA => a = Rsi(r, L))
  <2>1. /\ x.c = NA => Answer("rsi", Ext(bars, x), L) = NA
        /\ x.c # NA => Answer("rsi", Ext(bars, x), L) = Defined("rsi", Ext(bars, x), L)
    BY Silences DEF Skips
  <2>2. QED
    BY <1>1, <2>1 DEF Defined
<1>3. /\ \A o : Kept("rsi", bars, L, o) = RsiKept(q, L, o)
      /\ Kept("rsi", Ext(bars, x), L, a) = RsiKept(r, L, a)
      /\ \A s : Update("rsi", s, x, L) = RsiUpdate(s, x, L)
  BY <1>1 DEF Kept, Update
<1>4. \A o : RsiUpdate(RsiKept(q, L, o), x, L) = RsiKept(r, L, a)
  BY <1>1, <1>2, RsiStep
<1>5. QED
  BY <1>1, <1>3, <1>4 DEF Follows

LEMMA TsiFollows ==
  ASSUME NA \notin Int, NA \notin Int \X Int, NEW B, Priced(B), NEW bars \in Seq(B), NEW x \in B, NEW L \in Nat \ {0}
  PROVE  Follows("tsi", bars, x, L)
<1>1. PICK q, r, a :
        /\ q \in Seq(Int)
        /\ q = Seen(bars) /\ r = Seen(Ext(bars, x)) /\ a = Answer("tsi", Ext(bars, x), L)
        /\ x.c = NA => r = q
        /\ x.c # NA => x.c \in Int /\ r = Ext(q, x.c)
  BY SeenExt
<1>2. (x.c = NA => a = NA) /\ (x.c # NA => a = Tsi(r, L))
  <2>1. /\ x.c = NA => Answer("tsi", Ext(bars, x), L) = NA
        /\ x.c # NA => Answer("tsi", Ext(bars, x), L) = Defined("tsi", Ext(bars, x), L)
    BY Silences DEF Skips
  <2>2. QED
    BY <1>1, <2>1 DEF Defined
<1>3. /\ \A o : Kept("tsi", bars, L, o) = TsiKept(q, L, o)
      /\ Kept("tsi", Ext(bars, x), L, a) = TsiKept(r, L, a)
      /\ \A s : Update("tsi", s, x, L) = TsiUpdate(s, x, L)
  BY <1>1 DEF Kept, Update
<1>4. \A o : TsiUpdate(TsiKept(q, L, o), x, L) = TsiKept(r, L, a)
  BY <1>1, <1>2, TsiStep
<1>5. QED
  BY <1>1, <1>3, <1>4 DEF Follows

LEMMA DevFollows ==
  ASSUME NA \notin Int, NEW B, Priced(B), NEW bars \in Seq(B), NEW x \in B, NEW L \in Nat \ {0}
  PROVE  Follows("dev", bars, x, L)
<1>1. PICK q, r, a : /\ q = Closes(bars) /\ r = Closes(Ext(bars, x))
                     /\ a = Answer("dev", Ext(bars, x), L)
  OBVIOUS
<1>2. q \in Seq(Int \cup {NA}) /\ x.c \in Int \cup {NA} /\ r = Ext(q, x.c)
  BY <1>1, SeenExt
<1>3. a = DevAt(r, L)
  <2>1. a = Defined("dev", Ext(bars, x), L)
    BY <1>1, Repeats DEF Skips
  <2>2. Defined("dev", Ext(bars, x), L) = DevAt(Closes(Ext(bars, x)), L)
    BY DEF Defined, DevAt
  <2>3. QED
    BY <1>1, <2>1, <2>2
<1>4. /\ \A o : Kept("dev", bars, L, o) = WindowKept(q, L, o)
      /\ Kept("dev", Ext(bars, x), L, a) = WindowKept(r, L, a)
      /\ \A s : Update("dev", s, x, L) = CciUpdate(s, x, L)
  BY <1>1 DEF Kept, Update
<1>5. ASSUME NEW o
      PROVE  CciUpdate(WindowKept(q, L, o), x, L) = WindowKept(r, L, a)
  <2>1. CciUpdate(WindowKept(q, L, o), x, L)
          = WindowKept(Ext(q, x.c), L, DevAt(Ext(q, x.c), L))
    BY <1>2, DevAtStep
  <2>2. QED
    BY <1>2, <1>3, <2>1
<1>6. QED
  BY <1>1, <1>4, <1>5 DEF Follows

LEMMA VarianceFollows ==
  ASSUME NA \notin Int, NEW B, Priced(B), NEW bars \in Seq(B), NEW x \in B, NEW L \in Nat \ {0}
  PROVE  Follows("variance", bars, x, L)
<1>1. PICK q, r, a : /\ q = Closes(bars) /\ r = Closes(Ext(bars, x))
                     /\ a = Answer("variance", Ext(bars, x), L)
  OBVIOUS
<1>2. q \in Seq(Int \cup {NA}) /\ x.c \in Int \cup {NA} /\ r = Ext(q, x.c)
  BY <1>1, SeenExt
<1>3. a = BiasedAt(r, L)
  <2>1. a = Defined("variance", Ext(bars, x), L)
    BY <1>1, Repeats DEF Skips
  <2>2. Defined("variance", Ext(bars, x), L) = BiasedAt(Closes(Ext(bars, x)), L)
    BY DEF Defined, BiasedAt
  <2>3. QED
    BY <1>1, <2>1, <2>2
<1>4. /\ \A o : Kept("variance", bars, L, o) = VarianceKept(q, L, o)
      /\ Kept("variance", Ext(bars, x), L, a) = VarianceKept(r, L, a)
      /\ \A s : Update("variance", s, x, L) = VarianceUpdate(s, x, L)
  BY <1>1 DEF Kept, Update
<1>5. ASSUME NEW o
      PROVE  VarianceUpdate(VarianceKept(q, L, o), x, L) = VarianceKept(r, L, a)
  <2>1. VarianceUpdate(VarianceKept(q, L, o), x, L)
          = VarianceKept(Ext(q, x.c), L, BiasedAt(Ext(q, x.c), L))
    BY <1>2, VarianceStep
  <2>2. QED
    BY <1>2, <1>3, <2>1
<1>6. QED
  BY <1>1, <1>4, <1>5 DEF Follows

LEMMA MacdFollows ==
  ASSUME NA \notin Int, NA \notin Int \X Int, NEW B, Priced(B), NEW bars \in Seq(B), NEW x \in B, NEW L \in Nat \ {0}
  PROVE  Follows("macd", bars, x, L)
<1>1. PICK q, r, a : /\ q = Closes(bars) /\ r = Closes(Ext(bars, x))
                     /\ a = Answer("macd", Ext(bars, x), L)
  OBVIOUS
<1>2. q \in Seq(Int \cup {NA}) /\ x.c \in Int \cup {NA} /\ r = Ext(q, x.c)
  BY <1>1, SeenExt
<1>3. a = Macd(r, L, L + 1, L)
  <2>1. a = Defined("macd", Ext(bars, x), L)
    BY <1>1, Repeats DEF Skips
  <2>2. Defined("macd", Ext(bars, x), L) = Macd(Closes(Ext(bars, x)), L, L + 1, L)
    BY DEF Defined
  <2>3. QED
    BY <1>1, <2>1, <2>2
<1>4. /\ \A o : Kept("macd", bars, L, o) = MacdKept(q, L, o)
      /\ Kept("macd", Ext(bars, x), L, a) = MacdKept(r, L, a)
      /\ \A s : Update("macd", s, x, L) = MacdUpdate(s, x, L)
  BY <1>1 DEF Kept, Update
<1>5. ASSUME NEW o
      PROVE  MacdUpdate(MacdKept(q, L, o), x, L) = MacdKept(r, L, a)
  <2>1. MacdUpdate(MacdKept(q, L, o), x, L)
          = MacdKept(Ext(q, x.c), L, Macd(Ext(q, x.c), L, L + 1, L))
    BY <1>2, MacdStep
  <2>2. QED
    BY <1>2, <1>3, <2>1
<1>6. QED
  BY <1>1, <1>4, <1>5 DEF Follows

LEMMA VwmaFollows ==
  ASSUME NA \notin Int, NEW B, Quotes(B), NEW bars \in Seq(B), NEW x \in B,
         NEW L \in Nat \ {0}
  PROVE  Follows("vwma", bars, x, L)
<1>1. PICK t, r, a :
        /\ t \in Seq(TradesOf(B))
        /\ t = Traded(bars) /\ r = Traded(Ext(bars, x)) /\ a = Answer("vwma", Ext(bars, x), L)
        /\ x.c = NA \/ x.v = NA => r = t
        /\ x.c # NA /\ x.v # NA => x \in TradesOf(B) /\ r = Ext(t, x)
  BY TradedExt
<1>2. /\ x.c = NA \/ x.v = NA => a = NA
      /\ x.c # NA /\ x.v # NA => a = Over(r, L, VwmaOfBars)
  BY <1>1, TradeSilences DEF Defined
<1>3. /\ \A o : Kept("vwma", bars, L, o) = VwmaKept(t, L, o)
      /\ Kept("vwma", Ext(bars, x), L, a) = VwmaKept(r, L, a)
      /\ \A s : Update("vwma", s, x, L) = VwmaUpdate(s, x, L)
  BY <1>1 DEF Kept, Update
<1>4. \A o : VwmaUpdate(VwmaKept(t, L, o), x, L) = VwmaKept(r, L, a)
  BY <1>1, <1>2, VwmaStep
<1>5. QED
  BY <1>1, <1>3, <1>4 DEF Follows

LEMMA MfiFollows ==
  ASSUME NA \notin Int, NEW B, Quotes(B), NEW bars \in Seq(B), NEW x \in B,
         NEW L \in Nat \ {0}
  PROVE  Follows("mfi", bars, x, L)
<1>1. PICK t, r, a :
        /\ t \in Seq(TradesOf(B))
        /\ t = Traded(bars) /\ r = Traded(Ext(bars, x)) /\ a = Answer("mfi", Ext(bars, x), L)
        /\ x.c = NA \/ x.v = NA => r = t
        /\ x.c # NA /\ x.v # NA => x \in TradesOf(B) /\ r = Ext(t, x)
  BY TradedExt
<1>2. /\ x.c = NA \/ x.v = NA => a = NA
      /\ x.c # NA /\ x.v # NA => a = MfiAt(r, L)
  BY <1>1, TradeSilences DEF Defined, MfiAt
<1>3. /\ \A o : Kept("mfi", bars, L, o) = MfiKept(t, L, o)
      /\ Kept("mfi", Ext(bars, x), L, a) = MfiKept(r, L, a)
      /\ \A s : Update("mfi", s, x, L) = MfiUpdate(s, x, L)
  BY <1>1 DEF Kept, Update
<1>4. \A o : MfiUpdate(MfiKept(t, L, o), x, L) = MfiKept(r, L, a)
  BY <1>1, <1>2, MfiStep
<1>5. QED
  BY <1>1, <1>3, <1>4 DEF Follows

LEMMA VwapFollows ==
  ASSUME NA \notin Int, NEW B, Quotes(B), \A b \in TradesOf(B) : b.day \in Int,
         NEW bars \in Seq(B), NEW x \in B,
         NEW L \in Nat \ {0}
  PROVE  Follows("vwap", bars, x, L)
<1>1. PICK t, r, a :
        /\ t \in Seq(TradesOf(B))
        /\ t = Traded(bars) /\ r = Traded(Ext(bars, x)) /\ a = Answer("vwap", Ext(bars, x), L)
        /\ x.c = NA \/ x.v = NA => r = t
        /\ x.c # NA /\ x.v # NA => x \in TradesOf(B) /\ r = Ext(t, x)
  BY TradedExt
<1>2. /\ x.c = NA \/ x.v = NA => a = NA
      /\ x.c # NA /\ x.v # NA => a = VwapAt(r)
  BY <1>1, TradeSilences DEF Defined, Vwap, VwapAt
<1>3. /\ \A o : Kept("vwap", bars, L, o) = VwapKept(t, o)
      /\ Kept("vwap", Ext(bars, x), L, a) = VwapKept(r, a)
      /\ \A s : Update("vwap", s, x, L) = VwapUpdate(s, x, L)
  BY <1>1 DEF Kept, Update
<1>4. \A o : VwapUpdate(VwapKept(t, o), x, L) = VwapKept(r, a)
  BY <1>1, <1>2, VwapStep
<1>5. QED
  BY <1>1, <1>3, <1>4 DEF Follows

LEMMA CorrelationFollows ==
  ASSUME NEW B, NEW bars \in Seq(B), NEW x \in B, NEW L \in Nat \ {0}
  PROVE  Follows("correlation", bars, x, L)
<1>1. PICK r, a : r = Ext(bars, x) /\ a = Answer("correlation", Ext(bars, x), L)
  OBVIOUS
<1>2. a = CorrelationOfBars(r, L)
  BY <1>1, Repeats DEF Skips, Defined
<1>3. /\ \A o : Kept("correlation", bars, L, o) = PairKept(bars, L, o)
      /\ Kept("correlation", Ext(bars, x), L, a) = PairKept(r, L, a)
      /\ \A s : Update("correlation", s, x, L) = CorrelationUpdate(s, x, L)
  BY <1>1 DEF Kept, Update
<1>4. \A o : CorrelationUpdate(PairKept(bars, L, o), x, L) = PairKept(r, L, a)
  BY <1>1, <1>2, CorrelationStep
<1>5. QED
  BY <1>1, <1>3, <1>4 DEF Follows

LEMMA CrossFollows ==
  ASSUME NEW B, NEW bars \in Seq(B), NEW x \in B, NEW L \in Nat \ {0}
  PROVE  Follows("cross", bars, x, L)
<1>1. PICK r, a : r = Ext(bars, x) /\ a = Answer("cross", Ext(bars, x), L)
  OBVIOUS
<1>2. a = Cross(r)
  BY <1>1, Repeats DEF Skips, Defined
<1>3. /\ \A o : Kept("cross", bars, L, o) = CrossKept(bars, o)
      /\ Kept("cross", Ext(bars, x), L, a) = CrossKept(r, a)
      /\ \A s : Update("cross", s, x, L) = CrossUpdate(s, x, L)
  BY <1>1 DEF Kept, Update
<1>4. \A o : CrossUpdate(CrossKept(bars, o), x, L) = CrossKept(r, a)
  BY <1>1, <1>2, CrossStep
<1>5. QED
  BY <1>1, <1>3, <1>4 DEF Follows

LEMMA DmiFollows ==
  ASSUME NA \notin Int \X Int, NEW B, Candles(B), NEW bars \in Seq(B), NEW x \in B, NEW L \in Nat \ {0}
  PROVE  Follows("dmi", bars, x, L)
<1>1. PICK r, a : r = Ext(bars, x) /\ a = Answer("dmi", Ext(bars, x), L)
  OBVIOUS
<1>2. a = DmiOfBars(r, L)
  BY <1>1, Repeats DEF Skips, Defined
<1>3. /\ \A o : Kept("dmi", bars, L, o) = DmiKept(bars, L, o)
      /\ Kept("dmi", Ext(bars, x), L, a) = DmiKept(r, L, a)
      /\ \A s : Update("dmi", s, x, L) = DmiUpdate(s, x, L)
  BY <1>1 DEF Kept, Update
<1>4. \A o : DmiUpdate(DmiKept(bars, L, o), x, L) = DmiKept(r, L, a)
  BY <1>1, <1>2, DmiStep
<1>5. QED
  BY <1>1, <1>3, <1>4 DEF Follows

-----------------------------------------------------------------------------
(* Every answer is the definition *)

LEMMA KeptTells ==
  ASSUME NEW fn \in Stated, NEW bars, NEW L, NEW o
  PROVE  Kept(fn, bars, L, o).out = o
<1>1. CASE fn \in {"sma", "median", "mode", "highest", "lowest", "change", "roc", "dev"}
  BY <1>1 DEF Kept, SmaKept, WindowKept
<1>2. CASE fn \in {"wma", "hma", "vwma", "mfi", "cmo", "variance", "correlation"}
  BY <1>2 DEF Kept, WmaKept, HmaKept, VwmaKept, MfiKept, CmoKept, VarianceKept, PairKept
<1>3. CASE fn \in {"ema", "rma", "rsi", "macd", "tsi"}
  BY <1>3 DEF Kept, EmaKept, RmaKept, RsiKept, MacdKept, TsiKept
<1>4. CASE fn \in {"dmi", "vwap", "cross"}
  BY <1>4 DEF Kept, DmiKept, VwapKept, CrossKept
<1>5. QED
  BY <1>1, <1>2, <1>3, <1>4 DEF Stated

\* What IndicatorsAssumption says of the bars of one world.
Sound(fn, L, B) ==
  /\ fn \in Stated \cup {"supertrend", "sar", "window"}
  /\ L \in Nat \ {0}
  /\ fn \notin Charted => Priced(B)
  /\ fn \in Charted => Candles(B)
  /\ fn \in {"vwma", "mfi", "vwap"} => Quotes(B)
  /\ fn = "vwap" => \A b \in TradesOf(B) : b.day \in Int

LEMMA WorldsSound ==
  ASSUME NEW w \in Worlds
  PROVE  Sound(w.fn, w.len, w.bars)
<1>1. /\ w.fn \in Stated \cup {"supertrend", "sar", "window"} /\ w.len \in Nat \ {0} /\ NA \notin w.bars
      /\ \A b \in w.bars :
            /\ w.fn \notin Charted => b.c \in Int \cup {NA}
            /\ w.fn \in Charted => b.h \in Int /\ b.l \in Int /\ b.c \in b.l..b.h
            /\ w.fn \in Weighing => b.v \in Int \cup {NA}
            /\ w.fn = "vwap" => b.day \in Int
  BY IndicatorsAssumption
<1>2. w.fn \notin Charted => Priced(w.bars)
  BY <1>1 DEF Priced
<1>3. w.fn \in Charted => Candles(w.bars)
  BY <1>1 DEF Candles
<1>4. w.fn \in {"vwma", "mfi", "vwap"} => Quotes(w.bars)
  BY <1>1 DEF Quotes, Weighing, Charted
<1>5. w.fn = "vwap" => \A b \in TradesOf(w.bars) : b.day \in Int
  BY <1>1 DEF TradesOf
<1>6. QED
  BY <1>1, <1>2, <1>3, <1>4, <1>5 DEF Sound

LEMMA AllStart ==
  ASSUME NEW fn \in Stated, NEW L \in Nat \ {0}
  PROVE  StartsRight(fn, L)
<1>1. fn \in {"sma", "median", "mode", "highest", "lowest", "change", "roc", "dev", "wma", "ema", "rma"}
        => StartsRight(fn, L)
  BY WindowsStart
<1>2. /\ StartsRight("hma", L) /\ StartsRight("vwma", L) /\ StartsRight("mfi", L)
      /\ StartsRight("cmo", L) /\ StartsRight("variance", L) /\ StartsRight("correlation", L)
  BY HmaStarts, VwmaStarts, MfiStarts, CmoStarts, VarianceStarts, PairStarts
<1>3. /\ StartsRight("rsi", L) /\ StartsRight("macd", L) /\ StartsRight("tsi", L)
      /\ StartsRight("dmi", L) /\ StartsRight("vwap", L) /\ StartsRight("cross", L)
  BY RsiStarts, MacdStarts, TsiStarts, DmiStarts, VwapStarts, CrossStarts
<1>4. QED
  BY <1>1, <1>2, <1>3 DEF Stated

LEMMA AllFollow ==
  ASSUME NEW fn \in Stated, NEW L, NEW B, Sound(fn, L, B), NEW bars \in Seq(B), NEW x \in B
  PROVE  Follows(fn, bars, x, L)
<1>1. NA \notin Int /\ NA \notin Int \X Int
  BY IndicatorsAssumption
<1>2. L \in Nat \ {0}
  BY DEF Sound
<1>3. CASE fn \in {"sma", "median", "mode", "highest", "lowest"}
  <2>1. Priced(B)
    BY <1>3 DEF Sound, Charted
  <2>2. QED
    BY <1>1, <1>2, <1>3, <2>1, SmaFollows, MedianFollows, ModeFollows, HighestFollows, LowestFollows
<1>4. CASE fn \in {"change", "roc", "dev", "wma", "hma", "cmo", "variance"}
  <2>1. Priced(B)
    BY <1>4 DEF Sound, Charted
  <2>2. QED
    BY <1>1, <1>2, <1>4, <2>1, ChangeFollows, RocFollows, DevFollows, WmaFollows, HmaFollows,
       CmoFollows, VarianceFollows
<1>5. CASE fn \in {"ema", "rma", "rsi", "macd", "tsi"}
  <2>1. Priced(B)
    BY <1>5 DEF Sound, Charted
  <2>2. QED
    BY <1>1, <1>2, <1>5, <2>1, EmaFollows, RmaFollows, RsiFollows, MacdFollows, TsiFollows
<1>6. CASE fn \in {"vwma", "mfi"}
  <2>1. Quotes(B)
    BY <1>6 DEF Sound
  <2>2. QED
    BY <1>1, <1>2, <1>6, <2>1, VwmaFollows, MfiFollows
<1>7. CASE fn = "vwap"
  <2>1. Quotes(B) /\ \A b \in TradesOf(B) : b.day \in Int
    BY <1>7 DEF Sound
  <2>2. QED
    BY <1>1, <1>2, <1>7, <2>1, VwapFollows
<1>8. CASE fn \in {"correlation", "cross"}
  BY <1>2, <1>8, CorrelationFollows, CrossFollows
<1>9. CASE fn = "dmi"
  <2>1. Candles(B)
    BY <1>9 DEF Sound, Charted
  <2>2. QED
    BY <1>1, <1>2, <1>9, <2>1, DmiFollows
<1>10. QED
  BY <1>3, <1>4, <1>5, <1>6, <1>7, <1>8, <1>9 DEF Stated

\* A run of bars of its world, and in the state what a fresh reading of them gives.
TAInv ==
  /\ world \in Worlds
  /\ fed \in Seq(world.bars)
  /\ KeptInv

\* The state the factory given to _state makes holds what no bars leave.
THEOREM InitTAInv == Init => TAInv
<1>1. SUFFICES ASSUME Init PROVE TAInv
  OBVIOUS
<1>2. world \in Worlds /\ state = Fresh(world.fn) /\ fed = <<>>
  BY <1>1 DEF Init
<1>3. world.len \in Nat \ {0}
  BY <1>2, WorldsSound DEF Sound
<1>4. KeptInv
  BY <1>2, <1>3, AllStart DEF KeptInv, StartsRight
<1>5. fed \in Seq(world.bars)
  BY <1>2
<1>6. QED
  BY <1>2, <1>4, <1>5 DEF TAInv

\* A bar more, and the one call of the helper it brings, keep it so.
THEOREM NextTAInv == TAInv /\ [Next]_taVars => TAInv'
<1>1. SUFFICES ASSUME TAInv, [Next]_taVars PROVE TAInv'
  OBVIOUS
<1>2. CASE UNCHANGED taVars
  BY <1>1, <1>2 DEF TAInv, KeptInv, taVars
<1>3. ASSUME NEW x \in world.bars, Feed(x)
      PROVE  TAInv'
  <2>1. world \in Worlds /\ fed \in Seq(world.bars) /\ KeptInv
    BY <1>1 DEF TAInv
  <2>2. /\ fed' = Ext(fed, x) /\ world' = world
        /\ state' = Update(world.fn, state, x, world.len)
    BY <1>3 DEF Feed, Ext
  <2>3. fed' \in Seq(world'.bars)
    BY <2>1, <2>2, ExtIs
  <2>4. ASSUME world.fn \in Stated
        PROVE  state' = Kept(world.fn, Ext(fed, x), world.len,
                             Answer(world.fn, Ext(fed, x), world.len))
    <3>1. Sound(world.fn, world.len, world.bars)
      BY <2>1, WorldsSound
    <3>2. Follows(world.fn, fed, x, world.len)
      BY <1>3, <2>1, <2>4, <3>1, AllFollow
    <3>3. QED
      BY <2>1, <2>2, <2>4, <3>2 DEF KeptInv, Follows
  <2>5. KeptInv'
    BY <2>2, <2>4 DEF KeptInv
  <2>6. QED
    BY <2>1, <2>2, <2>3, <2>5 DEF TAInv
<1>4. QED
  BY <1>1, <1>2, <1>3 DEF Next

\* Every answer of the twenty-three helpers that keep a state (sma to cross) is
\* the helper's definition over all the bars so far: what SmaState, _EMAState,
\* _WMAState and the others keep between two bars loses nothing a reading of the
\* whole history would find, for every length and every series, na included.
THEOREM AnswersAreDefinitions == Spec => []StateIsDefinition
<1>1. TAInv => StateIsDefinition
  BY KeptTells DEF TAInv, KeptInv, StateIsDefinition
<1>2. QED
  BY <1>1, InitTAInv, NextTAInv, PTL DEF Spec

-----------------------------------------------------------------------------
(* Pivots *)

\* What a runtime reads backwards from its last bar is the window the batch
\* form cuts out of the whole series, or na where that window begins before it.
LEMMA PivotIsBatch ==
  ASSUME NA \notin Int, NEW c \in Seq(Int \cup {NA}),
         NEW left \in Nat \ {0}, NEW right \in Nat \ {0}, NEW high
  PROVE  Pivot(c, left, right, high) = PivotBatch(c, Len(c) - right, left, right, high)
<1>1. PICK n \in Nat, m \in Nat \ {0} : n = Len(c) /\ m = left + right + 1
  OBVIOUS
<1>2. PICK vals : vals = [i \in 1..m |-> Back(c, m - i)]
  OBVIOUS
<1>3. Pivot(c, left, right, high)
        = IF Back(c, right) = NA \/ ~IsPivot(vals, left, high) THEN NA ELSE Whole(Back(c, right))
  <2>1. vals = [i \in 1..(left + right + 1) |-> Back(c, left + right + 1 - i)]
    BY <1>1, <1>2
  <2>2. QED
    BY <2>1 DEF Pivot
<1>4. \A w, k : HasBlank(w) => ~IsPivot(w, k, high)
  BY DEF IsPivot
<1>5. vals \in Seq(Int \cup {NA}) /\ Len(vals) = m
  <2>1. \A i \in 1..m : Back(c, m - i) \in Int \cup {NA}
    BY <1>1 DEF Back
  <2>2. vals \in [1..m -> Int \cup {NA}]
    BY <1>2, <2>1
  <2>3. QED
    BY <2>2
<1>6. CASE n <= left + right
  <2>1. vals[1] = NA
    BY <1>1, <1>2, <1>6 DEF Back
  <2>2. HasBlank(vals)
    BY <1>1, <1>5, <2>1 DEF HasBlank, IsBlank
  <2>3. Pivot(c, left, right, high) = NA
    BY <1>3, <1>4, <2>2
  <2>4. PivotBatch(c, n - right, left, right, high) = NA
    BY <1>1, <1>6 DEF PivotBatch
  <2>5. QED
    BY <1>1, <2>3, <2>4
<1>7. CASE n > left + right
  <2>1. PICK k \in Nat \ {0} : k = n - right /\ k > left /\ k + right = n
    <3>1. n - right \in Nat \ {0} /\ n - right > left /\ (n - right) + right = n
      BY <1>1, <1>7
    <3>2. QED
      BY <3>1
  <2>2. PICK w : w = SubSeq(c, k - left, n)
    OBVIOUS
  <2>3. Len(w) = m /\ \A i \in 1..m : w[i] = c[k - left + i - 1]
    BY <1>1, <2>1, <2>2
  <2>4. \A i \in 1..m : vals[i] = c[k - left + i - 1]
    <3>1. SUFFICES ASSUME NEW i \in 1..m PROVE vals[i] = c[k - left + i - 1]
      OBVIOUS
    <3>2. m - i < n /\ n - (m - i) = k - left + i - 1
      BY <1>1, <1>7, <2>1
    <3>3. vals[i] = Back(c, m - i)
      BY <1>2
    <3>4. QED
      BY <1>1, <3>2, <3>3 DEF Back
  <2>5. w \in Seq(Int \cup {NA})
    BY <1>1, <1>7, <2>1, <2>2
  <2>6. vals = w
    <3>1. vals = [i \in 1..Len(vals) |-> vals[i]] /\ w = [i \in 1..Len(w) |-> w[i]]
      BY <1>5, <2>5
    <3>2. \A i \in 1..m : vals[i] = w[i]
      BY <2>3, <2>4
    <3>3. QED
      BY <1>5, <2>3, <3>1, <3>2
  <2>7. Back(c, right) = c[k]
    BY <1>1, <1>7, <2>1 DEF Back
  <2>8. PivotBatch(c, k, left, right, high)
          = IF IsPivot(w, left, high) THEN Whole(c[k]) ELSE NA
    <3>1. ~(k <= left \/ k + right > Len(c)) /\ SubSeq(c, k - left, k + right) = w
      BY <1>1, <2>1, <2>2
    <3>2. QED
      BY <3>1 DEF PivotBatch
  <2>9. c[k] = NA => ~IsPivot(w, left, high)
    <3>1. left + 1 \in 1..m /\ w[left + 1] = c[k]
      BY <1>1, <2>1, <2>3
    <3>2. c[k] = NA => HasBlank(w)
      BY <2>3, <3>1 DEF HasBlank, IsBlank
    <3>3. QED
      BY <1>4, <3>2
  <2>10. QED
    BY <1>1, <1>3, <2>1, <2>6, <2>7, <2>8, <2>9
<1>8. QED
  BY <1>1, <1>6, <1>7

\* However many bars a pivot needs on either side, what ta.pivothigh and
\* ta.pivotlow answer a runtime on a bar is what the batch form of _pivot marks,
\* over the bars so far, on the bar rightbars back: na until its right side is
\* complete and wherever an na is among its bars.
THEOREM PivotsAreConfirmed == Spec => []PivotsConfirmed
<1>1. TAInv => PivotsConfirmed
  <2>1. SUFFICES ASSUME TAInv, world.fn = "window",
                        NEW left \in 1..MaxBars, NEW right \in 1..MaxBars, NEW high \in BOOLEAN
                 PROVE  Pivot(Closes(fed), left, right, high)
                          = PivotBatch(Closes(fed), Len(fed) - right, left, right, high)
    BY DEF PivotsConfirmed
  <2>2. Priced(world.bars) /\ fed \in Seq(world.bars)
    BY <2>1, WorldsSound DEF TAInv, Sound, Charted
  <2>3. Closes(fed) \in Seq(Int \cup {NA}) /\ Len(Closes(fed)) = Len(fed)
    <3>1. \A i \in 1..Len(fed) : fed[i].c \in Int \cup {NA}
      BY <2>2 DEF Priced
    <3>2. Closes(fed) \in [1..Len(fed) -> Int \cup {NA}]
      BY <3>1 DEF Closes
    <3>3. QED
      BY <2>2, <3>2 DEF Closes
  <2>4. NA \notin Int
    BY IndicatorsAssumption
  <2>5. left \in Nat \ {0} /\ right \in Nat \ {0}
    OBVIOUS
  <2>6. QED
    BY <2>3, <2>4, <2>5, PivotIsBatch
<1>2. QED
  BY <1>1, InitTAInv, NextTAInv, PTL DEF Spec

-----------------------------------------------------------------------------
(* The order of fractions *)

LEMMA Scale ==
  \A g \in Nat \ {0}, a, b \in Int : (g * a <= g * b <=> a <= b) /\ (g * a < g * b <=> a < b)
<1> SUFFICES ASSUME NEW g \in Nat \ {0}, NEW a \in Int, NEW b \in Int
             PROVE  (g * a <= g * b <=> a <= b) /\ (g * a < g * b <=> a < b)
  OBVIOUS
<1>1. PICK d \in Int : d = b - a /\ g * b = g * a + g * d
  OBVIOUS
<1>2. CASE d >= 1
  <2>1. g * d >= g
    BY <1>2
  <2>2. QED
    BY <1>1, <1>2, <2>1
<1>3. CASE d = 0
  BY <1>1, <1>3
<1>4. CASE d <= -1
  <2>1. g * d <= -g
    BY <1>4
  <2>2. QED
    BY <1>1, <1>4, <2>1
<1>5. QED
  BY <1>2, <1>3, <1>4

\* Fractions compare as any of their forms with denominators above 0 do.
LEMMA LeqForms ==
  ASSUME NEW f, NEW a, NEW b, Equals(f, a, b), NEW g, NEW c, NEW d, Equals(g, c, d),
         b > 0, d > 0
  PROVE  (Leq(f, g) <=> a * d <= c * b) /\ (Less(f, g) <=> a * d < c * b)
<1>1. PICK p \in Int, q \in Nat \ {0} : p = f[1] /\ q = f[2] /\ p * b = a * q
  BY EqualsHas
<1>2. PICK r \in Int, s \in Nat \ {0} : r = g[1] /\ s = g[2] /\ r * d = c * s
  BY EqualsHas
<1>3. a \in Int /\ c \in Int /\ b \in Nat \ {0} /\ d \in Nat \ {0}
  BY DEF Equals
<1>4. (Leq(f, g) <=> p * s <= r * q) /\ (Less(f, g) <=> p * s < r * q)
  BY <1>1, <1>2 DEF Leq, Less
<1>5. PICK k \in Nat \ {0}, m \in Nat \ {0} : k = b * d /\ m = q * s
  <2>1. b * d \in Nat \ {0} /\ q * s \in Nat \ {0}
    BY <1>3
  <2>2. QED
    BY <2>1
<1>6. k * (p * s) = m * (a * d)
  <2>1. k * (p * s) = (p * b) * (d * s)
    BY <1>3, <1>5
  <2>2. m * (a * d) = (a * q) * (d * s)
    BY <1>3, <1>5
  <2>3. QED
    BY <1>1, <2>1, <2>2
<1>7. k * (r * q) = m * (c * b)
  <2>1. k * (r * q) = (r * d) * (b * q)
    BY <1>3, <1>5
  <2>2. m * (c * b) = (c * s) * (b * q)
    BY <1>3, <1>5
  <2>3. QED
    BY <1>2, <2>1, <2>2
<1>8. PICK w \in Int, x \in Int, y \in Int, z \in Int :
        w = p * s /\ x = r * q /\ y = a * d /\ z = c * b
  BY <1>3
<1>9. (w <= x <=> k * w <= k * x) /\ (w < x <=> k * w < k * x)
  BY Scale
<1>10. (y <= z <=> m * y <= m * z) /\ (y < z <=> m * y < m * z)
  BY Scale
<1>11. k * w = m * y /\ k * x = m * z
  BY <1>6, <1>7, <1>8
<1>12. QED
  BY <1>4, <1>8, <1>9, <1>10, <1>11

LEMMA OrderIs ==
  ASSUME NEW f \in Fracs, NEW g \in Fracs
  PROVE  /\ Leq(f, f)
         /\ Less(f, g) => Leq(f, g)
         /\ ~Less(f, g) <=> Leq(g, f)
         /\ ~Leq(f, g) <=> Less(g, f)
<1>1. PICK p \in Int, q \in Nat \ {0}, r \in Int, s \in Nat \ {0} :
        p = f[1] /\ q = f[2] /\ r = g[1] /\ s = g[2]
  BY FracsAre
<1>2. PICK u \in Int, v \in Int : u = p * s /\ v = r * q
  OBVIOUS
<1>3. /\ Leq(f, g) <=> u <= v
      /\ Leq(g, f) <=> v <= u
      /\ Less(f, g) <=> u < v
      /\ Less(g, f) <=> v < u
  BY <1>1, <1>2 DEF Leq, Less
<1>4. Leq(f, f)
  BY <1>1 DEF Leq
<1>5. QED
  BY <1>2, <1>3, <1>4

LEMMA LeqTrans ==
  ASSUME NEW f \in Fracs, NEW g \in Fracs, NEW h \in Fracs, Leq(f, g), Leq(g, h)
  PROVE  Leq(f, h)
<1>1. PICK p \in Int, q \in Nat \ {0}, r \in Int, s \in Nat \ {0}, t \in Int, u \in Nat \ {0} :
        p = f[1] /\ q = f[2] /\ r = g[1] /\ s = g[2] /\ t = h[1] /\ u = h[2]
  BY FracsAre
<1>2. p * s <= r * q /\ r * u <= t * s
  BY <1>1 DEF Leq
<1>3. u * (p * s) <= u * (r * q) /\ q * (r * u) <= q * (t * s)
  <2>1. p * s \in Int /\ r * q \in Int /\ r * u \in Int /\ t * s \in Int
    OBVIOUS
  <2>2. QED
    BY <1>2, <2>1, Scale
<1>4. s * (p * u) <= s * (t * q)
  <2>1. /\ u * (p * s) = s * (p * u) /\ u * (r * q) = q * (r * u)
        /\ q * (t * s) = s * (t * q)
    OBVIOUS
  <2>2. PICK a \in Int, b \in Int, c \in Int :
          a = s * (p * u) /\ b = u * (r * q) /\ c = s * (t * q)
    OBVIOUS
  <2>3. a <= b /\ b <= c
    BY <1>3, <2>1, <2>2
  <2>4. a <= c
    BY <2>3
  <2>5. QED
    BY <2>2, <2>4
<1>5. p * u <= t * q
  <2>1. p * u \in Int /\ t * q \in Int
    OBVIOUS
  <2>2. QED
    BY <1>4, <2>1, Scale
<1>6. QED
  BY <1>1, <1>5 DEF Leq

LEMMA LeqAnti ==
  ASSUME NEW f \in Fracs, NEW g \in Fracs, Leq(f, g), Leq(g, f)
  PROVE  f = g
<1>1. f[1] * g[2] <= g[1] * f[2] /\ g[1] * f[2] <= f[1] * g[2]
  BY DEF Leq
<1>2. PICK p \in Int, q \in Nat \ {0}, r \in Int, s \in Nat \ {0} :
        p = f[1] /\ q = f[2] /\ r = g[1] /\ s = g[2]
  BY FracsAre
<1>3. p * s = r * q
  <2>1. PICK u \in Int, v \in Int : u = p * s /\ v = r * q
    OBVIOUS
  <2>2. QED
    BY <1>1, <1>2, <2>1
<1>4. QED
  BY <1>2, <1>3, FracUnique

\* Adding on both sides, and multiplying with what is not negative.
LEMMA LeqAdd ==
  ASSUME NEW f \in Fracs, NEW g \in Fracs, NEW h \in Fracs, Leq(f, g)
  PROVE  /\ Leq(Add(h, f), Add(h, g))
         /\ Leq(Add(f, h), Add(g, h))
<1>1. PICK p \in Int, q \in Nat \ {0}, r \in Int, s \in Nat \ {0}, t \in Int, u \in Nat \ {0} :
        p = f[1] /\ q = f[2] /\ r = g[1] /\ s = g[2] /\ t = h[1] /\ u = h[2]
  BY FracsAre
<1>2. p * s <= r * q
  BY <1>1 DEF Leq
<1>3. Equals(f, p, q) /\ Equals(g, r, s) /\ Equals(h, t, u)
  BY <1>1, EqualsSelf
<1>4. q * u > 0 /\ s * u > 0 /\ u * q > 0 /\ u * s > 0
  OBVIOUS
<1>5. (u * u) * (p * s) <= (u * u) * (r * q)
  <2>1. u * u \in Nat \ {0} /\ p * s \in Int /\ r * q \in Int
    OBVIOUS
  <2>2. QED
    BY <1>2, <2>1, Scale
<1>6. (t * q + p * u) * (u * s) <= (t * s + r * u) * (u * q)
  <2>1. (t * q + p * u) * (u * s) = (t * q) * (u * s) + (u * u) * (p * s)
    OBVIOUS
  <2>2. (t * s + r * u) * (u * q) = (t * q) * (u * s) + (u * u) * (r * q)
    OBVIOUS
  <2>3. QED
    BY <1>5, <2>1, <2>2
<1>7. Equals(Add(h, f), t * q + p * u, u * q) /\ Equals(Add(h, g), t * s + r * u, u * s)
  BY <1>3, EqualsAdd
<1>8. Leq(Add(h, f), Add(h, g))
  BY <1>4, <1>6, <1>7, LeqForms
<1>9. (p * u + t * q) * (s * u) <= (r * u + t * s) * (q * u)
  <2>1. /\ p * u + t * q = t * q + p * u /\ r * u + t * s = t * s + r * u
        /\ s * u = u * s /\ q * u = u * q
    OBVIOUS
  <2>2. QED
    BY <1>6, <2>1
<1>10. Equals(Add(f, h), p * u + t * q, q * u) /\ Equals(Add(g, h), r * u + t * s, s * u)
  BY <1>3, EqualsAdd
<1>11. Leq(Add(f, h), Add(g, h))
  BY <1>4, <1>9, <1>10, LeqForms
<1>12. QED
  BY <1>8, <1>11

LEMMA LeqMul ==
  ASSUME NEW f \in Fracs, NEW g \in Fracs, NEW h \in Parts, Leq(f, g)
  PROVE  Leq(Mul(h, f), Mul(h, g))
<1>1. PICK p \in Int, q \in Nat \ {0}, r \in Int, s \in Nat \ {0}, t \in Nat, u \in Nat \ {0} :
        p = f[1] /\ q = f[2] /\ r = g[1] /\ s = g[2] /\ t = h[1] /\ u = h[2]
  BY FracsAre, PartIs
<1>2. p * s <= r * q
  BY <1>1 DEF Leq
<1>3. Equals(f, p, q) /\ Equals(g, r, s) /\ Equals(h, t, u)
  BY <1>1, EqualsSelf, PartIs
<1>4. u * q > 0 /\ u * s > 0
  OBVIOUS
<1>5. (t * p) * (u * s) <= (t * r) * (u * q)
  <2>1. PICK a \in Int, b \in Int, c \in Nat : a = p * s /\ b = r * q /\ c = t * u
    OBVIOUS
  <2>2. (t * p) * (u * s) = c * a /\ (t * r) * (u * q) = c * b
    BY <2>1
  <2>3. a <= b
    BY <1>2, <2>1
  <2>4. c * a <= c * b
    <3>1. CASE c = 0
      BY <3>1
    <3>2. CASE c # 0
      BY <2>3, <3>2, Scale
    <3>3. QED
      BY <3>1, <3>2
  <2>5. QED
    BY <2>2, <2>4
<1>6. Equals(Mul(h, f), t * p, u * q) /\ Equals(Mul(h, g), t * r, u * s)
  BY <1>3, EqualsMul
<1>7. QED
  BY <1>4, <1>5, <1>6, LeqForms

LEMMA PartsAbove ==
  ASSUME NEW f \in Fracs
  PROVE  f \in Parts <=> Leq(Zero, f)
<1>1. PICK p \in Int, q \in Nat \ {0} : p = f[1] /\ q = f[2]
  BY FracsAre
<1>2. Zero[1] = 0 /\ Zero[2] = 1
  BY DEF Zero, Whole
<1>3. Leq(Zero, f) <=> 0 * q <= p * 1
  BY <1>1, <1>2 DEF Leq
<1>4. QED
  BY <1>1, <1>3 DEF Parts

-----------------------------------------------------------------------------
(* Trailing stops *)

\* A step of the sar: from a towards e, by a share f of the way.
Step(a, f, e) == Add(a, Mul(f, Sub(e, a)))

LEMMA StepBetween ==
  ASSUME NEW a \in Fracs, NEW e \in Fracs, NEW f \in Parts, Leq(f, Whole(1))
  PROVE  /\ Step(a, f, e) \in Fracs
         /\ Leq(a, e) => Leq(a, Step(a, f, e)) /\ Leq(Step(a, f, e), e)
         /\ Leq(e, a) => Leq(e, Step(a, f, e)) /\ Leq(Step(a, f, e), a)
<1>1. PICK p \in Int, q \in Nat \ {0}, r \in Int, s \in Nat \ {0}, t \in Nat, u \in Nat \ {0} :
        p = a[1] /\ q = a[2] /\ r = e[1] /\ s = e[2] /\ t = f[1] /\ u = f[2]
  BY FracsAre, PartIs
<1>2. Equals(a, p, q) /\ Equals(e, r, s) /\ Equals(f, t, u)
  BY <1>1, EqualsSelf, PartIs
<1>3. t <= u
  <2>1. Leq(f, Whole(1)) <=> t * 1 <= 1 * u
    BY <1>1, WholeIs DEF Leq
  <2>2. QED
    BY <2>1
<1>4. PICK d \in Int : d = r * q - p * s
  OBVIOUS
<1>5. Equals(Sub(e, a), d, s * q)
  <2>1. Equals(Negated(a), -p, q)
    BY <1>2, EqualsNegated
  <2>2. Equals(Add(e, Negated(a)), r * q + (-p) * s, s * q)
    BY <1>2, <2>1, EqualsAdd
  <2>3. r * q + (-p) * s = d
    BY <1>4
  <2>4. QED
    BY <2>2, <2>3 DEF Sub
<1>6. PICK n \in Int, m \in Nat \ {0} : n = p * (u * (s * q)) + (t * d) * q /\ m = q * (u * (s * q))
  <2>1. p * (u * (s * q)) + (t * d) * q \in Int /\ q * (u * (s * q)) \in Nat \ {0}
    <3>1. s * q \in Nat \ {0}
      OBVIOUS
    <3>2. u * (s * q) \in Nat \ {0}
      BY <3>1
    <3>3. q * (u * (s * q)) \in Nat \ {0}
      BY <3>2
    <3>4. t * d \in Int
      OBVIOUS
    <3>5. QED
      BY <3>2, <3>3, <3>4
  <2>2. QED
    BY <2>1
<1>7. Equals(Step(a, f, e), n, m)
  <2>1. Equals(Mul(f, Sub(e, a)), t * d, u * (s * q))
    BY <1>2, <1>5, EqualsMul
  <2>2. Equals(Add(a, Mul(f, Sub(e, a))), p * (u * (s * q)) + (t * d) * q, q * (u * (s * q)))
    BY <1>2, <2>1, EqualsAdd
  <2>3. QED
    BY <1>6, <2>2 DEF Step
<1>8. n * q - p * m = (t * (q * q)) * d
  BY <1>6
<1>9. r * m - n * s = ((u - t) * (q * s)) * d
  <2>1. r * m = (u * (q * s)) * (r * q)
    BY <1>6
  <2>2. n * s = (u * (q * s)) * (p * s) + (t * (q * s)) * d
    BY <1>6
  <2>3. (u * (q * s)) * (r * q) - (u * (q * s)) * (p * s) = (u * (q * s)) * d
    BY <1>4
  <2>4. ((u - t) * (q * s)) * d = (u * (q * s)) * d - (t * (q * s)) * d
    OBVIOUS
  <2>5. PICK x1 \in Int, x2 \in Int, x3 \in Int, x4 \in Int :
          /\ x1 = (u * (q * s)) * (r * q) /\ x2 = (u * (q * s)) * (p * s)
          /\ x3 = (t * (q * s)) * d /\ x4 = (u * (q * s)) * d
    OBVIOUS
  <2>6. r * m = x1 /\ n * s = x2 + x3 /\ x1 - x2 = x4 /\ ((u - t) * (q * s)) * d = x4 - x3
    BY <2>1, <2>2, <2>3, <2>4, <2>5
  <2>7. QED
    BY <2>6
<1>10. PICK g \in Nat, h \in Nat : g = t * (q * q) /\ h = (u - t) * (q * s)
  <2>1. u - t \in Nat /\ q * q \in Nat /\ q * s \in Nat
    BY <1>3
  <2>2. t * (q * q) \in Nat /\ (u - t) * (q * s) \in Nat
    BY <2>1
  <2>3. QED
    BY <2>2
<1>11. PICK nq \in Int, pm \in Int, rm \in Int, ns \in Int, gd \in Int, hd \in Int :
         nq = n * q /\ pm = p * m /\ rm = r * m /\ ns = n * s /\ gd = g * d /\ hd = h * d
  OBVIOUS
<1>12. nq - pm = gd /\ rm - ns = hd
  BY <1>8, <1>9, <1>10, <1>11
<1>13. /\ Leq(a, Step(a, f, e)) <=> pm <= nq
       /\ Leq(Step(a, f, e), a) <=> nq <= pm
       /\ Leq(Step(a, f, e), e) <=> ns <= rm
       /\ Leq(e, Step(a, f, e)) <=> rm <= ns
  BY <1>2, <1>7, <1>11, LeqForms
<1>14. (d >= 0 => gd >= 0 /\ hd >= 0) /\ (d <= 0 => gd <= 0 /\ hd <= 0)
  BY <1>10, <1>11
<1>15. (Leq(a, e) <=> d >= 0) /\ (Leq(e, a) <=> d <= 0)
  <2>1. PICK x1 \in Int, x2 \in Int : x1 = p * s /\ x2 = r * q
    OBVIOUS
  <2>2. (Leq(a, e) <=> x1 <= x2) /\ (Leq(e, a) <=> x2 <= x1)
    BY <1>1, <2>1 DEF Leq
  <2>3. QED
    BY <1>4, <2>1, <2>2
<1>16. Step(a, f, e) \in Fracs
  BY <1>7 DEF Equals
<1>17. QED
  BY <1>12, <1>13, <1>14, <1>15, <1>16

\* The share of the way, from a quarter up to a half.
Shares == {f \in Parts : Leq(f, SarMax)}

LEMMA SharesAre ==
  /\ SarStart \in Shares
  /\ \A f \in Shares : f \in Parts /\ Leq(f, Whole(1)) /\ MinOf(Add(f, SarStart), SarMax) \in Shares
<1>1. Equals(SarStart, 1, 4) /\ Equals(SarMax, 1, 2) /\ Equals(Whole(1), 1, 1)
  BY FracIs, EqualsWhole DEF SarStart, SarMax, Equals
<1>2. SarStart \in Parts /\ SarMax \in Parts /\ Whole(1) \in Parts
  BY <1>1, PartBy
<1>3. Leq(SarStart, SarMax) /\ Leq(SarMax, Whole(1)) /\ Leq(SarMax, SarMax)
  <2>1. /\ Leq(SarStart, SarMax) <=> 1 * 2 <= 1 * 4
        /\ Leq(SarMax, Whole(1)) <=> 1 * 1 <= 1 * 2
        /\ Leq(SarMax, SarMax) <=> 1 * 2 <= 1 * 2
    BY <1>1, LeqForms
  <2>2. QED
    BY <2>1
<1>4. ASSUME NEW f \in Shares
      PROVE  f \in Parts /\ Leq(f, Whole(1)) /\ MinOf(Add(f, SarStart), SarMax) \in Shares
  <2>1. f \in Parts /\ Leq(f, SarMax)
    BY DEF Shares
  <2>2. f \in Fracs /\ SarMax \in Fracs /\ Whole(1) \in Fracs
    BY <1>2, <2>1 DEF Parts
  <2>3. Leq(f, Whole(1))
    BY <1>3, <2>1, <2>2, LeqTrans
  <2>4. PICK g \in Parts : g = Add(f, SarStart)
    BY <1>2, <2>1, PartAdd
  <2>5. MinOf(g, SarMax) \in Parts /\ Leq(MinOf(g, SarMax), SarMax)
    BY <1>2, <1>3 DEF MinOf
  <2>6. QED
    BY <2>1, <2>3, <2>4, <2>5 DEF Shares
<1>5. QED
  BY <1>2, <1>3, <1>4 DEF Shares

\* What a sar holds: the extreme point of the trend is on the side of the sar
\* that the trend says, and before the first bar there is no answer.
SarState(long, af, ep, sar, first, out) ==
  [long |-> long, af |-> af, ep |-> ep, sar |-> sar, first |-> first, out |-> out]

Risen(s) == \E af \in Shares, ep \in Fracs, sar \in Fracs, out \in Fracs \cup {NA} :
              s = SarState(TRUE, af, ep, sar, FALSE, out) /\ Leq(sar, ep)
Fallen(s) == \E af \in Shares, ep \in Fracs, sar \in Fracs, out \in Fracs \cup {NA} :
               s = SarState(FALSE, af, ep, sar, FALSE, out) /\ Leq(ep, sar)
SarSound(s) == s = NewSar \/ Risen(s) \/ Fallen(s)

LEMMA SarStarts ==
  ASSUME NEW L, NEW x, x.h \in Int, x.l \in Int, x.l <= x.h
  PROVE  Risen(SarUpdate(NewSar, x, L))
<1>1. SarUpdate(NewSar, x, L) = SarState(TRUE, SarStart, Whole(x.h), Whole(x.l), FALSE, NA)
  BY DEF SarUpdate, NewSar, SarState
<1>2. Whole(x.h) \in Fracs /\ Whole(x.l) \in Fracs /\ Leq(Whole(x.l), Whole(x.h))
  BY WholeIs DEF Leq
<1>3. QED
  BY <1>1, <1>2, SharesAre DEF Risen

LEMMA SarRises ==
  ASSUME NEW s, Risen(s), NEW L, NEW x, x.h \in Int, x.l \in Int, x.l <= x.h
  PROVE  \/ Risen(SarUpdate(s, x, L)) /\ Leq(s.sar, SarUpdate(s, x, L).sar)
         \/ Fallen(SarUpdate(s, x, L))
<1>1. PICK af \in Shares, ep \in Fracs, sar \in Fracs, out \in Fracs \cup {NA} :
        s = SarState(TRUE, af, ep, sar, FALSE, out) /\ Leq(sar, ep)
  BY DEF Risen
<1>2. PICK h \in Fracs, l \in Fracs : h = Whole(x.h) /\ l = Whole(x.l)
  BY WholeIs
<1>3. PICK r \in Fracs : r = Step(sar, af, ep) /\ Leq(sar, r) /\ Leq(r, ep)
  BY <1>1, SharesAre, StepBetween
<1>4. PICK u : u = SarUpdate(s, x, L)
  OBVIOUS
<1>5. s.sar = sar
  BY <1>1 DEF SarState
<1>6. CASE Less(l, r)
  <2>1. u = SarState(FALSE, SarStart, l, ep, FALSE, ep)
    BY <1>1, <1>2, <1>3, <1>4, <1>6 DEF SarUpdate, SarState, Step
  <2>2. Leq(l, ep)
    BY <1>3, <1>6, OrderIs, LeqTrans
  <2>3. Fallen(u)
    BY <2>1, <2>2, SharesAre DEF Fallen
  <2>4. QED
    BY <1>4, <2>3
<1>7. CASE ~Less(l, r) /\ Less(ep, h)
  <2>1. u = SarState(TRUE, MinOf(Add(af, SarStart), SarMax), h, r, FALSE, r)
    BY <1>1, <1>2, <1>3, <1>4, <1>7 DEF SarUpdate, SarState, Step
  <2>2. Leq(r, h)
    BY <1>3, <1>7, OrderIs, LeqTrans
  <2>3. Risen(u)
    BY <2>1, <2>2, SharesAre DEF Risen
  <2>4. u.sar = r
    BY <2>1 DEF SarState
  <2>5. QED
    BY <1>3, <1>4, <1>5, <2>3, <2>4
<1>8. CASE ~Less(l, r) /\ ~Less(ep, h)
  <2>1. u = SarState(TRUE, af, ep, r, FALSE, r)
    BY <1>1, <1>2, <1>3, <1>4, <1>8 DEF SarUpdate, SarState, Step
  <2>2. Risen(u)
    BY <1>3, <2>1 DEF Risen
  <2>3. u.sar = r
    BY <2>1 DEF SarState
  <2>4. QED
    BY <1>3, <1>4, <1>5, <2>2, <2>3
<1>9. QED
  BY <1>6, <1>7, <1>8

LEMMA SarFalls ==
  ASSUME NEW s, Fallen(s), NEW L, NEW x, x.h \in Int, x.l \in Int, x.l <= x.h
  PROVE  \/ Fallen(SarUpdate(s, x, L)) /\ Leq(SarUpdate(s, x, L).sar, s.sar)
         \/ Risen(SarUpdate(s, x, L))
<1>1. PICK af \in Shares, ep \in Fracs, sar \in Fracs, out \in Fracs \cup {NA} :
        s = SarState(FALSE, af, ep, sar, FALSE, out) /\ Leq(ep, sar)
  BY DEF Fallen
<1>2. PICK h \in Fracs, l \in Fracs : h = Whole(x.h) /\ l = Whole(x.l)
  BY WholeIs
<1>3. PICK r \in Fracs : r = Step(sar, af, ep) /\ Leq(r, sar) /\ Leq(ep, r)
  BY <1>1, SharesAre, StepBetween
<1>4. PICK u : u = SarUpdate(s, x, L)
  OBVIOUS
<1>5. s.sar = sar
  BY <1>1 DEF SarState
<1>6. CASE Less(r, h)
  <2>1. u = SarState(TRUE, SarStart, h, ep, FALSE, ep)
    BY <1>1, <1>2, <1>3, <1>4, <1>6 DEF SarUpdate, SarState, Step
  <2>2. Leq(ep, h)
    BY <1>3, <1>6, OrderIs, LeqTrans
  <2>3. Risen(u)
    BY <2>1, <2>2, SharesAre DEF Risen
  <2>4. QED
    BY <1>4, <2>3
<1>7. CASE ~Less(r, h) /\ Less(l, ep)
  <2>1. u = SarState(FALSE, MinOf(Add(af, SarStart), SarMax), l, r, FALSE, r)
    BY <1>1, <1>2, <1>3, <1>4, <1>7 DEF SarUpdate, SarState, Step
  <2>2. Leq(l, r)
    BY <1>3, <1>7, OrderIs, LeqTrans
  <2>3. Fallen(u)
    BY <2>1, <2>2, SharesAre DEF Fallen
  <2>4. u.sar = r
    BY <2>1 DEF SarState
  <2>5. QED
    BY <1>3, <1>4, <1>5, <2>3, <2>4
<1>8. CASE ~Less(r, h) /\ ~Less(l, ep)
  <2>1. u = SarState(FALSE, af, ep, r, FALSE, r)
    BY <1>1, <1>2, <1>3, <1>4, <1>8 DEF SarUpdate, SarState, Step
  <2>2. Fallen(u)
    BY <1>3, <2>1 DEF Fallen
  <2>3. u.sar = r
    BY <2>1 DEF SarState
  <2>4. QED
    BY <1>3, <1>4, <1>5, <2>2, <2>3
<1>9. QED
  BY <1>6, <1>7, <1>8

\* One bar more.
LEMMA SarTrails ==
  ASSUME NEW s, SarSound(s), NEW L, NEW x, x.h \in Int, x.l \in Int, x.l <= x.h
  PROVE  /\ SarSound(SarUpdate(s, x, L))
         /\ s.out # NA /\ s.long = SarUpdate(s, x, L).long =>
              Trails(SarUpdate(s, x, L).long, s.sar, SarUpdate(s, x, L).sar)
<1>1. PICK u : u = SarUpdate(s, x, L)
  OBVIOUS
<1>2. \A r : (Risen(r) => r.long = TRUE) /\ (Fallen(r) => r.long = FALSE)
  BY DEF Risen, Fallen, SarState
<1>3. CASE s = NewSar
  BY <1>3, SarStarts DEF SarSound, NewSar
<1>4. CASE Risen(s)
  <2>1. (Risen(u) /\ Leq(s.sar, u.sar)) \/ Fallen(u)
    BY <1>1, <1>4, SarRises
  <2>2. s.long = TRUE
    BY <1>2, <1>4
  <2>3. CASE Risen(u) /\ Leq(s.sar, u.sar)
    <3>1. Trails(u.long, s.sar, u.sar)
      BY <1>2, <2>3 DEF Trails
    <3>2. QED
      BY <1>1, <2>3, <3>1 DEF SarSound
  <2>4. CASE Fallen(u)
    <3>1. u.long = FALSE
      BY <1>2, <2>4
    <3>2. QED
      BY <1>1, <2>2, <2>4, <3>1 DEF SarSound
  <2>5. QED
    BY <2>1, <2>3, <2>4
<1>5. CASE Fallen(s)
  <2>1. (Fallen(u) /\ Leq(u.sar, s.sar)) \/ Risen(u)
    BY <1>1, <1>5, SarFalls
  <2>2. s.long = FALSE
    BY <1>2, <1>5
  <2>3. CASE Fallen(u) /\ Leq(u.sar, s.sar)
    <3>1. Trails(u.long, s.sar, u.sar)
      BY <1>2, <2>3 DEF Trails
    <3>2. QED
      BY <1>1, <2>3, <3>1 DEF SarSound
  <2>4. CASE Risen(u)
    <3>1. u.long = TRUE
      BY <1>2, <2>4
    <3>2. QED
      BY <1>1, <2>2, <2>4, <3>1 DEF SarSound
  <2>5. QED
    BY <2>1, <2>3, <2>4
<1>6. QED
  BY <1>3, <1>4, <1>5 DEF SarSound

\* What a supertrend holds, q being the ranges it was told: no band and no line
\* before its average has begun, and after that a line on the band of its
\* direction, with the close of the bar before.
Quiet(s) ==
  /\ s.upper = NA /\ s.lower = NA /\ s.line = NA

Leading(s) ==
  /\ s.upper \in Fracs /\ s.lower \in Fracs /\ s.close \in Int
  /\ \/ s.line = s.lower /\ s.out = <<s.line, -1>>
     \/ s.line = s.upper /\ s.out = <<s.line, 1>>

TrendSound(s, L) ==
  \E q \in Seq(Fracs) :
    /\ s.atr = RmaKept(q, L, s.atr.out)
    /\ s.close \in Int \cup {NA}
    /\ IF Len(q) < L THEN Quiet(s) ELSE Leading(s)

LEMMA TrendFresh ==
  ASSUME NEW L \in Nat \ {0}
  PROVE  TrendSound(NewSupertrend, L)
<1>1. PICK q \in Seq(Fracs) : q = <<>> /\ Len(q) = 0
  <2>1. <<>> \in Seq(Fracs)
    OBVIOUS
  <2>2. QED
    BY <2>1
<1>2. Rma(q, L) = NA /\ Early(q, L) = q
  <2>0. Len(q) < L /\ Len(q) <= L
    BY <1>1
  <2>1. Early(q, L) = q
    BY <2>0, EarlyIs
  <2>2. Zero \in Fracs
    BY WholeIs DEF Zero
  <2>3. Rma(q, L) = NA
    BY <2>0, <2>2, RmaExt
  <2>4. QED
    BY <2>1, <2>3
<1>3. NewSupertrend.atr = RmaKept(q, L, NA)
  BY <1>1, <1>2 DEF NewSupertrend, NewSmooth, RmaKept
<1>4. RmaKept(q, L, NA).out = NA
  BY DEF RmaKept
<1>5. Quiet(NewSupertrend) /\ NewSupertrend.close = NA
  BY DEF Quiet, NewSupertrend
<1>6. NewSupertrend.atr.out = NA
  BY <1>3, <1>4
<1>7. NewSupertrend.atr = RmaKept(q, L, NewSupertrend.atr.out)
  BY <1>3, <1>6
<1>8. Len(q) < L
  BY <1>1
<1>9. QED
  BY <1>5, <1>7, <1>8 DEF TrendSound

\* What a bar leaves of a supertrend: a line on one of the bands.
Lined(s, x, a, b, line, way) ==
  [atr |-> a, upper |-> b.upper, lower |-> b.lower, line |-> line,
   close |-> x.c, seen |-> s.seen + 1, out |-> <<line, way>>]

Ranged(s, x) == IF s.close = NA THEN x.h - x.l ELSE TrueRange(x, [c |-> s.close])

BandOf(s, x, a) ==
  Band(s, Add(Frac(x.h + x.l, 2), a.out), Sub(Frac(x.h + x.l, 2), a.out),
       Whole(IF s.close = NA THEN x.c ELSE s.close))

LEMMA TrendUpdates ==
  ASSUME NEW s, NEW x, NEW L, NEW a, a = RmaUpdate(s.atr, Whole(Ranged(s, x)), L),
         NEW b, b = BandOf(s, x, a), NEW u, u = SupertrendUpdate(s, x, L)
  PROVE  /\ a.out = NA => \E o : u = [atr |-> a, upper |-> s.upper, lower |-> s.lower,
                                      line |-> s.line, close |-> x.c, seen |-> s.seen + 1,
                                      out |-> <<o, 1>>]
         /\ a.out # NA => u = Lined(s, x, a, b, b.lower, -1) \/ u = Lined(s, x, a, b, b.upper, 1)
<1>1. a = RmaUpdate(s.atr, Whole(IF s.close = NA THEN x.h - x.l
                                 ELSE TrueRange(x, [c |-> s.close])), L)
  BY DEF Ranged
<1>2. b = Band(s, Add(Frac(x.h + x.l, 2), a.out), Sub(Frac(x.h + x.l, 2), a.out),
               Whole(IF s.close = NA THEN x.c ELSE s.close))
  BY DEF BandOf
<1> DEFINE up == /\ s.line # NA
                 /\ IF s.line = s.upper THEN Less(b.upper, Whole(x.c))
                                        ELSE ~Less(Whole(x.c), b.lower)
           line == IF up THEN b.lower ELSE b.upper
<1>3. u = IF a.out = NA
          THEN [atr |-> a, upper |-> s.upper, lower |-> s.lower, line |-> s.line,
                close |-> x.c, seen |-> s.seen + 1,
                out |-> <<IF s.seen = 0 THEN Zero ELSE NA, 1>>]
          ELSE [atr |-> a, upper |-> b.upper, lower |-> b.lower, line |-> line,
                close |-> x.c, seen |-> s.seen + 1, out |-> <<line, IF up THEN -1 ELSE 1>>]
  BY <1>1, <1>2 DEF SupertrendUpdate
<1> HIDE DEF up
<1>4. QED
  BY <1>3 DEF Lined

LEMMA BandIs ==
  ASSUME NA \notin Int, NA \notin Int \X Int, NEW s, NEW x, x.h \in Int, x.l \in Int, x.c \in Int,
         s.close \in Int \cup {NA}, NEW a, a.out \in Fracs,
         Quiet(s) \/ Leading(s)
  PROVE  /\ BandOf(s, x, a).upper \in Fracs /\ BandOf(s, x, a).lower \in Fracs
         /\ Leading(s) /\ ~Less(Whole(s.close), s.lower) => Leq(s.lower, BandOf(s, x, a).lower)
         /\ Leading(s) /\ ~Less(s.upper, Whole(s.close)) => Leq(BandOf(s, x, a).upper, s.upper)
<1>1. PICK mid \in Fracs : mid = Frac(x.h + x.l, 2)
  <2>1. x.h + x.l \in Int
    OBVIOUS
  <2>2. QED
    BY <2>1, FracIs
<1>2. PICK bub \in Fracs, blb \in Fracs : bub = Add(mid, a.out) /\ blb = Sub(mid, a.out)
  BY AddIs, SubIs
<1>3. PICK pc \in Fracs : pc = Whole(IF s.close = NA THEN x.c ELSE s.close)
  BY WholeIs
<1>4. /\ BandOf(s, x, a).upper
           = IF s.upper = NA \/ Less(bub, s.upper) \/ Less(s.upper, pc) THEN bub ELSE s.upper
      /\ BandOf(s, x, a).lower
           = IF s.lower = NA \/ Less(s.lower, blb) \/ Less(pc, s.lower) THEN blb ELSE s.lower
  BY <1>1, <1>2, <1>3 DEF BandOf, Band
<1>5. CASE Quiet(s)
  BY <1>2, <1>4, <1>5, NotBlank DEF Quiet, Leading
<1>6. CASE Leading(s)
  <2>1. s.upper \in Fracs /\ s.lower \in Fracs /\ s.upper # NA /\ s.lower # NA
    BY <1>6, NotBlank DEF Leading
  <2>2. /\ BandOf(s, x, a).upper \in Fracs /\ BandOf(s, x, a).lower \in Fracs
        /\ BandOf(s, x, a).upper
             = IF Less(bub, s.upper) \/ Less(s.upper, pc) THEN bub ELSE s.upper
        /\ BandOf(s, x, a).lower
             = IF Less(s.lower, blb) \/ Less(pc, s.lower) THEN blb ELSE s.lower
    BY <1>2, <1>4, <2>1
  <2>3. /\ Less(s.lower, blb) => Leq(s.lower, blb)
        /\ Less(bub, s.upper) => Leq(bub, s.upper)
        /\ Leq(s.lower, s.lower) /\ Leq(s.upper, s.upper)
    BY <2>1, OrderIs
  <2>4. CASE s.close # NA
    <3>1. pc = Whole(s.close)
      BY <1>3, <2>4
    <3>2. QED
      BY <2>2, <2>3, <3>1
  <2>5. CASE s.close = NA
    <3>1. pc = Whole(x.c)
      BY <1>3, <2>5
    <3>2. QED
      BY <1>6, <2>5 DEF Leading
  <2>6. QED
    BY <2>4, <2>5
<1>7. QED
  BY <1>5, <1>6

\* One bar more.
LEMMA TrendTrails ==
  ASSUME NA \notin Int, NA \notin Int \X Int, NEW L \in Nat \ {0}, NEW s, TrendSound(s, L),
         NEW x, x.h \in Int, x.l \in Int, x.c \in Int,
         NEW u, u = SupertrendUpdate(s, x, L)
  PROVE  /\ TrendSound(u, L)
         /\ s.line # NA /\ s.out[2] = u.out[2] /\ Held(s) =>
              IF u.out[2] = -1 THEN Leq(s.line, u.line) ELSE Leq(u.line, s.line)
<1>1. PICK q \in Seq(Fracs) :
        /\ s.atr = RmaKept(q, L, s.atr.out) /\ s.close \in Int \cup {NA}
        /\ IF Len(q) < L THEN Quiet(s) ELSE Leading(s)
  BY DEF TrendSound
<1>2. PICK v \in Fracs : v = Whole(Ranged(s, x))
  <2>1. CASE s.close = NA
    BY <2>1, WholeIs DEF Ranged
  <2>2. CASE s.close # NA
    <3>1. PICK p : p = [c |-> s.close]
      OBVIOUS
    <3>2. TrueRange(x, p) \in Int
      <4>1. p.c \in Int
        BY <1>1, <2>2, <3>1
      <4>2. QED
        BY <4>1, TrueRangeIs
    <3>3. QED
      BY <2>2, <3>1, <3>2, WholeIs DEF Ranged
  <2>3. QED
    BY <2>1, <2>2
<1>3. PICK a, b : a = RmaUpdate(s.atr, v, L) /\ b = BandOf(s, x, a)
  OBVIOUS
<1>4. PICK r \in Seq(Fracs) :
        /\ Len(r) = Len(q) + 1 /\ a = RmaKept(r, L, a.out)
        /\ Len(r) < L => a.out = NA
        /\ Len(r) >= L => a.out \in Fracs
  <2>1. PICK o : s.atr = RmaKept(q, L, o)
    BY <1>1
  <2>2. PICK r \in Seq(Fracs) : r = Ext(q, v) /\ Len(r) = Len(q) + 1
    BY ExtIs
  <2>3. a = RmaTold(r, L)
    BY <1>3, <2>1, <2>2, RmaFed
  <2>4. a.out = Rma(r, L) /\ a = RmaKept(r, L, a.out)
    BY <2>3 DEF RmaTold, RmaKept
  <2>5. /\ Len(r) < L => Rma(r, L) = NA
        /\ Len(r) >= L => Rma(r, L) \in Fracs
    BY RmaExt, ZeroIs
  <2>6. QED
    BY <2>2, <2>4, <2>5
<1>5. /\ a.out = NA => \E o : u = [atr |-> a, upper |-> s.upper, lower |-> s.lower,
                                   line |-> s.line, close |-> x.c, seen |-> s.seen + 1,
                                   out |-> <<o, 1>>]
      /\ a.out # NA => u = Lined(s, x, a, b, b.lower, -1) \/ u = Lined(s, x, a, b, b.upper, 1)
  BY <1>2, <1>3, TrendUpdates
<1>6. Len(q) \in Nat
  OBVIOUS
<1>7. CASE Len(r) < L
  <2>1. a.out = NA /\ Quiet(s)
    BY <1>1, <1>3, <1>4, <1>6, <1>7
  <2>2. PICK o : u = [atr |-> a, upper |-> s.upper, lower |-> s.lower, line |-> s.line,
                      close |-> x.c, seen |-> s.seen + 1, out |-> <<o, 1>>]
    BY <1>5, <2>1
  <2>3. u.atr = a /\ u.close = x.c /\ Quiet(u) /\ s.line = NA
    BY <2>1, <2>2 DEF Quiet
  <2>4. TrendSound(u, L)
    BY <1>3, <1>4, <1>7, <2>3 DEF TrendSound
  <2>5. QED
    BY <2>3, <2>4
<1>8. CASE Len(r) >= L
  <2>1. a.out \in Fracs /\ a.out # NA
    BY <1>3, <1>4, <1>8, NotBlank
  <2>2. Quiet(s) \/ Leading(s)
    BY <1>1
  <2>3. /\ b.upper \in Fracs /\ b.lower \in Fracs
        /\ Leading(s) /\ ~Less(Whole(s.close), s.lower) => Leq(s.lower, b.lower)
        /\ Leading(s) /\ ~Less(s.upper, Whole(s.close)) => Leq(b.upper, s.upper)
    BY <1>1, <1>3, <2>1, <2>2, BandIs
  <2>4. u = Lined(s, x, a, b, b.lower, -1) \/ u = Lined(s, x, a, b, b.upper, 1)
    BY <1>5, <2>1
  <2>5. /\ u.atr = a /\ u.upper = b.upper /\ u.lower = b.lower /\ u.close = x.c
        /\ \/ u.line = b.lower /\ u.out = <<b.lower, -1>>
           \/ u.line = b.upper /\ u.out = <<b.upper, 1>>
    BY <2>4 DEF Lined
  <2>6. TrendSound(u, L)
    <3>1. Leading(u)
      BY <2>3, <2>5 DEF Leading
    <3>2. ~(Len(r) < L)
      BY <1>8
    <3>3. QED
      BY <1>3, <1>4, <2>5, <3>1, <3>2 DEF TrendSound
  <2>7. ASSUME s.line # NA, s.out[2] = u.out[2], Held(s)
        PROVE  IF u.out[2] = -1 THEN Leq(s.line, u.line) ELSE Leq(u.line, s.line)
    <3>1. Leading(s)
      BY <2>2, <2>7 DEF Quiet
    <3>2. \/ s.line = s.lower /\ s.out[2] = -1
          \/ s.line = s.upper /\ s.out[2] = 1
      BY <3>1 DEF Leading
    <3>3. \/ u.line = b.lower /\ u.out[2] = -1
          \/ u.line = b.upper /\ u.out[2] = 1
      BY <2>5
    <3>4. CASE s.out[2] = -1
      BY <2>3, <2>7, <3>1, <3>2, <3>3, <3>4 DEF Held
    <3>5. CASE s.out[2] = 1
      BY <2>3, <2>7, <3>1, <3>2, <3>3, <3>5 DEF Held
    <3>6. QED
      BY <3>2, <3>4, <3>5
  <2>8. QED
    BY <2>6, <2>7
<1>9. QED
  BY <1>4, <1>6, <1>7, <1>8

\* A trailing stop holds what its update needs.
StopInv ==
  /\ world.fn = "supertrend" => TrendSound(state, world.len)
  /\ world.fn = "sar" => SarSound(state)

\* The stop ta.supertrend and ta.sar draw only moves with its trend, for every
\* candle and every length: the bands _SupertrendState keeps and the extreme
\* point and acceleration of _SARState are enough to never give ground while the
\* direction holds.
THEOREM StopsTrailTrend == Spec => TrailsTrend
<1>1. Init => StopInv
  <2>1. SUFFICES ASSUME Init PROVE StopInv
    OBVIOUS
  <2>2. world.len \in Nat \ {0} /\ state = Fresh(world.fn)
    BY <2>1, IndicatorsAssumption DEF Init
  <2>3. Fresh("supertrend") = NewSupertrend /\ Fresh("sar") = NewSar
    BY DEF Fresh
  <2>4. QED
    BY <2>2, <2>3, TrendFresh DEF StopInv, SarSound
<1>2. TAInv /\ StopInv /\ [Next]_taVars
        => /\ StopInv'
           /\ [/\ world.fn = "supertrend" /\ state.line # NA /\ state.out[2] = state'.out[2]
                    /\ Held(state) => Trails(state'.out[2] = -1, state.line, state'.line)
               /\ world.fn = "sar" /\ state.out # NA /\ state.long = state'.long =>
                    Trails(state'.long, state.sar, state'.sar)]_taVars
  <2>1. SUFFICES ASSUME TAInv, StopInv, [Next]_taVars
                 PROVE  /\ StopInv'
                        /\ \/ /\ world.fn = "supertrend" /\ state.line # NA
                                   /\ state.out[2] = state'.out[2] /\ Held(state) =>
                                     IF state'.out[2] = -1 THEN Leq(state.line, state'.line)
                                                           ELSE Leq(state'.line, state.line)
                              /\ world.fn = "sar" /\ state.out # NA /\ state.long = state'.long =>
                                   Trails(state'.long, state.sar, state'.sar)
                           \/ UNCHANGED taVars
    BY DEF Trails
  <2>2. CASE UNCHANGED taVars
    BY <2>1, <2>2 DEF StopInv, taVars
  <2>3. ASSUME NEW x \in world.bars, Feed(x)
        PROVE  /\ StopInv'
               /\ world.fn = "supertrend" /\ state.line # NA
                    /\ state.out[2] = state'.out[2] /\ Held(state) =>
                      IF state'.out[2] = -1 THEN Leq(state.line, state'.line)
                                            ELSE Leq(state'.line, state.line)
               /\ world.fn = "sar" /\ state.out # NA /\ state.long = state'.long =>
                    Trails(state'.long, state.sar, state'.sar)
    <3>1. world \in Worlds /\ world' = world /\ state' = Update(world.fn, state, x, world.len)
      BY <2>1, <2>3 DEF Feed, TAInv
    <3>2. world.len \in Nat \ {0} /\ NA \notin Int /\ NA \notin Int \X Int
      BY <3>1, IndicatorsAssumption
    <3>3. world.fn \in Charted =>
            x.h \in Int /\ x.l \in Int /\ x.c \in Int /\ x.l <= x.h
      BY <3>1, IndicatorsAssumption
    <3>4. CASE world.fn = "supertrend"
      <4>1. state' = SupertrendUpdate(state, x, world.len)
        BY <3>1, <3>4 DEF Update
      <4>2. /\ TrendSound(state', world.len)
            /\ state.line # NA /\ state.out[2] = state'.out[2] /\ Held(state) =>
                 IF state'.out[2] = -1 THEN Leq(state.line, state'.line)
                                       ELSE Leq(state'.line, state.line)
        BY <2>1, <3>2, <3>3, <3>4, <4>1, TrendTrails DEF StopInv, Charted
      <4>3. QED
        BY <3>1, <3>4, <4>2 DEF StopInv
    <3>5. CASE world.fn = "sar"
      <4>1. state' = SarUpdate(state, x, world.len)
        BY <3>1, <3>5 DEF Update
      <4>2. /\ SarSound(state')
            /\ state.out # NA /\ state.long = state'.long =>
                 Trails(state'.long, state.sar, state'.sar)
        BY <2>1, <3>2, <3>3, <3>5, <4>1, SarTrails DEF StopInv, Charted
      <4>3. QED
        BY <3>1, <3>5, <4>2 DEF StopInv
    <3>6. QED
      BY <3>1, <3>4, <3>5 DEF StopInv
  <2>4. QED
    BY <2>1, <2>2, <2>3 DEF Next
<1>3. QED
  BY <1>1, <1>2, InitTAInv, NextTAInv, PTL DEF Spec, TrailsTrend

===============================================================================
