------------------------------ MODULE FoldLemmas ------------------------------
(***************************************************************************)
(* Facts about the folds the models are written with, for any operator Op. *)
(* A proof module instantiates this one with the operator it folds, which  *)
(* is why Op is a constant here and not a parameter of the lemmas.         *)
(***************************************************************************)
EXTENDS Integers, Sequences, Folds, WellFoundedInduction

CONSTANT Op(_, _)

\* FoldLeft and FlattenSeq as SequencesExt defines them.  That module is not
\* extended: every instance of this one would hold a copy of all its operators,
\* and every obligation of the module that instantiates it would carry them.
Max(S) == CHOOSE x \in S : \A y \in S : x >= y
Fold(base, s) ==
  MapThenFoldSet(LAMBDA x, y : Op(y, x), base, LAMBDA i : s[i], LAMBDA S : Max(S), DOMAIN s)

FlattenSeq(s) ==
  LET flatten[i \in 1..Len(s)] == IF i = 1 THEN s[i] ELSE flatten[i - 1] \o s[i]
  IN  IF Len(s) = 0 THEN s ELSE flatten[Len(s)]

-----------------------------------------------------------------------------
(* Induction *)

\* Induction over the natural numbers, said of a set.
LEMMA SetInduction ==
  ASSUME NEW S, 0 \in S, \A n \in Nat : n \in S => n + 1 \in S
  PROVE  Nat \subseteq S
<1> DEFINE Out == Nat \ S
           Less == {p \in Nat \X Nat : p[1] < p[2]}
<1>1. SUFFICES ASSUME Out # {} PROVE FALSE
  OBVIOUS
<1>2. IsWellFoundedOn(Less, Nat)
  BY NatLessThanWellFounded DEF OpToRel
<1>3. PICK x \in Out : \A y \in Out : <<y, x>> \notin Less
  <2> Out \subseteq Nat
    OBVIOUS
  <2> HIDE DEF Out, Less
  <2> QED
    BY <1>1, <1>2, WFMin
<1>4. x - 1 \in Nat /\ x - 1 + 1 = x
  OBVIOUS
<1>5. <<x - 1, x>> \in Less
  BY <1>4
<1>6. x - 1 \notin Out
  BY <1>3, <1>5
<1>7. QED
  BY <1>4, <1>6

-----------------------------------------------------------------------------
(* Fold *)

\* The function Fold iterates, on the sets of the first n places.
Iterates(f, base, s, n) ==
  f = [t \in SUBSET (1..n) |->
         IF t = {} THEN base ELSE Op(f[t \ {Max(t)}], s[Max(t)])]

\* The largest place of a set that has the last one.
LEMMA MaxIsLast ==
  ASSUME NEW n \in Nat, NEW t \in SUBSET (1..n), n \in t
  PROVE  Max(t) = n
<1>1. n \in t /\ \A y \in t : n >= y
  OBVIOUS
<1>2. \A x \in t : (\A y \in t : x >= y) => x = n
  OBVIOUS
<1>3. QED
  BY <1>1, <1>2 DEF Max

\* It exists, whatever the operator.
LEMMA IterateExists ==
  ASSUME NEW base, NEW s, NEW n \in Nat
  PROVE  \E f : Iterates(f, base, s, n)
<1> DEFINE S == {k \in Nat : \E f : Iterates(f, base, s, k)}
<1>1. 0 \in S
  <2>1. Iterates([t \in SUBSET (1..0) |-> base], base, s, 0)
    BY DEF Iterates
  <2>2. QED
    BY <2>1
<1>2. ASSUME NEW k \in Nat, k \in S PROVE k + 1 \in S
  <2>1. PICK f : Iterates(f, base, s, k)
    BY <1>2
  <2> DEFINE g == [t \in SUBSET (1..(k + 1)) |->
                     IF k + 1 \in t THEN Op(f[t \ {k + 1}], s[k + 1]) ELSE f[t]]
  <2>2. ASSUME NEW t \in SUBSET (1..(k + 1))
        PROVE  g[t] = IF t = {} THEN base ELSE Op(g[t \ {Max(t)}], s[Max(t)])
    <3>1. CASE k + 1 \in t
      <4>1. Max(t) = k + 1
        BY <3>1, MaxIsLast
      <4>2. t \ {k + 1} \in SUBSET (1..(k + 1)) /\ k + 1 \notin t \ {k + 1}
        OBVIOUS
      <4>3. g[t \ {k + 1}] = f[t \ {k + 1}]
        BY <4>2
      <4>4. QED
        BY <3>1, <4>1, <4>3
    <3>2. CASE k + 1 \notin t
      <4>1. t \in SUBSET (1..k) /\ g[t] = f[t]
        BY <3>2
      <4>2. f[t] = IF t = {} THEN base ELSE Op(f[t \ {Max(t)}], s[Max(t)])
        BY <2>1, <4>1 DEF Iterates
      <4>3. g[t \ {Max(t)}] = f[t \ {Max(t)}]
        BY <3>2, <4>1
      <4>4. QED
        BY <4>1, <4>2, <4>3
    <3>3. QED
      BY <3>1, <3>2
  <2>3. Iterates(g, base, s, k + 1)
    <3> DEFINE h == [t \in SUBSET (1..(k + 1)) |->
                       IF t = {} THEN base ELSE Op(g[t \ {Max(t)}], s[Max(t)])]
    <3>1. DOMAIN g = SUBSET (1..(k + 1)) /\ DOMAIN h = SUBSET (1..(k + 1))
      OBVIOUS
    <3>2. \A t \in SUBSET (1..(k + 1)) : g[t] = h[t]
      BY <2>2
    <3>3. g = [t \in SUBSET (1..(k + 1)) |-> g[t]] /\ h = [t \in SUBSET (1..(k + 1)) |-> h[t]]
      OBVIOUS
    <3> HIDE DEF g
    <3>4. QED
      BY <3>2, <3>3 DEF Iterates
  <2>4. QED
    BY <2>3
<1>3. Nat \subseteq S
  <2> HIDE DEF S
  <2> QED
    BY <1>1, <1>2, SetInduction
<1>4. QED
  BY <1>3

\* It depends on the first places alone.
LEMMA IterateUnique ==
  ASSUME NEW base, NEW s, NEW r, NEW m \in Nat,
         \A i \in 1..m : r[i] = s[i],
         NEW f, Iterates(f, base, r, m), NEW g, Iterates(g, base, s, m + 1)
  PROVE  f[1..m] = g[1..m]
<1> DEFINE n == m + 1
<1> DEFINE S == {k \in Nat : k <= m => \A t \in SUBSET (1..k) : f[t] = g[t]}
<1>0. /\ \A t \in SUBSET (1..m) :
           f[t] = IF t = {} THEN base ELSE Op(f[t \ {Max(t)}], r[Max(t)])
      /\ \A t \in SUBSET (1..n) :
           g[t] = IF t = {} THEN base ELSE Op(g[t \ {Max(t)}], s[Max(t)])
  BY DEF Iterates
<1>1. 0 \in S
  <2>1. SUBSET (1..0) = {{}} /\ {} \in SUBSET (1..m) /\ {} \in SUBSET (1..n)
    OBVIOUS
  <2>2. f[{}] = base /\ g[{}] = base
    BY <1>0, <2>1
  <2>3. QED
    BY <2>1, <2>2
<1>2. ASSUME NEW k \in Nat, k \in S PROVE k + 1 \in S
  <2> SUFFICES ASSUME k + 1 <= m, NEW t \in SUBSET (1..(k + 1)) PROVE f[t] = g[t]
    OBVIOUS
  <2>1. CASE k + 1 \in t
    <3>1. Max(t) = k + 1
      BY <2>1, MaxIsLast
    <3>2. t \ {k + 1} \in SUBSET (1..k)
      OBVIOUS
    <3>3. f[t \ {k + 1}] = g[t \ {k + 1}]
      BY <1>2, <3>2
    <3>4. t \in SUBSET (1..m) /\ t \in SUBSET (1..n) /\ t # {}
      BY <2>1
    <3>5. f[t] = Op(f[t \ {k + 1}], r[k + 1]) /\ g[t] = Op(g[t \ {k + 1}], s[k + 1])
      BY <1>0, <3>1, <3>4
    <3>6. k + 1 \in 1..m
      OBVIOUS
    <3>7. QED
      BY <3>3, <3>5, <3>6
  <2>2. CASE k + 1 \notin t
    <3>1. t \in SUBSET (1..k)
      BY <2>2
    <3>2. QED
      BY <1>2, <3>1
  <2>3. QED
    BY <2>1, <2>2
<1>3. Nat \subseteq S
  <2> HIDE DEF S
  <2> QED
    BY <1>1, <1>2, SetInduction
<1>4. QED
  BY <1>3

\* A fold is the value of the iterated function for all places.
LEMMA FoldIterates ==
  ASSUME NEW base, NEW s, NEW n \in Nat, DOMAIN s = 1..n
  PROVE  \E f : Iterates(f, base, s, n) /\ Fold(base, s) = f[1..n]
<1> DEFINE f == CHOOSE f : Iterates(f, base, s, n)
<1>1. Iterates(f, base, s, n)
  BY IterateExists
<1>2. Fold(base, s) = f[1..n]
  BY DEF Fold, MapThenFoldSet, Iterates
<1>3. QED
  BY <1>1, <1>2

\* The fold of no elements is where it starts.
LEMMA FoldEmpty ==
  ASSUME NEW base
  PROVE  Fold(base, <<>>) = base
<1>1. DOMAIN <<>> = 1..0
  OBVIOUS
<1>2. PICK f : Iterates(f, base, <<>>, 0) /\ Fold(base, <<>>) = f[1..0]
  BY <1>1, FoldIterates
<1>3. 1..0 = {} /\ {} \in SUBSET (1..0)
  OBVIOUS
<1>4. QED
  BY <1>2, <1>3 DEF Iterates

\* One element more is one step more.
LEMMA FoldAppend ==
  ASSUME NEW base, NEW T, NEW s \in Seq(T), NEW e
  PROVE  Fold(base, Append(s, e)) = Op(Fold(base, s), e)
<1>1. PICK n \in Nat : n = Len(s)
  OBVIOUS
<1>2. PICK r : r = Append(s, e)
  OBVIOUS
<1>3. /\ DOMAIN s = 1..n /\ DOMAIN r = 1..(n + 1)
      /\ r[n + 1] = e /\ \A i \in 1..n : s[i] = r[i]
  <2>1. s \in Seq(T \cup {e}) /\ e \in T \cup {e}
    OBVIOUS
  <2>2. QED
    BY <1>1, <1>2, <2>1
<1>4. n + 1 \in Nat /\ n <= n + 1
  OBVIOUS
<1>5. PICK f : Iterates(f, base, s, n) /\ Fold(base, s) = f[1..n]
  BY <1>3, FoldIterates
<1>6. PICK g : Iterates(g, base, r, n + 1) /\ Fold(base, r) = g[1..(n + 1)]
  BY <1>3, <1>4, FoldIterates
<1>7. f[1..n] = g[1..n]
  <2>1. Iterates(f, base, s, n) /\ Iterates(g, base, r, n + 1)
    BY <1>5, <1>6
  <2>2. \A i \in 1..n : s[i] = r[i]
    BY <1>3
  <2>3. QED
    BY <2>1, <2>2, IterateUnique
<1>8. /\ 1..(n + 1) \in SUBSET (1..(n + 1)) /\ n + 1 \in 1..(n + 1)
      /\ (1..(n + 1)) \ {n + 1} = 1..n
  OBVIOUS
<1>9. Max(1..(n + 1)) = n + 1
  BY <1>4, <1>8, MaxIsLast
<1>10. g[1..(n + 1)] = Op(g[1..n], e)
  BY <1>3, <1>6, <1>8, <1>9 DEF Iterates
<1>11. QED
  BY <1>2, <1>5, <1>6, <1>7, <1>10

-----------------------------------------------------------------------------
(* FlattenSeq *)

\* The function FlattenSeq iterates, on the first n of some sequences.
Flattens(f, s, n) ==
  f = [i \in 1..n |-> IF i = 1 THEN s[i] ELSE f[i - 1] \o s[i]]

\* It exists.
LEMMA FlattenExists ==
  ASSUME NEW s, NEW n \in Nat
  PROVE  \E f : Flattens(f, s, n)
<1> DEFINE S == {k \in Nat : \E f : Flattens(f, s, k)}
<1>1. 0 \in S
  <2>1. Flattens([i \in 1..0 |-> s[i]], s, 0)
    BY DEF Flattens
  <2>2. QED
    BY <2>1
<1>2. ASSUME NEW k \in Nat, k \in S PROVE k + 1 \in S
  <2>1. PICK f : Flattens(f, s, k)
    BY <1>2
  <2> DEFINE g == [i \in 1..(k + 1) |->
                     IF i = 1 THEN s[i]
                     ELSE IF i = k + 1 THEN f[k] \o s[i] ELSE f[i]]
  <2>2. ASSUME NEW i \in 1..(k + 1)
        PROVE  g[i] = IF i = 1 THEN s[i] ELSE g[i - 1] \o s[i]
    <3>1. CASE i = 1
      BY <3>1
    <3>2. CASE i # 1 /\ i = k + 1
      <4>1. k \in 1..(k + 1) /\ k \in 1..k /\ k # k + 1 /\ i - 1 = k
        BY <3>2
      <4>2. g[k] = f[k]
        <5>1. f[k] = IF k = 1 THEN s[k] ELSE f[k - 1] \o s[k]
          BY <2>1, <4>1 DEF Flattens
        <5>2. QED
          BY <4>1, <5>1
      <4>3. QED
        BY <3>2, <4>1, <4>2
    <3>3. CASE i # 1 /\ i # k + 1
      <4>1. i \in 1..k /\ i - 1 \in 1..k /\ i - 1 \in 1..(k + 1) /\ i - 1 # k + 1 /\ 1 \in 1..k
        BY <3>3
      <4>2. f[i] = f[i - 1] \o s[i] /\ f[1] = s[1]
        BY <2>1, <3>3, <4>1 DEF Flattens
      <4>3. g[i] = f[i] /\ g[i - 1] = f[i - 1]
        BY <3>3, <4>1, <4>2
      <4>4. QED
        BY <3>3, <4>2, <4>3
    <3>4. QED
      BY <3>1, <3>2, <3>3
  <2>3. Flattens(g, s, k + 1)
    <3> DEFINE h == [i \in 1..(k + 1) |-> IF i = 1 THEN s[i] ELSE g[i - 1] \o s[i]]
    <3>1. g = [i \in 1..(k + 1) |-> g[i]] /\ h = [i \in 1..(k + 1) |-> h[i]]
      OBVIOUS
    <3>2. \A i \in 1..(k + 1) : g[i] = h[i]
      BY <2>2
    <3> HIDE DEF g
    <3>3. QED
      BY <3>1, <3>2 DEF Flattens
  <2>4. QED
    BY <2>3
<1>3. Nat \subseteq S
  <2> HIDE DEF S
  <2> QED
    BY <1>1, <1>2, SetInduction
<1>4. QED
  BY <1>3

\* What it is at a place.
LEMMA FlattenStep ==
  ASSUME NEW s, NEW n \in Nat, NEW f, Flattens(f, s, n), NEW i \in 1..n
  PROVE  f[i] = IF i = 1 THEN s[i] ELSE f[i - 1] \o s[i]
<1>1. PICK h : h = [j \in 1..n |-> IF j = 1 THEN s[j] ELSE f[j - 1] \o s[j]]
  OBVIOUS
<1>2. h[i] = IF i = 1 THEN s[i] ELSE f[i - 1] \o s[i]
  BY <1>1
<1>3. f = h
  BY <1>1 DEF Flattens
<1>4. QED
  BY <1>2, <1>3

\* Its values are sequences, and depend on the sequences up to their place alone.
LEMMA FlattenUnique ==
  ASSUME NEW U, NEW n \in Nat, NEW r, NEW s, NEW f, NEW g,
         \A i \in 1..n : r[i] \in Seq(U) /\ s[i] = r[i],
         Flattens(f, r, n), Flattens(g, s, n + 1)
  PROVE  \A i \in 1..n : f[i] \in Seq(U) /\ g[i] = f[i]
<1> DEFINE S == {k \in Nat : k \in 1..n => f[k] \in Seq(U) /\ g[k] = f[k]}
<1>1. 0 \in S
  OBVIOUS
<1>2. ASSUME NEW k \in Nat, k \in S PROVE k + 1 \in S
  <2> SUFFICES ASSUME k + 1 \in 1..n
               PROVE  f[k + 1] \in Seq(U) /\ g[k + 1] = f[k + 1]
    OBVIOUS
  <2>1. k + 1 \in 1..(n + 1) /\ k + 1 - 1 = k
    OBVIOUS
  <2>2. /\ f[k + 1] = IF k + 1 = 1 THEN r[k + 1] ELSE f[k] \o r[k + 1]
        /\ g[k + 1] = IF k + 1 = 1 THEN s[k + 1] ELSE g[k] \o s[k + 1]
    <3>1. k + 1 \in 1..n /\ n + 1 \in Nat
      OBVIOUS
    <3>2. f[k + 1] = IF k + 1 = 1 THEN r[k + 1] ELSE f[k + 1 - 1] \o r[k + 1]
      BY <3>1, FlattenStep
    <3>3. g[k + 1] = IF k + 1 = 1 THEN s[k + 1] ELSE g[k + 1 - 1] \o s[k + 1]
      BY <2>1, <3>1, FlattenStep
    <3>4. QED
      BY <2>1, <3>2, <3>3
  <2>3. r[k + 1] \in Seq(U) /\ s[k + 1] = r[k + 1]
    OBVIOUS
  <2>4. CASE k = 0
    BY <2>2, <2>3, <2>4
  <2>5. CASE k # 0
    <3>1. f[k] \in Seq(U) /\ g[k] = f[k]
      BY <1>2, <2>5
    <3>2. k + 1 # 1
      BY <2>5
    <3>3. QED
      BY <2>2, <2>3, <3>1, <3>2
  <2>6. QED
    BY <2>4, <2>5
<1>3. Nat \subseteq S
  <2> HIDE DEF S
  <2> QED
    BY <1>1, <1>2, SetInduction
<1>4. QED
  BY <1>3

\* A flattened sequence is the value of that function at the last place.
LEMMA FlattenIterates ==
  ASSUME NEW s, NEW n \in Nat, Len(s) = n, n # 0
  PROVE  \E f : Flattens(f, s, n) /\ FlattenSeq(s) = f[n]
<1> DEFINE f == CHOOSE f : Flattens(f, s, n)
<1>1. Flattens(f, s, n)
  BY FlattenExists
<1>2. FlattenSeq(s) = f[n]
  BY DEF FlattenSeq, Flattens
<1>3. QED
  BY <1>1, <1>2

\* Flattening no sequences gives none.
LEMMA FlattenEmpty ==
  FlattenSeq(<<>>) = <<>>
BY DEF FlattenSeq

\* One sequence more is appended; the result is a sequence.
LEMMA FlattenAppend ==
  ASSUME NEW U, NEW s \in Seq(Seq(U)), NEW e \in Seq(U)
  PROVE  FlattenSeq(s) \in Seq(U) /\ FlattenSeq(Append(s, e)) = FlattenSeq(s) \o e
<1>1. PICK n \in Nat : n = Len(s)
  OBVIOUS
<1>2. PICK r : r = Append(s, e)
  OBVIOUS
<1>3. /\ Len(r) = n + 1 /\ r[n + 1] = e
      /\ \A i \in 1..n : s[i] \in Seq(U) /\ r[i] = s[i]
  BY <1>1, <1>2
<1>4. PICK g : Flattens(g, r, n + 1) /\ FlattenSeq(r) = g[n + 1]
  BY <1>3, FlattenIterates
<1>5. g[n + 1] = IF n + 1 = 1 THEN r[n + 1] ELSE g[n + 1 - 1] \o r[n + 1]
  <2>1. n + 1 \in Nat /\ n + 1 \in 1..(n + 1)
    OBVIOUS
  <2>2. QED
    BY <1>4, <2>1, FlattenStep
<1>6. CASE n = 0
  <2>1. FlattenSeq(s) = <<>>
    <3>1. s = <<>>
      <4>1. \A T, q : q \in Seq(T) /\ Len(q) = 0 => q = <<>>
        OBVIOUS
      <4>2. QED
        BY <1>1, <1>6, <4>1
    <3>2. QED
      BY <3>1, FlattenEmpty
  <2>2. FlattenSeq(r) = e
    BY <1>3, <1>4, <1>5, <1>6
  <2>3. QED
    BY <1>2, <2>1, <2>2
<1>7. CASE n # 0
  <2>1. PICK f : Flattens(f, s, n) /\ FlattenSeq(s) = f[n]
    BY <1>1, <1>7, FlattenIterates
  <2>2. f[n] \in Seq(U) /\ g[n] = f[n]
    <3>1. \A i \in 1..n : f[i] \in Seq(U) /\ g[i] = f[i]
      <4>1. Flattens(f, s, n) /\ Flattens(g, r, n + 1)
        BY <1>4, <2>1
      <4>2. \A i \in 1..n : s[i] \in Seq(U) /\ r[i] = s[i]
        BY <1>3
      <4>3. QED
        BY <4>1, <4>2, FlattenUnique
    <3>2. QED
      BY <1>7, <3>1
  <2>3. n + 1 # 1 /\ n + 1 - 1 = n
    BY <1>7
  <2>4. QED
    BY <1>2, <1>3, <1>4, <1>5, <2>1, <2>2, <2>3
<1>8. QED
  BY <1>6, <1>7

=============================================================================
