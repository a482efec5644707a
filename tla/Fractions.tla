------------------------------- MODULE Fractions -------------------------------
(***************************************************************************)
(* Exact fractions <<n, d>> in lowest terms, d > 0: the numbers of the     *)
(* indicator modules, where the code has floats.  na is the constant NA.   *)
(***************************************************************************)
EXTENDS Integers, Sequences, SequencesExt

CONSTANT NA

Gcd[p \in Nat \X Nat] == IF p[2] = 0 THEN p[1] ELSE Gcd[<<p[2], p[1] % p[2]>>]

Magnitude(n) == IF n < 0 THEN -n ELSE n

Frac(n, d) ==
  LET g == Gcd[<<Magnitude(n), Magnitude(d)>>]
      s == IF d < 0 THEN -1 ELSE 1
  IN  <<(s * n) \div g, (s * d) \div g>>

Whole(n) == <<n, 1>>
Zero == Whole(0)

Add(a, b) == Frac(a[1] * b[2] + b[1] * a[2], a[2] * b[2])
Negated(a) == <<-a[1], a[2]>>
Sub(a, b) == Add(a, Negated(b))
Mul(a, b) == Frac(a[1] * b[1], a[2] * b[2])
Div(a, b) == Frac(a[1] * b[2], a[2] * b[1])
Leq(a, b) == a[1] * b[2] <= b[1] * a[2]
Less(a, b) == a[1] * b[2] < b[1] * a[2]
AddUp(seq) == FoldLeft(Add, Zero, seq)
Abs(a) == <<Magnitude(a[1]), a[2]>>
MinOf(a, b) == IF Leq(a, b) THEN a ELSE b
MaxOf(a, b) == IF Leq(a, b) THEN b ELSE a

Plus(a, b) == a + b
Total(seq) == FoldLeft(Plus, 0, seq)
Weighted(seq) == Total([i \in 1..Len(seq) |-> i * seq[i]])
LastN(seq, n) == SubSeq(seq, Len(seq) - n + 1, Len(seq))
Push(seq, v, n) == IF Len(seq) < n THEN Append(seq, v) ELSE LastN(Append(seq, v), n)
IsBlank(v) == v = NA
Keep(kept, v) == IF IsBlank(v) THEN kept ELSE Append(kept, v)
Clean(seq) == FoldLeft(Keep, <<>>, seq)
HasBlank(seq) == \E i \in 1..Len(seq) : IsBlank(seq[i])
Largest(seq) == CHOOSE v \in ToSet(seq) : \A w \in ToSet(seq) : w <= v
Smallest(seq) == CHOOSE v \in ToSet(seq) : \A w \in ToSet(seq) : v <= w
=============================================================================
