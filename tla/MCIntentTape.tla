---------------------------- MODULE MCIntentTape ----------------------------
(* Bounds and symmetry for checking IntentTape. *)
EXTENDS IntentTape, TLC

CONSTANTS s1, s2, v5, v6, b1, b2, c1, c2

IdentityOne == [series |-> s1, profile |-> v5]

\* Commands and bodies only name calls and contents.
CallSymmetry == Permutations({b1, b2}) \cup Permutations({c1, c2})

\* Explore no state past an export: the behaviour of one tape's life.
NoExports == saved = <<>>
=============================================================================
