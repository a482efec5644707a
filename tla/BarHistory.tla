------------------------------ MODULE BarHistory ------------------------------
(***************************************************************************)
(* What a bar runtime promises a script: an attempt at a bar may change the *)
(* values of now and the memory at will, ending the bar makes the values a  *)
(* row of the past, and nothing else touches the past.  A snapshot may be   *)
(* kept; rolling back returns to it whole, except that the sticky memory    *)
(* returns only if the snapshot includes it.                                *)
(***************************************************************************)
EXTENDS Sequences

VARIABLES past, now, memory, sticky, open, kept

historyVars == <<past, now, memory, sticky, open, kept>>

HistoryInit == past = <<>> /\ open = FALSE /\ kept = <<>>

OpenRow ==
  /\ ~open
  /\ open' = TRUE
  /\ UNCHANGED <<past, memory, sticky, kept>>

Attempt == UNCHANGED <<past, open, kept>>

CloseRow ==
  /\ open
  /\ open' = FALSE
  /\ past' = Append(past, now)
  /\ UNCHANGED <<now, memory, sticky, kept>>

Kept(withSticky) ==
  [past |-> past, now |-> now, memory |-> memory,
   sticky |-> IF withSticky THEN <<sticky>> ELSE <<>>, open |-> open]

Keep ==
  /\ \E withSticky \in BOOLEAN : kept' = <<Kept(withSticky)>>
  /\ UNCHANGED <<past, now, memory, sticky, open>>

RollBack ==
  /\ kept # <<>>
  /\ past' = kept[1].past
  /\ now' = kept[1].now
  /\ memory' = kept[1].memory
  /\ open' = kept[1].open
  /\ sticky' \in IF kept[1].sticky = <<>> THEN {sticky} ELSE {kept[1].sticky[1]}
  /\ UNCHANGED kept

StartOver ==
  /\ past' = <<>>
  /\ open' = FALSE
  /\ UNCHANGED kept

HistoryNext ==
  OpenRow \/ Attempt \/ CloseRow \/ Keep \/ RollBack \/ StartOver

HistorySpec == HistoryInit /\ [][HistoryNext]_historyVars
=============================================================================
