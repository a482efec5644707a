----------------------------- MODULE MCScriptState -----------------------------
(* Bounds for checking ScriptState. *)
EXTENDS ScriptState

\* Rises, falls, ties and na, with and without the condition.
MCRows == {[src |-> 1, cond |-> TRUE], [src |-> 2, cond |-> FALSE],
           [src |-> 1, cond |-> FALSE], [src |-> NA, cond |-> TRUE]}

\* A script that asks on every bar sees all rows, one that skips bars three, one that
\* draws two and a bar less.  Only the drawings are exported in the middle of a bar.
Explored ==
  LET Seen == {Shown[i] : i \in 1..Len(Shown)}
  IN  /\ Asks => \A k \in DOMAIN kept : kept[k].now = <<>>
      /\ script # "always" => \A row \in Seen : row # [src |-> 1, cond |-> FALSE]
      /\ script = "drawings" =>
           /\ Len(past) <= 2
           /\ \A row \in Seen : row.src # NA
           /\ Len(visual.events) + Len(plots) <= 3
=============================================================================
