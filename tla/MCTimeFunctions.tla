---------------------------- MODULE MCTimeFunctions ----------------------------
(***************************************************************************)
(* TLC instance: a day of six units, bars of two units, of a day and in    *)
(* the fine unit, these with closing times and without, a zone that moves  *)
(* its clock forward and one that moves it back on the Sunday, sessions    *)
(* inside a day, over night and around the clock.                          *)
(***************************************************************************)
EXTENDS TimeFunctions

Utc0 == [before |-> 0, after |-> 0, at |-> 0]
Forward == [before |-> -1, after |-> 0, at |-> 39]
Backward == [before |-> 1, after |-> 0, at |-> 37]

MCFeeds ==
  [interval : {2}, fine : BOOLEAN, closes : {TRUE}, zone : {Utc0, Forward, Backward}]
    \cup [interval : {2}, fine : {TRUE}, closes : {FALSE}, zone : {Backward}]
    \cup [interval : {6}, fine : {FALSE}, closes : {FALSE}, zone : {Utc0, Forward}]

MCSessions ==
  [start : {0, 2, 4}, end : {1, 2, 5}, days : {1..7, {2, 4, 6}, {1}}]
=============================================================================
