--------------------------- MODULE MCRequestSecurity ---------------------------
(* Worlds to check RequestSecurity in: three chart bars of four instants each. *)
EXTENDS RequestSecurity

B(time, close) == [time |-> time, close |-> close, na |-> FALSE]
Blank(time, close) == [time |-> time, close |-> close, na |-> TRUE]

Chart == <<B(8, 11), B(12, 15), B(16, 19)>>
Holed == <<B(8, 11), B(16, 19), B(20, 23)>>

\* Requested bars of eight instants: closed, open-ended, holed, na or none.
Requested ==
  {<<B(0, 7), B(8, 15), B(16, 23)>>, <<B(0, None), B(8, None), B(16, None)>>,
   <<B(0, None), B(16, None)>>, <<B(8, 15), Blank(16, 23)>>,
   <<B(8, None)>>, <<>>}

\* Lower bars of two instants, one across the border of two chart bars, one that opens
\* at the last instant of a chart bar.
Intra ==
  {<<B(6, 7), B(8, 9), B(10, 11), B(14, None), B(15, 16), B(17, 18)>>,
   <<B(8, 9), B(11, None), B(12, 13), B(18, 19)>>}

Settings ==
  [asks : {{"security"}}, gaps : BOOLEAN, lookahead : BOOLEAN, legacy : {TRUE},
   ignore : {FALSE}, count : {None}, dataEnd : {None, 24}, intrabar : {FALSE},
   chart : {Chart, Holed}, bars : Requested, lower : {CHOOSE l \in Intra : TRUE}]

Strict ==
  [asks : {{"security", "lower"}}, gaps : {FALSE}, lookahead : {FALSE},
   legacy : {FALSE}, ignore : {TRUE}, count : {2}, dataEnd : {None, 17},
   intrabar : {FALSE}, chart : {Chart},
   bars : {<<B(0, 7), B(8, 15), B(16, 23)>>, <<>>}, lower : Intra]

Intrabar ==
  [asks : {{"lower"}}, gaps : {TRUE}, lookahead : {TRUE}, legacy : {TRUE},
   ignore : {TRUE}, count : {None, 1}, dataEnd : {None}, intrabar : {TRUE}, chart : {Chart},
   bars : {<<>>}, lower : Intra]

MCWorlds == Settings \cup Strict \cup Intrabar

=============================================================================
