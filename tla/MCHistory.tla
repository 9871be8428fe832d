----------------------------- MODULE MCHistory -----------------------------
(* Times 0 and 1 are of one month, 2 is of the next.  Requests: more rows   *)
(* than the limit, a span over the turn of the month, a table that is not   *)
(* there, and two refused spans.                                             *)
EXTENDS History

MCRows == {<<1, 0, 0>>, <<1, 0, 1>>, <<1, 0, 2>>}
MCAsks == {<<1, 0, 0, 1>>, <<1, 0, 1, 2>>, <<2, 0, 1, 1>>, <<1, 0, 0, 2>>,
           <<2, 0, 0, 2>>}
=============================================================================
