---------------------------- MODULE MCChartHover ----------------------------
(***************************************************************************)
(* A small instance of ChartHover: days of four seconds, rows of four      *)
(* pixels, and a clock that passes from one week to the next.  Weeks begin *)
(* at 39, 67 and 95 (10, 17 and 24 days of 4 s, less the offset of 1 s).   *)
(* The histories have samples right before and at the beginning of a week, *)
(* gaps, and samples as near to the mouse as their neighbours.             *)
(***************************************************************************)
EXTENDS ChartHover

MCHistories == {<<40, 66, 67, 91, 94>>, <<53, 67, 92, 95, 96>>}

MCRankings == {<<"c1", "c2">>, <<"c2">>}
=============================================================================
