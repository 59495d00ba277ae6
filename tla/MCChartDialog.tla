---------------------------- MODULE MCChartDialog ----------------------------
(***************************************************************************)
(* Small instances of ChartDialog: two channels that swap places, go       *)
(* offline and leave the list.                                             *)
(***************************************************************************)
EXTENDS ChartDialog

Row(id, current, age) == [id |-> id, current |-> current, age |-> age]

\* The first channel goes offline with the clock, which moves it to the end
\* or out of the rows; the list may also come empty.
FadingLists == {<<Row("c1", 2, 1), Row("c2", 1, 0)>>, <<>>}

MCLists == {<<Row("c1", 2, 0), Row("c2", 1, 0)>>,
            <<Row("c1", 1, 0), Row("c2", 2, 0)>>,
            <<Row("c2", 2, 1), Row("c1", 1, 0)>>,
            <<Row("c2", 1, 0)>>}
=============================================================================
