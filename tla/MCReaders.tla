------------------------------ MODULE MCReaders ------------------------------
(***************************************************************************)
(* Small instances of Readers.  One channel is reported with one of two    *)
(* titles, and the viewer count changes with the title; it may be listed   *)
(* twice, on one page or on two, and a page can overshoot TopN.  The       *)
(* ranges begin before, at and after a title change.                       *)
(***************************************************************************)
EXTENDS Readers

CONSTANTS c1, a, b

First == [channel |-> c1, viewers |-> 1, title |-> a]
Second == [channel |-> c1, viewers |-> 2, title |-> b]

MCPages == {<<>>, <<First>>, <<Second>>, <<First, Second>>}

MCRanges == {[from |-> 2, to |-> 3], [from |-> 3, to |-> 5]}
=============================================================================
