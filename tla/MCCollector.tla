----------------------------- MODULE MCCollector -----------------------------
(***************************************************************************)
(* Small instances of Collector.  A page holds at most one broadcast,      *)
(* which lets a channel appear twice in a poll when the ranking moves      *)
(* between pages.                                                          *)
(***************************************************************************)
EXTENDS Collector, TLC

ShortPages == {<<>>} \cup {<<l>> : l \in Live}

MCSymmetry == Permutations(Channels) \cup Permutations(Titles)
=============================================================================
