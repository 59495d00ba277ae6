---------------------------- MODULE MCPushServer ----------------------------
(***************************************************************************)
(* Small instances of PushServer.                                          *)
(***************************************************************************)
EXTENDS PushServer, TLC

MCSymmetry == Permutations(Peers)
=============================================================================
