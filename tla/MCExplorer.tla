----------------------------- MODULE MCExplorer -----------------------------
(***************************************************************************)
(* TLC instances of Explorer: two ways to delete one edge and two to       *)
(* delete two edges.                                                       *)
(***************************************************************************)
EXTENDS Explorer, TLC

FourTasks == 1..4
FourEdges == <<1, 1, 2, 2>>

=============================================================================
