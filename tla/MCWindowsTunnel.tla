--------------------------- MODULE MCWindowsTunnel --------------------------
(***************************************************************************)
(* WindowsTunnel for TLC.  Servers are interchangeable, and every property *)
(* of the runs is a safety property.                                       *)
(***************************************************************************)
EXTENDS WindowsTunnel, TLC

Symmetry == Permutations(Servers)
=============================================================================
