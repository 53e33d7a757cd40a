---------------------------- MODULE MCLinuxTunnel ---------------------------
(***************************************************************************)
(* LinuxTunnel for TLC.  Servers and ports are interchangeable, and every  *)
(* property of the run is a safety property.                               *)
(***************************************************************************)
EXTENDS LinuxTunnel, TLC

Symmetry == Permutations(Servers) \cup Permutations(Ports)
=============================================================================
