---------------------------- MODULE MCUDPServer ----------------------------
(***************************************************************************)
(* Instances of UDPServer for TLC.  One buffer more than there are packets *)
(* lets every packet and the reader hold one at the same time.             *)
(***************************************************************************)
EXTENDS UDPServer, TLC

Symmetry ==
  Permutations(Runs) \cup Permutations(Packets) \cup Permutations(Buffers)
============================================================================
