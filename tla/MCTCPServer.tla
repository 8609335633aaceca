---------------------------- MODULE MCTCPServer ----------------------------
(***************************************************************************)
(* Instances of TCPServer for TLC.  Runs, connections and stoppers are     *)
(* model values; permuting connections, or runs, maps behaviours to        *)
(* behaviours, so the safety runs use both symmetries.                     *)
(***************************************************************************)
EXTENDS TCPServer, TLC

\* MaxTCPQueries = -1: as many queries as the client sends.
NoQueryLimit == -1

Symmetry == Permutations(Runs) \cup Permutations(Conns)
============================================================================
