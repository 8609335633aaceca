---------------------------- MODULE MCServeDNS ----------------------------
(***************************************************************************)
(* An instance of ServeDNS for TLC: two messages on one connection, signed *)
(* and not, whose section counts are low, at the limits of the accept      *)
(* function, and beyond each of them.                                      *)
(***************************************************************************)
EXTENDS ServeDNS, TLC

CONSTANTS k1, k2

Plain == [Qd |-> 1, An |-> 0, Ns |-> 0, Ar |-> 0]
AtLimits == [Qd |-> 1, An |-> 1, Ns |-> 1, Ar |-> 2]

\* None, all at their limits, and each one step beyond its own.
MCCounts ==
  {Plain, AtLimits, [AtLimits EXCEPT !.Qd = 0]}
    \cup {[AtLimits EXCEPT ![f] = @ + 1] : f \in DOMAIN AtLimits}

\* Nothing tells one request MAC from another but that they differ.
MCSymmetry == Permutations(Keys)
===========================================================================
