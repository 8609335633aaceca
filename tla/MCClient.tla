------------------------------- MODULE MCClient -------------------------------
(***************************************************************************)
(* Instances of Client: two ids, so that ids can collide and differ, two   *)
(* exchanges, and a clock that outruns the fudge.                          *)
(***************************************************************************)
EXTENDS Client
=============================================================================
