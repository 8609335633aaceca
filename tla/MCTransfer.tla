------------------------------ MODULE MCTransfer ------------------------------
(***************************************************************************)
(* Transfers of up to seven records: whole zones, AXFR-style and           *)
(* incremental answers in one and two steps, a zone that has not changed,  *)
(* and serials that wrap.                                                  *)
(***************************************************************************)
EXTENDS Transfer

S(n) == <<"soa", n>>
R(n) == <<"rr", n>>
Axfr(rrs) == [kind |-> "axfr", qser |-> 0, rrs |-> rrs]
Ixfr(qser, rrs) == [kind |-> "ixfr", qser |-> qser, rrs |-> rrs]

MCTransfers ==
    {Axfr(<<S(3), S(3)>>), Axfr(<<S(3), R(1), R(2), S(3)>>), Axfr(<<R(1)>>),
     Ixfr(3, <<S(3)>>), Ixfr(1, <<S(3), R(1), R(2), S(3)>>), Ixfr(1, <<S(3), S(3)>>),
     Ixfr(2, <<S(3), S(2), R(1), S(3), R(2), S(3)>>),
     Ixfr(1, <<S(3), S(1), S(2), R(1), S(2), S(3), S(3)>>),
     Ixfr(1, <<R(1), S(3)>>),
     Ixfr(3, <<S(0), S(3), R(1), S(0), R(2), S(0)>>)}
=============================================================================
