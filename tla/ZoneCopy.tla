------------------------------ MODULE ZoneCopy ------------------------------
(***************************************************************************)
(* What Transfer.In promises the consumer of its channel: the records of   *)
(* the server's answer, in order and each once; an error at most once and  *)
(* as the last thing; no silent end before the answer is complete; and a   *)
(* connection that is closed when the channel is.  Transfer implements it. *)
(***************************************************************************)
EXTENDS Naturals, Sequences

CONSTANT Answers   \* what a server may answer: [rrs, unchanged]

VARIABLES
    answer,   \* the member of Answers
    copy,     \* the records that the consumer has received
    failed,   \* it has received an error
    phase     \* "open"; "closed": the connection is closed; "ended": the channel is, too

vars == <<answer, copy, failed, phase>>

Init ==
    /\ answer \in Answers
    /\ copy = <<>> /\ failed = FALSE /\ phase = "open"

\* An envelope with the next k records; one with an error is the last.
Envelope(k) ==
    /\ phase = "open" /\ ~failed
    /\ copy' = SubSeq(answer.rrs, 1, Len(copy) + k)
    /\ UNCHANGED <<answer, phase>>

Deliver ==
    \E k \in 1..(Len(answer.rrs) - Len(copy)) : Envelope(k) /\ failed' = FALSE

Fail ==
    \E k \in 0..(Len(answer.rrs) - Len(copy)) : Envelope(k) /\ failed' = TRUE

\* All of the answer, or the beginning of one that says that the zone is unchanged.
Complete == copy = answer.rrs \/ (answer.unchanged /\ copy # <<>>)

Close ==
    /\ phase = "open" /\ (failed \/ Complete)
    /\ phase' = "closed"
    /\ UNCHANGED <<answer, copy, failed>>

End ==
    /\ phase = "closed"
    /\ phase' = "ended"
    /\ UNCHANGED <<answer, copy, failed>>

Next == Deliver \/ Fail \/ Close \/ End

Spec == Init /\ [][Next]_vars
=============================================================================
