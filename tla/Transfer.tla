------------------------------ MODULE Transfer ------------------------------
(***************************************************************************)
(* Zone transfer, xfr.go: a server whose handler hands the records of a    *)
(* zone to Transfer.Out in envelopes, and a client whose Transfer.In runs  *)
(* inAxfr or inIxfr in a goroutine and passes on what it reads over a      *)
(* channel that a consumer receives from.                                  *)
(*                                                                         *)
(* A record is <<"soa", serial>> or <<"rr", number>>.  A MAC is the tuple  *)
(* of the number of the message it signs, whether only the timers were     *)
(* digested with it, and the MAC before it.                                *)
(***************************************************************************)
EXTENDS Integers, Sequences, SequencesExt

CONSTANTS
    Transfers,   \* what may be asked for: [kind, qser, rrs], rrs what a server answers
    Faults       \* what may go wrong at the server: "none", "id", "rcode", "break", "slow"

isSOA(rr) == rr[1] = "soa"
isSOAFirst(rrs) == rrs # <<>> /\ isSOA(rrs[1])
isSOALast(rrs) == rrs # <<>> /\ isSOA(Last(rrs))

\* The zone has not changed: serials compared as numbers.
upToDate(qser, serial) == qser >= serial

\* A zone between two copies of its SOA.
WholeZone(rrs) ==
    /\ Len(rrs) >= 2 /\ rrs[Len(rrs)] = rrs[1]
    /\ \A k \in 1..Len(rrs) : isSOA(rrs[k]) <=> k \in {1, Len(rrs)}

\* Differences: the server's SOA, those of the versions since the client's, the
\* server's again (the place j) before what the last one adds, and at the end.
Incremental(rrs) ==
    \E i, j \in 2..(Len(rrs) - 1) :
        /\ i < j /\ isSOA(rrs[i])
        /\ \A k \in 1..Len(rrs) : rrs[k] = rrs[1] <=> k \in {1, j, Len(rrs)}

\* "The server is responsible for sending the correct sequence of RRs": an answer
\* that begins with a SOA is one of those, or says that nothing has changed.
ASSUME TransferAssumption ==
    \A x \in Transfers :
        /\ x.kind \in {"axfr", "ixfr"} /\ x.qser \in Nat
        /\ x.rrs \in Seq({"soa", "rr"} \X Nat)
        /\ isSOAFirst(x.rrs) =>
               \/ WholeZone(x.rrs)
               \/ x.kind = "ixfr" /\ (Incremental(x.rrs) \/ upToDate(x.qser, x.rrs[1][2]))

VARIABLES
    job,       \* the member of Transfers
    fault,
    signed,    \* the request has a TSIG and both sides have a provider
    used,      \* t has done a signed transfer before, over another connection
    t,         \* the client's Transfer: [mac, timersOnly, open]
    todo,      \* what the handler has still to hand to Out
    ch,        \* "open", "closed" by the handler
    out,       \* Out: [pc, cur, mac, timersOnly, n]
    wire,      \* messages between Out and the client
    in,        \* the goroutine: [pc, first, n, axfr, serial, env, err, last]
    got,       \* the records that the consumer has received
    err,       \* the error it has received, or "nil"
    quit       \* the consumer has stopped receiving

server == <<todo, ch, out>>
vars == <<job, fault, signed, used, t, todo, ch, out, wire, in, got, err, quit>>

NoMAC == <<>>
Digest(n, timersOnly, prior) == <<n, timersOnly, prior>>
NoTsig == <<>>

\* In leaves tsigTimersOnly as the last signed transfer set it.
TimersOnlyAtStart == used /\ signed

\* The request's MAC; the server verifies it over no MAC and with timersOnly unset.
RequestMAC == Digest(0, TimersOnlyAtStart, NoMAC)
TsigStatus == ~signed \/ RequestMAC = Digest(0, FALSE, NoMAC)

-----------------------------------------------------------------------------
\* In has written the request, and the server's handler runs.  A Transfer that
\* was used before still has tsigTimersOnly set.
Init ==
    /\ job \in Transfers /\ fault \in Faults
    /\ signed \in BOOLEAN /\ used \in BOOLEAN
    /\ t = [mac |-> IF signed THEN RequestMAC ELSE NoMAC, timersOnly |-> TimersOnlyAtStart,
            open |-> TRUE]
    /\ todo = job.rrs /\ ch = "open"
    /\ out = [pc |-> "range", cur |-> <<>>, mac |-> IF signed THEN RequestMAC ELSE NoMAC,
              timersOnly |-> FALSE, n |-> 1]
    /\ wire = <<>>
    /\ in = [pc |-> "read", first |-> TRUE, n |-> 0, axfr |-> TRUE, serial |-> 0,
             env |-> <<>>, err |-> "nil", last |-> FALSE]
    /\ got = <<>> /\ err = "nil" /\ quit = FALSE

-----------------------------------------------------------------------------
\* The server.

\* ch <- &Envelope{...}: the channel has no buffer, so Out must be receiving.
Hand(k) ==
    /\ ch = "open" /\ k \in 1..Len(todo) /\ out.pc = "range"
    /\ todo' = SubSeq(todo, k + 1, Len(todo))
    /\ out' = [out EXCEPT !.pc = "write", !.cur = SubSeq(todo, 1, k)]
    /\ UNCHANGED <<job, fault, signed, used, t, ch, wire, in, got, err, quit>>

CloseCh ==
    /\ ch = "open" /\ todo = <<>>
    /\ ch' = "closed"
    /\ UNCHANGED <<job, fault, signed, used, t, todo, out, wire, in, got, err, quit>>

\* Mutant: Out does not go on to the next envelope.
OutWriteStops ==
    /\ out.pc = "write"
    /\ UNCHANGED vars

\* One turn of Out's loop: a reply that is signed when the request verified,
\* chained to the message before.
OutWrite ==
    /\ out.pc = "write"
    /\ LET mac == Digest(out.n, out.timersOnly, out.mac)
           signs == signed /\ TsigStatus
           bad == out.n = 2 \/ todo = <<>>
       IN  IF bad /\ fault = "break"
           THEN /\ out' = [out EXCEPT !.pc = "failed"]
                /\ UNCHANGED wire
           ELSE /\ wire' = Append(wire, [rrs |-> out.cur, idOK |-> ~(bad /\ fault = "id"),
                                         rcodeOK |-> ~(out.n = 1 /\ fault = "rcode"), n |-> out.n,
                                         tsig |-> IF signs THEN mac ELSE NoTsig])
                /\ out' = [out EXCEPT !.pc = "range", !.cur = <<>>, !.n = @ + 1,
                                      !.mac = IF signs THEN mac ELSE @, !.timersOnly = TRUE]
    /\ UNCHANGED <<job, fault, signed, used, t, todo, ch, in, got, err, quit>>

\* The end of the range; the handler then closes the connection.
OutReturn ==
    /\ out.pc = "range" /\ ch = "closed"
    /\ out' = [out EXCEPT !.pc = "returned"]
    /\ UNCHANGED <<job, fault, signed, used, t, todo, ch, wire, in, got, err, quit>>

-----------------------------------------------------------------------------
\* The client.

\* c <- &Envelope{rrs, e}; after the last one the goroutine returns.
Send(i, rrs, e, last) == [i EXCEPT !.pc = "send", !.env = rrs, !.err = e, !.last = last]

\* Transfer.ReadMsg: with a provider a message without a signature is an error;
\* the MAC of a signed one, verified or not, is the next one's prior.
ReadErr(m) ==
    CASE signed /\ m.tsig = NoTsig -> "ErrNoSig"
      [] signed /\ m.tsig \notin {NoTsig, Digest(m.n, t.timersOnly, t.mac)} -> "ErrSig"
      [] OTHER -> "nil"

\* Mutant: the messages are not chained.
NextMACOld(m) == t.mac

NextMAC(m) == IF signed /\ m.tsig # NoTsig THEN m.tsig ELSE t.mac

\* What is wrong with a message: its id; its response code, where it is looked
\* at; its first record, where the message begins the answer.
MsgErr(m, rcode, begins) ==
    IF ~m.idOK THEN "ErrId"
    ELSE IF rcode /\ ~m.rcodeOK THEN "errXFR"
    ELSE IF begins /\ ~isSOAFirst(m.rrs) THEN "ErrSoa" ELSE "nil"

\* Mutant: a SOA at the end of the first message always ends the transfer.
inAxfrOneSOA(m) ==
    LET e == MsgErr(m, in.first, in.first)
    IN  IF e # "nil" THEN Send(in, m.rrs, e, TRUE)
        ELSE Send([in EXCEPT !.first = FALSE], m.rrs, "nil", isSOALast(m.rrs))

\* The body of inAxfr's loop for a message that was read without an error: only
\* one answer that is a SOA, receive more.
inAxfr(m) ==
    LET e == MsgErr(m, in.first, in.first)
        alone == in.first /\ Len(m.rrs) = 1
    IN  IF e # "nil" THEN Send(in, m.rrs, e, TRUE)
        ELSE Send([in EXCEPT !.first = FALSE], m.rrs, "nil", ~alone /\ isSOALast(m.rrs))

\* One record of inIxfr's loop: n counts the SOAs with the server's serial, axfr
\* holds until one with another serial is seen; stop at the last one.
CountOne(b, rr, serial) ==
    IF b.stop \/ ~isSOA(rr) THEN b
    ELSE IF rr[2] = serial
    THEN [n |-> b.n + 1, axfr |-> b.axfr, stop |-> (b.axfr /\ b.n + 1 = 2) \/ b.n + 1 = 3]
    ELSE [n |-> b.n, axfr |-> FALSE, stop |-> b.stop]

\* The records of a message.
CountSOA(a, rrs) ==
    LET walk[k \in 0..Len(rrs)] ==
            IF k = 0 THEN [n |-> a.n, axfr |-> a.axfr, stop |-> FALSE]
            ELSE CountOne(walk[k - 1], rrs[k], a.serial)
    IN  walk[Len(rrs)]

inIxfr(m) ==
    LET begins == in.n = 0
        e == MsgErr(m, TRUE, begins)
        a == IF begins THEN [in EXCEPT !.serial = m.rrs[1][2]] ELSE in
        c == CountSOA(a, m.rrs)
    IN  IF e # "nil" THEN Send(in, m.rrs, e, TRUE)
        ELSE IF begins /\ upToDate(job.qser, a.serial) THEN Send(a, m.rrs, "nil", TRUE)
        ELSE Send([a EXCEPT !.n = c.n, !.axfr = c.axfr], m.rrs, "nil", c.stop)

\* tsigTimersOnly is set by a message that is passed on without an error, but
\* not by an IXFR answer that says that nothing has changed.
SetsTimersOnly(m) ==
    LET i == IF job.kind = "axfr" THEN inAxfr(m) ELSE inIxfr(m)
    IN  i.err = "nil" /\ (job.kind = "axfr" \/ ~i.last \/ i.n > 0)

Read ==
    /\ in.pc = "read" /\ wire # <<>>
    /\ LET m == Head(wire)
           e == ReadErr(m)
       IN  /\ in' = IF e # "nil" THEN Send(in, <<>>, e, TRUE)
                    ELSE IF job.kind = "axfr" THEN inAxfr(m) ELSE inIxfr(m)
           /\ t' = [t EXCEPT !.mac = NextMAC(m),
                             !.timersOnly = @ \/ (e = "nil" /\ SetsTimersOnly(m))]
    /\ wire' = Tail(wire)
    /\ UNCHANGED <<job, fault, signed, used, server, got, err, quit>>

\* The server has closed the connection, or is so slow that the read deadline
\* passes.
ReadFails ==
    /\ in.pc = "read" /\ wire = <<>> /\ (out.pc \in {"returned", "failed"} \/ fault = "slow")
    /\ in' = Send(in, <<>>, "read", TRUE)
    /\ UNCHANGED <<job, fault, signed, used, t, server, wire, got, err, quit>>

\* The consumer receives the envelope.
Receive ==
    /\ in.pc = "send" /\ ~quit
    /\ got' = got \o in.env
    /\ err' = in.err
    /\ in' = [in EXCEPT !.pc = IF in.last THEN "close" ELSE "read", !.env = <<>>]
    /\ UNCHANGED <<job, fault, signed, used, t, server, wire, quit>>

\* Mutant: the channel is closed while the connection is open.
CloseConnLater ==
    /\ in.pc = "close"
    /\ in' = [in EXCEPT !.pc = "closeCh"]
    /\ UNCHANGED <<job, fault, signed, used, t, server, wire, got, err, quit>>

\* The deferred function: first the connection, then the channel.
CloseConn ==
    /\ in.pc = "close"
    /\ t' = [t EXCEPT !.open = FALSE]
    /\ in' = [in EXCEPT !.pc = "closeCh"]
    /\ UNCHANGED <<job, fault, signed, used, server, wire, got, err, quit>>

CloseChannel ==
    /\ in.pc = "closeCh"
    /\ in' = [in EXCEPT !.pc = "done"]
    /\ UNCHANGED <<job, fault, signed, used, t, server, wire, got, err, quit>>

Quit ==
    /\ in.pc # "done" /\ ~quit
    /\ quit' = TRUE
    /\ UNCHANGED <<job, fault, signed, used, t, server, wire, in, got, err>>

Next ==
    \/ \E k \in 1..Len(todo) : Hand(k)
    \/ CloseCh \/ OutWrite \/ OutReturn
    \/ Read \/ ReadFails \/ Receive \/ CloseConn \/ CloseChannel \/ Quit

\* The scheduler runs the goroutines of both sides and the deadlines fire; the
\* consumer receives as long as it has not quit.
Fairness ==
    /\ WF_vars(CloseCh) /\ WF_vars(OutWrite) /\ WF_vars(OutReturn)
    /\ WF_vars(\E k \in 1..Len(todo) : Hand(k))
    /\ WF_vars(Read) /\ WF_vars(ReadFails) /\ WF_vars(Receive)
    /\ WF_vars(CloseConn) /\ WF_vars(CloseChannel)

Spec == Init /\ [][Next]_vars /\ Fairness

-----------------------------------------------------------------------------
\* Properties.

\* Types; inIxfr never counts a fourth SOA with the server's serial.
TypeOK ==
    /\ out.pc \in {"range", "write", "failed", "returned"} /\ ch \in {"open", "closed"}
    /\ in.pc \in {"read", "send", "close", "closeCh", "done"}
    /\ in.n \in 0..3 /\ t.open \in BOOLEAN /\ t.timersOnly \in BOOLEAN
    /\ quit \in BOOLEAN

\* What the consumer has received is always the beginning of what the server sent,
\* in order, however the records are cut into messages; and a transfer that ends
\* without an error is complete, for AXFR, for AXFR-style answers to IXFR and for
\* incremental ones, unless the serial has wrapped past the client's.
CompleteOrError ==
    /\ IsPrefix(got, job.rrs)
    /\ (in.pc = "done" /\ err = "nil" /\ (job.kind = "axfr" \/ ~upToDate(job.qser, job.rrs[1][2])))
           => got = job.rrs

\* Nothing but a fault, an answer that does not begin with a SOA, or a Transfer that
\* has done a signed transfer before, ends a transfer with an error: in particular
\* the two sides agree on the MAC and on timersOnly for every message of the chain.
\* A used Transfer still has tsigTimersOnly set, signs its next request with it and
\* always fails: its consumer gets an error and no record.
ErrorsHaveCauses ==
    /\ err # "nil" => (fault # "none" \/ (used /\ signed) \/ ~isSOAFirst(job.rrs))
    /\ (in.pc = "done" /\ used /\ signed) => (err # "nil" /\ got = <<>>)

\* A consumer that keeps receiving sees the channel close, whatever the connection
\* does; and the handler is not left blocked on the channel to Out, unless a write
\* failed.
TransferEnds ==
    /\ <>(in.pc = "done" \/ quit)
    /\ <>(ch = "closed" \/ out.pc = "failed")

-----------------------------------------------------------------------------
\* Refinement: the consumer's view of a transfer.
Answer(x) ==
    [rrs |-> x.rrs,
     unchanged |-> x.kind = "ixfr" /\ isSOAFirst(x.rrs) /\ upToDate(x.qser, x.rrs[1][2])]
AbsPhase == IF in.pc = "done" THEN "ended" ELSE IF t.open THEN "open" ELSE "closed"

Copy == INSTANCE ZoneCopy WITH
    Answers <- {Answer(x) : x \in Transfers},
    answer <- Answer(job), copy <- got, failed <- (err # "nil"), phase <- AbsPhase

\* The goroutine of In keeps what ZoneCopy promises, step by step: records come in
\* order and none twice, nothing comes after an error, and the deferred function
\* closes the connection before the channel and only after an error or the end.
ImplementsCopy == Copy!Spec

=============================================================================
