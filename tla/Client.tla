-------------------------------- MODULE Client --------------------------------
(***************************************************************************)
(* Client and Conn of client.go with the TSIG steps of tsig.go: one caller *)
(* that exchanges messages with a server, each over a connection of its    *)
(* own (Exchange) or over one that it keeps (ExchangeWithConn), and that   *)
(* may send a message again after a failure.                               *)
(*                                                                         *)
(* A MAC is the tuple of what it covers: the kind, the id and the question *)
(* of the message, the time it was signed, and the MAC that was digested   *)
(* before it; NoMAC is the empty string.  Over UDP the network loses,      *)
(* repeats, delays and reorders; over TCP it delays.  The clock counts     *)
(* seconds, as TSIG does; what happens within one second has any order.    *)
(***************************************************************************)
EXTENDS Integers, Sequences, SequencesExt

CONSTANTS
    Ids,            \* the message ids that Id() may draw
    Questions,
    Fudge,          \* the seconds a signature is good for
    Timeouts,       \* the seconds an exchange may take: ReadTimeout, or the context's if less
    MaxClock,       \* bound: how far time runs, and the last deadline
    MaxExchanges,   \* bound: how many exchanges the caller starts
    MaxInFlight     \* bound: packets in one direction

ASSUME ClientBounds ==
    /\ Fudge \in Nat /\ MaxClock \in Nat /\ MaxExchanges \in Nat /\ MaxInFlight \in Nat
    /\ Timeouts \subseteq Nat

VARIABLES
    udp,        \* isPacketConn
    clock,      \* time.Now()
    msg,        \* the caller's message: [id, q, tsig], tsig whether it ends with a TSIG stub
    tries,      \* history: how often it has been sent or tried to
    co,         \* the Conn: [n, mac, open]; mac is tsigRequestMAC
    pc,         \* "idle", or "reading" once the request is written
    own,        \* whether this exchange closes the connection when it ends
    count,      \* exchanges started
    signed,     \* history: whether this exchange has signed its request
    deadline,   \* the read deadline of the Conn
    due,        \* history: when the exchange has to end, as its start fixed it
    toServer,   \* packets on their way
    toClient,
    result      \* <<>>, or <<[err, reply]>> of the last exchange

net == <<toServer, toClient>>
vars == <<udp, clock, msg, tries, co, pc, own, count, signed, deadline, due, toServer, toClient,
          result>>

NoMAC == <<>>
NoTsig == <<>>

\* A packet: the socket and the exchange it belongs to, and its contents;
\* tsig is NoTsig or [mac, time].
Packet(kind, conn, n, id, q, tsig) ==
    [kind |-> kind, conn |-> conn, n |-> n, id |-> id, q |-> q, tsig |-> tsig]

\* tsigBuffer and the HMAC over it: the digest covers the prior MAC, if any.
Digest(kind, id, q, time, prior) == <<kind, id, q, time, prior>>

-----------------------------------------------------------------------------
\* TSIG.

TsigGenerate(kind, id, q, prior) ==
    [mac |-> Digest(kind, id, q, clock, prior), time |-> clock]

\* TsigGenerate takes the TSIG stub off the caller's message.
TakeStub(m) == [m EXCEPT !.tsig = FALSE]

\* Mutant: the time is not checked.
tsigVerifyTimeless(p, prior) ==
    IF p.tsig.mac # Digest(p.kind, p.id, p.q, p.tsig.time, prior) THEN "ErrSig" ELSE "nil"

\* tsigVerify: the signature, then the time, in both directions.
tsigVerify(p, prior) ==
    LET ti == IF clock < p.tsig.time THEN p.tsig.time - clock ELSE clock - p.tsig.time
    IN  IF p.tsig.mac # Digest(p.kind, p.id, p.q, p.tsig.time, prior) THEN "ErrSig"
        ELSE IF Fudge < ti THEN "ErrTime" ELSE "nil"

-----------------------------------------------------------------------------
Init ==
    /\ udp \in BOOLEAN
    /\ clock = 0
    /\ \E i \in Ids, q \in Questions : msg = [id |-> i, q |-> q, tsig |-> FALSE]
    /\ tries = 0
    /\ co = [n |-> 0, mac |-> NoMAC, open |-> FALSE]
    /\ pc = "idle" /\ own = FALSE /\ count = 0 /\ signed = FALSE
    /\ deadline = 0 /\ due = 0
    /\ toServer = <<>> /\ toClient = <<>>
    /\ result = <<>>

\* SetQuestion and SetTsig on a new message.
NewMsg(id, q, sign) ==
    /\ pc = "idle"
    /\ msg' = [id |-> id, q |-> q, tsig |-> sign]
    /\ tries' = 0
    /\ result' = <<>>
    /\ UNCHANGED <<udp, clock, co, pc, own, count, signed, deadline, due, net>>

\* Mutant: the new Conn goes on from the MAC of the old one.
DialledWithMAC == [n |-> count + 1, mac |-> co.mac, open |-> TRUE]

\* Client.Dial; the Conn that it makes has signed nothing yet.
Dialled == [n |-> count + 1, mac |-> NoMAC, open |-> TRUE]

\* Mutant: the error of WriteMsg is ignored.
FailsGoesOn(c, closes, e) ==
    /\ co' = [c EXCEPT !.open = ~closes]
    /\ pc' = "reading"
    /\ result' = <<>>

\* An exchange that fails before anything is read.
Fails(c, closes, e) ==
    /\ co' = [c EXCEPT !.open = ~closes]
    /\ pc' = "idle"
    /\ result' = <<[err |-> e, reply |-> NoTsig]>>

\* ExchangeWithConnContext up to the read: the deadline is set, WriteMsg signs over
\* the MAC that the Conn holds and takes the stub off the caller's message.  Signing
\* may fail (no key for the name), which clears the MAC, and so may the write.
Write(c, closes) ==
    /\ pc = "idle" /\ count < MaxExchanges /\ Len(toServer) < MaxInFlight
    /\ \E d \in Timeouts :
          clock + d <= MaxClock /\ deadline' = clock + d /\ due' = clock + d
    /\ count' = count + 1
    /\ own' = closes
    /\ signed' = msg.tsig /\ tries' = tries + 1
    /\ msg' = TakeStub(msg)
    /\ LET t == IF msg.tsig THEN TsigGenerate("q", msg.id, msg.q, c.mac) ELSE NoTsig
           d == IF msg.tsig THEN [c EXCEPT !.mac = t.mac] ELSE c
       IN  \/ /\ co' = d
              /\ pc' = "reading"
              /\ result' = <<>>
              /\ toServer' = Append(toServer, Packet("q", c.n, count + 1, msg.id, msg.q, t))
           \/ Fails(d, closes, "write") /\ UNCHANGED toServer
           \/ /\ msg.tsig
              /\ Fails([c EXCEPT !.mac = NoMAC], closes, "sign") /\ UNCHANGED toServer
    /\ UNCHANGED <<udp, clock, toClient>>

\* Exchange: a connection for this exchange alone.
Exchange == Write(Dialled, TRUE)

\* ExchangeWithConn, over a connection made with Dial or kept from before.
ExchangeWithConn == Write(IF co.open THEN co ELSE Dialled, FALSE)

Ends(r) ==
    /\ pc' = "idle"
    /\ co' = [co EXCEPT !.open = ~own]
    /\ result' = <<r>>
    /\ UNCHANGED deadline

\* The packets that this socket may read next.
Readable == {i \in DOMAIN toClient : toClient[i].conn = co.n
                /\ (udp \/ \A j \in 1..(i - 1) : toClient[j].conn # co.n)}

\* Mutant: the signature need not be over the MAC of this request.
ReadErrAnyMAC(p) == IF p.tsig = NoTsig THEN "nil" ELSE tsigVerify(p, p.tsig.mac[5])

\* ReadMsg: a signature, if there is one, is verified against the Conn's MAC.
ReadErr(p) == IF p.tsig = NoTsig THEN "nil" ELSE tsigVerify(p, co.mac)

\* Mutant: every turn of the loop renews the deadline.
SkipRenews ==
    /\ \E d \in Timeouts : clock + d <= MaxClock /\ deadline' = clock + d
    /\ UNCHANGED <<pc, co, result>>

\* The loop goes on, with the deadline that it had.
Skip == UNCHANGED <<pc, co, result, deadline>>

\* One turn of the read loop.  Over UDP a reply with another id is skipped.  A read
\* past its deadline fails even when there is a packet.
Read(i) ==
    /\ pc = "reading" /\ i \in Readable /\ clock <= deadline
    /\ toClient' = RemoveAt(toClient, i)
    /\ LET p == toClient[i]
           e == ReadErr(p)
       IN  \/ e # "nil" /\ Ends([err |-> e, reply |-> p])
           \/ e = "nil" /\ p.id = msg.id /\ Ends([err |-> "nil", reply |-> p])
           \/ e = "nil" /\ p.id # msg.id /\ udp /\ Skip
           \/ e = "nil" /\ p.id # msg.id /\ ~udp /\ Ends([err |-> "ErrId", reply |-> p])
    /\ UNCHANGED <<udp, clock, msg, tries, own, count, signed, due, toServer>>

\* The runtime ends a read at its deadline, or some time after it.
Timeout ==
    /\ pc = "reading" /\ clock >= deadline
    /\ Ends([err |-> "timeout", reply |-> NoTsig])
    /\ UNCHANGED <<udp, clock, msg, tries, own, count, signed, due, net>>

-----------------------------------------------------------------------------
\* The server of server.go: it verifies a signed request over no earlier MAC and
\* signs its reply over the request's; a request that does not verify gets an
\* unsigned reply.
Answer(i) ==
    /\ Len(toClient) < MaxInFlight
    /\ LET p == toServer[i]
           signs == p.tsig # NoTsig /\ tsigVerify(p, NoMAC) = "nil"
           t == IF signs THEN TsigGenerate("r", p.id, p.q, p.tsig.mac) ELSE NoTsig
       IN  toClient' = Append(toClient, Packet("r", p.conn, p.n, p.id, p.q, t))
    /\ toServer' = RemoveAt(toServer, i)
    /\ UNCHANGED <<udp, clock, msg, tries, co, pc, own, count, signed, deadline, due, result>>

Lose ==
    /\ udp
    /\ \/ \E i \in DOMAIN toServer : toServer' = RemoveAt(toServer, i) /\ UNCHANGED toClient
       \/ \E i \in DOMAIN toClient : toClient' = RemoveAt(toClient, i) /\ UNCHANGED toServer
    /\ UNCHANGED <<udp, clock, msg, tries, co, pc, own, count, signed, deadline, due, result>>

Repeat ==
    /\ udp /\ Len(toClient) < MaxInFlight
    /\ \E i \in DOMAIN toClient : toClient' = Append(toClient, toClient[i])
    /\ UNCHANGED <<udp, clock, msg, tries, co, pc, own, count, signed, deadline, due, toServer, result>>

Tick ==
    /\ clock < MaxClock
    /\ clock' = clock + 1
    /\ UNCHANGED <<udp, msg, tries, co, pc, own, count, signed, deadline, due, net, result>>

Next ==
    \/ \E id \in Ids, q \in Questions, sign \in BOOLEAN : NewMsg(id, q, sign)
    \/ Exchange
    \/ ExchangeWithConn
    \/ \E i \in DOMAIN toClient : Read(i)
    \/ Timeout
    \/ \E i \in DOMAIN toServer : (udp \/ i = 1) /\ Answer(i)
    \/ Lose
    \/ Repeat
    \/ Tick

Spec == Init /\ [][Next]_vars

-----------------------------------------------------------------------------
\* Properties.

\* Types and bounds; an exchange reads from a connection that is open.
TypeOK ==
    /\ udp \in BOOLEAN /\ own \in BOOLEAN
    /\ clock \in 0..MaxClock /\ count \in 0..MaxExchanges /\ tries \in 0..count /\ signed \in BOOLEAN
    /\ msg \in [id : Ids, q : Questions, tsig : BOOLEAN]
    /\ deadline \in Nat /\ due \in Nat
    /\ co.n \in 0..MaxExchanges /\ co.open \in BOOLEAN
    /\ pc \in {"idle", "reading"} /\ (pc = "reading" => co.open)
    /\ Len(toServer) <= MaxInFlight /\ Len(toClient) <= MaxInFlight
    /\ Len(result) <= 1

Done == result # <<>> /\ result[1].err = "nil"

\* When an exchange has signed its request and returns a signed reply without
\* an error, that reply answers this question: not an earlier request on the
\* same Conn with the same id, whose reply comes late or twice.
SignedExchangeGetsItsAnswer ==
    (Done /\ signed /\ result[1].reply.tsig # NoTsig) => result[1].reply.q = msg.q

\* An accepted reply carries the id of the caller's message, and its signature,
\* if it has one, is not older than the fudge at the time it is accepted.
AcceptedReplyIsFresh ==
    [][(Done' /\ ~Done) =>
          LET p == result'[1].reply
          IN  p.id = msg.id /\ (p.tsig # NoTsig => clock - p.tsig.time <= Fudge)]_vars

\* The first signed request of a connection reaches the server verifiable: it
\* is signed over no earlier MAC, so over a connection of its own (Exchange) the
\* server refuses it only when it is late.
FirstSignatureStartsChain ==
    \A i \in DOMAIN toServer :
        LET p == toServer[i]
        IN  (p.tsig # NoTsig /\ p.conn = p.n) => tsigVerify(p, NoMAC) # "ErrSig"

\* An exchange ends by the time that its start fixed, or it times out: the loop
\* gets nothing that comes later, however many replies with other ids, late or
\* repeated, it has skipped before.
ExchangeEndsInTime ==
    [][(pc = "reading" /\ pc' = "idle" /\ result'[1].err # "timeout") => clock <= due]_vars

=============================================================================
