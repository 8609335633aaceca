----------------------------- MODULE ClientProofs -----------------------------
(***************************************************************************)
(* Proofs about Client for any ids, questions, fudge and number of         *)
(* exchanges, over a network that loses, repeats, delays and reorders.     *)
(***************************************************************************)
EXTENDS Client, SequenceTheorems, TLAPS

-----------------------------------------------------------------------------
(* The network: sequences of packets whose contents have no type of their  *)
(* own, because a MAC holds the MAC before it.                             *)

IsSeq(s) == s \in Seq(Range(s))

\* A sequence and what is at its places.
LEMMA SeqPlaces ==
  ASSUME NEW s, IsSeq(s)
  PROVE  /\ Len(s) \in Nat /\ DOMAIN s = 1..Len(s)
         /\ \A i \in DOMAIN s : s[i] \in Range(s)
BY DEF IsSeq, Range

\* The empty network.
LEMMA EmptySeqIsSeq == IsSeq(<<>>) /\ Len(<<>>) = 0 /\ Range(<<>>) = {}
BY DEF IsSeq, Range

\* A packet is sent.
LEMMA AppendPacket ==
  ASSUME NEW s, IsSeq(s), NEW e
  PROVE  /\ IsSeq(Append(s, e))
         /\ Len(Append(s, e)) = Len(s) + 1
         /\ Range(Append(s, e)) = Range(s) \cup {e}
<1> DEFINE U == Range(s) \cup {e}
           a == Append(s, e)
<1>1. s \in Seq(U)
  BY DEF IsSeq, Range
<1>2. a \in Seq(U) /\ Len(a) = Len(s) + 1 /\ Len(s) \in Nat
  BY <1>1
<1>3. \A i \in 1..Len(s) : a[i] = s[i]
  BY <1>1
<1>4. a[Len(s) + 1] = e
  BY <1>1
<1>5. DOMAIN a = 1..(Len(s) + 1) /\ DOMAIN s = 1..Len(s)
  BY <1>1, <1>2
<1> HIDE DEF a
<1>6. Range(a) = U
  BY <1>2, <1>3, <1>4, <1>5 DEF Range
<1> QED BY <1>2, <1>6 DEF IsSeq, a

\* A packet is taken or lost: what is left was there.
LEMMA RemovePacket ==
  ASSUME NEW s, IsSeq(s), NEW i \in DOMAIN s
  PROVE  /\ IsSeq(RemoveAt(s, i))
         /\ Len(RemoveAt(s, i)) = Len(s) - 1
         /\ Range(RemoveAt(s, i)) \subseteq Range(s)
<1> DEFINE U == Range(s)
           a == SubSeq(s, 1, i - 1)
           b == SubSeq(s, i + 1, Len(s))
           r == RemoveAt(s, i)
<1>1. s \in Seq(U) /\ Len(s) \in Nat /\ DOMAIN s = 1..Len(s) /\ i \in 1..Len(s)
  BY DEF IsSeq
<1> HIDE DEF U
<1>2. a \in Seq(U) /\ Len(a) = i - 1
  BY <1>1
<1>3. b \in Seq(U) /\ Len(b) = Len(s) - i
  BY <1>1
<1>4. r = a \o b
  BY DEF RemoveAt
<1> HIDE DEF a, b, r
<1>5. r \in Seq(U) /\ Len(r) = Len(s) - 1
  <2>1. r \in Seq(U) /\ Len(r) = Len(a) + Len(b)
    BY <1>2, <1>3, <1>4, ConcatProperties
  <2> QED BY <1>1, <1>2, <1>3, <2>1
<1>6. Range(r) \subseteq U
  BY <1>5 DEF Range
<1>7. r \in Seq(Range(r))
  BY <1>5 DEF Range
<1> QED BY <1>5, <1>6, <1>7 DEF IsSeq, U, r

-----------------------------------------------------------------------------
(* The inductive invariant.                                                *)

\* The shapes that TypeOK leaves open: the Conn and the result are records, the
\* network is two sequences; a Conn is numbered by the exchange that dialled it.
Shapes ==
  /\ co = [n |-> co.n, mac |-> co.mac, open |-> co.open]
  /\ result = <<>> \/ result = <<result[1]>>
  /\ IsSeq(toServer) /\ IsSeq(toClient)
  /\ co.n <= count

\* What is on its way to the server is a query; the first signed one of a Conn
\* is signed over no earlier MAC.
RequestsStartChain ==
  \A p \in Range(toServer) :
    /\ p.kind = "q"
    /\ (p.tsig # NoTsig /\ p.conn = p.n)
         => p.tsig.mac = Digest(p.kind, p.id, p.q, p.tsig.time, NoMAC)

\* A signed reply is signed over the MAC of a request for its own question.
RepliesAreChained ==
  \A p \in Range(toClient) :
    p.tsig # NoTsig => p.tsig.time \in Nat /\ p.tsig.mac[5][3] = p.q

\* While a signed exchange reads, the Conn holds the MAC of its own request.
ConnHoldsRequestMAC == (pc = "reading" /\ signed) => co.mac[3] = msg.q

\* The deadline of the Conn is the one that the start of the exchange fixed.
DeadlineIsDue == deadline = due

IInv ==
  /\ TypeOK
  /\ Shapes
  /\ DeadlineIsDue
  /\ RequestsStartChain
  /\ RepliesAreChained
  /\ ConnHoldsRequestMAC
  /\ SignedExchangeGetsItsAnswer

\* Nothing has been sent.
LEMMA IInvInit == Init => IInv
<1> SUFFICES ASSUME Init PROVE IInv
  OBVIOUS
<1> USE ClientBounds, EmptySeqIsSeq DEF Init
<1>1. TypeOK
  <2>1. udp \in BOOLEAN /\ own \in BOOLEAN /\ signed \in BOOLEAN
    OBVIOUS
  <2>4. msg \in [id : Ids, q : Questions, tsig : BOOLEAN]
    <3>1. PICK i \in Ids, q \in Questions : msg = [id |-> i, q |-> q, tsig |-> FALSE]
      OBVIOUS
    <3> QED BY <3>1
  <2>2. /\ clock \in 0..MaxClock /\ count \in 0..MaxExchanges /\ tries \in 0..count
        /\ co.n \in 0..MaxExchanges /\ co.open \in BOOLEAN
        /\ pc \in {"idle", "reading"} /\ (pc = "reading" => co.open)
    OBVIOUS
  <2>3. /\ Len(toServer) <= MaxInFlight /\ Len(toClient) <= MaxInFlight /\ Len(result) <= 1
        /\ deadline \in Nat /\ due \in Nat
    OBVIOUS
  <2> QED BY <2>1, <2>2, <2>3, <2>4 DEF TypeOK
<1>2. Shapes
  BY DEF Shapes
<1>3. RequestsStartChain /\ RepliesAreChained /\ ConnHoldsRequestMAC /\ DeadlineIsDue
  BY DEF RequestsStartChain, RepliesAreChained, ConnHoldsRequestMAC, DeadlineIsDue
<1>4. SignedExchangeGetsItsAnswer
  BY DEF SignedExchangeGetsItsAnswer, Done
<1> QED BY <1>1, <1>2, <1>3, <1>4 DEF IInv

\* What is known once tsigVerify has accepted a packet.
LEMMA Verified ==
  ASSUME NEW p, NEW prior, tsigVerify(p, prior) = "nil"
  PROVE  /\ p.tsig.mac = Digest(p.kind, p.id, p.q, p.tsig.time, prior)
         /\ clock \in Nat /\ p.tsig.time \in Nat => clock - p.tsig.time <= Fudge
BY ClientBounds DEF tsigVerify

\* An exchange up to its read, over the Conn c.
LEMMA WriteKeeps ==
  ASSUME IInv, NEW c, NEW closes \in BOOLEAN, Write(c, closes),
         \/ c = Dialled
         \/ c = co /\ co.open
  PROVE  IInv'
<1> DEFINE t == IF msg.tsig THEN TsigGenerate("q", msg.id, msg.q, c.mac) ELSE NoTsig
           d == IF msg.tsig THEN [c EXCEPT !.mac = t.mac] ELSE c
           p == Packet("q", c.n, count + 1, msg.id, msg.q, t)
<1>1. /\ count' = count + 1 /\ own' = closes /\ signed' = msg.tsig /\ tries' = tries + 1
      /\ msg' = [msg EXCEPT !.tsig = FALSE] /\ pc = "idle" /\ count < MaxExchanges
      /\ Len(toServer) < MaxInFlight /\ UNCHANGED <<udp, clock, toClient>>
  BY DEF Write, TakeStub
<1>2. c.n \in 0..count' /\ c.open = TRUE /\ c = [n |-> c.n, mac |-> c.mac, open |-> c.open]
  BY <1>1, ClientBounds DEF IInv, TypeOK, Shapes, Dialled
<1>3. /\ d = [n |-> c.n, mac |-> d.mac, open |-> TRUE]
      /\ msg.tsig => d.mac[3] = msg.q
  BY <1>2 DEF TsigGenerate, Digest
<1>4. \/ /\ co' = d /\ pc' = "reading" /\ result' = <<>>
         /\ toServer' = Append(toServer, p)
      \/ Fails(d, closes, "write") /\ UNCHANGED toServer
      \/ Fails([c EXCEPT !.mac = NoMAC], closes, "sign") /\ UNCHANGED toServer
  BY DEF Write
<1>5. /\ p.kind = "q" /\ p.id = msg.id /\ p.q = msg.q /\ p.conn = c.n /\ p.n = count + 1
      /\ p.tsig = t
  BY DEF Packet
<1>6. (p.tsig # NoTsig /\ p.conn = p.n)
         => p.tsig.mac = Digest(p.kind, p.id, p.q, p.tsig.time, NoMAC)
  <2>1. c.n = count + 1 => c.mac = NoMAC
    BY ClientBounds DEF IInv, TypeOK, Shapes, Dialled
  <2> QED BY <1>5, <2>1 DEF TsigGenerate
<1> HIDE DEF t, d, p
<1>7. \/ /\ co' = d /\ pc' = "reading" /\ result' = <<>> /\ toServer' = Append(toServer, p)
      \/ /\ \E mac : co' = [n |-> c.n, mac |-> mac, open |-> ~ closes]
         /\ pc' = "idle" /\ toServer' = toServer
         /\ \E r : result' = <<r>> /\ r.err # "nil"
  <2>1. CASE Fails(d, closes, "write") /\ UNCHANGED toServer
    BY <1>3, <2>1 DEF Fails
  <2>2. CASE Fails([c EXCEPT !.mac = NoMAC], closes, "sign") /\ UNCHANGED toServer
    <3>1. co' = [[c EXCEPT !.mac = NoMAC] EXCEPT !.open = ~ closes]
      BY <2>2 DEF Fails
    <3>2. co' = [n |-> c.n, mac |-> NoMAC, open |-> ~ closes]
      BY <1>2, <3>1
    <3>3. pc' = "idle" /\ toServer' = toServer /\ \E r : result' = <<r>> /\ r.err # "nil"
      BY <2>2 DEF Fails
    <3> QED BY <3>2, <3>3
  <2> QED BY <1>4, <2>1, <2>2
<1>14. deadline' \in Nat /\ due' \in Nat /\ deadline' = due'
  <2>1. PICK x \in Timeouts : deadline' = clock + x /\ due' = clock + x
    BY DEF Write
  <2> QED BY <2>1, ClientBounds DEF IInv, TypeOK
<1>8. TypeOK'
  <2>1. /\ udp' \in BOOLEAN /\ own' \in BOOLEAN /\ signed' \in BOOLEAN
        /\ msg' \in [id : Ids, q : Questions, tsig : BOOLEAN]
    BY <1>1 DEF IInv, TypeOK
  <2>2. clock' \in 0..MaxClock /\ count' \in 0..MaxExchanges /\ tries' \in 0..count'
    BY <1>1, ClientBounds DEF IInv, TypeOK
  <2>3. /\ co'.n \in 0..MaxExchanges /\ co'.open \in BOOLEAN
        /\ pc' \in {"idle", "reading"} /\ (pc' = "reading" => co'.open)
    <3>1. c.n \in 0..MaxExchanges
      BY <1>2, <2>2, ClientBounds
    <3>2. CASE co' = d /\ pc' = "reading"
      <4>1. co' = [n |-> c.n, mac |-> d.mac, open |-> TRUE]
        BY <1>3, <3>2
      <4> QED BY <3>1, <3>2, <4>1
    <3>3. CASE pc' = "idle" /\ \E mac : co' = [n |-> c.n, mac |-> mac, open |-> ~ closes]
      BY <3>1, <3>3
    <3> QED BY <1>7, <3>2, <3>3
  <2>4. Len(toServer') <= MaxInFlight /\ Len(toClient') <= MaxInFlight
    BY <1>1, <1>7, AppendPacket, SeqPlaces, ClientBounds DEF IInv, TypeOK, Shapes
  <2>5. Len(result') <= 1
    <3>1. result' = <<>> \/ \E r : result' = <<r>>
      BY <1>7
    <3>2. CASE result' = <<>>
      BY <3>2
    <3>3. CASE \E r : result' = <<r>>
      <4>1. PICK r : result' = <<r>>
        BY <3>3
      <4> QED BY <4>1
    <3> QED BY <3>1, <3>2, <3>3
  <2> QED BY <1>14, <2>1, <2>2, <2>3, <2>4, <2>5 DEF TypeOK
<1>9. Shapes'
  <2>1. co' = [n |-> c.n, mac |-> co'.mac, open |-> co'.open]
    <3>1. CASE co' = d
      BY <1>3, <3>1
    <3>2. CASE \E mac : co' = [n |-> c.n, mac |-> mac, open |-> ~ closes]
      BY <3>2
    <3> QED BY <1>7, <3>1, <3>2
  <2>2. result' = <<>> \/ result' = <<result'[1]>>
    BY <1>7
  <2>3. IsSeq(toServer') /\ IsSeq(toClient')
    BY <1>1, <1>7, AppendPacket DEF IInv, Shapes
  <2>4. co'.n = c.n /\ c.n <= count'
    BY <1>2, <2>1, ClientBounds
  <2> QED BY <2>1, <2>2, <2>3, <2>4 DEF Shapes
<1>10. RequestsStartChain'
  <2>1. Range(toServer') \subseteq Range(toServer) \cup {p}
    BY <1>7, AppendPacket DEF IInv, Shapes
  <2> QED BY <1>5, <1>6, <2>1 DEF IInv, RequestsStartChain
<1>11. RepliesAreChained'
  BY <1>1 DEF IInv, RepliesAreChained
<1>12. ConnHoldsRequestMAC'
  BY <1>1, <1>3, <1>7 DEF ConnHoldsRequestMAC, IInv, TypeOK
<1>13. SignedExchangeGetsItsAnswer'
  BY <1>7 DEF SignedExchangeGetsItsAnswer, Done
<1> QED BY <1>8, <1>9, <1>10, <1>11, <1>12, <1>13, <1>14 DEF IInv, DeadlineIsDue

\* A step that leaves the network, or thins it out, or repeats a reply.
LEMMA NetworkKeeps ==
  ASSUME IInv, IsSeq(toServer'), IsSeq(toClient'),
         Range(toServer') \subseteq Range(toServer), Range(toClient') \subseteq Range(toClient)
  PROVE  /\ IsSeq(toServer') /\ IsSeq(toClient')
         /\ RequestsStartChain' /\ RepliesAreChained'
BY DEF IInv, RequestsStartChain, RepliesAreChained

\* One turn of the read loop.
LEMMA ReadKeeps ==
  ASSUME IInv, NEW i \in DOMAIN toClient, Read(i)
  PROVE  /\ IInv' /\ clock <= due
         /\ (Done' /\ ~Done) =>
               LET p == result'[1].reply
               IN  p.id = msg.id /\ (p.tsig # NoTsig => clock - p.tsig.time <= Fudge)
<1> DEFINE p == toClient[i]
           e == ReadErr(p)
<1>1. /\ pc = "reading" /\ toClient' = RemoveAt(toClient, i) /\ clock <= deadline
      /\ UNCHANGED <<udp, clock, msg, tries, own, count, signed, deadline, due, toServer>>
  BY DEF Read, Ends, Skip
<1>2. \/ e # "nil" /\ Ends([err |-> e, reply |-> p])
      \/ e = "nil" /\ p.id = msg.id /\ Ends([err |-> "nil", reply |-> p])
      \/ UNCHANGED <<pc, co, result>>
      \/ Ends([err |-> "ErrId", reply |-> p])
  BY DEF Read, Skip
<1>3. p \in Range(toClient)
  BY SeqPlaces DEF IInv, Shapes
<1>4. p.tsig # NoTsig => p.tsig.time \in Nat /\ p.tsig.mac[5][3] = p.q
  BY <1>3 DEF IInv, RepliesAreChained
<1>5. clock \in Nat
  BY ClientBounds DEF IInv, TypeOK
<1>6. ASSUME e = "nil", p.tsig # NoTsig
      PROVE  clock - p.tsig.time <= Fudge /\ (signed => p.q = msg.q)
  <2>1. tsigVerify(p, co.mac) = "nil"
    BY <1>6 DEF ReadErr
  <2>2. p.tsig.mac = Digest(p.kind, p.id, p.q, p.tsig.time, co.mac)
    BY <2>1, Verified
  <2>3. clock - p.tsig.time <= Fudge
    BY <1>4, <1>5, <1>6, <2>1, Verified
  <2>4. p.tsig.mac[5] = co.mac
    BY <2>2 DEF Digest
  <2>5. signed => co.mac[3] = msg.q
    BY <1>1 DEF IInv, ConnHoldsRequestMAC
  <2> QED BY <1>4, <1>6, <2>3, <2>4, <2>5
<1> HIDE DEF p, e
<1>7. /\ IsSeq(toClient') /\ Range(toClient') \subseteq Range(toClient)
      /\ Len(toClient') <= MaxInFlight /\ Len(toServer') <= MaxInFlight
  BY <1>1, RemovePacket, SeqPlaces, ClientBounds DEF IInv, Shapes, TypeOK
<1>8. IsSeq(toServer') /\ RequestsStartChain' /\ RepliesAreChained'
  BY <1>1, <1>7, NetworkKeeps DEF IInv, Shapes
<1>12. DeadlineIsDue' /\ clock <= due
  BY <1>1 DEF IInv, DeadlineIsDue
<1>9. CASE UNCHANGED <<pc, co, result>>
  <2>1. TypeOK'
    BY <1>1, <1>7, <1>9 DEF IInv, TypeOK
  <2>2. Shapes'
    BY <1>1, <1>7, <1>8, <1>9 DEF IInv, Shapes
  <2>3. ConnHoldsRequestMAC' /\ SignedExchangeGetsItsAnswer' /\ ~ (Done' /\ ~ Done)
    BY <1>1, <1>9 DEF IInv, ConnHoldsRequestMAC, SignedExchangeGetsItsAnswer, Done
  <2> QED BY <1>8, <1>12, <2>1, <2>2, <2>3 DEF IInv
<1>10. ASSUME NEW r, Ends(r),
              r.err = "nil" => e = "nil" /\ p.id = msg.id /\ r.reply = p
       PROVE  /\ IInv'
              /\ (Done' /\ ~Done) =>
                    LET a == result'[1].reply
                    IN  a.id = msg.id /\ (a.tsig # NoTsig => clock - a.tsig.time <= Fudge)
  <2>1. pc' = "idle" /\ result' = <<r>> /\ result'[1] = r
    BY <1>10 DEF Ends
  <2>2. co' = [n |-> co.n, mac |-> co.mac, open |-> ~ own]
    BY <1>10 DEF Ends, IInv, Shapes
  <2>3. TypeOK'
    <3>1. co'.n = co.n /\ co'.open \in BOOLEAN
      BY <2>2
    <3>2. Len(result') = 1
      BY <2>1
    <3> QED BY <1>1, <1>7, <2>1, <3>1, <3>2 DEF IInv, TypeOK
  <2>4. Shapes'
    <3>1. co'.n = co.n /\ co' = [n |-> co'.n, mac |-> co'.mac, open |-> co'.open]
      BY <2>2
    <3> QED BY <1>1, <1>7, <1>8, <2>1, <3>1 DEF IInv, Shapes
  <2>5. ConnHoldsRequestMAC'
    BY <2>1 DEF ConnHoldsRequestMAC
  <2>6. SignedExchangeGetsItsAnswer'
    BY <1>1, <1>6, <1>10, <2>1 DEF SignedExchangeGetsItsAnswer, Done
  <2>7. (Done' /\ ~Done) =>
          LET a == result'[1].reply
          IN  a.id = msg.id /\ (a.tsig # NoTsig => clock - a.tsig.time <= Fudge)
    BY <1>6, <1>10, <2>1 DEF Done
  <2> QED BY <1>8, <1>12, <2>3, <2>4, <2>5, <2>6, <2>7 DEF IInv
<1>11. \/ \E r : Ends(r) /\ (r.err = "nil" => e = "nil" /\ p.id = msg.id /\ r.reply = p)
       \/ UNCHANGED <<pc, co, result>>
  <2>1. CASE e # "nil" /\ Ends([err |-> e, reply |-> p])
    BY <2>1
  <2>2. CASE e = "nil" /\ p.id = msg.id /\ Ends([err |-> "nil", reply |-> p])
    BY <2>2
  <2>3. CASE Ends([err |-> "ErrId", reply |-> p])
    BY <2>3
  <2> QED BY <1>2, <2>1, <2>2, <2>3
<1> QED BY <1>9, <1>10, <1>11, <1>12

\* The deadline.
LEMMA TimeoutKeeps ==
  ASSUME IInv, Timeout
  PROVE  IInv' /\ ~ Done' /\ result'[1].err = "timeout"
<1>1. /\ pc' = "idle" /\ result' = <<[err |-> "timeout", reply |-> NoTsig]>>
      /\ co' = [n |-> co.n, mac |-> co.mac, open |-> ~ own]
      /\ UNCHANGED <<udp, clock, msg, tries, own, count, signed, deadline, due, toServer, toClient>>
  BY DEF Timeout, Ends, net, IInv, Shapes
<1>2. /\ co'.n = co.n /\ co'.open \in BOOLEAN /\ Len(result') = 1
      /\ co' = [n |-> co'.n, mac |-> co'.mac, open |-> co'.open]
      /\ result' = <<result'[1]>> /\ result'[1].err # "nil"
  BY <1>1
<1>3. TypeOK'
  BY <1>1, <1>2 DEF IInv, TypeOK
<1>4. Shapes'
  BY <1>1, <1>2 DEF IInv, Shapes
<1>5. RequestsStartChain' /\ RepliesAreChained'
  BY <1>1, NetworkKeeps DEF IInv, Shapes
<1>6. ConnHoldsRequestMAC' /\ SignedExchangeGetsItsAnswer' /\ ~ Done'
  BY <1>1, <1>2 DEF ConnHoldsRequestMAC, SignedExchangeGetsItsAnswer, Done
<1>7. DeadlineIsDue' /\ result'[1].err = "timeout"
  BY <1>1 DEF IInv, DeadlineIsDue
<1> QED BY <1>3, <1>4, <1>5, <1>6, <1>7 DEF IInv

\* The server's reply to the request at place i.
LEMMA AnswerKeeps ==
  ASSUME IInv, NEW i \in DOMAIN toServer, Answer(i)
  PROVE  IInv'
<1> DEFINE p == toServer[i]
           signs == p.tsig # NoTsig /\ tsigVerify(p, NoMAC) = "nil"
           t == IF signs THEN TsigGenerate("r", p.id, p.q, p.tsig.mac) ELSE NoTsig
           a == Packet("r", p.conn, p.n, p.id, p.q, t)
<1>1. /\ Len(toClient) < MaxInFlight
      /\ toClient' = Append(toClient, a) /\ toServer' = RemoveAt(toServer, i)
      /\ UNCHANGED <<udp, clock, msg, tries, co, pc, own, count, signed, deadline, due, result>>
  BY DEF Answer
<1>2. p \in Range(toServer)
  BY SeqPlaces DEF IInv, Shapes
<1>3. a.tsig = t /\ a.q = p.q
  BY DEF Packet
<1>4. ASSUME t # NoTsig PROVE t.time \in Nat /\ t.mac[5][3] = p.q
  <2>1. signs /\ t = TsigGenerate("r", p.id, p.q, p.tsig.mac)
    BY <1>4
  <2>2. p.tsig.mac = Digest(p.kind, p.id, p.q, p.tsig.time, NoMAC)
    BY <2>1, Verified
  <2>3. t.mac[5] = p.tsig.mac /\ t.time = clock
    BY <2>1 DEF TsigGenerate, Digest
  <2>4. p.tsig.mac[3] = p.q
    BY <2>2 DEF Digest
  <2> QED BY <2>3, <2>4, ClientBounds DEF IInv, TypeOK
<1> HIDE DEF a, t
<1>5. /\ IsSeq(toClient') /\ Range(toClient') = Range(toClient) \cup {a}
      /\ Len(toClient') = Len(toClient) + 1
  BY <1>1, AppendPacket DEF IInv, Shapes
<1>6. /\ IsSeq(toServer') /\ Range(toServer') \subseteq Range(toServer)
      /\ Len(toServer') = Len(toServer) - 1
  BY <1>1, RemovePacket DEF IInv, Shapes
<1>7. Len(toServer) \in Nat /\ Len(toClient) \in Nat
  BY SeqPlaces DEF IInv, Shapes
<1>8. TypeOK'
  <2>1. Len(toServer') <= MaxInFlight /\ Len(toClient') <= MaxInFlight
    BY <1>1, <1>5, <1>6, <1>7, ClientBounds DEF IInv, TypeOK
  <2> QED BY <1>1, <2>1 DEF IInv, TypeOK
<1>9. Shapes'
  BY <1>1, <1>5, <1>6 DEF IInv, Shapes
<1>10. RequestsStartChain'
  BY <1>6 DEF IInv, RequestsStartChain
<1>11. RepliesAreChained'
  BY <1>3, <1>4, <1>5 DEF IInv, RepliesAreChained
<1>12. ConnHoldsRequestMAC' /\ SignedExchangeGetsItsAnswer' /\ DeadlineIsDue'
  BY <1>1 DEF IInv, ConnHoldsRequestMAC, SignedExchangeGetsItsAnswer, DeadlineIsDue, Done
<1> QED BY <1>8, <1>9, <1>10, <1>11, <1>12 DEF IInv

\* The network loses and repeats.
LEMMA FaultKeeps ==
  ASSUME IInv, Lose \/ Repeat
  PROVE  IInv'
<1>1. UNCHANGED <<udp, clock, msg, tries, co, pc, own, count, signed, deadline, due, result>>
  BY DEF Lose, Repeat
<1>2. /\ IsSeq(toServer) /\ IsSeq(toClient)
      /\ Len(toServer) \in Nat /\ Len(toClient) \in Nat
      /\ Len(toServer) <= MaxInFlight /\ Len(toClient) <= MaxInFlight
  BY SeqPlaces DEF IInv, Shapes, TypeOK
<1>3. /\ IsSeq(toServer') /\ IsSeq(toClient')
      /\ Range(toServer') \subseteq Range(toServer) /\ Range(toClient') \subseteq Range(toClient)
      /\ Len(toServer') <= MaxInFlight /\ Len(toClient') <= MaxInFlight
  <2>1. CASE \E i \in DOMAIN toServer : toServer' = RemoveAt(toServer, i) /\ UNCHANGED toClient
    BY <1>2, <2>1, RemovePacket, ClientBounds
  <2>2. CASE \E i \in DOMAIN toClient : toClient' = RemoveAt(toClient, i) /\ UNCHANGED toServer
    BY <1>2, <2>2, RemovePacket, ClientBounds
  <2>3. CASE Repeat
    <3>1. PICK i \in DOMAIN toClient : toClient' = Append(toClient, toClient[i])
      BY <2>3 DEF Repeat
    <3>2. toClient[i] \in Range(toClient) /\ Len(toClient) < MaxInFlight /\ toServer' = toServer
      BY <1>2, <2>3, SeqPlaces DEF Repeat
    <3> QED BY <1>2, <3>1, <3>2, AppendPacket, ClientBounds
  <2> QED BY <2>1, <2>2, <2>3 DEF Lose
<1>4. TypeOK'
  BY <1>1, <1>3 DEF IInv, TypeOK
<1>5. Shapes'
  BY <1>1, <1>3 DEF IInv, Shapes
<1>6. RequestsStartChain' /\ RepliesAreChained'
  BY <1>3, NetworkKeeps
<1>7. ConnHoldsRequestMAC' /\ SignedExchangeGetsItsAnswer' /\ DeadlineIsDue'
  BY <1>1 DEF IInv, ConnHoldsRequestMAC, SignedExchangeGetsItsAnswer, DeadlineIsDue, Done
<1> QED BY <1>4, <1>5, <1>6, <1>7 DEF IInv

\* A new message, between exchanges.
LEMMA NewMsgKeeps ==
  ASSUME IInv, NEW id \in Ids, NEW q \in Questions, NEW sign \in BOOLEAN, NewMsg(id, q, sign)
  PROVE  IInv' /\ ~ Done'
<1>1. /\ pc = "idle" /\ msg' = [id |-> id, q |-> q, tsig |-> sign] /\ tries' = 0 /\ result' = <<>>
      /\ UNCHANGED <<udp, clock, co, pc, own, count, signed, deadline, due, toServer, toClient>>
  BY DEF NewMsg, net
<1>2. TypeOK'
  <2>1. msg' \in [id : Ids, q : Questions, tsig : BOOLEAN]
    BY <1>1
  <2>2. Len(result') <= 1 /\ tries' \in 0..count
    BY <1>1, ClientBounds DEF IInv, TypeOK
  <2> QED BY <1>1, <2>1, <2>2 DEF IInv, TypeOK
<1>3. Shapes'
  BY <1>1 DEF IInv, Shapes
<1>4. RequestsStartChain' /\ RepliesAreChained'
  BY <1>1, NetworkKeeps DEF IInv, Shapes
<1>5. ConnHoldsRequestMAC' /\ SignedExchangeGetsItsAnswer' /\ ~ Done' /\ DeadlineIsDue'
  BY <1>1 DEF IInv, ConnHoldsRequestMAC, SignedExchangeGetsItsAnswer, DeadlineIsDue, Done
<1> QED BY <1>2, <1>3, <1>4, <1>5 DEF IInv

\* Time passes.
LEMMA TickKeeps ==
  ASSUME IInv, Tick
  PROVE  IInv'
<1>1. /\ clock < MaxClock /\ clock' = clock + 1
      /\ UNCHANGED <<udp, msg, tries, co, pc, own, count, signed, deadline, due,
                     toServer, toClient, result>>
  BY DEF Tick, net
<1>2. TypeOK'
  <2>1. clock' \in 0..MaxClock
    BY <1>1, ClientBounds DEF IInv, TypeOK
  <2> QED BY <1>1, <2>1 DEF IInv, TypeOK
<1>3. Shapes'
  BY <1>1 DEF IInv, Shapes
<1>4. RequestsStartChain' /\ RepliesAreChained'
  BY <1>1, NetworkKeeps DEF IInv, Shapes
<1>5. ConnHoldsRequestMAC' /\ SignedExchangeGetsItsAnswer' /\ DeadlineIsDue'
  BY <1>1 DEF IInv, ConnHoldsRequestMAC, SignedExchangeGetsItsAnswer, DeadlineIsDue, Done
<1> QED BY <1>2, <1>3, <1>4, <1>5 DEF IInv

Fresh ==
  (Done' /\ ~Done) =>
     LET p == result'[1].reply
     IN  p.id = msg.id /\ (p.tsig # NoTsig => clock - p.tsig.time <= Fudge)

\* An exchange that ends this step ends in time, or times out.
InTime == (pc = "reading" /\ pc' = "idle" /\ result'[1].err # "timeout") => clock <= due

\* Every step preserves the invariant, accepts fresh replies only, and in time.
LEMMA IInvStep == IInv /\ [Next]_vars => IInv' /\ Fresh /\ InTime
<1> SUFFICES ASSUME IInv, [Next]_vars PROVE IInv' /\ Fresh /\ InTime
  OBVIOUS
<1>1. ASSUME NEW id \in Ids, NEW q \in Questions, NEW sign \in BOOLEAN, NewMsg(id, q, sign)
      PROVE  IInv' /\ Fresh /\ InTime
  BY <1>1, NewMsgKeeps DEF Fresh, InTime, NewMsg
<1>2. ASSUME NEW c, NEW closes \in BOOLEAN, Write(c, closes), c = Dialled \/ (c = co /\ co.open)
      PROVE  IInv' /\ Fresh /\ InTime
  <2>1. IInv'
    BY <1>2, WriteKeeps
  <2>2. result' = <<>> \/ \E e \in {"write", "sign"} : result' = <<[err |-> e, reply |-> NoTsig]>>
    BY <1>2 DEF Write, Fails
  <2>3. ~ Done'
    BY <2>2 DEF Done
  <2>4. pc = "idle"
    BY <1>2 DEF Write
  <2> QED BY <2>1, <2>3, <2>4 DEF Fresh, InTime
<1>3. CASE Exchange
  BY <1>2, <1>3 DEF Exchange
<1>4. CASE ExchangeWithConn
  <2>1. CASE co.open
    BY <1>2, <1>4, <2>1 DEF ExchangeWithConn
  <2>2. CASE ~ co.open
    BY <1>2, <1>4, <2>2 DEF ExchangeWithConn
  <2> QED BY <2>1, <2>2
<1>5. ASSUME NEW i \in DOMAIN toClient, Read(i) PROVE IInv' /\ Fresh /\ InTime
  BY <1>5, ReadKeeps DEF Fresh, InTime
<1>6. CASE Timeout
  BY <1>6, TimeoutKeeps DEF Fresh, InTime
<1>7. ASSUME NEW i \in DOMAIN toServer, Answer(i) PROVE IInv' /\ Fresh /\ InTime
  BY <1>7, AnswerKeeps DEF Answer, Done, Fresh, InTime
<1>8. CASE Lose \/ Repeat
  BY <1>8, FaultKeeps DEF Lose, Repeat, Done, Fresh, InTime
<1>9. CASE Tick
  BY <1>9, TickKeeps DEF Tick, Done, Fresh, InTime
<1>10. CASE UNCHANGED vars
  <2>1. TypeOK' /\ Shapes'
    BY <1>10 DEF IInv, TypeOK, Shapes, vars
  <2>2. RequestsStartChain' /\ RepliesAreChained'
    BY <1>10 DEF IInv, RequestsStartChain, RepliesAreChained, vars
  <2>3. ConnHoldsRequestMAC' /\ SignedExchangeGetsItsAnswer' /\ DeadlineIsDue' /\ Fresh /\ InTime
    BY <1>10 DEF IInv, ConnHoldsRequestMAC, SignedExchangeGetsItsAnswer, DeadlineIsDue, Done,
                 Fresh, InTime, vars
  <2> QED BY <2>1, <2>2, <2>3 DEF IInv
<1> QED BY <1>1, <1>3, <1>4, <1>5, <1>6, <1>7, <1>8, <1>9, <1>10 DEF Next

\* The invariant holds in every state.
LEMMA Invariance == Spec => []IInv
<1>1. IInv /\ [Next]_vars => IInv'
  BY IInvStep
<1> QED BY <1>1, IInvInit, PTL DEF Spec

-----------------------------------------------------------------------------
\* The declared types and bounds, and an exchange reads from an open Conn.
THEOREM TypeCorrect == Spec => []TypeOK
<1>1. IInv => TypeOK
  BY DEF IInv
<1> QED BY <1>1, Invariance, PTL

\* A signed exchange that returns a signed reply without an error returns the
\* answer to its own question, however replies are delayed, repeated and reordered
\* and whatever ids collide: ReadMsg verifies over the MAC of this request alone.
THEOREM AnswersMatch == Spec => []SignedExchangeGetsItsAnswer
<1>1. IInv => SignedExchangeGetsItsAnswer
  BY DEF IInv
<1> QED BY <1>1, Invariance, PTL

\* The first signed request of a Conn verifies at the server, unless it is late:
\* Dial starts without a MAC, so WriteMsg has none to digest.
THEOREM FirstSignaturesVerify == Spec => []FirstSignatureStartsChain
<1>1. ASSUME IInv PROVE FirstSignatureStartsChain
  <2>1. ASSUME NEW i \in DOMAIN toServer, toServer[i].tsig # NoTsig, toServer[i].conn = toServer[i].n
        PROVE  tsigVerify(toServer[i], NoMAC) # "ErrSig"
    <3>1. toServer[i] \in Range(toServer)
      BY <1>1, SeqPlaces DEF IInv, Shapes
    <3>2. toServer[i].tsig.mac = Digest(toServer[i].kind, toServer[i].id, toServer[i].q,
                                        toServer[i].tsig.time, NoMAC)
      BY <1>1, <2>1, <3>1 DEF IInv, RequestsStartChain
    <3> QED BY <3>2 DEF tsigVerify
  <2> QED BY <2>1 DEF FirstSignatureStartsChain
<1> QED BY <1>1, Invariance, PTL

\* A reply is accepted only with the id of the caller's message and, when it is
\* signed, within the fudge of its signature: tsigVerify checks the time too.
THEOREM RepliesAreFresh == Spec => AcceptedReplyIsFresh
<1>1. IInv /\ [Next]_vars => Fresh
  BY IInvStep
<1>2. Fresh => [Fresh]_vars
  OBVIOUS
<1> QED BY <1>1, Invariance, PTL DEF Spec, AcceptedReplyIsFresh, Fresh

\* An exchange ends by the deadline that its start fixed, or with a timeout, whatever
\* replies with other ids it skips: ExchangeWithConnContext sets the deadline once,
\* and no turn of its read loop moves it.
THEOREM ExchangesEndInTime == Spec => ExchangeEndsInTime
<1>1. IInv /\ [Next]_vars => InTime
  BY IInvStep
<1>2. InTime => [InTime]_vars
  OBVIOUS
<1> QED BY <1>1, Invariance, PTL DEF Spec, ExchangeEndsInTime, InTime
===============================================================================
