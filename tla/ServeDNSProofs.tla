---------------------------- MODULE ServeDNSProofs ----------------------------
(***************************************************************************)
(* Proofs about ServeDNS for any messages, section counts and MACs, and    *)
(* for any number of messages on a connection and of replies to each.      *)
(***************************************************************************)
EXTENDS ServeDNS, TLAPS

-----------------------------------------------------------------------------
(* Type correctness.                                                       *)

\* A handler runs for a message, which has been counted.
HandlerHasRequest == phase = "handler" => req \in Messages /\ n >= 1

TInv == TypeOK /\ HandlerHasRequest

\* The replies of the server itself, and those of handlers, are replies.
LEMMA ReplyType ==
  ASSUME NEW m \in Messages
  PROVE  /\ \A action : ErrorReply(m, action) \in Replies
         /\ SetReply(m) \in Replies
BY ServeDNSAssumption DEF Messages, ErrorReply, SetReply, Replies, Rcodes

\* The first state has the declared types.
LEMMA TInvInit == Init => TInv
<1> SUFFICES ASSUME Init PROVE TInv
  OBVIOUS
<1>1. gap \in BOOLEAN
  BY Zenon DEF Init
<1> QED BY <1>1, ServeDNSAssumption DEF Init, TInv, TypeOK, HandlerHasRequest, MACs

\* Every step of serveDNS and of a handler preserves the declared types.
LEMMA TInvStep == TInv /\ [Next]_vars => TInv'
<1> SUFFICES ASSUME TInv, [Next]_vars PROVE TInv'
  OBVIOUS
<1> USE ServeDNSAssumption DEF TInv, TypeOK, HandlerHasRequest
<1>1. ASSUME NEW m \in Messages, Receive(m)
      PROVE  n' \in 1..MaxMessages /\ req' = m /\ signed' = 0 /\ gap' \in BOOLEAN
  <2>1. gap' \in BOOLEAN
    BY <1>1, Zenon DEF Receive
  <2> QED BY <1>1, <2>1 DEF Receive, Reading
<1>2. ASSUME NEW m \in Messages, HeaderInvalid(m) PROVE TInv'
  BY <1>1, <1>2 DEF HeaderInvalid
<1>3. ASSUME NEW m \in Messages, Ignore(m) PROVE TInv'
  BY <1>1, <1>3 DEF Ignore
<1>4. ASSUME NEW m \in Messages, NEW a, Answers(ErrorReply(m, a))
      PROVE  sent' \in Seq(Replies) /\ Len(sent') <= MaxReplies
  <2>1. ErrorReply(m, a) \in Replies
    BY ReplyType
  <2>2. CASE sent' = <<>>
    BY <2>2
  <2>3. CASE sent' = <<ErrorReply(m, a)>>
    BY <2>1, <2>3
  <2> QED BY <1>4, <2>2, <2>3 DEF Answers
<1>5. ASSUME NEW m \in Messages, Reject(m) PROVE TInv'
  BY <1>1, <1>4, <1>5 DEF Reject
<1>6. ASSUME NEW m \in Messages, UnpackFails(m) PROVE TInv'
  BY <1>1, <1>4, <1>6 DEF UnpackFails
<1>7. ASSUME NEW m \in Messages, Dispatch(m) PROVE TInv'
  <2>1. m.tsig # None => m.tsig \in MACs
    BY DEF Messages, MACs
  <2>2. w' \in [tsigStatus : {"nil", "bad"}, tsigRequestMAC : MACs,
                tsigTimersOnly : BOOLEAN, closed : BOOLEAN, hijacked : BOOLEAN]
    <3>1. CASE HasProvider /\ m.tsig # None
      BY <1>7, <2>1, <3>1 DEF Dispatch
    <3>2. CASE ~ (HasProvider /\ m.tsig # None)
      BY <1>7, <3>2 DEF Dispatch
    <3> QED BY <3>1, <3>2
  <2> QED BY <1>1, <1>7, <2>2 DEF Dispatch
<1>8. ASSUME NEW r \in Replies, Sends(r)
      PROVE  sent' \in Seq(Replies) /\ Len(sent') <= MaxReplies
  BY <1>8 DEF Sends
<1>9. CASE WritePlain
  <2>1. SetReply(req) \in Replies
    BY <1>9, ReplyType DEF WritePlain
  <2> QED BY <1>8, <1>9, <2>1 DEF WritePlain
<1>10. CASE WriteSigned
  <2> DEFINE mac == <<"reply", n, signed + 1>>
             reply == [SetReply(req) EXCEPT !.over = w.tsigRequestMAC, !.mac = mac,
                                            !.timers = w.tsigTimersOnly, !.gap = gap]
  <2>1. mac \in MACs /\ signed' \in 0..MaxReplies
    BY <1>10 DEF WriteSigned, MACs
  <2>2. reply \in Replies
    <3>1. SetReply(req) \in Replies
      BY <1>10, ReplyType DEF WriteSigned
    <3> HIDE DEF mac
    <3> QED BY <2>1, <3>1 DEF Replies
  <2>3. /\ w' = [w EXCEPT !.tsigRequestMAC = mac]
        /\ UNCHANGED sent \/ Sends(reply)
        /\ gap' \in BOOLEAN /\ UNCHANGED <<phase, req, outcome, n>>
    BY <1>10 DEF WriteSigned
  <2> HIDE DEF mac, reply
  <2> QED BY <1>8, <2>1, <2>2, <2>3
<1>11. CASE WriteSignedFails
  <2>1. SetReply(req) \in Replies
    BY <1>11, ReplyType DEF WriteSignedFails
  <2> QED BY <1>8, <1>11, <2>1 DEF WriteSignedFails, MACs
<1>12. CASE TsigTimersOnly
  BY <1>12 DEF TsigTimersOnly
<1>13. CASE Close
  BY <1>13 DEF Close
<1>14. CASE Hijack
  BY <1>14 DEF Hijack
<1>15. CASE HandlerReturns
  BY <1>15 DEF HandlerReturns
<1>16. CASE UNCHANGED vars
  BY <1>16 DEF vars
<1> QED
  BY <1>2, <1>3, <1>5, <1>6, <1>7, <1>9, <1>10, <1>11, <1>12, <1>13, <1>14, <1>15,
     <1>16 DEF Next

\* The response value, the message and its replies have their types: in particular
\* the MAC that the next reply is signed over is one of the connection's own.
THEOREM TypeCorrect == Spec => []TypeOK
<1>1. TInv => TypeOK
  BY DEF TInv
<1> QED BY <1>1, TInvInit, TInvStep, PTL DEF Spec

-----------------------------------------------------------------------------
(* One disposition per message, no answer to an answer, and the TSIG state  *)
(* of the request.                                                         *)

\* A message is in one of three situations.  The first is the only one in which
\* a handler may run, and the handler adds to the outcome only what concerns
\* signatures.
Disposed ==
  /\ phase = "handler" => "handler" \in outcome
  /\ req # None =>
       \/ /\ "handler" \in outcome
          /\ outcome \subseteq {"handler", "timersOnly"}
          /\ ~ req.Response /\ req.body # "short"
       \/ /\ "handler" \notin outcome /\ "rejected" \in outcome /\ Len(sent) <= 1
          /\ ~ req.Response /\ req.body # "short"
       \/ outcome \in {{"ignored"}, {"invalid"}} /\ sent = <<>>

\* Every reply has QR set.
RepliesAreResponses == \A i \in DOMAIN sent : sent[i].Response

IInv == TInv /\ Disposed /\ RepliesAreResponses /\ TsigStatusIsOfRequest

\* Before the first message there is nothing to dispose of.
LEMMA IInvInit == Init => IInv
BY TInvInit DEF Init, IInv, Disposed, RepliesAreResponses, TsigStatusIsOfRequest

\* Every step disposes of its message once, and sends responses only.
LEMMA IInvStep == IInv /\ [Next]_vars => IInv'
<1> SUFFICES ASSUME IInv, [Next]_vars PROVE IInv'
  OBVIOUS
<1> USE ServeDNSAssumption DEF IInv, Disposed, RepliesAreResponses
<1>0. TInv /\ TInv'
  BY TInvStep
<1>1. ASSUME NEW m \in Messages, NEW a, Answers(ErrorReply(m, a))
      PROVE  Len(sent') <= 1 /\ RepliesAreResponses'
  <2>1. ErrorReply(m, a).Response
    BY DEF ErrorReply
  <2>2. CASE sent' = <<>>
    BY <2>2
  <2>3. CASE sent' = <<ErrorReply(m, a)>>
    BY <2>1, <2>3
  <2> QED BY <1>1, <2>2, <2>3 DEF Answers
<1>2. ASSUME NEW m \in Messages, HeaderInvalid(m) PROVE IInv'
  BY <1>0, <1>2 DEF HeaderInvalid, Receive, Reading, TsigStatusIsOfRequest
<1>3. ASSUME NEW m \in Messages, Ignore(m) PROVE IInv'
  BY <1>0, <1>3 DEF Ignore, Receive, Reading, TsigStatusIsOfRequest
<1>4. ASSUME NEW m \in Messages, Reject(m) PROVE IInv'
  <2>1. ~ m.Response
    BY <1>4 DEF Reject, defaultMsgAcceptFunc
  <2>2. Len(sent') <= 1 /\ RepliesAreResponses'
    BY <1>1, <1>4 DEF Reject
  <2> QED BY <1>0, <1>4, <2>1, <2>2 DEF Reject, Receive, Reading, TsigStatusIsOfRequest
<1>5. ASSUME NEW m \in Messages, UnpackFails(m) PROVE IInv'
  <2>1. ~ m.Response
    BY <1>5 DEF UnpackFails, defaultMsgAcceptFunc
  <2>2. Len(sent') <= 1 /\ RepliesAreResponses'
    BY <1>1, <1>5 DEF UnpackFails
  <2> QED BY <1>0, <1>5, <2>1, <2>2
          DEF UnpackFails, Receive, Reading, TsigStatusIsOfRequest
<1>6. ASSUME NEW m \in Messages, Dispatch(m) PROVE IInv'
  <2>1. ~ m.Response
    BY <1>6 DEF Dispatch, defaultMsgAcceptFunc
  <2>2. TsigStatusIsOfRequest'
    BY <1>0, <1>6 DEF Dispatch, Receive, TInv, TypeOK, TsigStatusIsOfRequest
  <2>3. RepliesAreResponses'
    BY <1>6 DEF Dispatch
  <2>4. Disposed'
    BY <1>6, <2>1 DEF Dispatch, Receive
  <2> QED BY <1>0, <2>2, <2>3, <2>4
<1>7. ASSUME NEW r \in Replies, r.Response, Sends(r)
      PROVE  RepliesAreResponses'
  BY <1>0, <1>7 DEF Sends, TInv, TypeOK
<1>16. ASSUME phase = "handler" PROVE SetReply(req) \in Replies /\ SetReply(req).Response
  BY <1>0, <1>16, ReplyType DEF SetReply, TInv, HandlerHasRequest
<1>8. CASE WritePlain
  <2>1. RepliesAreResponses'
    BY <1>7, <1>8, <1>16 DEF WritePlain
  <2> QED BY <1>0, <1>8, <2>1 DEF WritePlain, TsigStatusIsOfRequest
<1>9. CASE WriteSigned
  <2> DEFINE reply == [SetReply(req) EXCEPT !.over = w.tsigRequestMAC,
                                            !.mac = <<"reply", n, signed + 1>>,
                                            !.timers = w.tsigTimersOnly, !.gap = gap]
  <2>1. phase = "handler" /\ (UNCHANGED sent \/ Sends(reply))
    BY <1>9 DEF WriteSigned
  <2>2. RepliesAreResponses'
    <3>1. CASE UNCHANGED sent
      BY <3>1
    <3>2. CASE Sends(reply)
      <4>1. sent \in Seq(Replies) /\ sent' = Append(sent, reply)
        BY <1>0, <3>2 DEF Sends, TInv, TypeOK
      <4>2. reply.Response
        BY <1>16, <2>1 DEF Replies
      <4> HIDE DEF reply
      <4> QED BY <4>1, <4>2
    <3> QED BY <2>1, <3>1, <3>2
  <2>3. TsigStatusIsOfRequest'
    BY <1>0, <1>9 DEF WriteSigned, TInv, TypeOK, TsigStatusIsOfRequest
  <2> QED BY <1>0, <1>9, <2>2, <2>3 DEF WriteSigned
<1>10. CASE WriteSignedFails
  <2>1. RepliesAreResponses'
    BY <1>7, <1>10, <1>16 DEF WriteSignedFails
  <2>2. TsigStatusIsOfRequest'
    BY <1>0, <1>10 DEF WriteSignedFails, TInv, TypeOK, TsigStatusIsOfRequest
  <2> QED BY <1>0, <1>10, <2>1, <2>2 DEF WriteSignedFails
<1>11. CASE TsigTimersOnly
  BY <1>0, <1>11 DEF TsigTimersOnly, TInv, TypeOK, TsigStatusIsOfRequest
<1>12. CASE Close
  BY <1>0, <1>12 DEF Close, TInv, TypeOK, TsigStatusIsOfRequest
<1>13. CASE Hijack
  BY <1>0, <1>13 DEF Hijack, TInv, TypeOK, TsigStatusIsOfRequest
<1>14. CASE HandlerReturns
  BY <1>0, <1>14 DEF HandlerReturns, TsigStatusIsOfRequest
<1>15. CASE UNCHANGED vars
  BY <1>0, <1>15 DEF vars, TsigStatusIsOfRequest
<1> QED
  BY <1>2, <1>3, <1>4, <1>5, <1>6, <1>8, <1>9, <1>10, <1>11, <1>12, <1>13, <1>14,
     <1>15 DEF Next

\* The invariant holds in every state of every connection.
LEMMA Invariance == Spec => []IInv
BY IInvInit, IInvStep, PTL DEF Spec

\* serveDNS hands a message to the handler, answers it with one error, or drops it,
\* whatever its counts, its opcode and the place at which it fails to unpack.
THEOREM OneDisposition == Spec => []HandledOrRejected
<1>1. IInv => HandledOrRejected
  BY DEF IInv, Disposed, HandledOrRejected
<1> QED BY <1>1, Invariance, PTL

\* Nothing that serveDNS or a handler sends would be answered by another server, and
\* serveDNS answers no response.
THEOREM NoLoops == Spec => []NoAnswerLoops
<1>1. IInv => NoAnswerLoops
  <2> SUFFICES ASSUME IInv PROVE NoAnswerLoops
    OBVIOUS
  <2>1. ASSUME NEW i \in DOMAIN sent
        PROVE  defaultMsgAcceptFunc([Response |-> sent[i].Response,
                                     Opcode |-> sent[i].Opcode,
                                     counts |-> [Qd |-> 1, An |-> 0, Ns |-> 0, Ar |-> 0]])
                 = "MsgIgnore"
    BY <2>1 DEF IInv, RepliesAreResponses, defaultMsgAcceptFunc
  <2>2. req # None /\ (req.Response \/ req.body = "short") =>
          sent = <<>> /\ "handler" \notin outcome
    BY DEF IInv, Disposed
  <2> QED BY <2>1, <2>2 DEF NoAnswerLoops
<1> QED BY <1>1, Invariance, PTL

\* The TsigStatus that a handler reads is that of its own request, however many
\* messages the connection has carried before.
THEOREM StatusOfRequest == Spec => []TsigStatusIsOfRequest
<1>1. IInv => TsigStatusIsOfRequest
  BY DEF IInv
<1> QED BY <1>1, Invariance, PTL

-----------------------------------------------------------------------------
(* The chain of signatures.                                                *)

\* Where replies were signed before a place, one of them is the last.
LastSignedExists ==
  \A i \in 1..(Len(sent) + 1) :
    SignedBefore(i) = {} \/ Max(SignedBefore(i)) \in SignedBefore(i)

\* The MACs of the replies that went out are among those computed for this message.
MACsNumbered ==
  \A j \in 1..Len(sent) :
    sent[j].mac = None \/ \E k \in 1..signed : sent[j].mac = <<"reply", n, k>>

\* In the handler of a signed request, w holds the MAC that the next signed reply must
\* be over: after a failure none, or that of a reply that did not go out.  Timers-only
\* is what this handler asked for.
NextLink ==
  (phase = "handler" /\ HasProvider /\ req.tsig # None) =>
    /\ IF gap THEN w.tsigRequestMAC \in {NoMAC} \cup Unsent
              ELSE w.tsigRequestMAC = Prior(Len(sent) + 1)
    /\ w.tsigTimersOnly => "timersOnly" \in outcome

CInv == IInv /\ LastSignedExists /\ MACsNumbered /\ NextLink /\ SignedRepliesChained

\* The greatest element of a set of numbers, where there is one.
LEMMA MaxIs ==
  ASSUME NEW S \in SUBSET Nat, NEW x \in S, \A y \in S : y <= x
  PROVE  Max(S) = x
<1> DEFINE Q(z) == z \in S /\ \A y \in S : z >= y
<1>1. Q(x)
  OBVIOUS
<1>2. \A z : Q(z) => z = x
  OBVIOUS
<1>3. Max(S) = CHOOSE z \in S : \A y \in S : z >= y
  BY DEF Max
<1>4. Max(S) \in S /\ \A y \in S : Max(S) >= y
  BY <1>1, <1>3
<1> QED BY <1>2, <1>4

\* Before the first message nothing is signed.
LEMMA CInvInit == Init => CInv
<1> SUFFICES ASSUME Init PROVE LastSignedExists /\ MACsNumbered /\ NextLink /\ SignedRepliesChained
  BY IInvInit DEF CInv
<1>1. Len(sent) = 0 /\ DOMAIN sent = {} /\ phase = "read"
  BY DEF Init
<1>2. SignedBefore(1) = {}
  BY DEF SignedBefore
<1> QED BY <1>1, <1>2 DEF LastSignedExists, MACsNumbered, NextLink, SignedRepliesChained

\* The absence of a MAC is none of the MACs.
LEMMA NoneIsNoMAC == None \notin MACs
BY ServeDNSAssumption DEF MACs

\* A reply more: the replies before it stand where they stood.
LEMMA OneMore ==
  ASSUME TInv, LastSignedExists, NEW r \in Replies, sent' = Append(sent, r), UNCHANGED req
  PROVE  /\ Len(sent) \in Nat /\ Len(sent') = Len(sent) + 1
         /\ DOMAIN sent = 1..Len(sent) /\ DOMAIN sent' = 1..(Len(sent) + 1)
         /\ sent'[Len(sent) + 1] = r
         /\ \A i \in 1..Len(sent) : sent'[i] = sent[i]
         /\ \A i \in 1..(Len(sent) + 1) : Prior(i)' = Prior(i)
         /\ SignedBefore(Len(sent) + 1)' = IF r.over = None THEN SignedBefore(Len(sent) + 1)
                                          ELSE SignedBefore(Len(sent) + 1) \cup {Len(sent) + 1}
         /\ LastSignedExists'
         /\ r.over # None => Prior(Len(sent) + 1)' = r.mac
<1>1. sent \in Seq(Replies) /\ Len(sent) \in Nat /\ DOMAIN sent = 1..Len(sent)
  BY DEF TInv, TypeOK
<1>2. Len(sent') = Len(sent) + 1 /\ DOMAIN sent' = 1..(Len(sent) + 1)
  BY <1>1
<1>3. sent'[Len(sent) + 1] = r /\ \A i \in 1..Len(sent) : sent'[i] = sent[i]
  BY <1>1
<1>4. ASSUME NEW i \in 1..(Len(sent) + 1) PROVE SignedBefore(i)' = SignedBefore(i)
  BY <1>1, <1>3 DEF SignedBefore
<1>5. ASSUME NEW i \in 1..(Len(sent) + 1) PROVE Prior(i)' = Prior(i)
  <2>1. SignedBefore(i) # {} => Max(SignedBefore(i)) \in 1..Len(sent)
    BY <1>1 DEF LastSignedExists, SignedBefore
  <2> QED BY <1>3, <1>4, <2>1 DEF Prior
<1>6. SignedBefore(Len(sent) + 1)' = IF r.over = None THEN SignedBefore(Len(sent) + 1)
                                    ELSE SignedBefore(Len(sent) + 1) \cup {Len(sent) + 1}
  BY <1>1, <1>2, <1>3 DEF SignedBefore
<1>7. r.over # None => Max(SignedBefore(Len(sent) + 1)') = Len(sent) + 1
  <2> DEFINE S == SignedBefore(Len(sent) + 1)'
  <2>1. S \in SUBSET Nat /\ \A y \in S : y <= Len(sent) + 1
    BY <1>1, <1>2 DEF SignedBefore
  <2>2. r.over # None => Len(sent) + 1 \in S
    BY <1>6
  <2> HIDE DEF S
  <2>3. r.over # None => Max(S) = Len(sent) + 1
    BY <2>1, <2>2, MaxIs
  <2> QED BY <2>3 DEF S
<1>8. LastSignedExists'
  <2> SUFFICES ASSUME NEW i \in 1..(Len(sent) + 2), SignedBefore(i)' # {}
               PROVE  Max(SignedBefore(i)') \in SignedBefore(i)'
    BY <1>1, <1>2 DEF LastSignedExists
  <2>1. CASE i \in 1..(Len(sent) + 1)
    BY <1>4, <2>1 DEF LastSignedExists
  <2>2. CASE i = Len(sent') + 1 /\ r.over = None
    BY <1>1, <1>6, <2>2 DEF LastSignedExists
  <2>3. CASE i = Len(sent') + 1 /\ r.over # None
    BY <1>6, <1>7, <2>3
  <2> QED BY <1>1, <1>2, <2>1, <2>2, <2>3
<1>9. r.over # None => Prior(Len(sent) + 1)' = r.mac
  BY <1>3, <1>6, <1>7 DEF Prior
<1> QED BY <1>1, <1>2, <1>3, <1>5, <1>6, <1>8, <1>9

\* The MAC that the next reply gets is of no reply that went out.
LEMMA MACIsNew ==
  ASSUME CInv
  PROVE  \A j \in 1..Len(sent) : sent[j].mac # <<"reply", n, signed + 1>>
<1> SUFFICES ASSUME NEW j \in 1..Len(sent) PROVE sent[j].mac # <<"reply", n, signed + 1>>
  OBVIOUS
<1>1. n \in Nat /\ signed \in Nat
  BY ServeDNSAssumption DEF CInv, IInv, TInv, TypeOK
<1>2. CASE sent[j].mac = None
  BY <1>1, <1>2, ServeDNSAssumption
<1>3. CASE \E k \in 1..signed : sent[j].mac = <<"reply", n, k>>
  BY <1>1, <1>3
<1> QED BY <1>2, <1>3 DEF CInv, MACsNumbered

\* A reply that is over what it has to be over extends the chain.
LEMMA ChainExtends ==
  ASSUME CInv, NEW r \in Replies, sent' = Append(sent, r), UNCHANGED <<req, outcome>>,
         Unsent \subseteq Unsent',
         (req.tsig # None /\ r.over # None) =>
            /\ IF r.gap THEN r.over \in {NoMAC} \cup Unsent ELSE r.over = Prior(Len(sent) + 1)
            /\ r.timers => "timersOnly" \in outcome
  PROVE  SignedRepliesChained'
<1> SUFFICES ASSUME req # None, req.tsig # None,
                    NEW i \in 1..(Len(sent) + 1), sent'[i].over # None
             PROVE  /\ IF sent'[i].gap THEN sent'[i].over \in {NoMAC} \cup Unsent'
                                       ELSE sent'[i].over = Prior(i)'
                    /\ sent'[i].timers => "timersOnly" \in outcome
  BY OneMore DEF CInv, IInv, SignedRepliesChained
<1>0. /\ Len(sent) \in Nat /\ DOMAIN sent = 1..Len(sent)
      /\ sent'[Len(sent) + 1] = r
      /\ \A k \in 1..Len(sent) : sent'[k] = sent[k]
      /\ Prior(i)' = Prior(i)
  BY OneMore DEF CInv, IInv
<1>1. CASE i = Len(sent) + 1
  BY <1>0, <1>1
<1>2. CASE i \in 1..Len(sent)
  <2>1. sent'[i] = sent[i] /\ i \in DOMAIN sent
    BY <1>0, <1>2
  <2>2. /\ IF sent[i].gap THEN sent[i].over \in {NoMAC} \cup Unsent ELSE sent[i].over = Prior(i)
        /\ sent[i].timers => "timersOnly" \in outcome
    BY <2>1 DEF CInv, SignedRepliesChained
  <2> QED BY <1>0, <2>1, <2>2
<1> QED BY <1>0, <1>1, <1>2

\* A reply without a signature leaves the chain, and what may come next, as they are.
LEMMA PlainReply ==
  ASSUME CInv, phase = "handler", Sends(SetReply(req)), UNCHANGED <<req, outcome, n, signed>>
  PROVE  /\ LastSignedExists' /\ MACsNumbered' /\ SignedRepliesChained'
         /\ Unsent' = Unsent /\ Prior(Len(sent) + 1)' = Prior(Len(sent) + 1)
<1> DEFINE r == SetReply(req)
<1>0. TInv /\ LastSignedExists
  BY DEF CInv, IInv
<1>1. r \in Replies /\ r.over = None /\ r.mac = None /\ sent' = Append(sent, r)
  BY <1>0, ReplyType DEF SetReply, Sends, TInv, HandlerHasRequest
<1> HIDE DEF r
<1>2. /\ Len(sent) \in Nat /\ Len(sent') = Len(sent) + 1
      /\ DOMAIN sent = 1..Len(sent) /\ DOMAIN sent' = 1..(Len(sent) + 1)
      /\ sent'[Len(sent) + 1] = r
      /\ \A i \in 1..Len(sent) : sent'[i] = sent[i]
      /\ SignedBefore(Len(sent) + 1)' = SignedBefore(Len(sent) + 1)
      /\ LastSignedExists'
  BY <1>0, <1>1, OneMore
<1>3. {sent'[j].mac : j \in DOMAIN sent'} = {sent[j].mac : j \in DOMAIN sent} \cup {None}
  <2>1. \A j \in DOMAIN sent' : j \in DOMAIN sent \/ j = Len(sent) + 1
    BY <1>2
  <2>2. DOMAIN sent \subseteq DOMAIN sent' /\ Len(sent) + 1 \in DOMAIN sent'
    BY <1>2
  <2> QED BY <1>1, <1>2, <2>1, <2>2
<1>4. Unsent' = Unsent
  <2>1. None \notin {"reply"} \X {n} \X (1..signed)
    BY <1>0, ServeDNSAssumption DEF TInv, TypeOK
  <2> QED BY <1>3, <2>1 DEF Unsent
<1>5. MACsNumbered'
  <2>1. ASSUME NEW j \in 1..(Len(sent) + 1)
        PROVE  sent'[j].mac = None \/ \E k \in 1..signed : sent'[j].mac = <<"reply", n, k>>
    <3>1. CASE j \in 1..Len(sent)
      BY <1>2, <3>1 DEF CInv, MACsNumbered
    <3>2. CASE j = Len(sent) + 1
      BY <1>1, <1>2, <3>2
    <3> QED BY <1>2, <3>1, <3>2
  <2> QED BY <1>2, <2>1 DEF MACsNumbered
<1>6. SignedRepliesChained'
  BY <1>1, <1>4, ChainExtends
<1>7. Prior(Len(sent) + 1)' = Prior(Len(sent) + 1)
  <2>1. SignedBefore(Len(sent) + 1) # {} => Max(SignedBefore(Len(sent) + 1)) \in 1..Len(sent)
    BY <1>0, <1>2 DEF LastSignedExists, SignedBefore
  <2> QED BY <1>2, <2>1 DEF Prior
<1> QED BY <1>2, <1>4, <1>5, <1>6, <1>7

\* WriteMsg of a reply that is signed, written or not.
LEMMA SignedReply ==
  ASSUME CInv, WriteSigned
  PROVE  LastSignedExists' /\ MACsNumbered' /\ NextLink' /\ SignedRepliesChained'
<1> DEFINE mac == <<"reply", n, signed + 1>>
           r == [SetReply(req) EXCEPT !.over = w.tsigRequestMAC, !.mac = mac,
                                      !.timers = w.tsigTimersOnly, !.gap = gap]
<1>0. /\ TInv /\ LastSignedExists /\ n \in Nat /\ signed \in Nat /\ phase = "handler" /\ HasProvider
      /\ w.tsigRequestMAC \in MACs
  BY ServeDNSAssumption DEF CInv, IInv, TInv, TypeOK, WriteSigned
<1>1. /\ signed' = signed + 1 /\ UNCHANGED <<phase, req, outcome, n>>
      /\ w'.tsigRequestMAC = mac /\ w'.tsigTimersOnly = w.tsigTimersOnly
      /\ mac \in MACs
  <2>1. mac \in MACs
    <3>1. n \in 1..MaxMessages /\ signed + 1 \in 1..MaxReplies
      BY <1>0, ServeDNSAssumption DEF WriteSigned, TInv, TypeOK, HandlerHasRequest
    <3> QED BY <3>1 DEF MACs
  <2>2. signed' = signed + 1 /\ UNCHANGED <<phase, req, outcome, n>>
    BY DEF WriteSigned
  <2>3. w' = [w EXCEPT !.tsigRequestMAC = mac]
    BY DEF WriteSigned
  <2> HIDE DEF mac
  <2>4. w'.tsigRequestMAC = mac /\ w'.tsigTimersOnly = w.tsigTimersOnly
    BY <1>0, <2>3 DEF TInv, TypeOK
  <2> QED BY <2>1, <2>2, <2>4
<1>2. \/ sent' = Append(sent, r) /\ gap' = FALSE
      \/ gap' = TRUE /\ UNCHANGED sent
  BY DEF WriteSigned, Sends
<1>3. /\ r \in Replies
      /\ r.over = w.tsigRequestMAC /\ r.mac = mac /\ r.timers = w.tsigTimersOnly /\ r.gap = gap
  <2>1. SetReply(req) \in Replies
    BY <1>0, ReplyType DEF TInv, HandlerHasRequest
  <2>2. gap \in BOOLEAN /\ w.tsigTimersOnly \in BOOLEAN
    BY <1>0 DEF TInv, TypeOK
  <2> HIDE DEF mac
  <2> QED BY <1>0, <1>1, <2>1, <2>2 DEF Replies
<1>4. \A j \in 1..Len(sent) : sent[j].mac # mac
  BY MACIsNew
<1>5. {"reply"} \X {n} \X (1..signed') = ({"reply"} \X {n} \X (1..signed)) \cup {mac}
  BY <1>0, <1>1
<1>6. mac \notin {"reply"} \X {n} \X (1..signed)
  BY <1>0
<1>7. req.tsig # None =>
        /\ IF gap THEN w.tsigRequestMAC \in {NoMAC} \cup Unsent
                  ELSE w.tsigRequestMAC = Prior(Len(sent) + 1)
        /\ w.tsigTimersOnly => "timersOnly" \in outcome
  BY <1>0 DEF CInv, NextLink
<1>8. \A j \in 1..Len(sent) : sent[j].mac = None \/ \E k \in 1..signed' : sent[j].mac = <<"reply", n, k>>
  BY <1>0, <1>1 DEF CInv, MACsNumbered
<1>9. \E k \in 1..signed' : mac = <<"reply", n, k>>
  BY <1>0, <1>1
<1> HIDE DEF mac, r
<1>10. CASE sent' = Append(sent, r) /\ gap' = FALSE
  <2>1. /\ Len(sent) \in Nat /\ Len(sent') = Len(sent) + 1
        /\ DOMAIN sent = 1..Len(sent) /\ DOMAIN sent' = 1..(Len(sent) + 1)
        /\ sent'[Len(sent) + 1] = r
        /\ \A i \in 1..Len(sent) : sent'[i] = sent[i]
        /\ LastSignedExists' /\ (r.over # None => Prior(Len(sent) + 1)' = r.mac)
    BY <1>0, <1>1, <1>3, <1>10, OneMore
  <2>2. r.over # None
    BY <1>0, <1>3, NoneIsNoMAC
  <2>3. MACsNumbered'
    <3>1. ASSUME NEW j \in 1..(Len(sent) + 1)
          PROVE  sent'[j].mac = None \/ \E k \in 1..signed' : sent'[j].mac = <<"reply", n, k>>
      <4>1. CASE j \in 1..Len(sent)
        BY <1>8, <2>1, <4>1
      <4>2. CASE j = Len(sent) + 1
        BY <1>3, <1>9, <2>1, <4>2
      <4> QED BY <2>1, <4>1, <4>2
    <3> QED BY <1>1, <2>1, <3>1 DEF MACsNumbered
  <2>4. Unsent' = Unsent
    <3>1. {sent'[j].mac : j \in DOMAIN sent'} = {sent[j].mac : j \in DOMAIN sent} \cup {mac}
      <4>1. \A j \in DOMAIN sent' : j \in DOMAIN sent \/ j = Len(sent) + 1
        BY <2>1
      <4>2. DOMAIN sent \subseteq DOMAIN sent' /\ Len(sent) + 1 \in DOMAIN sent'
        BY <2>1
      <4> QED BY <1>3, <2>1, <4>1, <4>2
    <3> QED BY <1>1, <1>5, <1>6, <3>1 DEF Unsent
  <2>5. SignedRepliesChained'
    BY <1>1, <1>3, <1>7, <1>10, <2>4, ChainExtends
  <2>6. NextLink'
    BY <1>1, <1>3, <1>7, <1>10, <2>1, <2>2 DEF NextLink
  <2> QED BY <2>1, <2>3, <2>5, <2>6
<1>11. CASE gap' = TRUE /\ UNCHANGED sent
  <2>1. DOMAIN sent = 1..Len(sent)
    BY <1>0 DEF TInv, TypeOK
  <2>2. Unsent' = Unsent \cup {mac}
    BY <1>1, <1>4, <1>5, <1>11, <2>1 DEF Unsent
  <2>3. LastSignedExists' /\ MACsNumbered'
    BY <1>0, <1>1, <1>8, <1>11 DEF LastSignedExists, MACsNumbered, SignedBefore
  <2>4. NextLink'
    BY <1>1, <1>7, <1>11, <2>2 DEF NextLink
  <2>5. \A i : Prior(i)' = Prior(i)
    BY <1>1, <1>11 DEF Prior, SignedBefore
  <2>6. SignedRepliesChained'
    BY <1>1, <1>11, <2>2, <2>5 DEF CInv, SignedRepliesChained
  <2> QED BY <2>3, <2>4, <2>6
<1> QED BY <1>2, <1>10, <1>11

\* WriteMsg of a reply that could not be signed, or goes out without a signature.
LEMMA UnsignedReply ==
  ASSUME CInv, WriteSignedFails
  PROVE  LastSignedExists' /\ MACsNumbered' /\ NextLink' /\ SignedRepliesChained'
<1>1. /\ UNCHANGED <<phase, req, outcome, n, signed>> /\ phase = "handler" /\ HasProvider
      /\ gap' = TRUE /\ w'.tsigRequestMAC = NoMAC /\ w'.tsigTimersOnly = w.tsigTimersOnly
  BY DEF WriteSignedFails, CInv, IInv, TInv, TypeOK
<1>2. NextLink'
  BY <1>1 DEF CInv, NextLink
<1>3. CASE Sends(SetReply(req))
  BY <1>1, <1>2, <1>3, PlainReply
<1>4. CASE UNCHANGED sent
  <2>1. Unsent' = Unsent /\ \A i : Prior(i)' = Prior(i)
    BY <1>1, <1>4 DEF Unsent, Prior, SignedBefore
  <2>2. LastSignedExists' /\ MACsNumbered'
    BY <1>1, <1>4 DEF CInv, LastSignedExists, MACsNumbered, SignedBefore
  <2>3. SignedRepliesChained'
    BY <1>1, <1>4, <2>1 DEF CInv, SignedRepliesChained
  <2> QED BY <1>2, <2>2, <2>3
<1> QED BY <1>3, <1>4 DEF WriteSignedFails

\* Every step preserves the chain.
LEMMA CInvStep == CInv /\ [Next]_vars => CInv'
<1> DEFINE Goal == LastSignedExists /\ MACsNumbered /\ NextLink /\ SignedRepliesChained
<1> SUFFICES ASSUME CInv, [Next]_vars PROVE Goal'
  BY IInvStep DEF CInv
<1>0. TInv /\ TInv'
  BY TInvStep DEF CInv, IInv
<1>1. ASSUME sent' = <<>>
      PROVE  /\ LastSignedExists' /\ MACsNumbered' /\ SignedRepliesChained'
             /\ \A i : i = Len(sent') + 1 => Prior(i)' = req'.tsig
  <2>1. Len(sent') = 0 /\ DOMAIN sent' = {}
    BY <1>1
  <2>2. SignedBefore(1)' = {}
    BY DEF SignedBefore
  <2>3. Prior(1)' = req'.tsig
    BY <2>2 DEF Prior
  <2> QED BY <2>1, <2>2, <2>3 DEF LastSignedExists, MACsNumbered, SignedRepliesChained
<1>2. ASSUME NEW m \in Messages, NEW a, Answers(ErrorReply(m, a)), phase' = "read"
      PROVE  Goal'
  <2>1. CASE sent' = <<>>
    BY <1>1, <1>2, <2>1 DEF NextLink
  <2>2. CASE sent' = <<ErrorReply(m, a)>>
    <3>1. /\ Len(sent') = 1 /\ DOMAIN sent' = {1}
          /\ sent'[1].over = None /\ sent'[1].mac = None
      BY <2>2 DEF ErrorReply
    <3>2. SignedBefore(1)' = {} /\ SignedBefore(2)' = {}
      BY <3>1 DEF SignedBefore
    <3>3. LastSignedExists'
      BY <3>1, <3>2 DEF LastSignedExists
    <3>4. MACsNumbered' /\ SignedRepliesChained'
      BY <3>1 DEF MACsNumbered, SignedRepliesChained
    <3> QED BY <1>2, <3>3, <3>4 DEF NextLink
  <2> QED BY <1>2, <2>1, <2>2 DEF Answers
<1>3. ASSUME NEW m \in Messages, HeaderInvalid(m) \/ Ignore(m) PROVE Goal'
  BY <1>1, <1>3 DEF HeaderInvalid, Ignore, Receive, Reading, NextLink
<1>4. ASSUME NEW m \in Messages, Reject(m) PROVE Goal'
  BY <1>2, <1>4 DEF Reject, Receive, Reading
<1>5. ASSUME NEW m \in Messages, UnpackFails(m) PROVE Goal'
  BY <1>2, <1>5 DEF UnpackFails, Receive, Reading
<1>6. ASSUME NEW m \in Messages, Dispatch(m) PROVE Goal'
  <2>1. /\ LastSignedExists' /\ MACsNumbered' /\ SignedRepliesChained'
        /\ Prior(Len(sent) + 1)' = req'.tsig
    BY <1>1, <1>6 DEF Dispatch
  <2>2. (HasProvider /\ m.tsig # None) =>
          w'.tsigRequestMAC = m.tsig /\ w'.tsigTimersOnly = FALSE
    BY <1>0, <1>6 DEF Dispatch, TInv, TypeOK
  <2>3. NextLink'
    BY <1>6, <2>1, <2>2 DEF Dispatch, Receive, NextLink
  <2> QED BY <2>1, <2>3
<1>7. CASE WritePlain
  <2>1. /\ Sends(SetReply(req)) /\ phase = "handler"
        /\ UNCHANGED <<phase, req, outcome, n, signed, gap, w>>
    BY <1>7 DEF WritePlain
  <2>2. NextLink'
    BY <2>1, PlainReply DEF CInv, NextLink
  <2> QED BY <2>1, <2>2, PlainReply
<1>8. CASE WriteSigned
  BY <1>8, SignedReply
<1>9. CASE WriteSignedFails
  BY <1>9, UnsignedReply
<1>10. ASSUME UNCHANGED <<req, sent, n, signed, gap>>, outcome \subseteq outcome',
              phase' = "handler" => phase = "handler",
              w'.tsigRequestMAC = w.tsigRequestMAC,
              w'.tsigTimersOnly => w.tsigTimersOnly \/ "timersOnly" \in outcome'
       PROVE  Goal'
  <2>1. Unsent' = Unsent /\ \A i : Prior(i)' = Prior(i)
    BY <1>10 DEF Unsent, Prior, SignedBefore
  <2>2. LastSignedExists' /\ MACsNumbered'
    BY <1>10 DEF CInv, LastSignedExists, MACsNumbered, SignedBefore
  <2>3. SignedRepliesChained'
    BY <1>10, <2>1 DEF CInv, SignedRepliesChained
  <2>4. NextLink'
    BY <1>10, <2>1 DEF CInv, NextLink
  <2> QED BY <2>2, <2>3, <2>4
<1> HIDE DEF Goal
<1>11. CASE TsigTimersOnly
  BY <1>0, <1>10, <1>11 DEF TsigTimersOnly, TInv, TypeOK
<1>12. CASE Close
  BY <1>0, <1>10, <1>12 DEF Close, TInv, TypeOK
<1>13. CASE Hijack
  BY <1>0, <1>10, <1>13 DEF Hijack, TInv, TypeOK
<1>14. CASE HandlerReturns
  BY <1>10, <1>14 DEF HandlerReturns
<1>15. CASE UNCHANGED vars
  BY <1>10, <1>15 DEF vars
<1> QED
  BY <1>3, <1>4, <1>5, <1>6, <1>7, <1>8, <1>9, <1>11, <1>12, <1>13, <1>14, <1>15 DEF Next

\* The signed replies that WriteMsg makes to a signed request form a chain that starts
\* at the request.  Where a reply could not be signed or did not go out, the next link
\* is to nothing or to that reply, and the chain goes on; nowhere does it hold anything
\* of an earlier request.
THEOREM RepliesChained == Spec => []SignedRepliesChained
<1>1. CInv => SignedRepliesChained
  BY DEF CInv
<1> QED BY <1>1, CInvInit, CInvStep, PTL DEF Spec
===============================================================================
