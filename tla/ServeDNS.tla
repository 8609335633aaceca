------------------------------- MODULE ServeDNS -------------------------------
(***************************************************************************)
(* What the server does with the messages it reads (server.go, serveDNS;   *)
(* acceptfunc.go): header, MsgAcceptFunc, unpacking, TSIG, the handler, and *)
(* the response value w through which the handler writes.                  *)
(*                                                                         *)
(* One response value serves all messages of a TCP connection, one after   *)
(* the other; a UDP message has one of its own (MaxMessages = 1).  A       *)
(* message is abstracted to its header fields and to how its body unpacks; *)
(* a MAC to the reply that it is of.  Handlers may write any replies built *)
(* with SetReply or SetRcode, signed or not; signing and writing may fail. *)
(***************************************************************************)
EXTENDS Naturals, Sequences, FiniteSetsExt

CONSTANTS
  Ids,          \* message ids
  Opcodes,      \* opcodes that occur
  OpcodeQuery,
  OpcodeNotify,
  Counts,       \* the section counts that occur in headers
  Keys,         \* requests' TSIG MACs, one per signed request
  HasProvider,  \* is a TsigProvider or TsigSecret configured?
  MaxMessages,  \* bound: messages on one connection
  MaxReplies,   \* bound: replies to a message, those signed and lost included
  NoMAC,        \* the empty MAC
  None

ASSUME ServeDNSAssumption ==
  /\ {OpcodeQuery, OpcodeNotify} \subseteq Opcodes
  /\ Counts \subseteq [Qd : Nat, An : Nat, Ns : Nat, Ar : Nat]
  /\ HasProvider \in BOOLEAN
  /\ MaxMessages \in Nat
  /\ MaxReplies \in Nat \ {0}
  /\ {None, NoMAC} \cap Keys = {}
  /\ None # NoMAC
  /\ None \notin {"reply"} \X Nat \X Nat

VARIABLES
  phase,    \* "read": before serveDNS; "handler": in the handler; "end"
  req,      \* the message being served, None before the first
  outcome,  \* history: what happened to it, replies apart
  sent,     \* the replies written to it
  n,        \* messages served so far
  signed,   \* history: how many replies to the message have been signed
  gap,      \* history: whether, since the last signed reply that went out or else the
            \* request, a reply could not be signed, or was signed and did not go out
  w         \* the fields of the response value

vars == <<phase, req, outcome, sent, n, signed, gap, w>>

-----------------------------------------------------------------------------
(* Messages.                                                               *)

\* A message as read: header fields and what unpacking finds.  The body is
\* absent, unpacks or does not; tsig is the MAC of the TSIG record that ends
\* the additional section, valid whether it verifies.
Messages ==
  {m \in [Id : Ids, Response : BOOLEAN, Opcode : Opcodes,
          counts : Counts,
          body : {"short", "absent", "ok", "bad"},
          tsig : Keys \cup {None}, valid : BOOLEAN] :
     /\ m.tsig # None => m.body = "ok" /\ m.counts.Ar > 0
     /\ m.valid => m.tsig # None}

Rcodes == {"NOERROR", "FORMERR", "NOTIMP"}

\* The MACs that occur: of requests, none, and of the replies to a message.
MACs == Keys \cup {NoMAC} \cup ({"reply"} \X (1..MaxMessages) \X (1..MaxReplies))

\* A reply as sent: mac is its MAC and over the MAC it is signed over, both None
\* when it is not signed; timers whether the signature covers the timers only;
\* gap whether the signed reply before it failed.
Replies == [Id : Ids, Response : BOOLEAN, Opcode : Opcodes, Rcode : Rcodes,
            over : MACs \cup {None}, mac : MACs \cup {None}, timers : BOOLEAN, gap : BOOLEAN]

\* The type invariant.
TypeOK ==
  /\ phase \in {"read", "handler", "end"}
  /\ req \in Messages \cup {None}
  /\ outcome \subseteq {"invalid", "ignored", "rejected", "handler", "timersOnly"}
  /\ sent \in Seq(Replies)
  /\ Len(sent) <= MaxReplies
  /\ n \in 0..MaxMessages
  /\ signed \in 0..MaxReplies
  /\ gap \in BOOLEAN
  /\ w \in [tsigStatus : {"nil", "bad"}, tsigRequestMAC : MACs,
            tsigTimersOnly : BOOLEAN, closed : BOOLEAN, hijacked : BOOLEAN]

Init ==
  /\ phase = "read"
  /\ req = None
  /\ outcome = {}
  /\ sent = <<>>
  /\ n = 0
  /\ signed = 0
  /\ gap = FALSE
  /\ w = [tsigStatus |-> "nil", tsigRequestMAC |-> NoMAC, tsigTimersOnly |-> FALSE,
          closed |-> FALSE, hijacked |-> FALSE]

-----------------------------------------------------------------------------
(* MsgAcceptFunc.                                                          *)

\* Mutant of defaultMsgAcceptFunc: QR is looked at after the opcode.
acceptFuncOpcodeFirst(dh) ==
  IF dh.Opcode \notin {OpcodeQuery, OpcodeNotify} THEN "MsgRejectNotImplemented"
  ELSE IF dh.Response THEN "MsgIgnore"
  ELSE IF dh.counts.Qd # 1 \/ dh.counts.An > 1 \/ dh.counts.Ns > 1 \/ dh.counts.Ar > 2
    THEN "MsgReject"
  ELSE "MsgAccept"

defaultMsgAcceptFunc(dh) ==
  IF dh.Response THEN "MsgIgnore"
  ELSE IF dh.Opcode \notin {OpcodeQuery, OpcodeNotify} THEN "MsgRejectNotImplemented"
  ELSE IF dh.counts.Qd # 1 \/ dh.counts.An > 1 \/ dh.counts.Ns > 1 \/ dh.counts.Ar > 2
    THEN "MsgReject"
  ELSE "MsgAccept"

-----------------------------------------------------------------------------
(* Replies.                                                                *)

\* m.SetReply(request): the id and opcode of the request and QR set.  The rcode
\* that SetRcode gives a handler's reply is left out.
SetReply(m) ==
  [Id |-> m.Id, Response |-> TRUE, Opcode |-> m.Opcode,
   Rcode |-> "NOERROR", over |-> None, mac |-> None, timers |-> FALSE, gap |-> FALSE]

\* req.SetRcodeFormatError(req) on the request's own header; the opcode is
\* restored when it was the reason; the sections are emptied, so that the
\* reply is never signed.
ErrorReply(m, action) ==
  [Id |-> m.Id, Response |-> TRUE,
   Opcode |-> IF action = "MsgRejectNotImplemented" THEN m.Opcode ELSE OpcodeQuery,
   Rcode |-> IF action = "MsgRejectNotImplemented" THEN "NOTIMP" ELSE "FORMERR",
   over |-> None, mac |-> None, timers |-> FALSE, gap |-> FALSE]

-----------------------------------------------------------------------------
(* serveDNS.                                                               *)

\* The connection may have another message.
Reading == phase = "read" /\ n < MaxMessages

\* The next message of the connection.
Receive(m) ==
  /\ Reading
  /\ n' = n + 1
  /\ req' = m
  /\ signed' = 0
  /\ gap' = FALSE

\* The error reply of the server; that the write fails is not looked at.
Answers(reply) == sent' \in {<<>>, <<reply>>}

\* The header cannot be unpacked: no reply.
HeaderInvalid(m) ==
  /\ Receive(m)
  /\ m.body = "short"
  /\ outcome' = {"invalid"}
  /\ sent' = <<>>
  /\ UNCHANGED <<phase, w>>

Ignore(m) ==
  /\ Receive(m)
  /\ m.body # "short"
  /\ defaultMsgAcceptFunc(m) = "MsgIgnore"
  /\ outcome' = {"ignored"}
  /\ sent' = <<>>
  /\ UNCHANGED <<phase, w>>

Reject(m) ==
  /\ Receive(m)
  /\ m.body # "short"
  /\ defaultMsgAcceptFunc(m) \in {"MsgReject", "MsgRejectNotImplemented"}
  /\ outcome' = {"rejected"}
  /\ Answers(ErrorReply(m, defaultMsgAcceptFunc(m)))
  /\ UNCHANGED <<phase, w>>

\* Mutant of UnpackFails: falls through to the handler as well.
UnpackFailsGoesOn(m) ==
  /\ Receive(m)
  /\ m.body = "bad"
  /\ defaultMsgAcceptFunc(m) = "MsgAccept"
  /\ outcome' = {"invalid", "rejected", "handler"}
  /\ Answers(ErrorReply(m, "MsgAccept"))
  /\ phase' = "handler"
  /\ UNCHANGED w

\* Accepted, but the body does not unpack: MsgInvalidFunc, and the fall
\* through to the format error.
UnpackFails(m) ==
  /\ Receive(m)
  /\ m.body = "bad"
  /\ defaultMsgAcceptFunc(m) = "MsgAccept"
  /\ outcome' = {"invalid", "rejected"}
  /\ Answers(ErrorReply(m, "MsgAccept"))
  /\ UNCHANGED <<phase, w>>

\* Mutant of Dispatch: the status of the message before it stays.
DispatchKeepsStatus(m) ==
  /\ Receive(m)
  /\ m.body \in {"absent", "ok"}
  /\ defaultMsgAcceptFunc(m) = "MsgAccept"
  /\ w' = IF HasProvider /\ m.tsig # None
            THEN [w EXCEPT !.tsigStatus = IF m.valid THEN "nil" ELSE "bad",
                           !.tsigTimersOnly = FALSE,
                           !.tsigRequestMAC = m.tsig]
            ELSE w
  /\ outcome' = {"handler"}
  /\ sent' = <<>>
  /\ phase' = "handler"

\* Mutant of Dispatch: timers-only is not reset.
DispatchKeepsTimers(m) ==
  /\ Receive(m)
  /\ m.body \in {"absent", "ok"}
  /\ defaultMsgAcceptFunc(m) = "MsgAccept"
  /\ w' = IF HasProvider /\ m.tsig # None
            THEN [w EXCEPT !.tsigStatus = IF m.valid THEN "nil" ELSE "bad",
                           !.tsigRequestMAC = m.tsig]
            ELSE [w EXCEPT !.tsigStatus = "nil"]
  /\ outcome' = {"handler"}
  /\ sent' = <<>>
  /\ phase' = "handler"

\* Accepted and unpacked: the TSIG of the message is verified with an empty
\* request MAC, its own MAC is kept for the reply, and the handler is called.
Dispatch(m) ==
  /\ Receive(m)
  /\ m.body \in {"absent", "ok"}
  /\ defaultMsgAcceptFunc(m) = "MsgAccept"
  /\ w' = IF HasProvider /\ m.tsig # None
            THEN [w EXCEPT !.tsigStatus = IF m.valid THEN "nil" ELSE "bad",
                           !.tsigTimersOnly = FALSE,
                           !.tsigRequestMAC = m.tsig]
            ELSE [w EXCEPT !.tsigStatus = "nil"]
  /\ outcome' = {"handler"}
  /\ sent' = <<>>
  /\ phase' = "handler"

-----------------------------------------------------------------------------
(* The handler, with the methods of response.                              *)

\* The writer takes a reply, if the handler may still write.
Sends(reply) ==
  /\ Len(sent) < MaxReplies
  /\ sent' = Append(sent, reply)

\* WriteMsg without a TSIG record, or without a provider.  ServeMux writes
\* REFUSED this way when it finds no handler.  When the write fails (an oversized
\* datagram, "message too large", a broken connection) nothing has changed.
WritePlain ==
  /\ phase = "handler"
  /\ ~ w.closed
  /\ Sends(SetReply(req))
  /\ UNCHANGED <<phase, req, outcome, n, signed, gap, w>>

\* WriteMsg of a reply with SetTsig: it is signed over w.tsigRequestMAC, which
\* becomes the MAC of the reply before the reply is written; the write may fail.
WriteSigned ==
  /\ phase = "handler"
  /\ HasProvider
  /\ ~ w.closed
  /\ signed < MaxReplies
  /\ signed' = signed + 1
  /\ LET mac == <<"reply", n, signed + 1>> IN
     /\ w' = [w EXCEPT !.tsigRequestMAC = mac]
     /\ \/ /\ Sends([SetReply(req) EXCEPT !.over = w.tsigRequestMAC, !.mac = mac,
                                           !.timers = w.tsigTimersOnly, !.gap = gap])
           /\ gap' = FALSE
        \/ /\ gap' = TRUE
           /\ UNCHANGED sent
  /\ UNCHANGED <<phase, req, outcome, n>>

\* WriteMsg of a reply with SetTsig that is not signed: it does not pack or has no
\* key, or it reports BADKEY or BADSIG and goes out unsigned.  TsigGenerate returns
\* an empty MAC, and w.tsigRequestMAC takes it.
WriteSignedFails ==
  /\ phase = "handler"
  /\ HasProvider
  /\ ~ w.closed
  /\ UNCHANGED sent \/ Sends(SetReply(req))
  /\ w' = [w EXCEPT !.tsigRequestMAC = NoMAC]
  /\ gap' = TRUE
  /\ UNCHANGED <<phase, req, outcome, n, signed>>

TsigTimersOnly ==
  /\ phase = "handler"
  /\ \E b \in BOOLEAN : w' = [w EXCEPT !.tsigTimersOnly = b]
  /\ outcome' = outcome \cup {"timersOnly"}
  /\ UNCHANGED <<phase, req, sent, n, signed, gap>>

Close ==
  /\ phase = "handler"
  /\ w' = [w EXCEPT !.closed = TRUE]
  /\ UNCHANGED <<phase, req, outcome, sent, n, signed, gap>>

Hijack ==
  /\ phase = "handler"
  /\ w' = [w EXCEPT !.hijacked = TRUE]
  /\ UNCHANGED <<phase, req, outcome, sent, n, signed, gap>>

\* The handler returns; serveTCPConn reads on unless w is closed or hijacked.
HandlerReturns ==
  /\ phase = "handler"
  /\ phase' = IF w.closed \/ w.hijacked THEN "end" ELSE "read"
  /\ UNCHANGED <<req, outcome, sent, n, signed, gap, w>>

Next ==
  \/ \E m \in (IF Reading THEN Messages ELSE {}) :
       \/ HeaderInvalid(m) \/ Ignore(m) \/ Reject(m) \/ UnpackFails(m)
       \/ Dispatch(m)
  \/ WritePlain \/ WriteSigned \/ WriteSignedFails \/ TsigTimersOnly
  \/ Close \/ Hijack \/ HandlerReturns

Spec == Init /\ [][Next]_vars

-----------------------------------------------------------------------------
(* Properties.                                                             *)

\* Two servers never answer each other.  Whatever this server sends, in the error
\* path or from a handler, is ignored by MsgAcceptFunc; and a message that is itself
\* a response, or that has no header, is never answered and reaches no handler.
NoAnswerLoops ==
  /\ \A i \in DOMAIN sent :
       defaultMsgAcceptFunc([Response |-> sent[i].Response, Opcode |-> sent[i].Opcode,
                             counts |-> [Qd |-> 1, An |-> 0, Ns |-> 0, Ar |-> 0]]) = "MsgIgnore"
  /\ req # None /\ (req.Response \/ req.body = "short") =>
       sent = <<>> /\ "handler" \notin outcome

\* A message goes to the handler or the server writes one error to it, never
\* both, or it is dropped: ignored, or without a header.
HandledOrRejected ==
  req # None =>
    \/ "handler" \in outcome /\ outcome \cap {"rejected", "ignored", "invalid"} = {}
    \/ "handler" \notin outcome /\ "rejected" \in outcome /\ Len(sent) <= 1
    \/ outcome \in {{"ignored"}, {"invalid"}} /\ sent = <<>>

\* The handler sees the verdict on its own request, not on one served
\* earlier over the same response value; an unsigned request has none.
TsigStatusIsOfRequest ==
  phase = "handler" =>
    w.tsigStatus = IF HasProvider /\ req.tsig # None /\ ~ req.valid THEN "bad"
                                                                    ELSE "nil"

\* The places of the signed replies before place i.
SignedBefore(i) == {j \in 1..(i - 1) : sent[j].over # None}

\* What a signed reply at place i has to be over when nothing failed before it: the
\* last signed reply that went out, or the request.
Prior(i) == IF SignedBefore(i) = {} THEN req.tsig ELSE sent[Max(SignedBefore(i))].mac

\* The MACs of the replies to this message that were signed and did not go out.
Unsent == ({"reply"} \X {n} \X (1..signed)) \ {sent[j].mac : j \in DOMAIN sent}

\* The signed replies to a signed request form a chain that starts with it: the first
\* is over the request's MAC, each later one over the signed reply before it, and
\* only the timers are covered only if this handler asked for it.  A failure costs
\* one link, the next: that reply is over nothing or over a reply that did not go
\* out, and the chain goes on from it.  Neither in the links nor in the gaps does
\* anything of an earlier request on the connection get in.
SignedRepliesChained ==
  req # None /\ req.tsig # None =>
    \A i \in DOMAIN sent : sent[i].over # None =>
      /\ IF sent[i].gap THEN sent[i].over \in {NoMAC} \cup Unsent
                        ELSE sent[i].over = Prior(i)
      /\ sent[i].timers => "timersOnly" \in outcome
===============================================================================
