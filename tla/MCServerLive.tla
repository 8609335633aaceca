---------------------------- MODULE MCServerLive ----------------------------
(***************************************************************************)
(* An instance for the liveness of both kinds of server.  A Server value   *)
(* serves streams or packets, as its field Net says (the switch in         *)
(* ListenAndServe): TCPServer and UDPServer are the two cases, over the    *)
(* fields, runs and stoppers they have in common.  No symmetry, which is   *)
(* not sound for liveness.                                                 *)
(***************************************************************************)
EXTENDS Integers

CONSTANTS
  Runs, Conns, Packets, Buffers, Stoppers, CtxStoppers,
  MaxTCPQueries, maxTCPQueries, Overlap, BadReader, GivenLn, GivenConn, None

VARIABLES
  Net,                                                  \* srv.Net
  started, shutdown, closedCh, panicked, deadline,      \* of every Server
  pc, wg, owner, spc, stopped, waitCh, result,
  listener, lnOpen, conns, ln, accepted, wpc, q,        \* with a listener
  closedBy, hijacked,
  PacketConn, open, pool, l, rbuf, ppc, pbuf, fate      \* with a packet connection

tcpVars == <<listener, lnOpen, conns, ln, accepted, wpc, q, closedBy, hijacked>>
udpVars == <<PacketConn, open, pool, l, rbuf, ppc, pbuf, fate>>

TCP == INSTANCE TCPServer
UDP == INSTANCE UDPServer

vars == <<Net, TCP!vars, UDP!vars>>

\* MaxTCPQueries = -1: as many queries as the client sends.
NoQueryLimit == -1

Init ==
  \/ /\ Net = "tcp" /\ TCP!Init
     /\ PacketConn = None /\ open = None /\ pool = None /\ l = None
     /\ rbuf = None /\ ppc = None /\ pbuf = None
     /\ fate = [p \in Packets |-> "none"]
  \/ /\ Net = "udp" /\ UDP!Init
     /\ listener = None /\ lnOpen = None /\ conns = None /\ ln = None
     /\ accepted = None /\ wpc = None /\ q = None /\ closedBy = None /\ hijacked = None

\* A step of the server in either case.
Either(tcp, udp) ==
  \/ Net = "tcp" /\ tcp /\ UNCHANGED <<Net, udpVars>>
  \/ Net = "udp" /\ udp /\ UNCHANGED <<Net, tcpVars>>

Next == Either(TCP!Next, UDP!Next)

Spec == Init /\ [][Next]_vars

\* The fairness of TCPServer and of UDPServer.
FairSpec ==
  /\ Spec
  /\ \A r \in Runs : WF_vars(Either(TCP!RunProgress(r), UDP!RunProgress(r)))
  /\ \A c \in Conns : WF_vars(Either(TCP!ConnProgress(c), FALSE))
  /\ \A p \in Packets : WF_vars(Either(FALSE, UDP!PacketStep(p)))
  /\ \A s \in Stoppers : WF_vars(Either(TCP!StopProgress(s), UDP!StopProgress(s)))

\* Every Shutdown of a server with a listener returns, and so does the call that
\* it stopped (ShutdownContext, serveTCP).
TCPShutdownReturns == Net = "tcp" => TCP!EveryShutdownReturns

\* Every Shutdown of a server with a packet connection returns, and so does the
\* call that it stopped (ShutdownContext, serveUDP).
UDPShutdownReturns == Net = "udp" => UDP!EveryShutdownReturns

\* Every message that a server reads from a packet connection is handled, rejected,
\* ignored or given to MsgInvalidFunc (the doc of MsgInvalidFunc).
EveryMessageDisposed == Net = "udp" => UDP!EveryMessageDisposed
=============================================================================
