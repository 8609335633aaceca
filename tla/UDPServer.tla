------------------------------ MODULE UDPServer ------------------------------
(***************************************************************************)
(* The life cycle of a Server that serves a packet connection (server.go): *)
(* ListenAndServe and ActivateAndServe with the read loop of serveUDP, one *)
(* serveUDPPacket goroutine per message, the pool of message buffers they  *)
(* share, and ShutdownContext.                                             *)
(*                                                                         *)
(* Runs, stoppers, srv.lock and the shutdown channel are as in TCPServer.  *)
(* A packet p also names the goroutine that serves it.  A buffer b is one  *)
(* []byte of udpPool; its name is free again once it is neither in the     *)
(* pool nor in use (it is garbage, and New may stand for it).              *)
(***************************************************************************)
EXTENDS Integers, FiniteSets

CONSTANTS
  Runs,        \* calls of ListenAndServe / ActivateAndServe
  Packets,     \* messages clients send
  Buffers,     \* message buffers
  Stoppers,    \* calls of Shutdown / ShutdownContext
  CtxStoppers, \* the stoppers whose context may be done before the drain
  Overlap,     \* may a call start while an earlier run is still draining?
  BadReader,   \* may DecorateReader return no PacketConnReader?
  GivenConn,   \* the connection a caller put in Server.PacketConn
  None

ASSUME UDPServerAssumption ==
  /\ CtxStoppers \subseteq Stoppers
  /\ Overlap \in BOOLEAN
  /\ BadReader \in BOOLEAN
  /\ GivenConn \notin Runs
  /\ None \notin Runs \cup Buffers \cup {GivenConn}

VARIABLES
  started,    \* srv.started
  shutdown,   \* srv.shutdown: the run that made the channel
  closedCh,   \* the shutdown channels that have been closed
  PacketConn, \* srv.PacketConn
  open,       \* the packet connections that are open
  deadline,   \* the read deadline of each packet connection
  panicked,   \* a goroutine closed a closed channel
  pool,       \* how often each buffer is in srv.udpPool
  pc,         \* where each run is in serveUDP
  l,          \* the packet connection a run serves
  rbuf,       \* the buffer m a run reads into
  wg,         \* each run's WaitGroup, as the goroutines it still waits for
  ppc,        \* where each packet's goroutine is in serveUDPPacket
  owner,      \* the run that read a packet
  pbuf,       \* the buffer a packet's goroutine still needs
  fate,       \* what became of a packet
  spc,        \* where each stopper is in ShutdownContext
  stopped,    \* the run a stopper told to stop
  waitCh,     \* the channel a stopper's select waits on
  result      \* what a stopper's select ended with

srvVars  == <<started, shutdown, closedCh, PacketConn, open, deadline, panicked>>
runVars  == <<pc, l, rbuf, wg>>
pktVars  == <<ppc, owner, pbuf, fate>>
stopVars == <<spc, stopped, waitCh, result>>
vars     == <<srvVars, pool, runVars, pktVars, stopVars>>

-----------------------------------------------------------------------------
PacketConns == Runs \cup {GivenConn}

PC == {"idle", "activate", "enter", "check", "arm", "reading", "msgInvalid",
       "errTemp", "errPerm", "drain", "closeConn", "returned"}

PPC == {"none", "short", "serve", "reply", "handler", "wgDone", "done"}

SPC == {"idle", "select", "wait", "close", "returned"}

\* A run between its init() and its return.
Active(r) == pc[r] \notin {"idle", "returned"}

\* The goroutines that wg counts.
Live(p) == ppc[p] \in {"serve", "reply", "handler", "wgDone"}

TypeOK ==
  /\ started \in BOOLEAN
  /\ shutdown \in Runs \cup {None}
  /\ closedCh \subseteq Runs
  /\ PacketConn \in PacketConns \cup {None}
  /\ open \subseteq PacketConns
  /\ deadline \in [PacketConns -> {"none", "future", "past"}]
  /\ panicked \in BOOLEAN
  /\ pool \in [Buffers -> Nat]
  /\ pc \in [Runs -> PC]
  /\ l \in [Runs -> PacketConns \cup {None}]
  /\ rbuf \in [Runs -> Buffers \cup {None}]
  /\ wg \in [Runs -> SUBSET Packets]
  /\ ppc \in [Packets -> PPC]
  /\ owner \in [Packets -> Runs \cup {None}]
  /\ pbuf \in [Packets -> Buffers \cup {None}]
  /\ fate \in [Packets -> {"none", "handler", "rejected", "ignored", "invalid"}]
  /\ spc \in [Stoppers -> SPC]
  /\ stopped \in [Stoppers -> Runs \cup {None}]
  /\ waitCh \in [Stoppers -> Runs \cup {None}]
  /\ result \in [Stoppers -> {"none", "ok", "ctxErr", "notStarted"}]

Init ==
  /\ started = FALSE
  /\ shutdown = None
  /\ closedCh = {}
  /\ PacketConn \in {GivenConn, None}
  /\ open = {GivenConn}
  /\ deadline = [u \in PacketConns |-> "none"]
  /\ panicked = FALSE
  /\ pool = [b \in Buffers |-> 0]
  /\ pc = [r \in Runs |-> "idle"]
  /\ l = [r \in Runs |-> None]
  /\ rbuf = [r \in Runs |-> None]
  /\ wg = [r \in Runs |-> {}]
  /\ ppc = [p \in Packets |-> "none"]
  /\ owner = [p \in Packets |-> None]
  /\ pbuf = [p \in Packets |-> None]
  /\ fate = [p \in Packets |-> "none"]
  /\ spc = [s \in Stoppers |-> "idle"]
  /\ stopped = [s \in Stoppers |-> None]
  /\ waitCh = [s \in Stoppers |-> None]
  /\ result = [s \in Stoppers |-> "none"]

-----------------------------------------------------------------------------
(* sync.Pool.                                                              *)

\* Who may still look at a buffer: a run from Get until it has passed the
\* message on or reported it, a packet until its goroutine calls Put.
InUse(b) ==
  \/ \E r \in Runs : rbuf[r] = b
  \/ \E p \in Packets : pbuf[p] = b

\* Get hands out a pooled buffer, or New makes one.
Get(b) ==
  \/ pool[b] > 0 /\ pool' = [pool EXCEPT ![b] = @ - 1]
  \/ pool[b] = 0 /\ ~ InUse(b) /\ UNCHANGED pool

Put(b) == pool' = [pool EXCEPT ![b] = @ + 1]

\* The garbage collector empties the pool when it likes.
PoolDrop(b) ==
  /\ pool[b] > 0
  /\ pool' = [pool EXCEPT ![b] = 0]
  /\ UNCHANGED <<srvVars, runVars, pktVars, stopVars>>

-----------------------------------------------------------------------------
(* ListenAndServe and ActivateAndServe.                                    *)

\* The caller's discipline, as in TCPServer.
MayCall(r) ==
  /\ pc[r] = "idle"
  /\ \/ Overlap
     \/ /\ \A r2 \in Runs : ~ Active(r2)
        /\ \A s \in Stoppers : spc[s] \in {"idle", "returned"}

AlreadyStarted(r) ==
  /\ pc[r] = "idle"
  /\ started
  /\ pc' = [pc EXCEPT ![r] = "returned"]
  /\ UNCHANGED <<srvVars, pool, l, rbuf, wg, pktVars, stopVars>>

\* init() is done, then the socket cannot be opened or set up, or
\* ActivateAndServe has no connection.
StartFails(r) ==
  /\ MayCall(r)
  /\ ~ started
  /\ shutdown' = r
  /\ pc' = [pc EXCEPT ![r] = "returned"]
  /\ UNCHANGED <<started, closedCh, PacketConn, open, deadline, panicked, pool,
                 l, rbuf, wg, pktVars, stopVars>>

ListenAndServe(r) ==
  /\ MayCall(r)
  /\ ~ started
  /\ shutdown' = r
  /\ PacketConn' = r
  /\ open' = open \cup {r}
  /\ l' = [l EXCEPT ![r] = r]
  /\ started' = TRUE
  /\ pc' = [pc EXCEPT ![r] = "check"]
  /\ UNCHANGED <<closedCh, deadline, panicked, pool, rbuf, wg, pktVars, stopVars>>

ActivateAndServe(r) ==
  /\ MayCall(r)
  /\ ~ started
  /\ PacketConn # None
  /\ shutdown' = r
  /\ started' = TRUE
  /\ pc' = [pc EXCEPT ![r] = "activate"]
  /\ UNCHANGED <<closedCh, PacketConn, open, deadline, panicked, pool, l, rbuf,
                 wg, pktVars, stopVars>>

\* The argument of serveUDP is read after srv.lock is released.
ReadPacketConnField(r) ==
  /\ pc[r] = "activate"
  /\ l' = [l EXCEPT ![r] = PacketConn]
  /\ pc' = [pc EXCEPT ![r] = "enter"]
  /\ UNCHANGED <<srvVars, pool, rbuf, wg, pktVars, stopVars>>

-----------------------------------------------------------------------------
(* serveUDP: the read loop of run r.                                       *)

\* The reader can read the connection: the deferred function is set up.
EnterLoop(r) ==
  /\ pc[r] = "enter"
  /\ pc' = [pc EXCEPT ![r] = "check"]
  /\ UNCHANGED <<srvVars, pool, l, rbuf, wg, pktVars, stopVars>>

\* The connection is no UDPConn and the decorated reader cannot read it: the
\* call fails before the deferred close of the channel exists.
ReaderUnusable(r) ==
  /\ pc[r] = "enter"
  /\ BadReader
  /\ pc' = [pc EXCEPT ![r] = "closeConn"]
  /\ UNCHANGED <<srvVars, pool, l, rbuf, wg, pktVars, stopVars>>

\* for srv.isStarted()
CheckStarted(r) ==
  /\ pc[r] = "check"
  /\ pc' = [pc EXCEPT ![r] = IF started THEN "arm" ELSE "drain"]
  /\ UNCHANGED <<srvVars, pool, l, rbuf, wg, pktVars, stopVars>>

\* Mutant of ArmDeadline: the deadline is set whether or not the server runs.
ArmDeadlineAlways(r, b) ==
  /\ pc[r] = "arm"
  /\ deadline' = [deadline EXCEPT ![l[r]] = "future"]
  /\ Get(b)
  /\ rbuf' = [rbuf EXCEPT ![r] = b]
  /\ pc' = [pc EXCEPT ![r] = "reading"]
  /\ UNCHANGED <<started, shutdown, closedCh, PacketConn, open, panicked, l, wg,
                 pktVars, stopVars>>

\* readUDP and readPacketConn: the deadline, unless the server has been
\* stopped, then a buffer.
ArmDeadline(r, b) ==
  /\ pc[r] = "arm"
  /\ deadline' = [deadline EXCEPT ![l[r]] = IF started THEN "future" ELSE @]
  /\ Get(b)
  /\ rbuf' = [rbuf EXCEPT ![r] = b]
  /\ pc' = [pc EXCEPT ![r] = "reading"]
  /\ UNCHANGED <<started, shutdown, closedCh, PacketConn, open, panicked, l, wg,
                 pktVars, stopVars>>

\* The read fails and gives its buffer back.  A timeout is a temporary error.
ReadFails(r, kind) ==
  /\ pc[r] = "reading"
  /\ Put(rbuf[r])
  /\ rbuf' = [rbuf EXCEPT ![r] = None]
  /\ pc' = [pc EXCEPT ![r] = kind]
  /\ UNCHANGED <<srvVars, l, wg, pktVars, stopVars>>

ReadTimeout(r) ==
  /\ l[r] \in open
  /\ deadline[l[r]] # "none"
  /\ ReadFails(r, "errTemp")

ReadError(r) ==
  /\ l[r] \in open
  /\ \E kind \in {"errTemp", "errPerm"} : ReadFails(r, kind)

ReadClosed(r) ==
  /\ l[r] \notin open
  /\ ReadFails(r, "errPerm")

\* After an error: return nil if stopped, go on after a temporary error,
\* return the error otherwise.
HandleReadError(r) ==
  /\ pc[r] \in {"errTemp", "errPerm"}
  /\ pc' = [pc EXCEPT ![r] =
              IF started /\ pc[r] = "errTemp" THEN "check" ELSE "drain"]
  /\ UNCHANGED <<srvVars, pool, l, rbuf, wg, pktVars, stopVars>>

CanReceive(r, p) ==
  /\ pc[r] = "reading"
  /\ l[r] \in open
  /\ deadline[l[r]] # "past"
  /\ owner[p] = None

\* A message shorter than a header: its buffer goes back to the pool, and
\* then m is given to MsgInvalidFunc.
ReadShort(r, p) ==
  /\ CanReceive(r, p)
  /\ owner' = [owner EXCEPT ![p] = r]
  /\ ppc' = [ppc EXCEPT ![p] = "short"]
  /\ Put(rbuf[r])
  /\ pc' = [pc EXCEPT ![r] = "msgInvalid"]
  /\ UNCHANGED <<srvVars, l, rbuf, wg, pbuf, fate, stopVars>>

\* Mutant of MsgInvalidFunc: the hook is not called.
MsgInvalidFuncSkipped(r) ==
  /\ pc[r] = "msgInvalid"
  /\ rbuf' = [rbuf EXCEPT ![r] = None]
  /\ pc' = [pc EXCEPT ![r] = "check"]
  /\ UNCHANGED <<srvVars, pool, l, wg, pktVars, stopVars>>

MsgInvalidFunc(r) ==
  /\ pc[r] = "msgInvalid"
  /\ fate' = [p \in Packets |->
                IF owner[p] = r /\ ppc[p] = "short" THEN "invalid" ELSE fate[p]]
  /\ ppc' = [p \in Packets |->
               IF owner[p] = r /\ ppc[p] = "short" THEN "done" ELSE ppc[p]]
  /\ rbuf' = [rbuf EXCEPT ![r] = None]
  /\ pc' = [pc EXCEPT ![r] = "check"]
  /\ UNCHANGED <<srvVars, pool, l, wg, owner, pbuf, stopVars>>

\* Mutant of ReadPacket: no wg.Add(1).
ReadPacketUncounted(r, p) ==
  /\ CanReceive(r, p)
  /\ owner' = [owner EXCEPT ![p] = r]
  /\ pbuf' = [pbuf EXCEPT ![p] = rbuf[r]]
  /\ rbuf' = [rbuf EXCEPT ![r] = None]
  /\ ppc' = [ppc EXCEPT ![p] = "serve"]
  /\ pc' = [pc EXCEPT ![r] = "check"]
  /\ UNCHANGED <<srvVars, pool, l, wg, fate, stopVars>>

\* wg.Add(1); go srv.serveUDPPacket(...), which now owns the buffer.
ReadPacket(r, p) ==
  /\ CanReceive(r, p)
  /\ owner' = [owner EXCEPT ![p] = r]
  /\ pbuf' = [pbuf EXCEPT ![p] = rbuf[r]]
  /\ rbuf' = [rbuf EXCEPT ![r] = None]
  /\ wg' = [wg EXCEPT ![r] = @ \cup {p}]
  /\ ppc' = [ppc EXCEPT ![p] = "serve"]
  /\ pc' = [pc EXCEPT ![r] = "check"]
  /\ UNCHANGED <<srvVars, pool, l, fate, stopVars>>

\* Mutant of Drained: the deferred function closes nothing.
DrainedNoClose(r) ==
  /\ pc[r] = "drain"
  /\ wg[r] = {}
  /\ pc' = [pc EXCEPT ![r] = "closeConn"]
  /\ UNCHANGED <<srvVars, pool, l, rbuf, wg, pktVars, stopVars>>

\* The deferred wg.Wait(); close(srv.shutdown).
Drained(r) ==
  /\ pc[r] = "drain"
  /\ wg[r] = {}
  /\ closedCh' = closedCh \cup {shutdown}
  /\ panicked' = (panicked \/ shutdown \in closedCh)
  /\ pc' = [pc EXCEPT ![r] = "closeConn"]
  /\ UNCHANGED <<started, shutdown, PacketConn, open, deadline, pool, l, rbuf, wg,
                 pktVars, stopVars>>

\* The deferred l.Close(), and the return of the call.
ReturnFromServe(r) ==
  /\ pc[r] = "closeConn"
  /\ open' = open \ {l[r]}
  /\ pc' = [pc EXCEPT ![r] = "returned"]
  /\ UNCHANGED <<started, shutdown, closedCh, PacketConn, deadline, panicked, pool,
                 l, rbuf, wg, pktVars, stopVars>>

-----------------------------------------------------------------------------
(* serveUDPPacket and serveDNS: the goroutine of packet p.                 *)

\* The step in which serveDNS gives the buffer back.
PutAndGo(p, where) ==
  /\ Put(pbuf[p])
  /\ pbuf' = [pbuf EXCEPT ![p] = None]
  /\ ppc' = [ppc EXCEPT ![p] = where]
  /\ UNCHANGED <<srvVars, runVars, owner, stopVars>>

\* MsgAcceptFunc says MsgIgnore.
IgnoreMsg(p) ==
  /\ ppc[p] = "serve"
  /\ fate' = [fate EXCEPT ![p] = "ignored"]
  /\ PutAndGo(p, "wgDone")

\* MsgAcceptFunc rejects the message, or it is accepted and does not unpack
\* and goes to MsgInvalidFunc; both are answered.
RejectMsg(p) ==
  /\ ppc[p] = "serve"
  /\ \E f \in {"rejected", "invalid"} : fate' = [fate EXCEPT ![p] = f]
  /\ ppc' = [ppc EXCEPT ![p] = "reply"]
  /\ UNCHANGED <<srvVars, pool, runVars, owner, pbuf, stopVars>>

ReplyError(p) ==
  /\ ppc[p] = "reply"
  /\ UNCHANGED fate
  /\ PutAndGo(p, "wgDone")

\* Mutant of AcceptMsg: the buffer goes back and the goroutine reads on.
AcceptMsgPutEarly(p) ==
  /\ ppc[p] = "serve"
  /\ fate' = [fate EXCEPT ![p] = "handler"]
  /\ Put(pbuf[p])
  /\ ppc' = [ppc EXCEPT ![p] = "handler"]
  /\ UNCHANGED <<srvVars, runVars, owner, pbuf, stopVars>>

\* The message is unpacked and verified, its buffer goes back, and the
\* Handler is called.
AcceptMsg(p) ==
  /\ ppc[p] = "serve"
  /\ fate' = [fate EXCEPT ![p] = "handler"]
  /\ PutAndGo(p, "handler")

HandlerReturns(p) ==
  /\ ppc[p] = "handler"
  /\ ppc' = [ppc EXCEPT ![p] = "wgDone"]
  /\ UNCHANGED <<srvVars, pool, runVars, owner, pbuf, fate, stopVars>>

WgDone(p) ==
  /\ ppc[p] = "wgDone"
  /\ wg' = [wg EXCEPT ![owner[p]] = @ \ {p}]
  /\ ppc' = [ppc EXCEPT ![p] = "done"]
  /\ UNCHANGED <<srvVars, pool, pc, l, rbuf, owner, pbuf, fate, stopVars>>

-----------------------------------------------------------------------------
(* ShutdownContext.                                                        *)

ShutdownNotStarted(s) ==
  /\ spc[s] = "idle"
  /\ ~ started
  /\ spc' = [spc EXCEPT ![s] = "returned"]
  /\ result' = [result EXCEPT ![s] = "notStarted"]
  /\ UNCHANGED <<srvVars, pool, runVars, pktVars, stopped, waitCh>>

\* The block under srv.lock: clear started, unblock the reader.
ShutdownContext(s) ==
  /\ spc[s] = "idle"
  /\ started
  /\ started' = FALSE
  /\ deadline' = [deadline EXCEPT ![PacketConn] = "past"]
  /\ stopped' = [stopped EXCEPT ![s] = shutdown]
  /\ spc' = [spc EXCEPT ![s] = "select"]
  /\ UNCHANGED <<shutdown, closedCh, PacketConn, open, panicked, pool, runVars,
                 pktVars, waitCh, result>>

\* The select reads the field srv.shutdown, no longer under the lock.
EnterSelect(s) ==
  /\ spc[s] = "select"
  /\ waitCh' = [waitCh EXCEPT ![s] = shutdown]
  /\ spc' = [spc EXCEPT ![s] = "wait"]
  /\ UNCHANGED <<srvVars, pool, runVars, pktVars, stopped, result>>

\* Mutant of ShutdownWakes: the select does not wait for the channel.
ShutdownWakesEarly(s) ==
  /\ spc[s] = "wait"
  /\ result' = [result EXCEPT ![s] = "ok"]
  /\ spc' = [spc EXCEPT ![s] = "close"]
  /\ UNCHANGED <<srvVars, pool, runVars, pktVars, stopped, waitCh>>

ShutdownWakes(s) ==
  /\ spc[s] = "wait"
  /\ waitCh[s] \in closedCh
  /\ result' = [result EXCEPT ![s] = "ok"]
  /\ spc' = [spc EXCEPT ![s] = "close"]
  /\ UNCHANGED <<srvVars, pool, runVars, pktVars, stopped, waitCh>>

\* case <-ctx.Done()
ContextDone(s) ==
  /\ spc[s] = "wait"
  /\ s \in CtxStoppers
  /\ result' = [result EXCEPT ![s] = "ctxErr"]
  /\ spc' = [spc EXCEPT ![s] = "close"]
  /\ UNCHANGED <<srvVars, pool, runVars, pktVars, stopped, waitCh>>

\* srv.PacketConn.Close(), again without the lock, and the return.
ShutdownReturns(s) ==
  /\ spc[s] = "close"
  /\ open' = open \ {PacketConn}
  /\ spc' = [spc EXCEPT ![s] = "returned"]
  /\ UNCHANGED <<started, shutdown, closedCh, PacketConn, deadline, panicked, pool,
                 runVars, pktVars, stopped, waitCh, result>>

-----------------------------------------------------------------------------
RunStep(r) ==
  \/ AlreadyStarted(r) \/ StartFails(r) \/ ListenAndServe(r)
  \/ ActivateAndServe(r) \/ ReadPacketConnField(r) \/ EnterLoop(r)
  \/ ReaderUnusable(r) \/ CheckStarted(r) \/ ReadTimeout(r) \/ ReadError(r)
  \/ ReadClosed(r) \/ HandleReadError(r) \/ MsgInvalidFunc(r) \/ Drained(r)
  \/ ReturnFromServe(r)
  \/ \E b \in Buffers : ArmDeadline(r, b)
  \/ \E p \in Packets : ReadShort(r, p) \/ ReadPacket(r, p)

PacketStep(p) ==
  \/ IgnoreMsg(p) \/ RejectMsg(p) \/ ReplyError(p) \/ AcceptMsg(p)
  \/ HandlerReturns(p) \/ WgDone(p)

StopStep(s) ==
  \/ ShutdownNotStarted(s) \/ ShutdownContext(s) \/ EnterSelect(s)
  \/ ShutdownWakes(s) \/ ContextDone(s) \/ ShutdownReturns(s)

Next ==
  \/ \E r \in Runs : RunStep(r)
  \/ \E p \in Packets : PacketStep(p)
  \/ \E s \in Stoppers : StopStep(s)
  \/ \E b \in Buffers : PoolDrop(b)

Spec == Init /\ [][Next]_vars

(***************************************************************************)
(* The steps that MCServerLive asks weak fairness of: a goroutine that can *)
(* run does run, a read deadline that is set expires, and handlers return. *)
(* Clients, callers and the garbage collector owe nothing.                 *)
(***************************************************************************)
RunProgress(r) ==
  \/ ReadPacketConnField(r) \/ EnterLoop(r) \/ ReaderUnusable(r)
  \/ CheckStarted(r) \/ ReadTimeout(r) \/ ReadClosed(r) \/ HandleReadError(r)
  \/ MsgInvalidFunc(r) \/ Drained(r) \/ ReturnFromServe(r)
  \/ \E b \in Buffers : ArmDeadline(r, b)

StopProgress(s) == EnterSelect(s) \/ ShutdownWakes(s) \/ ShutdownReturns(s)

-----------------------------------------------------------------------------
(* Properties.                                                             *)

\* Once the server is stopped, a run in, or about to enter, its read finds a
\* deadline in the past ("See the comment in readTCP above").
StoppedReadUnblocked ==
  ~ started =>
    \A r \in Runs : pc[r] \in {"arm", "reading"} => deadline[l[r]] = "past"

\* Whoever still looks at a buffer has it alone: it is in the pool at most
\* once, not while a packet or a read holds it, and no two hold the same
\* one.  A run that reports a short message holds a buffer it has already
\* put back; nobody may have taken it by then.
BufferHasOneUser ==
  /\ \A b \in Buffers : pool[b] <= 1
  /\ \A b \in Buffers, p \in Packets : pbuf[p] = b => pool[b] = 0
  /\ \A r \in Runs : pc[r] = "reading" => pool[rbuf[r]] = 0
  /\ \A p, p2 \in Packets : pbuf[p] # None /\ pbuf[p] = pbuf[p2] => p = p2
  /\ \A r, r2 \in Runs : rbuf[r] # None /\ rbuf[r] = rbuf[r2] => r = r2
  /\ \A r \in Runs, p \in Packets : rbuf[r] # None => rbuf[r] # pbuf[p]

\* A packet being served can be answered: its connection is closed under it
\* only by a ShutdownContext whose context ended the wait.
ConnOpenWhileServing ==
  \A p \in Packets : ppc[p] \in {"serve", "reply", "handler"} =>
    \/ l[owner[p]] \in open
    \/ \E s \in Stoppers : stopped[s] = owner[p] /\ result[s] = "ctxErr"

\* A Shutdown whose context did not end the wait has drained the run it
\* stopped: every packet that run read is served.
ShutdownDrains ==
  \A s \in Stoppers : result[s] = "ok" =>
    \A p \in Packets : owner[p] = stopped[s] => ppc[p] = "done"

\* The doc of MsgInvalidFunc: every message that is read will eventually be
\* given to the Handler, rejected or ignored, or passed to MsgInvalidFunc.
EveryMessageDisposed ==
  \A p \in Packets : owner[p] # None ~> fate[p] # "none"

\* Every Shutdown that stops a run returns, with or without a context that ends
\* the wait, and so does the ListenAndServe or ActivateAndServe that it stopped:
\* some time there is none left that has to (neither is ever called again).
EveryShutdownReturns ==
  <>[](\A s \in Stoppers : stopped[s] # None =>
         spc[s] = "returned" /\ pc[stopped[s]] = "returned")

(***************************************************************************)
(* The abstract server that this one implements: a packet is a task from   *)
(* its read to its wg.Done or, if it is short, to the end of               *)
(* MsgInvalidFunc; a run has ended once its deferred function is done.     *)
(***************************************************************************)
AbsCurrent == IF started THEN shutdown ELSE None

AbsPhase ==
  [r \in Runs |-> IF pc[r] = "idle" THEN "new"
                  ELSE IF pc[r] \in {"closeConn", "returned"} THEN "ended"
                  ELSE "serving"]

AbsTask ==
  [p \in Packets |-> IF owner[p] = None THEN "new"
                     ELSE IF ppc[p] = "done" THEN "done" ELSE "busy"]

AbsVerdict ==
  [s \in Stoppers |-> IF spc[s] \in {"select", "wait"} THEN "waiting" ELSE result[s]]

Lifecycle == INSTANCE ServerLifecycle WITH
  Tasks <- Packets, current <- AbsCurrent, phase <- AbsPhase, server <- owner,
  task <- AbsTask, target <- stopped, verdict <- AbsVerdict

\* The UDP server keeps what ServerLifecycle promises; among other things, no
\* packet is read after the stop, although the read runs unlocked.
ImplementsLifecycle == Lifecycle!Spec
=============================================================================
