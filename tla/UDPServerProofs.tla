--------------------------- MODULE UDPServerProofs ---------------------------
(***************************************************************************)
(* Proofs about UDPServer for any number of runs, packets, buffers and     *)
(* stoppers.  As for TCP, all but type correctness assume ~ Overlap, a     *)
(* caller that waits for its earlier calls to return before it starts the  *)
(* server again.  The reader may be unusable (BadReader).                  *)
(***************************************************************************)
EXTENDS UDPServer, TLAPS

-----------------------------------------------------------------------------
(* Type correctness.                                                       *)

\* A run that is past init() has a channel to close.
ChannelMade == \A r \in Runs : Active(r) => shutdown \in Runs

TInv == TypeOK /\ ChannelMade

\* Get and Put keep the pool a count of buffers, whatever is put.
LEMMA PoolType ==
  ASSUME pool \in [Buffers -> Nat], NEW b, Put(b) \/ (b \in Buffers /\ Get(b))
  PROVE  pool' \in [Buffers -> Nat]
<1>1. CASE b \in Buffers
  BY <1>1 DEF Put, Get
<1>2. CASE b \notin Buffers
  BY <1>2 DEF Put
<1> QED BY <1>1, <1>2

\* The first state has the declared types.
LEMMA TInvInit == Init => TInv
<1> SUFFICES ASSUME Init PROVE TInv
  OBVIOUS
<1>1. pool \in [Buffers -> Nat]
  BY DEF Init
<1>2. TypeOK
  BY <1>1 DEF Init, TypeOK, PacketConns, PC, PPC, SPC
<1>3. ChannelMade
  BY DEF Init, ChannelMade, Active
<1> QED BY <1>2, <1>3 DEF TInv

\* Every step of the server preserves the declared types.
LEMMA TInvStep == TInv /\ [Next]_vars => TInv'
<1> SUFFICES ASSUME TInv, [Next]_vars PROVE TInv'
  OBVIOUS
<1> USE UDPServerAssumption DEF TInv, TypeOK, ChannelMade, Active, PacketConns,
        PC, PPC, SPC, srvVars, runVars, pktVars, stopVars
<1>1. ASSUME NEW r \in Runs, RunStep(r) PROVE TInv'
  <2>1. CASE AlreadyStarted(r)
    BY <2>1 DEF AlreadyStarted
  <2>2. CASE StartFails(r)
    BY <2>2 DEF StartFails
  <2>3. CASE ListenAndServe(r)
    BY <2>3 DEF ListenAndServe
  <2>4. CASE ActivateAndServe(r)
    BY <2>4 DEF ActivateAndServe
  <2>5. CASE ReadPacketConnField(r)
    BY <2>5 DEF ReadPacketConnField
  <2>6. CASE EnterLoop(r)
    BY <2>6 DEF EnterLoop
  <2>7. CASE ReaderUnusable(r)
    BY <2>7 DEF ReaderUnusable
  <2>8. CASE CheckStarted(r)
    BY <2>8 DEF CheckStarted
  <2>9. CASE ReadTimeout(r)
    BY PoolType, <2>9 DEF ReadTimeout, ReadFails
  <2>10. CASE ReadError(r)
    BY PoolType, <2>10 DEF ReadError, ReadFails
  <2>11. CASE ReadClosed(r)
    BY PoolType, <2>11 DEF ReadClosed, ReadFails
  <2>12. CASE HandleReadError(r)
    BY <2>12 DEF HandleReadError
  <2>13. CASE MsgInvalidFunc(r)
    BY <2>13 DEF MsgInvalidFunc
  <2>14. CASE Drained(r)
    BY <2>14 DEF Drained
  <2>15. CASE ReturnFromServe(r)
    BY <2>15 DEF ReturnFromServe
  <2>16. CASE \E b \in Buffers : ArmDeadline(r, b)
    <3>1. PICK b \in Buffers : ArmDeadline(r, b)
      BY <2>16
    <3>2. pool' \in [Buffers -> Nat]
      BY <3>1, PoolType DEF ArmDeadline
    <3> QED BY <3>1, <3>2 DEF ArmDeadline
  <2>17. CASE \E p \in Packets : ReadShort(r, p)
    BY PoolType, <2>17 DEF ReadShort, CanReceive
  <2>18. CASE \E p \in Packets : ReadPacket(r, p)
    BY <2>18 DEF ReadPacket, CanReceive
  <2> QED BY <1>1, <2>1, <2>2, <2>3, <2>4, <2>5, <2>6, <2>7, <2>8, <2>9, <2>10,
             <2>11, <2>12, <2>13, <2>14, <2>15, <2>16, <2>17, <2>18 DEF RunStep
<1>2. ASSUME NEW p \in Packets, PacketStep(p) PROVE TInv'
  <2>1. CASE IgnoreMsg(p)
    BY PoolType, <2>1 DEF IgnoreMsg, PutAndGo
  <2>2. CASE RejectMsg(p)
    BY <2>2 DEF RejectMsg
  <2>3. CASE ReplyError(p)
    BY PoolType, <2>3 DEF ReplyError, PutAndGo
  <2>4. CASE AcceptMsg(p)
    BY PoolType, <2>4 DEF AcceptMsg, PutAndGo
  <2>5. CASE HandlerReturns(p)
    BY <2>5 DEF HandlerReturns
  <2>6. CASE WgDone(p)
    BY <2>6 DEF WgDone
  <2> QED BY <1>2, <2>1, <2>2, <2>3, <2>4, <2>5, <2>6 DEF PacketStep
<1>3. ASSUME NEW s \in Stoppers, StopStep(s) PROVE TInv'
  <2>1. CASE ShutdownNotStarted(s)
    BY <2>1 DEF ShutdownNotStarted
  <2>2. CASE ShutdownContext(s)
    BY <2>2 DEF ShutdownContext
  <2>3. CASE EnterSelect(s)
    BY <2>3 DEF EnterSelect
  <2>4. CASE ShutdownWakes(s)
    BY <2>4 DEF ShutdownWakes
  <2>5. CASE ContextDone(s)
    BY <2>5 DEF ContextDone
  <2>6. CASE ShutdownReturns(s)
    BY <2>6 DEF ShutdownReturns
  <2> QED BY <1>3, <2>1, <2>2, <2>3, <2>4, <2>5, <2>6 DEF StopStep
<1>4. ASSUME NEW b \in Buffers, PoolDrop(b) PROVE TInv'
  BY <1>4 DEF PoolDrop
<1>5. CASE UNCHANGED vars
  BY <1>5 DEF vars
<1> QED BY <1>1, <1>2, <1>3, <1>4, <1>5 DEF Next

\* Every variable keeps its type, a shutdown channel there is to close among
\* them, in every behaviour of the server.
THEOREM TypeCorrect == Spec => []TypeOK
<1>1. TInv => TypeOK
  BY DEF TInv
<1> QED BY <1>1, TInvInit, TInvStep, PTL DEF Spec

-----------------------------------------------------------------------------
(***************************************************************************)
(* The inductive invariant behind the safety properties, part by part.     *)
(***************************************************************************)

\* There is one run at a time, srv.shutdown is its channel, and the channel
\* is closed only from the deferred function on.
OneRun ==
  /\ \A r \in Runs : Active(r) => shutdown = r
  /\ \A r \in closedCh : pc[r] \in {"closeConn", "returned"}
  /\ started => shutdown \in Runs

\* A run serves the connection whose deadline ShutdownContext moves.
Serving ==
  /\ \A r \in Runs : Active(r) => PacketConn \in PacketConns
  /\ \A r \in Runs : Active(r) /\ pc[r] # "activate" => l[r] = PacketConn

\* Who holds a buffer can be told from where it is in the code.
Held ==
  /\ \A r \in Runs : rbuf[r] # None <=> pc[r] \in {"reading", "msgInvalid"}
  /\ \A p \in Packets : pbuf[p] # None <=> ppc[p] \in {"serve", "reply"}

\* A live goroutine is counted by a WaitGroup that somebody still waits for;
\* a run has at most one short message in its hands.
Counted ==
  /\ \A p \in Packets : owner[p] = None <=> ppc[p] = "none"
  /\ \A p \in Packets : Live(p) =>
       /\ p \in wg[owner[p]]
       /\ pc[owner[p]] \notin {"idle", "activate", "enter", "closeConn", "returned"}
  /\ \A p \in Packets : ppc[p] = "short" => pc[owner[p]] = "msgInvalid"
  /\ \A p, p2 \in Packets :
       ppc[p] = "short" /\ ppc[p2] = "short" /\ owner[p] = owner[p2] => p = p2

\* A stopper waits on the channel of the run it stopped, and has a result
\* from the end of its wait on.
Waiting ==
  /\ \A s \in Stoppers : spc[s] \in {"select", "wait", "close"} => stopped[s] = shutdown
  /\ \A s \in Stoppers : spc[s] = "wait" => waitCh[s] = shutdown
  /\ \A s \in Stoppers : spc[s] \in {"idle", "select", "wait"} => result[s] = "none"
  /\ \A s \in Stoppers : spc[s] = "close" => result[s] \in {"ok", "ctxErr"}
  /\ \A s \in Stoppers : result[s] = "ok" => stopped[s] \in closedCh

IInv ==
  /\ TInv
  /\ OneRun
  /\ Serving
  /\ Held
  /\ Counted
  /\ Waiting
  /\ StoppedReadUnblocked
  /\ BufferHasOneUser
  /\ ConnOpenWhileServing

\* The initial state satisfies the invariant.
LEMMA IInvInit == Init => IInv
<1> SUFFICES ASSUME Init PROVE IInv
  OBVIOUS
<1>1. TInv
  BY TInvInit
<1>2. OneRun /\ Serving /\ Waiting
  BY DEF Init, OneRun, Serving, Waiting, Active
<1>3. Held /\ Counted
  BY DEF Init, Held, Counted, Live
<1>4. StoppedReadUnblocked /\ BufferHasOneUser /\ ConnOpenWhileServing
  BY UDPServerAssumption DEF Init, StoppedReadUnblocked, BufferHasOneUser,
     ConnOpenWhileServing
<1> QED BY <1>1, <1>2, <1>3, <1>4 DEF IInv

\* Every step preserves the invariant when runs do not overlap.
LEMMA IInvStep ==
  ASSUME ~ Overlap, IInv, [Next]_vars
  PROVE  IInv'
<1>0. TInv'
  BY TInvStep DEF IInv
<1> USE UDPServerAssumption, <1>0 DEF IInv, TInv, TypeOK, OneRun, Serving, Held, Counted,
        Waiting, StoppedReadUnblocked, BufferHasOneUser, ConnOpenWhileServing, Active,
        Live, PacketConns, PC, PPC, SPC, srvVars, runVars, pktVars, stopVars
<1>1. ASSUME NEW r \in Runs, RunStep(r) PROVE IInv'
  <2>1. CASE AlreadyStarted(r)
    BY <2>1 DEF AlreadyStarted
  <2>2. CASE StartFails(r)
    <3>1. OneRun' /\ Serving'
      BY <2>2 DEF StartFails, MayCall
    <3>2. Held' /\ Counted'
      BY <2>2 DEF StartFails, MayCall
    <3>3. Waiting' /\ StoppedReadUnblocked'
      BY <2>2 DEF StartFails, MayCall
    <3>4. BufferHasOneUser'
      BY <2>2 DEF StartFails, MayCall, InUse
    <3>5. ConnOpenWhileServing'
      BY <2>2 DEF StartFails, MayCall
    <3> QED BY <3>1, <3>2, <3>3, <3>4, <3>5
  <2>3. CASE ListenAndServe(r)
    <3>1. OneRun' /\ Serving'
      BY <2>3 DEF ListenAndServe, MayCall
    <3>2. Held' /\ Counted'
      BY <2>3 DEF ListenAndServe, MayCall
    <3>3. Waiting' /\ StoppedReadUnblocked'
      BY <2>3 DEF ListenAndServe, MayCall
    <3>4. BufferHasOneUser'
      BY <2>3 DEF ListenAndServe, MayCall, InUse
    <3>5. ConnOpenWhileServing'
      BY <2>3 DEF ListenAndServe, MayCall
    <3> QED BY <3>1, <3>2, <3>3, <3>4, <3>5
  <2>4. CASE ActivateAndServe(r)
    <3>1. OneRun' /\ Serving'
      BY <2>4 DEF ActivateAndServe, MayCall
    <3>2. Held' /\ Counted'
      BY <2>4 DEF ActivateAndServe, MayCall
    <3>3. Waiting' /\ StoppedReadUnblocked'
      BY <2>4 DEF ActivateAndServe, MayCall
    <3>4. BufferHasOneUser'
      BY <2>4 DEF ActivateAndServe, MayCall, InUse
    <3>5. ConnOpenWhileServing'
      BY <2>4 DEF ActivateAndServe, MayCall
    <3> QED BY <3>1, <3>2, <3>3, <3>4, <3>5
  <2>5. CASE ReadPacketConnField(r)
    BY <2>5 DEF ReadPacketConnField
  <2>6. CASE EnterLoop(r)
    BY <2>6 DEF EnterLoop
  <2>7. CASE ReaderUnusable(r)
    BY <2>7 DEF ReaderUnusable
  <2>8. CASE CheckStarted(r)
    BY <2>8 DEF CheckStarted
  <2>9. CASE HandleReadError(r)
    BY <2>9 DEF HandleReadError
  <2>10. CASE MsgInvalidFunc(r)
    BY <2>10 DEF MsgInvalidFunc
  <2>11. CASE Drained(r)
    BY <2>11 DEF Drained
  <2>12. CASE ReturnFromServe(r)
    BY <2>12 DEF ReturnFromServe
  <2>13. CASE ReadTimeout(r) \/ ReadError(r) \/ ReadClosed(r)
    <3>0. PICK kind \in {"errTemp", "errPerm"} : ReadFails(r, kind)
      BY <2>13 DEF ReadTimeout, ReadError, ReadClosed
    <3>1. OneRun' /\ Serving'
      BY <3>0 DEF ReadFails, Put
    <3>2. Held' /\ Counted'
      BY <3>0 DEF ReadFails, Put
    <3>3. Waiting' /\ StoppedReadUnblocked'
      BY <3>0 DEF ReadFails, Put
    <3>4. BufferHasOneUser'
      BY <3>0 DEF ReadFails, Put, InUse
    <3>5. ConnOpenWhileServing'
      BY <3>0 DEF ReadFails, Put
    <3> QED BY <3>1, <3>2, <3>3, <3>4, <3>5
  <2>14. CASE \E b \in Buffers : ArmDeadline(r, b)
    <3>0. PICK b \in Buffers : ArmDeadline(r, b)
      BY <2>14
    <3>1. OneRun' /\ Serving'
      BY <3>0 DEF ArmDeadline, Get
    <3>2. Held' /\ Counted'
      BY <3>0 DEF ArmDeadline, Get
    <3>3. Waiting' /\ StoppedReadUnblocked'
      BY <3>0 DEF ArmDeadline, Get
    <3>4. BufferHasOneUser'
      <4>1. \A r2 \in Runs \ {r} : rbuf[r2] = None
        BY SMTT(30), <3>0 DEF ArmDeadline
      <4>2. /\ \A p \in Packets : pbuf[p] # b
            /\ pool'[b] = 0
            /\ \A b2 \in Buffers \ {b} : pool'[b2] = pool[b2]
        BY <3>0 DEF ArmDeadline, Get, InUse
      <4>3. /\ pbuf' = pbuf
            /\ rbuf'[r] = b
            /\ \A r2 \in Runs \ {r} : rbuf'[r2] = None
        BY <3>0, <4>1 DEF ArmDeadline
      <4>4. /\ \A b2 \in Buffers : pool'[b2] <= 1
            /\ \A b2 \in Buffers, p \in Packets : pbuf'[p] = b2 => pool'[b2] = 0
        BY SMTT(30), <4>2, <4>3
      <4>5. \A r2 \in Runs : pc'[r2] = "reading" => r2 = r
        BY <3>2, <4>3
      <4>6. /\ \A r2, r3 \in Runs : rbuf'[r2] # None /\ rbuf'[r2] = rbuf'[r3] => r2 = r3
            /\ \A r2 \in Runs, p \in Packets : rbuf'[r2] # None => rbuf'[r2] # pbuf'[p]
        BY <4>2, <4>3
      <4> QED BY <4>2, <4>3, <4>4, <4>5, <4>6
    <3>5. ConnOpenWhileServing'
      BY <3>0 DEF ArmDeadline, Get
    <3> QED BY <3>1, <3>2, <3>3, <3>4, <3>5
  <2>15. CASE \E p \in Packets : ReadPacket(r, p)
    <3>0. PICK p \in Packets : ReadPacket(r, p)
      BY <2>15
    <3>1. OneRun' /\ Serving'
      BY <3>0 DEF ReadPacket, CanReceive
    <3>2. Held' /\ Counted'
      BY <3>0 DEF ReadPacket, CanReceive
    <3>3. Waiting' /\ StoppedReadUnblocked'
      BY <3>0 DEF ReadPacket, CanReceive
    <3>4. BufferHasOneUser'
      BY <3>0 DEF ReadPacket, CanReceive, InUse
    <3>5. ConnOpenWhileServing'
      BY <3>0 DEF ReadPacket, CanReceive
    <3> QED BY <3>1, <3>2, <3>3, <3>4, <3>5
  <2>16. CASE \E p \in Packets : ReadShort(r, p)
    <3>0. PICK p \in Packets : ReadShort(r, p)
      BY <2>16
    <3>1. OneRun' /\ Serving'
      BY <3>0 DEF ReadShort, CanReceive, Put
    <3>2. Held' /\ Counted'
      BY <3>0 DEF ReadShort, CanReceive, Put
    <3>3. Waiting' /\ StoppedReadUnblocked'
      BY <3>0 DEF ReadShort, CanReceive, Put
    <3>4. BufferHasOneUser'
      BY <3>0 DEF ReadShort, CanReceive, Put, InUse
    <3>5. ConnOpenWhileServing'
      BY <3>0 DEF ReadShort, CanReceive, Put
    <3> QED BY <3>1, <3>2, <3>3, <3>4, <3>5
  <2> QED BY <1>1, <2>1, <2>2, <2>3, <2>4, <2>5, <2>6, <2>7, <2>8, <2>9, <2>10,
             <2>11, <2>12, <2>13, <2>14, <2>15, <2>16 DEF RunStep
<1>2. ASSUME NEW p \in Packets, PacketStep(p) PROVE IInv'
  <2>1. CASE RejectMsg(p)
    BY <2>1 DEF RejectMsg
  <2>2. CASE HandlerReturns(p)
    BY <2>2 DEF HandlerReturns
  <2>3. CASE WgDone(p)
    BY <2>3 DEF WgDone
  <2>4. CASE IgnoreMsg(p) \/ ReplyError(p) \/ AcceptMsg(p)
    <3>0. PICK where \in {"wgDone", "handler"} :
            PutAndGo(p, where) /\ ppc[p] \in {"serve", "reply"}
      BY <2>4 DEF IgnoreMsg, ReplyError, AcceptMsg
    <3>1. OneRun' /\ Serving'
      BY <3>0 DEF PutAndGo, Put
    <3>2. Held' /\ Counted'
      BY <3>0 DEF PutAndGo, Put
    <3>3. Waiting' /\ StoppedReadUnblocked'
      BY <3>0 DEF PutAndGo, Put
    <3>4. BufferHasOneUser'
      BY <3>0 DEF PutAndGo, Put, InUse
    <3>5. ConnOpenWhileServing'
      BY <3>0 DEF PutAndGo, Put
    <3> QED BY <3>1, <3>2, <3>3, <3>4, <3>5
  <2> QED BY <1>2, <2>1, <2>2, <2>3, <2>4 DEF PacketStep
<1>3. ASSUME NEW s \in Stoppers, StopStep(s) PROVE IInv'
  <2>1. CASE ShutdownNotStarted(s)
    BY <2>1 DEF ShutdownNotStarted
  <2>2. CASE ShutdownContext(s)
    <3>1. OneRun' /\ Serving'
      BY <2>2 DEF ShutdownContext
    <3>2. Held' /\ Counted'
      BY <2>2 DEF ShutdownContext
    <3>3. Waiting' /\ StoppedReadUnblocked'
      BY <2>2 DEF ShutdownContext
    <3>4. BufferHasOneUser' /\ ConnOpenWhileServing'
      BY <2>2 DEF ShutdownContext
    <3> QED BY <3>1, <3>2, <3>3, <3>4
  <2>3. CASE EnterSelect(s)
    BY <2>3 DEF EnterSelect
  <2>4. CASE ShutdownWakes(s)
    BY <2>4 DEF ShutdownWakes
  <2>5. CASE ContextDone(s)
    BY <2>5 DEF ContextDone
  <2>6. CASE ShutdownReturns(s)
    BY <2>6 DEF ShutdownReturns
  <2> QED BY <1>3, <2>1, <2>2, <2>3, <2>4, <2>5, <2>6 DEF StopStep
<1>4. ASSUME NEW b \in Buffers, PoolDrop(b) PROVE IInv'
  BY <1>4 DEF PoolDrop
<1>5. CASE UNCHANGED vars
  BY <1>5 DEF vars
<1> QED BY <1>1, <1>2, <1>3, <1>4, <1>5 DEF Next
\* The invariant holds in every state of a server whose caller does not
\* overlap runs.
LEMMA Invariance == ~ Overlap => (Spec => []IInv)
<1> SUFFICES ASSUME ~ Overlap PROVE Spec => []IInv
  OBVIOUS
<1>1. IInv /\ [Next]_vars => IInv'
  BY IInvStep
<1> QED BY <1>1, IInvInit, PTL DEF Spec

\* readUDP and readPacketConn never undo the deadline by which ShutdownContext
\* unblocks the read loop.
THEOREM StoppedReadIsUnblocked == ~ Overlap => (Spec => []StoppedReadUnblocked)
<1>1. IInv => StoppedReadUnblocked
  BY DEF IInv
<1> QED BY <1>1, Invariance, PTL

\* A pooled buffer has one user on every path through serveUDP and serveDNS,
\* for any number of packets and however the collector treats the pool.
THEOREM BuffersAreNotShared == ~ Overlap => (Spec => []BufferHasOneUser)
<1>1. IInv => BufferHasOneUser
  BY DEF IInv
<1> QED BY <1>1, Invariance, PTL

\* Neither the deferred l.Close() nor ShutdownContext closes the connection
\* under a packet in progress, unless a context ended the wait.
THEOREM PacketsCanBeAnswered == ~ Overlap => (Spec => []ConnOpenWhileServing)
<1>1. IInv => ConnOpenWhileServing
  BY DEF IInv
<1> QED BY <1>1, Invariance, PTL

\* A run that has not begun to read, or has ended, has no packet in progress.
LEMMA EndedMeansDone ==
  ASSUME IInv, NEW r \in Runs, NEW p \in Packets, owner[p] = r,
         pc[r] \in {"enter", "closeConn", "returned"}
  PROVE  ppc[p] = "done"
<1>1. ~ Live(p) /\ ppc[p] \notin {"none", "short"}
  BY UDPServerAssumption DEF IInv, Counted
<1> QED BY <1>1 DEF Live, IInv, TInv, TypeOK, PPC

\* A Shutdown whose wait was not ended by its context has waited for every
\* packet of the run it stopped.
THEOREM ShutdownWaits == ~ Overlap => (Spec => []ShutdownDrains)
<1>1. IInv => ShutdownDrains
  <2> SUFFICES ASSUME IInv, NEW s \in Stoppers, result[s] = "ok",
                      NEW p \in Packets, owner[p] = stopped[s]
               PROVE  ppc[p] = "done"
    BY DEF ShutdownDrains
  <2>1. stopped[s] \in Runs /\ pc[stopped[s]] \in {"closeConn", "returned"}
    BY DEF IInv, TInv, TypeOK, Waiting, OneRun
  <2> QED BY <2>1, EndedMeansDone
<1> QED BY <1>1, Invariance, PTL

-----------------------------------------------------------------------------
(***************************************************************************)
(* Refinement.  A packet is read without srv.lock; that none is read after *)
(* the stop rests on StoppedReadUnblocked.                                 *)
(***************************************************************************)

\* A step of the server is a step of the abstract server or none.
LEMMA LifecycleStep ==
  ASSUME ~ Overlap, IInv, [Next]_vars
  PROVE  [Lifecycle!Next]_(Lifecycle!vars)
<1> USE UDPServerAssumption DEF IInv, TInv, TypeOK, OneRun, Active, Live, PacketConns,
        PC, PPC, SPC, srvVars, runVars, pktVars, stopVars, Lifecycle!vars
<1>1. ASSUME NEW r \in Runs, RunStep(r) PROVE [Lifecycle!Next]_(Lifecycle!vars)
  <2>1. CASE AlreadyStarted(r) \/ StartFails(r)
    <3>1. pc' = [pc EXCEPT ![r] = "returned"]
      BY <2>1 DEF AlreadyStarted, StartFails
    <3>2. AbsPhase' = [AbsPhase EXCEPT ![r] = "ended"]
      BY <3>1 DEF AbsPhase
    <3>3. AbsPhase[r] = "new"
      BY <2>1 DEF AlreadyStarted, StartFails, MayCall, AbsPhase
    <3>4. UNCHANGED <<AbsCurrent, owner, AbsTask, stopped, AbsVerdict>>
      BY <2>1 DEF AlreadyStarted, StartFails, AbsCurrent, AbsTask, AbsVerdict
    <3> QED BY <3>2, <3>3, <3>4 DEF Lifecycle!Next, Lifecycle!Refuse
  <2>2. CASE ListenAndServe(r) \/ ActivateAndServe(r)
    <3>1. PICK x \in {"check", "activate"} : pc' = [pc EXCEPT ![r] = x]
      BY <2>2 DEF ListenAndServe, ActivateAndServe
    <3>2. AbsPhase' = [AbsPhase EXCEPT ![r] = "serving"]
      BY <3>1 DEF AbsPhase
    <3>3. AbsPhase[r] = "new" /\ \A r2 \in Runs : AbsPhase[r2] # "serving"
      BY <2>2 DEF ListenAndServe, ActivateAndServe, MayCall, AbsPhase
    <3>4. AbsCurrent = None /\ AbsCurrent' = r
      BY <2>2 DEF ListenAndServe, ActivateAndServe, AbsCurrent
    <3>5. UNCHANGED <<owner, AbsTask, stopped, AbsVerdict>>
      BY <2>2 DEF ListenAndServe, ActivateAndServe, AbsTask, AbsVerdict
    <3> QED BY <3>2, <3>3, <3>4, <3>5 DEF Lifecycle!Next, Lifecycle!Start
  <2>3. CASE Drained(r) \/ ReaderUnusable(r)
    <3>1. \A p \in Packets : owner[p] = r => ppc[p] = "done"
      BY <2>3, EndedMeansDone DEF Drained, ReaderUnusable, Counted
    <3>2. \A p \in Packets : owner[p] = r => AbsTask[p] = "done"
      BY <3>1 DEF AbsTask
    <3>3. pc' = [pc EXCEPT ![r] = "closeConn"] /\ pc[r] \in {"drain", "enter"}
      BY <2>3 DEF Drained, ReaderUnusable
    <3>4. AbsPhase' = [AbsPhase EXCEPT ![r] = "ended"]
      BY <3>3 DEF AbsPhase
    <3>5. AbsPhase[r] = "serving"
      BY <3>3 DEF AbsPhase
    <3>6. UNCHANGED <<AbsCurrent, owner, AbsTask, stopped, AbsVerdict>>
      BY <2>3 DEF Drained, ReaderUnusable, AbsCurrent, AbsTask, AbsVerdict
    <3> QED BY <3>2, <3>4, <3>5, <3>6 DEF Lifecycle!Next, Lifecycle!End
  <2>4. ASSUME NEW p \in Packets, ReadShort(r, p) \/ ReadPacket(r, p)
        PROVE  Lifecycle!Begin(r, p)
    <3>1. AbsCurrent = r
      BY <2>4 DEF ReadShort, ReadPacket, CanReceive, StoppedReadUnblocked, AbsCurrent
    <3>2. AbsPhase[r] = "serving" /\ AbsTask[p] = "new"
      BY <2>4 DEF ReadShort, ReadPacket, CanReceive, AbsPhase, AbsTask
    <3>3. PICK x \in {"short", "serve"} : ppc' = [ppc EXCEPT ![p] = x]
      BY <2>4 DEF ReadShort, ReadPacket
    <3>4. owner' = [owner EXCEPT ![p] = r]
      BY <2>4 DEF ReadShort, ReadPacket
    <3>5. AbsTask' = [AbsTask EXCEPT ![p] = "busy"]
      BY ZenonT(60), <3>3, <3>4 DEF AbsTask
    <3>6. PICK y \in {"msgInvalid", "check"} : pc' = [pc EXCEPT ![r] = y]
      BY <2>4 DEF ReadShort, ReadPacket
    <3>7. UNCHANGED AbsPhase
      BY <2>4, <3>6 DEF ReadShort, ReadPacket, CanReceive, AbsPhase
    <3>8. UNCHANGED <<AbsCurrent, stopped, AbsVerdict>>
      BY <2>4 DEF ReadShort, ReadPacket, AbsCurrent, AbsVerdict
    <3> QED BY <3>1, <3>2, <3>4, <3>5, <3>7, <3>8 DEF Lifecycle!Begin
  <2>5. CASE MsgInvalidFunc(r)
    <3>1. UNCHANGED <<AbsCurrent, AbsPhase, owner, stopped, AbsVerdict>>
      BY <2>5 DEF MsgInvalidFunc, AbsCurrent, AbsPhase, AbsVerdict
    <3>2. CASE \E p \in Packets : owner[p] = r /\ ppc[p] = "short"
      <4>1. PICK p \in Packets : owner[p] = r /\ ppc[p] = "short"
        BY <3>2
      <4>2. ppc'[p] = "done" /\ \A p2 \in Packets \ {p} : ppc'[p2] = ppc[p2]
        BY <2>5, <4>1 DEF MsgInvalidFunc, Counted
      <4>3. AbsTask' = [AbsTask EXCEPT ![p] = "done"]
        <5>1. owner' = owner /\ owner[p] # None
          BY <2>5, <4>1 DEF MsgInvalidFunc
        <5> QED BY ZenonT(60), <4>2, <5>1 DEF AbsTask
      <4>4. AbsTask[p] = "busy"
        BY <4>1 DEF AbsTask
      <4> QED BY <3>1, <4>3, <4>4 DEF Lifecycle!Next, Lifecycle!Finish
    <3>3. CASE ~ \E p \in Packets : owner[p] = r /\ ppc[p] = "short"
      BY <2>5, <3>1, <3>3 DEF MsgInvalidFunc, AbsTask
    <3> QED BY <3>2, <3>3
  <2>6. CASE \/ ReadPacketConnField(r) \/ EnterLoop(r) \/ CheckStarted(r)
             \/ ReadTimeout(r) \/ ReadError(r) \/ ReadClosed(r)
             \/ HandleReadError(r) \/ ReturnFromServe(r)
             \/ \E b \in Buffers : ArmDeadline(r, b)
    <3>1. UNCHANGED <<AbsCurrent, owner, AbsTask, stopped, AbsVerdict>>
      BY <2>6 DEF ReadPacketConnField, EnterLoop, CheckStarted, ReadTimeout, ReadError,
         ReadClosed, ReadFails, HandleReadError, ReturnFromServe, ArmDeadline,
         AbsCurrent, AbsTask, AbsVerdict
    <3>2. UNCHANGED AbsPhase
      BY <2>6 DEF ReadPacketConnField, EnterLoop, CheckStarted, ReadTimeout, ReadError,
         ReadClosed, ReadFails, HandleReadError, ReturnFromServe, ArmDeadline, AbsPhase
    <3> QED BY <3>1, <3>2
  <2> QED BY <1>1, <2>1, <2>2, <2>3, <2>4, <2>5, <2>6 DEF RunStep, Lifecycle!Next
<1>2. ASSUME NEW p \in Packets, PacketStep(p) PROVE [Lifecycle!Next]_(Lifecycle!vars)
  <2>1. UNCHANGED <<AbsCurrent, AbsPhase, owner, stopped, AbsVerdict>>
    BY <1>2 DEF PacketStep, IgnoreMsg, RejectMsg, ReplyError, AcceptMsg, PutAndGo,
       HandlerReturns, WgDone, AbsCurrent, AbsPhase, AbsVerdict
  <2>2. CASE WgDone(p)
    <3>1. ppc' = [ppc EXCEPT ![p] = "done"] /\ owner' = owner
      BY <2>2 DEF WgDone
    <3>2. owner[p] # None /\ ppc[p] # "done"
      BY <2>2 DEF WgDone, Counted
    <3>3. AbsTask' = [AbsTask EXCEPT ![p] = "done"]
      BY <3>1, <3>2 DEF AbsTask
    <3>4. AbsTask[p] = "busy"
      BY <3>2 DEF AbsTask
    <3> QED BY <2>1, <3>3, <3>4 DEF Lifecycle!Next, Lifecycle!Finish
  <2>3. CASE ~ WgDone(p)
    <3>1. PICK x \in {"reply", "handler", "wgDone"} :
            ppc' = [ppc EXCEPT ![p] = x] /\ ppc[p] # "done"
      BY <1>2, <2>3 DEF PacketStep, IgnoreMsg, RejectMsg, ReplyError, AcceptMsg,
         PutAndGo, HandlerReturns
    <3>2. UNCHANGED AbsTask
      BY <2>1, <3>1 DEF AbsTask
    <3> QED BY <2>1, <3>2
  <2> QED BY <2>2, <2>3
<1>3. ASSUME NEW s \in Stoppers, StopStep(s) PROVE [Lifecycle!Next]_(Lifecycle!vars)
  <2>0. UNCHANGED <<AbsPhase, owner, AbsTask>>
    BY <1>3 DEF StopStep, ShutdownNotStarted, ShutdownContext, EnterSelect,
       ShutdownWakes, ContextDone, ShutdownReturns, AbsPhase, AbsTask
  <2>1. CASE ShutdownNotStarted(s)
    <3>1. AbsVerdict' = [AbsVerdict EXCEPT ![s] = "notStarted"]
      BY <2>1 DEF ShutdownNotStarted, AbsVerdict
    <3>2. AbsVerdict[s] = "none" /\ AbsCurrent = None
      BY <2>1 DEF ShutdownNotStarted, Waiting, AbsVerdict, AbsCurrent
    <3>3. UNCHANGED <<AbsCurrent, stopped>>
      BY <2>1 DEF ShutdownNotStarted, AbsCurrent
    <3> QED BY <2>0, <3>1, <3>2, <3>3 DEF Lifecycle!Next, Lifecycle!StopRefused
  <2>2. CASE ShutdownContext(s)
    <3>1. AbsVerdict' = [AbsVerdict EXCEPT ![s] = "waiting"]
      BY <2>2 DEF ShutdownContext, AbsVerdict
    <3>2. AbsVerdict[s] = "none"
      BY <2>2 DEF ShutdownContext, Waiting, AbsVerdict
    <3>3. /\ AbsCurrent # None
          /\ AbsCurrent' = None
          /\ stopped' = [stopped EXCEPT ![s] = AbsCurrent]
      BY <2>2 DEF ShutdownContext, AbsCurrent
    <3> QED BY <2>0, <3>1, <3>2, <3>3 DEF Lifecycle!Next, Lifecycle!Stop
  <2>3. CASE EnterSelect(s) \/ ShutdownReturns(s)
    BY <2>0, <2>3 DEF EnterSelect, ShutdownReturns, AbsVerdict, AbsCurrent
  <2>4. CASE ShutdownWakes(s)
    <3>1. AbsVerdict' = [AbsVerdict EXCEPT ![s] = "ok"]
      BY <2>4 DEF ShutdownWakes, AbsVerdict
    <3>2. AbsVerdict[s] = "waiting"
      BY <2>4 DEF ShutdownWakes, AbsVerdict
    <3>3. AbsPhase[stopped[s]] = "ended"
      BY <2>4 DEF ShutdownWakes, Waiting, AbsPhase
    <3>4. UNCHANGED <<AbsCurrent, stopped>>
      BY <2>4 DEF ShutdownWakes, AbsCurrent
    <3> QED BY <2>0, <3>1, <3>2, <3>3, <3>4 DEF Lifecycle!Next, Lifecycle!StopDone
  <2>5. CASE ContextDone(s)
    <3>1. AbsVerdict' = [AbsVerdict EXCEPT ![s] = "ctxErr"]
      BY <2>5 DEF ContextDone, AbsVerdict
    <3>2. AbsVerdict[s] = "waiting"
      BY <2>5 DEF ContextDone, AbsVerdict
    <3>3. UNCHANGED <<AbsCurrent, stopped>>
      BY <2>5 DEF ContextDone, AbsCurrent
    <3> QED BY <2>0, <3>1, <3>2, <3>3 DEF Lifecycle!Next, Lifecycle!StopGivesUp
  <2> QED BY <1>3, <2>1, <2>2, <2>3, <2>4, <2>5 DEF StopStep
<1>4. ASSUME NEW b \in Buffers, PoolDrop(b) PROVE [Lifecycle!Next]_(Lifecycle!vars)
  BY <1>4 DEF PoolDrop, AbsCurrent, AbsPhase, AbsTask, AbsVerdict
<1>5. CASE UNCHANGED vars
  BY <1>5 DEF vars, AbsCurrent, AbsPhase, AbsTask, AbsVerdict
<1> QED BY <1>1, <1>2, <1>3, <1>4, <1>5 DEF Next

\* The UDP server implements the abstract server, for any number of runs,
\* packets, buffers and stoppers: no packet is read after the stop, and a
\* Shutdown that was not cut short returns after the last packet is served.
THEOREM UDPImplementsLifecycle == ~ Overlap => (Spec => ImplementsLifecycle)
<1> SUFFICES ASSUME ~ Overlap PROVE Spec => Lifecycle!Spec
  BY DEF ImplementsLifecycle
<1>1. Init => Lifecycle!Init
  BY DEF Init, Lifecycle!Init, AbsCurrent, AbsPhase, AbsTask, AbsVerdict
<1>2. IInv /\ [Next]_vars => [Lifecycle!Next]_(Lifecycle!vars)
  BY LifecycleStep
<1>3. Spec => []IInv
  BY Invariance
<1> QED BY <1>1, <1>2, <1>3, PTL DEF Spec, Lifecycle!Spec

=============================================================================
