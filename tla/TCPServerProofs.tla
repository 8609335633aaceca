--------------------------- MODULE TCPServerProofs ---------------------------
(***************************************************************************)
(* Proofs about TCPServer for any number of runs, connections and          *)
(* stoppers and any query limit.  TypeCorrect holds of every caller; the   *)
(* other theorems assume ~ Overlap, a caller that waits for its earlier    *)
(* calls to return before it starts the server again (the overlap run      *)
(* shows that they fail without it).                                       *)
(***************************************************************************)
EXTENDS TCPServer, TLAPS

-----------------------------------------------------------------------------
(* Type correctness.                                                       *)

\* A run that is past init() has a channel to close.
ChannelMade == \A r \in Runs : Active(r) => shutdown \in Runs

\* A goroutine inside an iteration of the query loop is below the limit.
QueryBound ==
  \A c \in Conns :
    wpc[c] \in {"arm", "reading", "serve", "handler"} => Unlimited \/ q[c] < limit

TInv == TypeOK /\ ChannelMade /\ QueryBound

\* The limit of serveTCPConn is an integer, whatever MaxTCPQueries is.
LEMMA LimitInt == limit \in Int /\ Unlimited \in BOOLEAN
  BY TCPServerAssumption DEF limit, Unlimited

\* The first state has the declared types.
LEMMA TInvInit == Init => TInv
<1> SUFFICES ASSUME Init PROVE TInv
  OBVIOUS
<1>1. TypeOK
  <2>1. \A c \in Conns : q[c] = 0
    BY DEF Init
  <2>2. \A c \in Conns : q[c] > 0 => q[c] <= limit
    BY <2>1, LimitInt
  <2> QED BY <2>2 DEF Init, TypeOK, Listeners, PC, WPC, SPC
<1>2. ChannelMade
  BY DEF Init, ChannelMade, Active
<1>3. QueryBound
  BY DEF Init, QueryBound
<1> QED BY <1>1, <1>2, <1>3 DEF TInv

\* Every step of the server preserves the declared types.
LEMMA TInvStep == TInv /\ [Next]_vars => TInv'
<1> SUFFICES ASSUME TInv, [Next]_vars PROVE TInv'
  OBVIOUS
<1> USE TCPServerAssumption, LimitInt DEF TInv, TypeOK, ChannelMade, QueryBound,
        Active, Listeners, PC, WPC, SPC, srvVars, runVars, connVars, stopVars
<1>1. ASSUME NEW r \in Runs, RunStep(r) PROVE TInv'
  <2>1. CASE AlreadyStarted(r)     BY <2>1 DEF AlreadyStarted
  <2>2. CASE StartFails(r)         BY <2>2 DEF StartFails, init
  <2>3. CASE ListenAndServe(r)     BY <2>3 DEF ListenAndServe, init
  <2>4. CASE ActivateAndServe(r)   BY <2>4 DEF ActivateAndServe, init
  <2>5. CASE CheckStarted(r)       BY <2>5 DEF CheckStarted
  <2>6. CASE AcceptError(r)        BY <2>6 DEF AcceptError
  <2>7. CASE AcceptClosed(r)       BY <2>7 DEF AcceptClosed
  <2>8. CASE HandleAcceptError(r)  BY <2>8 DEF HandleAcceptError
  <2>9. CASE TrackConn(r)          BY <2>9 DEF TrackConn
  <2>10. CASE Drained(r)           BY <2>10 DEF Drained
  <2>11. CASE ReturnFromServe(r)   BY <2>11 DEF ReturnFromServe
  <2>12. CASE ReadListenerField(r) BY <2>12 DEF ReadListenerField
  <2>13. CASE \E c \in Conns : Accept(r, c) BY <2>13 DEF Accept
  <2> QED BY <1>1, <2>1, <2>2, <2>3, <2>4, <2>5, <2>6, <2>7, <2>8, <2>9,
             <2>10, <2>11, <2>12, <2>13 DEF RunStep
<1>2. ASSUME NEW c \in Conns, ConnStep(c) PROVE TInv'
  <2>1. CASE LoopTest(c)            BY <2>1 DEF LoopTest
  <2>2. CASE ArmDeadline(c)         BY <2>2 DEF ArmDeadline
  <2>3. CASE ReadTCP(c)             BY <2>3 DEF ReadTCP
  <2>4. CASE ReadTimeout(c)         BY <2>4 DEF ReadTimeout
  <2>5. CASE PeerGone(c)            BY <2>5 DEF PeerGone
  <2>6. CASE ServeWithoutHandler(c) BY <2>6 DEF ServeWithoutHandler, AfterServeDNS
  <2>7. CASE CallHandler(c)         BY <2>7 DEF CallHandler
  <2>8. CASE Hijack(c)              BY <2>8 DEF Hijack
  <2>9. CASE HandlerClose(c)        BY <2>9 DEF HandlerClose
  <2>10. CASE HandlerReturns(c)     BY <2>10 DEF HandlerReturns, AfterServeDNS
  <2>11. CASE CloseConn(c)          BY <2>11 DEF CloseConn
  <2>12. CASE UntrackConn(c)        BY <2>12 DEF UntrackConn
  <2>13. CASE WgDone(c)             BY <2>13 DEF WgDone
  <2> QED BY <1>2, <2>1, <2>2, <2>3, <2>4, <2>5, <2>6, <2>7, <2>8, <2>9,
             <2>10, <2>11, <2>12, <2>13 DEF ConnStep
<1>3. ASSUME NEW s \in Stoppers, StopStep(s) PROVE TInv'
  <2>1. CASE ShutdownNotStarted(s) BY <2>1 DEF ShutdownNotStarted
  <2>2. CASE ShutdownContext(s)    BY <2>2 DEF ShutdownContext
  <2>3. CASE EnterSelect(s)        BY <2>3 DEF EnterSelect
  <2>4. CASE ShutdownReturns(s)    BY <2>4 DEF ShutdownReturns
  <2>5. CASE ContextDone(s)        BY <2>5 DEF ContextDone
  <2> QED BY <1>3, <2>1, <2>2, <2>3, <2>4, <2>5 DEF StopStep
<1>4. CASE UNCHANGED vars
  BY <1>4 DEF vars
<1> QED BY <1>1, <1>2, <1>3, <1>4 DEF Next

\* Every variable keeps its type and no connection is served more queries
\* than MaxTCPQueries allows, in every behaviour of the server.
THEOREM TypeCorrect == Spec => []TypeOK
<1>1. TInv => TypeOK
  BY DEF TInv
<1> QED BY <1>1, TInvInit, TInvStep, PTL DEF Spec

-----------------------------------------------------------------------------
(***************************************************************************)
(* The inductive invariant behind the safety properties, part by part.     *)
(***************************************************************************)

\* There is one run at a time, srv.shutdown is its channel, and the channel
\* is closed exactly from the deferred function on.
OneRun ==
  /\ \A r \in Runs : Active(r) => shutdown = r
  /\ \A r \in closedCh : pc[r] \in {"closeLn", "returned"}
  /\ \A r \in Runs : pc[r] = "closeLn" => r \in closedCh
  /\ started => shutdown \in Runs
  /\ ~ panicked

\* A connection between Accept and go serveTCPConn is in its run's hands.
Pending ==
  /\ \A c \in Conns : owner[c] = None => wpc[c] = "none"
  /\ \A c \in Conns, r \in Runs :
       owner[c] = r /\ wpc[c] = "none" => pc[r] = "track" /\ accepted[r] = {c}
  /\ \A r \in Runs : \A c \in accepted[r] : owner[c] = r /\ wpc[c] = "none"

\* A live goroutine is counted by a WaitGroup that somebody still waits for.
Counted ==
  \A c \in Conns : Live(c) =>
    /\ c \in wg[owner[c]]
    /\ pc[owner[c]] \notin {"idle", "closeLn", "returned"}

\* A goroutine that may read or be about to read is in srv.conns.
Tracked ==
  \A c \in Conns : wpc[c] \notin {"none", "wgDone", "done"} => c \in conns

\* After the loop of serveTCPConn the connection is closed or given away.
Disposed ==
  /\ \A c \in Conns : wpc[c] \in {"untrack", "wgDone", "done"} =>
       closedBy[c] # "nobody" \/ hijacked[c]
  /\ \A c \in Conns : closedBy[c] = "server" =>
       wpc[c] \in {"untrack", "wgDone", "done"} /\ ~ hijacked[c]

\* A stopper waits on the channel of the run it stopped.
Waiting ==
  /\ \A s \in Stoppers : spc[s] \in {"select", "wait"} => stopped[s] = shutdown
  /\ \A s \in Stoppers : spc[s] = "wait" => waitCh[s] = shutdown
  /\ \A s \in Stoppers : result[s] = "ok" =>
       spc[s] = "returned" /\ stopped[s] \in closedCh

\* The listener of a run that has begun is not one a later run opens.
Listening ==
  /\ \A r \in Runs : pc[r] = "idle" => ln[r] = None
  /\ \A r, r2 \in Runs : ln[r] = r2 => pc[r2] # "idle"
  /\ listener \in Runs => pc[listener] # "idle"
  /\ \A r \in Runs : pc[r] = "returned" /\ ln[r] # None => ln[r] \notin lnOpen

\* A run serves the listener that ShutdownContext closes, so that the listener
\* of a stopped run is closed; a call of Shutdown has no result before it ends.
Stopping ==
  /\ \A r \in Runs : Active(r) /\ pc[r] # "activate" => ln[r] = listener
  /\ \A r \in Runs : Active(r) /\ ~ started => listener \notin lnOpen
  /\ \A s \in Stoppers : spc[s] = "idle" => result[s] = "none"

IInv ==
  /\ TInv
  /\ OneRun
  /\ Pending
  /\ Counted
  /\ Tracked
  /\ Disposed
  /\ Waiting
  /\ Listening
  /\ Stopping
  /\ StoppedReadsUnblocked

\* The initial state satisfies the invariant.
LEMMA IInvInit == Init => IInv
<1> SUFFICES ASSUME Init PROVE IInv
  OBVIOUS
<1>1. TInv
  BY TInvInit
<1>2. OneRun /\ Waiting
  BY DEF Init, OneRun, Waiting, Active
<1>3. Pending /\ Counted /\ Tracked /\ Disposed
  BY TCPServerAssumption DEF Init, Pending, Counted, Tracked, Disposed, Live
<1>4. Listening /\ Stopping
  BY TCPServerAssumption DEF Init, Listening, Stopping, Active
<1>5. StoppedReadsUnblocked
  BY DEF Init, StoppedReadsUnblocked
<1> QED BY <1>1, <1>2, <1>3, <1>4, <1>5 DEF IInv

\* Every step preserves the invariant when runs do not overlap.
LEMMA IInvStep ==
  ASSUME ~ Overlap, IInv, [Next]_vars
  PROVE  IInv'
<1>0. TInv'
  BY TInvStep DEF IInv
<1> USE TCPServerAssumption, <1>0 DEF IInv, TInv, TypeOK, OneRun, Pending, Counted, Tracked,
        Disposed, Waiting, Listening, Stopping, StoppedReadsUnblocked, Active, Live,
        Listeners, PC, WPC, SPC, srvVars, runVars, connVars, stopVars
<1>1. ASSUME NEW r \in Runs, RunStep(r) PROVE IInv'
  <2>1. CASE AlreadyStarted(r)
    BY <2>1 DEF AlreadyStarted
  <2>2. CASE StartFails(r)
    <3>1. OneRun'
      BY <2>2 DEF StartFails, MayCall, init
    <3>5. Waiting'
      BY <2>2 DEF StartFails, MayCall, init
    <3>2. Pending' /\ Counted' /\ Tracked'
      BY <2>2 DEF StartFails, MayCall, init
    <3>3. Disposed' /\ StoppedReadsUnblocked'
      BY <2>2 DEF StartFails, init
    <3>4. Listening' /\ Stopping'
      BY <2>2 DEF StartFails, MayCall, init
    <3> QED BY <3>1, <3>2, <3>3, <3>4, <3>5
  <2>3. CASE ListenAndServe(r)
    <3>1. OneRun'
      BY <2>3 DEF ListenAndServe, MayCall, init
    <3>5. Waiting'
      BY <2>3 DEF ListenAndServe, MayCall, init
    <3>2. Pending' /\ Counted' /\ Tracked'
      BY <2>3 DEF ListenAndServe, MayCall, init
    <3>3. Disposed' /\ StoppedReadsUnblocked'
      BY <2>3 DEF ListenAndServe, init
    <3>4. Listening' /\ Stopping'
      BY <2>3 DEF ListenAndServe, MayCall, init
    <3> QED BY <3>1, <3>2, <3>3, <3>4, <3>5
  <2>4. CASE ActivateAndServe(r)
    <3>1. OneRun'
      BY <2>4 DEF ActivateAndServe, MayCall, init
    <3>5. Waiting'
      BY <2>4 DEF ActivateAndServe, MayCall, init
    <3>2. Pending' /\ Counted' /\ Tracked'
      BY <2>4 DEF ActivateAndServe, MayCall, init
    <3>3. Disposed' /\ StoppedReadsUnblocked'
      BY <2>4 DEF ActivateAndServe, init
    <3>4. Listening' /\ Stopping'
      BY <2>4 DEF ActivateAndServe, MayCall, init
    <3> QED BY <3>1, <3>2, <3>3, <3>4, <3>5
  <2>5. CASE CheckStarted(r)
    BY <2>5 DEF CheckStarted
  <2>6. CASE AcceptError(r)
    BY <2>6 DEF AcceptError
  <2>7. CASE AcceptClosed(r)
    BY <2>7 DEF AcceptClosed
  <2>8. CASE HandleAcceptError(r)
    BY <2>8 DEF HandleAcceptError
  <2>9. CASE TrackConn(r)
    BY <2>9 DEF TrackConn
  <2>10. CASE Drained(r)
    BY <2>10 DEF Drained
  <2>11. CASE ReturnFromServe(r)
    BY <2>11 DEF ReturnFromServe
  <2>12. CASE ReadListenerField(r)
    BY <2>12 DEF ReadListenerField
  <2>13. CASE \E c \in Conns : Accept(r, c)
    BY <2>13 DEF Accept
  <2> QED BY <1>1, <2>1, <2>2, <2>3, <2>4, <2>5, <2>6, <2>7, <2>8, <2>9, <2>10, <2>11, <2>12, <2>13 DEF RunStep
<1>2. ASSUME NEW c \in Conns, ConnStep(c) PROVE IInv'
  <2>1. CASE LoopTest(c)
    BY <2>1 DEF LoopTest
  <2>2. CASE ArmDeadline(c)
    BY <2>2 DEF ArmDeadline
  <2>3. CASE ReadTCP(c)
    BY <2>3 DEF ReadTCP
  <2>4. CASE ReadTimeout(c)
    BY <2>4 DEF ReadTimeout
  <2>5. CASE PeerGone(c)
    BY <2>5 DEF PeerGone
  <2>6. CASE ServeWithoutHandler(c)
    <3>1. CASE wpc' = [wpc EXCEPT ![c] = "close"]
      BY <2>6, <3>1 DEF ServeWithoutHandler
    <3>2. CASE wpc' = [wpc EXCEPT ![c] = "loop"]
      BY <2>6, <3>2 DEF ServeWithoutHandler
    <3> QED BY <2>6, <3>1, <3>2 DEF ServeWithoutHandler, AfterServeDNS
  <2>7. CASE CallHandler(c)
    BY <2>7 DEF CallHandler
  <2>8. CASE Hijack(c)
    BY <2>8 DEF Hijack
  <2>9. CASE HandlerClose(c)
    BY <2>9 DEF HandlerClose
  <2>10. CASE HandlerReturns(c)
    <3>1. CASE wpc' = [wpc EXCEPT ![c] = "close"]
      BY <2>10, <3>1 DEF HandlerReturns
    <3>2. CASE wpc' = [wpc EXCEPT ![c] = "loop"]
      BY <2>10, <3>2 DEF HandlerReturns
    <3> QED BY <2>10, <3>1, <3>2 DEF HandlerReturns, AfterServeDNS
  <2>11. CASE CloseConn(c)
    BY <2>11 DEF CloseConn
  <2>12. CASE UntrackConn(c)
    BY <2>12 DEF UntrackConn
  <2>13. CASE WgDone(c)
    BY <2>13 DEF WgDone
  <2> QED BY <1>2, <2>1, <2>2, <2>3, <2>4, <2>5, <2>6, <2>7, <2>8, <2>9, <2>10, <2>11, <2>12, <2>13 DEF ConnStep
<1>3. ASSUME NEW s \in Stoppers, StopStep(s) PROVE IInv'
  <2>1. CASE ShutdownNotStarted(s)
    BY <2>1 DEF ShutdownNotStarted
  <2>2. CASE ShutdownContext(s)
    BY <2>2 DEF ShutdownContext
  <2>3. CASE EnterSelect(s)
    BY <2>3 DEF EnterSelect
  <2>4. CASE ShutdownReturns(s)
    BY <2>4 DEF ShutdownReturns
  <2>5. CASE ContextDone(s)
    BY <2>5 DEF ContextDone
  <2> QED BY <1>3, <2>1, <2>2, <2>3, <2>4, <2>5 DEF StopStep
<1>4. CASE UNCHANGED vars
  BY <1>4 DEF vars
<1> QED BY <1>1, <1>2, <1>3, <1>4 DEF Next

\* The invariant holds in every state of a server whose caller does not
\* overlap runs.
LEMMA Invariance == ~ Overlap => (Spec => []IInv)
<1> SUFFICES ASSUME ~ Overlap PROVE Spec => []IInv
  OBVIOUS
<1>1. IInv /\ [Next]_vars => IInv'
  BY IInvStep
<1> QED BY <1>1, IInvInit, PTL DEF Spec

\* readTCP never undoes the deadline by which ShutdownContext unblocks reads:
\* after the stop no goroutine sits in a read that nothing will end.
THEOREM StoppedReadsAreUnblocked == ~ Overlap => (Spec => []StoppedReadsUnblocked)
<1>1. IInv => StoppedReadsUnblocked
  BY DEF IInv
<1> QED BY <1>1, Invariance, PTL

\* A closed shutdown channel means that the run's goroutines are done.
LEMMA ClosedMeansDone ==
  ASSUME IInv, NEW r \in closedCh, NEW c \in Conns, owner[c] = r
  PROVE  wpc[c] = "done" /\ (closedBy[c] # "nobody" \/ hijacked[c])
<1>1. r \in Runs /\ pc[r] \in {"closeLn", "returned"}
  BY DEF IInv, TInv, TypeOK, OneRun
<1>2. ~ Live(c) /\ wpc[c] # "none"
  BY <1>1 DEF IInv, Counted, Pending
<1>3. wpc[c] = "done"
  BY <1>2 DEF Live
<1> QED BY <1>3 DEF IInv, Disposed

\* A Shutdown that returns nil has waited for every connection of the run it
\* stopped, whatever accepts, reads, handlers and stoppers raced with it.
THEOREM ShutdownWaits == ~ Overlap => (Spec => []ShutdownDrains)
<1>1. IInv => ShutdownDrains
  BY ClosedMeansDone DEF ShutdownDrains, IInv, Waiting
<1> QED BY <1>1, Invariance, PTL

\* close(srv.shutdown) never panics.
THEOREM ChannelClosedOnce == ~ Overlap => (Spec => []NoDoubleClose)
<1>1. IInv => NoDoubleClose
  BY DEF IInv, OneRun, NoDoubleClose
<1> QED BY <1>1, Invariance, PTL

\* A ListenAndServe or ActivateAndServe that has returned leaves neither an
\* open listener nor a goroutine behind.
THEOREM ServeLeavesNothing == ~ Overlap => (Spec => []ServeReturnsClean)
<1>1. IInv => ServeReturnsClean
  <2> SUFFICES ASSUME IInv, NEW r \in Runs, pc[r] = "returned", ln[r] # None
               PROVE  /\ ln[r] \notin lnOpen
                      /\ \A c \in Conns : owner[c] = r => wpc[c] = "done"
    BY DEF ServeReturnsClean
  <2>1. ln[r] \notin lnOpen
    BY DEF IInv, Listening
  <2>2. ASSUME NEW c \in Conns, owner[c] = r PROVE wpc[c] = "done"
    BY <2>2 DEF IInv, Pending, Counted, Live
  <2> QED BY <2>1, <2>2
<1> QED BY <1>1, Invariance, PTL

\* The server never calls Close on a connection its handler hijacked, before
\* or after the hijack.
THEOREM HijackedLeftOpen == ~ Overlap => (Spec => []HijackedNotClosedByServer)
<1>1. IInv => HijackedNotClosedByServer
  BY DEF IInv, Disposed, HijackedNotClosedByServer
<1> QED BY <1>1, Invariance, PTL
-----------------------------------------------------------------------------
(***************************************************************************)
(* Refinement.  Begin is what needs an argument: Accept runs without       *)
(* srv.lock, and only a closed listener keeps it from starting work after  *)
(* the stop (Stopping).                                                    *)
(***************************************************************************)

\* A step of the server is a step of the abstract server or none.
LEMMA LifecycleStep ==
  ASSUME ~ Overlap, IInv, [Next]_vars
  PROVE  [Lifecycle!Next]_(Lifecycle!vars)
<1> USE TCPServerAssumption DEF IInv, TInv, TypeOK, OneRun, Active, Live, Listeners,
        PC, WPC, SPC, srvVars, runVars, connVars, stopVars, Lifecycle!vars
<1>1. ASSUME NEW r \in Runs, RunStep(r) PROVE [Lifecycle!Next]_(Lifecycle!vars)
  <2>1. CASE AlreadyStarted(r) \/ StartFails(r)
    <3>0. pc' = [pc EXCEPT ![r] = "returned"]
      BY <2>1 DEF AlreadyStarted, StartFails
    <3>1. AbsPhase' = [AbsPhase EXCEPT ![r] = "ended"]
      BY <3>0 DEF AbsPhase
    <3>6. AbsPhase[r] = "new"
      BY <2>1 DEF AlreadyStarted, StartFails, MayCall, AbsPhase
    <3>2. UNCHANGED <<AbsCurrent, owner, AbsTask, stopped, AbsVerdict>>
      BY <2>1 DEF AlreadyStarted, StartFails, init, AbsCurrent, AbsTask, AbsVerdict
    <3> QED BY <3>1, <3>6, <3>2 DEF Lifecycle!Next, Lifecycle!Refuse
  <2>2. CASE ListenAndServe(r) \/ ActivateAndServe(r)
    <3>0. PICK x \in {"check", "activate"} : pc' = [pc EXCEPT ![r] = x]
      BY <2>2 DEF ListenAndServe, ActivateAndServe
    <3>1. AbsPhase' = [AbsPhase EXCEPT ![r] = "serving"]
      BY <3>0 DEF AbsPhase
    <3>6. AbsPhase[r] = "new"
      BY <2>2 DEF ListenAndServe, ActivateAndServe, MayCall, AbsPhase
    <3>2. \A r2 \in Runs : AbsPhase[r2] # "serving"
      BY <2>2 DEF ListenAndServe, ActivateAndServe, MayCall, AbsPhase
    <3>3. AbsCurrent = None /\ AbsCurrent' = r
      BY <2>2 DEF ListenAndServe, ActivateAndServe, init, AbsCurrent
    <3>4. UNCHANGED <<owner, AbsTask, stopped, AbsVerdict>>
      BY <2>2 DEF ListenAndServe, ActivateAndServe, AbsTask, AbsVerdict
    <3> QED BY <3>1, <3>6, <3>2, <3>3, <3>4 DEF Lifecycle!Next, Lifecycle!Start
  <2>3. CASE Drained(r)
    <3>1. \A c \in Conns : owner[c] = r => wpc[c] = "done"
      BY <2>3 DEF Drained, Pending, Counted
    <3>2. \A c \in Conns : owner[c] = r => AbsTask[c] = "done"
      BY <3>1 DEF AbsTask
    <3>3. AbsPhase' = [AbsPhase EXCEPT ![r] = "ended"]
      BY <2>3 DEF Drained, AbsPhase
    <3>6. AbsPhase[r] = "serving"
      BY <2>3 DEF Drained, AbsPhase
    <3>4. UNCHANGED <<AbsCurrent, owner, AbsTask, stopped, AbsVerdict>>
      BY <2>3 DEF Drained, AbsCurrent, AbsTask, AbsVerdict
    <3> QED BY <3>2, <3>3, <3>6, <3>4 DEF Lifecycle!Next, Lifecycle!End
  <2>4. ASSUME NEW c \in Conns, Accept(r, c) PROVE Lifecycle!Begin(r, c)
    <3>1. AbsCurrent = r
      BY <2>4 DEF Accept, Stopping, AbsCurrent
    <3>2. AbsPhase[r] = "serving" /\ AbsTask[c] = "new"
      BY <2>4 DEF Accept, AbsPhase, AbsTask
    <3>3. AbsTask' = [AbsTask EXCEPT ![c] = "busy"]
      BY <2>4 DEF Accept, Pending, AbsTask
    <3>4. UNCHANGED <<AbsCurrent, AbsPhase, stopped, AbsVerdict>>
      BY <2>4 DEF Accept, AbsCurrent, AbsPhase, AbsVerdict
    <3>5. owner' = [owner EXCEPT ![c] = r]
      BY <2>4 DEF Accept
    <3> QED BY <3>1, <3>2, <3>3, <3>4, <3>5 DEF Lifecycle!Begin
  <2>5. CASE TrackConn(r)
    BY <2>5 DEF TrackConn, Pending, AbsCurrent, AbsPhase, AbsTask, AbsVerdict
  <2>6. CASE \/ ReadListenerField(r) \/ CheckStarted(r) \/ AcceptError(r)
             \/ AcceptClosed(r) \/ HandleAcceptError(r) \/ ReturnFromServe(r)
    <3>1. UNCHANGED <<AbsCurrent, owner, AbsTask, stopped, AbsVerdict>>
      BY <2>6 DEF ReadListenerField, CheckStarted, AcceptError, AcceptClosed,
                  HandleAcceptError, ReturnFromServe, AbsCurrent, AbsTask, AbsVerdict
    <3>2. UNCHANGED AbsPhase
      BY <2>6 DEF ReadListenerField, CheckStarted, AcceptError, AcceptClosed,
                  HandleAcceptError, ReturnFromServe, AbsPhase
    <3> QED BY <3>1, <3>2
  <2> QED BY <1>1, <2>1, <2>2, <2>3, <2>4, <2>5, <2>6 DEF RunStep, Lifecycle!Next
<1>2. ASSUME NEW c \in Conns, ConnStep(c) PROVE [Lifecycle!Next]_(Lifecycle!vars)
  <2>1. CASE WgDone(c)
    <3>1. AbsTask' = [AbsTask EXCEPT ![c] = "done"]
      BY <2>1 DEF WgDone, Pending, AbsTask
    <3>6. AbsTask[c] = "busy"
      BY <2>1 DEF WgDone, Pending, AbsTask
    <3>2. UNCHANGED <<AbsCurrent, AbsPhase, owner, stopped, AbsVerdict>>
      BY <2>1 DEF WgDone, AbsCurrent, AbsPhase, AbsVerdict
    <3> QED BY <3>1, <3>6, <3>2 DEF Lifecycle!Next, Lifecycle!Finish
  <2>2. CASE ~ WgDone(c)
    <3>1. UNCHANGED <<started, shutdown, pc, owner, spc, stopped, result>>
      BY <1>2, <2>2 DEF ConnStep, LoopTest, ArmDeadline, ReadTCP, ReadTimeout,
         PeerGone, ServeWithoutHandler, CallHandler, Hijack, HandlerClose,
         HandlerReturns, CloseConn, UntrackConn
    <3>2. (wpc'[c] # "done" /\ wpc[c] # "done") \/ UNCHANGED wpc
      BY <1>2, <2>2 DEF ConnStep, LoopTest, ArmDeadline, ReadTCP, ReadTimeout,
         PeerGone, ServeWithoutHandler, CallHandler, Hijack, HandlerClose,
         HandlerReturns, CloseConn, UntrackConn, AfterServeDNS
    <3>3. \A c2 \in Conns \ {c} : wpc'[c2] = wpc[c2]
      BY <1>2, <2>2 DEF ConnStep, LoopTest, ArmDeadline, ReadTCP, ReadTimeout,
         PeerGone, ServeWithoutHandler, CallHandler, Hijack, HandlerClose,
         HandlerReturns, CloseConn, UntrackConn, AfterServeDNS
    <3>4. UNCHANGED AbsTask
      BY <3>1, <3>2, <3>3 DEF AbsTask
    <3>5. UNCHANGED <<AbsCurrent, AbsPhase, AbsVerdict>>
      BY <3>1 DEF AbsCurrent, AbsPhase, AbsVerdict
    <3> QED BY <3>1, <3>4, <3>5
  <2> QED BY <2>1, <2>2
<1>3. ASSUME NEW s \in Stoppers, StopStep(s) PROVE [Lifecycle!Next]_(Lifecycle!vars)
  <2>0. UNCHANGED <<AbsPhase, owner, AbsTask>>
    BY <1>3 DEF StopStep, ShutdownNotStarted, ShutdownContext, EnterSelect,
       ShutdownReturns, ContextDone, AbsPhase, AbsTask
  <2>1. CASE ShutdownNotStarted(s)
    <3>1. AbsVerdict' = [AbsVerdict EXCEPT ![s] = "notStarted"]
      BY <2>1 DEF ShutdownNotStarted, AbsVerdict
    <3>2. AbsVerdict[s] = "none" /\ AbsCurrent = None
      BY <2>1 DEF ShutdownNotStarted, Stopping, AbsVerdict, AbsCurrent
    <3>3. UNCHANGED <<AbsCurrent, stopped>>
      BY <2>1 DEF ShutdownNotStarted, AbsCurrent
    <3> QED BY <2>0, <3>1, <3>2, <3>3 DEF Lifecycle!Next, Lifecycle!StopRefused
  <2>2. CASE ShutdownContext(s)
    <3>1. AbsVerdict' = [AbsVerdict EXCEPT ![s] = "waiting"]
      BY <2>2 DEF ShutdownContext, AbsVerdict
    <3>2. AbsVerdict[s] = "none"
      BY <2>2 DEF ShutdownContext, Stopping, AbsVerdict
    <3>3. /\ AbsCurrent # None
          /\ AbsCurrent' = None
          /\ stopped' = [stopped EXCEPT ![s] = AbsCurrent]
      BY <2>2 DEF ShutdownContext, AbsCurrent
    <3> QED BY <2>0, <3>1, <3>2, <3>3 DEF Lifecycle!Next, Lifecycle!Stop
  <2>3. CASE EnterSelect(s)
    BY <2>0, <2>3 DEF EnterSelect, AbsVerdict, AbsCurrent
  <2>4. CASE ShutdownReturns(s)
    <3>1. AbsVerdict' = [AbsVerdict EXCEPT ![s] = "ok"]
      BY <2>4 DEF ShutdownReturns, AbsVerdict
    <3>6. AbsVerdict[s] = "waiting"
      BY <2>4 DEF ShutdownReturns, AbsVerdict
    <3>2. AbsPhase[stopped[s]] = "ended"
      BY <2>4 DEF ShutdownReturns, Waiting, AbsPhase
    <3>3. UNCHANGED <<AbsCurrent, stopped>>
      BY <2>4 DEF ShutdownReturns, AbsCurrent
    <3> QED BY <2>0, <3>1, <3>6, <3>2, <3>3 DEF Lifecycle!Next, Lifecycle!StopDone
  <2>5. CASE ContextDone(s)
    <3>1. AbsVerdict' = [AbsVerdict EXCEPT ![s] = "ctxErr"]
      BY <2>5 DEF ContextDone, AbsVerdict
    <3>6. AbsVerdict[s] = "waiting"
      BY <2>5 DEF ContextDone, AbsVerdict
    <3>2. UNCHANGED <<AbsCurrent, stopped>>
      BY <2>5 DEF ContextDone, AbsCurrent
    <3> QED BY <2>0, <3>1, <3>6, <3>2 DEF Lifecycle!Next, Lifecycle!StopGivesUp
  <2> QED BY <1>3, <2>1, <2>2, <2>3, <2>4, <2>5 DEF StopStep
<1>4. CASE UNCHANGED vars
  BY <1>4 DEF vars, AbsCurrent, AbsPhase, AbsTask, AbsVerdict
<1> QED BY <1>1, <1>2, <1>3, <1>4 DEF Next

\* The TCP server implements the abstract server, for any number of runs,
\* connections and stoppers: one run at a time, no connection accepted after
\* the stop, no end before the last wg.Done, no nil from Shutdown before it.
THEOREM TCPImplementsLifecycle == ~ Overlap => (Spec => ImplementsLifecycle)
<1> SUFFICES ASSUME ~ Overlap PROVE Spec => Lifecycle!Spec
  BY DEF ImplementsLifecycle
<1>1. Init => Lifecycle!Init
  BY TCPServerAssumption DEF Init, Lifecycle!Init, AbsCurrent, AbsPhase, AbsTask, AbsVerdict
<1>2. IInv /\ [Next]_vars => [Lifecycle!Next]_(Lifecycle!vars)
  BY LifecycleStep
<1>3. Spec => []IInv
  BY Invariance
<1> QED BY <1>1, <1>2, <1>3, PTL DEF Spec, Lifecycle!Spec
=============================================================================
