------------------------------ MODULE TCPServer ------------------------------
(***************************************************************************)
(* The life cycle of a Server that listens on TCP or TLS (server.go):      *)
(* ListenAndServe and ActivateAndServe with the accept loop of serveTCP,   *)
(* one serveTCPConn goroutine per connection, and ShutdownContext, all     *)
(* running concurrently on one Server value.                               *)
(*                                                                         *)
(* A run r is one call of ListenAndServe or ActivateAndServe; a stopper s  *)
(* is one call of Shutdown or ShutdownContext; a connection c also names   *)
(* its goroutine and its response value w.  Every block under srv.lock is  *)
(* one step, as is every other access to shared state.  The channel        *)
(* srv.shutdown is named after the run whose init() made it, and so is a   *)
(* listener that listenTCP opened.  What a message is and how it is        *)
(* answered is the subject of module ServeDNS.                             *)
(***************************************************************************)
EXTENDS Integers, FiniteSets

CONSTANTS
  Runs,          \* calls of ListenAndServe / ActivateAndServe
  Conns,         \* connections clients open
  Stoppers,      \* calls of Shutdown / ShutdownContext
  CtxStoppers,   \* the stoppers whose context may be done before the drain
  MaxTCPQueries, \* Server.MaxTCPQueries: 0 is the default, -1 is unlimited
  maxTCPQueries, \* the default of MaxTCPQueries (128 in the code)
  Overlap,       \* may a call start while an earlier run is still draining?
  GivenLn,       \* the listener a caller put in Server.Listener
  None           \* no run, no channel, no listener (nil)

ASSUME TCPServerAssumption ==
  /\ CtxStoppers \subseteq Stoppers
  /\ MaxTCPQueries \in Int
  /\ maxTCPQueries \in Nat \ {0}
  /\ Overlap \in BOOLEAN
  /\ GivenLn \notin Runs
  /\ None \notin Runs \cup {GivenLn}

VARIABLES
  started,   \* srv.started
  shutdown,  \* srv.shutdown: the run that made the channel
  closedCh,  \* the shutdown channels that have been closed
  listener,  \* srv.Listener
  lnOpen,    \* the listeners that are open
  conns,     \* srv.conns
  pc,        \* where each run is in serveTCP
  ln,        \* the listener l a run serves
  accepted,  \* the connection rw a run has accepted and not yet tracked
  wg,        \* each run's WaitGroup, as the goroutines it still waits for
  wpc,       \* where each connection's goroutine is in serveTCPConn
  owner,     \* the run that started a connection's goroutine
  q,         \* the query counter of serveTCPConn
  deadline,  \* the read deadline of a connection
  closedBy,  \* who called Close on a connection
  hijacked,  \* w.hijacked
  spc,       \* where each stopper is in ShutdownContext
  stopped,   \* the run a stopper told to stop
  waitCh,    \* the channel a stopper's select waits on
  result,    \* what a stopper returned
  panicked   \* a goroutine closed a closed channel

srvVars  == <<started, shutdown, closedCh, listener, lnOpen, conns, panicked>>
runVars  == <<pc, ln, accepted, wg>>
connVars == <<wpc, owner, q, deadline, closedBy, hijacked>>
stopVars == <<spc, stopped, waitCh, result>>
vars     == <<srvVars, runVars, connVars, stopVars>>

-----------------------------------------------------------------------------
Listeners == Runs \cup {GivenLn}

PC == {"idle", "activate", "check", "accept", "errTemp", "errPerm", "track", "drain",
       "closeLn", "returned"}

WPC == {"none", "loop", "arm", "reading", "serve", "handler", "close",
        "untrack", "wgDone", "done"}

SPC == {"idle", "select", "wait", "returned"}

\* The goroutines that wg counts.
Live(c) == wpc[c] \notin {"none", "done"}

\* A run between its init() and its return.
Active(r) == pc[r] \notin {"idle", "returned"}

limit == IF MaxTCPQueries = 0 THEN maxTCPQueries ELSE MaxTCPQueries

Unlimited == limit = -1

\* The type invariant.  The query counter never exceeds the limit.
TypeOK ==
  /\ started \in BOOLEAN
  /\ shutdown \in Runs \cup {None}
  /\ closedCh \subseteq Runs
  /\ listener \in Listeners \cup {None}
  /\ lnOpen \subseteq Listeners
  /\ conns \subseteq Conns
  /\ panicked \in BOOLEAN
  /\ pc \in [Runs -> PC]
  /\ ln \in [Runs -> Listeners \cup {None}]
  /\ accepted \in [Runs -> SUBSET Conns]
  /\ wg \in [Runs -> SUBSET Conns]
  /\ wpc \in [Conns -> WPC]
  /\ owner \in [Conns -> Runs \cup {None}]
  /\ q \in [Conns -> Nat]
  /\ \A c \in Conns : q[c] > 0 => q[c] <= limit
  /\ deadline \in [Conns -> {"none", "future", "past"}]
  /\ closedBy \in [Conns -> {"nobody", "handler", "server"}]
  /\ hijacked \in [Conns -> BOOLEAN]
  /\ spc \in [Stoppers -> SPC]
  /\ stopped \in [Stoppers -> Runs \cup {None}]
  /\ waitCh \in [Stoppers -> Runs \cup {None}]
  /\ result \in [Stoppers -> {"none", "ok", "ctxErr", "notStarted"}]

Init ==
  /\ started = FALSE
  /\ shutdown = None
  /\ closedCh = {}
  /\ listener \in {GivenLn, None}
  /\ lnOpen = {GivenLn}
  /\ conns = {}
  /\ panicked = FALSE
  /\ pc = [r \in Runs |-> "idle"]
  /\ ln = [r \in Runs |-> None]
  /\ accepted = [r \in Runs |-> {}]
  /\ wg = [r \in Runs |-> {}]
  /\ wpc = [c \in Conns |-> "none"]
  /\ owner = [c \in Conns |-> None]
  /\ q = [c \in Conns |-> 0]
  /\ deadline = [c \in Conns |-> "none"]
  /\ closedBy = [c \in Conns |-> "nobody"]
  /\ hijacked = [c \in Conns |-> FALSE]
  /\ spc = [s \in Stoppers |-> "idle"]
  /\ stopped = [s \in Stoppers |-> None]
  /\ waitCh = [s \in Stoppers |-> None]
  /\ result = [s \in Stoppers |-> "none"]

-----------------------------------------------------------------------------
(* ListenAndServe and ActivateAndServe.                                    *)

\* The caller's discipline.  The code only looks at srv.started; a caller
\* that waits for its earlier calls to return never overlaps two runs.
MayCall(r) ==
  /\ pc[r] = "idle"
  /\ \/ Overlap
     \/ /\ \A r2 \in Runs : ~ Active(r2)
        /\ \A s \in Stoppers : spc[s] \in {"idle", "returned"}

\* Mutant of init: a restart keeps the channel of the run before it.
initKeepsChannel(r) ==
  /\ shutdown' = IF shutdown = None THEN r ELSE shutdown
  /\ conns' = {}

\* srv.init(): a new channel and a new, empty connection table.
init(r) ==
  /\ shutdown' = r
  /\ conns' = {}

\* The call finds the server started and returns its error.
AlreadyStarted(r) ==
  /\ pc[r] = "idle"
  /\ started
  /\ pc' = [pc EXCEPT ![r] = "returned"]
  /\ UNCHANGED <<srvVars, ln, accepted, wg, connVars, stopVars>>

\* init() is done, then the listener cannot be opened, the TLS configuration
\* is empty or the network is unknown; or ActivateAndServe has no listener.
StartFails(r) ==
  /\ MayCall(r)
  /\ ~ started
  /\ init(r)
  /\ pc' = [pc EXCEPT ![r] = "returned"]
  /\ UNCHANGED <<started, closedCh, listener, lnOpen, panicked,
                 ln, accepted, wg, connVars, stopVars>>

ListenAndServe(r) ==
  /\ MayCall(r)
  /\ ~ started
  /\ init(r)
  /\ lnOpen' = lnOpen \cup {r}
  /\ listener' = r
  /\ ln' = [ln EXCEPT ![r] = r]
  /\ started' = TRUE
  /\ pc' = [pc EXCEPT ![r] = "check"]
  /\ UNCHANGED <<closedCh, panicked, accepted, wg, connVars, stopVars>>

ActivateAndServe(r) ==
  /\ MayCall(r)
  /\ ~ started
  /\ listener # None
  /\ init(r)
  /\ started' = TRUE
  /\ pc' = [pc EXCEPT ![r] = "activate"]
  /\ UNCHANGED <<closedCh, listener, lnOpen, panicked, ln, accepted, wg,
                 connVars, stopVars>>

\* The argument of serveTCP is read after srv.lock is released.
ReadListenerField(r) ==
  /\ pc[r] = "activate"
  /\ ln' = [ln EXCEPT ![r] = listener]
  /\ pc' = [pc EXCEPT ![r] = "check"]
  /\ UNCHANGED <<srvVars, accepted, wg, connVars, stopVars>>

-----------------------------------------------------------------------------
(* serveTCP: the accept loop of run r.                                     *)

\* for srv.isStarted()
CheckStarted(r) ==
  /\ pc[r] = "check"
  /\ pc' = [pc EXCEPT ![r] = IF started THEN "accept" ELSE "drain"]
  /\ UNCHANGED <<srvVars, ln, accepted, wg, connVars, stopVars>>

\* l.Accept() returns a connection.
Accept(r, c) ==
  /\ pc[r] = "accept"
  /\ ln[r] \in lnOpen
  /\ owner[c] = None
  /\ owner' = [owner EXCEPT ![c] = r]
  /\ accepted' = [accepted EXCEPT ![r] = {c}]
  /\ pc' = [pc EXCEPT ![r] = "track"]
  /\ UNCHANGED <<srvVars, ln, wg, wpc, q, deadline, closedBy, hijacked,
                 stopVars>>

\* l.Accept() fails on an open listener, for a while or for good.
AcceptError(r) ==
  /\ pc[r] = "accept"
  /\ ln[r] \in lnOpen
  /\ \E kind \in {"errTemp", "errPerm"} : pc' = [pc EXCEPT ![r] = kind]
  /\ UNCHANGED <<srvVars, ln, accepted, wg, connVars, stopVars>>

\* l.Accept() fails because the listener is closed; not a temporary error.
AcceptClosed(r) ==
  /\ pc[r] = "accept"
  /\ ln[r] \notin lnOpen
  /\ pc' = [pc EXCEPT ![r] = "errPerm"]
  /\ UNCHANGED <<srvVars, ln, accepted, wg, connVars, stopVars>>

\* After an error: return nil if stopped, go on after a temporary error,
\* return the error otherwise.  Both returns run the deferred function.
HandleAcceptError(r) ==
  /\ pc[r] \in {"errTemp", "errPerm"}
  /\ pc' = [pc EXCEPT ![r] =
              IF started /\ pc[r] = "errTemp" THEN "check" ELSE "drain"]
  /\ UNCHANGED <<srvVars, ln, accepted, wg, connVars, stopVars>>

\* Under srv.lock the connection enters srv.conns; wg.Add(1); go.
TrackConn(r) ==
  /\ pc[r] = "track"
  /\ \E c \in accepted[r] :
       /\ conns' = conns \cup {c}
       /\ wg' = [wg EXCEPT ![r] = @ \cup {c}]
       /\ wpc' = [wpc EXCEPT ![c] = "loop"]
  /\ accepted' = [accepted EXCEPT ![r] = {}]
  /\ pc' = [pc EXCEPT ![r] = "check"]
  /\ UNCHANGED <<started, shutdown, closedCh, listener, lnOpen, panicked,
                 ln, owner, q, deadline, closedBy, hijacked, stopVars>>

\* Mutant of Drained: the deferred function does not wait.
DrainedNoWait(r) ==
  /\ pc[r] = "drain"
  /\ closedCh' = closedCh \cup {shutdown}
  /\ panicked' = (panicked \/ shutdown \in closedCh)
  /\ pc' = [pc EXCEPT ![r] = "closeLn"]
  /\ UNCHANGED <<started, shutdown, listener, lnOpen, conns,
                 ln, accepted, wg, connVars, stopVars>>

\* Mutant of Drained: the deferred function closes nothing.
DrainedNoClose(r) ==
  /\ pc[r] = "drain"
  /\ wg[r] = {}
  /\ pc' = [pc EXCEPT ![r] = "closeLn"]
  /\ UNCHANGED <<srvVars, ln, accepted, wg, connVars, stopVars>>

\* The deferred wg.Wait(); close(srv.shutdown), on whatever channel the
\* field holds by now.  Closing a closed channel panics.
Drained(r) ==
  /\ pc[r] = "drain"
  /\ wg[r] = {}
  /\ closedCh' = closedCh \cup {shutdown}
  /\ panicked' = (panicked \/ shutdown \in closedCh)
  /\ pc' = [pc EXCEPT ![r] = "closeLn"]
  /\ UNCHANGED <<started, shutdown, listener, lnOpen, conns,
                 ln, accepted, wg, connVars, stopVars>>

\* Mutant of ReturnFromServe: no defer l.Close().
ReturnFromServeLeak(r) ==
  /\ pc[r] = "closeLn"
  /\ pc' = [pc EXCEPT ![r] = "returned"]
  /\ UNCHANGED <<srvVars, ln, accepted, wg, connVars, stopVars>>

\* The deferred l.Close(), and the return of the call.
ReturnFromServe(r) ==
  /\ pc[r] = "closeLn"
  /\ lnOpen' = lnOpen \ {ln[r]}
  /\ pc' = [pc EXCEPT ![r] = "returned"]
  /\ UNCHANGED <<started, shutdown, closedCh, listener, conns, panicked,
                 ln, accepted, wg, connVars, stopVars>>

-----------------------------------------------------------------------------
(* serveTCPConn: the goroutine of connection c.                            *)

\* Mutant of LoopTest: q <= limit.
LoopTestOffByOne(c) ==
  /\ wpc[c] = "loop"
  /\ wpc' = [wpc EXCEPT ![c] =
               IF (q[c] <= limit \/ Unlimited) /\ started THEN "arm" ELSE "close"]
  /\ UNCHANGED <<srvVars, runVars, owner, q, deadline, closedBy, hijacked,
                 stopVars>>

\* for q := 0; (q < limit || limit == -1) && srv.isStarted(); q++
LoopTest(c) ==
  /\ wpc[c] = "loop"
  /\ wpc' = [wpc EXCEPT ![c] =
               IF (q[c] < limit \/ Unlimited) /\ started THEN "arm" ELSE "close"]
  /\ UNCHANGED <<srvVars, runVars, owner, q, deadline, closedBy, hijacked,
                 stopVars>>

\* Mutant of ArmDeadline: readTCP does not look at srv.started.
ArmDeadlineAlways(c) ==
  /\ wpc[c] = "arm"
  /\ deadline' = [deadline EXCEPT ![c] = "future"]
  /\ wpc' = [wpc EXCEPT ![c] = "reading"]
  /\ UNCHANGED <<srvVars, runVars, owner, q, closedBy, hijacked, stopVars>>

\* readTCP sets the deadline unless the server has been stopped.
ArmDeadline(c) ==
  /\ wpc[c] = "arm"
  /\ deadline' = [deadline EXCEPT ![c] = IF started THEN "future" ELSE @]
  /\ wpc' = [wpc EXCEPT ![c] = "reading"]
  /\ UNCHANGED <<srvVars, runVars, owner, q, closedBy, hijacked, stopVars>>

\* A whole message arrives in time.
ReadTCP(c) ==
  /\ wpc[c] = "reading"
  /\ deadline[c] # "past"
  /\ wpc' = [wpc EXCEPT ![c] = "serve"]
  /\ UNCHANGED <<srvVars, runVars, owner, q, deadline, closedBy, hijacked,
                 stopVars>>

\* The deadline expires: at once when ShutdownContext moved it to the past.
ReadTimeout(c) ==
  /\ wpc[c] = "reading"
  /\ deadline[c] # "none"
  /\ wpc' = [wpc EXCEPT ![c] = "close"]
  /\ UNCHANGED <<srvVars, runVars, owner, q, deadline, closedBy, hijacked,
                 stopVars>>

\* The client goes away, or sends half a message and stops.
PeerGone(c) ==
  /\ wpc[c] = "reading"
  /\ wpc' = [wpc EXCEPT ![c] = "close"]
  /\ UNCHANGED <<srvVars, runVars, owner, q, deadline, closedBy, hijacked,
                 stopVars>>

\* What the loop does once serveDNS has returned: leave it if the handler
\* closed or hijacked the connection, else count the query and go on.
AfterServeDNS(c) ==
  IF closedBy[c] # "nobody" \/ hijacked[c]
    THEN /\ wpc' = [wpc EXCEPT ![c] = "close"]
         /\ UNCHANGED q
    ELSE /\ wpc' = [wpc EXCEPT ![c] = "loop"]
         /\ q' = [q EXCEPT ![c] = IF Unlimited THEN @ ELSE @ + 1]

\* serveDNS answers or drops the message itself and calls no handler.
ServeWithoutHandler(c) ==
  /\ wpc[c] = "serve"
  /\ AfterServeDNS(c)
  /\ UNCHANGED <<srvVars, runVars, owner, deadline, closedBy, hijacked,
                 stopVars>>

\* serveDNS calls srv.Handler.ServeDNS(w, req).
CallHandler(c) ==
  /\ wpc[c] = "serve"
  /\ wpc' = [wpc EXCEPT ![c] = "handler"]
  /\ UNCHANGED <<srvVars, runVars, owner, q, deadline, closedBy, hijacked,
                 stopVars>>

\* The handler calls w.Hijack().
Hijack(c) ==
  /\ wpc[c] = "handler"
  /\ hijacked' = [hijacked EXCEPT ![c] = TRUE]
  /\ UNCHANGED <<srvVars, runVars, wpc, owner, q, deadline, closedBy, stopVars>>

\* The handler calls w.Close(), or whoever took over a hijacked connection
\* does, at any time after that.  A second Close is an error.
HandlerClose(c) ==
  /\ wpc[c] = "handler" \/ hijacked[c]
  /\ closedBy[c] = "nobody"
  /\ closedBy' = [closedBy EXCEPT ![c] = "handler"]
  /\ UNCHANGED <<srvVars, runVars, wpc, owner, q, deadline, hijacked, stopVars>>

HandlerReturns(c) ==
  /\ wpc[c] = "handler"
  /\ AfterServeDNS(c)
  /\ UNCHANGED <<srvVars, runVars, owner, deadline, closedBy, hijacked,
                 stopVars>>

\* Mutant of CloseConn: the check of w.hijacked is gone.
CloseConnAlways(c) ==
  /\ wpc[c] = "close"
  /\ closedBy' = [closedBy EXCEPT ![c] = IF @ = "nobody" THEN "server" ELSE @]
  /\ wpc' = [wpc EXCEPT ![c] = "untrack"]
  /\ UNCHANGED <<srvVars, runVars, owner, q, deadline, hijacked, stopVars>>

\* if !w.hijacked { w.Close() }, where Close is an error once closed.
CloseConn(c) ==
  /\ wpc[c] = "close"
  /\ closedBy' = [closedBy EXCEPT ![c] =
                    IF ~ hijacked[c] /\ @ = "nobody" THEN "server" ELSE @]
  /\ wpc' = [wpc EXCEPT ![c] = "untrack"]
  /\ UNCHANGED <<srvVars, runVars, owner, q, deadline, hijacked, stopVars>>

\* delete(srv.conns, w.tcp), under srv.lock.
UntrackConn(c) ==
  /\ wpc[c] = "untrack"
  /\ conns' = conns \ {c}
  /\ wpc' = [wpc EXCEPT ![c] = "wgDone"]
  /\ UNCHANGED <<started, shutdown, closedCh, listener, lnOpen, panicked,
                 runVars, owner, q, deadline, closedBy, hijacked, stopVars>>

WgDone(c) ==
  /\ wpc[c] = "wgDone"
  /\ wg' = [wg EXCEPT ![owner[c]] = @ \ {c}]
  /\ wpc' = [wpc EXCEPT ![c] = "done"]
  /\ UNCHANGED <<srvVars, pc, ln, accepted, owner, q, deadline, closedBy,
                 hijacked, stopVars>>

-----------------------------------------------------------------------------
(* ShutdownContext.                                                        *)

ShutdownNotStarted(s) ==
  /\ spc[s] = "idle"
  /\ ~ started
  /\ spc' = [spc EXCEPT ![s] = "returned"]
  /\ result' = [result EXCEPT ![s] = "notStarted"]
  /\ UNCHANGED <<srvVars, runVars, connVars, stopped, waitCh>>

\* Mutant of ShutdownContext: the listener stays open.
ShutdownContextKeepsListener(s) ==
  /\ spc[s] = "idle"
  /\ started
  /\ started' = FALSE
  /\ deadline' = [c \in Conns |-> IF c \in conns THEN "past" ELSE deadline[c]]
  /\ stopped' = [stopped EXCEPT ![s] = shutdown]
  /\ spc' = [spc EXCEPT ![s] = "select"]
  /\ UNCHANGED <<shutdown, closedCh, listener, lnOpen, conns, panicked, runVars,
                 wpc, owner, q, closedBy, hijacked, waitCh, result>>

\* The block under srv.lock: clear started, close the listener, move the
\* read deadline of every tracked connection to the past.
ShutdownContext(s) ==
  /\ spc[s] = "idle"
  /\ started
  /\ started' = FALSE
  /\ lnOpen' = lnOpen \ {listener}
  /\ deadline' = [c \in Conns |-> IF c \in conns THEN "past" ELSE deadline[c]]
  /\ stopped' = [stopped EXCEPT ![s] = shutdown]
  /\ spc' = [spc EXCEPT ![s] = "select"]
  /\ UNCHANGED <<shutdown, closedCh, listener, conns, panicked, runVars,
                 wpc, owner, q, closedBy, hijacked, waitCh, result>>

\* The select reads the field srv.shutdown, no longer under the lock.
EnterSelect(s) ==
  /\ spc[s] = "select"
  /\ waitCh' = [waitCh EXCEPT ![s] = shutdown]
  /\ spc' = [spc EXCEPT ![s] = "wait"]
  /\ UNCHANGED <<srvVars, runVars, connVars, stopped, result>>

ShutdownReturns(s) ==
  /\ spc[s] = "wait"
  /\ waitCh[s] \in closedCh
  /\ spc' = [spc EXCEPT ![s] = "returned"]
  /\ result' = [result EXCEPT ![s] = "ok"]
  /\ UNCHANGED <<srvVars, runVars, connVars, stopped, waitCh>>

\* case <-ctx.Done()
ContextDone(s) ==
  /\ spc[s] = "wait"
  /\ s \in CtxStoppers
  /\ spc' = [spc EXCEPT ![s] = "returned"]
  /\ result' = [result EXCEPT ![s] = "ctxErr"]
  /\ UNCHANGED <<srvVars, runVars, connVars, stopped, waitCh>>

-----------------------------------------------------------------------------
RunStep(r) ==
  \/ AlreadyStarted(r) \/ StartFails(r) \/ ListenAndServe(r)
  \/ ActivateAndServe(r) \/ ReadListenerField(r) \/ CheckStarted(r)
  \/ AcceptError(r) \/ AcceptClosed(r) \/ HandleAcceptError(r) \/ TrackConn(r)
  \/ Drained(r) \/ ReturnFromServe(r)
  \/ \E c \in Conns : Accept(r, c)

ConnStep(c) ==
  \/ LoopTest(c) \/ ArmDeadline(c) \/ ReadTCP(c) \/ ReadTimeout(c)
  \/ PeerGone(c) \/ ServeWithoutHandler(c) \/ CallHandler(c) \/ Hijack(c)
  \/ HandlerClose(c) \/ HandlerReturns(c) \/ CloseConn(c) \/ UntrackConn(c)
  \/ WgDone(c)

StopStep(s) ==
  \/ ShutdownNotStarted(s) \/ ShutdownContext(s) \/ EnterSelect(s)
  \/ ShutdownReturns(s) \/ ContextDone(s)

Next ==
  \/ \E r \in Runs : RunStep(r)
  \/ \E c \in Conns : ConnStep(c)
  \/ \E s \in Stoppers : StopStep(s)

Spec == Init /\ [][Next]_vars

(***************************************************************************)
(* The steps that MCServerLive asks weak fairness of: a goroutine that can *)
(* run does run, a read deadline that is set expires, and handlers return. *)
(* Clients and callers owe nothing.                                        *)
(***************************************************************************)
RunProgress(r) ==
  \/ ReadListenerField(r) \/ CheckStarted(r) \/ AcceptClosed(r) \/ HandleAcceptError(r)
  \/ TrackConn(r) \/ Drained(r) \/ ReturnFromServe(r)

ConnProgress(c) ==
  \/ LoopTest(c) \/ ArmDeadline(c) \/ ReadTimeout(c) \/ ServeWithoutHandler(c)
  \/ HandlerReturns(c) \/ CloseConn(c) \/ UntrackConn(c) \/ WgDone(c)

StopProgress(s) == EnterSelect(s) \/ ShutdownReturns(s)

-----------------------------------------------------------------------------
(* Properties.                                                             *)

\* Once the server is stopped, no goroutine is in, or about to enter, a read
\* whose deadline is not in the past.  The comment in readTCP asks for it:
\* a deadline set again by a racing read would block ShutdownContext.
StoppedReadsUnblocked ==
  ~ started =>
    \A c \in Conns : wpc[c] \in {"arm", "reading"} => deadline[c] = "past"

\* A Shutdown that returns without error has drained the run it stopped:
\* every connection that run accepted has a finished goroutine and is
\* closed, or belongs to the handler that hijacked it.
ShutdownDrains ==
  \A s \in Stoppers : result[s] = "ok" =>
    \A c \in Conns : owner[c] = stopped[s] =>
      wpc[c] = "done" /\ (closedBy[c] # "nobody" \/ hijacked[c])

\* No run closes a shutdown channel twice.
NoDoubleClose == ~ panicked

\* The server never closes a connection that a handler has hijacked.
HijackedNotClosedByServer ==
  \A c \in Conns : hijacked[c] => closedBy[c] # "server"

\* When a call has returned, its goroutines are gone and so is its listener.
ServeReturnsClean ==
  \A r \in Runs : pc[r] = "returned" /\ ln[r] # None =>
    /\ ln[r] \notin lnOpen
    /\ \A c \in Conns : owner[c] = r => wpc[c] = "done"

\* Every Shutdown that stops a run returns, with or without a context that ends
\* the wait, and so does the ListenAndServe or ActivateAndServe that it stopped:
\* some time there is none left that has to (neither is ever called again).
EveryShutdownReturns ==
  <>[](\A s \in Stoppers : stopped[s] # None =>
         spc[s] = "returned" /\ pc[stopped[s]] = "returned")

(***************************************************************************)
(* The abstract server that this one implements: a connection is a task    *)
(* from its Accept to its wg.Done, and a run has ended once its channel is *)
(* closed.                                                                 *)
(***************************************************************************)
AbsCurrent == IF started THEN shutdown ELSE None

AbsPhase ==
  [r \in Runs |-> IF pc[r] = "idle" THEN "new"
                  ELSE IF pc[r] \in {"closeLn", "returned"} THEN "ended"
                  ELSE "serving"]

AbsTask ==
  [c \in Conns |-> IF owner[c] = None THEN "new"
                   ELSE IF wpc[c] = "done" THEN "done" ELSE "busy"]

AbsVerdict ==
  [s \in Stoppers |-> IF spc[s] \in {"select", "wait"} THEN "waiting" ELSE result[s]]

Lifecycle == INSTANCE ServerLifecycle WITH
  Tasks <- Conns, current <- AbsCurrent, phase <- AbsPhase, server <- owner,
  task <- AbsTask, target <- stopped, verdict <- AbsVerdict

\* The TCP server keeps what ServerLifecycle promises; among other things, no
\* connection is accepted after the stop, although Accept runs unlocked.
ImplementsLifecycle == Lifecycle!Spec
=============================================================================
