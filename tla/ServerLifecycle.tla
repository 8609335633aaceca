--------------------------- MODULE ServerLifecycle ---------------------------
(***************************************************************************)
(* What a Server promises its callers, whatever it listens on: one run at  *)
(* a time, work that begins only while the server is started, a run that   *)
(* ends with its last piece of work, and a Shutdown that returns nil only  *)
(* after that.  TCPServer and UDPServer implement it.                      *)
(***************************************************************************)

CONSTANTS
  Runs,     \* calls of ListenAndServe / ActivateAndServe
  Tasks,    \* pieces of work: connections or packets
  Stoppers, \* calls of Shutdown / ShutdownContext
  None

VARIABLES
  current, \* the run that Shutdown would stop
  phase,   \* of each run
  server,  \* the run each task belongs to
  task,    \* what each task is doing
  target,  \* the run each stopper has stopped
  verdict  \* of each stopper

vars == <<current, phase, server, task, target, verdict>>

Init ==
  /\ current = None
  /\ phase = [r \in Runs |-> "new"]
  /\ server = [t \in Tasks |-> None]
  /\ task = [t \in Tasks |-> "new"]
  /\ target = [s \in Stoppers |-> None]
  /\ verdict = [s \in Stoppers |-> "none"]

\* A call starts to serve when no other run is serving or draining.
Start(r) ==
  /\ phase[r] = "new"
  /\ current = None
  /\ \A r2 \in Runs : phase[r2] # "serving"
  /\ current' = r
  /\ phase' = [phase EXCEPT ![r] = "serving"]
  /\ UNCHANGED <<server, task, target, verdict>>

\* A call that cannot start returns an error and leaves the server alone.
Refuse(r) ==
  /\ phase[r] = "new"
  /\ phase' = [phase EXCEPT ![r] = "ended"]
  /\ UNCHANGED <<current, server, task, target, verdict>>

\* Work begins for the run that is started, and for no run after its stop.
Begin(r, t) ==
  /\ current = r
  /\ phase[r] = "serving"
  /\ task[t] = "new"
  /\ task' = [task EXCEPT ![t] = "busy"]
  /\ server' = [server EXCEPT ![t] = r]
  /\ UNCHANGED <<current, phase, target, verdict>>

Finish(t) ==
  /\ task[t] = "busy"
  /\ task' = [task EXCEPT ![t] = "done"]
  /\ UNCHANGED <<current, phase, server, target, verdict>>

\* A run ends, stopped or of itself, when none of its work is left.
End(r) ==
  /\ phase[r] = "serving"
  /\ \A t \in Tasks : server[t] = r => task[t] = "done"
  /\ phase' = [phase EXCEPT ![r] = "ended"]
  /\ UNCHANGED <<current, server, task, target, verdict>>

Stop(s) ==
  /\ verdict[s] = "none"
  /\ current # None
  /\ target' = [target EXCEPT ![s] = current]
  /\ current' = None
  /\ verdict' = [verdict EXCEPT ![s] = "waiting"]
  /\ UNCHANGED <<phase, server, task>>

StopRefused(s) ==
  /\ verdict[s] = "none"
  /\ current = None
  /\ verdict' = [verdict EXCEPT ![s] = "notStarted"]
  /\ UNCHANGED <<current, phase, server, task, target>>

StopDone(s) ==
  /\ verdict[s] = "waiting"
  /\ phase[target[s]] = "ended"
  /\ verdict' = [verdict EXCEPT ![s] = "ok"]
  /\ UNCHANGED <<current, phase, server, task, target>>

\* The caller's context ends the wait.
StopGivesUp(s) ==
  /\ verdict[s] = "waiting"
  /\ verdict' = [verdict EXCEPT ![s] = "ctxErr"]
  /\ UNCHANGED <<current, phase, server, task, target>>

Next ==
  \/ \E r \in Runs : Start(r) \/ Refuse(r) \/ End(r)
  \/ \E r \in Runs, t \in Tasks : Begin(r, t)
  \/ \E t \in Tasks : Finish(t)
  \/ \E s \in Stoppers : Stop(s) \/ StopRefused(s) \/ StopDone(s) \/ StopGivesUp(s)

Spec == Init /\ [][Next]_vars
=============================================================================
