--------------------------------- MODULE Agent ---------------------------------
(***************************************************************************)
(* AgentApp of core/main: the single-process agent starts its services as  *)
(* tracked asyncio tasks, waits for a signal and cancels them.  Services   *)
(* come in two batches because the mDNS registration is awaited in         *)
(* between; what a service does is abstracted to how its coroutine ends.   *)
(* The heartbeat tells the cloud of the services while the agent is paired.*)
(***************************************************************************)
EXTENDS Naturals

CONSTANTS
  Early,   \* services started before the mDNS registration
  Late,    \* the pairing beacon, the heartbeat and the command poll
  Beat,    \* the heartbeat, one of them
  Needy,   \* services that need a device: the vehicle's link and the radio's
  Idle     \* services with nothing to do at times: video and the beacon

VARIABLES
  phase,      \* where start() is
  discovery,  \* is there a discovery service?
  shutdown,   \* _shutdown
  recorded,   \* what the ServiceTracker says of each service
  task,       \* the task of each service
  fit,        \* does it have what it needs, or something to do?
  heard        \* what the last heartbeat to get through said of each

lifecycle == <<phase, discovery, shutdown, recorded, task>>
vars      == <<lifecycle, fit, heard>>

Service == Early \cup Late

Ended == {"returned", "raised", "cancelled"}

\* _start_service for each of a batch.
StartAll(batch) ==
  /\ recorded' = [s \in Service |-> IF s \in batch THEN "starting" ELSE recorded[s]]
  /\ task' = [s \in Service |-> IF s \in batch THEN "new" ELSE task[s]]

\* Everything up to the registration, which is the first await.
StartEarly(next) ==
  /\ phase = "start" /\ phase' = next
  /\ StartAll(Early)
  /\ UNCHANGED <<discovery, shutdown, fit, heard>>

Start == StartEarly("register")

\* The code the registration is to tell has to be made first and cannot be saved:
\* the OSError ends start().
StartRaises == discovery /\ StartEarly("raise")

\* The loop is closed after the round it is in, which is the tasks' first; they
\* are left as they are.
Crash ==
  /\ phase = "raise" /\ phase' = "crashed"
  /\ \A s \in Service : task[s] # "new"
  /\ UNCHANGED <<discovery, shutdown, recorded, task, fit, heard>>

\* Without mDNS there is no await, and no task has run yet.
Registered ==
  /\ phase = "register"
  /\ StartAll(Late)
  /\ phase' = "wait"
  /\ UNCHANGED <<discovery, shutdown, fit, heard>>

Unregister ==
  /\ phase = "wait" /\ shutdown
  /\ phase' = "unregister"
  /\ UNCHANGED <<discovery, shutdown, recorded, task, fit, heard>>

\* Slip: services that have failed keep their record, those that have not begun
\* keep their task.
CancelRunning ==
  /\ phase = "unregister"
  /\ recorded' = [s \in Service |-> IF task[s] = "live" THEN "stopped" ELSE recorded[s]]
  /\ task' = [s \in Service |-> IF task[s] = "live" THEN "ending" ELSE task[s]]
  /\ phase' = "gather"
  /\ UNCHANGED <<discovery, shutdown, fit, heard>>

\* _stop: every service is recorded stopped, then cancelled.  A task cancelled
\* before its first step never runs its wrapper.
CancelAll ==
  /\ phase = "unregister"
  /\ recorded' = [s \in Service |-> "stopped"]
  /\ task' = [s \in Service |-> CASE task[s] = "new"  -> "cancelled"
                                  [] task[s] = "live" -> "ending"
                                  [] OTHER            -> task[s]]
  /\ phase' = "gather"
  /\ UNCHANGED <<discovery, shutdown, fit, heard>>

\* Slip: gather() without return_exceptions, which the first exception ends.
ExitAtOnce ==
  /\ phase = "gather"
  /\ \E s \in Service : task[s] \in Ended
  /\ phase' = "exited"
  /\ UNCHANGED <<discovery, shutdown, recorded, task, fit, heard>>

Exit ==
  /\ phase = "gather"
  /\ \A s \in Service : task[s] \in Ended
  /\ phase' = "exited"
  /\ UNCHANGED <<discovery, shutdown, recorded, task, fit, heard>>

-----------------------------------------------------------------------------
(* The wrapper of a service.                                                *)

Become(s, t, r) ==
  /\ task' = [task EXCEPT ![s] = t]
  /\ recorded' = [recorded EXCEPT ![s] = r]
  /\ UNCHANGED <<phase, discovery, shutdown, fit, heard>>

\* Tasks run while start() awaits something, and until the loop is closed.
Suspended ==
  /\ phase \notin {"start", "crashed"}
  /\ phase \in {"register", "unregister"} => discovery

Begin(s) == task[s] = "new" /\ Suspended /\ Become(s, "live", "running")

\* A coroutine that ends by itself leaves "running" behind: the proxies' and
\* gateways' early returns, and the loops when they see _shutdown.
Return(s) == task[s] = "live" /\ Suspended /\ Become(s, "returned", recorded[s])

\* Slip: a service that raises is not recorded.
RaiseUnrecorded(s) ==
  /\ task[s] \in {"live", "ending"} /\ Suspended
  /\ Become(s, "raised", recorded[s])

\* By itself, or in the cleanup its cancellation started.
Raise(s) == task[s] \in {"live", "ending"} /\ Suspended /\ Become(s, "raised", "failed")

CancelEnds(s) == task[s] = "ending" /\ Become(s, "cancelled", "stopped")

-----------------------------------------------------------------------------
(* What the agent says of its services.                                     *)

Condition(s) ==
  IF fit[s] THEN recorded[s] ELSE IF s \in Needy THEN "degraded" ELSE "stopped"

\* _svc_state looks further only where "running" is recorded.
Reported(s) == IF recorded[s] = "running" THEN Condition(s) ELSE recorded[s]

\* GET /services: _infer_service_state takes a task that is done as recorded.
Listed(s) == IF task[s] \in Ended \/ recorded[s] \in {"stopped", "failed"}
             THEN recorded[s] ELSE Condition(s)

\* One that gets through; the others change nothing.
Heartbeat ==
  /\ task[Beat] = "live" /\ Suspended
  /\ heard' = [s \in Service |-> Reported(s)]
  /\ UNCHANGED <<lifecycle, fit>>

FitChanges(s) ==
  /\ s \in Needy \cup Idle
  /\ fit' = [fit EXCEPT ![s] = ~@]
  /\ UNCHANGED <<lifecycle, heard>>

Signal ==
  /\ ~shutdown /\ Suspended
  /\ shutdown' = TRUE
  /\ UNCHANGED <<phase, discovery, recorded, task, fit, heard>>

Init ==
  /\ phase = "start"
  /\ discovery \in BOOLEAN
  /\ shutdown = FALSE
  /\ recorded = [s \in Service |-> "none"]
  /\ task = [s \in Service |-> "none"]
  /\ fit = [s \in Service |-> TRUE]
  /\ heard = [s \in Service |-> "none"]

Main == Start \/ StartRaises \/ Crash \/ Registered \/ Unregister \/ CancelAll \/ Exit

Runs(s) == Begin(s) \/ CancelEnds(s)

Next ==
  \/ Main \/ Signal \/ Heartbeat
  \/ \E s \in Service : Runs(s) \/ Return(s) \/ Raise(s) \/ FitChanges(s)

Spec == Init /\ [][Next]_vars

\* start() goes on, the loop runs ready tasks, a cancelled service ends, and some
\* heartbeat gets through.
Fairness ==
  WF_vars(Main) /\ WF_vars(Heartbeat) /\ \A s \in Service : WF_vars(Runs(s))

FairSpec == Spec /\ Fairness
-----------------------------------------------------------------------------
(* Properties.                                                              *)

TypeOK ==
  /\ phase \in {"start", "raise", "crashed", "register", "wait", "unregister",
                "gather", "exited"}
  /\ discovery \in BOOLEAN /\ shutdown \in BOOLEAN
  /\ LET State == {"none", "starting", "running", "stopped", "failed"} IN
     recorded \in [Service -> State] /\ heard \in [Service -> State \cup {"degraded"}]
  /\ fit \in [Service -> BOOLEAN]
  /\ task \in [Service -> {"none", "new", "live", "ending"} \cup Ended]

\* When start() returns, every service has ended, also those whose task a signal
\* during the registration caught before its first step.  (When it raises, what
\* has been started is left.)
NoneLeftAtExit == phase = "exited" => \A s \in Service : task[s] \in Ended

\* Until the agent stops, heartbeat and REST API call a service failed if it
\* raised and only then, and one that runs stopped only if it has nothing to do.
\* (One that returned by itself stays "running": nobody records it.)
FailuresReported ==
  phase \notin {"gather", "exited"} =>
    \A s \in Service : \A said \in {Reported(s), Listed(s)} :
      /\ said = "failed" <=> task[s] = "raised"
      /\ task[s] = "live" /\ said = "stopped" => s \in Idle /\ ~fit[s]

\* A signal ends the agent wherever start() is, unless that has raised.
ShutdownExits == shutdown ~> phase \in {"exited", "crashed"}

\* While the heartbeat's own task lives, the cloud learns of a service that has
\* failed.
FailureTold ==
  \A s \in Service : (task[s] = "raised" /\ task[Beat] = "live")
                        ~> (heard[s] = "failed" \/ task[Beat] # "live" \/ shutdown)
=============================================================================
