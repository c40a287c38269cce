-------------------------------- MODULE Scripts --------------------------------
(***************************************************************************)
(* ScriptRunner of services/scripting: scripts run as subprocesses, each   *)
(* followed by a task of its own, with at most MaxConcurrent of them at a  *)
(* time; the routes of the REST API start and stop them.                   *)
(***************************************************************************)
EXTENDS Naturals, FiniteSets

CONSTANTS
  Script,         \* script identifiers
  MaxConcurrent   \* scripting.scripts.max_concurrent

VARIABLES
  script,   \* state of each ScriptInfo, "none" before there is one
  runner,   \* where the task of each script is
  process,  \* its subprocess: an exited one is "seen" once asyncio knows
  success,  \* whether the subprocess exited with 0
  held      \* does a process it left behind hold its standard output open?

vars == <<script, runner, process, success, held>>

ActiveCount == Cardinality({s \in Script : script[s] \in {"queued", "running"}})

\* Slip: a script counts from the moment its task runs.
StartScriptRunningOnly(s) ==
  /\ script[s] = "none"
  /\ Cardinality({x \in Script : script[x] = "running"}) < MaxConcurrent
  /\ script' = [script EXCEPT ![s] = "queued"]
  /\ runner' = [runner EXCEPT ![s] = "begin"]
  /\ UNCHANGED <<process, success, held>>

StartScript(s) ==
  /\ script[s] = "none"
  /\ ActiveCount < MaxConcurrent
  /\ script' = [script EXCEPT ![s] = "queued"]
  /\ runner' = [runner EXCEPT ![s] = "begin"]
  /\ UNCHANGED <<process, success, held>>

Begin(s) ==
  /\ runner[s] = "begin"
  /\ script' = [script EXCEPT ![s] = "running"]
  /\ runner' = [runner EXCEPT ![s] = "spawn"]
  /\ UNCHANGED <<process, success, held>>

Spawned(s) ==
  /\ runner[s] = "spawn"
  /\ process' = [process EXCEPT ![s] = "up"]
  /\ runner' = [runner EXCEPT ![s] = "read"]
  /\ UNCHANGED <<script, success, held>>

\* An exception of the task.
Raises(s) ==
  /\ script' = [script EXCEPT ![s] = "failed"]
  /\ runner' = [runner EXCEPT ![s] = "done"]
  /\ UNCHANGED <<process, success, held>>

SpawnFails(s) == runner[s] = "spawn" /\ Raises(s)

\* A line too long for readline().  The handle is dropped, not the process.
OutputBreaks(s) == runner[s] = "read" /\ Raises(s)

\* The output has been read to its end, and the exit is known.
Over(s) == runner[s] = "read" /\ process[s] = "seen" /\ ~held[s]

\* Slip: the return code alone decides.
FinishByCode(s) ==
  /\ Over(s)
  /\ script' = [script EXCEPT ![s] = IF success[s] THEN "completed" ELSE "failed"]
  /\ runner' = [runner EXCEPT ![s] = "done"]
  /\ UNCHANGED <<process, success, held>>

\* Slip: nobody waits for the process of a cancelled script.
FinishUncancelled(s) ==
  /\ Over(s) /\ script[s] # "cancelled"
  /\ script' = [script EXCEPT ![s] = IF success[s] THEN "completed" ELSE "failed"]
  /\ runner' = [runner EXCEPT ![s] = "done"]
  /\ UNCHANGED <<process, success, held>>

Finish(s) ==
  /\ Over(s)
  /\ script' = [script EXCEPT ![s] =
                  IF @ = "cancelled" THEN @
                  ELSE IF success[s] THEN "completed" ELSE "failed"]
  /\ runner' = [runner EXCEPT ![s] = "done"]
  /\ UNCHANGED <<process, success, held>>

\* The request fails, and nothing changes, without a handle on a process whose
\* exit is not yet known.
StopScript(s) ==
  /\ runner[s] = "read" /\ process[s] # "seen"
  /\ script' = [script EXCEPT ![s] = "cancelled"]
  /\ UNCHANGED <<runner, process, success, held>>

Exit(s) ==
  /\ process[s] = "up"
  /\ process' = [process EXCEPT ![s] = "exited"]
  /\ \E ok, left \in BOOLEAN :
       success' = [success EXCEPT ![s] = ok] /\ held' = [held EXCEPT ![s] = left]
  /\ UNCHANGED <<script, runner>>

\* The last of the processes it left behind ends.
ChildrenEnd(s) ==
  /\ held[s]
  /\ held' = [held EXCEPT ![s] = FALSE]
  /\ UNCHANGED <<script, runner, process, success>>

Reaped(s) ==
  /\ process[s] = "exited"
  /\ process' = [process EXCEPT ![s] = "seen"]
  /\ UNCHANGED <<script, runner, success, held>>

Init ==
  /\ script = [s \in Script |-> "none"]
  /\ runner = [s \in Script |-> "none"]
  /\ process = [s \in Script |-> "none"]
  /\ success = [s \in Script |-> FALSE]
  /\ held = [s \in Script |-> FALSE]

\* Routes under which a script is started, and stopped.
Requested(s) == StartScript(s) \/ StopScript(s)

Runs(s) == Begin(s) \/ Spawned(s) \/ SpawnFails(s) \/ Finish(s) \/ Reaped(s)

Next ==
  \E s \in Script :
    Requested(s) \/ Exit(s) \/ ChildrenEnd(s) \/ OutputBreaks(s) \/ Runs(s)

Spec == Init /\ [][Next]_vars

\* The event loop runs the tasks and learns of exits.
Fairness == \A s \in Script : WF_vars(Runs(s))

FairSpec == Spec /\ Fairness

-----------------------------------------------------------------------------
(* Properties.                                                              *)

TypeOK ==
  /\ script \in [Script -> {"none", "queued", "running", "completed", "failed", "cancelled"}]
  /\ runner \in [Script -> {"none", "begin", "spawn", "read", "done"}]
  /\ process \in [Script -> {"none", "up", "exited", "seen"}]
  /\ success \in [Script -> BOOLEAN] /\ held \in [Script -> BOOLEAN]

\* However starts, task starts and exits interleave, scripts that are queued or
\* running are at most MaxConcurrent (start_script).
ActiveBounded == ActiveCount <= MaxConcurrent

\* A script a stop was acknowledged for is never reported completed or failed
\* afterwards, whatever its process exits with, unless its output broke its task.
CancelSticks ==
  \A s \in Script : script[s] = "cancelled" => script'[s] = "cancelled" \/ OutputBreaks(s)

\* A script whose process has exited, and with it whatever held its output, is
\* done in the end, cancelled or not.
ScriptsEnd ==
  \A s \in Script : (runner[s] = "read" /\ process[s] \in {"exited", "seen"} /\ ~held[s])
                        ~> runner[s] = "done"
=============================================================================
