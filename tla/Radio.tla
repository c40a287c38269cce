-------------------------------- MODULE Radio --------------------------------
(***************************************************************************)
(* The radio link service: main() of src/src/ados/services/wfb/__main__.py *)
(* over one WfbManager (manager.py) and the two processes it keeps,        *)
(* wfb_tx and wfb_rx, in one event loop.                                   *)
(*                                                                         *)
(* Two tasks: "main" waits for a signal, cancels the other and stops the   *)
(* manager; "run" is WfbManager.run.  A label names the await a task is    *)
(* at, and what it does up to its next await is one step.                  *)
(*                                                                         *)
(* A process is the handle the manager holds on it: "none", "alive", or    *)
(* "gone", an exited process whose handle is kept.                         *)
(***************************************************************************)
EXTENDS MediaConstants

VARIABLES
  state,     \* _state
  proc,      \* _tx_proc and _rx_proc
  running,   \* _running
  restarts,  \* _restart_count
  watched,   \* the processes whose exit wakes run() from asyncio.wait
  txOk,      \* tx_ok
  shutdown,  \* the event the signal handlers set
  pc,        \* where each task is
  rounds,    \* history: how often run() has come to start the processes
  lost       \* history: has a handle on a live process been dropped?

manager == <<state, proc, running, restarts, watched, txOk>>
vars    == <<manager, shutdown, pc, rounds, lost>>

Task    == {"main", "run"}
Process == {"tx", "rx"}

Alive(procs) == {p \in Process : procs[p] = "alive"}

Await(t, l) == pc' = [pc EXCEPT ![t] = l]

-----------------------------------------------------------------------------
(* stop(), by run() before a restart and by main() at the end.             *)

\* Slip: whoever called, the backoff sleep comes next.
StoppedInLoop(t, procs) ==
  /\ lost' = (lost \/ Alive(procs) # {})
  /\ proc' = [p \in Process |-> "none"]
  /\ state' = "disconnected"
  /\ running' = TRUE
  /\ Await(t, IF restarts' >= MaxRestarts THEN "done" ELSE "sleep")

\* The end of stop(), and of its caller's part up to the next await.
Stopped(t, procs) ==
  /\ lost' = (lost \/ Alive(procs) # {})
  /\ proc' = [p \in Process |-> "none"]
  /\ state' = "disconnected"
  /\ IF t = "main"
     THEN running' = FALSE /\ Await("main", "exited")
     ELSE /\ running' = TRUE
          /\ Await("run", IF restarts' >= MaxRestarts THEN "done" ELSE "sleep")

\* Slip: a transmitter that has exited is taken for the pair.
StopIfTx(t, procs) ==
  IF procs["tx"] = "alive"
  THEN /\ Await(t, "stopTx")
       /\ proc' = procs /\ running' = FALSE
       /\ UNCHANGED <<state, lost>>
  ELSE Stopped(t, procs)

\* SIGTERM to a process that has not exited, and wait for it: tx, then rx.
Stop(t, procs) ==
  IF Alive(procs) # {}
  THEN /\ Await(t, IF procs["tx"] = "alive" THEN "stopTx" ELSE "stopRx")
       /\ proc' = procs /\ running' = FALSE
       /\ UNCHANGED <<state, lost>>
  ELSE Stopped(t, procs)

\* Slip: stop() waits without a timeout.
TxEndsItself(t) ==
  /\ pc[t] = "stopTx" /\ proc["tx"] # "alive"
  /\ UNCHANGED <<restarts, watched, txOk, shutdown, rounds>>
  /\ Stop(t, proc)

\* It has ended, or is killed after 5 s.
TxEnds(t) ==
  /\ pc[t] = "stopTx"
  /\ UNCHANGED <<restarts, watched, txOk, shutdown, rounds>>
  /\ Stop(t, [proc EXCEPT !["tx"] = "gone"])

RxEnds(t) ==
  /\ pc[t] = "stopRx"
  /\ UNCHANGED <<restarts, watched, txOk, shutdown, rounds>>
  /\ Stop(t, [proc EXCEPT !["rx"] = "gone"])

-----------------------------------------------------------------------------
(* run(): adapter and monitor mode, then the two processes.                *)

\* The top of the loop, at the first step of the task or after a sleep.
Attempt ==
  /\ pc["run"] \in {"new", "sleep"}
  /\ running' = TRUE
  /\ \/ /\ state' = "disconnected"     \* no adapter, or no monitor mode
        /\ Await("run", "sleep")
        /\ UNCHANGED rounds
     \/ /\ state' = "connecting"
        /\ Await("run", "tx")
        /\ rounds' = rounds + 1
  /\ UNCHANGED <<proc, restarts, watched, txOk, shutdown, lost>>

\* A process is spawned, or is not.
Spawn(p, ok) ==
  /\ proc' = IF ok THEN [proc EXCEPT ![p] = "alive"] ELSE proc
  /\ lost' = (lost \/ (ok /\ proc[p] = "alive"))

StartTx ==
  /\ pc["run"] = "tx"
  /\ \E ok \in BOOLEAN : Spawn("tx", ok) /\ txOk' = ok
  /\ Await("run", "rx")
  /\ UNCHANGED <<state, running, restarts, watched, shutdown, rounds>>

\* Slip: a round in which nothing starts is not counted.
BothFailedUncounted ==
  /\ state' = "disconnected"
  /\ Await("run", "sleep")
  /\ UNCHANGED <<restarts, running>>

BothFailed ==
  /\ state' = "disconnected"
  /\ restarts' = restarts + 1
  /\ IF restarts' >= MaxRestarts
     THEN running' = FALSE /\ Await("run", "done")
     ELSE Await("run", "sleep") /\ UNCHANGED running

\* The tasks asyncio.wait is given: wait() for what has not exited, and the
\* reader of the receiver's output, which ends with the receiver.
Watch(procs) == Alive(procs) \cup {p \in {"rx"} : procs[p] # "none"}

StartRx ==
  /\ pc["run"] = "rx"
  /\ \E ok \in BOOLEAN :
       /\ Spawn("rx", ok)
       /\ IF ok \/ txOk
          THEN /\ state' = "connected"
               /\ watched' = Watch(proc')
               /\ Await("run", "watch")
               /\ UNCHANGED <<restarts, running>>
          ELSE BothFailed /\ UNCHANGED watched
  /\ UNCHANGED <<txOk, shutdown, rounds>>

\* A line of statistics: "weak" is a loss over 50 % or a signal under -85 dBm,
\* "some" that packets came.
Statistics ==
  /\ pc["run"] = "watch" /\ "rx" \in watched
  /\ \E weak, some \in BOOLEAN :
       state' = IF weak THEN "degraded"
                ELSE IF some THEN "connected" ELSE "connecting"
  /\ UNCHANGED <<proc, running, restarts, watched, txOk, shutdown, pc, rounds,
                 lost>>

\* Slip: the limit is looked at before stop() is called.
RestartUnlessDone ==
  /\ restarts' = restarts + 1
  /\ watched' = {}
  /\ IF restarts' >= MaxRestarts
     THEN Await("run", "done") /\ UNCHANGED <<proc, running, state, lost>>
     ELSE Stop("run", proc)
  /\ UNCHANGED <<txOk, shutdown, rounds>>

\* After asyncio.wait: the monitoring tasks are cancelled, then stop().
Restart ==
  /\ restarts' = restarts + 1
  /\ watched' = {}
  /\ Stop("run", proc)
  /\ UNCHANGED <<txOk, shutdown, rounds>>

\* Slip: the receiver's end is left to its reader, which nobody waits for.
EndedTx == watched = {} \/ ("tx" \in watched /\ proc["tx"] = "gone")

Ended == watched = {} \/ \E p \in watched : proc[p] = "gone"

Wakes == pc["run"] = "watch" /\ Ended /\ Restart

\* The reader gives up on a line it cannot read, the receiver being alive.
ReaderFails == pc["run"] = "watch" /\ "rx" \in watched /\ Restart

-----------------------------------------------------------------------------
(* A signal, and the rest of main(): cancel run(), gather, stop().         *)

Signal ==
  /\ ~shutdown
  /\ shutdown' = TRUE
  /\ UNCHANGED <<manager, pc, rounds, lost>>

\* run() is cancelled at its await, or before its first step; a process it was
\* spawning is killed, and what it was stopping is left to main().
CancelRun ==
  /\ pc["main"] = "wait" /\ shutdown
  /\ pc' = [main |-> "gather", run |-> "done"]
  /\ watched' = {}
  /\ UNCHANGED <<state, proc, running, restarts, txOk, shutdown, rounds, lost>>

MainStops ==
  /\ pc["main"] = "gather"
  /\ UNCHANGED <<restarts, watched, txOk, shutdown, rounds>>
  /\ Stop("main", proc)

ProcessExits ==
  /\ \E p \in Alive(proc) : proc' = [proc EXCEPT ![p] = "gone"]
  /\ UNCHANGED <<state, running, restarts, watched, txOk, shutdown, pc, rounds,
                 lost>>

Init ==
  /\ state = "disconnected"
  /\ proc = [p \in Process |-> "none"]
  /\ running = FALSE
  /\ restarts = 0
  /\ watched = {}
  /\ txOk = FALSE
  /\ shutdown = FALSE
  /\ pc = [main |-> "wait", run |-> "new"]
  /\ rounds = 0
  /\ lost = FALSE

MainNext == CancelRun \/ MainStops \/ TxEnds("main") \/ RxEnds("main")

RunNext == Attempt \/ StartTx \/ StartRx \/ Wakes \/ TxEnds("run") \/ RxEnds("run")

Next == MainNext \/ RunNext \/ Statistics \/ ReaderFails \/ Signal \/ ProcessExits

Spec == Init /\ [][Next]_vars

\* Every await of the two tasks ends, but the wait for an exit or a signal.
Fairness == WF_vars(MainNext) /\ WF_vars(RunNext)

FairSpec == Spec /\ Fairness
-----------------------------------------------------------------------------
(* Properties.                                                             *)

MainLabel == {"wait", "gather", "stopTx", "stopRx", "exited"}
RunLabel  == {"new", "sleep", "tx", "rx", "watch", "stopTx", "stopRx", "done"}

\* Every variable holds what the code can put there.
TypeOK ==
  /\ state \in {"disconnected", "connecting", "connected", "degraded"}
  /\ proc \in [Process -> {"none", "alive", "gone"}]
  /\ running \in BOOLEAN
  /\ restarts \in 0..MaxRestarts
  /\ watched \subseteq Process
  /\ txOk \in BOOLEAN
  /\ shutdown \in BOOLEAN
  /\ pc \in [Task -> MainLabel \cup RunLabel]
  /\ pc["main"] \in MainLabel /\ pc["run"] \in RunLabel
  /\ rounds \in Nat
  /\ lost \in BOOLEAN

\* Wherever exits and the signal fall, in a start, in a stop or between, the
\* manager never drops its handle on a process that is alive: no second wfb_tx
\* beside a first, and none left when main() has ended.
NoOrphan == ~lost /\ (pc["main"] = "exited" => Alive(proc) = {})

\* "Auto-restarts failed processes ... up to max_restarts": the processes are
\* started that often in the life of the service, whichever way rounds end.
RestartsBounded == rounds <= MaxRestarts

\* When the manager has given up the link is down and says so: no process of
\* the last round goes on transmitting.
GivenUpClean ==
  pc["run"] = "done" /\ pc["main"] = "wait"
    => state = "disconnected" /\ Alive(proc) = {}

\* A receiver that dies does not stay dead behind a manager that watches it.
DeathNoticed ==
  (pc["run"] = "watch" /\ proc["rx"] = "gone") ~> (pc["run"] # "watch")

\* A signal ends the service, whatever the processes do.
ShutdownEnds == shutdown ~> (pc["main"] = "exited")
=============================================================================
