---------------------------- MODULE VideoService ----------------------------
(***************************************************************************)
(* The video service: main() of src/src/ados/services/video/__main__.py    *)
(* over one VideoPipeline (pipeline.py), its MediamtxManager (mediamtx.py) *)
(* and its CameraManager (camera_mgr.py), in one event loop.               *)
(*                                                                         *)
(* Two tasks: "main" starts the stream, waits for a signal, cancels the    *)
(* other and stops the stream; "run" is VideoPipeline.run, the health loop. *)
(* A label names the await a task is at.  What a task does between two     *)
(* awaits is one step; "check" is the one label that is no await, so       *)
(* "main" does not move while "run" is there.                              *)
(*                                                                         *)
(* A child process is the handle the object holds on it: "none", "alive",  *)
(* or "gone", an exited process whose handle is kept.  terminate() of a    *)
(* "gone" one does nothing just after the exit and raises                  *)
(* ProcessLookupError from then on.                                        *)
(***************************************************************************)
EXTENDS MediaConstants

VARIABLES
  state,      \* VideoPipeline._state
  assigned,   \* has CameraManager a PRIMARY?
  encoder,    \* _encoder_process
  push,       \* _cloud_push_process
  mediamtx,   \* MediamtxManager._process
  running,    \* MediamtxManager._running
  shutdown,   \* the event the signal handlers set
  pc,         \* where each task is
  lost        \* history: has a handle on a live encoder been overwritten?

pipeline == <<state, assigned, encoder, push, mediamtx, running>>
vars     == <<pipeline, shutdown, pc, lost>>

Task  == {"main", "run"}
Child == {"none", "alive", "gone"}

\* What the loop does on behalf of task t stops at its next await, l.
Await(t, l) == pc' = [pc EXCEPT ![t] = l]

-----------------------------------------------------------------------------
(* start_stream(), by main() or by run().                                  *)

\* Slip: whoever called, the health loop's sleep comes next.
StartedInLoop(t, ok) == Await(t, "sleep")

\* start_stream has returned to run(), which sleeps, or to main(), which goes
\* on to the cloud push or to the health loop.  An event that is already set
\* does not suspend main(): run() is then cancelled before its first step.
Started(t, ok) ==
  IF t = "run" THEN Await("run", "sleep")
  ELSE IF ok /\ CloudPush THEN Await("main", "push")
  ELSE IF shutdown THEN pc' = [main |-> "endPush", run |-> "done"]
  ELSE pc' = [main |-> "wait", run |-> "check"]

\* An exception leaves start_stream, and then main(), which it ends, or run(),
\* whose finally clause comes next.
Escapes(t) == Await(t, IF t = "main" THEN "crashed" ELSE "finPush")

\* Up to the first await: discovery (auto_assign drops no assignment), the
\* encoder's command line, mediamtx and its configuration file, which may not
\* get written (OSError).  "enc" is the handle it comes with.
StartStream(t, enc) ==
  \E found, usable \in BOOLEAN :
    /\ assigned' = (assigned \/ found)
    /\ encoder' = enc
    /\ IF ~assigned' \/ ~usable
       THEN state' = "error" /\ Started(t, FALSE)
       ELSE /\ state' = "starting"
            /\ \/ ~running /\ Await(t, "mtx")
               \/ Await(t, "enc")           \* it runs, or there is no binary
               \/ Escapes(t)
    /\ lost' = (lost \/ (encoder = "alive" /\ enc = "none"))
    /\ UNCHANGED <<push, mediamtx, running, shutdown>>

Boot == pc["main"] = "boot" /\ StartStream("main", encoder)

\* mediamtx.start(): spawned, or failed with a warning.
MediamtxStarts(t) ==
  /\ pc[t] = "mtx"
  /\ \/ mediamtx' = "alive" /\ running' = TRUE
     \/ UNCHANGED <<mediamtx, running>>
  /\ Await(t, "enc")
  /\ UNCHANGED <<state, assigned, encoder, push, shutdown, lost>>

EncoderStarts(t) ==
  /\ pc[t] = "enc"
  /\ encoder' = "alive"
  /\ lost' = (lost \/ encoder = "alive")
  /\ state' = "running"
  /\ Started(t, TRUE)
  /\ UNCHANGED <<assigned, push, mediamtx, running, shutdown>>

\* FileNotFoundError is handled.
EncoderFails(t) ==
  /\ pc[t] = "enc"
  /\ \/ state' = "error" /\ Started(t, FALSE)
     \/ UNCHANGED state /\ Escapes(t)
  /\ UNCHANGED <<assigned, encoder, push, mediamtx, running, shutdown, lost>>

CloudPushStarts ==
  /\ pc["main"] = "push"
  /\ \/ push' = "alive" /\ Started("main", FALSE)
     \/ UNCHANGED push /\ Started("main", FALSE)       \* no ffmpeg
     \/ UNCHANGED push /\ Await("main", "crashed")     \* any other error
  /\ UNCHANGED <<state, assigned, encoder, mediamtx, running, shutdown, lost>>

-----------------------------------------------------------------------------
(* run(): the health loop.                                                 *)

\* Slip: the handle on the dead encoder is looked at, not its return code.
HealthyHandle == encoder # "none"

\* Slip: a dead mediamtx counts as a dead encoder.
HealthyServed == encoder = "alive" /\ mediamtx # "gone"

Healthy == encoder = "alive"

CheckHealth ==
  /\ pc["run"] = "check"
  /\ IF state = "running" /\ ~Healthy
     THEN StartStream("run", "none")
     ELSE Await("run", "sleep") /\ UNCHANGED <<pipeline, shutdown, lost>>

Wakes ==
  /\ pc["run"] = "sleep"
  /\ Await("run", "check")
  /\ UNCHANGED <<pipeline, shutdown, lost>>

\* The finally clause.
FinallyPush ==
  /\ pc["run"] = "finPush"
  /\ push' = IF push = "alive" THEN "none" ELSE push
  /\ Await("run", "finEnc")
  /\ UNCHANGED <<state, assigned, encoder, mediamtx, running, shutdown, lost>>

FinallyEncoder ==
  /\ pc["run"] = "finEnc"
  /\ encoder' = IF encoder = "alive" THEN "gone" ELSE encoder
  /\ Await("run", "finMtx")
  /\ UNCHANGED <<state, assigned, push, mediamtx, running, shutdown, lost>>

\* mediamtx.stop(), in a way that does not raise.
MediamtxStop ==
  IF running /\ mediamtx # "none"
  THEN mediamtx' = "none" /\ running' = FALSE
  ELSE UNCHANGED <<mediamtx, running>>

MediamtxRaises == running /\ mediamtx = "gone" /\ UNCHANGED <<mediamtx, running>>

FinallyMediamtx ==
  /\ pc["run"] = "finMtx"
  /\ MediamtxStop \/ MediamtxRaises
  /\ Await("run", "done")
  /\ UNCHANGED <<state, assigned, encoder, push, shutdown, lost>>

-----------------------------------------------------------------------------
(* A signal, and the rest of main(): cancel run(), gather, stop_stream().  *)

Signal ==
  /\ ~shutdown
  /\ shutdown' = TRUE
  /\ UNCHANGED <<pipeline, pc, lost>>

\* Slip: mediamtx.start() swallows the cancellation with the other exceptions.
CancelSwallowed ==
  /\ pc["main"] = "wait" /\ shutdown
  /\ pc["run"] # "check"
  /\ pc' = [main |-> "gather",
            run |-> IF pc["run"] \in {"sleep", "enc"} THEN "finPush" ELSE pc["run"]]
  /\ UNCHANGED <<pipeline, shutdown, lost>>

\* run() is cancelled at its await; a child it was spawning is killed.
CancelRun ==
  /\ pc["main"] = "wait" /\ shutdown
  /\ pc["run"] # "check"
  /\ pc' = [main |-> "gather",
            run |-> IF pc["run"] \in {"sleep", "mtx", "enc"} THEN "finPush"
                                                             ELSE pc["run"]]
  /\ UNCHANGED <<pipeline, shutdown, lost>>

Gathered ==
  /\ pc["main"] = "gather" /\ pc["run"] = "done"
  /\ Await("main", "endPush")
  /\ UNCHANGED <<pipeline, shutdown, lost>>

StopCloudPush ==
  /\ pc["main"] = "endPush"
  /\ push' = IF push = "alive" THEN "none" ELSE push
  /\ Await("main", "endEnc")
  /\ UNCHANGED <<state, assigned, encoder, mediamtx, running, shutdown, lost>>

\* Slip: run()'s finally clause is trusted to have stopped the encoder.
StopNoEncoder ==
  /\ pc["main"] = "endEnc"
  /\ Await("main", "endMtx")
  /\ UNCHANGED <<pipeline, shutdown, lost>>

StopEncoder ==
  /\ pc["main"] = "endEnc"
  /\ \/ encoder' = "none" /\ Await("main", "endMtx")
     \/ encoder = "gone" /\ UNCHANGED encoder /\ Await("main", "exited")
  /\ UNCHANGED <<state, assigned, push, mediamtx, running, shutdown, lost>>

StopMediamtx ==
  /\ pc["main"] = "endMtx"
  /\ \/ MediamtxStop /\ state' = "stopped"
     \/ MediamtxRaises /\ UNCHANGED state
  /\ Await("main", "exited")
  /\ UNCHANGED <<assigned, encoder, push, shutdown, lost>>

-----------------------------------------------------------------------------
(* The children.                                                           *)

Exits(child) == child = "alive" /\ child' = "gone"

ChildExits ==
  /\ \/ Exits(encoder) /\ UNCHANGED <<push, mediamtx>>
     \/ Exits(push) /\ UNCHANGED <<encoder, mediamtx>>
     \/ Exits(mediamtx) /\ UNCHANGED <<encoder, push>>
  /\ UNCHANGED <<state, assigned, running, shutdown, pc, lost>>

Init ==
  /\ state = "stopped"
  /\ assigned = FALSE
  /\ encoder = "none" /\ push = "none" /\ mediamtx = "none"
  /\ running = FALSE
  /\ shutdown = FALSE
  /\ pc = [main |-> "boot", run |-> "none"]
  /\ lost = FALSE

MainNext == \/ Boot \/ MediamtxStarts("main") \/ EncoderStarts("main")
            \/ EncoderFails("main") \/ CloudPushStarts \/ CancelRun
            \/ Gathered \/ StopCloudPush \/ StopEncoder \/ StopMediamtx

RunNext == \/ CheckHealth \/ Wakes \/ MediamtxStarts("run")
           \/ EncoderStarts("run") \/ EncoderFails("run")
           \/ FinallyPush \/ FinallyEncoder \/ FinallyMediamtx

Next == MainNext \/ RunNext \/ Signal \/ ChildExits

Spec == Init /\ [][Next]_vars

\* Each task that can go on does: every await of this code ends, and an
\* asyncio task that is ready is run in turn.
Fairness == SF_vars(MainNext) /\ WF_vars(RunNext)

FairSpec == Spec /\ Fairness
-----------------------------------------------------------------------------
(* Properties.                                                             *)

MainLabel == {"boot", "mtx", "enc", "push", "wait", "gather", "endPush",
              "endEnc", "endMtx", "exited", "crashed"}
RunLabel  == {"none", "check", "sleep", "mtx", "enc", "finPush", "finEnc",
              "finMtx", "done"}

\* Every variable holds what the code can put there.
TypeOK ==
  /\ state \in {"stopped", "starting", "running", "error"}
  /\ assigned \in BOOLEAN
  /\ encoder \in Child /\ push \in Child /\ mediamtx \in Child
  /\ running \in BOOLEAN
  /\ shutdown \in BOOLEAN
  /\ pc \in [Task -> MainLabel \cup RunLabel]
  /\ pc["main"] \in MainLabel /\ pc["run"] \in RunLabel
  /\ lost \in BOOLEAN

\* "On cancellation, ensures the encoder subprocess is terminated and not
\* orphaned (A-07)": wherever the signal falls, in the boot, in a restart or in
\* the sleep, whatever dies or raises meanwhile, when main() has ended no encoder
\* is left.  There is one exception: start_cloud_push() spawns ffmpeg with the
\* encoder running and nobody to stop it, and catches FileNotFoundError only, so
\* any other error of that spawn ends main() and leaves the encoder behind.
EncoderGoneAtExit ==
  pc["main"] \in {"exited", "crashed"} /\ encoder = "alive"
    => CloudPush /\ pc["main"] = "crashed"

\* The health loop never starts a second encoder beside a live one, nor lets go
\* of one it can no longer stop (run, start_stream).
OneEncoder == ~lost

\* "Monitors encoder health and auto-restarts on failure": a dead encoder is
\* followed by a live one, unless the restart itself fails or the service stops.
EncoderRestarted ==
  (state = "running" /\ encoder = "gone" /\ pc["main"] = "wait")
    ~> (encoder = "alive" \/ state = "error" \/ shutdown \/ pc["run"] = "done")

\* A signal ends the service, wherever it falls and whichever child is dead.
ShutdownEnds == shutdown ~> pc["main"] \in {"exited", "crashed"}
=============================================================================
