------------------------------ MODULE Recorder ------------------------------
(***************************************************************************)
(* VideoRecorder (src/src/ados/services/video/recorder.py), called by the  *)
(* routes of src/src/ados/api/routes/video.py and by the storage check     *)
(* that every recording starts for itself.                                 *)
(*                                                                         *)
(* One event loop.  A caller is a request or a storage check; a label is   *)
(* the await it is at.  Recording k is the k-th ffmpeg, with its storage   *)
(* check k.  stop_recording cancels the storage check: if it is the check  *)
(* that called it, its own task, which then ends at its next await.        *)
(***************************************************************************)
EXTENDS MediaConstants

Recording == 1..MaxRecordings

VARIABLES
  recording,  \* _recording
  process,    \* _process: which ffmpeg, or 0 for None
  check,      \* _storage_task: whose, or 0 for None
  ffmpeg,     \* of each: "none", "alive", "asked" (sent 'q') or "gone"
  started,    \* how many were started
  diskFull,   \* is disk usage above the threshold?
  pc,         \* where each caller is
  waits,      \* the process a caller's stop_recording waits for
  clashed     \* history: has a start begun while another request was under way?

vars == <<recording, process, check, ffmpeg, started, diskFull, pc, waits, clashed>>

Caller == Requests \cup Recording

Live == {k \in Recording : ffmpeg[k] \in {"alive", "asked"}}

-----------------------------------------------------------------------------
(* start_recording(), by a request.                                        *)

\* Is another request than r under way?
Busy(r) == \E q \in Requests \ {r} : pc[q] # "idle"

\* Slip: nothing asks whether a recording is under way.
BeginStartUnchecked(r) ==
  /\ pc[r] = "idle"
  /\ started < MaxRecordings
  /\ \E full \in BOOLEAN : diskFull' = (diskFull /\ full)
  /\ pc' = [pc EXCEPT ![r] = "spawn"]
  /\ clashed' = (clashed \/ Busy(r))
  /\ UNCHANGED <<recording, process, check, ffmpeg, started, waits>>

BeginStart(r) ==
  /\ pc[r] = "idle"
  /\ started < MaxRecordings
  /\ ~recording
  /\ \E full \in BOOLEAN : diskFull' = (diskFull /\ full)  \* oldest files go
  /\ pc' = [pc EXCEPT ![r] = "spawn"]
  /\ clashed' = (clashed \/ Busy(r))
  /\ UNCHANGED <<recording, process, check, ffmpeg, started, waits>>

Spawned(r) ==
  LET k == started + 1 IN
  /\ pc[r] = "spawn" /\ started < MaxRecordings
  /\ started' = k
  /\ ffmpeg' = [ffmpeg EXCEPT ![k] = "alive"]
  /\ process' = k
  /\ recording' = TRUE
  /\ check' = k
  /\ pc' = [pc EXCEPT ![r] = "idle", ![k] = "sleep"]
  /\ UNCHANGED <<diskFull, waits, clashed>>

\* FileNotFoundError: no ffmpeg.
SpawnFails(r) ==
  /\ pc[r] = "spawn"
  /\ pc' = [pc EXCEPT ![r] = "idle"]
  /\ UNCHANGED <<recording, process, check, ffmpeg, started, diskFull, waits, clashed>>

-----------------------------------------------------------------------------
(* stop_recording(), by a request or by a storage check.                   *)

\* Where the callers are once c's stop_recording has cancelled the storage
\* check and comes to the wait for the process: a check that cancelled itself
\* ends there.
Cancelled(c) ==
  LET others == IF check = 0 THEN pc ELSE [pc EXCEPT ![check] = "done"]
  IN IF c = check THEN others ELSE [others EXCEPT ![c] = "wait"]

StopRecording(c) ==
  /\ pc' = Cancelled(c)
  /\ check' = IF check # 0 /\ pc[check] = "done" THEN check ELSE 0
  /\ ffmpeg' = [ffmpeg EXCEPT ![process] = IF @ = "alive" THEN "asked" ELSE @]
  /\ waits' = [waits EXCEPT ![c] = process]
  /\ UNCHANGED <<recording, process, started, diskFull, clashed>>

BeginStop(r) ==
  /\ pc[r] = "idle"
  /\ recording /\ process # 0
  /\ StopRecording(r)

\* c's stop_recording returns, or raises.
Ended(c) ==
  /\ pc' = [pc EXCEPT ![c] = IF c \in Requests THEN "idle" ELSE "done"]
  /\ waits' = [waits EXCEPT ![c] = 0]

\* The process has exited: the lines after the wait.
Stopped(c) ==
  /\ pc[c] \in {"wait", "killed"}
  /\ ffmpeg[waits[c]] = "gone"
  /\ recording' = FALSE
  /\ process' = 0
  /\ Ended(c)
  /\ UNCHANGED <<check, ffmpeg, started, diskFull, clashed>>

\* Slip: after the timeout stop_recording gives up.
TimeoutGivesUp(c) ==
  /\ pc[c] = "wait" /\ ffmpeg[waits[c]] # "gone"
  /\ process # 0
  /\ recording' = FALSE
  /\ process' = 0
  /\ Ended(c)
  /\ UNCHANGED <<check, ffmpeg, started, diskFull, clashed>>

\* Slip: stop_recording waits without a timeout.
NoTimeout(c) == pc[c] = "wait" /\ UNCHANGED vars

\* Ten seconds have passed: kill what _process holds now, and wait for that.
\* None.kill() fails, and kill() of what has exited may.
Timeout(c) ==
  /\ pc[c] = "wait" /\ ffmpeg[waits[c]] # "gone"
  /\ \/ /\ process \notin Live
        /\ Ended(c)
        /\ UNCHANGED ffmpeg
     \/ /\ process # 0
        /\ ffmpeg' = [ffmpeg EXCEPT ![process] = "gone"]
        /\ waits' = [waits EXCEPT ![c] = process]
        /\ pc' = [pc EXCEPT ![c] = "killed"]
  /\ UNCHANGED <<recording, process, check, started, diskFull, clashed>>

-----------------------------------------------------------------------------
(* _periodic_storage_check(), every 30 s.                                  *)

\* Its own cancellation reaches a check at its next await; if ffmpeg has just
\* exited there may be none, and stop_recording is completed.
StorageCheck(k) ==
  /\ pc[k] = "sleep"
  /\ \/ /\ ~recording
        /\ pc' = [pc EXCEPT ![k] = "done"]
        /\ UNCHANGED <<recording, process, check, ffmpeg, started, diskFull, waits,
                       clashed>>
     \/ recording /\ diskFull /\ StopRecording(k)
     \/ /\ recording /\ diskFull /\ check = k /\ ffmpeg[process] = "gone"
        /\ recording' = FALSE
        /\ process' = 0
        /\ check' = 0
        /\ pc' = [pc EXCEPT ![k] = "done"]
        /\ UNCHANGED <<ffmpeg, started, diskFull, waits, clashed>>

-----------------------------------------------------------------------------
FfmpegExits(k) ==
  /\ k \in Live
  /\ ffmpeg' = [ffmpeg EXCEPT ![k] = "gone"]
  /\ UNCHANGED <<recording, process, check, started, diskFull, pc, waits,
                 clashed>>

DiskFills ==
  /\ ~diskFull /\ Live # {}
  /\ diskFull' = TRUE
  /\ UNCHANGED <<recording, process, check, ffmpeg, started, pc, waits, clashed>>

Init ==
  /\ recording = FALSE
  /\ process = 0
  /\ check = 0
  /\ ffmpeg = [k \in Recording |-> "none"]
  /\ started = 0
  /\ diskFull \in BOOLEAN
  /\ pc = [c \in Caller |-> IF c \in Requests THEN "idle" ELSE "none"]
  /\ waits = [c \in Caller |-> 0]
  /\ clashed = FALSE

Request(r) == BeginStart(r) \/ BeginStop(r)

Goes(c) == \/ c \in Requests /\ (Spawned(c) \/ SpawnFails(c))
           \/ Stopped(c) \/ Timeout(c)
           \/ c \in Recording /\ StorageCheck(c)

Next == \/ \E r \in Requests : Request(r)
        \/ \E c \in Caller : Goes(c)
        \/ \E k \in Recording : FfmpegExits(k)
        \/ DiskFills

Spec == Init /\ [][Next]_vars

\* Every await of a caller ends: by the timeout, if not before.
Fairness == \A c \in Caller : WF_vars(Goes(c))

FairSpec == Spec /\ Fairness
-----------------------------------------------------------------------------
(* Properties.                                                             *)

RequestLabel == {"idle", "spawn", "wait", "killed"}
CheckLabel   == {"none", "sleep", "wait", "killed", "done"}

\* Every variable holds what the code can put there, and the flag agrees with
\* the handle.
TypeOK ==
  /\ recording \in BOOLEAN
  /\ process \in 0..MaxRecordings /\ check \in 0..MaxRecordings
  /\ recording <=> process # 0
  /\ ffmpeg \in [Recording -> {"none", "alive", "asked", "gone"}]
  /\ started \in 0..MaxRecordings
  /\ diskFull \in BOOLEAN
  /\ pc \in [Caller -> RequestLabel \cup CheckLabel]
  /\ waits \in [Caller -> 0..MaxRecordings]
  /\ clashed \in BOOLEAN

\* No ffmpeg is left running that the recorder has lost its handle on, however
\* storage checks, exits, timeouts and several stop requests fall between a start
\* and a stop, until a start begins while another request is under way: the
\* _recording it looks at is set after the await of the spawn, and reset by every
\* stop that comes to its end, whatever was started meanwhile.
LiveIsHeld == ~clashed => \A k \in Live : process = k /\ recording

\* "Check disk usage every 30s during recording; stop if space is low": a
\* recording on a full disk is stopped, unless space is made.
LowSpaceStops == (diskFull /\ recording) ~> (~diskFull \/ ~recording)

\* No request waits for ever for an ffmpeg that does not quit.
RequestsEnd == \A r \in Requests : (pc[r] # "idle") ~> (pc[r] = "idle")
=============================================================================
