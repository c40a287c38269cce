----------------------------- MODULE RecorderProofs -----------------------------
(* What Recorder guarantees for any number of recordings and of requests that  *)
(* are under way together.                                                     *)
EXTENDS Recorder, TLAPS

(* The storage check that sleeps is that of the recording under way; one that  *)
(* stops it ends at once, and never waits.                                     *)
CheckInv ==
  /\ \A k \in Recording : /\ pc[k] \in {"none", "sleep", "done"}
                          /\ pc[k] = "sleep" => check = k /\ process = k
                          /\ k > started => pc[k] = "none"
  /\ check # 0 => pc[check] = "sleep"

(* A request that spawns is alone and finds no recording.  One that waits has  *)
(* cancelled the storage check, and waits for the process there is or, when    *)
(* another stop was quicker, for one that has exited.                          *)
RequestInv ==
  \A r \in Requests :
    /\ pc[r] \in RequestLabel
    /\ pc[r] = "spawn" => ~recording /\ ~Busy(r)
    /\ pc[r] \in {"wait", "killed"} =>
         /\ check = 0 /\ waits[r] \in Recording
         /\ IF recording THEN waits[r] = process ELSE ffmpeg[waits[r]] = "gone"

Held == \A k \in Live : process = k /\ recording

(* What holds until a start begins while another request is under way.         *)
IInv == TypeOK /\ clashed = FALSE /\ CheckInv /\ RequestInv /\ Held

\* A storage check is no request.
LEMMA Apart == \A k \in Recording : k \notin Requests
  BY RecorderAssumption DEF RecorderAssumption, Recording

\* Nothing runs when nothing is recorded, or what is has exited.
LEMMA NoneLive ==
  ASSUME TypeOK, Held, ~recording \/ ffmpeg[process] = "gone"
  PROVE  Live = {}
  BY DEF Held, Live

LEMMA BeginStartStep ==
  ASSUME IInv, NEW r \in Requests, BeginStart(r), clashed' = FALSE PROVE IInv'
<1> USE RecorderAssumption DEF IInv, Caller
<1>1. /\ ~recording /\ pc[r] = "idle" /\ pc' = [pc EXCEPT ![r] = "spawn"]
      /\ diskFull' \in BOOLEAN /\ ~Busy(r)
      /\ UNCHANGED <<recording, process, check, ffmpeg, started, waits>>
  BY DEF BeginStart, TypeOK
<1>2. \A k \in Recording : k # r /\ pc'[k] = pc[k]
  BY <1>1 DEF RecorderAssumption, Recording, TypeOK
<1>3. pc' \in [Caller -> RequestLabel \cup CheckLabel] /\ pc'[r] = "spawn"
  BY <1>1 DEF TypeOK, RequestLabel
<1>4. TypeOK'
  BY <1>1, <1>3 DEF TypeOK
<1>5. CheckInv'
  <2>1. check # 0 => check \in Recording
    BY DEF TypeOK, Recording, RecorderAssumption
  <2>2. QED  BY <1>1, <1>2, <2>1 DEF CheckInv
<1>6. RequestInv'
  <2>1. \A s \in Requests \ {r} : pc[s] = "idle" /\ pc'[s] = "idle"
    BY <1>1 DEF Busy, TypeOK
  <2>2. ~Busy(r)'
    BY <2>1 DEF Busy
  <2>3. \A s \in Requests : pc'[s] = IF s = r THEN "spawn" ELSE "idle"
    BY <1>3, <2>1
  <2>4. QED  BY <1>1, <2>2, <2>3 DEF RequestInv, RequestLabel
<1>7. Held'
  BY <1>1 DEF Held, Live
<1>8. QED  BY <1>4, <1>5, <1>6, <1>7

LEMMA SpawnedStep ==
  ASSUME IInv, NEW r \in Requests, Spawned(r) PROVE IInv'
<1> USE RecorderAssumption DEF IInv, Caller
<1> DEFINE n == started + 1
<1>1. /\ pc[r] = "spawn" /\ n \in Recording /\ n \notin Requests
      /\ started' = n /\ ffmpeg' = [ffmpeg EXCEPT ![n] = "alive"]
      /\ process' = n /\ recording' = TRUE /\ check' = n
      /\ pc' = [pc EXCEPT ![r] = "idle", ![n] = "sleep"]
      /\ UNCHANGED <<diskFull, waits, clashed>>
  BY DEF Spawned, TypeOK, Recording, RecorderAssumption
<1>2. \A c \in Caller : pc'[c] = IF c = n THEN "sleep" ELSE IF c = r THEN "idle" ELSE pc[c]
  BY <1>1 DEF TypeOK
<1>3. pc' \in [Caller -> RequestLabel \cup CheckLabel]
  BY <1>1 DEF TypeOK, RequestLabel, CheckLabel
<1>4. TypeOK'
  <2>1. n \in 0..MaxRecordings /\ n # 0
    BY <1>1 DEF Recording
  <2>2. QED  BY <1>1, <1>3, <2>1 DEF TypeOK
<1>5. ~recording /\ Live = {}
  BY <1>1, NoneLive DEF RequestInv
<1>6. \A k \in Recording : pc[k] # "sleep"
  <2>1. process = 0
    BY <1>5 DEF TypeOK
  <2>2. QED  BY <2>1 DEF CheckInv, Recording
<1>7. CheckInv'
  <2>1. \A k \in Recording : k # r
    BY DEF RecorderAssumption, Recording
  <2>2. ASSUME NEW k \in Recording
        PROVE  /\ pc'[k] \in {"none", "sleep", "done"}
               /\ pc'[k] = "sleep" => check' = k /\ process' = k
               /\ k > started' => pc'[k] = "none"
    <3>1. k > n => k > started
      BY <1>1 DEF TypeOK, Recording, RecorderAssumption
    <3>2. CASE k = n
      <4>1. ~(k > n) /\ pc'[k] = "sleep"
        BY <1>1, <1>2, <3>2 DEF TypeOK
      <4>2. QED  BY <1>1, <3>2, <4>1
    <3>3. CASE k # n
      <4>1. pc'[k] = pc[k] /\ pc[k] # "sleep"
        BY <1>2, <1>6, <2>1, <3>3
      <4>2. QED  BY <1>1, <3>1, <4>1 DEF CheckInv
    <3>4. QED  BY <3>2, <3>3
  <2>3. pc'[check'] = "sleep"
    BY <1>1, <1>2
  <2>4. QED  BY <2>2, <2>3 DEF CheckInv
<1>8. RequestInv'
  <2>1. pc'[r] = "idle"
    BY <1>1, <1>2
  <2>2. \A s \in Requests : s # r => pc[s] = "idle" /\ s # n
    BY <1>1 DEF RequestInv, Busy, RecorderAssumption, Recording
  <2>3. \A s \in Requests : pc'[s] = "idle"
    BY <1>1, <1>2, <2>1, <2>2
  <2>4. QED  BY <2>3 DEF RequestInv, RequestLabel
<1>9. Held'
  BY <1>1, <1>5 DEF Held, Live, TypeOK
<1>10. QED  BY <1>1, <1>4, <1>7, <1>8, <1>9

LEMMA SpawnFailsStep ==
  ASSUME IInv, NEW r \in Requests, SpawnFails(r) PROVE IInv'
<1> USE RecorderAssumption DEF IInv, Caller
<1>1. /\ pc' = [pc EXCEPT ![r] = "idle"] /\ pc[r] = "spawn"
      /\ UNCHANGED <<recording, process, check, ffmpeg, started, diskFull, waits, clashed>>
  BY DEF SpawnFails
<1>2. /\ \A k \in Recording : pc'[k] = pc[k]
      /\ pc' \in [Caller -> RequestLabel \cup CheckLabel] /\ pc'[r] = "idle"
  BY <1>1 DEF RecorderAssumption, Recording, TypeOK, RequestLabel
<1>3. TypeOK'
  BY <1>1, <1>2 DEF TypeOK
<1>4. CheckInv'
  <2>1. check # 0 => check \in Recording
    BY DEF TypeOK, Recording, RecorderAssumption
  <2>2. QED  BY <1>1, <1>2, <2>1 DEF CheckInv
<1>5. RequestInv'
  <2>1. \A s \in Requests : pc'[s] = "idle"
    BY <1>1, <1>2 DEF RequestInv, Busy, TypeOK
  <2>2. QED  BY <2>1 DEF RequestInv, RequestLabel
<1>6. Held'
  BY <1>1 DEF Held, Live
<1>7. QED  BY <1>1, <1>3, <1>4, <1>5, <1>6

LEMMA BeginStopStep ==
  ASSUME IInv, NEW r \in Requests, BeginStop(r) PROVE IInv'
<1> USE RecorderAssumption DEF IInv, Caller
<1>1. /\ pc[r] = "idle" /\ recording /\ process # 0 /\ process \in Recording
      /\ pc' = Cancelled(r)
      /\ check' = (IF check # 0 /\ pc[check] = "done" THEN check ELSE 0)
      /\ ffmpeg' = [ffmpeg EXCEPT ![process] = IF @ = "alive" THEN "asked" ELSE @]
      /\ waits' = [waits EXCEPT ![r] = process]
      /\ UNCHANGED <<recording, process, started, diskFull, clashed>>
  BY DEF BeginStop, StopRecording, TypeOK, Recording, RecorderAssumption
<1>2. check' = 0
  BY <1>1 DEF CheckInv
<1>3. /\ check # r /\ (check # 0 => check \in Recording)
      /\ \A k \in Recording : k # r
      /\ 0 \notin Caller
  BY DEF TypeOK, Recording, RecorderAssumption
<1>4. \A c \in Caller : pc'[c] = IF c = r THEN "wait" ELSE IF c = check THEN "done" ELSE pc[c]
  <2>1. CASE check = 0
    <3>1. pc' = [pc EXCEPT ![r] = "wait"]
      BY <1>1, <1>3, <2>1 DEF Cancelled
    <3>2. QED  BY <1>3, <2>1, <3>1 DEF TypeOK
  <2>2. CASE check # 0
    <3>1. pc' = [[pc EXCEPT ![check] = "done"] EXCEPT ![r] = "wait"]
      BY <1>1, <1>3, <2>2 DEF Cancelled
    <3>2. QED  BY <1>3, <3>1 DEF TypeOK
  <2>3. QED  BY <2>1, <2>2
<1>5. pc' \in [Caller -> RequestLabel \cup CheckLabel]
  <2>1. DOMAIN pc' = Caller /\ pc' = [c \in Caller |-> pc'[c]]
    BY <1>1 DEF Cancelled, TypeOK
  <2>2. QED  BY <1>4, <2>1 DEF TypeOK, RequestLabel, CheckLabel
<1>6. ffmpeg' \in [Recording -> {"none", "alive", "asked", "gone"}]
  BY <1>1 DEF TypeOK
<1>7. TypeOK'
  BY <1>1, <1>2, <1>5, <1>6 DEF TypeOK, RecorderAssumption
<1>8. CheckInv'
  <2>1. \A k \in Recording : pc'[k] = IF k = check THEN "done" ELSE pc[k]
    BY <1>3, <1>4
  <2>2. \A k \in Recording : k = check => ~(k > started)
    BY <1>3, RecorderAssumption DEF CheckInv, Recording, RecorderAssumption
  <2>3. \A k \in Recording : pc[k] = "sleep" => k = check
    BY DEF CheckInv
  <2>4. \A k \in Recording : pc'[k] \in {"none", "done"}
    BY <2>1, <2>3 DEF CheckInv
  <2>5. \A k \in Recording : k > started => pc'[k] = "none"
    BY <2>1, <2>2 DEF CheckInv
  <2>6. QED  BY <1>1, <1>2, <2>4, <2>5 DEF CheckInv
<1>9. RequestInv'
  <2>1. \A s \in Requests : pc[s] # "spawn"
    BY <1>1 DEF RequestInv
  <2>2. \A s \in Requests : pc'[s] = IF s = r THEN "wait" ELSE pc[s]
    BY <1>3, <1>4 DEF RecorderAssumption, Recording
  <2>3. \A s \in Requests : waits'[s] = IF s = r THEN process ELSE waits[s]
    BY <1>1 DEF TypeOK
  <2>4. QED  BY <1>1, <1>2, <2>1, <2>2, <2>3 DEF RequestInv, RequestLabel
<1>10. Held'
  BY <1>1 DEF Held, Live, TypeOK
<1>11. QED  BY <1>1, <1>7, <1>8, <1>9, <1>10

\* Only requests wait, for what is recorded or has exited, and alone or with others
\* that do.
LEMMA Waiters ==
  ASSUME IInv, NEW c \in Caller, pc[c] \in {"wait", "killed"}
  PROVE  /\ c \in Requests /\ check = 0 /\ waits[c] \in Recording
         /\ IF recording THEN waits[c] = process ELSE ffmpeg[waits[c]] = "gone"
         /\ \A r \in Requests : pc[r] # "spawn"
         /\ \A k \in Recording : pc[k] # "sleep"
<1>1. c \in Requests
  BY DEF IInv, CheckInv, Caller
<1>2. /\ waits[c] \in Recording /\ check = 0
      /\ IF recording THEN waits[c] = process ELSE ffmpeg[waits[c]] = "gone"
  BY <1>1 DEF IInv, RequestInv
<1>3. \A r \in Requests : pc[r] # "spawn"
  BY <1>1 DEF IInv, RequestInv, Busy
<1>4. \A k \in Recording : pc[k] # "sleep"
  BY <1>2, RecorderAssumption DEF IInv, CheckInv, RecorderAssumption, Recording
<1>5. QED  BY <1>1, <1>2, <1>3, <1>4

\* A request that has waited, and is idle now, leaves the others where they were.
LEMMA IdleAgain ==
  ASSUME IInv, NEW c \in Requests, pc' = [pc EXCEPT ![c] = "idle"]
  PROVE  /\ \A k \in Recording : pc'[k] = pc[k]
         /\ \A s \in Requests : pc'[s] = IF s = c THEN "idle" ELSE pc[s]
         /\ pc' \in [Caller -> RequestLabel \cup CheckLabel]
<1>1. c \in Caller /\ \A k \in Recording : k # c
  BY RecorderAssumption DEF Caller, RecorderAssumption, Recording
<1>2. QED  BY <1>1 DEF IInv, TypeOK, Caller, RequestLabel

LEMMA StoppedStep ==
  ASSUME IInv, NEW c \in Caller, Stopped(c) PROVE IInv'
<1> USE RecorderAssumption DEF IInv, Caller
<1>1. /\ c \in Requests /\ check = 0 /\ waits[c] \in Recording
      /\ IF recording THEN waits[c] = process ELSE ffmpeg[waits[c]] = "gone"
      /\ \A r \in Requests : pc[r] # "spawn"
      /\ \A k \in Recording : pc[k] # "sleep"
  BY Waiters DEF Stopped
<1>2. /\ ffmpeg[waits[c]] = "gone" /\ recording' = FALSE /\ process' = 0
      /\ pc' = [pc EXCEPT ![c] = "idle"] /\ waits' = [waits EXCEPT ![c] = 0]
      /\ UNCHANGED <<check, ffmpeg, started, diskFull, clashed>>
  BY <1>1 DEF Stopped, Ended
<1>3. Live' = {}
  <2>1. Live = {}
    BY <1>1, <1>2, NoneLive
  <2>2. QED  BY <1>2, <2>1 DEF Live
<1>4. /\ \A k \in Recording : pc'[k] = pc[k]
      /\ \A s \in Requests : pc'[s] = IF s = c THEN "idle" ELSE pc[s]
      /\ pc' \in [Caller -> RequestLabel \cup CheckLabel]
  BY <1>1, <1>2, IdleAgain
<1>5. TypeOK'
  <2>1. recording' \in BOOLEAN /\ (recording' <=> process' # 0)
    BY <1>2, Zenon
  <2>2. QED  BY <1>1, <1>2, <1>4, <2>1 DEF TypeOK, RecorderAssumption
<1>6. CheckInv'
  BY <1>1, <1>2, <1>4 DEF CheckInv
<1>7. RequestInv'
  <2>1. ASSUME NEW s \in Requests, s # c, pc[s] \in {"wait", "killed"}
        PROVE  waits'[s] = waits[s] /\ waits[s] \in Recording /\ ffmpeg[waits[s]] = "gone"
    BY <1>1, <1>2, <2>1 DEF RequestInv, TypeOK
  <2>2. \A s \in Requests : pc'[s] \in RequestLabel /\ pc'[s] # "spawn"
    BY <1>1, <1>4 DEF RequestInv, RequestLabel
  <2>3. QED  BY <1>1, <1>2, <1>4, <2>1, <2>2 DEF RequestInv
<1>8. Held'
  BY <1>3 DEF Held
<1>9. QED  BY <1>2, <1>5, <1>6, <1>7, <1>8

LEMMA TimeoutStep ==
  ASSUME IInv, NEW c \in Caller, Timeout(c) PROVE IInv'
<1> USE RecorderAssumption DEF IInv, Caller
<1>1. /\ c \in Requests /\ check = 0 /\ waits[c] \in Recording
      /\ recording /\ waits[c] = process
      /\ \A r \in Requests : pc[r] # "spawn"
      /\ \A k \in Recording : pc[k] # "sleep" /\ k # c
  BY Waiters, Apart DEF Timeout
<1>2. process \in Recording /\ process \in 0..MaxRecordings
  BY <1>1 DEF Recording
<1>3. UNCHANGED <<recording, process, check, started, diskFull, clashed>>
  BY DEF Timeout
<1>4. CASE Ended(c) /\ UNCHANGED ffmpeg
  <2>1. pc' = [pc EXCEPT ![c] = "idle"] /\ waits' = [waits EXCEPT ![c] = 0]
    BY <1>1, <1>4 DEF Ended
  <2>2. /\ \A k \in Recording : pc'[k] = pc[k]
        /\ \A s \in Requests : pc'[s] = IF s = c THEN "idle" ELSE pc[s]
        /\ pc' \in [Caller -> RequestLabel \cup CheckLabel]
    BY <1>1, <2>1, IdleAgain
  <2>3. TypeOK'
    BY <1>1, <1>3, <1>4, <2>1, <2>2 DEF TypeOK, RecorderAssumption
  <2>4. CheckInv' /\ Held'
    BY <1>1, <1>3, <1>4, <2>2 DEF CheckInv, Held, Live
  <2>5. RequestInv'
    <3>1. \A s \in Requests : s # c => waits'[s] = waits[s]
      BY <2>1 DEF TypeOK
    <3>2. QED  BY <1>1, <1>3, <1>4, <2>2, <3>1 DEF RequestInv, RequestLabel
  <2>6. QED  BY <1>3, <2>3, <2>4, <2>5
<1>5. CASE /\ ffmpeg' = [ffmpeg EXCEPT ![process] = "gone"]
           /\ waits' = [waits EXCEPT ![c] = process]
           /\ pc' = [pc EXCEPT ![c] = "killed"]
  <2>1. /\ \A k \in Recording : pc'[k] = pc[k]
        /\ \A s \in Requests : pc'[s] = IF s = c THEN "killed" ELSE pc[s]
        /\ pc' \in [Caller -> RequestLabel \cup CheckLabel]
    BY <1>1, <1>5 DEF TypeOK, RequestLabel
  <2>2. TypeOK'
    BY <1>2, <1>3, <1>5, <2>1 DEF TypeOK
  <2>3. CheckInv'
    BY <1>1, <1>3, <2>1 DEF CheckInv
  <2>4. RequestInv'
    <3>1. \A s \in Requests : waits'[s] = IF s = c THEN process ELSE waits[s]
      BY <1>5 DEF TypeOK
    <3>2. QED  BY <1>1, <1>2, <1>3, <2>1, <3>1 DEF RequestInv, RequestLabel
  <2>5. Held'
    BY <1>3, <1>5 DEF Held, Live, TypeOK
  <2>6. QED  BY <1>3, <2>2, <2>3, <2>4, <2>5
<1>6. QED  BY <1>4, <1>5 DEF Timeout

\* The storage check that sleeps is the recording's, so it ends where it stops it.
LEMMA StorageCheckStep ==
  ASSUME IInv, NEW k \in Recording, StorageCheck(k) PROVE IInv'
<1> USE RecorderAssumption DEF IInv, Caller
<1>1. /\ pc[k] = "sleep" /\ check = k /\ process = k /\ recording /\ k # 0
      /\ k \notin Requests
  BY DEF StorageCheck, CheckInv, TypeOK, Recording, RecorderAssumption
<1>2. \A r \in Requests : pc[r] = "idle"
  BY <1>1 DEF RequestInv, RequestLabel
<1>3. /\ pc' = [pc EXCEPT ![k] = "done"] /\ check' = 0
      /\ UNCHANGED <<started, diskFull, clashed>>
  BY <1>1 DEF StorageCheck, StopRecording, Cancelled
<1>4. /\ \A c \in Caller : pc'[c] = IF c = k THEN "done" ELSE pc[c]
      /\ pc' \in [Caller -> RequestLabel \cup CheckLabel]
  BY <1>3 DEF TypeOK, CheckLabel
<1>5. CheckInv'
  <2>1. \A j \in Recording : pc'[j] \in {"none", "done"}
    BY <1>1, <1>4 DEF CheckInv
  <2>2. \A j \in Recording : j > started => pc'[j] = "none"
    BY <1>1, <1>4 DEF CheckInv
  <2>3. QED  BY <1>3, <2>1, <2>2 DEF CheckInv
<1>6. RequestInv'
  BY <1>1, <1>2, <1>4 DEF RequestInv, RequestLabel
<1>7. CASE StopRecording(k)
  <2>1. /\ ffmpeg' = [ffmpeg EXCEPT ![k] = IF @ = "alive" THEN "asked" ELSE @]
        /\ waits' = [waits EXCEPT ![k] = k] /\ UNCHANGED <<recording, process>>
    BY <1>1, <1>7 DEF StopRecording
  <2>2. ffmpeg' \in [Recording -> {"none", "alive", "asked", "gone"}]
    BY <2>1 DEF TypeOK
  <2>3. waits' \in [Caller -> 0..MaxRecordings]
    BY <2>1 DEF TypeOK, Recording
  <2>4. TypeOK'
    BY <1>3, <1>4, <2>1, <2>2, <2>3 DEF TypeOK, RecorderAssumption
  <2>5. Held'
    BY <2>1 DEF Held, Live, TypeOK
  <2>6. QED  BY <1>3, <1>5, <1>6, <2>4, <2>5
<1>8. CASE ffmpeg[process] = "gone" /\ recording' = FALSE /\ process' = 0
           /\ UNCHANGED <<ffmpeg, waits>>
  <2>1. TypeOK'
    <3>1. recording' \in BOOLEAN /\ (recording' <=> process' # 0)
      BY <1>8, Zenon
    <3>2. QED  BY <1>3, <1>4, <1>8, <3>1 DEF TypeOK, RecorderAssumption
  <2>2. Held'
    BY <1>8, NoneLive DEF Held, Live
  <2>3. QED  BY <1>3, <1>5, <1>6, <2>1, <2>2
<1>9. QED  BY <1>1, <1>7, <1>8 DEF StorageCheck

LEMMA EnvironmentStep ==
  ASSUME IInv, (\E k \in Recording : FfmpegExits(k)) \/ DiskFills \/ UNCHANGED vars
  PROVE  IInv'
<1>1. /\ UNCHANGED <<recording, process, check, started, pc, waits, clashed>>
      /\ diskFull' \in BOOLEAN
  BY DEF FfmpegExits, DiskFills, vars, IInv, TypeOK
<1>2. /\ ffmpeg' \in [Recording -> {"none", "alive", "asked", "gone"}]
      /\ Live' \subseteq Live
      /\ \A k \in Recording : ffmpeg[k] = "gone" => ffmpeg'[k] = "gone"
  BY DEF FfmpegExits, DiskFills, vars, IInv, TypeOK, Live
<1>3. TypeOK'
  BY <1>1, <1>2 DEF IInv, TypeOK
<1>4. CheckInv' /\ RequestInv'
  BY <1>1, <1>2 DEF IInv, CheckInv, RequestInv, Busy
<1>5. Held'
  BY <1>1, <1>2 DEF IInv, Held
<1>6. QED  BY <1>1, <1>3, <1>4, <1>5 DEF IInv

LEMMA Initially == Init => IInv
<1> SUFFICES ASSUME Init PROVE IInv
  OBVIOUS
<1> USE RecorderAssumption DEF Init, Caller
<1>1. \A k \in Recording : pc[k] = "none" /\ k \notin Requests
  BY Apart
<1>2. \A r \in Requests : pc[r] = "idle"
  OBVIOUS
<1>3. TypeOK
  <2>1. recording \in BOOLEAN /\ (recording <=> process # 0) /\ diskFull \in BOOLEAN
    BY Zenon
  <2>2. clashed \in BOOLEAN
    BY Zenon
  <2>3. pc \in [Caller -> RequestLabel \cup CheckLabel]
    BY DEF RequestLabel, CheckLabel
  <2>4. QED  BY <2>1, <2>2, <2>3 DEF TypeOK, RecorderAssumption
<1>4. CheckInv /\ RequestInv
  BY <1>1, <1>2 DEF CheckInv, RequestInv, RequestLabel
<1>5. Held
  BY DEF Held, Live
<1>6. QED  BY <1>3, <1>4, <1>5 DEF IInv

LEMMA NextStep == ASSUME IInv, clashed' = FALSE, [Next]_vars PROVE IInv'
<1>1. ASSUME NEW r \in Requests, Request(r) PROVE IInv'
  BY <1>1, BeginStartStep, BeginStopStep DEF Request
<1>2. ASSUME NEW c \in Caller, Goes(c) PROVE IInv'
  BY <1>2, SpawnedStep, SpawnFailsStep, StoppedStep, TimeoutStep, StorageCheckStep DEF Goes
<1>3. QED  BY <1>1, <1>2, EnvironmentStep DEF Next

-----------------------------------------------------------------------------
(* TypeOK holds whether starts clash or not: each action preserves it as it    *)
(* stands, however many requests are between two awaits.                       *)

\* What StopRecording leaves, whoever calls it while there is a recording.
LEMMA StopRecordingTyped ==
  ASSUME TypeOK, NEW c \in Caller, recording, StopRecording(c) PROVE TypeOK'
<1> USE RecorderAssumption
<1>1. process \in Recording /\ process \in 0..MaxRecordings
  BY DEF TypeOK, Recording
<1>2. check # 0 => check \in Caller
  BY DEF TypeOK, Recording, Caller
<1>3. Cancelled(c) \in [Caller -> RequestLabel \cup CheckLabel]
  BY <1>2 DEF Cancelled, TypeOK, RequestLabel, CheckLabel
<1>4. check' \in 0..MaxRecordings
  BY DEF StopRecording, TypeOK, RecorderAssumption
<1>5. ffmpeg' \in [Recording -> {"none", "alive", "asked", "gone"}]
  BY <1>1 DEF StopRecording, TypeOK
<1>6. waits' \in [Caller -> 0..MaxRecordings]
  BY <1>1 DEF StopRecording, TypeOK
<1>7. UNCHANGED <<recording, process, started, diskFull, clashed>> /\ pc' = Cancelled(c)
  BY DEF StopRecording
<1>8. QED  BY <1>3, <1>4, <1>5, <1>6, <1>7 DEF TypeOK

LEMMA SpawnedTyped ==
  ASSUME TypeOK, NEW r \in Requests, Spawned(r) PROVE TypeOK'
<1> USE RecorderAssumption
<1> DEFINE n == started + 1
<1>1. n \in Recording /\ n \in Caller /\ r \in Caller /\ n \in 0..MaxRecordings /\ n # 0
  BY DEF Spawned, TypeOK, Recording, Caller, RecorderAssumption
<1>2. /\ started' = n /\ ffmpeg' = [ffmpeg EXCEPT ![n] = "alive"]
      /\ process' = n /\ recording' = TRUE /\ check' = n
      /\ pc' = [pc EXCEPT ![r] = "idle", ![n] = "sleep"]
      /\ UNCHANGED <<diskFull, waits, clashed>>
  BY DEF Spawned
<1> HIDE DEF n
<1>3. pc' \in [Caller -> RequestLabel \cup CheckLabel]
  BY <1>1, <1>2 DEF TypeOK, RequestLabel, CheckLabel
<1>4. QED  BY <1>1, <1>2, <1>3 DEF TypeOK

\* The waiter may find that another has taken the handle, or replaced it.
LEMMA WaiterTyped ==
  ASSUME TypeOK, NEW c \in Caller, Stopped(c) \/ Timeout(c) PROVE TypeOK'
<1> USE RecorderAssumption
<1>1. pc' \in [Caller -> RequestLabel \cup CheckLabel]
  BY DEF Stopped, Timeout, Ended, TypeOK, RequestLabel, CheckLabel
<1>2. process \in 0..MaxRecordings /\ 0 \in 0..MaxRecordings
  BY DEF TypeOK, RecorderAssumption
<1>3. waits' \in [Caller -> 0..MaxRecordings]
  BY <1>2 DEF Stopped, Timeout, Ended, TypeOK
<1>4. /\ ffmpeg' \in [Recording -> {"none", "alive", "asked", "gone"}]
      /\ UNCHANGED <<check, started, diskFull, clashed>>
  BY DEF Stopped, Timeout, TypeOK
<1>5. recording' \in BOOLEAN /\ process' \in 0..MaxRecordings /\ (recording' <=> process' # 0)
  <2>1. CASE Stopped(c)
    <3>1. recording' = FALSE /\ process' = 0
      BY <2>1 DEF Stopped
    <3>2. recording' \in BOOLEAN /\ (recording' <=> process' # 0)
      BY <3>1, Zenon
    <3>3. QED  BY <1>2, <3>1, <3>2
  <2>2. CASE Timeout(c)
    <3>1. UNCHANGED <<recording, process>>
      BY <2>2 DEF Timeout
    <3>2. QED  BY <3>1 DEF TypeOK
  <2>3. QED  BY <2>1, <2>2
<1>6. QED  BY <1>1, <1>3, <1>4, <1>5 DEF TypeOK

LEMMA StorageCheckTyped ==
  ASSUME TypeOK, NEW k \in Recording, StorageCheck(k) PROVE TypeOK'
<1> USE RecorderAssumption
<1>1. k \in Caller
  BY DEF Caller
<1>2. CASE recording /\ StopRecording(k)
  BY <1>1, <1>2, StopRecordingTyped
<1>3. CASE /\ pc' = [pc EXCEPT ![k] = "done"]
           /\ UNCHANGED <<recording, process, check, ffmpeg, started, diskFull, waits,
                          clashed>>
  BY <1>1, <1>3 DEF TypeOK, CheckLabel
<1>4. CASE /\ recording' = FALSE /\ process' = 0 /\ check' = 0
           /\ pc' = [pc EXCEPT ![k] = "done"] /\ UNCHANGED <<ffmpeg, started, diskFull, waits, clashed>>
  <2>1. recording' \in BOOLEAN /\ (recording' <=> process' # 0)
    BY <1>4, Zenon
  <2>2. pc' \in [Caller -> RequestLabel \cup CheckLabel]
    BY <1>1, <1>4 DEF TypeOK, CheckLabel
  <2>3. QED  BY <1>4, <2>1, <2>2 DEF TypeOK, RecorderAssumption
<1>5. QED  BY <1>2, <1>3, <1>4 DEF StorageCheck

LEMMA RestTyped ==
  ASSUME TypeOK,
         \/ \E r \in Requests : BeginStart(r) \/ SpawnFails(r)
         \/ \E k \in Recording : FfmpegExits(k)
         \/ DiskFills \/ UNCHANGED vars
  PROVE  TypeOK'
<1>1. /\ UNCHANGED <<recording, process, check, started, waits>> /\ diskFull' \in BOOLEAN
      /\ clashed' \in BOOLEAN
  BY DEF BeginStart, SpawnFails, FfmpegExits, DiskFills, vars, TypeOK
<1>2. pc' \in [Caller -> RequestLabel \cup CheckLabel]
  BY DEF BeginStart, SpawnFails, FfmpegExits, DiskFills, vars, TypeOK, RequestLabel
<1>3. ffmpeg' \in [Recording -> {"none", "alive", "asked", "gone"}]
  BY DEF BeginStart, SpawnFails, FfmpegExits, DiskFills, vars, TypeOK
<1>4. QED  BY <1>1, <1>2, <1>3 DEF TypeOK

LEMMA TypedStep == ASSUME TypeOK, [Next]_vars PROVE TypeOK'
<1>1. ASSUME NEW r \in Requests, BeginStop(r) PROVE TypeOK'
  BY <1>1, StopRecordingTyped DEF BeginStop, Caller
<1>2. ASSUME NEW c \in Caller, Goes(c) PROVE TypeOK'
  BY <1>2, SpawnedTyped, WaiterTyped, StorageCheckTyped, RestTyped DEF Goes
<1>3. QED  BY <1>1, <1>2, RestTyped DEF Next, Request

\* A clash is never forgotten.
LEMMA ClashStays == ASSUME clashed = TRUE, [Next]_vars PROVE clashed' = TRUE
<1>1. ASSUME NEW r \in Requests, Request(r) PROVE clashed' = TRUE
  BY <1>1 DEF Request, BeginStart, BeginStop, StopRecording
<1>2. ASSUME NEW c \in Caller, Goes(c) PROVE clashed' = TRUE
  BY <1>2 DEF Goes, Spawned, SpawnFails, Stopped, Timeout, StorageCheck, StopRecording
<1>3. QED  BY <1>1, <1>2 DEF Next, FfmpegExits, DiskFills, vars

\* Every variable holds what the code can put there, and the flag agrees with
\* the handle, for any number of requests between two awaits (VideoRecorder).
THEOREM RecorderTypeCorrect == Spec => []TypeOK
<1>1. Init => TypeOK
  BY Initially DEF IInv
<1>2. TypeOK /\ [Next]_vars => TypeOK'
  BY TypedStep
<1>3. QED  BY <1>1, <1>2, PTL DEF Spec

\* No ffmpeg runs without its handle, for any number of recordings, requests,
\* storage checks and timeouts, until a start begins while another request is
\* under way (start_recording, stop_recording).
THEOREM LiveIsHeldAlways == Spec => []LiveIsHeld
<1> DEFINE Sound == clashed = TRUE \/ IInv
<1>1. Init => Sound
  BY Initially
<1>2. TypeOK /\ Sound /\ [Next]_vars => Sound'
  <2> SUFFICES ASSUME TypeOK, Sound, [Next]_vars PROVE Sound'
    OBVIOUS
  <2>1. clashed' = TRUE \/ clashed' = FALSE
    BY TypedStep DEF TypeOK
  <2>2. CASE clashed' = FALSE
    BY <2>2, NextStep, ClashStays
  <2>3. QED  BY <2>1, <2>2
<1>3. Sound => LiveIsHeld
  BY DEF IInv, Held, LiveIsHeld
<1>4. QED  BY RecorderTypeCorrect, <1>1, <1>2, <1>3, PTL DEF Spec
=============================================================================
