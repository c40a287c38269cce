-------------------------- MODULE VideoServiceProofs --------------------------
(* What VideoService guarantees, with a cloud push or without one.             *)
EXTENDS VideoService, TLAPS

Booting == {"boot", "mtx", "enc"}
Ending  == {"endPush", "endEnc", "endMtx", "exited"}

(* The two tasks take turns: run() is not there until main() has started the   *)
(* stream, and it has ended before main() stops it.                            *)
TurnInv ==
  /\ pc["main"] \in Booting \cup {"push", "crashed"} => pc["run"] = "none"
  /\ pc["main"] \in Ending => pc["run"] = "done"

(* Whoever is about to spawn an encoder holds none, and once main() has been   *)
(* past its stop there is none.                                                *)
EncoderInv ==
  /\ pc["main"] \in Booting => encoder = "none"
  /\ pc["run"] \in {"mtx", "enc"} => encoder = "none"
  /\ pc["main"] \in {"endMtx", "exited"} => encoder # "alive"
  /\ pc["main"] = "push" => CloudPush
  /\ pc["main"] = "crashed" => encoder # "alive" \/ CloudPush
  /\ ~lost

IInv == TypeOK /\ TurnInv /\ EncoderInv

\* One task moves, the other stays where it is.
LEMMA Moves ==
  ASSUME TypeOK, NEW t \in Task, NEW l, Await(t, l),
         l \in IF t = "main" THEN MainLabel ELSE RunLabel
  PROVE  /\ pc' \in [Task -> MainLabel \cup RunLabel]
         /\ pc'["main"] = IF t = "main" THEN l ELSE pc["main"]
         /\ pc'["run"] = IF t = "run" THEN l ELSE pc["run"]
         /\ pc'["main"] \in MainLabel /\ pc'["run"] \in RunLabel
<1>1. "main" \in Task /\ "run" \in Task /\ l \in MainLabel \cup RunLabel
  BY DEF Task
<1>2. QED  BY <1>1 DEF Await, TypeOK, Task

\* start_stream returns: run() sleeps, or main() goes on.
LEMMA Returns ==
  ASSUME TypeOK, NEW t \in Task, NEW ok \in BOOLEAN, Started(t, ok)
  PROVE  /\ pc' \in [Task -> MainLabel \cup RunLabel]
         /\ pc'["main"] \in MainLabel /\ pc'["run"] \in RunLabel
         /\ t = "run" => pc'["main"] = pc["main"] /\ pc'["run"] = "sleep"
         /\ t = "main" => \/ pc'["main"] = "push" /\ pc'["run"] = pc["run"] /\ CloudPush
                          \/ pc'["main"] = "endPush" /\ pc'["run"] = "done"
                          \/ pc'["main"] = "wait" /\ pc'["run"] = "check"
<1>1. CASE t = "run"
  BY <1>1, Moves DEF Started, RunLabel
<1>2. CASE t = "main" /\ ok /\ CloudPush
  BY <1>2, Moves DEF Started, MainLabel
<1>3. CASE t = "main" /\ ~(ok /\ CloudPush)
  <2>1. pc' = [main |-> "endPush", run |-> "done"] \/ pc' = [main |-> "wait", run |-> "check"]
    BY <1>3 DEF Started
  <2>2. QED  BY <1>3, <2>1 DEF MainLabel, RunLabel, Task
<1>4. QED  BY <1>1, <1>2, <1>3 DEF Task

\* An exception ends main(), or sends run() to its finally clause.
LEMMA Escaping ==
  ASSUME TypeOK, NEW t \in Task, Escapes(t)
  PROVE  /\ pc' \in [Task -> MainLabel \cup RunLabel]
         /\ pc'["main"] = IF t = "main" THEN "crashed" ELSE pc["main"]
         /\ pc'["run"] = IF t = "run" THEN "finPush" ELSE pc["run"]
         /\ pc'["main"] \in MainLabel /\ pc'["run"] \in RunLabel
<1>1. "crashed" \in MainLabel /\ "finPush" \in RunLabel
  BY DEF MainLabel, RunLabel
<1>2. QED  BY <1>1, Moves DEF Escapes, Task

\* start_stream, up to its first await, is called with no live encoder.
LEMMA StartStep ==
  ASSUME IInv, NEW t \in Task, NEW enc, enc = "none", encoder # "alive",
         StartStream(t, enc),
         IF t = "main" THEN pc["main"] \in Booting ELSE pc["run"] = "check"
  PROVE  IInv'
<1> USE DEF IInv
<1>1. PICK found \in BOOLEAN, usable \in BOOLEAN :
        /\ assigned' = (assigned \/ found)
        /\ IF ~assigned' \/ ~usable
           THEN state' = "error" /\ Started(t, FALSE)
           ELSE state' = "starting" /\ (Await(t, "mtx") \/ Await(t, "enc") \/ Escapes(t))
  BY DEF StartStream
<1>2. encoder' = "none" /\ lost' = lost /\ UNCHANGED <<push, mediamtx, running, shutdown>>
  BY DEF StartStream, EncoderInv, TypeOK
<1>3. /\ assigned' \in BOOLEAN /\ state' \in {"error", "starting"}
      /\ pc' \in [Task -> MainLabel \cup RunLabel]
      /\ pc'["main"] \in MainLabel /\ pc'["run"] \in RunLabel
      /\ t = "run" => pc'["main"] = pc["main"]
      /\ t = "main" => \/ pc'["main"] \in {"mtx", "enc", "crashed"} /\ pc'["run"] = pc["run"]
                       \/ pc'["main"] = "push" /\ pc'["run"] = pc["run"] /\ CloudPush
                       \/ pc'["main"] = "endPush" /\ pc'["run"] = "done"
                       \/ pc'["main"] = "wait"
  <2>1. "mtx" \in MainLabel \cap RunLabel /\ "enc" \in MainLabel \cap RunLabel
    BY DEF MainLabel, RunLabel
  <2>2. assigned' \in BOOLEAN
    BY <1>1 DEF TypeOK
  <2>3. CASE state' = "error" /\ Started(t, FALSE)
    BY <2>2, <2>3, Returns DEF Task
  <2>4. CASE state' = "starting" /\ Await(t, "mtx")
    BY <2>1, <2>2, <2>4, Moves DEF Task
  <2>5. CASE state' = "starting" /\ Await(t, "enc")
    BY <2>1, <2>2, <2>5, Moves DEF Task
  <2>6. CASE state' = "starting" /\ Escapes(t)
    BY <2>2, <2>6, Escaping DEF Task
  <2>7. QED  BY <1>1, <2>3, <2>4, <2>5, <2>6
<1>4. TypeOK'
  BY <1>2, <1>3 DEF TypeOK, Child
<1>5. TurnInv' /\ EncoderInv'
  BY <1>2, <1>3 DEF TurnInv, EncoderInv, Booting, Ending, Task
<1>6. QED  BY <1>4, <1>5

\* mediamtx, the encoder: the rest of start_stream, by either task.
LEMMA StreamStep ==
  ASSUME IInv, NEW t \in Task,
         MediamtxStarts(t) \/ EncoderStarts(t) \/ EncoderFails(t)
  PROVE  IInv'
<1> USE DEF IInv
<1>1. encoder = "none" /\ ~lost
  BY DEF MediamtxStarts, EncoderStarts, EncoderFails, EncoderInv, Booting, Task
<1>2. CASE MediamtxStarts(t)
  <2>1. "enc" \in MainLabel \cap RunLabel
    BY DEF MainLabel, RunLabel
  <2>2. /\ pc[t] = "mtx" /\ Await(t, "enc") /\ mediamtx' \in Child /\ running' \in BOOLEAN
        /\ UNCHANGED <<state, assigned, encoder, push, shutdown, lost>>
    BY <1>2 DEF MediamtxStarts, TypeOK, Child
  <2>3. QED
    BY <1>1, <2>1, <2>2, Moves DEF TypeOK, TurnInv, EncoderInv, Booting, Ending, Task
<1>3. CASE EncoderStarts(t)
  <2>1. /\ pc[t] = "enc" /\ Started(t, TRUE) /\ encoder' = "alive" /\ ~lost'
        /\ state' = "running" /\ lost' \in BOOLEAN
        /\ UNCHANGED <<assigned, push, mediamtx, running, shutdown>>
    BY <1>1, <1>3 DEF EncoderStarts
  <2>2. TypeOK'
    BY <2>1, Returns DEF TypeOK, Child
  <2>3. QED
    BY <2>1, <2>2, Returns DEF TurnInv, EncoderInv, Booting, Ending, Task
<1>4. CASE EncoderFails(t)
  <2>1. /\ pc[t] = "enc" /\ state' \in {"stopped", "starting", "running", "error"}
        /\ UNCHANGED <<assigned, encoder, push, mediamtx, running, shutdown, lost>>
    BY <1>4 DEF EncoderFails, TypeOK
  <2>2. CASE Started(t, FALSE)
    BY <1>1, <2>1, <2>2, Returns DEF TypeOK, TurnInv, EncoderInv, Booting, Ending, Task
  <2>3. CASE Escapes(t)
    BY <1>1, <2>1, <2>3, Escaping DEF TypeOK, TurnInv, EncoderInv, Booting, Ending, Task
  <2>4. QED  BY <1>4, <2>2, <2>3 DEF EncoderFails
<1>5. QED  BY <1>2, <1>3, <1>4

LEMMA CloudPushStep == ASSUME IInv, CloudPushStarts PROVE IInv'
<1> USE DEF IInv
<1>1. /\ pc["main"] = "push" /\ push' \in Child
      /\ UNCHANGED <<state, assigned, encoder, mediamtx, running, shutdown, lost>>
  BY DEF CloudPushStarts, TypeOK, Child
<1>2. CASE Started("main", FALSE)
  BY <1>1, <1>2, Returns DEF TypeOK, TurnInv, EncoderInv, Booting, Ending, Task
<1>3. CASE Await("main", "crashed")
  <2>1. "crashed" \in MainLabel /\ "main" \in Task
    BY DEF MainLabel, Task
  <2>2. QED
    BY <1>1, <1>3, <2>1, Moves DEF TypeOK, TurnInv, EncoderInv, Booting, Ending
<1>4. QED  BY <1>2, <1>3 DEF CloudPushStarts

\* Only a dead encoder is restarted.
LEMMA CheckHealthStep == ASSUME IInv, CheckHealth PROVE IInv'
<1>1. pc["run"] = "check" /\ "run" \in Task /\ "sleep" \in RunLabel
  BY DEF CheckHealth, Task, RunLabel
<1>2. CASE StartStream("run", "none") /\ ~Healthy
  BY <1>1, <1>2, StartStep DEF Healthy
<1>3. CASE Await("run", "sleep") /\ UNCHANGED <<pipeline, shutdown, lost>>
  BY <1>1, <1>3, Moves
  DEF IInv, TypeOK, TurnInv, EncoderInv, Booting, Ending, pipeline
<1>4. QED  BY <1>2, <1>3 DEF CheckHealth

\* The rest of run().
LEMMA RunStep ==
  ASSUME IInv, Wakes \/ FinallyPush \/ FinallyEncoder \/ FinallyMediamtx
  PROVE  IInv'
<1> USE DEF IInv
<1>1. PICK l \in {"check", "finEnc", "finMtx", "done"} : Await("run", l)
  BY DEF Wakes, FinallyPush, FinallyEncoder, FinallyMediamtx
<1>2. /\ pc["run"] \in {"sleep", "finPush", "finEnc", "finMtx"}
      /\ encoder' \in {encoder, "gone"} /\ push' \in Child /\ mediamtx' \in Child
      /\ encoder' = "alive" => encoder = "alive"
      /\ encoder = "none" => encoder' = "none"
      /\ running' \in BOOLEAN /\ UNCHANGED <<state, assigned, shutdown, lost>>
  BY DEF Wakes, FinallyPush, FinallyEncoder, FinallyMediamtx, MediamtxStop,
         MediamtxRaises, pipeline, TypeOK, Child
<1>3. l \in RunLabel /\ "run" \in Task
  BY DEF RunLabel, Task
<1>4. TypeOK'
  BY <1>1, <1>2, <1>3, Moves DEF TypeOK, Child
<1>5. TurnInv' /\ EncoderInv'
  BY <1>1, <1>2, <1>3, Moves DEF TurnInv, EncoderInv, Booting, Ending
<1>6. QED  BY <1>4, <1>5

LEMMA CancelStep == ASSUME IInv, CancelRun \/ Gathered PROVE IInv'
<1> USE DEF IInv
<1>1. UNCHANGED <<state, assigned, encoder, push, mediamtx, running, shutdown, lost>>
  BY DEF CancelRun, Gathered, pipeline
<1>2. CASE CancelRun
  <2>1. pc' = [main |-> "gather", run |-> pc'["run"]] /\ pc'["run"] \in {"finPush", pc["run"]}
    BY <1>2 DEF CancelRun
  <2>2. TypeOK'
    <3>1. "gather" \in MainLabel /\ "finPush" \in RunLabel /\ pc["run"] \in RunLabel
      BY DEF TypeOK, MainLabel, RunLabel
    <3>2. pc' \in [Task -> MainLabel \cup RunLabel]
      BY <2>1, <3>1 DEF Task
    <3>3. QED  BY <1>1, <2>1, <3>1, <3>2 DEF TypeOK
  <2>3. TurnInv' /\ EncoderInv'
    BY <1>1, <2>1 DEF TurnInv, EncoderInv, Booting, Ending
  <2>4. QED  BY <2>2, <2>3
<1>3. CASE Gathered
  <2>1. Await("main", "endPush") /\ pc["run"] = "done" /\ "endPush" \in MainLabel
        /\ "main" \in Task
    BY <1>3 DEF Gathered, MainLabel, Task
  <2>2. QED  BY <1>1, <2>1, Moves DEF TypeOK, TurnInv, EncoderInv, Booting, Ending
<1>4. QED  BY <1>2, <1>3

\* stop_stream: whichever of its calls raises, the encoder is gone.
LEMMA StopStep ==
  ASSUME IInv, StopCloudPush \/ StopEncoder \/ StopMediamtx PROVE IInv'
<1> USE DEF IInv
<1>1. PICK l \in {"endEnc", "endMtx", "exited"} :
        /\ Await("main", l)
        /\ l = "endEnc" \/ encoder' # "alive"
  BY DEF StopCloudPush, StopEncoder, StopMediamtx, EncoderInv
<1>2. /\ pc["main"] \in Ending
      /\ encoder' \in {encoder, "none"} /\ push' \in Child /\ mediamtx' \in Child
      /\ running' \in BOOLEAN /\ state' \in {"stopped", state}
      /\ UNCHANGED <<assigned, shutdown, lost>>
  BY DEF StopCloudPush, StopEncoder, StopMediamtx, MediamtxStop, MediamtxRaises,
         TypeOK, Child, Ending
<1>3. l \in MainLabel /\ "main" \in Task /\ l \in Ending
  BY DEF MainLabel, Task, Ending
<1>4. TypeOK'
  BY <1>1, <1>2, <1>3, Moves DEF TypeOK, Child
<1>5. pc["run"] = "done"
  BY <1>2 DEF TurnInv
<1>6. TurnInv' /\ EncoderInv'
  BY <1>1, <1>2, <1>3, <1>5, Moves DEF TurnInv, EncoderInv, Booting, Ending
<1>7. QED  BY <1>4, <1>6

LEMMA EnvironmentStep == ASSUME IInv, Signal \/ ChildExits \/ UNCHANGED vars PROVE IInv'
<1> USE DEF IInv
<1>1. /\ UNCHANGED <<state, assigned, running, pc, lost>> /\ shutdown' \in BOOLEAN
      /\ encoder' \in Child /\ push' \in Child /\ mediamtx' \in Child
      /\ encoder # "alive" => encoder' = encoder
      /\ encoder' = "alive" => encoder = "alive"
  BY DEF Signal, ChildExits, Exits, vars, pipeline, TypeOK, Child
<1>2. TypeOK'
  BY <1>1 DEF TypeOK
<1>3. TurnInv' /\ EncoderInv'
  BY <1>1 DEF TurnInv, EncoderInv, Booting
<1>4. QED  BY <1>2, <1>3

LEMMA Initially == Init => IInv
<1> SUFFICES ASSUME Init PROVE IInv
  OBVIOUS
<1>1. pc["main"] = "boot" /\ pc["run"] = "none"
  BY DEF Init
<1>2. pc \in [Task -> MainLabel \cup RunLabel]
  BY DEF Init, Task, MainLabel, RunLabel
<1>3. TypeOK
  BY <1>1, <1>2 DEF Init, TypeOK, Child, MainLabel, RunLabel
<1>4. TurnInv /\ EncoderInv
  BY <1>1 DEF Init, TurnInv, EncoderInv, Ending
<1>5. QED  BY <1>3, <1>4 DEF IInv

LEMMA NextStep == ASSUME IInv, [Next]_vars PROVE IInv'
<1>1. "main" \in Task /\ "run" \in Task
  BY DEF Task
<1>2. CASE Boot
  BY <1>1, <1>2, StartStep DEF Boot, IInv, EncoderInv, Booting
<1>3. CASE MainNext /\ ~Boot
  BY <1>1, <1>3, StreamStep, CloudPushStep, CancelStep, StopStep DEF MainNext
<1>4. CASE RunNext
  BY <1>1, <1>4, CheckHealthStep, RunStep, StreamStep DEF RunNext
<1>5. QED  BY <1>2, <1>3, <1>4, EnvironmentStep DEF Next

LEMMA ServiceInvariant == Spec => []IInv
<1>1. IInv /\ [Next]_vars => IInv'
  BY NextStep
<1>2. QED  BY Initially, <1>1, PTL DEF Spec

\* Every variable of the two tasks holds what the code can put there (main, run).
THEOREM VideoTypeCorrect == Spec => []TypeOK
<1>1. IInv => TypeOK
  BY DEF IInv
<1>2. QED  BY ServiceInvariant, <1>1, PTL

\* Wherever the signal falls and whatever dies or raises, no encoder is left when
\* main() has ended (run's finally clause, stop_stream), but for an error of the
\* cloud push's spawn; so without a cloud push none is ever left.
THEOREM EncoderGoneAtExitAlways == Spec => []EncoderGoneAtExit
<1>1. IInv => EncoderGoneAtExit
  BY DEF IInv, EncoderInv, EncoderGoneAtExit
<1>2. QED  BY ServiceInvariant, <1>1, PTL

\* No restart lets go of a live encoder (_check_health, start_stream).
THEOREM OneEncoderAlways == Spec => []OneEncoder
<1>1. IInv => OneEncoder
  BY DEF IInv, EncoderInv, OneEncoder
<1>2. QED  BY ServiceInvariant, <1>1, PTL
=============================================================================
