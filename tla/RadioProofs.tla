----------------------------- MODULE RadioProofs -----------------------------
(* What Radio guarantees whatever _max_restarts is.                         *)
EXTENDS Radio, TLAPS

(* The rounds: each is followed by a count, or is under way.  A round only  *)
(* begins while the count is below the limit.                               *)

InRound == pc["run"] \in {"tx", "rx", "watch"}

CountInv ==
  /\ pc["run"] \in {"new", "sleep", "tx", "rx", "watch"} => restarts < MaxRestarts
  /\ InRound => rounds <= restarts + 1
  /\ pc["run"] \in {"new", "sleep", "stopTx", "stopRx"} => rounds <= restarts
  /\ pc["run"] = "done" => rounds <= MaxRestarts

(* The processes: where each task is says which of them may be alive, and   *)
(* main() touches them only when run() has ended.                           *)

ProcInv ==
  /\ ~lost
  /\ pc["main"] # "wait" => pc["run"] = "done"
  /\ pc["run"] \in {"new", "sleep", "tx"} => Alive(proc) = {}
  /\ pc["run"] = "rx" => proc["rx"] # "alive" /\ (txOk \/ Alive(proc) = {})
  /\ pc["main"] = "exited" => Alive(proc) = {}
  /\ pc["run"] = "done" /\ pc["main"] = "wait"
       => state = "disconnected" /\ Alive(proc) = {}

IInv == TypeOK /\ CountInv /\ ProcInv

(* stop() called by run(), with the count already increased: it leads to    *)
(* one of its own awaits, to the backoff sleep, or to the end.              *)
LEMMA StopByRun ==
  ASSUME TypeOK, ProcInv, pc["main"] = "wait",
         restarts' \in 0..MaxRestarts, rounds <= restarts', rounds' = rounds,
         NEW procs \in [Process -> {"none", "alive", "gone"}],
         Stop("run", procs),
         watched' \subseteq Process, UNCHANGED <<txOk, shutdown>>
  PROVE  IInv'
<1> USE RadioAssumption
<1>0. pc \in [Task -> MainLabel \cup RunLabel] /\ pc["main"] = "wait" /\ lost = FALSE
  BY DEF TypeOK, ProcInv
<1>1. CASE Alive(procs) # {}
  <2>1. /\ pc'["run"] \in {"stopTx", "stopRx"} /\ pc'["main"] = "wait"
        /\ pc' \in [Task -> MainLabel \cup RunLabel]
        /\ proc' = procs /\ running' = FALSE /\ UNCHANGED <<state, lost>>
    BY <1>0, <1>1 DEF Stop, Await, Task, MainLabel, RunLabel
  <2>2. TypeOK'
    BY <2>1 DEF TypeOK, MainLabel, RunLabel
  <2>3. CountInv' /\ ProcInv'
    <3>1. CountInv'  BY <2>1 DEF CountInv, InRound
    <3>2. ProcInv'  BY <1>0, <2>1 DEF ProcInv
    <3>3. QED  BY <3>1, <3>2
  <2>4. QED  BY <2>2, <2>3 DEF IInv
<1>2. CASE Alive(procs) = {}
  <2>1. /\ pc'["run"] = (IF restarts' >= MaxRestarts THEN "done" ELSE "sleep")
        /\ pc'["main"] = "wait" /\ pc' \in [Task -> MainLabel \cup RunLabel]
        /\ proc' = [p \in Process |-> "none"] /\ running' = TRUE
        /\ state' = "disconnected" /\ lost' = FALSE
    BY <1>0, <1>2 DEF Stop, Stopped, Await, Task, MainLabel, RunLabel
  <2>2. TypeOK'
    <3>1. proc' \in [Process -> {"none", "alive", "gone"}]  BY <2>1
    <3>2. pc'["run"] \in RunLabel /\ pc'["main"] \in MainLabel
      BY <2>1 DEF RunLabel, MainLabel
    <3>3. QED  BY <2>1, <3>1, <3>2 DEF TypeOK
  <2>3. Alive(proc') = {}
    BY <2>1 DEF Alive
  <2>4. CountInv'
    <3>1. /\ restarts' \in Nat /\ rounds' \in Nat /\ MaxRestarts \in Nat
          /\ rounds' <= restarts' /\ restarts' <= MaxRestarts
      BY <2>2 DEF TypeOK
    <3>2. QED  BY <2>1, <3>1 DEF CountInv, InRound
  <2>5. ProcInv'
    BY <2>1, <2>3 DEF ProcInv, Alive
  <2>6. QED  BY <2>2, <2>4, <2>5 DEF IInv
<1>3. QED  BY <1>1, <1>2

(* stop() called by main(), which finds run() ended.                        *)
LEMMA StopByMain ==
  ASSUME IInv, pc["run"] = "done",
         NEW procs \in [Process -> {"none", "alive", "gone"}],
         Stop("main", procs),
         UNCHANGED <<restarts, watched, txOk, shutdown, rounds>>
  PROVE  IInv'
<1> USE RadioAssumption
<1>0. pc \in [Task -> MainLabel \cup RunLabel] /\ lost = FALSE
  BY DEF IInv, TypeOK, ProcInv
<1>1. /\ pc'["run"] = "done"
      /\ pc'["main"] \in {"stopTx", "stopRx", "exited"}
      /\ pc' \in [Task -> MainLabel \cup RunLabel]
      /\ proc' \in [Process -> {"none", "alive", "gone"}]
      /\ running' \in BOOLEAN /\ lost' = FALSE
      /\ state' \in {state, "disconnected"}
  BY <1>0 DEF Stop, Stopped, Await, Task, MainLabel, RunLabel, Process
<1>2. pc'["main"] = "exited" => Alive(proc') = {}
  BY <1>0 DEF Stop, Stopped, Await, Task, Alive
<1>3. TypeOK'
  <2>1. pc'["run"] \in RunLabel /\ pc'["main"] \in MainLabel
    BY <1>1 DEF RunLabel, MainLabel
  <2>2. restarts' \in 0..MaxRestarts /\ watched' \subseteq Process /\ rounds' \in Nat
        /\ txOk' \in BOOLEAN /\ shutdown' \in BOOLEAN
        /\ state' \in {"disconnected", "connecting", "connected", "degraded"}
    BY <1>1 DEF IInv, TypeOK
  <2>3. QED  BY <1>1, <2>1, <2>2 DEF TypeOK
<1>4. CountInv'
  BY <1>1 DEF IInv, TypeOK, CountInv, InRound
<1>5. ProcInv'
  BY <1>1, <1>2 DEF ProcInv, Alive
<1>6. QED  BY <1>3, <1>4, <1>5 DEF IInv

-----------------------------------------------------------------------------
(* The invariant holds in every reachable state.                            *)
THEOREM RadioInvariant == Spec => []IInv
<1> USE RadioAssumption
<1>1. Init => IInv
  <2> SUFFICES ASSUME Init PROVE IInv  OBVIOUS
  <2>1. TypeOK
    <3>1. /\ pc \in [Task -> MainLabel \cup RunLabel]
          /\ pc["main"] \in MainLabel /\ pc["run"] \in RunLabel
      BY DEF Init, Task, MainLabel, RunLabel
    <3>2. restarts \in 0..MaxRestarts /\ rounds \in Nat  BY DEF Init
    <3>3. QED  BY <3>1, <3>2 DEF Init, TypeOK
  <2>2. CountInv  BY DEF Init, CountInv, InRound
  <2>3. ProcInv  BY DEF Init, ProcInv, Alive, Process
  <2>4. QED  BY <2>1, <2>2, <2>3 DEF IInv
<1>2. IInv /\ [Next]_vars => IInv'
  <2> SUFFICES ASSUME IInv, [Next]_vars PROVE IInv'  OBVIOUS
  <2> USE DEF Task, MainLabel, RunLabel
  <2>0. TypeOK /\ CountInv /\ ProcInv  BY DEF IInv
  <2>1. CASE Attempt
    <3>1. /\ pc["main"] = "wait" /\ pc'["main"] = "wait"
          /\ pc'["run"] \in {"sleep", "tx"} /\ proc' = proc /\ lost' = FALSE
          /\ rounds' = (IF pc'["run"] = "tx" THEN rounds + 1 ELSE rounds)
      BY <2>0, <2>1 DEF Attempt, Await, TypeOK, ProcInv
    <3>2. TypeOK'  BY <2>0, <2>1 DEF Attempt, Await, TypeOK
    <3>3. rounds <= restarts /\ restarts < MaxRestarts /\ restarts' = restarts
      BY <2>0, <2>1 DEF Attempt, CountInv, InRound
    <3>4. CountInv'
      <4>1. rounds \in Nat /\ restarts \in Nat /\ MaxRestarts \in Nat
        BY <2>0 DEF TypeOK
      <4>2. QED  BY <3>1, <3>3, <4>1 DEF CountInv, InRound
    <3>5. ProcInv'
      <4>1. Alive(proc') = {}  BY <2>0, <2>1, <3>1 DEF Attempt, ProcInv
      <4>2. QED  BY <3>1, <4>1 DEF ProcInv
    <3>6. QED  BY <3>2, <3>4, <3>5 DEF IInv
  <2>2. CASE StartTx
    <3>1. pc["run"] = "tx" /\ pc["main"] = "wait"
          /\ pc'["run"] = "rx" /\ pc'["main"] = "wait"
      BY <2>0, <2>2 DEF StartTx, Await, TypeOK, ProcInv
    <3>2. TypeOK'
      BY <2>0, <2>2 DEF StartTx, Spawn, Await, TypeOK, Process
    <3>3. proc["tx"] # "alive" /\ proc["rx"] # "alive"
      BY <2>0, <3>1 DEF ProcInv, Alive, Process
    <3>4. lost' = FALSE /\ proc'["rx"] # "alive" /\ (txOk' \/ Alive(proc') = {})
      BY <2>0, <2>2, <3>3 DEF StartTx, Spawn, ProcInv, TypeOK, Process, Alive
    <3>5. CountInv'
      BY <2>0, <2>2, <3>1 DEF StartTx, CountInv, InRound
    <3>6. ProcInv'  BY <3>1, <3>4 DEF ProcInv
    <3>7. QED  BY <3>2, <3>5, <3>6 DEF IInv
  <2>3. CASE StartRx
    <3>1. /\ pc["run"] = "rx" /\ pc["main"] = "wait" /\ pc'["main"] = "wait"
          /\ pc'["run"] \in {"watch", "done", "sleep"}
          /\ UNCHANGED <<txOk, shutdown, rounds>>
      BY <2>0, <2>3 DEF StartRx, BothFailed, Await, TypeOK, ProcInv
    <3>2. restarts < MaxRestarts /\ rounds <= restarts + 1
      BY <2>0, <3>1 DEF CountInv, InRound
    <3>3. proc["rx"] # "alive"  BY <2>0, <3>1 DEF ProcInv
    <3>4. PICK ok \in BOOLEAN :
            /\ Spawn("rx", ok)
            /\ IF ok \/ txOk
               THEN /\ state' = "connected"
                    /\ watched' = Watch(proc')
                    /\ Await("run", "watch")
                    /\ UNCHANGED <<restarts, running>>
               ELSE BothFailed /\ UNCHANGED watched
      BY <2>3 DEF StartRx
    <3>5. /\ lost' = FALSE /\ proc' \in [Process -> {"none", "alive", "gone"}]
          /\ ~ok => proc' = proc
      BY <2>0, <3>3, <3>4 DEF Spawn, ProcInv, TypeOK, Process
    <3>6. CASE ok \/ txOk
      <4>1. Watch(proc') \subseteq Process  BY DEF Watch, Alive, Process
      <4>2. TypeOK'
        <5>1. /\ pc' \in [Task -> MainLabel \cup RunLabel]
              /\ pc'["main"] \in MainLabel /\ pc'["run"] \in RunLabel
          BY <2>0, <3>1, <3>4, <3>6 DEF Await, TypeOK
        <5>2. watched' \subseteq Process /\ state' = "connected"
              /\ UNCHANGED <<restarts, running>>
          BY <3>4, <3>6, <4>1
        <5>3. QED  BY <2>0, <3>1, <3>5, <5>1, <5>2 DEF TypeOK
      <4>3. pc'["run"] = "watch" /\ restarts' = restarts
        BY <2>0, <3>4, <3>6 DEF Await, TypeOK
      <4>4. CountInv'  BY <3>1, <3>2, <4>3 DEF CountInv, InRound
      <4>5. ProcInv'  BY <3>1, <3>5, <4>3 DEF ProcInv
      <4>6. QED  BY <4>2, <4>4, <4>5 DEF IInv
    <3>7. CASE ~ok /\ ~txOk
      <4>1. /\ BothFailed /\ UNCHANGED watched /\ proc' = proc
            /\ restarts' = restarts + 1 /\ state' = "disconnected"
        BY <3>4, <3>5, <3>7 DEF BothFailed
      <4>2. pc'["run"] = (IF restarts' >= MaxRestarts THEN "done" ELSE "sleep")
        BY <2>0, <4>1 DEF BothFailed, Await, TypeOK
      <4>3. restarts' \in 0..MaxRestarts
        BY <2>0, <3>2, <4>1 DEF TypeOK
      <4>4. TypeOK'
        <5>1. /\ pc' \in [Task -> MainLabel \cup RunLabel]
              /\ pc'["main"] \in MainLabel /\ pc'["run"] \in RunLabel
              /\ running' \in BOOLEAN
          BY <2>0, <3>1, <4>1 DEF BothFailed, Await, TypeOK
        <5>2. QED  BY <2>0, <3>1, <3>5, <4>1, <4>3, <5>1 DEF TypeOK
      <4>5. CountInv'
        BY <3>1, <3>2, <4>1, <4>2, <4>3, <4>4 DEF CountInv, InRound, TypeOK
      <4>6. ProcInv'
        <5>1. Alive(proc') = {}  BY <2>0, <3>1, <3>7, <4>1 DEF ProcInv
        <5>2. QED  BY <3>1, <3>5, <4>1, <4>2, <5>1 DEF ProcInv
      <4>7. QED  BY <4>4, <4>5, <4>6 DEF IInv
    <3>8. QED  BY <3>6, <3>7
  <2>4. ASSUME Wakes \/ ReaderFails PROVE IInv'
    <3>1. pc["run"] = "watch" /\ pc["main"] = "wait"
      BY <2>0, <2>4 DEF Wakes, ReaderFails, ProcInv
    <3>2. Restart  BY <2>4 DEF Wakes, ReaderFails
    <3>3. restarts < MaxRestarts /\ rounds <= restarts + 1
      BY <2>0, <3>1 DEF CountInv, InRound
    <3>4. /\ restarts' = restarts + 1 /\ watched' = {}
          /\ Stop("run", proc) /\ UNCHANGED <<txOk, shutdown, rounds>>
      BY <3>2 DEF Restart
    <3>5. restarts' \in 0..MaxRestarts /\ rounds <= restarts'
      BY <2>0, <3>3, <3>4 DEF TypeOK
    <3>6. proc \in [Process -> {"none", "alive", "gone"}]  BY <2>0 DEF TypeOK
    <3>7. QED  BY <2>0, <3>1, <3>4, <3>5, <3>6, StopByRun
  <2>5. ASSUME TxEnds("run") \/ RxEnds("run") PROVE IInv'
    <3>1. pc["run"] \in {"stopTx", "stopRx"} /\ pc["main"] = "wait"
      BY <2>0, <2>5 DEF TxEnds, RxEnds, ProcInv
    <3>2. PICK p \in Process :
            /\ Stop("run", [proc EXCEPT ![p] = "gone"])
            /\ UNCHANGED <<restarts, watched, txOk, shutdown, rounds>>
      BY <2>5 DEF TxEnds, RxEnds, Process
    <3>3. [proc EXCEPT ![p] = "gone"] \in [Process -> {"none", "alive", "gone"}]
      BY <2>0 DEF TypeOK
    <3>4. rounds <= restarts' /\ restarts' \in 0..MaxRestarts /\ watched' \subseteq Process
      BY <2>0, <3>1, <3>2 DEF CountInv, InRound, TypeOK
    <3>5. QED  BY <2>0, <3>1, <3>2, <3>3, <3>4, StopByRun
  <2>6. CASE CancelRun
    <3>1. pc' = [main |-> "gather", run |-> "done"]  BY <2>6 DEF CancelRun
    <3>2. TypeOK'  BY <2>0, <2>6 DEF CancelRun, TypeOK
    <3>3. rounds <= MaxRestarts
      BY <2>0 DEF CountInv, InRound, TypeOK
    <3>4. CountInv'  BY <2>6, <3>1, <3>3 DEF CancelRun, CountInv, InRound
    <3>5. ProcInv'  BY <2>0, <2>6, <3>1 DEF CancelRun, ProcInv
    <3>6. QED  BY <3>2, <3>4, <3>5 DEF IInv
  <2>7. CASE MainStops
    <3>1. pc["run"] = "done"  BY <2>0, <2>7 DEF MainStops, ProcInv
    <3>2. proc \in [Process -> {"none", "alive", "gone"}]  BY <2>0 DEF TypeOK
    <3>3. QED  BY <2>7, <3>1, <3>2, StopByMain DEF MainStops
  <2>8. ASSUME TxEnds("main") \/ RxEnds("main") PROVE IInv'
    <3>1. pc["run"] = "done"  BY <2>0, <2>8 DEF TxEnds, RxEnds, ProcInv
    <3>2. PICK p \in Process :
            /\ Stop("main", [proc EXCEPT ![p] = "gone"])
            /\ UNCHANGED <<restarts, watched, txOk, shutdown, rounds>>
      BY <2>8 DEF TxEnds, RxEnds, Process
    <3>3. [proc EXCEPT ![p] = "gone"] \in [Process -> {"none", "alive", "gone"}]
      BY <2>0 DEF TypeOK
    <3>4. QED  BY <3>1, <3>2, <3>3, StopByMain
  <2>9. CASE Statistics
    <3>1. TypeOK'  BY <2>0, <2>9 DEF Statistics, TypeOK
    <3>2. pc["run"] = "watch" /\ pc' = pc  BY <2>9 DEF Statistics
    <3>3. CountInv' /\ ProcInv'
      BY <2>0, <2>9, <3>2 DEF Statistics, CountInv, InRound, ProcInv
    <3>4. QED  BY <3>1, <3>3 DEF IInv
  <2>10. CASE Signal
    BY <2>0, <2>10 DEF Signal, manager, IInv, TypeOK, CountInv, InRound, ProcInv
  <2>11. CASE ProcessExits
    <3>1. PICK p \in Alive(proc) : proc' = [proc EXCEPT ![p] = "gone"]
      BY <2>11 DEF ProcessExits
    <3>2. /\ proc' \in [Process -> {"none", "alive", "gone"}]
          /\ Alive(proc') \subseteq Alive(proc)
          /\ Alive(proc) = {} => Alive(proc') = {}
          /\ proc'["rx"] = "alive" => proc["rx"] = "alive"
      BY <2>0, <3>1 DEF TypeOK, Alive, Process
    <3>3. TypeOK'  BY <2>0, <2>11, <3>2 DEF ProcessExits, TypeOK
    <3>4. CountInv'  BY <2>0, <2>11 DEF ProcessExits, CountInv, InRound
    <3>5. ProcInv'
      BY <2>0, <2>11, <3>2 DEF ProcessExits, ProcInv
    <3>6. QED  BY <3>3, <3>4, <3>5 DEF IInv
  <2>12. CASE UNCHANGED vars
    BY <2>0, <2>12 DEF vars, manager, IInv, TypeOK, CountInv, InRound, ProcInv, Alive
  <2>13. QED
    BY <2>1, <2>2, <2>3, <2>4, <2>5, <2>6, <2>7, <2>8, <2>9, <2>10, <2>11,
       <2>12 DEF Next, MainNext, RunNext
<1>3. QED  BY <1>1, <1>2, PTL DEF Spec

(* Every variable has its type; that the count stays within the limit needs *)
(* the whole invariant.                                                     *)
THEOREM RadioTypeCorrect == Spec => []TypeOK
<1>1. IInv => TypeOK  BY DEF IInv
<1>2. QED  BY <1>1, RadioInvariant, PTL

(* No handle on a live wfb_tx or wfb_rx is ever dropped, and none is alive  *)
(* when main() has ended, wherever the signal and the exits fall.           *)
THEOREM NoOrphanAlways == Spec => []NoOrphan
<1>1. IInv => NoOrphan  BY DEF IInv, ProcInv, NoOrphan
<1>2. QED  BY <1>1, RadioInvariant, PTL

(* The processes are started at most _max_restarts times.                   *)
THEOREM RestartsBoundedAlways == Spec => []RestartsBounded
<1>1. IInv => RestartsBounded
  <2> SUFFICES ASSUME IInv PROVE rounds <= MaxRestarts
    BY DEF RestartsBounded
  <2> USE RadioAssumption DEF IInv
  <2>1. restarts \in Nat /\ rounds \in Nat /\ restarts <= MaxRestarts
        /\ pc["run"] \in RunLabel
    BY DEF TypeOK
  <2>2. CASE InRound
    BY <2>1, <2>2 DEF CountInv, InRound
  <2>3. CASE pc["run"] \in {"new", "sleep", "stopTx", "stopRx"}
    BY <2>1, <2>3 DEF CountInv
  <2>4. CASE pc["run"] = "done"
    BY <2>4 DEF CountInv
  <2>5. QED  BY <2>1, <2>2, <2>3, <2>4 DEF RunLabel, InRound
<1>2. QED  BY <1>1, RadioInvariant, PTL

(* A manager that has given up has no process up and says disconnected.     *)
THEOREM GivenUpCleanAlways == Spec => []GivenUpClean
<1>1. IInv => GivenUpClean  BY DEF IInv, ProcInv, GivenUpClean
<1>2. QED  BY <1>1, RadioInvariant, PTL
=============================================================================
