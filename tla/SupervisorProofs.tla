-------------------------- MODULE SupervisorProofs --------------------------
(* What Supervisor guarantees for every registry, threshold and window.    *)
EXTENDS Supervisor, TLAPS

(* Every reader of a log sees a log of the same shape.                      *)
LEMMA LogTypes ==
  ASSUME NEW log \in Log
  PROVE  /\ NoEntries \in Log /\ Append1(log) \in Log /\ Aged(log) \in Log
         /\ CheckCircuitBreaker(log) \in {"circuit_open", "failed"}
<1>1. Window \in Nat \ {0}  BY SizesAssumption
<1>2. NoEntries \in Log  BY <1>1 DEF NoEntries, Log
<1>3. Append1(log) \in Log  BY <1>1 DEF Append1, Log
<1>4. Aged(log) \in Log
  <2>1. \A w \in 1..Window : (IF w = 1 THEN 0 ELSE log[w - 1]) \in Nat
    BY <1>1 DEF Log
  <2>2. QED  BY <2>1 DEF Aged, Log
<1>5. CheckCircuitBreaker(log) \in {"circuit_open", "failed"}
  BY DEF CheckCircuitBreaker
<1>6. QED  BY <1>2, <1>3, <1>4, <1>5

(* The three service variables keep their types through start_service ...   *)
SvcTypeOK == /\ state \in [Service -> {"stopped", "running", "failed", "circuit_open"}]
             /\ failures \in [Service -> Log]
             /\ unit \in [Service -> {"active", "restarting", "dead"}]

LEMMA StartServiceTypes ==
  ASSUME SvcTypeOK, NEW s \in Service,
         NEW st \in {"stopped", "running", "failed", "circuit_open"},
         NEW log \in Log,
         StartService(s, st, log)
  PROVE  SvcTypeOK'
BY LogTypes DEF SvcTypeOK, StartService, Set

(* ... and through stop_service.                                            *)
LEMMA StopServiceTypes ==
  ASSUME SvcTypeOK, NEW s \in Service, NEW how \in StopOutcomes,
         StopService(s, how)
  PROVE  SvcTypeOK'
BY DEF SvcTypeOK, StopService

-----------------------------------------------------------------------------
(* Every variable has its type in every reachable state.                    *)
THEOREM TypeCorrect == Spec => []TypeOK
<1> USE SizesAssumption, RegistryAssumption
<1>1. Init => TypeOK
  <2>1. NoEntries \in Log  BY DEF NoEntries, Log
  <2>2. 1 \in Service  BY DEF Service
  <2> SUFFICES ASSUME Init PROVE TypeOK  OBVIOUS
  <2>3. /\ pc \in [Task -> MainLabel \cup StopLabel \cup OpLabel]
        /\ pc["main"] = "core" /\ pc["stop"] = "idle" /\ pc["op"] = "idle"
    BY DEF Init, MainLabel, StopLabel, OpLabel, Task
  <2>4. /\ cur \in [Task -> Nat \ {0}] /\ nap \in [Task -> Nat]
        /\ wanted \in [Task -> Suites \cup {NoSuite}]
        /\ phase \in 1..4 /\ holder \in Task \cup {"none"}
    BY DEF Init
  <2>5. /\ state \in [Service -> {"stopped", "running", "failed", "circuit_open"}]
        /\ unit \in [Service -> {"active", "restarting", "dead"}]
        /\ failures \in [Service -> Log] /\ restarts \in [Service -> Log]
    BY <2>1 DEF Init
  <2>6. /\ category \in [Service -> Category] /\ refused \subseteq Service
        /\ suite \in Suites \cup {NoSuite} /\ shutdown \in BOOLEAN
        /\ target \in Service /\ early \in BOOLEAN /\ respawns \in Log
    BY <2>1, <2>2 DEF Init
  <2>7. QED  BY <2>3, <2>4, <2>5, <2>6 DEF TypeOK, MainLabel, StopLabel, OpLabel
<1>2. TypeOK /\ [Next]_vars => TypeOK'
  <2> SUFFICES ASSUME TypeOK, [Next]_vars PROVE TypeOK'  OBVIOUS
  <2> USE DEF MainLabel, StopLabel, OpLabel, Task, histVars
  <2>0. SvcTypeOK  BY DEF TypeOK, SvcTypeOK
  <2>1. CASE BootCore
    <3>1. SvcTypeOK'
      BY <2>0, <2>1, StartServiceTypes DEF BootCore, Start, SvcTypeOK
    <3>2. cur' \in [Task -> Nat \ {0}]
      BY <2>1 DEF BootCore, Advance, GoTo, TypeOK, Service
    <3>3. QED  BY <2>1, <3>1, <3>2 DEF BootCore, Advance, GoTo, Keep, Sleep, TypeOK, SvcTypeOK
  <2>2. CASE DetectAndStartHardware
    <3>1. SvcTypeOK'
      BY <2>0, <2>2, StartServiceTypes DEF DetectAndStartHardware, Start, SvcTypeOK
    <3>2. cur' \in [Task -> Nat \ {0}]
      BY <2>2 DEF DetectAndStartHardware, Advance, GoTo, TypeOK, Service
    <3>3. QED  BY <2>2, <3>1, <3>2
          DEF DetectAndStartHardware, Advance, GoTo, Keep, Sleep, TypeOK, SvcTypeOK
  <2>3. ASSUME NEW t \in {"main", "op"}, LoadManifest(t)  PROVE TypeOK'
    BY <2>3 DEF LoadManifest, ReturnFromActivate, RaiseFromActivate, GoTo, Keep, Sleep,
              svcVars, histVars, TypeOK
  <2>4. ASSUME NEW t \in {"main", "op"}, ActivateSuite(t)  PROVE TypeOK'
    <3> DEFINE required == Manifest[wanted[t]]
    <3>1. required \in Seq(Service) /\ wanted[t] \in Suites
      BY <2>4 DEF ActivateSuite, TypeOK
    <3>2. CASE /\ cur[t] <= Len(required)
               /\ category' = [category EXCEPT ![required[cur[t]]] = "suite"]
               /\ Start(required[cur[t]])
               /\ Advance(t, cur[t] + 1)
               /\ Keep(t)
               /\ UNCHANGED <<suite, wanted>>
      <4>1. required[cur[t]] \in Service  BY <3>1, <3>2 DEF TypeOK
      <4>2. SvcTypeOK'
        <5> DEFINE s == required[cur[t]]
        <5>1. s \in Service /\ StartService(s, state[s], failures[s])
          BY <3>2, <4>1 DEF Start
        <5> HIDE DEF s
        <5>2. QED  BY <2>0, <5>1, StartServiceTypes DEF SvcTypeOK
      <4>3. category' \in [Service -> Category]  BY <3>2 DEF TypeOK, Category
      <4>4. cur' \in [Task -> Nat \ {0}]  BY <3>2 DEF TypeOK, Advance
      <4>5. UNCHANGED <<pc, shutdown, phase, target, histVars, suite, wanted>>
        BY <2>4, <3>2 DEF ActivateSuite, Advance
      <4>6. \A u \in {"main", "op"} : pc'[u] = pc[u] /\ wanted'[u] = wanted[u]
        BY <4>5
      <4>7. nap' \in [Task -> Nat] /\ holder' \in Task \cup {"none"}
        BY <3>2 DEF Keep, TypeOK
      <4>8. QED  BY <4>2, <4>3, <4>4, <4>5, <4>6, <4>7 DEF TypeOK, SvcTypeOK
    <3>3. CASE /\ cur[t] > Len(required)
               /\ suite' = wanted[t]
               /\ ReturnFromActivate(t)
               /\ UNCHANGED <<state, category, failures, unit>>
      BY <2>4, <3>1, <3>3 DEF ActivateSuite, ReturnFromActivate, GoTo, Keep, Sleep, TypeOK
    <3>4. QED  BY <2>4, <3>2, <3>3 DEF ActivateSuite
  <2>5. CASE TestShutdown
    BY <2>5 DEF TestShutdown, GoTo, Keep, Sleep, svcVars, TypeOK
  <2>6. CASE Monitor
    <3>1. SvcTypeOK' /\ restarts' \in [Service -> Log]
      <4>1. ASSUME NEW s \in Service, FoundDead(s)
            PROVE  SvcTypeOK' /\ restarts' \in [Service -> Log]
        <5>1. Append1(failures[s]) \in Log /\ Append1(restarts[s]) \in Log
          BY LogTypes DEF TypeOK
        <5>2. CASE CheckCircuitBreaker(Append1(failures[s])) = "circuit_open"
          <6>1. Set(s, "circuit_open", Append1(failures[s]))
                /\ UNCHANGED <<unit, restarts>>
            BY <4>1, <5>2, Zenon DEF FoundDead
          <6>2. QED  BY <2>0, <5>1, <6>1 DEF Set, SvcTypeOK, TypeOK
        <5>3. CASE CheckCircuitBreaker(Append1(failures[s])) # "circuit_open"
          <6>1. StartService(s, "failed", Append1(failures[s]))
                /\ restarts' = [restarts EXCEPT ![s] = Append1(@)]
            BY <4>1, <5>3, Zenon DEF FoundDead
          <6>2. SvcTypeOK'  BY <2>0, <5>1, <6>1, StartServiceTypes
          <6>3. QED  BY <5>1, <6>1, <6>2 DEF TypeOK
        <5>4. QED  BY <5>2, <5>3
      <4>2. QED  BY <2>0, <2>6, <4>1 DEF Monitor, FoundActive, SvcTypeOK, TypeOK
    <3>2. cur' \in [Task -> Nat \ {0}]
      BY <2>6 DEF Monitor, Advance, GoTo, TypeOK, Service
    <3>3. QED  BY <2>6, <3>1, <3>2 DEF Monitor, Advance, GoTo, Keep, Sleep, TypeOK, SvcTypeOK
  <2>7. CASE Signal
    BY <2>7 DEF Signal, svcVars, TypeOK
  <2>8. CASE BeginStop
    BY <2>8 DEF BeginStop, GoTo, Keep, TypeOK
  <2>9. CASE StopNext
    <3>1. SvcTypeOK'  BY <2>0, <2>9, StopServiceTypes DEF StopNext
    <3>2. cur' \in [Task -> Nat \ {0}] /\ refused' \subseteq Service
      BY <2>9 DEF StopNext, Advance, TypeOK, Service
    <3>3. QED  BY <2>9, <3>1, <3>2 DEF StopNext, Advance, Keep, TypeOK, SvcTypeOK
  <2>10. CASE NextCategory
    <3>1. Len(StopOrder) = 4  BY DEF StopOrder
    <3>2. phase' \in 1..4  BY <2>10, <3>1 DEF NextCategory, TypeOK
    <3>3. /\ pc' \in [Task -> MainLabel \cup StopLabel \cup OpLabel]
          /\ cur' \in [Task -> Nat \ {0}]
          /\ pc'["main"] = pc["main"] /\ pc'["op"] = pc["op"]
          /\ pc'["stop"] \in StopLabel
      <4>1. CASE Advance("stop", 1)
        BY <2>10, <4>1 DEF Advance, TypeOK
      <4>2. CASE GoTo("stop", "idle", 1)
        BY <2>10, <4>2 DEF GoTo, TypeOK
      <4>3. QED  BY <2>10, <4>1, <4>2 DEF NextCategory
    <3>4. nap' \in [Task -> Nat] /\ holder' \in Task \cup {"none"}
      BY <2>10 DEF NextCategory, Keep, Sleep, TypeOK
    <3>5. UNCHANGED <<svcVars, unit, wanted, target, histVars>>
      BY <2>10 DEF NextCategory
    <3>6. \A t \in {"main", "op"} : pc'[t] = pc[t]  BY <3>3
    <3>7. QED  BY <3>2, <3>3, <3>4, <3>5, <3>6 DEF svcVars, TypeOK
  <2>11. CASE OpStart
    <3>1. SvcTypeOK'  BY <2>0, <2>11, StartServiceTypes DEF OpStart, Start, SvcTypeOK
    <3>2. QED  BY <2>11, <3>1 DEF OpStart, taskVars, TypeOK, SvcTypeOK
  <2>12. CASE OpStop
    <3>1. SvcTypeOK'  BY <2>0, <2>12, StopServiceTypes DEF OpStop
    <3>2. QED  BY <2>12, <3>1 DEF OpStop, taskVars, TypeOK, SvcTypeOK
  <2>13. CASE OpRestart
    <3>1. SvcTypeOK'  BY <2>0, <2>13, StopServiceTypes DEF OpRestart
    <3>2. QED  BY <2>13, <3>1 DEF OpRestart, GoTo, Sleep, TypeOK, SvcTypeOK
  <2>14. CASE OpRestartStart
    <3>1. SvcTypeOK'
      <4>1. target \in Service /\ StartService(target, state[target], failures[target])
        BY <2>14 DEF OpRestartStart, Start, TypeOK
      <4>2. QED  BY <2>0, <4>1, StartServiceTypes DEF SvcTypeOK
    <3>2. QED  BY <2>14, <3>1 DEF OpRestartStart, GoTo, TypeOK, SvcTypeOK, Service
  <2>15. CASE OpActivate
    BY <2>15 DEF OpActivate, GoTo, Keep, svcVars, TypeOK
  <2>16. CASE OpDeactivate
    BY <2>16 DEF OpDeactivate, GoTo, Keep, svcVars, TypeOK
  <2>17. CASE DeactivateSuite
    <3>1. SvcTypeOK'
      BY <2>0, <2>17, StopServiceTypes DEF DeactivateSuite, SvcTypeOK
    <3>2. cur' \in [Task -> Nat \ {0}]
      BY <2>17 DEF DeactivateSuite, Advance, GoTo, TypeOK, Service
    <3>3. QED  BY <2>17, <3>1, <3>2
          DEF DeactivateSuite, Advance, GoTo, Keep, Sleep, TypeOK, SvcTypeOK
  <2>18. CASE Tick
    <3>1. /\ failures' \in [Service -> Log] /\ restarts' \in [Service -> Log]
          /\ respawns' \in Log
      BY <2>18, LogTypes DEF Tick, TypeOK
    <3>2. nap' \in [Task -> Nat]  BY <2>18 DEF Tick, TypeOK
    <3>3. QED  BY <2>18, <3>1, <3>2 DEF Tick, TypeOK
  <2>19. CASE Respawn
    <3>1. NoEntries \in Log  BY DEF NoEntries, Log
    <3>2. 1 \in Service  BY DEF Service
    <3>3. /\ pc' \in [Task -> MainLabel \cup StopLabel \cup OpLabel]
          /\ pc'["main"] = "core" /\ pc'["stop"] = "idle" /\ pc'["op"] = "idle"
      BY <2>19 DEF Respawn
    <3>4. /\ cur' \in [Task -> Nat \ {0}] /\ nap' \in [Task -> Nat]
          /\ wanted' \in [Task -> Suites \cup {NoSuite}]
          /\ phase' \in 1..4 /\ holder' \in Task \cup {"none"}
      BY <2>19 DEF Respawn
    <3>5. /\ state' \in [Service -> {"stopped", "running", "failed", "circuit_open"}]
          /\ unit' \in [Service -> {"active", "restarting", "dead"}]
          /\ failures' \in [Service -> Log] /\ restarts' \in [Service -> Log]
      BY <2>19, <3>1 DEF Respawn, TypeOK
    <3>6. /\ category' \in [Service -> Category] /\ refused' \subseteq Service
          /\ suite' \in Suites \cup {NoSuite} /\ shutdown' \in BOOLEAN
          /\ target' \in Service /\ early' \in BOOLEAN
      BY <2>19, <3>2 DEF Respawn
    <3>8. respawns' \in Log  BY <2>19, LogTypes DEF Respawn, TypeOK
    <3>7. QED  BY <3>3, <3>4, <3>5, <3>6, <3>8 DEF TypeOK
  <2>20. ASSUME NEW s \in Service, UnitDies(s) \/ UnitComesBack(s)  PROVE TypeOK'
    <3>1. unit' \in [Service -> {"active", "restarting", "dead"}]
      BY <2>20 DEF UnitDies, UnitComesBack, TypeOK
    <3>2. UNCHANGED <<svcVars, taskVars, histVars>>
      BY <2>20 DEF UnitDies, UnitComesBack
    <3>3. QED  BY <3>1, <3>2 DEF svcVars, taskVars, TypeOK
  <2>21. CASE UNCHANGED vars
    BY <2>21 DEF vars, svcVars, taskVars, TypeOK
  <2>22. QED
    BY <2>1, <2>2, <2>3, <2>4, <2>5, <2>6, <2>7, <2>8, <2>9, <2>10, <2>11,
       <2>12, <2>13, <2>14, <2>15, <2>16, <2>17, <2>18, <2>19, <2>20, <2>21
    DEF Next, MainNext, StopTask, OpCall, OpNext, Environment
<1>3. QED  BY <1>1, <1>2, PTL DEF Spec

-----------------------------------------------------------------------------
(* At most MAX_FAILURES - 1 automatic restarts in any window and life.      *)
(*                                                                         *)
(* The bound alone is not inductive, for two reasons.  Within a life, that *)
(* the next restart is still allowed depends on the failure the monitor    *)
(* counts before it: at every age there are at most as many restarts as    *)
(* failures this life remembers, and MAX_FAILURES - 1 for each respawn     *)
(* that is more recent.  And the bound must hold of every age, not of the  *)
(* window alone, to be there when the entries get that old.                *)

Monotone(log) == \A v, w \in 1..Window : v <= w => log[v] <= log[w]

Grant == MaxFailures - 1

BreakerInv ==
  \A s \in Service :
    /\ Monotone(failures[s])
    /\ \A w \in 1..Window :
         /\ restarts[s][w] <= failures[s][w] + Grant * respawns[w]
         /\ restarts[s][w] <= Grant * (1 + respawns[w])

(* One more entry, or a tick, keeps a log in order.                         *)
LEMMA LogOrder ==
  ASSUME NEW log \in Log, Monotone(log)
  PROVE  /\ Monotone(NoEntries) /\ Monotone(Append1(log)) /\ Monotone(Aged(log))
         /\ \A w \in 1..Window : log[w] <= Recent(log)
<1>0. Window \in Nat \ {0}  BY SizesAssumption
<1>1. Monotone(NoEntries) /\ Monotone(Append1(log))
  BY DEF Monotone, NoEntries, Append1, Log
<1>2. \A w \in 1..Window : Aged(log)[w] = IF w = 1 THEN 0 ELSE log[w - 1]
  BY DEF Aged
<1>3. Monotone(Aged(log))
  <2> SUFFICES ASSUME NEW v \in 1..Window, NEW w \in 1..Window, v <= w
               PROVE  Aged(log)[v] <= Aged(log)[w]
    BY DEF Monotone
  <2>1. CASE v = 1
    <3>1. Aged(log)[w] \in Nat
      <4>1. CASE w = 1  BY <1>2, <4>1
      <4>2. CASE w # 1
        <5>1. w - 1 \in 1..Window  BY <1>0, <4>2
        <5>2. log[w - 1] \in Nat  BY <5>1 DEF Log
        <5>3. QED  BY <1>2, <4>2, <5>2
      <4>3. QED  BY <4>1, <4>2
    <3>2. QED  BY <1>2, <2>1, <3>1
  <2>2. CASE v # 1
    <3>1. v - 1 \in 1..Window /\ w - 1 \in 1..Window /\ v - 1 <= w - 1 /\ w # 1
      BY <1>0, <2>2
    <3>2. log[v - 1] <= log[w - 1]  BY <3>1 DEF Monotone
    <3>3. QED  BY <1>2, <2>2, <3>1, <3>2
  <2>3. QED  BY <2>1, <2>2
<1>4. \A w \in 1..Window : log[w] <= Recent(log)
  BY <1>0 DEF Monotone, Recent
<1>5. QED  BY <1>1, <1>3, <1>4

(* What a respawn grants is linear in the respawns.                         *)
LEMMA GrantTypes ==
  ASSUME NEW n \in Nat
  PROVE  /\ Grant \in Nat /\ Grant * n \in Nat
         /\ Grant * (1 + n) = Grant + Grant * n
         /\ Grant * (n + 1) = Grant * n + Grant
         /\ Grant * (1 + (n + 1)) = Grant * n + Grant + Grant
<1>1. Grant \in Nat  BY SizesAssumption DEF Grant
<1> HIDE DEF Grant
<1>2. Grant * n \in Nat  BY <1>1
<1>3. Grant * (1 + n) = Grant + Grant * n  BY <1>1
<1>4. Grant * (n + 1) = Grant * n + Grant  BY <1>1
<1>5. Grant * (1 + (n + 1)) = Grant * n + Grant + Grant  BY <1>1
<1>6. QED  BY <1>1, <1>2, <1>3, <1>4, <1>5

(* start_service never forgets a failure.                                   *)
LEMMA StartKeepsFailures ==
  ASSUME TypeOK, NEW s \in Service,
         NEW st, NEW log \in Log, StartService(s, st, log)
  PROVE  /\ \A u \in Service : u # s => failures'[u] = failures[u]
         /\ failures'[s] \in {log, Append1(log)}
BY DEF TypeOK, StartService, Set

(* Where no failure is forgotten and no restart counted, nothing changes.   *)
LEMMA BreakerFrame ==
  ASSUME TypeOK, BreakerInv, UNCHANGED <<restarts, respawns>>,
         \A s \in Service : failures'[s] \in {failures[s], Append1(failures[s])}
  PROVE  BreakerInv'
<1> SUFFICES ASSUME NEW s \in Service
             PROVE  /\ Monotone(failures'[s])
                    /\ \A w \in 1..Window :
                         restarts[s][w] <= failures'[s][w] + Grant * respawns[w]
  BY DEF BreakerInv
<1>1. restarts[s] \in Log /\ failures[s] \in Log /\ respawns \in Log
  BY DEF TypeOK
<1>2. Monotone(failures'[s])  BY <1>1, LogOrder DEF BreakerInv
<1>3. ASSUME NEW w \in 1..Window
      PROVE  restarts[s][w] <= failures'[s][w] + Grant * respawns[w]
  <2>1. failures'[s][w] \in Nat /\ failures[s][w] <= failures'[s][w]
    <3>0. failures[s][w] \in Nat  BY <1>1 DEF Log
    <3>1. CASE failures'[s] = failures[s]  BY <3>0, <3>1
    <3>2. CASE failures'[s] = Append1(failures[s])
      <4>1. failures'[s][w] = failures[s][w] + 1  BY <3>2 DEF Append1
      <4>2. QED  BY <3>0, <4>1
    <3>3. QED  BY <3>1, <3>2
  <2>2. /\ restarts[s][w] \in Nat /\ failures[s][w] \in Nat
        /\ Grant * respawns[w] \in Nat
    <3>1. respawns[w] \in Nat  BY <1>1 DEF Log
    <3>2. QED  BY <1>1, <3>1, GrantTypes DEF Log
  <2>3. restarts[s][w] <= failures[s][w] + Grant * respawns[w]
    BY DEF BreakerInv
  <2> DEFINE g == Grant * respawns[w]
  <2> HIDE DEF g
  <2>4. QED  BY <2>1, <2>2, <2>3 DEF g
<1>4. QED  BY <1>2, <1>3

(* The monitor's own step: one failure is counted, then at most one restart. *)
LEMMA BreakerMonitor ==
  ASSUME TypeOK, BreakerInv, UNCHANGED respawns, NEW s \in Service, FoundDead(s)
  PROVE  BreakerInv'
<1> DEFINE log == Append1(failures[s])
<1>0. /\ failures[s] \in Log /\ restarts[s] \in Log /\ respawns \in Log
      /\ log \in Log /\ Window \in Nat \ {0} /\ MaxFailures \in Nat \ {0}
  BY LogTypes, SizesAssumption DEF TypeOK
<1>1. CASE CheckCircuitBreaker(log) = "circuit_open"
  <2>1. Set(s, "circuit_open", log) /\ UNCHANGED restarts
    BY <1>1, Zenon DEF FoundDead
  <2>2. \A u \in Service : failures'[u] \in {failures[u], Append1(failures[u])}
    BY <2>1 DEF Set, TypeOK
  <2>3. QED  BY <2>1, <2>2, BreakerFrame
<1>2. CASE CheckCircuitBreaker(log) # "circuit_open"
  <2>1. StartService(s, "failed", log) /\ restarts' = [restarts EXCEPT ![s] = Append1(@)]
    BY <1>2, Zenon DEF FoundDead
  <2>2. Recent(log) < MaxFailures
    <3>1. Recent(log) \in Nat  BY <1>0 DEF Recent, Log
    <3>2. QED  BY <1>0, <1>2, <3>1 DEF CheckCircuitBreaker
  <2>3. ASSUME NEW u \in Service, u # s
        PROVE  restarts'[u] = restarts[u] /\ failures'[u] = failures[u]
    BY <1>0, <2>1, <2>3, StartKeepsFailures DEF TypeOK
  <2>4. restarts'[s] = Append1(restarts[s]) /\ failures'[s] \in {log, Append1(log)}
    BY <1>0, <2>1, StartKeepsFailures DEF TypeOK
  <2>5. Monotone(log) /\ Monotone(failures'[s])
    <3>1. Monotone(log)  BY <1>0, LogOrder DEF BreakerInv
    <3> HIDE DEF log
    <3>2. QED  BY <1>0, <2>4, <3>1, LogOrder
  <2>6. ASSUME NEW w \in 1..Window
        PROVE  /\ restarts'[s][w] <= failures'[s][w] + Grant * respawns[w]
               /\ restarts'[s][w] <= Grant * (1 + respawns[w])
    <3>1. restarts'[s][w] = restarts[s][w] + 1 /\ log[w] = failures[s][w] + 1
      BY <2>4 DEF Append1
    <3> HIDE DEF log
    <3>2. failures'[s][w] \in {log[w], log[w] + 1}
      BY <2>4 DEF Append1
    <3>3. log[w] <= Grant
      <4>1. log[w] <= Recent(log)  BY <1>0, <2>5, LogOrder
      <4>2. log[w] \in Nat /\ Recent(log) \in Nat
        BY <1>0 DEF Log, Recent
      <4>3. QED  BY <1>0, <2>2, <4>1, <4>2 DEF Grant
    <3>4. respawns[w] \in Nat /\ restarts[s][w] \in Nat /\ failures[s][w] \in Nat
      BY <1>0 DEF Log
    <3>5. /\ Grant \in Nat /\ Grant * respawns[w] \in Nat
          /\ Grant * (1 + respawns[w]) = Grant + Grant * respawns[w]
      BY <3>4, GrantTypes
    <3>6. restarts[s][w] <= failures[s][w] + Grant * respawns[w]
      BY DEF BreakerInv
    <3> DEFINE g == Grant * respawns[w]
               h == Grant * (1 + respawns[w])
    <3>7. /\ g \in Nat /\ h = Grant + g /\ restarts[s][w] <= failures[s][w] + g
      BY <3>5, <3>6
    <3> HIDE DEF g, h
    <3>8. /\ restarts[s][w] + 1 <= log[w] + g
      BY <3>1, <3>4, <3>7
    <3>9. restarts'[s][w] <= failures'[s][w] + g
      BY <3>1, <3>2, <3>4, <3>7, <3>8
    <3>10. restarts'[s][w] <= h
      BY <3>1, <3>3, <3>4, <3>5, <3>7, <3>8
    <3>11. QED  BY <3>9, <3>10 DEF g, h
  <2> HIDE DEF log
  <2>7. QED
    <3> SUFFICES ASSUME NEW u \in Service
                 PROVE  /\ Monotone(failures'[u])
                        /\ \A w \in 1..Window :
                             /\ restarts'[u][w] <= failures'[u][w] + Grant * respawns[w]
                             /\ restarts'[u][w] <= Grant * (1 + respawns[w])
      BY DEF BreakerInv
    <3>1. CASE u = s  BY <2>5, <2>6, <3>1
    <3>2. CASE u # s  BY <2>3, <3>2 DEF BreakerInv
    <3>3. QED  BY <3>1, <3>2
<1>3. QED  BY <1>1, <1>2

(* Time passes alike for restarts, failures and respawns.                   *)
LEMMA BreakerTick ==
  ASSUME TypeOK, BreakerInv, Tick
  PROVE  BreakerInv'
<1>0. Window \in Nat \ {0}  BY SizesAssumption
<1> SUFFICES ASSUME NEW s \in Service
             PROVE  /\ Monotone(failures'[s])
                    /\ \A w \in 1..Window :
                         /\ restarts'[s][w] <= failures'[s][w] + Grant * respawns'[w]
                         /\ restarts'[s][w] <= Grant * (1 + respawns'[w])
  BY DEF BreakerInv
<1>1. /\ restarts'[s] = Aged(restarts[s]) /\ failures'[s] = Aged(failures[s])
      /\ respawns' = Aged(respawns) /\ failures[s] \in Log
  BY DEF Tick, TypeOK
<1>2. Monotone(failures'[s])  BY <1>1, LogOrder DEF BreakerInv
<1>3. ASSUME NEW w \in 1..Window
      PROVE  /\ restarts'[s][w] <= failures'[s][w] + Grant * respawns'[w]
             /\ restarts'[s][w] <= Grant * (1 + respawns'[w])
  <2>1. CASE w = 1
    <3>1. restarts'[s][w] = 0 /\ failures'[s][w] = 0 /\ respawns'[w] = 0
      BY <1>1, <2>1 DEF Aged
    <3>2. 0 \in Nat /\ Grant \in Nat  BY GrantTypes
    <3>3. Grant * 0 = 0 /\ Grant * (1 + 0) = Grant  BY <3>2
    <3>4. QED  BY <3>1, <3>2, <3>3
  <2>2. CASE w # 1
    <3>1. w - 1 \in 1..Window  BY <1>0, <2>2
    <3>2. /\ restarts'[s][w] = restarts[s][w - 1]
          /\ failures'[s][w] = failures[s][w - 1]
          /\ respawns'[w] = respawns[w - 1]
      BY <1>1, <2>2 DEF Aged
    <3>3. QED  BY <3>1, <3>2 DEF BreakerInv
  <2>3. QED  BY <2>1, <2>2
<1>4. QED  BY <1>2, <1>3

(* A new process has forgotten the failures; the restarts of the dead one   *)
(* are covered by what the respawn grants.                                  *)
LEMMA BreakerRespawn ==
  ASSUME TypeOK, BreakerInv, Respawn
  PROVE  BreakerInv'
<1> SUFFICES ASSUME NEW s \in Service
             PROVE  /\ Monotone(failures'[s])
                    /\ \A w \in 1..Window :
                         /\ restarts'[s][w] <= failures'[s][w] + Grant * respawns'[w]
                         /\ restarts'[s][w] <= Grant * (1 + respawns'[w])
  BY DEF BreakerInv
<1>1. /\ restarts'[s] = restarts[s] /\ failures'[s] = NoEntries
      /\ respawns' = Append1(respawns)
      /\ restarts[s] \in Log /\ respawns \in Log
  BY DEF Respawn, TypeOK
<1>2. Monotone(failures'[s])  BY <1>1 DEF Monotone, NoEntries
<1>3. ASSUME NEW w \in 1..Window
      PROVE  /\ restarts'[s][w] <= failures'[s][w] + Grant * respawns'[w]
             /\ restarts'[s][w] <= Grant * (1 + respawns'[w])
  <2>1. failures'[s][w] = 0 /\ respawns'[w] = respawns[w] + 1
    BY <1>1 DEF NoEntries, Append1
  <2>2. respawns[w] \in Nat /\ restarts[s][w] \in Nat  BY <1>1 DEF Log
  <2>3. restarts[s][w] <= Grant * (1 + respawns[w])  BY DEF BreakerInv
  <2> DEFINE g == Grant * respawns[w]
             a == Grant * (1 + respawns[w])
             b == Grant * (respawns[w] + 1)
             c == Grant * (1 + (respawns[w] + 1))
  <2>4. /\ Grant \in Nat /\ g \in Nat /\ a = Grant + g /\ b = g + Grant
        /\ c = g + Grant + Grant
    BY <2>2, GrantTypes
  <2>5. restarts[s][w] <= a  BY <2>3
  <2> HIDE DEF g, a, b, c
  <2>6. restarts[s][w] <= 0 + b /\ restarts[s][w] <= c
    BY <2>2, <2>4, <2>5
  <2>7. QED  BY <1>1, <2>1, <2>6 DEF b, c
<1>4. QED  BY <1>2, <1>3

(* AutoRestartsBounded, for every registry, threshold, window, number of
   respawns and pattern of deaths, calls, signals and crashes: the window may
   span any number of lives of the process.                                 *)
THEOREM BreakerBound == Spec => []AutoRestartsBounded
<1>1. Init => BreakerInv
  <2> SUFFICES ASSUME Init, NEW s \in Service, NEW w \in 1..Window
               PROVE  /\ Monotone(failures[s])
                      /\ restarts[s][w] <= failures[s][w] + Grant * respawns[w]
                      /\ restarts[s][w] <= Grant * (1 + respawns[w])
    <3>1. 1 \in 1..Window  BY SizesAssumption
    <3>2. QED  BY <3>1 DEF BreakerInv
  <2>1. Monotone(failures[s])  BY DEF Init, Monotone, NoEntries
  <2>2. restarts[s][w] = 0 /\ failures[s][w] = 0 /\ respawns[w] = 0
    BY DEF Init, NoEntries
  <2>3. 0 \in Nat /\ Grant \in Nat  BY GrantTypes
  <2>4. Grant * 0 = 0 /\ Grant * (1 + 0) = Grant  BY <2>3
  <2>5. QED  BY <2>1, <2>2, <2>3, <2>4
<1>2. TypeOK /\ BreakerInv /\ [Next]_vars => BreakerInv'
  <2> SUFFICES ASSUME TypeOK, BreakerInv, [Next]_vars PROVE BreakerInv'
    OBVIOUS
  <2>0. \A s \in Service : failures[s] \in Log
    BY DEF TypeOK
  <2>a. ASSUME NEW s \in Service, Start(s), UNCHANGED <<restarts, respawns>>
        PROVE  BreakerInv'
    <3>1. \A u \in Service : failures'[u] \in {failures[u], Append1(failures[u])}
      BY <2>0, <2>a, StartKeepsFailures DEF Start
    <3>2. QED  BY <2>a, <3>1, BreakerFrame
  <2>b. ASSUME UNCHANGED <<failures, restarts, respawns>>  PROVE BreakerInv'
    BY <2>b DEF BreakerInv
  <2> USE DEF histVars
  <2>1. CASE BootCore
    BY <2>1, <2>a, <2>b DEF BootCore
  <2>2. CASE DetectAndStartHardware
    BY <2>2, <2>a, <2>b, RegistryAssumption DEF DetectAndStartHardware
  <2>3. ASSUME NEW t \in {"main", "op"}, LoadManifest(t)  PROVE BreakerInv'
    BY <2>3, <2>b DEF LoadManifest, svcVars
  <2>4. ASSUME NEW t \in {"main", "op"}, ActivateSuite(t)  PROVE BreakerInv'
    <3> DEFINE required == Manifest[wanted[t]]
    <3>1. required \in Seq(Service)
      BY <2>4, RegistryAssumption DEF ActivateSuite, TypeOK
    <3>2. CASE cur[t] <= Len(required) /\ Start(required[cur[t]])
      <4>1. required[cur[t]] \in Service
        BY <3>1, <3>2, <2>4 DEF TypeOK, Task
      <4>2. UNCHANGED <<restarts, respawns>>  BY <2>4 DEF ActivateSuite
      <4>3. QED  BY <2>a, <3>2, <4>1, <4>2
    <3>3. CASE UNCHANGED failures
      BY <2>4, <2>b, <3>3 DEF ActivateSuite
    <3>4. QED  BY <2>4, <3>2, <3>3 DEF ActivateSuite
  <2>5. CASE TestShutdown
    BY <2>5, <2>b DEF TestShutdown, svcVars
  <2>6. CASE Monitor
    BY <2>6, <2>b, BreakerMonitor DEF Monitor, FoundActive
  <2>7. CASE Signal \/ BeginStop \/ NextCategory
    BY <2>7, <2>b DEF Signal, BeginStop, NextCategory, svcVars
  <2>8. CASE StopNext
    BY <2>8, <2>b DEF StopNext, StopService
  <2>9. CASE OpStart
    BY <2>9, <2>a DEF OpStart
  <2>10. CASE OpStop \/ OpRestart
    BY <2>10, <2>b DEF OpStop, OpRestart, StopService
  <2>11. CASE OpRestartStart
    BY <2>11, <2>a DEF OpRestartStart, TypeOK
  <2>12. CASE OpActivate \/ OpDeactivate
    BY <2>12, <2>b DEF OpActivate, OpDeactivate, svcVars
  <2>13. CASE DeactivateSuite
    BY <2>13, <2>b DEF DeactivateSuite, StopService
  <2>14. CASE Tick  BY <2>14, BreakerTick
  <2>15. CASE Respawn  BY <2>15, BreakerRespawn
  <2>16. CASE \E s \in Service : UnitDies(s) \/ UnitComesBack(s)
    BY <2>16, <2>b DEF UnitDies, UnitComesBack, svcVars
  <2>17. CASE UNCHANGED vars
    BY <2>17, <2>b DEF vars, svcVars
  <2>18. QED
    BY <2>1, <2>2, <2>3, <2>4, <2>5, <2>6, <2>7, <2>8, <2>9, <2>10, <2>11,
       <2>12, <2>13, <2>14, <2>15, <2>16, <2>17
    DEF Next, MainNext, StopTask, OpCall, OpNext, Environment
<1>3. BreakerInv => AutoRestartsBounded
  <2>1. Window \in 1..Window  BY SizesAssumption
  <2>2. QED  BY <2>1 DEF BreakerInv, AutoRestartsBounded, Recent, Grant
<1>4. QED  BY <1>1, <1>2, <1>3, TypeCorrect, PTL DEF Spec

-----------------------------------------------------------------------------
(* An open breaker for every service with MAX_FAILURES recent failures.     *)
(* stop_service() writes "stopped" over any state, so this needs that only *)
(* stop() and deactivate_suite(), which look for "running" first, call it.  *)

NoDirectStop == OpKinds \cap {"stop", "restart"} = {}

OpensInv == /\ pc["op"] # "restart"
            /\ \A s \in Service : Monotone(failures[s])
            /\ BreakerOpens

LEMMA LogAlone ==
  ASSUME NEW f \in Log, Monotone(f)
  PROVE  /\ Monotone(NoEntries) /\ Monotone(Append1(f)) /\ Monotone(Aged(f))
         /\ Recent(Aged(f)) <= Recent(f)
         /\ Recent(f) \in Nat /\ Recent(NoEntries) = 0
<1>0. Window \in Nat \ {0}  BY SizesAssumption
<1>1. Recent(f) \in Nat /\ Recent(NoEntries) = 0
  BY <1>0 DEF Log, Recent, NoEntries
<1>2. Recent(Aged(f)) <= Recent(f)
  <2>1. Recent(Aged(f)) = IF Window = 1 THEN 0 ELSE f[Window - 1]
    BY <1>0 DEF Recent, Aged
  <2>2. CASE Window = 1  BY <1>1, <2>1, <2>2
  <2>3. CASE Window # 1
    <3>1. Window - 1 \in 1..Window  BY <1>0, <2>3
    <3>2. QED  BY <2>1, <2>3, <3>1, LogOrder
  <2>4. QED  BY <2>2, <2>3
<1>3. QED  BY <1>1, <1>2, LogOrder

(* start_service opens the breaker when it must, and closes it only when few
   enough failures are recent.                                              *)
LEMMA StartOpens ==
  ASSUME TypeOK, BreakerOpens, \A s \in Service : Monotone(failures[s]),
         NEW s \in Service, NEW st, NEW log \in Log, Monotone(log),
         Recent(log) >= MaxFailures => st = "circuit_open",
         StartService(s, st, log)
  PROVE  BreakerOpens' /\ \A u \in Service : Monotone(failures'[u])
<1>0. MaxFailures \in Nat \ {0} /\ Recent(log) \in Nat /\ Monotone(Append1(log))
  BY SizesAssumption, LogAlone
<1>1. ASSUME NEW u \in Service, u # s
      PROVE  state'[u] = state[u] /\ failures'[u] = failures[u]
  BY <1>1 DEF StartService, Set, TypeOK
<1>2. /\ failures'[s] \in {log, Append1(log)}
      /\ Recent(failures'[s]) >= MaxFailures => state'[s] = "circuit_open"
  <2>1. CASE Refused(st, log)
    BY <2>1 DEF StartService, Set, TypeOK, Refused
  <2>2. CASE ~Refused(st, log)
    <3>1. Recent(log) < MaxFailures  BY <1>0, <2>2 DEF Refused
    <3>2. \/ failures'[s] = log
          \/ /\ failures'[s] = Append1(log)
             /\ state'[s] = CheckCircuitBreaker(Append1(log))
      BY <2>2 DEF StartService, Set, TypeOK
    <3>3. QED  BY <1>0, <3>1, <3>2 DEF CheckCircuitBreaker
  <2>3. QED  BY <2>1, <2>2
<1>3. \A u \in Service : Monotone(failures'[u])
  BY <1>0, <1>1, <1>2
<1>4. QED  BY <1>1, <1>2, <1>3 DEF BreakerOpens

(* Stopping a running service leaves the invariant alone: its breaker was
   not due.                                                                 *)
LEMMA StopOpens ==
  ASSUME TypeOK, BreakerOpens, \A s \in Service : Monotone(failures[s]),
         NEW s \in InState("running"), NEW how, StopService(s, how)
  PROVE  BreakerOpens' /\ \A u \in Service : Monotone(failures'[u])
<1>1. s \in Service /\ state[s] = "running"  BY DEF InState
<1>2. ~(Recent(failures[s]) >= MaxFailures)  BY <1>1 DEF BreakerOpens
<1>3. failures' = failures
      /\ \A u \in Service : u # s => state'[u] = state[u]
  BY DEF StopService, TypeOK
<1>4. QED  BY <1>1, <1>2, <1>3 DEF BreakerOpens

(* BreakerOpens for every registry, threshold and window, when nobody calls
   stop_service or restart_service from outside.                            *)
THEOREM BreakerOpensAlways ==
  ASSUME NoDirectStop  PROVE Spec => []BreakerOpens
<1>1. Init => OpensInv
  <2>1. \A s \in Service : failures[s] = NoEntries => /\ Monotone(failures[s])
                                                      /\ Recent(failures[s]) = 0
    BY SizesAssumption DEF NoEntries, Recent, Monotone
  <2>2. QED  BY <2>1, SizesAssumption DEF Init, OpensInv, BreakerOpens, Task
<1>2. TypeOK /\ OpensInv /\ [Next]_vars => OpensInv'
  <2> SUFFICES ASSUME TypeOK, OpensInv, [Next]_vars PROVE OpensInv'
    OBVIOUS
  <2> DEFINE Opens == BreakerOpens /\ \A s \in Service : Monotone(failures[s])
  <2>0. /\ BreakerOpens
        /\ \A s \in Service : Monotone(failures[s]) /\ failures[s] \in Log
    BY DEF TypeOK, OpensInv
  <2>o. pc'["op"] # "restart"
    <3>1. ~OpRestart  BY DEF OpRestart, NoDirectStop
    <3>2. pc \in [Task -> MainLabel \cup StopLabel \cup OpLabel] /\ pc["op"] # "restart"
      BY DEF TypeOK, OpensInv
    <3>3. QED
      BY <3>1, <3>2
      DEF Next, MainNext, StopTask, OpCall, OpNext, Environment, BootCore,
          DetectAndStartHardware, LoadManifest, ActivateSuite, ReturnFromActivate,
          RaiseFromActivate,
          TestShutdown, Monitor, Signal, BeginStop, StopNext, NextCategory,
          OpStart, OpStop, OpRestartStart, OpActivate, OpDeactivate,
          DeactivateSuite, Tick, Respawn, UnitDies, UnitComesBack, GoTo, Advance,
          taskVars, vars, Task
  <2>a. ASSUME NEW s \in Service, Start(s)  PROVE Opens'
    BY <2>0, <2>a, StartOpens DEF Start, BreakerOpens
  <2>b. ASSUME UNCHANGED <<state, failures>>  PROVE Opens'
    BY <2>0, <2>b DEF BreakerOpens
  <2>c. ASSUME NEW c \in Category, NEW s \in ToStop(c), NEW how, StopService(s, how)
        PROVE  Opens'
    <3>1. s \in InState("running")  BY DEF ToStop
    <3>2. QED  BY <2>0, <2>c, <3>1, StopOpens
  <2> HIDE DEF Opens
  <2>s. Opens'
    <3>1. CASE BootCore
      BY <3>1, <2>a, <2>b DEF BootCore
    <3>2. CASE DetectAndStartHardware
      BY <3>2, <2>a, <2>b, RegistryAssumption DEF DetectAndStartHardware
    <3>3. ASSUME NEW t \in {"main", "op"}, LoadManifest(t)  PROVE Opens'
      BY <3>3, <2>b DEF LoadManifest, svcVars
    <3>4. ASSUME NEW t \in {"main", "op"}, ActivateSuite(t)  PROVE Opens'
      <4> DEFINE required == Manifest[wanted[t]]
      <4>1. required \in Seq(Service)
        BY <3>4, RegistryAssumption DEF ActivateSuite, TypeOK
      <4>2. CASE cur[t] <= Len(required) /\ Start(required[cur[t]])
        <5>1. required[cur[t]] \in Service
          BY <4>1, <4>2, <3>4 DEF TypeOK, Task
        <5>2. QED  BY <2>a, <4>2, <5>1
      <4>3. CASE UNCHANGED <<state, failures>>
        BY <2>b, <4>3
      <4>4. QED  BY <3>4, <4>2, <4>3 DEF ActivateSuite
    <3>5. CASE TestShutdown
      BY <3>5, <2>b DEF TestShutdown, svcVars
    <3>6. ASSUME NEW s \in Service, FoundDead(s)  PROVE Opens'
      <4> DEFINE log == Append1(failures[s])
      <4>1. log \in Log /\ Monotone(log)  BY <2>0, LogTypes, LogAlone
      <4>2. CASE CheckCircuitBreaker(log) = "circuit_open"
        <5>1. Set(s, "circuit_open", log)  BY <3>6, <4>2, Zenon DEF FoundDead
        <5>2. QED  BY <2>0, <4>1, <5>1 DEF Set, BreakerOpens, TypeOK, Opens
      <4>3. CASE CheckCircuitBreaker(log) # "circuit_open"
        <5>1. StartService(s, "failed", log)  BY <3>6, <4>3, Zenon DEF FoundDead
        <5>2. ~(Recent(log) >= MaxFailures)  BY <4>3 DEF CheckCircuitBreaker
        <5> HIDE DEF log
        <5>3. QED  BY <2>0, <4>1, <5>1, <5>2, StartOpens DEF Opens
      <4>4. QED  BY <4>2, <4>3
    <3>7. CASE Monitor
      BY <3>6, <3>7, <2>b DEF Monitor, FoundActive
    <3>8. CASE Signal \/ BeginStop \/ NextCategory
      BY <3>8, <2>b DEF Signal, BeginStop, NextCategory, svcVars
    <3>9. CASE StopNext
      <4>1. StopOrder[phase] \in Category
        BY DEF TypeOK, StopOrder, Category
      <4>2. PICK s \in Service, how \in StopOutcomes :
               s \in ToStop(StopOrder[phase]) /\ StopService(s, how)
        BY <3>9 DEF StopNext, IsNext
      <4>3. QED  BY <2>c, <4>1, <4>2
    <3>10. CASE OpStart
      BY <3>10, <2>a DEF OpStart
    <3>11. CASE OpStop \/ OpRestart
      BY <3>11 DEF OpStop, OpRestart, NoDirectStop
    <3>12. CASE OpRestartStart
      BY <3>12 DEF OpRestartStart, OpensInv
    <3>13. CASE OpActivate \/ OpDeactivate
      BY <3>13, <2>b DEF OpActivate, OpDeactivate, svcVars
    <3>14. CASE DeactivateSuite
      BY <3>14, <2>b, <2>c DEF DeactivateSuite, IsNext, Category
    <3>15. CASE Tick
      <4> SUFFICES ASSUME NEW s \in Service
                   PROVE  /\ Monotone(failures'[s])
                          /\ Recent(failures'[s]) >= MaxFailures
                               => state'[s] = "circuit_open"
        BY DEF BreakerOpens, Opens
      <4>1. failures'[s] = Aged(failures[s]) /\ state' = state  BY <3>15 DEF Tick
      <4>2. /\ Monotone(Aged(failures[s]))
            /\ Recent(Aged(failures[s])) <= Recent(failures[s])
            /\ Recent(failures[s]) \in Nat
        BY <2>0, LogAlone
      <4>3. Recent(Aged(failures[s])) \in Nat
        <5>1. Aged(failures[s]) \in Log  BY <2>0, LogTypes
        <5>2. QED  BY <4>2, <5>1, LogAlone
      <4>4. QED  BY <2>0, <4>1, <4>2, <4>3, SizesAssumption DEF BreakerOpens
    <3>16. CASE Respawn
      <4>1. NoEntries \in Log /\ Recent(NoEntries) = 0 /\ Monotone(NoEntries)
        BY SizesAssumption DEF NoEntries, Log, Recent, Monotone
      <4>2. QED  BY <3>16, <4>1, SizesAssumption DEF Respawn, BreakerOpens, Opens
    <3>17. CASE \E s \in Service : UnitDies(s) \/ UnitComesBack(s)
      BY <3>17, <2>b DEF UnitDies, UnitComesBack, svcVars
    <3>18. CASE UNCHANGED vars
      BY <3>18, <2>b DEF vars, svcVars
    <3>19. QED
      BY <3>1, <3>2, <3>3, <3>4, <3>5, <3>7, <3>8, <3>9, <3>10, <3>11, <3>12,
         <3>13, <3>14, <3>15, <3>16, <3>17, <3>18
      DEF Next, MainNext, StopTask, OpCall, OpNext, Environment
  <2>q. QED  BY <2>o, <2>s DEF OpensInv, Opens
<1>3. OpensInv => BreakerOpens  BY DEF OpensInv
<1>4. QED  BY <1>1, <1>2, <1>3, TypeCorrect, PTL DEF Spec

-----------------------------------------------------------------------------
(* The order of the shutdown.                                               *)
(*                                                                         *)
(* stop() has no sleep in it, so it owns the event loop from its first     *)
(* service to its last; everything it has passed is stopped or refused.     *)

Passed(s) == \/ Rank[category[s]] < phase
             \/ Rank[category[s]] = phase /\ s < cur["stop"]

StopInv ==
  pc["stop"] = "stopping" =>
    /\ holder = "stop"
    /\ \A s \in Service : Passed(s) => state[s] # "running" \/ s \in refused

(* StopOrder, which the loop follows, and Rank, which the comment promises. *)
LEMMA RankOrder ==
  ASSUME NEW c \in Category, NEW i \in 1..4
  PROVE  /\ Rank[c] \in 1..4
         /\ StopOrder[i] = c <=> Rank[c] = i
         /\ Len(StopOrder) = 4
<1>1. i \in {1, 2, 3, 4}  OBVIOUS
<1>2. QED  BY <1>1 DEF Category, Rank, StopOrder

(* stop() visits the services of one category in order and skips none.      *)
LEMMA StopNextInv ==
  ASSUME TypeOK, StopInv, StopNext
  PROVE  StopInv'
<1>0. pc["stop"] = "stopping"  BY DEF StopNext
<1>1. PICK s \in Service, how \in StopOutcomes :
         /\ IsNext(s, ToStop(StopOrder[phase]), cur["stop"])
         /\ StopService(s, how)
         /\ refused' = IF how = "raised" THEN refused \cup {s} ELSE refused
         /\ Advance("stop", s + 1)
  BY DEF StopNext
<1>2. /\ cur'["stop"] = s + 1 /\ phase' = phase /\ category' = category
      /\ holder' = "stop" /\ pc' = pc
  BY <1>1 DEF StopNext, Advance, Keep, TypeOK, Task
<1>3. \A u \in Service : u # s => state'[u] = state[u]
  BY <1>1 DEF StopService, TypeOK
<1>4. state'[s] # "running" \/ s \in refused'
  BY <1>1 DEF StopService, TypeOK
<1>5. ASSUME NEW u \in Service, Passed(u)', u # s
      PROVE  state'[u] # "running" \/ u \in refused'
  <2>1. CASE Passed(u)
    BY <1>0, <1>1, <1>3, <1>5, <2>1 DEF StopInv
  <2>2. CASE ~Passed(u)
    <3>1. /\ Rank[category[u]] = phase /\ u < s + 1 /\ ~(u < cur["stop"])
      BY <1>2, <1>5, <2>2 DEF Passed
    <3>2. StopOrder[phase] = category[u]
      BY <3>1, RankOrder DEF TypeOK
    <3>3. cur["stop"] \in Int /\ u \in Int /\ s \in Int
      BY DEF TypeOK, Task, Service
    <3>4. u < s /\ u >= cur["stop"]  BY <1>5, <3>1, <3>3
    <3>5. u \notin ToStop(StopOrder[phase])
      BY <1>1, <3>3, <3>4 DEF IsNext
    <3>6. state[u] # "running"
      BY <3>2, <3>5 DEF ToStop, OfCategory, InState
    <3>7. QED  BY <1>3, <1>5, <3>6
  <2>3. QED  BY <2>1, <2>2
<1>6. QED  BY <1>2, <1>4, <1>5 DEF StopInv

LEMMA NextCategoryInv ==
  ASSUME TypeOK, StopInv, NextCategory
  PROVE  /\ StopInv'
         /\ pc'["stop"] # "stopping" => InState("running") \subseteq refused
<1>0. pc["stop"] = "stopping" /\ UNCHANGED <<state, category, refused>>
  BY DEF NextCategory, svcVars, histVars
<1>1. ASSUME NEW s \in Service, state[s] = "running", Rank[category[s]] = phase
      PROVE  s \in refused
  <2>1. StopOrder[phase] = category[s]  BY <1>1, RankOrder DEF TypeOK
  <2>2. s \in ToStop(StopOrder[phase])
    BY <1>1, <2>1 DEF ToStop, OfCategory, InState
  <2>3. s < cur["stop"]  BY <2>2 DEF NextCategory, NoneLeft
  <2>4. QED  BY <1>0, <1>1, <2>3 DEF StopInv, Passed
<1>2. \A s \in Service : Rank[category[s]] \in 1..4
  BY RankOrder DEF TypeOK
<1>3. phase \in 1..4 /\ Len(StopOrder) = 4
  <2>1. "core" \in Category /\ 1 \in 1..4  BY DEF Category
  <2>2. QED  BY <2>1, RankOrder DEF TypeOK
<1>4. CASE phase < 4
  <2>1. /\ phase' = phase + 1 /\ cur'["stop"] = 1 /\ pc' = pc /\ holder' = "stop"
    BY <1>3, <1>4 DEF NextCategory, Advance, Keep, TypeOK, Task
  <2>2. ASSUME NEW s \in Service, Passed(s)', state'[s] = "running"
        PROVE  s \in refused'
    <3>1. Rank[category[s]] <= phase
      <4>1. s >= 1  BY DEF Service
      <4>2. QED  BY <1>0, <1>2, <1>3, <2>1, <2>2, <4>1 DEF Passed, Service
    <3>2. CASE Rank[category[s]] = phase  BY <1>0, <1>1, <2>2, <3>2
    <3>3. CASE Rank[category[s]] < phase
      BY <1>0, <2>2, <3>3 DEF StopInv, Passed
    <3>4. QED  BY <1>2, <1>3, <3>1, <3>2, <3>3
  <2>3. QED  BY <1>0, <2>1, <2>2 DEF StopInv
<1>5. CASE phase = 4
  <2>1. pc'["stop"] = "idle"
    BY <1>3, <1>5 DEF NextCategory, GoTo, TypeOK, Task
  <2>2. ASSUME NEW s \in Service, state[s] = "running"
        PROVE  s \in refused
    <3>1. CASE Rank[category[s]] = phase  BY <1>1, <2>2, <3>1
    <3>2. CASE Rank[category[s]] < phase
      BY <1>0, <2>2, <3>2 DEF StopInv, Passed
    <3>3. QED  BY <1>2, <1>3, <1>5, <3>1, <3>2
  <2>3. QED  BY <2>1, <2>2 DEF StopInv, InState
<1>6. QED  BY <1>3, <1>4, <1>5

(* While stop() owns the loop the other tasks do nothing.                   *)
LEMMA StopAlone ==
  ASSUME TypeOK, StopInv, pc["stop"] = "stopping", [Next]_vars
  PROVE  \/ StopNext \/ NextCategory
         \/ Respawn
         \/ UNCHANGED <<state, category, pc, cur, phase, holder, refused, shutdown>>
<1>1. holder = "stop"  BY DEF StopInv
<1>2. ~CanRun("main") /\ ~CanRun("op")  BY <1>1 DEF CanRun
<1>3. ~MainNext
  BY <1>2 DEF MainNext, BootCore, DetectAndStartHardware, LoadManifest,
              ActivateSuite, TestShutdown, Monitor
<1>4. ~OpCall /\ ~OpNext
  BY <1>2 DEF OpCall, OpNext, OpReady, OpStart, OpStop, OpRestart, OpActivate,
              OpDeactivate, OpRestartStart, LoadManifest, ActivateSuite,
              DeactivateSuite
<1>5. ~BeginStop /\ ~Signal  BY DEF BeginStop, Signal
<1>6. StopNext \/ NextCategory \/ Respawn \/ Tick \/ UNCHANGED vars
        \/ \E s \in Service : UnitDies(s) \/ UnitComesBack(s)
  BY <1>3, <1>4, <1>5 DEF Next, StopTask, Environment
<1>7. QED
  BY <1>6 DEF Tick, vars, svcVars, taskVars, histVars, UnitDies, UnitComesBack

LEMMA StopInvariant == Spec => []StopInv
<1>1. Init => StopInv  BY DEF Init, StopInv, Task
<1>2. TypeOK /\ StopInv /\ [Next]_vars => StopInv'
  <2> SUFFICES ASSUME TypeOK, StopInv, [Next]_vars PROVE StopInv'
    OBVIOUS
  <2>1. CASE pc["stop"] = "stopping"
    <3>1. CASE StopNext  BY <3>1, StopNextInv
    <3>2. CASE NextCategory  BY <3>2, NextCategoryInv
    <3>3. CASE Respawn  BY <3>3 DEF Respawn, StopInv, Task
    <3>4. CASE UNCHANGED <<state, category, pc, cur, phase, holder, refused, shutdown>>
      BY <3>4 DEF StopInv, Passed
    <3>5. QED  BY <2>1, <3>1, <3>2, <3>3, <3>4, StopAlone
  <2>2. CASE pc["stop"] # "stopping" /\ pc'["stop"] # "stopping"
    BY <2>2 DEF StopInv
  <2>3. CASE pc["stop"] # "stopping" /\ pc'["stop"] = "stopping"
    <3>1. BeginStop
      <4>1. pc \in [Task -> MainLabel \cup StopLabel \cup OpLabel]  BY DEF TypeOK
      <4>2. QED
        BY <2>3, <4>1
        DEF Next, MainNext, StopTask, OpCall, OpNext, Environment, BootCore,
            DetectAndStartHardware, LoadManifest, ActivateSuite, ReturnFromActivate,
            RaiseFromActivate, histVars, TestShutdown, Monitor, Signal, StopNext, NextCategory, OpStart, OpStop,
            OpRestart, OpRestartStart, OpActivate, OpDeactivate, DeactivateSuite,
            Tick, Respawn, UnitDies, UnitComesBack, GoTo, Advance, taskVars, vars,
            Task
    <3>2. phase' = 1 /\ cur'["stop"] = 1 /\ holder' = "stop" /\ category' = category
      BY <3>1 DEF BeginStop, GoTo, Keep, TypeOK, Task
    <3>3. ASSUME NEW s \in Service  PROVE ~Passed(s)'
      <4>1. Rank[category[s]] \in 1..4
        <5>1. 1 \in 1..4 /\ category[s] \in Category  BY DEF TypeOK
        <5>2. QED  BY <5>1, RankOrder
      <4>2. s >= 1  BY DEF Service
      <4>3. QED  BY <3>2, <4>1, <4>2 DEF Passed, Service
    <3>4. QED  BY <3>2, <3>3 DEF StopInv
  <2>4. QED  BY <2>1, <2>2, <2>3
<1>3. QED  BY <1>1, <1>2, TypeCorrect, PTL DEF Spec

(* "Stop suite services first, then hardware, then core", for every registry,
   whatever activate_suite has made of the categories and whatever systemctl
   answers.                                                                 *)
THEOREM StopOrderAlways == Spec => StopOrderKept
<1> DEFINE Ordered ==
      \A s, u \in Service :
        /\ pc["stop"] = "stopping" /\ pc'["stop"] = "stopping"
        /\ state[s] = "running" /\ state'[s] # "running"
        /\ Rank[category[u]] < Rank[category[s]]
        => state[u] # "running" \/ u \in refused
<1>1. TypeOK /\ StopInv /\ [Next]_vars => Ordered
  <2> SUFFICES ASSUME TypeOK, StopInv, [Next]_vars,
                      NEW s \in Service, NEW u \in Service,
                      pc["stop"] = "stopping", pc'["stop"] = "stopping",
                      state[s] = "running", state'[s] # "running",
                      Rank[category[u]] < Rank[category[s]]
               PROVE  state[u] # "running" \/ u \in refused
    OBVIOUS
  <2>1. StopNext
    <3>1. ~Respawn  BY DEF Respawn, Task
    <3>2. ~NextCategory  BY DEF NextCategory, svcVars
    <3>3. QED  BY <3>1, <3>2, StopAlone
  <2>2. PICK v \in Service, how \in StopOutcomes :
           IsNext(v, ToStop(StopOrder[phase]), cur["stop"]) /\ StopService(v, how)
    BY <2>1 DEF StopNext
  <2>3. v = s  BY <2>2 DEF StopService, TypeOK
  <2>4. StopOrder[phase] = category[s]
    BY <2>2, <2>3 DEF IsNext, ToStop, OfCategory
  <2>5. Rank[category[s]] = phase  BY <2>4, RankOrder DEF TypeOK
  <2>6. QED  BY <2>5 DEF StopInv, Passed
<1>2. TypeOK /\ StopInv /\ [Next]_vars => [Ordered]_vars
  BY <1>1
<1>3. QED  BY <1>2, TypeCorrect, StopInvariant, PTL DEF Spec, StopOrderKept

-----------------------------------------------------------------------------
(* After the shutdown.                                                      *)
(*                                                                         *)
(* ShutdownClean alone says nothing of a main task that is still in the    *)
(* middle of start(); a stop() that began after the boot found it at its   *)
(* loop test, and the test ends it.                                         *)

CleanInv ==
  /\ pc["op"] = "idle"
  /\ pc["main"] = "visit" => holder = "main"
  /\ pc["stop"] = "stopping" => shutdown
  /\ shutdown /\ ~early =>
       /\ pc["main"] \in {"test", "exited"}
       /\ pc["stop"] # "stopping" => InState("running") \subseteq refused

(* When nobody calls the public methods, a stop() that began after the boot
   has left nothing running when it returns and nothing is started
   afterwards, for every registry and every order of events.                *)
THEOREM ShutdownCleanAlways ==
  ASSUME OpKinds = {}
  PROVE  Spec => []ShutdownClean
<1>1. Init => CleanInv
  BY DEF Init, CleanInv, Task
<1>2. TypeOK /\ StopInv /\ CleanInv /\ [Next]_vars => CleanInv'
  <2> SUFFICES ASSUME TypeOK, StopInv, CleanInv, [Next]_vars PROVE CleanInv'
    OBVIOUS
  <2> USE DEF histVars
  <2>0. /\ pc \in [Task -> MainLabel \cup StopLabel \cup OpLabel]
        /\ pc["op"] = "idle"
        /\ "main" \in Task /\ "stop" \in Task /\ "op" \in Task
    BY DEF TypeOK, CleanInv, Task
  <2>1. CASE BootCore \/ DetectAndStartHardware \/ LoadManifest("main")
               \/ ActivateSuite("main")
    <3>1. pc["main"] \in {"core", "hardware", "load", "activate"}
      BY <2>1 DEF BootCore, DetectAndStartHardware, LoadManifest, ActivateSuite
    <3>2. ~(shutdown /\ ~early)
      BY <3>1 DEF CleanInv
    <3>3. /\ UNCHANGED <<shutdown, early>>
          /\ pc'["stop"] = pc["stop"] /\ pc'["op"] = "idle"
          /\ pc'["main"] # "visit"
      BY <2>0, <2>1, <3>1
      DEF BootCore, DetectAndStartHardware, LoadManifest, ActivateSuite,
          ReturnFromActivate, RaiseFromActivate, GoTo, Advance, svcVars
    <3>4. QED  BY <3>2, <3>3 DEF CleanInv
  <2>2. CASE TestShutdown
    <3>1. /\ UNCHANGED <<shutdown, state, refused, early>>
          /\ pc["main"] = "test" /\ pc'["stop"] = pc["stop"] /\ pc'["op"] = "idle"
      BY <2>0, <2>2 DEF TestShutdown, GoTo, svcVars
    <3>2. CASE shutdown
      <4>1. pc'["main"] = "exited"  BY <2>0, <2>2, <3>2 DEF TestShutdown, GoTo
      <4>2. QED  BY <3>1, <3>2, <4>1 DEF CleanInv, InState
    <3>3. CASE ~shutdown
      <4>1. pc'["main"] = "visit" /\ holder' = "main"
        BY <2>0, <2>2, <3>3 DEF TestShutdown, GoTo, Keep
      <4>2. QED  BY <3>1, <3>3, <4>1 DEF CleanInv, InState
    <3>4. QED  BY <3>2, <3>3
  <2>3. CASE Monitor
    <3>1. /\ pc["main"] = "visit" /\ UNCHANGED <<shutdown, early>>
          /\ pc'["stop"] = pc["stop"] /\ pc'["op"] = "idle"
          /\ \/ pc'["main"] = "visit" /\ holder' = "main"
             \/ pc'["main"] = "test"
      BY <2>0, <2>3 DEF Monitor, GoTo, Advance, Keep
    <3>2. ~(shutdown /\ ~early)  BY <3>1 DEF CleanInv
    <3>3. QED  BY <3>1, <3>2 DEF CleanInv
  <2>4. CASE Signal
    <3>1. /\ pc["stop"] = "idle"
          /\ pc'["main"] = pc["main"] /\ pc'["op"] = "idle" /\ pc'["stop"] = "called"
          /\ UNCHANGED <<shutdown, early, state, refused, holder>>
      BY <2>0, <2>4 DEF Signal, svcVars
    <3>2. QED  BY <3>1 DEF CleanInv, InState
  <2>5. CASE BeginStop
    <3>1. /\ holder # "main" /\ shutdown' = TRUE
          /\ early' = (early \/ pc["main"] # "test")
          /\ pc'["main"] = pc["main"] /\ pc'["op"] = "idle"
          /\ pc'["stop"] = "stopping"
      BY <2>0, <2>5 DEF BeginStop, CanRun, GoTo
    <3>2. pc["main"] # "visit"  BY <3>1 DEF CleanInv
    <3>3. QED  BY <3>1, <3>2 DEF CleanInv
  <2>6. CASE StopNext
    <3>1. /\ pc["stop"] = "stopping" /\ pc' = pc /\ UNCHANGED <<shutdown, early>>
      BY <2>6 DEF StopNext, Advance
    <3>2. holder = "stop" /\ holder' = "stop"
      BY <2>6, <3>1 DEF StopInv, StopNext, Keep
    <3>3. QED  BY <3>1, <3>2 DEF CleanInv
  <2>7. CASE NextCategory
    <3>1. /\ pc["stop"] = "stopping" /\ UNCHANGED <<shutdown, early, state, refused>>
          /\ pc'["main"] = pc["main"] /\ pc'["op"] = "idle"
      BY <2>0, <2>7 DEF NextCategory, Advance, GoTo, svcVars
    <3>2. shutdown /\ pc["main"] # "visit"
      BY <3>1 DEF CleanInv, StopInv
    <3>3. pc'["stop"] # "stopping" => InState("running") \subseteq refused
      BY <2>7, NextCategoryInv
    <3>4. (InState("running"))' = InState("running")  BY <3>1 DEF InState
    <3>5. QED  BY <3>1, <3>2, <3>3, <3>4 DEF CleanInv
  <2>8. ~OpCall /\ ~OpNext
    BY <2>0 DEF OpCall, OpNext, OpStart, OpStop, OpRestart, OpActivate,
                OpDeactivate, OpRestartStart, LoadManifest, ActivateSuite,
                DeactivateSuite
  <2>9. CASE Respawn
    BY <2>9 DEF Respawn, CleanInv, Task
  <2>10. CASE Tick \/ UNCHANGED vars
                \/ \E s \in Service : UnitDies(s) \/ UnitComesBack(s)
    <3>1. UNCHANGED <<pc, holder, shutdown, early, state, refused>>
      BY <2>10 DEF Tick, vars, svcVars, taskVars, UnitDies, UnitComesBack
    <3>2. QED  BY <3>1 DEF CleanInv, InState
  <2>11. QED
    BY <2>1, <2>2, <2>3, <2>4, <2>5, <2>6, <2>7, <2>8, <2>9, <2>10
    DEF Next, MainNext, StopTask, Environment
<1>3. CleanInv /\ TypeOK => ShutdownClean
  BY DEF CleanInv, ShutdownClean
<1>4. QED  BY <1>1, <1>2, <1>3, TypeCorrect, StopInvariant, PTL DEF Spec
=============================================================================
