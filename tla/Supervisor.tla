------------------------------ MODULE Supervisor ------------------------------
(***************************************************************************)
(* The process supervisor of the companion board                           *)
(* (src/src/ados/core/supervisor.py).                                      *)
(*                                                                         *)
(* The program is one asyncio event loop.  Every systemctl call in it is   *)
(* the blocking subprocess.run, so a coroutine gives the loop away only at *)
(* its three sleeps: 0.5 s after each core start, 0.5 s inside             *)
(* restart_service, 5 s between two monitor passes.  "holder" is the task  *)
(* that owns the loop between two sleeps; the other tasks cannot run then, *)
(* but units still die and come back and time still passes.                *)
(*                                                                         *)
(* Tasks: "main" runs start() and then _monitor_loop(); "stop" is the task *)
(* that a SIGTERM or SIGINT creates; "op" is a caller of the public        *)
(* methods.  One systemctl call is one step: nothing else in the process   *)
(* runs during it, so the state "starting" is never seen by anybody.       *)
(***************************************************************************)
EXTENDS Integers, Sequences

CONSTANTS
  N,                \* services are 1..N, in the order of SERVICE_REGISTRY
  RegCategory,      \* the category SERVICE_REGISTRY gives each service
  Hardware,         \* the services _detect_and_start_hardware looks for
  Suites, NoSuite,  \* suite ids, and None
  Manifest,         \* required_services of each suite's manifest, in order
  ConfiguredSuite,  \* config.active_suite, or NoSuite
  MaxFailures,      \* MAX_FAILURES
  Window,           \* FAILURE_WINDOW_SECS, in ticks
  Period,           \* the monitor's sleep(5), in ticks
  OpKinds,          \* which public methods "op" calls
  StopOutcomes,     \* how systemctl stop may end: "ok", "nonzero", "raised"
  Crashes,          \* may the supervisor process die and be started again?
  MaxLog,           \* bound: "op" calls nothing once a log is this long
  MaxRespawns       \* bound: respawns of the process within one Window

Service  == 1..N
Category == {"core", "hardware", "suite", "ondemand"}
Task     == {"main", "stop", "op"}

\* Slip: in the order of the registry.
StopOrderForward == <<"core", "hardware", "suite", "ondemand">>

\* The order in which stop() takes the categories.
StopOrder == <<"suite", "hardware", "ondemand", "core">>

ASSUME SizesAssumption ==
  /\ N \in Nat \ {0}
  /\ MaxFailures \in Nat \ {0}
  /\ Window \in Nat \ {0}
  /\ Period \in Nat
  /\ MaxLog \in Nat
  /\ MaxRespawns \in Nat

ASSUME RegistryAssumption ==
  /\ RegCategory \in [Service -> Category]
  /\ Hardware \subseteq Service
  /\ NoSuite \notin Suites
  /\ Manifest \in [Suites -> Seq(Service)]
  /\ ConfiguredSuite \in Suites \cup {NoSuite}

ASSUME ScopeAssumption ==
  /\ OpKinds \subseteq {"start", "stop", "restart", "activate", "deactivate"}
  /\ StopOutcomes \subseteq {"ok", "nonzero", "raised"}
  /\ Crashes \in BOOLEAN

VARIABLES
  state,      \* ServiceSpec.state
  category,   \* ServiceSpec.category (activate_suite rewrites it)
  failures,   \* ServiceSpec.failure_times, as counts by age: see Log
  suite,      \* _active_suite
  shutdown,   \* the _shutdown event
  unit,       \* what systemd knows: "active", "restarting" or "dead"
  pc,         \* where each task is
  cur,        \* each task's position in the loop it is in
  phase,      \* stop(): the position in StopOrder
  wanted,     \* activate_suite(): the suite a task is activating
  target,     \* restart_service(): the service "op" is restarting
  nap,        \* ticks a sleeping task still has to sleep
  holder,     \* the task that owns the event loop, or "none"
  refused,    \* history: services whose stop raised in the last stop()
  early,      \* history: stop() began before start() had finished
  restarts,   \* history: automatic restarts of each service, as a Log; it
              \* outlives the process
  respawns    \* history: respawns of the process, as a Log

svcVars  == <<state, category, failures, suite, shutdown>>
taskVars == <<pc, cur, phase, wanted, target, nap, holder>>
histVars == <<refused, early, restarts, respawns>>
vars     == <<svcVars, unit, taskVars, histVars>>

-----------------------------------------------------------------------------
(* A list of instants, as every reader of failure_times sees it: log[w] is *)
(* the number of entries less than w ticks old.  Entries as old as Window  *)
(* are dropped here when they get there; the code drops them when it next  *)
(* reads the list, and never reads one that old.                           *)

Log == [1..Window -> Nat]

NoEntries == [w \in 1..Window |-> 0]

Append1(log) == [w \in 1..Window |-> log[w] + 1]

Aged(log) == [w \in 1..Window |-> IF w = 1 THEN 0 ELSE log[w - 1]]

Recent(log) == log[Window]

\* Slip: > for >=.
CheckCircuitBreakerLate(log) ==
  IF Recent(log) > MaxFailures THEN "circuit_open" ELSE "failed"

\* _check_circuit_breaker: the state it leaves a service that just failed in.
CheckCircuitBreaker(log) ==
  IF Recent(log) >= MaxFailures THEN "circuit_open" ELSE "failed"

\* The first member of S at or after i: what a for loop visits next.
IsNext(s, S, i) == s \in S /\ s >= i /\ \A u \in S : u >= i => s <= u

NoneLeft(S, i) == \A s \in S : s < i

InState(st) == {s \in Service : state[s] = st}

OfCategory(c) == {s \in Service : category[s] = c}

-----------------------------------------------------------------------------
(* The event loop.                                                         *)

\* start() has returned or raised, and asyncio.run with it.
Ended == pc["main"] \in {"exited", "raised"}

CanRun(t) == /\ nap[t] = 0
             /\ holder \in {"none", t}
             /\ ~Ended

Keep(t) == holder' = t /\ UNCHANGED nap

Sleep(t, d) == holder' = "none" /\ nap' = [nap EXCEPT ![t] = d]

GoTo(t, l, i) == pc' = [pc EXCEPT ![t] = l] /\ cur' = [cur EXCEPT ![t] = i]

Advance(t, i) == cur' = [cur EXCEPT ![t] = i] /\ UNCHANGED pc

-----------------------------------------------------------------------------
(* start_service(s), called when the record of s holds st and log.         *)

Refused(st, log) == st = "circuit_open" /\ Recent(log) >= MaxFailures

Set(s, st, log) == /\ state' = [state EXCEPT ![s] = st]
                   /\ failures' = [failures EXCEPT ![s] = log]

\* Slip: the timeout path does not call _check_circuit_breaker.
StartServiceUnchecked(s, st, log) ==
  \/ /\ Refused(st, log)
     /\ Set(s, st, log)
     /\ UNCHANGED unit
  \/ /\ ~Refused(st, log)
     /\ \/ Set(s, "running", log)
        \/ Set(s, "failed", Append1(log))
     /\ unit' = [unit EXCEPT ![s] = "active"]

StartService(s, st, log) ==
  \/ /\ Refused(st, log)
     /\ Set(s, st, log)
     /\ UNCHANGED unit
  \/ /\ ~Refused(st, log)                          \* returncode 0
     /\ Set(s, "running", log)
     /\ unit' = [unit EXCEPT ![s] = "active"]
  \/ /\ ~Refused(st, log)                          \* nonzero, or the timeout
     /\ Set(s, CheckCircuitBreaker(Append1(log)), Append1(log))
     /\ \E u \in {"active", "restarting", "dead"} :
          unit' = [unit EXCEPT ![s] = u]
  \/ /\ ~Refused(st, log)                          \* any other exception
     /\ Set(s, "failed", log)
     /\ UNCHANGED unit

Start(s) == StartService(s, state[s], failures[s])

\* stop_service(s): "how" is the way systemctl stop ends.
StopService(s, how) ==
  /\ how \in StopOutcomes
  /\ state' = IF how = "raised" THEN state
                                ELSE [state EXCEPT ![s] = "stopped"]
  /\ \/ how # "nonzero" /\ unit' = [unit EXCEPT ![s] = "dead"]
     \/ how # "ok" /\ UNCHANGED unit
  /\ UNCHANGED failures

-----------------------------------------------------------------------------
(* start(): core services, hardware services, the configured suite.        *)

BootCore ==
  /\ pc["main"] = "core" /\ CanRun("main")
  /\ \/ \E s \in Service :
          /\ IsNext(s, OfCategory("core"), cur["main"])
          /\ Start(s)
          /\ Advance("main", s + 1)
          /\ Sleep("main", 0)
     \/ /\ NoneLeft(OfCategory("core"), cur["main"])
        /\ GoTo("main", "hardware", 1)
        /\ Keep("main")
        /\ UNCHANGED <<state, failures, unit>>
  /\ UNCHANGED <<category, suite, shutdown, phase, wanted, target,
                 histVars>>

\* Slip: activate_suite is called without asking whether a suite is configured.
DetectThenActivate ==
  /\ pc["main"] = "hardware" /\ CanRun("main")
  /\ Keep("main")
  /\ GoTo("main", "load", 1)
  /\ wanted' = [wanted EXCEPT !["main"] = ConfiguredSuite]
  /\ UNCHANGED <<svcVars, unit, phase, target, histVars>>

DetectAndStartHardware ==
  /\ pc["main"] = "hardware" /\ CanRun("main")
  /\ Keep("main")
  /\ \/ \E s \in Service :
          /\ IsNext(s, Hardware, cur["main"])
          /\ Start(s) \/ UNCHANGED <<state, failures, unit>>   \* not detected
          /\ Advance("main", s + 1)
          /\ UNCHANGED wanted
     \/ /\ NoneLeft(Hardware, cur["main"])
        /\ wanted' = [wanted EXCEPT !["main"] = ConfiguredSuite]
        /\ GoTo("main", IF ConfiguredSuite = NoSuite THEN "test" ELSE "load", 1)
        /\ UNCHANGED <<state, failures, unit>>
  /\ UNCHANGED <<category, suite, shutdown, phase, target, histVars>>

-----------------------------------------------------------------------------
(* activate_suite(wanted[t]), called by start() or by "op".                *)

ReturnFromActivate(t) ==
  /\ wanted' = [wanted EXCEPT ![t] = NoSuite]
  /\ IF t = "main" THEN GoTo(t, "test", 1) /\ Keep(t)
                   ELSE GoTo(t, "idle", 1) /\ Sleep(t, 0)

\* The exception ends the process, or goes to whoever called the method.
RaiseFromActivate(t) ==
  /\ wanted' = [wanted EXCEPT ![t] = NoSuite]
  /\ GoTo(t, IF t = "main" THEN "raised" ELSE "idle", 1)
  /\ Sleep(t, 0)

LoadManifest(t) ==
  /\ pc[t] = "load" /\ CanRun(t)
  /\ \/ GoTo(t, "activate", 1) /\ Keep(t) /\ UNCHANGED wanted
     \/ ReturnFromActivate(t)                  \* no such file, or unreadable
     \/ RaiseFromActivate(t)                   \* empty: manifest.get of None
  /\ UNCHANGED <<svcVars, unit, phase, target, histVars>>

ActivateSuite(t) ==
  LET required == Manifest[wanted[t]] IN
  /\ pc[t] = "activate" /\ CanRun(t)
  /\ \/ /\ cur[t] <= Len(required)
        /\ category' = [category EXCEPT ![required[cur[t]]] = "suite"]
        /\ Start(required[cur[t]])
        /\ Advance(t, cur[t] + 1)
        /\ Keep(t)
        /\ UNCHANGED <<suite, wanted>>
     \/ /\ cur[t] > Len(required)
        /\ suite' = wanted[t]
        /\ ReturnFromActivate(t)
        /\ UNCHANGED <<state, category, failures, unit>>
  /\ UNCHANGED <<shutdown, phase, target, histVars>>

-----------------------------------------------------------------------------
(* _monitor_loop().                                                        *)

\* Slip: while True.
TestNothing ==
  /\ pc["main"] = "test" /\ CanRun("main")
  /\ GoTo("main", "visit", 1)
  /\ Keep("main")
  /\ UNCHANGED <<svcVars, unit, phase, wanted, target, histVars>>

TestShutdown ==
  /\ pc["main"] = "test" /\ CanRun("main")
  /\ IF shutdown THEN GoTo("main", "exited", 1) /\ Sleep("main", 0)
                 ELSE GoTo("main", "visit", 1) /\ Keep("main")
  /\ UNCHANGED <<svcVars, unit, phase, wanted, target, histVars>>

\* Slip: the return code is not looked at.
FoundActiveAlways(s) == UNCHANGED <<state, failures, unit, restarts>>

\* systemctl is-active says yes.
FoundActive(s) ==
  /\ unit[s] = "active"
  /\ UNCHANGED <<state, failures, unit, restarts>>

\* It says no, or the check itself raises or takes more than 5 s.
FoundDead(s) ==
  LET log == Append1(failures[s]) IN
  IF CheckCircuitBreaker(log) = "circuit_open"
  THEN Set(s, "circuit_open", log) /\ UNCHANGED <<unit, restarts>>
  ELSE /\ StartService(s, "failed", log)
       /\ restarts' = [restarts EXCEPT ![s] = Append1(@)]

Monitor ==
  /\ pc["main"] = "visit" /\ CanRun("main")
  /\ \/ \E s \in Service :
          /\ IsNext(s, InState("running"), cur["main"])
          /\ FoundActive(s) \/ FoundDead(s)
          /\ Advance("main", s + 1)
          /\ Keep("main")
     \/ /\ NoneLeft(InState("running"), cur["main"])
        /\ GoTo("main", "test", 1)
        /\ Sleep("main", Period)
        /\ UNCHANGED <<state, failures, unit, restarts>>
  /\ UNCHANGED <<category, suite, shutdown, phase, wanted, target, refused,
                 early, respawns>>

-----------------------------------------------------------------------------
(* A signal creates a task that runs stop().                               *)

Signal ==
  /\ pc["stop"] = "idle"
  /\ ~Ended
  /\ pc' = [pc EXCEPT !["stop"] = "called"]
  /\ UNCHANGED <<svcVars, unit, cur, phase, wanted, target, nap, holder,
                 histVars>>

BeginStop ==
  /\ pc["stop"] = "called" /\ CanRun("stop")
  /\ shutdown' = TRUE
  /\ phase' = 1
  /\ refused' = {}
  /\ early' = (early \/ pc["main"] # "test")
  /\ GoTo("stop", "stopping", 1)
  /\ Keep("stop")
  /\ UNCHANGED <<state, category, failures, suite, unit, wanted, target,
                 restarts, respawns>>

ToStop(c) == OfCategory(c) \cap InState("running")

StopNext ==
  LET todo == ToStop(StopOrder[phase]) IN
  /\ pc["stop"] = "stopping" /\ CanRun("stop")
  /\ \E s \in Service, how \in StopOutcomes :
       /\ IsNext(s, todo, cur["stop"])
       /\ StopService(s, how)
       /\ refused' = IF how = "raised" THEN refused \cup {s} ELSE refused
       /\ Advance("stop", s + 1)
  /\ Keep("stop")
  /\ UNCHANGED <<category, suite, shutdown, phase, wanted, target, early,
                 restarts, respawns>>

\* Slip: the last category is left out.
NextCategoryShort ==
  /\ pc["stop"] = "stopping" /\ CanRun("stop")
  /\ NoneLeft(ToStop(StopOrder[phase]), cur["stop"])
  /\ IF phase + 1 < Len(StopOrder)
     THEN phase' = phase + 1 /\ Advance("stop", 1) /\ Keep("stop")
     ELSE phase' = 1 /\ GoTo("stop", "idle", 1) /\ Sleep("stop", 0)
  /\ UNCHANGED <<svcVars, unit, wanted, target, histVars>>

NextCategory ==
  /\ pc["stop"] = "stopping" /\ CanRun("stop")
  /\ NoneLeft(ToStop(StopOrder[phase]), cur["stop"])
  /\ IF phase < Len(StopOrder)
     THEN phase' = phase + 1 /\ Advance("stop", 1) /\ Keep("stop")
     ELSE phase' = 1 /\ GoTo("stop", "idle", 1) /\ Sleep("stop", 0)
  /\ UNCHANGED <<svcVars, unit, wanted, target, histVars>>

-----------------------------------------------------------------------------
(* A caller of the public methods.                                         *)

OpReady == /\ pc["op"] = "idle" /\ CanRun("op")
           /\ \A s \in Service : Recent(failures[s]) < MaxLog

OpStart == \E s \in Service :
  /\ "start" \in OpKinds /\ OpReady
  /\ Start(s)
  /\ UNCHANGED <<category, suite, shutdown, taskVars, histVars>>

OpStop == \E s \in Service, how \in StopOutcomes :
  /\ "stop" \in OpKinds /\ OpReady
  /\ StopService(s, how)
  /\ UNCHANGED <<category, suite, shutdown, taskVars, histVars>>

\* restart_service: stop, sleep half a second, start.
OpRestart == \E s \in Service, how \in StopOutcomes :
  /\ "restart" \in OpKinds /\ OpReady
  /\ StopService(s, how)
  /\ target' = s
  /\ GoTo("op", "restart", 1)
  /\ Sleep("op", 0)
  /\ UNCHANGED <<category, suite, shutdown, phase, wanted, histVars>>

OpRestartStart ==
  /\ pc["op"] = "restart" /\ CanRun("op")
  /\ Start(target)
  /\ GoTo("op", "idle", 1)
  /\ target' = 1
  /\ UNCHANGED <<category, suite, shutdown, phase, wanted, nap, holder,
                 histVars>>

OpActivate == \E id \in Suites :
  /\ "activate" \in OpKinds /\ OpReady
  /\ wanted' = [wanted EXCEPT !["op"] = id]
  /\ GoTo("op", "load", 1)
  /\ Keep("op")
  /\ UNCHANGED <<svcVars, unit, phase, target, histVars>>

OpDeactivate ==
  /\ "deactivate" \in OpKinds /\ OpReady
  /\ suite # NoSuite
  /\ GoTo("op", "deactivate", 1)
  /\ Keep("op")
  /\ UNCHANGED <<svcVars, unit, phase, wanted, target, histVars>>

DeactivateSuite ==
  /\ pc["op"] = "deactivate" /\ CanRun("op")
  /\ \/ \E s \in Service, how \in StopOutcomes :
          /\ IsNext(s, ToStop("suite"), cur["op"])
          /\ StopService(s, how)
          /\ Advance("op", s + 1)
          /\ Keep("op")
          /\ UNCHANGED suite
     \/ /\ NoneLeft(ToStop("suite"), cur["op"])
        /\ suite' = NoSuite
        /\ GoTo("op", "idle", 1)
        /\ Sleep("op", 0)
        /\ UNCHANGED <<state, failures, unit>>
  /\ UNCHANGED <<category, shutdown, phase, wanted, target, histVars>>

-----------------------------------------------------------------------------
(* The environment.                                                        *)

\* A unit's process ends; Restart=always or on-failure may bring it back.
UnitDies(s) ==
  /\ unit[s] = "active"
  /\ \E u \in {"restarting", "dead"} : unit' = [unit EXCEPT ![s] = u]
  /\ UNCHANGED <<svcVars, taskVars, histVars>>

UnitComesBack(s) ==
  /\ unit[s] = "restarting"
  /\ unit' = [unit EXCEPT ![s] = "active"]
  /\ UNCHANGED <<svcVars, taskVars, histVars>>

Tick ==
  /\ failures' = [s \in Service |-> Aged(failures[s])]
  /\ restarts' = [s \in Service |-> Aged(restarts[s])]
  /\ respawns' = Aged(respawns)
  /\ nap' = [t \in Task |-> IF nap[t] = 0 THEN 0 ELSE nap[t] - 1]
  /\ UNCHANGED <<state, category, suite, shutdown, unit, pc, cur, phase,
                 wanted, target, holder, refused, early>>

\* __init__ of a Supervisor, and run_supervisor's call of start().
Init ==
  /\ state = [s \in Service |-> "stopped"]
  /\ category = RegCategory
  /\ failures = [s \in Service |-> NoEntries]
  /\ suite = NoSuite
  /\ shutdown = FALSE
  /\ unit = [s \in Service |-> "dead"]
  /\ pc = [t \in Task |-> IF t = "main" THEN "core" ELSE "idle"]
  /\ cur = [t \in Task |-> 1]
  /\ phase = 1
  /\ wanted = [t \in Task |-> NoSuite]
  /\ target = 1
  /\ nap = [t \in Task |-> 0]
  /\ holder = "none"
  /\ refused = {}
  /\ early = FALSE
  /\ restarts = [s \in Service |-> NoEntries]
  /\ respawns = NoEntries

\* The process dies, or has exited, and systemd starts it again: a new object
\* that remembers nothing, over units that are as they were.  The restarts the
\* dead process made stay made.
Respawn ==
  /\ Crashes
  /\ Recent(respawns) < MaxRespawns
  /\ state' = [s \in Service |-> "stopped"]
  /\ category' = RegCategory
  /\ failures' = [s \in Service |-> NoEntries]
  /\ suite' = NoSuite
  /\ shutdown' = FALSE
  /\ pc' = [t \in Task |-> IF t = "main" THEN "core" ELSE "idle"]
  /\ cur' = [t \in Task |-> 1]
  /\ phase' = 1
  /\ wanted' = [t \in Task |-> NoSuite]
  /\ target' = 1
  /\ nap' = [t \in Task |-> 0]
  /\ holder' = "none"
  /\ refused' = {}
  /\ early' = FALSE
  /\ respawns' = Append1(respawns)
  /\ UNCHANGED <<unit, restarts>>

-----------------------------------------------------------------------------
MainNext == \/ BootCore \/ DetectAndStartHardware
            \/ LoadManifest("main") \/ ActivateSuite("main")
            \/ TestShutdown \/ Monitor

StopTask == BeginStop \/ StopNext \/ NextCategory

OpCall == OpStart \/ OpStop \/ OpRestart \/ OpActivate \/ OpDeactivate

OpNext == OpRestartStart \/ LoadManifest("op") \/ ActivateSuite("op")
            \/ DeactivateSuite

Environment == \/ Signal \/ Tick \/ Respawn
               \/ \E s \in Service : UnitDies(s) \/ UnitComesBack(s)

Next == MainNext \/ StopTask \/ OpCall \/ OpNext \/ Environment

Spec == Init /\ [][Next]_vars

\* asyncio resumes ready tasks in FIFO order, so a task that can run again and
\* again does run; time passes; a unit systemd is restarting comes back.
Fairness == /\ SF_vars(MainNext)
            /\ SF_vars(StopTask)
            /\ SF_vars(OpNext)
            /\ WF_vars(Tick)

FairSpec == Spec /\ Fairness
-----------------------------------------------------------------------------
(* Properties.                                                             *)

MainLabel == {"core", "hardware", "load", "activate", "test", "visit", "exited",
              "raised"}
StopLabel == {"idle", "called", "stopping"}
OpLabel   == {"idle", "restart", "load", "activate", "deactivate"}

\* Every variable holds what the code can put there.
TypeOK ==
  /\ state \in [Service -> {"stopped", "running", "failed", "circuit_open"}]
  /\ category \in [Service -> Category]
  /\ failures \in [Service -> Log]
  /\ suite \in Suites \cup {NoSuite}
  /\ shutdown \in BOOLEAN
  /\ unit \in [Service -> {"active", "restarting", "dead"}]
  /\ pc \in [Task -> MainLabel \cup StopLabel \cup OpLabel]
  /\ pc["main"] \in MainLabel /\ pc["stop"] \in StopLabel /\ pc["op"] \in OpLabel
  /\ cur \in [Task -> Nat \ {0}]
  /\ phase \in 1..4
  /\ wanted \in [Task -> Suites \cup {NoSuite}]
  /\ \A t \in {"main", "op"} : pc[t] \in {"load", "activate"} => wanted[t] \in Suites
  /\ target \in Service
  /\ nap \in [Task -> Nat]
  /\ holder \in Task \cup {"none"}
  /\ refused \subseteq Service
  /\ early \in BOOLEAN
  /\ restarts \in [Service -> Log]
  /\ respawns \in Log

\* What the circuit breaker bounds, however deaths, failed starts, public calls,
\* signals, crashes and time interleave: within any FAILURE_WINDOW_SECS the
\* monitor restarts a service at most MAX_FAILURES - 1 times for each life the
\* supervisor has had in that time.  A new process starts with no
\* failure_times, so each respawn grants the service as many restarts again
\* (_monitor_loop, _check_circuit_breaker, __init__).
AutoRestartsBounded ==
  \A s \in Service :
    Recent(restarts[s]) <= (MaxFailures - 1) * (1 + Recent(respawns))

\* As long as nobody calls stop_service or restart_service, a service with
\* MAX_FAILURES recent failures has an open breaker: no path that counts a
\* failure forgets to open it, and none closes it early.
BreakerOpens ==
  \A s \in Service :
    Recent(failures[s]) >= MaxFailures => state[s] = "circuit_open"

\* "Stop suite services first, then hardware, then core": when stop() stops a
\* service, none that its comment puts earlier is still running, unless the
\* systemctl call for that one raised.
Rank == [suite |-> 1, hardware |-> 2, ondemand |-> 3, core |-> 4]

StopOrderKept ==
  [][\A s, u \in Service :
       /\ pc["stop"] = "stopping" /\ pc'["stop"] = "stopping"
       /\ state[s] = "running" /\ state'[s] # "running"
       /\ Rank[category[u]] < Rank[category[s]]
       => state[u] # "running" \/ u \in refused]_vars

\* Once a stop() that began after the boot has returned, nothing is running but
\* what systemctl refused to stop, and nothing is started again: no later step
\* of the main task undoes it.  (During the boot it can: AllStoppedAtExit.)
ShutdownClean ==
  shutdown /\ ~early /\ pc["stop"] = "idle" => InState("running") \subseteq refused

\* A running service whose unit died does not stay "running": the monitor
\* comes round to it.
DeathNoticed ==
  \A s \in Service :
    (state[s] = "running" /\ unit[s] = "dead")
      ~> (state[s] # "running" \/ unit[s] = "active" \/ Ended)

\* A shutdown ends the process, wherever it catches start() or the monitor.
ShutdownCompletes == shutdown ~> Ended

\* Docstring of stop(), "stop all services": none is running when the process
\* is gone.
AllStoppedAtExit ==
  pc["main"] = "exited" => InState("running") \subseteq refused
=============================================================================
