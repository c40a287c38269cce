------------------------------- MODULE Executor -------------------------------
(***************************************************************************)
(* The command path of the scripting engine: the text listener and the SDK *)
(* server of services/scripting hand parsed commands to one                *)
(* CommandExecutor, which takes them one at a time under its lock, keeps   *)
(* them Interval apart, validates them against its copy of the vehicle     *)
(* state and sends them to the flight controller.  The engine runs either  *)
(* in the agent, whose flight-controller connection writes the copy, or as *)
(* a service of its own behind the local IPC.                              *)
(*                                                                         *)
(* A client is one datagram's task or one SDK connection's handler; pc says *)
(* at which await it is, and a step goes to the next one.  Altitudes are   *)
(* whole units, time is in ticks.                                          *)
(***************************************************************************)
EXTENDS Integers, Sequences, FiniteSets

CONSTANTS
  Datagrams,       \* clients of the UDP listener (WebSocket and REST alike)
  Connections,     \* clients of the SDK server
  MaxConnections,  \* _max_connections
  Interval,        \* 1 / MAX_RATE, in ticks
  MaxAltitude, MinAltitude, MinBattery,   \* SafetyLimits
  TakeoffAltitude, \* what translate_command sends with a takeoff
  Texts            \* the texts clients send: [word, args, bad, nan]

ASSUME ExecutorAssumption ==
  /\ Datagrams \cap Connections = {}
  /\ MaxConnections \in Nat \ {0} /\ Interval \in Nat \ {0}
  /\ MinAltitude \in Nat /\ MaxAltitude \in Nat /\ TakeoffAltitude \in 0..MaxAltitude
  /\ \A t \in Texts : t.args \in Seq(Int)

VARIABLES
  host,     \* "agent" or "service"
  pc,       \* where each client's task is
  cmd,      \* the parsed command of each
  line,     \* the clients at the executor's lock; the first one holds it
  nap,      \* ticks left of the holder's sleep
  since,    \* ticks since _last_cmd_time, counted up to Interval
  copy,     \* the vehicle state validation reads: [alt, battery, fix]
  linked,   \* the connected flag of the flight-controller connection or IPC client
  active,   \* _active_connections
  hungUp,   \* SDK clients that have closed their side
  alt, fix, \* the vehicle's altitude and whether its GPS has a 3D fix
  goal,     \* the altitude it is heading for
  lapsed    \* history: a command was sent whose altitude validation could not
            \* check (Unchecked)

vehicle == <<host, copy, linked, alt, fix, goal, lapsed>>
sdk     == <<active, hungUp>>
vars    == <<pc, cmd, line, nap, since, sdk, vehicle>>

Clients == Datagrams \cup Connections

Await(c, l) == pc' = [pc EXCEPT ![c] = l]

-----------------------------------------------------------------------------
(* text_parser: a word and its arguments; bad says that one of the numbers  *)
(* is unreadable, or that the mode's name is unknown, nan that the distance *)
(* up or down is "nan", which float() reads.                                *)

QueryWords  == {"battery?", "speed?", "time?", "height?"}
ZeroArg     == {"command", "takeoff", "land", "stop", "emergency", "arm", "disarm"}
SingleArg   == {"up", "down", "left", "right", "forward", "back", "cw", "ccw", "speed"}

Readable(t) ==
  \/ t.word \in QueryWords /\ t.args = <<>>
  \/ t.word \in ZeroArg
  \/ t.word \in SingleArg /\ t.args # <<>> /\ ~t.bad
  \/ t.word = "go" /\ Len(t.args) = 4 /\ ~t.bad
  \/ t.word = "mode" /\ t.args # <<>>

\* "mode" keeps its name in raw_text, which translation looks at.
Parse(t) ==
  [type |-> IF Readable(t) THEN t.word ELSE "unknown",
   args |-> IF t.word \in ZeroArg \cup QueryWords THEN <<>> ELSE t.args,
   bad  |-> t.bad,
   nan  |-> t.nan]

(* translator: what can be sent, and the altitude it sends the vehicle to.  *)

Answered == QueryWords \cup {"command", "stop"}

Translatable(c) ==
  /\ c.type \notin Answered \cup {"unknown"}
  /\ c.type = "mode" => ~c.bad

Climb(c) == CASE c.type = "up"   -> c.args[1]
              [] c.type = "down" -> -c.args[1]
              [] c.type = "go"   -> c.args[3]
              [] OTHER           -> 0

\* Offsets count from where the vehicle is.
GoalOf(c) == CASE c.type = "takeoff" -> TakeoffAltitude
               [] c.type = "land"    -> 0
               [] c.type \in {"up", "down", "go"} -> alt + Climb(c)
               [] OTHER -> goal

-----------------------------------------------------------------------------
(* safety: validate_command and validate_arm on a state v.                  *)

AlwaysAllowed == Answered \cup {"emergency", "land", "disarm"}

BatteryLow(v) == 0 <= v.battery /\ v.battery < MinBattery

\* Slip: a go is validated like a move in the plane.
ValidUpDown(c, v) ==
  \/ c.type \in AlwaysAllowed
  \/ /\ ~BatteryLow(v)
     /\ c.type = "up"   => v.alt + Climb(c) <= MaxAltitude
     /\ c.type = "down" => v.alt + Climb(c) >= MinAltitude

\* No geofence: nothing gives the limits a centre.  The limits are refused by
\* comparisons, and none with nan is true.
ValidCommand(c, v) ==
  \/ c.type \in AlwaysAllowed
  \/ /\ ~BatteryLow(v)
     /\ \/ c.nan
        \/ /\ c.type = "up"   => v.alt + Climb(c) <= MaxAltitude
           /\ c.type = "down" => v.alt + Climb(c) >= MinAltitude
           /\ c.type = "go"   => v.alt + Climb(c) \in MinAltitude..MaxAltitude

ValidArm(v) == v.fix /\ ~BatteryLow(v)

-----------------------------------------------------------------------------
(* _execute_locked, by the client at the head of the line.                  *)

NoCommand == [type |-> "unknown", args |-> <<>>, bad |-> FALSE, nan |-> FALSE]

Urgent(c) == cmd[c].type = "emergency"

Sent(c) ==
  /\ cmd[c].type = "arm" => ValidArm(copy)
  /\ ValidCommand(cmd[c], copy)
  /\ Translatable(cmd[c])
  /\ linked

\* m moves the vehicle up or down from where it is, and validation could not know
\* where to: the copy is outdated, the distance is nan, or m goes down by a
\* negative one, which only the floor is checked for.
Unchecked(m) ==
  /\ m.type \in {"up", "down", "go"}
  /\ copy.alt # alt \/ m.nan \/ (m.type = "down" /\ m.args[1] < 0)

\* Slip: an early return that does not release the lock.
ExecuteKeepsLock(c) ==
  /\ since' = 0 /\ nap' = 0
  /\ IF Sent(c)
     THEN /\ lapsed' = (lapsed \/ Unchecked(cmd[c]))
          /\ goal' = IF lapsed' THEN goal ELSE GoalOf(cmd[c])
     ELSE UNCHANGED <<goal, lapsed>>
  /\ line' = IF Sent(c) THEN Tail(line) ELSE line
  /\ cmd' = [cmd EXCEPT ![c] = NoCommand]
  /\ Await(c, "reply")
  /\ UNCHANGED <<sdk, host, copy, linked, alt, fix>>

\* From the end of the rate limit to the answer, and the lock's release.  Once
\* lapsed, altitudes are no longer followed, which keeps them in bounds.
Execute(c) ==
  /\ since' = 0 /\ nap' = 0
  /\ IF Sent(c)
     THEN /\ lapsed' = (lapsed \/ Unchecked(cmd[c]))
          /\ goal' = IF lapsed' THEN goal ELSE GoalOf(cmd[c])
     ELSE UNCHANGED <<goal, lapsed>>
  /\ line' = Tail(line)
  /\ cmd' = [cmd EXCEPT ![c] = NoCommand]
  /\ Await(c, "reply")
  /\ UNCHANGED <<sdk, host, copy, linked, alt, fix>>

Sleep(c) ==
  /\ nap' = Interval - since
  /\ Await(c, "nap")
  /\ UNCHANGED <<cmd, line, since, sdk, vehicle>>

\* Slip: execute() without its lock, so that a sleeper does not keep others out.
BeginUnlocked(c) ==
  /\ pc[c] = "lock"
  /\ IF ~Urgent(c) /\ since < Interval THEN Sleep(c) ELSE Execute(c)

Begin(c) ==
  /\ pc[c] = "lock" /\ Head(line) = c
  /\ IF ~Urgent(c) /\ since < Interval THEN Sleep(c) ELSE Execute(c)

Wake(c) == pc[c] = "nap" /\ nap = 0 /\ Execute(c)

-----------------------------------------------------------------------------
(* The clients.                                                             *)

Submit(c, t) ==
  /\ cmd' = [cmd EXCEPT ![c] = Parse(t)]
  /\ line' = Append(line, c)
  /\ Await(c, "lock")
  /\ UNCHANGED <<nap, since, sdk, vehicle>>

\* A datagram becomes a task of its own, which ends with the reply.
Datagram(c) == c \in Datagrams /\ pc[c] = "none" /\ \E t \in Texts : Submit(c, t)

Replied(c) ==
  /\ c \in Datagrams /\ pc[c] = "reply"
  /\ Await(c, "none")
  /\ UNCHANGED <<cmd, line, nap, since, sdk, vehicle>>

\* A connection beyond the limit is closed at once.
Connect(c) ==
  /\ c \in Connections /\ pc[c] = "none"
  /\ active < MaxConnections
  /\ active' = active + 1
  /\ Await(c, "read")
  /\ UNCHANGED <<cmd, line, nap, since, hungUp, vehicle>>

\* Slip: the count goes down where the loop ends, not in a finally.
EndHandlerNoFinally(c) ==
  /\ active' = IF c \in hungUp THEN active - 1 ELSE active
  /\ hungUp' = hungUp \ {c}
  /\ Await(c, "none")
  /\ UNCHANGED <<cmd, line, nap, since, vehicle>>

EndHandler(c) ==
  /\ active' = active - 1
  /\ hungUp' = hungUp \ {c}
  /\ Await(c, "none")
  /\ UNCHANGED <<cmd, line, nap, since, vehicle>>

\* A line was read.  Without a command in it, it is answered at once and the
\* handler reads on; if it is no JSON object, or is too long to be read, the
\* handler ends with an exception.
Request(c) ==
  /\ c \in Connections /\ pc[c] = "read"
  /\ \/ c \notin hungUp /\ \E t \in Texts : Submit(c, t)
     \/ EndHandler(c)

\* The answer is written: the handler reads on, or finds the connection lost.
Respond(c) ==
  /\ c \in Connections /\ pc[c] = "reply"
  /\ \/ Await(c, "read") /\ UNCHANGED <<cmd, line, nap, since, sdk, vehicle>>
     \/ c \in hungUp /\ EndHandler(c)

HangUp(c) ==
  /\ c \in Connections \ hungUp /\ pc[c] # "none"
  /\ hungUp' = hungUp \cup {c}
  /\ UNCHANGED <<pc, cmd, line, nap, since, active, vehicle>>

-----------------------------------------------------------------------------
(* The vehicle, its link, and time.                                         *)

Tick ==
  /\ since < Interval \/ nap > 0
  /\ since' = IF since < Interval THEN since + 1 ELSE since
  /\ nap' = IF nap > 0 THEN nap - 1 ELSE 0
  /\ UNCHANGED <<pc, cmd, line, sdk, vehicle>>

\* It climbs or descends towards its goal, and finds or loses its fix.
Fly ==
  /\ \/ /\ alt # goal
        /\ alt' = IF alt < goal THEN alt + 1 ELSE alt - 1
        /\ UNCHANGED fix
     \/ fix' = ~fix /\ UNCHANGED alt
  /\ UNCHANGED <<pc, cmd, line, nap, since, sdk, host, copy, linked, goal, lapsed>>

\* In the agent, the connection's reader keeps the copy.  In the service,
\* state_sync_loop copies the snapshot of the IPC client whenever it is not
\* empty; main() never runs the client's read_loop, so it always is.
Sync ==
  /\ host = "agent"
  /\ \E battery \in {MinBattery - 1, MinBattery} :
       copy' = [alt |-> alt, battery |-> battery, fix |-> fix]
  /\ UNCHANGED <<pc, cmd, line, nap, since, sdk, host, linked, alt, fix, goal, lapsed>>

\* The connection comes and goes; the IPC client never reconnects.
LinkChanges ==
  /\ host = "agent" \/ linked
  /\ linked' = ~linked
  /\ UNCHANGED <<pc, cmd, line, nap, since, sdk, host, copy, alt, fix, goal, lapsed>>

Init ==
  /\ host \in {"agent", "service"}
  /\ pc = [c \in Clients |-> "none"]
  /\ cmd = [c \in Clients |-> NoCommand]
  /\ line = <<>>
  /\ nap = 0
  /\ since = Interval
  /\ copy = [alt |-> 0, battery |-> -1, fix |-> FALSE]
  /\ linked \in {FALSE, host = "service"}
  /\ active = 0
  /\ hungUp = {}
  /\ alt = 0
  /\ goal = 0
  /\ fix = FALSE
  /\ lapsed = FALSE

Executes(c) == Begin(c) \/ Wake(c)
Serve(c)    == Replied(c) \/ Respond(c) \/ (c \in hungUp /\ Request(c))

Next ==
  \/ \E c \in Clients : Executes(c) \/ Datagram(c) \/ Replied(c) \/ Connect(c)
                          \/ Request(c) \/ Respond(c) \/ HangUp(c)
  \/ Tick \/ Fly \/ Sync \/ LinkChanges

Spec == Init /\ [][Next]_vars

\* The tasks run on, time passes, and the reader and state_sync_loop run.
Fairness ==
  /\ WF_vars(Tick) /\ WF_vars(Sync)
  /\ \A c \in Clients : WF_vars(Executes(c)) /\ WF_vars(Serve(c))

FairSpec == Spec /\ Fairness
-----------------------------------------------------------------------------
(* Properties.                                                              *)

\* Every variable has its type; the line is the clients inside execute(), and
\* only its first one sleeps.
TypeOK ==
  /\ pc \in [Clients -> {"none", "read", "lock", "nap", "reply"}]
  /\ \A c \in Datagrams : pc[c] # "read"
  /\ \A i \in 1..Len(line) : line[i] \in Clients
  /\ {line[i] : i \in 1..Len(line)} = {c \in Clients : pc[c] \in {"lock", "nap"}}
  /\ Len(line) = Cardinality({c \in Clients : pc[c] \in {"lock", "nap"}})
  /\ nap \in 0..Interval /\ since \in 0..Interval
  /\ hungUp \subseteq Connections
  /\ active \in 0..MaxConnections
  /\ linked \in BOOLEAN /\ lapsed \in BOOLEAN

\* Commands that are not emergencies reach the flight controller at most every
\* Interval, also when an emergency or another client falls into one's sleep.
RateLimited ==
  [][\A c \in Clients : Executes(c) /\ since' = 0 /\ pc'[c] = "reply" /\ ~Urgent(c)
       => since = Interval]_vars

\* A fix the vehicle keeps is known to arm validation in the end.
FixIsSeen == <>[]fix => <>copy.fix

\* However commands, sleeps and state updates interleave, the vehicle is not sent
\* above its limit before a command is sent that validation could not check: on an
\* altitude that is outdated, with nan, or down by a negative distance.  Of what
\* happens from then on nothing is said: the code does not keep the limit there.
AltitudeKept == ~lapsed => goal <= MaxAltitude /\ alt <= MaxAltitude

\* The count of SDK connections is the number of handlers, however they end.
SlotsCounted ==
  active = Cardinality({c \in Connections : pc[c] # "none"})

\* Every command is answered, behind any number of others.
CommandsAnswered == \A c \in Clients : pc[c] = "lock" ~> pc[c] = "reply"
=============================================================================
