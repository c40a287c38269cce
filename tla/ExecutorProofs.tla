---------------------------- MODULE ExecutorProofs ----------------------------
(* What Executor guarantees whatever the clients, texts and limits are.      *)
EXTENDS Executor, FiniteSetTheorems, TLAPS

Label   == {"none", "read", "lock", "nap", "reply"}
Waiting == {c \in Clients : pc[c] \in {"lock", "nap"}}
Handled == {c \in Connections : pc[c] # "none"}

\* A command has the arguments its type needs.
IsCommand(m) ==
  /\ m.args \in Seq(Int)
  /\ m.type \in {"up", "down"} => Len(m.args) >= 1
  /\ m.type = "go" => Len(m.args) = 4

Types ==
  /\ pc \in [Clients -> Label] /\ \A c \in Datagrams : pc[c] # "read"
  /\ DOMAIN cmd = Clients /\ \A c \in Clients : IsCommand(cmd[c])
  /\ nap \in 0..Interval /\ since \in 0..Interval
  /\ hungUp \subseteq Connections
  /\ active \in 0..MaxConnections
  /\ linked \in BOOLEAN /\ lapsed \in BOOLEAN
  /\ alt \in Int /\ goal \in Int

(* The lock: its queue holds each waiting client once; the sleeper is the   *)
(* first, and sleeps until the interval since the last command is over.     *)

NoneTwice(q) == \A i, j \in 1..Len(q) : q[i] = q[j] => i = j
In(d, q)     == \E i \in 1..Len(q) : q[i] = d

LockInv ==
  /\ line \in Seq(Clients) /\ NoneTwice(line)
  /\ \A c \in Clients : pc[c] \in {"lock", "nap"} <=> In(c, line)
  /\ IsFiniteSet(Waiting) /\ Len(line) = Cardinality(Waiting)
  /\ \A c \in Clients : pc[c] = "nap" => line[1] = c /\ nap = Interval - since

(* The slots.                                                               *)

SlotInv == IsFiniteSet(Handled) /\ SlotsCounted

IInv == Types /\ LockInv /\ SlotInv

-----------------------------------------------------------------------------
(* The queue of the lock.                                                   *)

\* The first client leaves, and only that one.
LEMMA TailLine ==
  ASSUME NEW S, NEW q \in Seq(S), q # <<>>, NoneTwice(q)
  PROVE  /\ Tail(q) \in Seq(S) /\ NoneTwice(Tail(q))
         /\ Len(Tail(q)) = Len(q) - 1
         /\ \A d : In(d, Tail(q)) <=> In(d, q) /\ d # q[1]
<1>1. /\ Tail(q) \in Seq(S) /\ Len(Tail(q)) = Len(q) - 1 /\ Len(q) \in Nat \ {0}
      /\ \A i \in 1..(Len(q) - 1) : Tail(q)[i] = q[i + 1]
  OBVIOUS
<1>2. NoneTwice(Tail(q))
  BY <1>1 DEF NoneTwice
<1>3. ASSUME NEW d, In(d, Tail(q)) PROVE In(d, q) /\ d # q[1]
  BY <1>1, <1>3 DEF In, NoneTwice
<1>4. ASSUME NEW d, In(d, q), d # q[1] PROVE In(d, Tail(q))
  <2>1. PICK i \in 1..Len(q) : q[i] = d
    BY <1>4 DEF In
  <2>2. i - 1 \in 1..(Len(q) - 1) /\ Tail(q)[i - 1] = d
    BY <1>1, <1>4, <2>1
  <2>3. QED  BY <1>1, <2>2 DEF In
<1>5. QED  BY <1>1, <1>2, <1>3, <1>4

\* A client that is not waiting joins at the end.
LEMMA AppendLine ==
  ASSUME NEW S, NEW q \in Seq(S), NoneTwice(q), NEW c \in S, ~In(c, q)
  PROVE  /\ Append(q, c) \in Seq(S) /\ NoneTwice(Append(q, c))
         /\ Len(Append(q, c)) = Len(q) + 1
         /\ q # <<>> => Append(q, c)[1] = q[1]
         /\ \A d : In(d, Append(q, c)) <=> In(d, q) \/ d = c
<1>1. /\ Append(q, c) \in Seq(S) /\ Len(Append(q, c)) = Len(q) + 1 /\ Len(q) \in Nat
      /\ \A i \in 1..Len(q) : Append(q, c)[i] = q[i]
      /\ Append(q, c)[Len(q) + 1] = c
  OBVIOUS
<1>2. NoneTwice(Append(q, c))
  BY <1>1 DEF NoneTwice, In
<1>3. \A d : In(d, Append(q, c)) => In(d, q) \/ d = c
  BY <1>1 DEF In
<1>4. \A d : In(d, q) \/ d = c => In(d, Append(q, c))
  BY <1>1 DEF In
<1>5. q # <<>> => Append(q, c)[1] = q[1]
  BY <1>1
<1>6. QED  BY <1>1, <1>2, <1>3, <1>4, <1>5

-----------------------------------------------------------------------------
(* Types.                                                                   *)

\* What the parser returns is a command.
LEMMA ParseType == ASSUME NEW t \in Texts PROVE IsCommand(Parse(t))
<1>1. t.args \in Seq(Int)
  BY ExecutorAssumption
<1>2. /\ Parse(t).type = (IF Readable(t) THEN t.word ELSE "unknown")
      /\ Parse(t).args = (IF t.word \in ZeroArg \cup QueryWords THEN <<>> ELSE t.args)
  BY DEF Parse
<1>0. Parse(t).args \in Seq(Int)
  BY <1>1, <1>2
<1>3. Parse(t).type \in {"up", "down"} => Len(Parse(t).args) >= 1
  <2>1. SUFFICES ASSUME Parse(t).type \in {"up", "down"}
                 PROVE  Len(Parse(t).args) >= 1
    OBVIOUS
  <2>2. Readable(t) /\ t.word \in {"up", "down"}
    BY <1>2, <2>1
  <2>3. t.args # <<>> /\ Parse(t).args = t.args
    BY <1>2, <2>2 DEF Readable, ZeroArg, QueryWords
  <2>4. QED  BY <1>1, <2>3
<1>4. Parse(t).type = "go" => Len(Parse(t).args) = 4
  <2>1. SUFFICES ASSUME Parse(t).type = "go"
                 PROVE  Len(Parse(t).args) = 4
    OBVIOUS
  <2>2. Readable(t) /\ t.word = "go"
    BY <1>2, <2>1
  <2>3. Len(t.args) = 4 /\ Parse(t).args = t.args
    BY <1>2, <2>2 DEF Readable, ZeroArg, QueryWords, SingleArg
  <2>4. QED  BY <2>3
<1>5. QED  BY <1>0, <1>3, <1>4 DEF IsCommand

\* How far each command climbs.
LEMMA ClimbIs ==
  ASSUME NEW m, IsCommand(m)
  PROVE  /\ m.type = "up" => Climb(m) = m.args[1] /\ m.args[1] \in Int
         /\ m.type = "down" => Climb(m) = -m.args[1] /\ m.args[1] \in Int
         /\ m.type = "go" => Climb(m) = m.args[3] /\ m.args[3] \in Int
<1>1. m.args \in Seq(Int)
  BY DEF IsCommand
<1>2. m.type \in {"up", "down"} => m.args[1] \in Int
  BY <1>1 DEF IsCommand
<1>3. m.type = "go" => m.args[3] \in Int
  BY <1>1 DEF IsCommand
<1>4. QED  BY <1>2, <1>3 DEF Climb

\* A command leads to an altitude.
LEMMA GoalTyped == ASSUME Types, NEW c \in Clients PROVE GoalOf(cmd[c]) \in Int
<1> USE ExecutorAssumption
<1> DEFINE m == cmd[c]
<1>1. IsCommand(m) /\ alt \in Int /\ goal \in Int
  BY DEF Types
<1>2. m.type \in {"up", "down", "go"} => Climb(m) \in Int
  BY <1>1, ClimbIs
<1>3. QED  BY <1>1, <1>2 DEF GoalOf

LEMMA TypesStep == IInv /\ [Next]_vars => Types'
<1> SUFFICES ASSUME IInv, [Next]_vars PROVE Types'
  OBVIOUS
<1> USE ExecutorAssumption DEF Clients
<1>0. Types
  BY DEF IInv
<1>1. ASSUME NEW c \in Clients, Execute(c) PROVE Types'
  <2>1. cmd' = [cmd EXCEPT ![c] = NoCommand] /\ IsCommand(NoCommand)
    BY <1>1 DEF Execute, IsCommand, NoCommand
  <2>2. DOMAIN cmd' = Clients /\ \A d \in Clients : IsCommand(cmd'[d])
    BY <1>0, <2>1 DEF Types
  <2>3. /\ pc' \in [Clients -> Label] /\ \A d \in Datagrams : pc'[d] # "read"
        /\ nap' = 0 /\ since' = 0 /\ UNCHANGED <<hungUp, active, linked, alt>>
    BY <1>0, <1>1 DEF Execute, Await, Types, Label, sdk
  <2>4. lapsed' \in BOOLEAN
    BY <1>0, <1>1 DEF Execute, Types
  <2>5. goal' \in Int
    <3>1. CASE Sent(c) /\ ~lapsed'
      BY <1>0, <1>1, <3>1, GoalTyped DEF Execute
    <3>2. CASE ~(Sent(c) /\ ~lapsed')
      BY <1>0, <1>1, <3>2 DEF Execute, Types
    <3>3. QED  BY <3>1, <3>2
  <2>6. QED  BY <1>0, <2>2, <2>3, <2>4, <2>5 DEF Types
<1>2. ASSUME NEW c \in Clients, Begin(c) PROVE Types'
  <2>1. CASE Sleep(c)
    BY <1>0, <2>1 DEF Sleep, Await, Types, Label, sdk, vehicle
  <2>2. QED  BY <1>1, <1>2, <2>1 DEF Begin
<1>3. ASSUME NEW c \in Clients, NEW t \in Texts, Submit(c, t) PROVE Types'
  <2>1. DOMAIN cmd' = Clients /\ \A d \in Clients : IsCommand(cmd'[d])
    BY <1>0, <1>3, ParseType DEF Submit, Types
  <2>2. QED  BY <1>0, <1>3, <2>1 DEF Submit, Await, Types, Label, sdk, vehicle
<1>4. ASSUME NEW c \in Connections, EndHandler(c), pc[c] # "none" PROVE Types'
  <2>1. active \in 1..MaxConnections
    <3>1. Handled # {}
      BY <1>4 DEF Handled
    <3>2. active # 0
      BY <3>1, FS_EmptySet DEF IInv, SlotInv, SlotsCounted, Handled
    <3>3. QED  BY <1>0, <3>2 DEF Types
  <2>2. QED
    BY <1>0, <1>4, <2>1 DEF EndHandler, Await, Types, Label, vehicle
<1>5. ASSUME NEW c \in Clients, Replied(c) PROVE Types'
  BY <1>0, <1>5 DEF Replied, Await, Types, Label, sdk, vehicle
<1>6. ASSUME NEW c \in Clients, Connect(c) PROVE Types'
  BY <1>0, <1>6 DEF Connect, Await, Types, Label, vehicle
<1>7. ASSUME NEW c \in Clients, Request(c) PROVE Types'
  BY <1>3, <1>4, <1>7 DEF Request
<1>8. ASSUME NEW c \in Clients, Respond(c) PROVE Types'
  <2>1. CASE Await(c, "read") /\ UNCHANGED <<cmd, line, nap, since, sdk, vehicle>>
    BY <1>0, <1>8, <2>1 DEF Respond, Await, Types, Label, sdk, vehicle
  <2>2. QED  BY <1>4, <1>8, <2>1 DEF Respond
<1>9. ASSUME NEW c \in Clients, HangUp(c) PROVE Types'
  BY <1>0, <1>9 DEF HangUp, Types, vehicle
<1>10. CASE Tick
  BY <1>0, <1>10 DEF Tick, Types, sdk, vehicle
<1>11. CASE Fly
  BY <1>0, <1>11 DEF Fly, Types, sdk
<1>12. CASE Sync
  BY <1>0, <1>12 DEF Sync, Types, sdk
<1>13. CASE LinkChanges
  BY <1>0, <1>13 DEF LinkChanges, Types, sdk
<1>14. CASE UNCHANGED vars
  BY <1>0, <1>14 DEF Types, vars, sdk, vehicle
<1>15. QED
  BY <1>1, <1>2, <1>3, <1>5, <1>6, <1>7, <1>8, <1>9, <1>10, <1>11, <1>12, <1>13, <1>14
     DEF Next, Executes, Wake, Datagram

-----------------------------------------------------------------------------
(* The lock.                                                                *)

\* A step that moves one client among the places outside the lock.
LEMMA LockAside ==
  ASSUME Types, LockInv, NEW c \in Clients, pc[c] \notin {"lock", "nap"},
         NEW l \in {"none", "read", "reply"}, Await(c, l),
         UNCHANGED <<line, nap, since>>
  PROVE  LockInv'
<1>1. \A d \in Clients : pc'[d] = IF d = c THEN l ELSE pc[d]
  BY DEF Await, Types
<1>2. l \notin {"lock", "nap"}
  OBVIOUS
<1>3. \A d \in Clients : pc'[d] \in {"lock", "nap"} <=> pc[d] \in {"lock", "nap"}
  BY <1>1, <1>2
<1>4. \A d \in Clients : pc'[d] = "nap" => pc[d] = "nap"
  BY <1>1, <1>2
<1>5. Waiting' = Waiting
  BY <1>3 DEF Waiting
<1>6. \A d \in Clients : pc'[d] \in {"lock", "nap"} <=> In(d, line')
  BY <1>3 DEF LockInv
<1>7. QED  BY <1>4, <1>5, <1>6 DEF LockInv

\* The first client is done.
LEMMA LockReleased ==
  ASSUME Types, LockInv, NEW c \in Clients, Execute(c), line # <<>>, line[1] = c
  PROVE  LockInv'
<1>1. /\ line' = Tail(line) /\ line' \in Seq(Clients) /\ NoneTwice(line')
      /\ Len(line') = Len(line) - 1
      /\ \A d : In(d, line') <=> In(d, line) /\ d # c
  BY TailLine DEF Execute, LockInv
<1>2. \A d \in Clients : pc'[d] = IF d = c THEN "reply" ELSE pc[d]
  BY DEF Execute, Await, Types
<1>3. \A d \in Clients : pc'[d] \in {"lock", "nap"} <=> In(d, line')
  BY <1>1, <1>2 DEF LockInv
<1>4. In(c, line) /\ c \in Waiting
  <2>1. Len(line) \in Nat /\ 1 \in 1..Len(line)
    BY DEF LockInv
  <2>2. In(c, line)
    BY <2>1 DEF In
  <2>3. QED  BY <2>2 DEF LockInv, Waiting
<1>5. Waiting' = Waiting \ {c}
  BY <1>2 DEF Waiting
<1>6. IsFiniteSet(Waiting') /\ Cardinality(Waiting') = Cardinality(Waiting) - 1
  BY <1>4, <1>5, FS_RemoveElement DEF LockInv
<1>7. \A d \in Clients : pc'[d] # "nap"
  BY <1>2 DEF LockInv
<1>8. QED  BY <1>1, <1>3, <1>6, <1>7 DEF LockInv

LEMMA LockStep == IInv /\ [Next]_vars => LockInv'
<1> SUFFICES ASSUME IInv, [Next]_vars PROVE LockInv'
  OBVIOUS
<1> USE DEF Clients
<1>0. Types /\ LockInv /\ ExecutorAssumption
  BY ExecutorAssumption DEF IInv
<1>1. ASSUME NEW c \in Clients, pc[c] \in {"lock", "nap"} PROVE line # <<>>
  BY <1>0, <1>1 DEF LockInv, In
<1>2. ASSUME NEW c \in Clients, Begin(c) PROVE LockInv'
  <2>1. line # <<>> /\ line[1] = c
    BY <1>0, <1>1, <1>2 DEF Begin, LockInv
  <2>2. CASE Sleep(c)
    <3>1. \A d \in Clients : pc'[d] = IF d = c THEN "nap" ELSE pc[d]
      BY <1>0, <2>2 DEF Sleep, Await, Types
    <3>2. pc[c] = "lock" /\ UNCHANGED <<line, since>> /\ nap' = Interval - since'
      BY <1>2, <2>2 DEF Begin, Sleep
    <3>3. Waiting' = Waiting
      BY <3>1, <3>2 DEF Waiting
    <3>4. \A d \in Clients : pc'[d] \in {"lock", "nap"} <=> In(d, line')
      BY <1>0, <3>1, <3>2 DEF LockInv
    <3>5. \A d \in Clients : pc'[d] = "nap" => line'[1] = d /\ nap' = Interval - since'
      BY <1>0, <2>1, <3>1, <3>2 DEF LockInv
    <3>6. QED  BY <1>0, <3>2, <3>3, <3>4, <3>5 DEF LockInv
  <2>3. QED  BY <1>0, <1>2, <2>1, <2>2, LockReleased DEF Begin
<1>3. ASSUME NEW c \in Clients, Wake(c) PROVE LockInv'
  <2>1. line # <<>> /\ line[1] = c
    BY <1>0, <1>1, <1>3 DEF Wake, LockInv
  <2>2. QED  BY <1>0, <1>3, <2>1, LockReleased DEF Wake
<1>4. ASSUME NEW c \in Clients, NEW t \in Texts, Submit(c, t),
             pc[c] \notin {"lock", "nap"}
      PROVE  LockInv'
  <2>1. \A d \in Clients : pc'[d] = IF d = c THEN "lock" ELSE pc[d]
    BY <1>0, <1>4 DEF Submit, Await, Types
  <2>2. ~In(c, line) /\ line' = Append(line, c) /\ UNCHANGED <<nap, since>>
    BY <1>0, <1>4 DEF LockInv, Submit
  <2>3. /\ line' \in Seq(Clients) /\ NoneTwice(line') /\ Len(line') = Len(line) + 1
        /\ line # <<>> => line'[1] = line[1]
        /\ \A d : In(d, line') <=> In(d, line) \/ d = c
    BY <1>0, <2>2, AppendLine DEF LockInv
  <2>4. \A d \in Clients : pc'[d] \in {"lock", "nap"} <=> In(d, line')
    BY <1>0, <2>1, <2>3 DEF LockInv
  <2>5. Waiting' = Waiting \cup {c} /\ c \notin Waiting
    BY <1>4, <2>1 DEF Waiting
  <2>6. IsFiniteSet(Waiting') /\ Cardinality(Waiting') = Cardinality(Waiting) + 1
    BY <1>0, <2>5, FS_AddElement DEF LockInv
  <2>7. \A d \in Clients : pc'[d] = "nap" => line'[1] = d /\ nap' = Interval - since'
    BY <1>0, <1>1, <2>1, <2>2, <2>3 DEF LockInv
  <2>8. QED  BY <1>0, <2>3, <2>4, <2>6, <2>7 DEF LockInv
<1>5. ASSUME NEW c \in Clients, Datagram(c) PROVE LockInv'
  BY <1>4, <1>5 DEF Datagram
<1>6. ASSUME NEW c \in Clients, Replied(c) PROVE LockInv'
  BY <1>0, <1>6, LockAside DEF Replied
<1>7. ASSUME NEW c \in Clients, Connect(c) PROVE LockInv'
  BY <1>0, <1>7, LockAside DEF Connect
<1>8. ASSUME NEW c \in Clients, Request(c) PROVE LockInv'
  <2>1. CASE EndHandler(c)
    BY <1>0, <1>8, <2>1, LockAside DEF Request, EndHandler
  <2>2. QED  BY <1>4, <1>8, <2>1 DEF Request
<1>9. ASSUME NEW c \in Clients, Respond(c) PROVE LockInv'
  <2>1. CASE EndHandler(c)
    BY <1>0, <1>9, <2>1, LockAside DEF Respond, EndHandler
  <2>2. QED  BY <1>0, <1>9, <2>1, LockAside DEF Respond
<1>10. CASE Tick
  <2>1. \A c \in Clients : pc[c] = "nap" => nap' = Interval - since'
    BY <1>0, <1>10 DEF Tick, Types, LockInv, ExecutorAssumption
  <2>2. UNCHANGED <<pc, line>> /\ Waiting' = Waiting
    BY <1>10 DEF Tick, Waiting
  <2>3. QED  BY <1>0, <2>1, <2>2 DEF LockInv
<1>11. CASE UNCHANGED <<pc, line, nap, since>>
  <2>1. Waiting' = Waiting
    BY <1>11 DEF Waiting
  <2>2. QED  BY <1>0, <1>11, <2>1 DEF LockInv
<1>12. QED
  BY <1>2, <1>3, <1>5, <1>6, <1>7, <1>8, <1>9, <1>10, <1>11
     DEF Next, Executes, HangUp, Fly, Sync, LinkChanges, vars

-----------------------------------------------------------------------------
(* The slots.                                                               *)

\* A handler that moves on keeps its slot.
LEMMA SlotKept ==
  ASSUME Types, SlotInv, NEW c \in Clients, NEW l \in Label, Await(c, l),
         c \in Connections => pc[c] # "none" /\ l # "none", active' = active
  PROVE  SlotInv'
<1>1. \A d \in Clients : pc'[d] = IF d = c THEN l ELSE pc[d]
  BY DEF Await, Types
<1>2. Handled' = Handled
  BY <1>1 DEF Handled, Clients
<1>3. QED  BY <1>2 DEF SlotInv, SlotsCounted, Handled

LEMMA SlotStep == IInv /\ [Next]_vars => SlotInv'
<1> SUFFICES ASSUME IInv, [Next]_vars PROVE SlotInv'
  OBVIOUS
<1> USE DEF Clients
<1>0. Types /\ SlotInv
  BY DEF IInv
<1>1. ASSUME NEW c \in Clients, Execute(c), pc[c] # "none" PROVE SlotInv'
  BY <1>0, <1>1, SlotKept DEF Execute, Label, sdk
<1>2. ASSUME NEW c \in Clients, Begin(c) PROVE SlotInv'
  <2>1. CASE Sleep(c)
    BY <1>0, <1>2, <2>1, SlotKept DEF Begin, Sleep, Label, sdk
  <2>2. QED  BY <1>1, <1>2, <2>1 DEF Begin
<1>3. ASSUME NEW c \in Clients, NEW t \in Texts, Submit(c, t),
             c \in Connections => pc[c] # "none"
      PROVE  SlotInv'
  BY <1>0, <1>3, SlotKept DEF Submit, Label, sdk
<1>4. ASSUME NEW c \in Connections, EndHandler(c), pc[c] # "none" PROVE SlotInv'
  <2>1. \A d \in Clients : pc'[d] = IF d = c THEN "none" ELSE pc[d]
    BY <1>0, <1>4 DEF EndHandler, Await, Types
  <2>2. Handled' = Handled \ {c} /\ c \in Handled
    BY <1>4, <2>1 DEF Handled
  <2>3. IsFiniteSet(Handled') /\ Cardinality(Handled') = Cardinality(Handled) - 1
    BY <1>0, <2>2, FS_RemoveElement DEF SlotInv
  <2>4. active' = active - 1
    BY <1>4 DEF EndHandler
  <2>5. QED  BY <1>0, <2>3, <2>4 DEF SlotInv, SlotsCounted, Handled
<1>5. ASSUME NEW c \in Clients, Datagram(c) PROVE SlotInv'
  BY <1>3, <1>5, ExecutorAssumption DEF Datagram, ExecutorAssumption
<1>6. ASSUME NEW c \in Clients, Replied(c) PROVE SlotInv'
  BY <1>0, <1>6, SlotKept, ExecutorAssumption
     DEF Replied, Label, sdk, ExecutorAssumption
<1>7. ASSUME NEW c \in Clients, Connect(c) PROVE SlotInv'
  <2>1. c \in Connections /\ pc[c] = "none" /\ active' = active + 1
    BY <1>7 DEF Connect
  <2>2. \A d \in Clients : pc'[d] = IF d = c THEN "read" ELSE pc[d]
    BY <1>0, <1>7 DEF Connect, Await, Types
  <2>3. Handled' = Handled \cup {c} /\ c \notin Handled
    BY <2>1, <2>2 DEF Handled
  <2>4. IsFiniteSet(Handled') /\ Cardinality(Handled') = Cardinality(Handled) + 1
    BY <1>0, <2>3, FS_AddElement DEF SlotInv
  <2>5. QED  BY <1>0, <2>1, <2>4 DEF SlotInv, SlotsCounted, Handled
<1>8. ASSUME NEW c \in Clients, Request(c) PROVE SlotInv'
  BY <1>3, <1>4, <1>8 DEF Request
<1>9. ASSUME NEW c \in Clients, Respond(c) PROVE SlotInv'
  <2>1. CASE Await(c, "read") /\ UNCHANGED <<cmd, line, nap, since, sdk, vehicle>>
    BY <1>0, <1>9, <2>1, SlotKept DEF Respond, Label, sdk
  <2>2. QED  BY <1>4, <1>9, <2>1 DEF Respond
<1>10. CASE UNCHANGED <<pc, active>>
  BY <1>0, <1>10 DEF SlotInv, SlotsCounted, Handled
<1>11. QED
  BY <1>1, <1>2, <1>5, <1>6, <1>7, <1>8, <1>9, <1>10
     DEF Next, Executes, Wake, HangUp, Tick, Fly, Sync, LinkChanges, vars, sdk

-----------------------------------------------------------------------------
(* The theorems.                                                            *)

LEMMA Initially == Init => IInv
<1> SUFFICES ASSUME Init PROVE IInv
  OBVIOUS
<1> USE ExecutorAssumption DEF Init
<1>1. Types
  <2>1. linked \in BOOLEAN /\ lapsed \in BOOLEAN
    BY Zenon
  <2>2. IsCommand(NoCommand)
    BY DEF NoCommand, IsCommand
  <2>3. DOMAIN cmd = Clients /\ \A c \in Clients : IsCommand(cmd[c])
    BY <2>2
  <2>4. pc \in [Clients -> Label] /\ \A c \in Datagrams : pc[c] # "read"
    BY DEF Label, Clients
  <2>5. /\ nap \in 0..Interval /\ since \in 0..Interval /\ active \in 0..MaxConnections
        /\ hungUp \subseteq Connections /\ alt \in Int /\ goal \in Int
    BY DEF ExecutorAssumption
  <2>6. QED  BY <2>1, <2>3, <2>4, <2>5 DEF Types
<1>2. LockInv
  <2>1. Waiting = {}
    BY DEF Waiting
  <2>2. line \in Seq(Clients) /\ Len(line) = 0
    OBVIOUS
  <2>3. NoneTwice(line) /\ \A d : ~In(d, line)
    BY <2>2 DEF NoneTwice, In
  <2>4. QED  BY <2>1, <2>2, <2>3, FS_EmptySet DEF LockInv
<1>3. SlotInv
  <2>1. Handled = {}
    BY DEF Handled, Clients
  <2>2. QED  BY <2>1, FS_EmptySet DEF SlotInv, SlotsCounted, Handled
<1>4. QED  BY <1>1, <1>2, <1>3 DEF IInv

LEMMA ExecutorInvariant == Spec => []IInv
<1>1. IInv /\ [Next]_vars => IInv'
  BY TypesStep, LockStep, SlotStep DEF IInv
<1>2. QED  BY Initially, <1>1, PTL DEF Spec

\* Every variable has its type, and the queue of the lock is the clients inside
\* execute(), once each (execute).
THEOREM ExecutorTypeCorrect == Spec => []TypeOK
<1>1. IInv => TypeOK
  <2> SUFFICES ASSUME IInv PROVE TypeOK
    OBVIOUS
  <2>1. Types /\ LockInv
    BY DEF IInv
  <2>2. \A i \in 1..Len(line) : line[i] \in Clients
    BY <2>1 DEF LockInv
  <2>3. {line[i] : i \in 1..Len(line)} = Waiting
    BY <2>1, <2>2 DEF LockInv, Waiting, In
  <2>4. QED  BY <2>1, <2>2, <2>3 DEF Types, LockInv, Waiting, TypeOK, Label
<1>2. QED  BY ExecutorInvariant, <1>1, PTL

\* The count of SDK connections is that of their handlers, however each ends
\* (_handle_client and its finally).
THEOREM SlotsCountedAlways == Spec => []SlotsCounted
<1>1. IInv => SlotsCounted
  BY DEF IInv, SlotInv
<1>2. QED  BY ExecutorInvariant, <1>1, PTL

\* The rate limit holds because the sleeper has the lock: whoever executes after
\* a sleep does so an interval after the last command (_execute_locked).
THEOREM RateLimitedAlways == Spec => RateLimited
<1>1. ASSUME IInv, NEW c \in Clients, Executes(c), since' = 0, pc'[c] = "reply", ~Urgent(c)
      PROVE  since = Interval
  <2>1. Types /\ LockInv /\ Interval \in Nat
    BY <1>1, ExecutorAssumption DEF IInv, ExecutorAssumption
  <2>2. CASE Begin(c)
    <3>1. ~Sleep(c)
      BY <1>1, <2>1 DEF Sleep, Await, Types
    <3>2. ~(since < Interval)
      BY <1>1, <2>2, <3>1 DEF Begin
    <3>3. QED  BY <2>1, <3>2 DEF Types
  <2>3. CASE Wake(c)
    <3>1. nap = 0 /\ nap = Interval - since
      BY <2>1, <2>3 DEF Wake, LockInv
    <3>2. QED  BY <2>1, <3>1 DEF Types
  <2>4. QED  BY <1>1, <2>2, <2>3 DEF Executes
<1>2. IInv /\ [Next]_vars =>
        [\A c \in Clients : Executes(c) /\ since' = 0 /\ pc'[c] = "reply" /\ ~Urgent(c)
                            => since = Interval]_vars
  BY <1>1
<1>3. QED  BY ExecutorInvariant, <1>2, PTL DEF Spec, RateLimited
=============================================================================
