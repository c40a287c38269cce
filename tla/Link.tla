---------------------------------- MODULE Link ----------------------------------
(***************************************************************************)
(* The flight-controller link: FCConnection reads frames and puts a copy   *)
(* into the queue of every subscriber; the WebSocket, TCP and UDP proxies  *)
(* and the IPC server are subscribers that relay to clients of their own,  *)
(* and the state server publishes what the frames say of the vehicle.  All *)
(* are tasks of one process, which may crash and is restarted.             *)
(*                                                                         *)
(* Frames are numbered as the flight controller sends them.                *)
(***************************************************************************)
EXTENDS Naturals, Sequences, FiniteSets

CONSTANTS
  Client,      \* connections of clients of the proxies and sockets
  Home,        \* which relay each is a client of
  Proxies,     \* the proxies looked at: main() starts one of each, two for UDP
  Capacity,    \* maxsize of a subscriber's queue
  MaxBackoff,  \* seconds, the cap on the reconnect backoff
  MaxFrames    \* bound: frames sent

Queued   == Proxies \cup {"ipc"}
Awaiting == Queued \cap {"ws", "tcp"}  \* relays that await each client in turn
AtOnce   == Queued \ Awaiting          \* relays that only write
Relay    == Queued \cup {"state"}

ASSUME LinkAssumption ==
  /\ Proxies \subseteq {"ws", "tcp", "udp"}
  /\ Home \in [Client -> Relay]
  /\ Capacity \in Nat \ {0} /\ MaxBackoff \in Nat \ {0} /\ MaxFrames \in Nat

VARIABLES
  run,      \* where FCConnection.run() is; it is connected when it reads, or
            \* sleeps connected
  backoff,  \* seconds
  n,        \* the last frame the flight controller sent
  seen,     \* the last frame in VehicleState
  queue,    \* frames waiting at each subscriber
  relay,    \* what each broadcast task is doing: it waits for a frame, it is
            \* in its loop over the clients, or it has died
  cur,      \* the frame each such loop sends; the state last published
  start,    \* the clients there were when the loop began
  visited,  \* those it has come to
  status,   \* a client is "new", "in", "lost" (in, its connection broken) or "gone"
  got       \* the last frame each client was sent

reader  == <<run, backoff, seen>>
tasks   == <<relay, cur, start, visited>>
clients == <<status, got>>
vars    == <<reader, n, queue, tasks, clients>>

Members(p) == {c \in Client : Home[c] = p /\ status[c] \in {"in", "lost"}}

-----------------------------------------------------------------------------
(* FCConnection.                                                            *)

\* Port, baud rate, heartbeat and streams, all without an await.
Connected ==
  /\ run = "connect"
  /\ run' = "read" /\ backoff' = 1
  /\ UNCHANGED <<n, seen, queue, tasks, clients>>

\* No port, no heartbeat in time, or an exception.
ConnectFails ==
  /\ run = "connect"
  /\ run' = "sleep"
  /\ UNCHANGED <<backoff, n, seen, queue, tasks, clients>>

\* The heartbeat came, but asking for the streams raised: it is connected, and
\* backs off nevertheless.
StreamsFail ==
  /\ run = "connect"
  /\ run' = "sleepConnected"
  /\ UNCHANGED <<backoff, n, seen, queue, tasks, clients>>

AfterSleep == IF run = "sleepConnected" THEN "read" ELSE "connect"

Asleep == run \in {"sleep", "sleepConnected"}

\* Slip: no cap on the backoff.
BackoffEndsUncapped ==
  /\ Asleep
  /\ run' = AfterSleep /\ backoff' = backoff * 2
  /\ UNCHANGED <<n, seen, queue, tasks, clients>>

\* Slip: at its cap, run() gives up.
BackoffEndsAtCap ==
  /\ Asleep /\ backoff < MaxBackoff
  /\ run' = AfterSleep /\ backoff' = backoff * 2
  /\ UNCHANGED <<n, seen, queue, tasks, clients>>

BackoffEnds ==
  /\ Asleep
  /\ run' = AfterSleep
  /\ backoff' = IF backoff * 2 < MaxBackoff THEN backoff * 2 ELSE MaxBackoff
  /\ UNCHANGED <<n, seen, queue, tasks, clients>>

\* A task that is dead has unsubscribed.
Subscribed(p) == p \in Awaiting => relay[p] # "dead"

\* Slip: a subscriber takes the newest frame first.
PutInFront(q) == IF Len(q) < Capacity THEN <<n + 1>> \o q ELSE q

\* A frame that finds a queue full is dropped for that subscriber.
Put(q) == IF Len(q) < Capacity THEN Append(q, n + 1) ELSE q

Receive ==
  /\ run = "read" /\ n < MaxFrames
  /\ n' = n + 1 /\ seen' = n + 1
  /\ queue' = [p \in Queued |-> IF Subscribed(p) THEN Put(queue[p]) ELSE queue[p]]
  /\ UNCHANGED <<run, backoff, tasks, clients>>

\* Nobody reads, or the read that took more than five seconds is given up and
\* what it returns later is thrown away.
Lose ==
  /\ n < MaxFrames
  /\ n' = n + 1
  /\ UNCHANGED <<reader, queue, tasks, clients>>

\* An exception of recv_match, or a timeout that finds the port closed.
LinkBreaks ==
  /\ run = "read"
  /\ run' = "connect"
  /\ UNCHANGED <<backoff, n, seen, queue, tasks, clients>>

-----------------------------------------------------------------------------
(* The broadcast tasks.                                                     *)

Dequeue(p) ==
  /\ p \in Awaiting => relay[p] = "get"
  /\ queue[p] # <<>>
  /\ queue' = [queue EXCEPT ![p] = Tail(@)]

\* broadcast() of the UDP protocol and of the IPC server.
BroadcastAtOnce(p) ==
  /\ Dequeue(p)
  /\ got' = [c \in Client |-> IF Home[c] = p /\ status[c] = "in"
                              THEN Head(queue[p]) ELSE got[c]]
  /\ UNCHANGED <<reader, n, tasks, status>>

\* The send to c is under way: the next step comes after its await.
SendTo(p, c, frame) ==
  got' = [got EXCEPT ![c] = IF status[c] = "in" THEN frame ELSE @]

\* Without clients there is nothing to await.
TakeForNobody(p) ==
  /\ Dequeue(p) /\ Members(p) = {}
  /\ UNCHANGED <<reader, n, tasks, clients>>

Take(p, c) ==
  /\ Dequeue(p) /\ c \in Members(p)
  /\ SendTo(p, c, Head(queue[p]))
  /\ relay' = [relay EXCEPT ![p] = "send"]
  /\ cur' = [cur EXCEPT ![p] = Head(queue[p])]
  /\ start' = [start EXCEPT ![p] = Members(p)]
  /\ visited' = [visited EXCEPT ![p] = {c}]
  /\ UNCHANGED <<reader, n, status>>

\* All that Python's set iterator notices of a change.
SameSize(p) == Cardinality(Members(p)) = Cardinality(start[p])

SendNext(p, c) ==
  /\ relay[p] = "send" /\ SameSize(p)
  /\ c \in Members(p) \ visited[p]
  /\ SendTo(p, c, cur[p])
  /\ visited' = [visited EXCEPT ![p] = @ \cup {c}]
  /\ UNCHANGED <<reader, n, queue, relay, cur, start, status>>

LoopOver(p, then) ==
  /\ relay' = [relay EXCEPT ![p] = then]
  /\ start' = [start EXCEPT ![p] = {}] /\ visited' = [visited EXCEPT ![p] = {}]
  /\ cur' = [cur EXCEPT ![p] = 0]

\* The loop has come to all that were there, perhaps to one that came later;
\* the clients whose send failed are dropped.
SendsEnd(p) ==
  /\ relay[p] = "send" /\ SameSize(p)
  /\ start[p] \cap Members(p) \subseteq visited[p]
  /\ LoopOver(p, "get")
  /\ \E dead \in SUBSET {c \in visited[p] : status[c] = "lost"} :
       status' = [c \in Client |-> IF c \in dead THEN "gone" ELSE status[c]]
  /\ UNCHANGED <<reader, n, queue, got>>

\* A client came or went during an await: the iteration raises RuntimeError,
\* the task unsubscribes and ends, and nothing starts it again.
SetChanged(p) ==
  /\ relay[p] = "send" /\ ~SameSize(p)
  /\ LoopOver(p, "dead")
  /\ queue' = [queue EXCEPT ![p] = <<>>]
  /\ UNCHANGED <<reader, n, clients>>

\* The state server's publish() every 100 ms.
Publish ==
  /\ cur' = [cur EXCEPT !["state"] = seen]
  /\ got' = [c \in Client |-> IF Home[c] = "state" /\ status[c] = "in"
                              THEN seen ELSE got[c]]
  /\ UNCHANGED <<reader, n, queue, relay, start, visited, status>>

-----------------------------------------------------------------------------
(* Clients.                                                                 *)

\* A new client of the state server is sent the last published state at once.
Join(c) ==
  /\ status[c] = "new"
  /\ status' = [status EXCEPT ![c] = "in"]
  /\ got' = [got EXCEPT ![c] = IF Home[c] = "state" THEN cur["state"] ELSE @]
  /\ UNCHANGED <<reader, n, queue, tasks>>

Breaks(c) ==
  /\ status[c] = "in"
  /\ status' = [status EXCEPT ![c] = "lost"]
  /\ UNCHANGED <<reader, n, queue, tasks, got>>

\* The client's handler notices.  A UDP client is never forgotten.
Leave(c) ==
  /\ status[c] = "lost" /\ Home[c] # "udp"
  /\ status' = [status EXCEPT ![c] = "gone"]
  /\ UNCHANGED <<reader, n, queue, tasks, got>>

\* The process dies and is started again: main() builds everything anew, and
\* no client of the old one comes back by itself.
Restart ==
  /\ run' = "connect" /\ backoff' = 1
  /\ queue' = [p \in Queued |-> <<>>]
  /\ relay' = [p \in Awaiting |-> "get"]
  /\ start' = [p \in Awaiting |-> {}]
  /\ visited' = [p \in Awaiting |-> {}]
  /\ status' = [c \in Client |-> IF status[c] = "new" THEN "new" ELSE "gone"]
  /\ seen' = 0 /\ cur' = [p \in Awaiting \cup {"state"} |-> 0]
  /\ UNCHANGED <<n, got>>

Init ==
  /\ run = "connect" /\ backoff = 1
  /\ n = 0 /\ seen = 0
  /\ queue = [p \in Queued |-> <<>>]
  /\ relay = [p \in Awaiting |-> "get"]
  /\ cur = [p \in Awaiting \cup {"state"} |-> 0]
  /\ start = [p \in Awaiting |-> {}]
  /\ visited = [p \in Awaiting |-> {}]
  /\ status = [c \in Client |-> "new"]
  /\ got = [c \in Client |-> 0]

Read ==
  Connected \/ ConnectFails \/ StreamsFail \/ BackoffEnds \/ Receive \/ Lose \/ LinkBreaks

BroadcastAwaiting(p) ==
  \/ TakeForNobody(p) \/ SendsEnd(p) \/ SetChanged(p)
  \/ \E c \in Client : Take(p, c) \/ SendNext(p, c)

Next ==
  \/ Read \/ Publish \/ Restart
  \/ \E p \in AtOnce : BroadcastAtOnce(p)
  \/ \E p \in Awaiting : BroadcastAwaiting(p)
  \/ \E c \in Client : Join(c) \/ Breaks(c) \/ Leave(c)

Spec == Init /\ [][Next]_vars

\* The tasks run, sends end, and the vehicle answers now and then.
Fairness ==
  /\ SF_vars(Connected) /\ WF_vars(ConnectFails \/ StreamsFail \/ BackoffEnds)
  /\ \A p \in AtOnce : WF_vars(BroadcastAtOnce(p))
  /\ \A p \in Awaiting : WF_vars(BroadcastAwaiting(p))

FairSpec == Spec /\ Fairness
-----------------------------------------------------------------------------
(* Properties.                                                              *)

\* Every variable has its type; no queue is over its capacity, the backoff
\* never over its cap, and only a task that awaits clients can be in a loop.
TypeOK ==
  /\ run \in {"connect", "sleep", "sleepConnected", "read"}
  /\ backoff \in 1..MaxBackoff
  /\ n \in 0..MaxFrames /\ seen \in 0..n
  /\ queue \in [Queued -> Seq(1..n)] /\ \A p \in Queued : Len(queue[p]) <= Capacity
  /\ relay \in [Awaiting -> {"get", "send", "dead"}]
  /\ cur \in [Awaiting \cup {"state"} -> 0..n]
  /\ start \in [Awaiting -> SUBSET Client] /\ visited \in [Awaiting -> SUBSET Client]
  /\ status \in [Client -> {"new", "in", "lost", "gone"}]
  /\ got \in [Client -> 0..n]

\* Through full queues, clients that come and go, reconnects and restarts, every
\* client gets frames in the order they were sent.
InOrder == INSTANCE Feed WITH sent <- n, last <- got
FeedImplemented == InOrder!Spec

\* A link that is down comes up again while the vehicle answers now and then.
Reconnects == run # "read" ~> run = "read"

\* The relay's "FC bytes -> all connected WS clients": a client that is connected
\* is not left for ever with nobody to send it anything.
ClientsServed ==
  \A c \in {c \in Client : Home[c] \in Awaiting} :
    status[c] = "in" ~> (status[c] # "in" \/ relay[Home[c]] # "dead")
=============================================================================
