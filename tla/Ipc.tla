---------------------------------- MODULE Ipc ----------------------------------
(***************************************************************************)
(* The two Unix sockets of core/ipc over the lives of the processes at     *)
(* their ends: ados-mavlink owns both, other services are their clients.   *)
(* What a client does with its connection is that of services/cloud, the   *)
(* api and scripting: connect with retries, start to read it, which        *)
(* scripting forgets to do on the state socket, and never reconnect.       *)
(* Which frames and snapshots get through is module Link's.                *)
(***************************************************************************)
EXTENDS Naturals

CONSTANTS
  Peer,        \* clients
  On,          \* the socket of each
  Retries,     \* of connect()
  MaxUpdates   \* bound: changes of VehicleState

Socket == {"mavlink", "state"}

VARIABLES
  server,     \* where main() of ados-mavlink is
  listening,  \* sockets it accepts connections on
  vehicle,    \* its VehicleState, told by its updates
  lastState,  \* the last snapshot it published
  peer,       \* where each client's process is; a deaf one does not read, or no more
  attempt,    \* of connect()
  connected,  \* _connected
  stream,     \* the connection of each: "none", "live" or at its end
  inbox,      \* the last snapshot written to it
  view        \* the VehicleState of the client's process

serverVars == <<server, listening, vehicle, lastState>>
peerVars   == <<peer, attempt, connected, stream, inbox, view>>
vars       == <<serverVars, peerVars>>

-----------------------------------------------------------------------------
(* The server process.                                                      *)

\* start() of either server removes the socket file of one that crashed.
StartMavlink ==
  /\ server = "down"
  /\ server' = "opening" /\ listening' = {"mavlink"}
  /\ vehicle' = 0 /\ lastState' = 0
  /\ UNCHANGED peerVars

StartState ==
  /\ server = "opening"
  /\ server' = "up" /\ listening' = Socket
  /\ UNCHANGED <<vehicle, lastState, peerVars>>

Update ==
  /\ server = "up" /\ vehicle < MaxUpdates
  /\ vehicle' = vehicle + 1
  /\ UNCHANGED <<server, listening, lastState, peerVars>>

Subscribed(c) == On[c] = "state" /\ stream[c] = "live"

\* to_dict() reads the whole state between two updates.
Snapshot == vehicle

Publish ==
  /\ server = "up"
  /\ lastState' = Snapshot
  /\ inbox' = [c \in Peer |-> IF Subscribed(c) THEN Snapshot ELSE inbox[c]]
  /\ UNCHANGED <<server, listening, vehicle, peer, attempt, connected, stream, view>>

\* A signal: the tasks are cancelled, and the first server closes its socket.
Stop ==
  /\ server = "up"
  /\ server' = "closeMavlink" /\ listening' = {"state"}
  /\ UNCHANGED <<vehicle, lastState, peerVars>>

Ended(s) == [c \in Peer |-> IF On[c] = s /\ stream[c] = "live" THEN "end" ELSE stream[c]]

\* wait_closed() returns, with Python 3.12 only when no client is left; the
\* writers are closed, and the next socket is.
CloseMavlink ==
  /\ server = "closeMavlink"
  /\ server' = "closeState" /\ listening' = {}
  /\ stream' = Ended("mavlink")
  /\ UNCHANGED <<vehicle, lastState, peer, attempt, connected, inbox, view>>

CloseState ==
  /\ server = "closeState"
  /\ server' = "down"
  /\ stream' = Ended("state")
  /\ UNCHANGED <<listening, vehicle, lastState, peer, attempt, connected, inbox, view>>

\* A crash, or systemd's patience with the stop has ended.
Kill ==
  /\ server # "down"
  /\ server' = "down" /\ listening' = {}
  /\ stream' = [c \in Peer |-> IF stream[c] = "live" THEN "end" ELSE stream[c]]
  /\ UNCHANGED <<vehicle, lastState, peer, attempt, connected, inbox, view>>

-----------------------------------------------------------------------------
(* The client processes.                                                    *)

Moves(c, from, to) == peer[c] = from /\ peer' = [peer EXCEPT ![c] = to]

Begin(c) ==
  /\ Moves(c, "off", "connect")
  /\ attempt' = [attempt EXCEPT ![c] = 0]
  /\ view' = [view EXCEPT ![c] = 0]
  /\ UNCHANGED <<serverVars, connected, stream, inbox>>

\* Clients of the state socket are the services that read it and scripting.
Afterwards(c) == {"ready"} \cup IF On[c] = "state" THEN {"deaf"} ELSE {}

\* A new client of the state server is written the last state, if there is one.
Connect(c) ==
  /\ On[c] \in listening
  /\ \E next \in Afterwards(c) : Moves(c, "connect", next)
  /\ connected' = [connected EXCEPT ![c] = TRUE]
  /\ stream' = [stream EXCEPT ![c] = "live"]
  /\ inbox' = [inbox EXCEPT ![c] = IF On[c] = "state" THEN lastState ELSE 0]
  /\ UNCHANGED <<serverVars, attempt, view>>

Refused(c) ==
  /\ On[c] \notin listening /\ peer[c] = "connect"
  /\ attempt' = [attempt EXCEPT ![c] = @ + 1]

Retry(c) ==
  /\ Refused(c) /\ attempt[c] + 1 < Retries
  /\ UNCHANGED <<serverVars, peer, connected, stream, inbox, view>>

\* ConnectionError: the process goes on without, for as long as it lives.
GiveUp(c) ==
  /\ Refused(c) /\ attempt[c] + 1 >= Retries
  /\ peer' = [peer EXCEPT ![c] = "without"]
  /\ UNCHANGED <<serverVars, connected, stream, inbox, view>>

\* The task of read_loop() is started, as it is connected.
StartReading(c) ==
  /\ Moves(c, "ready", "read")
  /\ UNCHANGED <<serverVars, attempt, connected, stream, inbox, view>>

\* update_from_dict(): what the snapshot says is copied.
Copied(c, snapshot) == view' = [view EXCEPT ![c] = snapshot]

ReadState(c) ==
  /\ peer[c] = "read" /\ On[c] = "state"
  /\ Copied(c, inbox[c])
  /\ UNCHANGED <<serverVars, peer, attempt, connected, stream, inbox>>

\* Slip: the end of the stream is passed over like a line that is no JSON.
ReadEndsConnected(c) ==
  /\ stream[c] = "end"
  /\ Moves(c, "read", "without")
  /\ UNCHANGED <<serverVars, attempt, connected, stream, inbox, view>>

ReadEnds(c) ==
  /\ stream[c] = "end"
  /\ Moves(c, "read", "without")
  /\ connected' = [connected EXCEPT ![c] = FALSE]
  /\ UNCHANGED <<serverVars, attempt, stream, inbox, view>>

\* A frame that is too long ends the loop of MavlinkIPCClient, and the rest is as
\* it was: the client still sends, and will not learn of the connection's end.
Oversized(c) ==
  /\ On[c] = "mavlink"
  /\ Moves(c, "read", "deaf")
  /\ UNCHANGED <<serverVars, attempt, connected, stream, inbox, view>>

\* The server's handler of the connection reads its end and forgets the client.
Forgotten(c) == stream' = [stream EXCEPT ![c] = "none"]

\* A signal, then disconnect(); or a crash.  systemd may start it again.
End(c) ==
  /\ peer[c] # "off"
  /\ peer' = [peer EXCEPT ![c] = "off"]
  /\ connected' = [connected EXCEPT ![c] = FALSE]
  /\ Forgotten(c)
  /\ UNCHANGED <<serverVars, attempt, inbox, view>>

Init ==
  /\ server = "down" /\ listening = {} /\ vehicle = 0 /\ lastState = 0
  /\ peer = [c \in Peer |-> "off"] /\ attempt = [c \in Peer |-> 0]
  /\ connected = [c \in Peer |-> FALSE] /\ stream = [c \in Peer |-> "none"]
  /\ inbox = [c \in Peer |-> 0] /\ view = [c \in Peer |-> 0]

Connects(c) == Connect(c) \/ Retry(c) \/ GiveUp(c)

Next ==
  \/ StartMavlink \/ StartState \/ Update \/ Publish
  \/ Stop \/ CloseMavlink \/ CloseState \/ Kill
  \/ \E c \in Peer :
       \/ Begin(c) \/ Connects(c) \/ StartReading(c) \/ ReadState(c)
       \/ ReadEnds(c) \/ Oversized(c) \/ End(c)

Spec == Init /\ [][Next]_vars

\* The loops publish and read, and what a process has begun it goes on with.
Fairness ==
  /\ WF_vars(Publish)
  /\ \A c \in Peer :
       /\ WF_vars(Connects(c)) /\ WF_vars(StartReading(c))
       /\ WF_vars(ReadState(c)) /\ WF_vars(ReadEnds(c))

FairSpec == Spec /\ Fairness
-----------------------------------------------------------------------------
(* Properties.                                                              *)

TypeOK ==
  /\ server \in {"down", "opening", "up", "closeMavlink", "closeState"}
  /\ listening \subseteq Socket 
  /\ vehicle \in 0..MaxUpdates /\ lastState \in 0..vehicle
  /\ peer \in [Peer -> {"off", "connect", "ready", "read", "deaf", "without"}]
  /\ attempt \in [Peer -> 0..Retries] /\ connected \in [Peer -> BOOLEAN]
  /\ stream \in [Peer -> {"none", "live", "end"}]
  /\ inbox \in [Peer -> 0..MaxUpdates] /\ view \in [Peer -> 0..MaxUpdates]

\* However the processes at both ends come and go, a service that gave up
\* connecting, or has read to the end, does not believe it is connected, and
\* nothing it holds is live.  (One that does not read, or no more, is told nothing
\* and stays connected in its own eyes.)
NoPretence ==
  \A c \in Peer : peer[c] \in {"off", "connect", "without"} =>
                    ~connected[c] /\ stream[c] # "live"

\* A client of the state socket that reads, and whose server and connection stay
\* up, has the vehicle's last state in the end, whatever state it joined at.
StateArrives ==
  \A c \in {c \in Peer : On[c] = "state"} :
    <>[](server = "up" /\ Subscribed(c) /\ peer[c] # "deaf") => <>[](view[c] = vehicle)
=============================================================================
