--------------------------------- MODULE Parts ---------------------------------
(***************************************************************************)
(* Parts of the agent that share no state, in one run: part says           *)
(* which of them a behaviour exercises, and the others do not move.        *)
(***************************************************************************)
EXTENDS Integers, Sequences, FiniteSets

CONSTANTS
  Script, MaxConcurrent,
  Early, Late, Beat, Needy, Idle,
  Command,
  Client, Nonce, Window, Burst, Cost, MaxNonces, MaxTime,
  OnMavlink, OnState, Retries, MaxUpdates,
  Csi, Usb,
  Wfb, Other, Capable,
  MaxLog, MaxWrites, MaxCodes

\* What the configuration and the defaults of the code make sure of: limits and
\* times are numbers, connect() tries at least once, a camera is attached in one
\* way and there are finitely many.
ASSUME ScriptsAssumption == MaxConcurrent \in Nat
ASSUME GuardsAssumption ==
  /\ Window \in Nat /\ Burst \in Nat /\ Cost \in Nat
  /\ MaxNonces \in Nat /\ MaxTime \in Nat
ASSUME IpcAssumption == Retries \in Nat \ {0} /\ MaxUpdates \in Nat
ASSUME CamerasAssumption == IsFiniteSet(Csi \cup Usb) /\ Csi \cap Usb = {}
ASSUME DiscoveryAssumption == MaxCodes \in Nat
ASSUME FilesAssumption == MaxLog \in Nat /\ MaxWrites \in Nat

VARIABLES
  part,
  script, runner, process, success, held,
  phase, discovery, shutdown, recorded, task, fit, heard,
  services, memory, file, told, registered, waiting, pending, batch,
  now, buckets, nonces, lastPrune, reading, served, allowed,
  server, listening, vehicle, lastState, peer, attempt, connected, stream, inbox, view,
  plugged, cameras, roles, streaming, source,
  configured, inserted, mode, up, step, interface, same,
  inAgent, running, paired, code, expired, codes, zeroconf, record, missed,
  health, writing, tmp, keys, keygen, made, log, old, events

Peer == OnMavlink \cup OnState
On == [c \in Peer |-> IF c \in OnState THEN "state" ELSE "mavlink"]

S == INSTANCE Scripts
A == INSTANCE Agent
C == INSTANCE Cloud
G == INSTANCE Guards
I == INSTANCE Ipc
K == INSTANCE Cameras
W == INSTANCE Adapters
D == INSTANCE Discovery
F == INSTANCE Files

scriptVars == <<script, runner, process, success, held>>
agentVars == <<phase, discovery, shutdown, recorded, task, fit, heard>>
cloudVars == <<services, memory, file, told, registered, waiting, pending, batch>>
guardVars == <<now, buckets, nonces, lastPrune, reading, served, allowed>>
ipcVars == <<server, listening, vehicle, lastState, peer, attempt, connected, stream,
             inbox, view>>
cameraVars == <<plugged, cameras, roles, streaming, source>>
adapterVars == <<configured, inserted, mode, up, step, interface, same>>
discoveryVars == <<inAgent, running, paired, code, expired, codes, zeroconf, record, missed>>
fileVars == <<health, writing, tmp, keys, keygen, made, log, old, events>>
aVars == <<scriptVars, agentVars, cloudVars, guardVars>>
bVars == <<ipcVars, cameraVars, adapterVars, discoveryVars, fileVars>>
vars  == <<part, aVars, bVars>>

Part == {"scripts", "agent", "cloud", "guards", "ipc", "cameras", "adapters",
         "discovery", "health", "keys", "audit"}

\* An agent that is not looked at has exited; pairing that is not looked at is
\* that of the single process; devices that are not looked at are not there.
Init ==
  /\ part \in Part
  /\ S!Init /\ G!Init /\ I!Init /\ F!Init
  /\ IF part = "agent" THEN A!Init
     ELSE /\ phase = "exited" /\ discovery = FALSE /\ shutdown = TRUE
          /\ recorded = [s \in A!Service |-> "none"]
          /\ task = [s \in A!Service |-> "returned"]
          /\ fit = [s \in A!Service |-> TRUE]
          /\ heard = [s \in A!Service |-> "none"]
  /\ C!Init /\ (part # "cloud" => services = C!Agent)
  /\ K!Init /\ (part # "cameras" => plugged = {})
  /\ W!Init
  /\ part # "adapters" =>
       configured = W!None /\ inserted = {} /\ up = [i \in W!Iface |-> FALSE]
  /\ D!Init /\ (part # "discovery" => ~inAgent /\ ~paired)

Next ==
  \/ part = "scripts" /\ S!Next
     /\ UNCHANGED <<part, agentVars, cloudVars, guardVars, bVars>>
  \/ part = "agent" /\ A!Next
     /\ UNCHANGED <<part, scriptVars, cloudVars, guardVars, bVars>>
  \/ part = "cloud" /\ C!Next
     /\ UNCHANGED <<part, scriptVars, agentVars, guardVars, bVars>>
  \/ part = "guards" /\ G!Next
     /\ UNCHANGED <<part, scriptVars, agentVars, cloudVars, bVars>>
  \/ part = "ipc" /\ I!Next
     /\ UNCHANGED <<part, aVars, cameraVars, adapterVars, discoveryVars, fileVars>>
  \/ part = "cameras" /\ K!Next
     /\ UNCHANGED <<part, aVars, ipcVars, adapterVars, discoveryVars, fileVars>>
  \/ part = "adapters" /\ W!Next
     /\ UNCHANGED <<part, aVars, ipcVars, cameraVars, discoveryVars, fileVars>>
  \/ part = "discovery" /\ D!Next
     /\ UNCHANGED <<part, aVars, ipcVars, cameraVars, adapterVars, fileVars>>
  \/ /\ \/ part = "health" /\ F!Health
        \/ part = "keys" /\ F!Keys
        \/ part = "audit" /\ F!Audit
     /\ UNCHANGED <<part, aVars, ipcVars, cameraVars, adapterVars, discoveryVars>>

Spec ==
  /\ Init /\ [][Next]_vars
  /\ S!Fairness /\ A!Fairness /\ C!Fairness /\ I!Fairness /\ W!Fairness
-----------------------------------------------------------------------------
(* Properties: those of the parts, where they are stated and explained.     *)

\* Every variable of every part has its type.
TypeOK ==
  /\ S!TypeOK /\ A!TypeOK /\ C!TypeOK /\ G!TypeOK
  /\ I!TypeOK /\ K!TypeOK /\ W!TypeOK /\ D!TypeOK /\ F!TypeOK

\* What runs: never more scripts than the bound, no task outlives a start() that
\* returns, and a failure of a service is told.
RunsSafe == S!ActiveBounded /\ A!NoneLeftAtExit /\ A!FailuresReported

\* Who may do what: a key that was given works, no request that comes again as it
\* was is served again, and no client gets more than its rate.
AccessSafe == C!KeyHonoured /\ G!NoReplay /\ G!RateBound

\* What others are told: a client without its socket knows, and the network
\* reads the pairing, or the code, that the process at hand knows of.
NetworkSafe == I!NoPretence /\ D!TellsTruth

\* Which device is used: the stream shows a camera that was found, and the radio
\* link starts on an interface that is ready.
DevicesSafe == K!ShowsFound /\ W!LinkReady

\* No crash leaves half a snapshot, no return a mixture of keys, and no rotation
\* a gap in the audit log.
FilesSafe == F!NeverHalf /\ F!KeysPair /\ F!AuditKept

\* What no step does: report a script completed that was stopped.
CancelSticks == [][S!CancelSticks]_vars

\* What runs comes to its end: scripts whose process exited are done, a signal
\* ends the agent, the cloud learns of failures and its commands are acknowledged.
RunsLive == S!ScriptsEnd /\ A!ShutdownExits /\ A!FailureTold /\ C!CommandsAcked

\* The vehicle's state arrives at clients that read it, and the radio link starts
\* when an adapter for it is there.
LinksLive == I!StateArrives /\ W!LinkStarts
=============================================================================
