--------------------------------- MODULE Cloud ---------------------------------
(***************************************************************************)
(* Pairing with a user and the cloud relay.  PairingManager keeps the      *)
(* pairing in memory and writes all of it to one file at each change.  It  *)
(* runs once in the single-process agent, or in each of three services     *)
(* that share the file and never read it again.  The cloud side (Convex)   *)
(* is external: it registers beacons, queues commands and takes            *)
(* acknowledgements.                                                       *)
(***************************************************************************)
EXTENDS Naturals, FiniteSets

CONSTANT Command   \* commands the cloud may have for the agent

VARIABLES
  services,    \* the processes with a PairingManager
  memory,      \* _state of each
  file,        \* pairing.json
  told,        \* the key a claim answered with, until its holder unpairs
  registered,  \* the key of the last beacon that reached the cloud
  waiting,     \* is the cloud process waiting for the answer to it?
  pending,     \* commands the cloud still offers
  batch        \* commands of the poll that are not handled yet

pairing == <<memory, file, told>>
beacon  == <<registered, waiting>>
poll    == <<pending, batch>>
vars    == <<services, pairing, beacon, poll>>

Agent == {"agent"}
Split == {"api", "cloud", "discovery"}

\* The process that serves the routes.
Api == IF services = Agent THEN "agent" ELSE "api"

\* Keys are random: a new one is any that nothing still holds.  0 stands for
\* none, and as the key of a _state for an unpaired one.
Key == 1..7

InUse == {memory[p].key : p \in services} \cup {file.key, told, registered}

NewKey == CHOOSE k \in Key \ InUse : \A j \in Key \ InUse : k <= j

Empty == [key |-> 0, code |-> "none"]

Paired(p) == memory[p].key # 0

-----------------------------------------------------------------------------
(* PairingManager.                                                          *)

\* _save_state, after the change in memory: when it fails the two differ.
Becomes(p, state, saved) ==
  /\ memory' = [memory EXCEPT ![p] = state]
  /\ file' = IF saved THEN state ELSE file

\* get_or_create_code where there is no code, or an expired one.
NewCode(p, saved) ==
  /\ memory[p].code # "fresh"
  /\ Becomes(p, [key |-> 0, code |-> "fresh"], saved)

CodeExpires(p) ==
  /\ memory[p].code = "fresh"
  /\ memory' = [memory EXCEPT ![p].code = "old"]
  /\ UNCHANGED <<services, file, told, beacon, poll>>

\* Slip: get_info() asks for the code without asking whether it is paired.
GetCodePaired(p, saved) ==
  /\ NewCode(p, saved)
  /\ UNCHANGED <<services, told, beacon, poll>>

\* GET /pairing/code and /pairing/info, the refresh of the discovery service, and
\* a beacon that does not reach the cloud.
GetCode(p, saved) ==
  /\ ~Paired(p) /\ (p = "cloud" => ~waiting)
  /\ NewCode(p, saved)
  /\ UNCHANGED <<services, told, beacon, poll>>

\* POST /pairing/claim.  A claim that cannot be saved answers with an error, and
\* nobody has its key.
Claim(saved) ==
  /\ ~Paired(Api)
  /\ Becomes(Api, [key |-> NewKey, code |-> "none"], saved)
  /\ told' = IF saved THEN NewKey ELSE told
  /\ UNCHANGED <<services, beacon, poll>>

\* POST /pairing/unpair, which the middleware lets through to one who has the
\* key.  It saves twice, and when the first save fails creates no code.
Unpair(saved) ==
  /\ Paired(Api) /\ memory[Api].key \in {told, registered}
  /\ LET coded == [Empty EXCEPT !.code = "fresh"] IN
     /\ memory' = [memory EXCEPT ![Api] = IF saved THEN coded ELSE Empty]
     /\ file' \in IF saved THEN {coded, Empty} ELSE {file}
  /\ told' = 0
  /\ UNCHANGED <<services, beacon, poll>>

\* The process ends in any way and its PairingManager is built from the file;
\* a beacon or a poll it was in is lost.
Restart(p) ==
  /\ memory' = [memory EXCEPT ![p] = file]
  /\ waiting' = (waiting /\ p # "cloud")
  /\ batch' = IF p = Api THEN {} ELSE batch
  /\ UNCHANGED <<services, file, told, registered, pending>>

-----------------------------------------------------------------------------
(* The beacons, and the single-process agent's command poll.                 *)

\* The code and a new key reach the cloud; a code that has to be saved first and
\* cannot goes nowhere.
Registers(p, saved) ==
  /\ ~Paired(p)
  /\ IF memory[p].code = "fresh" THEN saved /\ UNCHANGED <<memory, file>>
                                 ELSE NewCode(p, saved)
  /\ registered' = IF saved THEN NewKey ELSE registered
  /\ UNCHANGED <<services, told, poll>>

Beacon(saved) ==
  /\ services = Split /\ ~waiting
  /\ Registers("cloud", saved)
  /\ waiting' = saved

\* The agent keeps no key of its beacon's, and ignores the answer.
AgentBeacon(saved) ==
  /\ services = Agent
  /\ Registers("agent", saved)
  /\ UNCHANGED waiting

\* The answer says the device is claimed: it is claimed with this beacon's key.
BeaconClaims(saved) ==
  /\ waiting /\ waiting' = FALSE
  /\ Becomes("cloud", [key |-> registered, code |-> "none"], saved)
  /\ UNCHANGED <<services, told, registered, poll>>

BeaconEnds ==
  /\ waiting /\ waiting' = FALSE
  /\ UNCHANGED <<services, pairing, registered, poll>>

Order(c) ==
  /\ services = Agent /\ c \notin pending
  /\ pending' = pending \cup {c}
  /\ UNCHANGED <<services, pairing, beacon, batch>>

\* The cloud process polls too, but only logs what it gets.
Poll ==
  /\ services = Agent /\ Paired("agent") /\ batch = {}
  /\ batch' = pending
  /\ UNCHANGED <<services, pairing, beacon, pending>>

\* Slip: what a command raises ends the poll.
AckedAborts(c) ==
  /\ c \in batch
  /\ batch' = {}
  /\ UNCHANGED <<services, pairing, beacon, pending>>

\* The command is carried out, or fails, and is acknowledged either way, with
\* the key of the poll.
Acked(c) ==
  /\ c \in batch
  /\ batch' = batch \ {c} /\ pending' = pending \ {c}
  /\ UNCHANGED <<services, pairing, beacon>>

\* The acknowledgement is lost: the next poll gets the command again.
AckLost(c) ==
  /\ c \in batch
  /\ batch' = batch \ {c}
  /\ UNCHANGED <<services, pairing, beacon, pending>>

Init ==
  /\ services \in {Agent, Split}
  /\ memory = [p \in services |-> Empty]
  /\ file = Empty
  /\ told = 0 /\ registered = 0 /\ waiting = FALSE
  /\ pending = {} /\ batch = {}

Next ==
  \/ \E saved \in BOOLEAN :
       \/ Claim(saved) \/ Unpair(saved)
       \/ Beacon(saved) \/ BeaconClaims(saved) \/ AgentBeacon(saved)
       \/ \E p \in services : GetCode(p, saved)
  \/ \E p \in services : CodeExpires(p) \/ Restart(p)
  \/ BeaconEnds \/ Poll
  \/ \E c \in Command : Order(c) \/ Acked(c) \/ AckLost(c)

Spec == Init /\ [][Next]_vars

\* The loop polls and handles what it gets; requests get through now and then.
Fairness ==
  /\ SF_vars(Poll)
  /\ WF_vars(\E c \in Command : Acked(c) \/ AckLost(c))
  /\ \A c \in Command : SF_vars(Acked(c))

FairSpec == Spec /\ Fairness
-----------------------------------------------------------------------------
(* Properties.                                                              *)

TypeOK ==
  LET State == [key : Key \cup {0}, code : {"none", "fresh", "old"}] IN
  /\ services \in {Agent, Split}
  /\ memory \in [services -> State] /\ file \in State
  /\ told \in Key \cup {0} /\ registered \in Key \cup {0}
  /\ waiting \in BOOLEAN
  /\ pending \subseteq Command /\ batch \subseteq pending

\* In the single-process agent the key a claim was answered with opens the
\* agent, now and after a restart, until its holder unpairs: no expired code, no
\* failed save and no crash takes it away.
KeyHonoured ==
  services = Agent /\ told # 0 => memory["agent"].key = told /\ file.key = told

\* While the agent stays paired, each command the cloud has for it is
\* acknowledged in the end, whatever the commands before it do.
CommandsAcked ==
  \A c \in Command :
    <>[](services = Agent /\ Paired("agent")) => (c \in pending ~> c \notin pending)
=============================================================================
