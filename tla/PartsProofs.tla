----------------------------- MODULE PartsProofs -----------------------------
(* What the parts of the agent that stand alone promise, for any numbers of      *)
(* scripts, services, commands, clients, cameras and adapters and for any limit; *)
(* then that they still do when one behaviour may exercise any of them.          *)
EXTENDS Parts, FiniteSetTheorems, TLAPS

\* An instance has a Cardinality of its own to the provers; it is the library's.
LEMMA SameCardinality ==
  ASSUME NEW X
  PROVE  S!Cardinality(X) = Cardinality(X) /\ K!Cardinality(X) = Cardinality(X)
<1>1. S!Cardinality(X) = Cardinality(X)
  BY DEF S!Cardinality, Cardinality
<1>2. K!Cardinality(X) = Cardinality(X)
  BY DEF K!Cardinality, Cardinality
<1>3. QED  BY <1>1, <1>2

-----------------------------------------------------------------------------
(* Scripts.                                                                 *)

Active == {s \in Script : script[s] \in {"queued", "running"}}

(* A script waits for its task exactly while it is queued, and a cancelled one  *)
(* has a task that reads or is done: that is why Begin cannot revive it and why *)
(* only a start adds to the active ones.                                        *)
ScriptsInv ==
  /\ S!TypeOK /\ IsFiniteSet(Active) /\ Cardinality(Active) <= MaxConcurrent
  /\ \A s \in Script :
       /\ runner[s] = "begin" => script[s] = "queued"
       /\ runner[s] = "spawn" => script[s] = "running"
       /\ script[s] = "cancelled" => runner[s] \in {"read", "done"}
       /\ runner[s] = "read" => script[s] \in {"running", "cancelled"}

LEMMA ScriptsInit == S!Init => ScriptsInv
<1> SUFFICES ASSUME S!Init PROVE ScriptsInv
  OBVIOUS
<1>1. Active = {}
  BY DEF S!Init, Active
<1>2. QED
  BY <1>1, FS_EmptySet, ScriptsAssumption DEF S!Init, S!TypeOK, ScriptsInv

\* Steps that make no script active keep the bound.
LEMMA ActiveShrinks ==
  ASSUME ScriptsInv, Active' \subseteq Active
  PROVE  IsFiniteSet(Active') /\ Cardinality(Active') <= MaxConcurrent
<1>1. IsFiniteSet(Active') /\ Cardinality(Active') <= Cardinality(Active)
  BY FS_Subset DEF ScriptsInv
<1>2. Cardinality(Active) \in Nat /\ Cardinality(Active') \in Nat
  BY <1>1, FS_CardinalityType DEF ScriptsInv
<1>3. QED  BY <1>1, <1>2, ScriptsAssumption DEF ScriptsInv

LEMMA ScriptsStep == ASSUME ScriptsInv, [S!Next]_scriptVars PROVE ScriptsInv'
<1>1. ASSUME NEW s \in Script, S!StartScript(s) PROVE ScriptsInv'
  <2>1. Active' = Active \cup {s} /\ Cardinality(Active) < MaxConcurrent
    BY <1>1, SameCardinality
       DEF ScriptsInv, S!TypeOK, S!StartScript, S!ActiveCount, Active
  <2>2. /\ IsFiniteSet(Active') /\ Cardinality(Active) \in Nat
        /\ Cardinality(Active') <= Cardinality(Active) + 1
    <3>1. IsFiniteSet(Active) /\ Cardinality(Active) \in Nat
      BY FS_CardinalityType DEF ScriptsInv
    <3>2. QED  BY <2>1, <3>1, FS_AddElement
  <2>3. IsFiniteSet(Active') /\ Cardinality(Active') <= MaxConcurrent
    <3>1. Cardinality(Active') \in Nat
      BY <2>2, FS_CardinalityType
    <3>2. QED  BY <2>1, <2>2, <3>1, ScriptsAssumption
  <2>4. QED  BY <1>1, <2>3 DEF ScriptsInv, S!TypeOK, S!StartScript
<1>2. ASSUME NEW s \in Script, S!StopScript(s) PROVE ScriptsInv'
  <2>1. Active' \subseteq Active
    BY <1>2 DEF ScriptsInv, S!TypeOK, Active, S!StopScript
  <2>2. IsFiniteSet(Active') /\ Cardinality(Active') <= MaxConcurrent
    BY <2>1, ActiveShrinks
  <2>3. QED  BY <1>2, <2>2 DEF ScriptsInv, S!TypeOK, S!StopScript
<1>3. ASSUME NEW s \in Script, S!Exit(s) PROVE ScriptsInv'
  <2>1. Active' \subseteq Active
    BY <1>3 DEF ScriptsInv, S!TypeOK, Active, S!Exit
  <2>2. IsFiniteSet(Active') /\ Cardinality(Active') <= MaxConcurrent
    BY <2>1, ActiveShrinks
  <2>3. QED  BY <1>3, <2>2 DEF ScriptsInv, S!TypeOK, S!Exit
<1>4. ASSUME NEW s \in Script, S!ChildrenEnd(s) PROVE ScriptsInv'
  <2>1. Active' \subseteq Active
    BY <1>4 DEF ScriptsInv, S!TypeOK, Active, S!ChildrenEnd
  <2>2. IsFiniteSet(Active') /\ Cardinality(Active') <= MaxConcurrent
    BY <2>1, ActiveShrinks
  <2>3. QED  BY <1>4, <2>2 DEF ScriptsInv, S!TypeOK, S!ChildrenEnd
<1>5. ASSUME NEW s \in Script, S!OutputBreaks(s) \/ S!SpawnFails(s) PROVE ScriptsInv'
  <2>1. Active' \subseteq Active
    BY <1>5 DEF ScriptsInv, S!TypeOK, Active, S!OutputBreaks, S!SpawnFails, S!Raises
  <2>2. IsFiniteSet(Active') /\ Cardinality(Active') <= MaxConcurrent
    BY <2>1, ActiveShrinks
  <2>3. QED  BY <1>5, <2>2 DEF ScriptsInv, S!TypeOK, S!OutputBreaks, S!SpawnFails, S!Raises
<1>6. ASSUME NEW s \in Script, S!Begin(s) PROVE ScriptsInv'
  <2>1. Active' \subseteq Active
    BY <1>6 DEF ScriptsInv, S!TypeOK, Active, S!Begin
  <2>2. IsFiniteSet(Active') /\ Cardinality(Active') <= MaxConcurrent
    BY <2>1, ActiveShrinks
  <2>3. QED  BY <1>6, <2>2 DEF ScriptsInv, S!TypeOK, S!Begin
<1>7. ASSUME NEW s \in Script, S!Spawned(s) PROVE ScriptsInv'
  <2>1. Active' \subseteq Active
    BY <1>7 DEF ScriptsInv, S!TypeOK, Active, S!Spawned
  <2>2. IsFiniteSet(Active') /\ Cardinality(Active') <= MaxConcurrent
    BY <2>1, ActiveShrinks
  <2>3. QED  BY <1>7, <2>2 DEF ScriptsInv, S!TypeOK, S!Spawned
<1>8. ASSUME NEW s \in Script, S!Finish(s) PROVE ScriptsInv'
  <2>1. Active' \subseteq Active
    BY <1>8 DEF ScriptsInv, S!TypeOK, Active, S!Over, S!Finish
  <2>2. IsFiniteSet(Active') /\ Cardinality(Active') <= MaxConcurrent
    BY <2>1, ActiveShrinks
  <2>3. QED  BY <1>8, <2>2 DEF ScriptsInv, S!TypeOK, S!Over, S!Finish
<1>9. ASSUME NEW s \in Script, S!Reaped(s) PROVE ScriptsInv'
  <2>1. Active' \subseteq Active
    BY <1>9 DEF ScriptsInv, S!TypeOK, Active, S!Reaped
  <2>2. IsFiniteSet(Active') /\ Cardinality(Active') <= MaxConcurrent
    BY <2>1, ActiveShrinks
  <2>3. QED  BY <1>9, <2>2 DEF ScriptsInv, S!TypeOK, S!Reaped
<1>10. CASE UNCHANGED scriptVars
  BY <1>10 DEF scriptVars, ScriptsInv, S!TypeOK, Active
<1>11. QED
  BY <1>1, <1>2, <1>3, <1>4, <1>5, <1>6, <1>7, <1>8, <1>9, <1>10
     DEF S!Next, S!Requested, S!Runs

LEMMA CancelStep == ScriptsInv /\ [S!Next]_scriptVars => S!CancelSticks
<1> SUFFICES ASSUME ScriptsInv, [S!Next]_scriptVars PROVE S!CancelSticks
  OBVIOUS
<1>1. CASE UNCHANGED scriptVars
  BY <1>1 DEF scriptVars, S!CancelSticks
<1>2. CASE S!Next
  BY <1>2 DEF S!Next, S!CancelSticks, ScriptsInv, S!TypeOK, S!Requested, S!StartScript,
              S!StopScript, S!Exit, S!ChildrenEnd, S!Runs, S!Begin, S!Spawned, S!SpawnFails, S!OutputBreaks, S!Raises,
                S!Over, S!Finish, S!Reaped
<1>3. QED  BY <1>1, <1>2

\* Scripts queued or running are never more than the configured limit, for any limit
\* and however many are started (start_script).
THEOREM ScriptsBounded == S!Spec => [](S!TypeOK /\ S!ActiveBounded)
<1>1. ScriptsInv => S!TypeOK /\ S!ActiveBounded
  BY SameCardinality DEF ScriptsInv, S!ActiveBounded, S!ActiveCount, Active
<1>2. ScriptsInv /\ [S!Next]_S!vars => ScriptsInv'
  BY ScriptsStep DEF S!vars, scriptVars
<1>3. QED  BY ScriptsInit, <1>1, <1>2, PTL DEF S!Spec

-----------------------------------------------------------------------------
(* The agent application.                                                   *)

(* A task that runs is recorded running; until _stop records every service       *)
(* stopped, exactly those that raised are recorded failed.  Only services that   *)
(* can lack something do.                                                        *)
AgentInv ==
  /\ A!TypeOK /\ A!NoneLeftAtExit
  /\ \A s \in A!Service :
       /\ task[s] = "live" => recorded[s] = "running"
       /\ task[s] = "ending" => phase = "gather"
       /\ phase \notin {"gather", "exited"} => (recorded[s] = "failed" <=> task[s] = "raised")
       /\ ~fit[s] => s \in Needy \cup Idle

\* An agent that has not begun, or one that is not looked at.
AgentGone ==
  /\ phase = "exited" /\ discovery = FALSE /\ shutdown = TRUE
  /\ recorded = [s \in A!Service |-> "none"]
  /\ task = [s \in A!Service |-> "returned"]
  /\ fit = [s \in A!Service |-> TRUE]
  /\ heard = [s \in A!Service |-> "none"]

LEMMA AgentInit == A!Init \/ AgentGone => AgentInv
<1>1. ASSUME A!Init PROVE AgentInv
  BY <1>1 DEF A!Init, AgentInv, A!TypeOK, A!NoneLeftAtExit
<1>2. ASSUME AgentGone PROVE AgentInv
  BY <1>2 DEF AgentGone, AgentInv, A!TypeOK, A!NoneLeftAtExit, A!Ended
<1>3. QED  BY <1>1, <1>2

LEMMA AgentStep == ASSUME AgentInv, [A!Next]_agentVars PROVE AgentInv'
<1> USE DEF AgentInv, A!TypeOK, A!NoneLeftAtExit, A!Ended
<1>1. CASE A!Start \/ A!StartRaises
  BY <1>1 DEF A!Start, A!StartRaises, A!StartEarly, A!StartAll
<1>2. CASE A!Registered
  BY <1>2 DEF A!Registered, A!StartAll
<1>3. CASE A!CancelAll
  BY <1>3 DEF A!CancelAll
<1>4. CASE A!Unregister \/ A!Exit \/ A!Signal \/ A!Crash
  BY <1>4 DEF A!Unregister, A!Exit, A!Signal, A!Crash
<1>5. CASE A!Heartbeat
  BY <1>5 DEF A!Heartbeat, A!Reported, A!Condition, A!lifecycle
<1>6. ASSUME NEW s \in A!Service, A!FitChanges(s) PROVE AgentInv'
  BY <1>6 DEF A!FitChanges, A!lifecycle
<1>7. ASSUME NEW s \in A!Service, A!Runs(s) \/ A!Return(s) \/ A!Raise(s) PROVE AgentInv'
  BY <1>7 DEF A!Runs, A!Begin, A!CancelEnds, A!Return, A!Raise, A!Become
<1>8. CASE UNCHANGED agentVars
  BY <1>8 DEF agentVars
<1>9. QED  BY <1>1, <1>2, <1>3, <1>4, <1>5, <1>6, <1>7, <1>8 DEF A!Next, A!Main

LEMMA AgentSays == AgentInv => A!FailuresReported
<1> SUFFICES ASSUME AgentInv, phase \notin {"gather", "exited"},
                    NEW s \in A!Service, NEW said \in {A!Reported(s), A!Listed(s)}
             PROVE  /\ said = "failed" <=> task[s] = "raised"
                    /\ task[s] = "live" /\ said = "stopped" => s \in Idle /\ ~fit[s]
  BY DEF A!FailuresReported
<1>1. QED  BY DEF AgentInv, A!Reported, A!Listed, A!Condition, A!Ended

\* No service outlives a start() that returns, and until then failures, and only
\* they, are reported as such, however many services there are and in whatever
\* batch (_start_service, _stop, _svc_state, _infer_service_state).
THEOREM AgentEndsClean == A!Spec => [](A!TypeOK /\ A!NoneLeftAtExit /\ A!FailuresReported)
<1>1. AgentInv => A!TypeOK /\ A!NoneLeftAtExit /\ A!FailuresReported
  BY AgentSays DEF AgentInv
<1>2. AgentInv /\ [A!Next]_A!vars => AgentInv'
  BY AgentStep DEF A!vars, A!lifecycle, agentVars
<1>3. A!Init => AgentInv
  BY AgentInit
<1>4. QED  BY <1>1, <1>2, <1>3, PTL DEF A!Spec

-----------------------------------------------------------------------------
(* Pairing and the cloud relay.                                             *)

CloudInv ==
  /\ C!TypeOK /\ C!KeyHonoured
  /\ services = C!Agent => ~waiting

(* Seven keys are more than the processes, the file, the cloud and the owner can *)
(* hold at a time.                                                               *)
LEMMA NewKeyIsKey == ASSUME C!TypeOK PROVE C!NewKey \in C!Key /\ C!NewKey # 0
<1>1. PICK a, b, c, d, e, f : C!InUse \subseteq {a, b, c, d, e, f}
  <2>1. CASE services = C!Agent
    <3>1. C!InUse \subseteq {memory["agent"].key, file.key, told, registered, 0, 0}
      BY <2>1 DEF C!InUse, C!Agent
    <3>2. QED  BY <3>1
  <2>2. CASE services = C!Split
    <3>1. C!InUse \subseteq {memory["api"].key, memory["cloud"].key, memory["discovery"].key,
                             file.key, told, registered}
      BY <2>2 DEF C!InUse, C!Split
    <3>2. QED  BY <3>1
  <2>3. QED  BY <2>1, <2>2 DEF C!TypeOK
<1> DEFINE free == C!Key \ C!InUse
<1>2. \E k \in 1..7 : k \notin {a, b, c, d, e, f}
  OBVIOUS
<1>3. free # {} /\ free \subseteq 1..7
  BY <1>1, <1>2 DEF C!Key
<1> HIDE DEF free
<1>4. \E k \in free : \A j \in free : k <= j
  <2> SUFFICES ASSUME \A k \in free : \E j \in free : ~(k <= j) PROVE FALSE
    OBVIOUS
  <2>1. \A k \in free : \E j \in free : j < k
    BY <1>3
  <2>2. 1 \notin free /\ 2 \notin free
    BY <1>3, <2>1
  <2>3. 3 \notin free /\ 4 \notin free
    <3>1. 3 \notin free  BY <1>3, <2>1, <2>2
    <3>2. QED  BY <1>3, <2>1, <2>2, <3>1
  <2>4. 5 \notin free /\ 6 \notin free
    <3>1. 5 \notin free  BY <1>3, <2>1, <2>2, <2>3
    <3>2. QED  BY <1>3, <2>1, <2>2, <2>3, <3>1
  <2>5. 7 \notin free
    BY <1>3, <2>1, <2>2, <2>3, <2>4
  <2>6. PICK k \in 1..7 : k \in free
    BY <1>3
  <2>7. QED  BY <2>2, <2>3, <2>4, <2>5, <2>6
<1>5. C!NewKey = CHOOSE k \in free : \A j \in free : k <= j
  BY DEF C!NewKey, free
<1>6. C!NewKey \in free
  BY <1>4, <1>5
<1>7. QED  BY <1>3, <1>6 DEF C!Key

LEMMA CloudInit == C!Init => CloudInv
<1> SUFFICES ASSUME C!Init PROVE CloudInv
  OBVIOUS
<1>1. memory \in [services -> [key : C!Key \cup {0}, code : {"none", "fresh", "old"}]]
  BY DEF C!Init, C!Empty
<1>2. QED  BY <1>1 DEF C!Init, C!Empty, CloudInv, C!TypeOK, C!KeyHonoured

LEMMA CloudStep == ASSUME CloudInv, [C!Next]_cloudVars PROVE CloudInv'
<1> DEFINE State == [key : C!Key \cup {0}, code : {"none", "fresh", "old"}]
<1> USE DEF CloudInv, C!TypeOK, C!KeyHonoured
<1>k. C!NewKey \in C!Key /\ C!NewKey # 0
  BY NewKeyIsKey
<1>p. /\ C!Api \in services /\ (services = C!Agent => C!Api = "agent")
      /\ "agent" \in services <=> services = C!Agent
      /\ "cloud" \in services <=> services = C!Split
  BY DEF C!Api, C!Agent, C!Split
<1>1. ASSUME NEW saved \in BOOLEAN, NEW p \in services, C!GetCode(p, saved) PROVE CloudInv'
  BY <1>1, <1>p DEF C!GetCode, C!NewCode, C!Becomes, C!Paired, C!beacon, C!poll, C!Agent
<1>2. ASSUME NEW saved \in BOOLEAN, C!Claim(saved) PROVE CloudInv'
  BY <1>2, <1>k, <1>p DEF C!Claim, C!Becomes, C!Paired, C!beacon, C!poll
<1>3. ASSUME NEW saved \in BOOLEAN, C!Unpair(saved) PROVE CloudInv'
  BY <1>3, <1>p DEF C!Unpair, C!Paired, C!Empty, C!beacon, C!poll
<1>4. ASSUME NEW saved \in BOOLEAN, C!Beacon(saved) PROVE CloudInv'
  <2>1. /\ services = C!Split /\ "cloud" \in services /\ services # C!Agent
        /\ UNCHANGED <<services, told, pending, batch>> /\ waiting' \in BOOLEAN
        /\ registered' \in C!Key \cup {0}
    BY <1>4, <1>k DEF C!Beacon, C!Registers, C!Split, C!Agent, C!poll
  <2>2. memory' \in [services -> State] /\ file' \in State
    BY <1>4, <2>1 DEF C!Beacon, C!Registers, C!NewCode, C!Becomes
  <2>3. QED  BY <2>1, <2>2
<1>5. ASSUME NEW saved \in BOOLEAN, C!AgentBeacon(saved) PROVE CloudInv'
  BY <1>5, <1>k, <1>p
     DEF C!AgentBeacon, C!Registers, C!NewCode, C!Becomes, C!Paired, C!poll
<1>6. ASSUME NEW saved \in BOOLEAN, C!BeaconClaims(saved) PROVE CloudInv'
  BY <1>6, <1>p DEF C!BeaconClaims, C!Becomes, C!poll
<1>7. ASSUME NEW p \in services, C!CodeExpires(p) PROVE CloudInv'
  BY <1>7, <1>p DEF C!CodeExpires, C!beacon, C!poll
<1>8. ASSUME NEW p \in services, C!Restart(p) PROVE CloudInv'
  BY <1>8, <1>p DEF C!Restart, C!Agent
<1>9. ASSUME NEW c \in Command, C!Order(c) \/ C!Acked(c) \/ C!AckLost(c) PROVE CloudInv'
  BY <1>9 DEF C!Order, C!Acked, C!AckLost, C!pairing, C!beacon
<1>10. CASE C!BeaconEnds
  BY <1>10 DEF C!BeaconEnds, C!pairing, C!poll
<1>11. CASE C!Poll
  BY <1>11 DEF C!Poll, C!pairing, C!beacon
<1>12. CASE UNCHANGED cloudVars
  BY <1>12 DEF cloudVars
<1>13. QED
  BY <1>1, <1>2, <1>3, <1>4, <1>5, <1>6, <1>7, <1>8, <1>9, <1>10, <1>11, <1>12
     DEF C!Next

\* The key a claim was answered with opens the single-process agent until its holder
\* unpairs, for any commands and through expired codes, failed saves and restarts
\* (PairingManager.claim, _save_state).
THEOREM KeyAlwaysHonoured == C!Spec => [](C!TypeOK /\ C!KeyHonoured)
<1>1. CloudInv => C!TypeOK /\ C!KeyHonoured
  BY DEF CloudInv
<1>2. CloudInv /\ [C!Next]_C!vars => CloudInv'
  BY CloudStep DEF C!vars, C!pairing, C!beacon, C!poll, cloudVars
<1>3. QED  BY CloudInit, <1>1, <1>2, PTL DEF C!Spec

-----------------------------------------------------------------------------
(* The request guards.                                                      *)

(* A request that is past the detector keeps its nonce stored, or its timestamp *)
(* has left the window for good.                                                *)
Spent(ts, nonce) ==
  \/ nonce \in DOMAIN nonces /\ nonces[nonce] = ts
  \/ ts < now - Window

ReplayInv ==
  \A ts \in G!Time, nonce \in Nonce :
    LET r == <<ts, nonce>>
    IN /\ served[r] <= 1 /\ (r \in reading => served[r] = 0)
       /\ r \in reading \/ served[r] > 0 => Spent(ts, nonce)

(* What a client has been let through since its i-th request, with what its     *)
(* bucket still holds, is a burst and what the rate has added since.            *)
Times(k) == k * Cost

Drawn(c, i) == Times(Len(allowed[c]) - i + 1)

RateInv ==
  \A c \in Client : \A i \in DOMAIN allowed[c] :
    /\ c \in DOMAIN buckets /\ allowed[c][i] <= buckets[c].at
    /\ Drawn(c, i) + buckets[c].tokens <= Burst * Cost + (buckets[c].at - allowed[c][i])

GuardsInv == G!TypeOK /\ ReplayInv /\ RateInv /\ G!RateBound

\* The product is seen only here: everywhere else the arithmetic is linear.

LEMMA FullBucket == Burst * Cost \in Nat
BY GuardsAssumption, SMT 

LEMMA Multiples ==
  /\ \A k \in Int : Times(k) \in Int /\ Times(k + 1) = Times(k) + Cost
         /\ Times(1) = Cost
<1>1. \A k \in Int : Times(k) \in Int /\ Times(k + 1) = Times(k) + Cost
  BY GuardsAssumption, SMT DEF Times
<1>2. QED  BY GuardsAssumption, <1>1 DEF Times

LEMMA GuardsBound ==
  G!RateBound <=>
    \A c \in Client : \A i, j \in DOMAIN allowed[c] :
      i <= j => Times(j - i + 1) <= Burst * Cost + (allowed[c][j] - allowed[c][i])
BY DEF G!RateBound, Times

-----------------------------------------------------------------------------
(* The bucket.                                                              *)

\* What a bucket holds, and that it has grown by no more than the time passed.
LEMMA TokensBound ==
  ASSUME G!TypeOK, NEW c \in Client
  PROVE  /\ G!Tokens(c) \in 0..Burst * Cost
         /\ c \in DOMAIN buckets =>
              G!Tokens(c) <= buckets[c].tokens + (now - buckets[c].at)
<1> DEFINE full == Burst * Cost
<1>1. full \in Nat /\ now \in Nat
  BY GuardsAssumption, FullBucket DEF G!TypeOK, G!Time
<1> HIDE DEF full
<1>2. CASE c \in DOMAIN buckets
  <2>1. buckets[c].tokens \in 0..full /\ buckets[c].at \in 0..now
    BY <1>2 DEF G!TypeOK, full
  <2>2. G!Tokens(c) = IF full <= buckets[c].tokens + (now - buckets[c].at)
                    THEN full ELSE buckets[c].tokens + (now - buckets[c].at)
    BY <1>2 DEF G!Tokens, G!Refilled, G!Lesser, full
  <2>3. /\ G!Tokens(c) \in 0..full
        /\ G!Tokens(c) <= buckets[c].tokens + (now - buckets[c].at)
    BY <1>1, <2>1, <2>2
  <2>4. QED  BY <2>3 DEF full
<1>3. CASE c \notin DOMAIN buckets
  <2>1. G!Tokens(c) = full
    BY <1>3 DEF G!Tokens, full
  <2>2. QED  BY <1>1, <1>3, <2>1 DEF full
<1>4. QED  BY <1>2, <1>3

LEMMA BucketKept ==
  ASSUME G!TypeOK, NEW c \in Client, NEW tokens \in 0..Burst * Cost,
         G!Keep(c, tokens), now' = now
  PROVE  /\ DOMAIN buckets' = DOMAIN buckets \cup {c}
         /\ buckets'[c].tokens = tokens /\ buckets'[c].at = now
         /\ \A x \in DOMAIN buckets : x # c => buckets'[x] = buckets[x]
         /\ DOMAIN buckets' \subseteq Client
         /\ \A x \in DOMAIN buckets' :
              buckets'[x].tokens \in 0..Burst * Cost /\ buckets'[x].at \in 0..now'
<1> DEFINE full == Burst * Cost
<1>1. /\ DOMAIN buckets' = DOMAIN buckets \cup {c}
      /\ buckets'[c] = [tokens |-> tokens, at |-> now]
      /\ \A x \in DOMAIN buckets : x # c => buckets'[x] = buckets[x]
  BY DEF G!Keep
<1>2. now \in 0..now
  BY GuardsAssumption DEF G!TypeOK, G!Time
<1>3. DOMAIN buckets \subseteq Client
      /\ \A x \in DOMAIN buckets : buckets[x].tokens \in 0..full /\ buckets[x].at \in 0..now
  BY DEF G!TypeOK
<1>4. tokens \in 0..full
  OBVIOUS
<1> HIDE DEF full
<1>5. \A x \in DOMAIN buckets' : buckets'[x].tokens \in 0..full /\ buckets'[x].at \in 0..now'
  BY <1>1, <1>2, <1>3, <1>4
<1>6. QED  BY <1>1, <1>3, <1>5 DEF full

\* A request that is let through draws its cost, and one tick more never pays more.
LEMMA AdmitStep ==
  ASSUME GuardsInv, NEW c \in Client, G!Admit(c), now' = now
  PROVE  /\ DOMAIN buckets' \subseteq Client
         /\ \A x \in DOMAIN buckets' :
              buckets'[x].tokens \in 0..Burst * Cost /\ buckets'[x].at \in 0..now'
         /\ allowed' \in [Client -> Seq(G!Time)]
         /\ RateInv' /\ G!RateBound'
<1> DEFINE full == Burst * Cost
           n == Len(allowed[c])
           tokens == G!Tokens(c) - Cost
<1>1. /\ Cost \in Nat /\ full \in Nat /\ now \in G!Time /\ now \in Nat
      /\ G!Tokens(c) \in 0..full /\ G!Tokens(c) >= Cost
      /\ allowed \in [Client -> Seq(G!Time)]
  BY GuardsAssumption, FullBucket, TokensBound DEF GuardsInv, G!TypeOK, G!Time, G!Admit, G!HasToken
<1>2. tokens \in 0..full
  <2> HIDE DEF full
  <2>1. QED  BY <1>1
<1>3. /\ DOMAIN buckets' = DOMAIN buckets \cup {c}
      /\ buckets'[c].tokens = tokens /\ buckets'[c].at = now
      /\ \A x \in DOMAIN buckets : x # c => buckets'[x] = buckets[x]
      /\ DOMAIN buckets' \subseteq Client
      /\ \A x \in DOMAIN buckets' :
           buckets'[x].tokens \in 0..full /\ buckets'[x].at \in 0..now'
  BY <1>2, BucketKept DEF GuardsInv, G!Admit
<1>4. allowed' = [allowed EXCEPT ![c] = Append(allowed[c], now)]
  BY DEF G!Admit
<1>5. /\ allowed' \in [Client -> Seq(G!Time)]
      /\ \A d \in Client : d # c => allowed'[d] = allowed[d]
      /\ n \in Nat /\ Len(allowed'[c]) = n + 1 /\ DOMAIN allowed'[c] = 1..(n + 1)
      /\ DOMAIN allowed[c] = 1..n /\ allowed'[c][n + 1] = now
      /\ \A i \in 1..n : allowed'[c][i] = allowed[c][i] /\ allowed[c][i] \in Nat
  <2>1. /\ allowed[c] \in Seq(G!Time) /\ n \in Nat /\ DOMAIN allowed[c] = 1..n
        /\ \A i \in 1..n : allowed[c][i] \in G!Time
    BY <1>1
  <2>2. /\ Append(allowed[c], now) \in Seq(G!Time) /\ Len(Append(allowed[c], now)) = n + 1
        /\ DOMAIN Append(allowed[c], now) = 1..(n + 1)
        /\ Append(allowed[c], now)[n + 1] = now
        /\ \A i \in 1..n : Append(allowed[c], now)[i] = allowed[c][i]
    BY <1>1, <2>1
  <2>3. /\ allowed'[c] = Append(allowed[c], now)
        /\ \A d \in Client : d # c => allowed'[d] = allowed[d]
    BY <1>1, <1>4
  <2>4. allowed' \in [Client -> Seq(G!Time)]
    <3> HIDE DEF n
    <3>1. QED  BY <1>1, <1>4, <2>2
  <2>5. \A i \in 1..n : allowed[c][i] \in Nat
    BY <2>1 DEF G!Time
  <2>6. QED  BY <2>1, <2>2, <2>3, <2>4, <2>5
<1> HIDE DEF full, n, tokens
<1>6. \A i \in 1..(n + 1) :
        /\ allowed'[c][i] <= now /\ allowed'[c][i] \in Nat
        /\ Times(n + 1 - i + 1) + tokens <= full + (now - allowed'[c][i])
  <2>1. ASSUME NEW i \in 1..n
        PROVE  /\ allowed'[c][i] <= now /\ allowed'[c][i] \in Nat
               /\ Times(n + 1 - i + 1) + tokens <= full + (now - allowed'[c][i])
    <3>1. /\ c \in DOMAIN buckets /\ allowed[c][i] <= buckets[c].at
          /\ Times(n - i + 1) + buckets[c].tokens <= full + (buckets[c].at - allowed[c][i])
      BY <1>5 DEF GuardsInv, RateInv, Drawn, n, full
    <3>2. G!Tokens(c) <= buckets[c].tokens + (now - buckets[c].at)
          /\ buckets[c].tokens \in Nat /\ buckets[c].at \in 0..now
      <4>1. buckets[c].tokens \in 0..full /\ buckets[c].at \in 0..now
        BY <3>1 DEF GuardsInv, G!TypeOK, full
      <4>2. QED  BY <1>1, <3>1, <4>1, TokensBound DEF GuardsInv
    <3>3. /\ Times(n - i + 1) \in Int
          /\ Times(n + 1 - i + 1) = Times(n - i + 1) + Cost
      <4>1. n - i + 1 \in Int /\ n + 1 - i + 1 = (n - i + 1) + 1
        BY <1>5
      <4>2. QED  BY <4>1, Multiples
    <3>4. tokens = G!Tokens(c) - Cost /\ allowed'[c][i] = allowed[c][i]
          /\ allowed[c][i] \in Nat
      BY <1>5 DEF tokens
    <3> DEFINE drawn == Times(n - i + 1)
               more  == Times(n + 1 - i + 1)
               stock == buckets[c].tokens
               at    == buckets[c].at
               since == allowed[c][i]
    <3>5. /\ drawn \in Int /\ stock \in Int /\ at \in Int /\ since \in Nat /\ at <= now
          /\ more = drawn + Cost /\ allowed'[c][i] = since /\ since <= at
          /\ drawn + stock <= full + (at - since) /\ tokens = G!Tokens(c) - Cost
          /\ G!Tokens(c) <= stock + (now - at)
      BY <1>1, <3>1, <3>2, <3>3, <3>4
    <3> HIDE DEF drawn, more, stock, at, since
    <3>6. since <= now /\ more + tokens <= full + (now - since)
      <4>1. now \in Nat /\ G!Tokens(c) \in Int /\ full \in Int /\ Cost \in Int
        BY <1>1
      <4>2. QED  BY <3>5, <4>1
    <3>7. QED  BY <3>5, <3>6 DEF more
  <2>2. /\ allowed'[c][n + 1] <= now /\ allowed'[c][n + 1] \in Nat
        /\ Times(n + 1 - (n + 1) + 1) + tokens <= full + (now - allowed'[c][n + 1])
    <3>1. Times(n + 1 - (n + 1) + 1) = Cost
      <4>1. n + 1 - (n + 1) + 1 = 1
        BY <1>5
      <4>2. QED  BY <4>1, Multiples
    <3>2. QED  BY <1>1, <1>5, <3>1 DEF tokens
  <2>3. \A i \in 1..(n + 1) : i \in 1..n \/ i = n + 1
    BY <1>5
  <2>4. QED  BY <2>1, <2>2, <2>3
<1>7. RateInv'
  <2>1. ASSUME NEW i \in DOMAIN allowed'[c]
        PROVE  /\ c \in DOMAIN buckets' /\ allowed'[c][i] <= buckets'[c].at
               /\ Times(Len(allowed'[c]) - i + 1) + buckets'[c].tokens
                    <= full + (buckets'[c].at - allowed'[c][i])
    BY <1>3, <1>5, <1>6
  <2>2. ASSUME NEW d \in Client, d # c, NEW i \in DOMAIN allowed'[d]
        PROVE  /\ d \in DOMAIN buckets' /\ allowed'[d][i] <= buckets'[d].at
               /\ Times(Len(allowed'[d]) - i + 1) + buckets'[d].tokens
                    <= full + (buckets'[d].at - allowed'[d][i])
    BY <1>3, <1>5, <2>2 DEF GuardsInv, RateInv, Drawn, full
  <2>3. QED  BY <2>1, <2>2 DEF RateInv, Drawn, full
<1>8. G!RateBound'
  <2>1. ASSUME NEW i \in 1..(n + 1), NEW j \in 1..(n + 1), i <= j
        PROVE  Times(j - i + 1) <= full + (allowed'[c][j] - allowed'[c][i])
    <3>1. CASE j = n + 1
      <4>1. n + 1 - i + 1 \in Int
        BY <1>5
      <4>2. /\ Times(n + 1 - i + 1) \in Int /\ allowed'[c][i] \in Nat
            /\ Times(n + 1 - i + 1) + tokens <= full + (now - allowed'[c][i])
        BY <1>6, <4>1, Multiples
      <4>3. QED  BY <1>1, <1>2, <1>5, <3>1, <4>2
    <3>2. CASE j # n + 1
      <4>1. i \in 1..n /\ j \in 1..n
        BY <1>5, <2>1, <3>2
      <4>2. QED  BY <1>5, <2>1, <4>1, GuardsBound DEF GuardsInv, full
    <3>3. QED  BY <3>1, <3>2
  <2>2. ASSUME NEW d \in Client, d # c, NEW i \in DOMAIN allowed'[d],
               NEW j \in DOMAIN allowed'[d], i <= j
        PROVE  Times(j - i + 1) <= full + (allowed'[d][j] - allowed'[d][i])
    BY <1>5, <2>2, GuardsBound DEF GuardsInv, full
  <2>3. QED  BY <1>5, <2>1, <2>2 DEF G!RateBound, Times, full
<1>9. QED  BY <1>3, <1>5, <1>7, <1>8 DEF full

\* A bucket that is refilled to no avail has gained no more than the time passed.
LEMMA LimitedStep ==
  ASSUME GuardsInv, NEW c \in Client, G!Limited(c) PROVE GuardsInv'
<1> DEFINE full == Burst * Cost
<1>1. /\ full \in Nat /\ now \in Nat /\ G!Tokens(c) \in 0..full
      /\ UNCHANGED <<now, allowed, nonces, lastPrune, reading, served>>
  BY GuardsAssumption, FullBucket, TokensBound DEF G!Limited, G!detector, GuardsInv, G!TypeOK, G!Time
<1>2. /\ DOMAIN buckets' = DOMAIN buckets \cup {c}
      /\ buckets'[c].tokens = G!Tokens(c) /\ buckets'[c].at = now
      /\ \A x \in DOMAIN buckets : x # c => buckets'[x] = buckets[x]
      /\ DOMAIN buckets' \subseteq Client
      /\ \A x \in DOMAIN buckets' :
           buckets'[x].tokens \in 0..full /\ buckets'[x].at \in 0..now'
  BY <1>1, BucketKept DEF GuardsInv, G!Limited
<1>3. G!TypeOK'
  BY <1>1, <1>2 DEF GuardsInv, G!TypeOK
<1>4. ReplayInv' /\ G!RateBound'
  BY <1>1 DEF GuardsInv, ReplayInv, Spent, G!RateBound
<1>5. RateInv'
  <2>1. ASSUME NEW d \in Client, NEW i \in DOMAIN allowed[d]
        PROVE  /\ d \in DOMAIN buckets' /\ allowed[d][i] <= buckets'[d].at
               /\ Drawn(d, i) + buckets'[d].tokens
                    <= full + (buckets'[d].at - allowed[d][i])
    <3>1. /\ d \in DOMAIN buckets /\ allowed[d][i] <= buckets[d].at
          /\ Drawn(d, i) + buckets[d].tokens <= full + (buckets[d].at - allowed[d][i])
      BY DEF GuardsInv, RateInv
    <3>2. CASE d # c
      BY <1>2, <3>1, <3>2
    <3>3. CASE d = c
      <4>1. /\ G!Tokens(c) <= buckets[c].tokens + (now - buckets[c].at)
            /\ buckets[c].tokens \in 0..full /\ buckets[c].at \in 0..now
        BY <3>1, <3>3, TokensBound DEF GuardsInv, G!TypeOK
      <4>2. allowed[d][i] \in Nat /\ Drawn(d, i) \in Int
        <5>1. allowed[d] \in Seq(G!Time)
          BY DEF GuardsInv, G!TypeOK
        <5>2. Len(allowed[d]) \in Nat /\ i \in 1..Len(allowed[d]) /\ allowed[d][i] \in G!Time
          BY <5>1
        <5>3. allowed[d][i] \in Nat /\ Len(allowed[d]) - i + 1 \in Int
          BY <5>2 DEF G!Time
        <5>4. QED  BY <5>3, Multiples DEF Drawn
      <4> HIDE DEF full
      <4>3. QED  BY <1>1, <1>2, <3>1, <3>3, <4>1, <4>2
    <3>4. QED  BY <3>2, <3>3
  <2>2. QED  BY <1>1, <2>1 DEF RateInv, Drawn
<1>6. QED  BY <1>3, <1>4, <1>5 DEF GuardsInv

-----------------------------------------------------------------------------
(* The detector.                                                            *)

\* A nonce leaves the store only when the timestamp stored with it has left the
\* window.
LEMMA NonceStored ==
  ASSUME G!TypeOK, NEW ts \in G!Time, NEW nonce \in Nonce, G!Store(ts, nonce),
         now' = now
  PROVE  /\ DOMAIN nonces' \subseteq Nonce /\ lastPrune' \in (0 - Window - 1)..now'
         /\ \A x \in DOMAIN nonces' : nonces'[x] = IF x = nonce THEN ts ELSE nonces[x]
         /\ \A x \in DOMAIN nonces \cup {nonce} :
              \/ x \in DOMAIN nonces'
              \/ (IF x = nonce THEN ts ELSE nonces[x]) < now - Window
<1> DEFINE stored == [x \in DOMAIN nonces \cup {nonce} |-> IF x = nonce THEN ts ELSE nonces[x]]
           prune  == now - lastPrune > Window \/ G!Cardinality(DOMAIN stored) > MaxNonces
           kept   == DOMAIN stored \ G!Expired(stored)
<1>1. /\ nonces' = IF prune THEN [x \in kept |-> stored[x]] ELSE stored
      /\ lastPrune' = IF prune THEN now ELSE lastPrune
  BY DEF G!Store
<1>2. /\ DOMAIN stored = DOMAIN nonces \cup {nonce}
      /\ \A x \in DOMAIN stored : stored[x] = IF x = nonce THEN ts ELSE nonces[x]
      /\ kept \subseteq DOMAIN stored
      /\ \A x \in DOMAIN stored : x \in kept \/ stored[x] < now - Window
  BY DEF G!Expired
<1>3. lastPrune' \in (0 - Window - 1)..now'
  <2>1. now \in (0 - Window - 1)..now /\ lastPrune \in (0 - Window - 1)..now
    BY GuardsAssumption DEF G!TypeOK, G!Time
  <2>2. lastPrune' = now \/ lastPrune' = lastPrune
    BY <1>1
  <2>3. QED  BY <2>1, <2>2
<1>4. DOMAIN stored \subseteq Nonce
  BY <1>2 DEF G!TypeOK
<1> HIDE DEF stored, prune, kept
<1>5. nonces' = [x \in kept |-> stored[x]] \/ nonces' = stored
  BY <1>1
<1>6. QED  BY <1>2, <1>3, <1>4, <1>5

LEMMA CheckedStep ==
  ASSUME GuardsInv, NEW c \in Client, NEW ts \in G!Time, NEW nonce \in Nonce,
         G!Checked(c, ts, nonce)
  PROVE  GuardsInv'
<1>1. /\ G!Admit(c) /\ ts - now <= Window /\ now - ts <= Window /\ nonce \notin DOMAIN nonces
      /\ G!Store(ts, nonce) /\ reading' = reading \cup {<<ts, nonce>>}
      /\ now' = now /\ served' = served
      /\ now \in Nat /\ Window \in Nat /\ ts \in Nat
  BY GuardsAssumption DEF G!Checked, G!Fresh, GuardsInv, G!TypeOK, G!Time
<1>2. /\ DOMAIN nonces' \subseteq Nonce /\ lastPrune' \in (0 - Window - 1)..now'
      /\ \A x \in DOMAIN nonces' : nonces'[x] = IF x = nonce THEN ts ELSE nonces[x]
      /\ \A x \in DOMAIN nonces \cup {nonce} :
           x \in DOMAIN nonces' \/ (IF x = nonce THEN ts ELSE nonces[x]) < now - Window
  BY <1>1, NonceStored DEF GuardsInv
<1>3. \A x \in DOMAIN nonces' : nonces'[x] \in G!Time
  <2>1. \A x \in DOMAIN nonces' : x = nonce \/ x \in DOMAIN nonces
    BY <1>1 DEF G!Store
  <2>2. QED  BY <1>2, <2>1 DEF GuardsInv, G!TypeOK
<1>4. G!TypeOK'
  BY <1>1, <1>2, <1>3, AdmitStep DEF GuardsInv, G!TypeOK
<1>5. ReplayInv'
  <2>1. ~Spent(ts, nonce) /\ Spent(ts, nonce)'
    BY <1>1, <1>2 DEF Spent
  <2>2. ASSUME NEW t \in G!Time, NEW x \in Nonce, Spent(t, x) PROVE Spent(t, x)'
    BY <1>1, <1>2, <2>2 DEF Spent
  <2>3. ASSUME NEW t \in G!Time, NEW x \in Nonce
        PROVE  LET r == <<t, x>>
               IN /\ served'[r] <= 1 /\ (r \in reading' => served'[r] = 0)
                  /\ r \in reading' \/ served'[r] > 0 => Spent(t, x)'
    <3>1. /\ served[<<t, x>>] <= 1 /\ (<<t, x>> \in reading => served[<<t, x>>] = 0)
          /\ <<t, x>> \in reading \/ served[<<t, x>>] > 0 => Spent(t, x)
          /\ served[<<t, x>>] \in Nat
      BY DEF GuardsInv, ReplayInv, G!TypeOK
    <3>2. CASE t = ts /\ x = nonce
      <4>1. served[<<t, x>>] = 0
        BY <2>1, <3>1, <3>2
      <4>2. QED  BY <1>1, <2>1, <3>2, <4>1
    <3>3. CASE ~(t = ts /\ x = nonce)
      <4>1. <<t, x>> \in reading' => <<t, x>> \in reading
        BY <1>1, <3>3
      <4>2. QED  BY <1>1, <2>2, <3>1, <4>1
    <3>4. QED  BY <3>2, <3>3
  <2>4. QED  BY <2>3 DEF ReplayInv, Spent
<1>6. QED  BY <1>1, <1>4, <1>5, AdmitStep DEF GuardsInv

LEMMA VerifiedStep ==
  ASSUME GuardsInv, NEW r \in reading, G!Verified(r) PROVE GuardsInv'
<1>1. PICK ts \in G!Time, nonce \in Nonce : r = <<ts, nonce>>
  BY DEF GuardsInv, G!TypeOK
<1>2. /\ reading' = reading \ {r} /\ UNCHANGED <<now, buckets, allowed, nonces, lastPrune>>
      /\ served' \in {served, [served EXCEPT ![r] = @ + 1]}
      /\ served[r] = 0
  <2>1. served[r] = 0
    BY <1>1 DEF GuardsInv, ReplayInv
  <2>2. QED  BY <2>1 DEF G!Verified, G!limiter, G!detector
<1>3. /\ served' \in [G!Time \X Nonce -> Nat] /\ served'[r] \in {0, 1}
      /\ \A q \in G!Time \X Nonce : q # r => served'[q] = served[q]
  <2>1. r \in G!Time \X Nonce /\ served \in [G!Time \X Nonce -> Nat]
    BY <1>1 DEF GuardsInv, G!TypeOK
  <2>2. CASE served' = served
    BY <1>2, <2>1, <2>2
  <2>3. CASE served' = [served EXCEPT ![r] = @ + 1]
    BY <1>2, <2>1, <2>3
  <2>4. QED  BY <1>2, <2>2, <2>3
<1>4. G!TypeOK'
  BY <1>2, <1>3 DEF GuardsInv, G!TypeOK
<1>5. ReplayInv'
  <2>1. ASSUME NEW t \in G!Time, NEW x \in Nonce
        PROVE  LET q == <<t, x>>
               IN /\ served'[q] <= 1 /\ (q \in reading' => served'[q] = 0)
                  /\ q \in reading' \/ served'[q] > 0 => Spent(t, x)
    <3>1. /\ served[<<t, x>>] <= 1 /\ (<<t, x>> \in reading => served[<<t, x>>] = 0)
          /\ <<t, x>> \in reading \/ served[<<t, x>>] > 0 => Spent(t, x)
      BY DEF GuardsInv, ReplayInv
    <3>2. CASE r = <<t, x>>
      BY <1>2, <1>3, <3>1, <3>2
    <3>3. CASE r # <<t, x>>
      BY <1>2, <1>3, <3>1, <3>3
    <3>4. QED  BY <3>2, <3>3
  <2>2. QED  BY <1>2, <2>1 DEF ReplayInv, Spent
<1>6. RateInv' /\ G!RateBound'
  BY <1>2 DEF GuardsInv, RateInv, G!RateBound, Drawn
<1>7. QED  BY <1>4, <1>5, <1>6 DEF GuardsInv

\* A request that reads, that lacks the headers or that the detector turns away.
LEMMA PassedOnStep ==
  ASSUME GuardsInv, NEW c \in Client,
         G!Unverified(c) \/ \E r \in G!Time \X Nonce : G!Refused(c, r[1], r[2])
  PROVE  GuardsInv'
<1>1. G!Admit(c) /\ UNCHANGED <<now, nonces, lastPrune, reading, served>>
  BY DEF G!Unverified, G!Refused, G!detector
<1>2. G!TypeOK'
  BY <1>1, AdmitStep DEF GuardsInv, G!TypeOK
<1>3. ReplayInv'
  BY <1>1 DEF GuardsInv, ReplayInv, Spent
<1>4. QED  BY <1>1, <1>2, <1>3, AdmitStep DEF GuardsInv

LEMMA TickStep == ASSUME GuardsInv, G!Tick \/ UNCHANGED guardVars PROVE GuardsInv'
<1>1. /\ UNCHANGED <<buckets, allowed, nonces, lastPrune, reading, served>>
      /\ now \in Nat /\ now' \in G!Time /\ now' \in Nat /\ now' >= now /\ Window \in Nat
  BY GuardsAssumption DEF G!Tick, guardVars, G!limiter, G!detector, GuardsInv, G!TypeOK, G!Time
<1>2. G!TypeOK'
  <2>1. \A x \in DOMAIN buckets : buckets[x].at \in 0..now => buckets[x].at \in 0..now'
    BY <1>1 DEF G!Time
  <2>2. lastPrune' \in (0 - Window - 1)..now'
    BY <1>1 DEF GuardsInv, G!TypeOK, G!Time
  <2>3. QED  BY <1>1, <2>1, <2>2 DEF GuardsInv, G!TypeOK
<1>3. ReplayInv'
  <2>1. ASSUME NEW ts \in G!Time, NEW nonce \in Nonce, Spent(ts, nonce)
        PROVE  Spent(ts, nonce)'
    <3>1. ts \in Int /\ now \in Int /\ Window \in Int
      BY GuardsAssumption, <1>1 DEF G!Time
    <3>2. \A later \in Nat : now <= later /\ ts < now - Window => ts < later - Window
      BY <3>1
    <3>3. now' \in Nat /\ now <= now'
      BY <1>1
    <3>4. ts < now - Window => ts < now' - Window
      BY <3>2, <3>3, Zenon
    <3>5. QED  BY <1>1, <2>1, <3>4, Zenon DEF Spent
  <2>2. QED  BY <1>1, <2>1 DEF GuardsInv, ReplayInv, Spent
<1>4. RateInv' /\ G!RateBound'
  BY <1>1 DEF GuardsInv, RateInv, G!RateBound, Drawn
<1>5. QED  BY <1>2, <1>3, <1>4 DEF GuardsInv

LEMMA RestartStep == ASSUME GuardsInv, G!Restart PROVE GuardsInv'
<1>1. /\ now' \in G!Time /\ DOMAIN buckets' = {} /\ DOMAIN nonces' = {}
      /\ lastPrune' \in (0 - Window - 1)..now' /\ reading' = {}
      /\ allowed' \in [Client -> Seq(G!Time)] /\ \A c \in Client : DOMAIN allowed'[c] = {}
      /\ served' \in [G!Time \X Nonce -> Nat]
      /\ \A ts \in G!Time, nonce \in Nonce : served'[<<ts, nonce>>] = 0
  BY GuardsAssumption DEF GuardsInv, G!TypeOK, G!Restart, G!Time
<1>2. G!TypeOK' /\ ReplayInv' /\ RateInv' /\ G!RateBound'
  BY <1>1 DEF G!TypeOK, ReplayInv, RateInv, G!RateBound
<1>3. QED  BY <1>2 DEF GuardsInv

LEMMA GuardsInit == G!Init => GuardsInv
<1> SUFFICES ASSUME G!Init PROVE GuardsInv
  OBVIOUS
<1>1. /\ now = 0 /\ now \in G!Time /\ DOMAIN buckets = {} /\ DOMAIN nonces = {}
      /\ lastPrune \in (0 - Window - 1)..now /\ reading = {}
      /\ allowed \in [Client -> Seq(G!Time)] /\ \A c \in Client : DOMAIN allowed[c] = {}
      /\ served \in [G!Time \X Nonce -> Nat]
      /\ \A ts \in G!Time, nonce \in Nonce : served[<<ts, nonce>>] = 0
  BY GuardsAssumption DEF G!Init, G!Time
<1>2. G!TypeOK /\ ReplayInv /\ RateInv /\ G!RateBound
  BY <1>1 DEF G!TypeOK, ReplayInv, RateInv, G!RateBound
<1>3. QED  BY <1>2 DEF GuardsInv

LEMMA GuardsStep == ASSUME GuardsInv, [G!Next]_guardVars PROVE GuardsInv'
<1>1. ASSUME NEW c \in Client, NEW r \in G!Time \X Nonce, G!Checked(c, r[1], r[2]) PROVE GuardsInv'
  BY <1>1, CheckedStep
<1>2. QED
  BY <1>1, TickStep, RestartStep, LimitedStep, PassedOnStep, VerifiedStep DEF G!Next

LEMMA GuardsInvariant == G!Spec => []GuardsInv
<1>1. GuardsInv /\ [G!Next]_G!vars => GuardsInv'
  BY GuardsStep DEF G!vars, G!limiter, G!detector, guardVars
<1>2. QED  BY GuardsInit, <1>1, PTL DEF G!Spec

\* Every variable of the guards holds what the code can put there (RateLimiter,
\* ReplayDetector).
THEOREM GuardsTypeCorrect == G!Spec => []G!TypeOK
<1>1. GuardsInv => G!TypeOK
  BY DEF GuardsInv
<1>2. QED  BY GuardsInvariant, <1>1, PTL

\* A request that comes again as it was sent is not served twice in one life of the
\* process, for any window and however soon its nonce is pruned
\* (ReplayDetector.check, dispatch).
THEOREM NoReplayAlways == G!Spec => []G!NoReplay
<1>1. GuardsInv => G!NoReplay
  BY DEF GuardsInv, ReplayInv, G!NoReplay
<1>2. QED  BY GuardsInvariant, <1>1, PTL

\* A client gets at most a burst and what the rate adds, for any rate, over any
\* stretch of time in one life of the process (RateLimiter.check).
THEOREM RateBoundAlways == G!Spec => []G!RateBound
<1>1. GuardsInv => G!RateBound
  BY DEF GuardsInv
<1>2. QED  BY GuardsInvariant, <1>1, PTL

-----------------------------------------------------------------------------
(* The sockets between processes.                                           *)

(* A client that still tries to connect has attempts left.                      *)
IpcInv ==
  /\ I!TypeOK /\ I!NoPretence
  /\ \A c \in Peer : peer[c] = "connect" => attempt[c] < Retries

LEMMA IpcInit == I!Init => IpcInv
<1> SUFFICES ASSUME I!Init PROVE IpcInv
  OBVIOUS
<1>1. I!TypeOK
  BY IpcAssumption DEF I!Init, I!TypeOK
<1>2. QED  BY <1>1, IpcAssumption DEF I!Init, I!NoPretence, IpcInv

LEMMA IpcStep == ASSUME IpcInv, [I!Next]_ipcVars PROVE IpcInv'
<1> USE DEF IpcInv, I!TypeOK, I!NoPretence, I!Socket
<1>b. Retries \in Nat /\ Retries > 0 /\ MaxUpdates \in Nat
  BY IpcAssumption
<1>1. CASE I!StartMavlink \/ I!StartState \/ I!Update \/ I!Stop
  <2>1. /\ server' \in {"opening", "up", "closeMavlink"} /\ listening' \subseteq I!Socket
        /\ vehicle' \in 0..MaxUpdates /\ lastState' \in 0..vehicle'
    <3>1. CASE I!Update
      <4>1. vehicle \in Nat /\ lastState \in 0..vehicle /\ vehicle + 1 \in 0..MaxUpdates
        BY <1>b, <3>1 DEF I!Update
      <4>2. lastState \in 0..(vehicle + 1)
        BY <4>1
      <4>3. QED  BY <3>1, <4>1, <4>2 DEF I!Update
    <3>2. CASE I!StartMavlink
      BY <1>b, <3>2 DEF I!StartMavlink
    <3>3. CASE I!StartState \/ I!Stop
      BY <3>3 DEF I!StartState, I!Stop
    <3>4. QED  BY <1>1, <3>1, <3>2, <3>3
  <2>2. UNCHANGED I!peerVars
    BY <1>1 DEF I!StartMavlink, I!StartState, I!Update, I!Stop
  <2>3. QED  BY <2>1, <2>2 DEF I!peerVars
<1>2. CASE I!Publish
  BY <1>2, <1>b DEF I!Publish, I!Snapshot
<1>3. CASE I!CloseMavlink \/ I!CloseState \/ I!Kill
  BY <1>3 DEF I!CloseMavlink, I!CloseState, I!Kill, I!Ended
<1>4. ASSUME NEW c \in Peer, I!Begin(c) PROVE IpcInv'
  BY <1>4, <1>b DEF I!Begin, I!Moves, I!serverVars
<1>5. ASSUME NEW c \in Peer, I!Connect(c) PROVE IpcInv'
  <2>1. PICK next \in I!Afterwards(c) : I!Moves(c, "connect", next)
    BY <1>5 DEF I!Connect
  <2>2. next \in {"ready", "deaf"}
    BY DEF I!Afterwards
  <2>3. QED  BY <1>5, <1>b, <2>1, <2>2 DEF I!Connect, I!Moves, I!serverVars
<1>6. ASSUME NEW c \in Peer, I!Retry(c) PROVE IpcInv'
  BY <1>6, <1>b DEF I!Retry, I!Refused, I!serverVars
<1>7. ASSUME NEW c \in Peer, I!GiveUp(c) PROVE IpcInv'
  BY <1>7, <1>b DEF I!GiveUp, I!Refused, I!serverVars
<1>8. ASSUME NEW c \in Peer, \/ I!StartReading(c) \/ I!ReadState(c)
                              \/ I!ReadEnds(c) \/ I!Oversized(c)
      PROVE  IpcInv'
  BY <1>8 DEF I!StartReading, I!ReadState, I!Copied, I!ReadEnds, I!Oversized, I!Moves,
              I!serverVars
<1>9. ASSUME NEW c \in Peer, I!End(c) PROVE IpcInv'
  BY <1>9 DEF I!End, I!Forgotten, I!serverVars
<1>10. CASE UNCHANGED ipcVars
  BY <1>10 DEF ipcVars
<1>11. QED
  BY <1>1, <1>2, <1>3, <1>4, <1>5, <1>6, <1>7, <1>8, <1>9, <1>10 DEF I!Next, I!Connects

\* A process that gave up connecting or read to the end does not believe it is
\* connected, for any clients of either socket and any number of attempts (connect,
\* read_loop).
THEOREM ConnectedHonest == I!Spec => [](I!TypeOK /\ I!NoPretence)
<1>1. IpcInv => I!TypeOK /\ I!NoPretence
  BY DEF IpcInv
<1>2. IpcInv /\ [I!Next]_I!vars => IpcInv'
  BY IpcStep DEF I!vars, I!serverVars, I!peerVars, ipcVars
<1>3. QED  BY IpcInit, <1>1, <1>2, PTL DEF I!Spec

-----------------------------------------------------------------------------
(* Cameras.                                                                 *)

CamerasInv == K!TypeOK /\ K!ShowsFound

LEMMA CamerasInit == K!Init => CamerasInv
BY DEF K!Init, K!TypeOK, K!ShowsFound, CamerasInv

\* A listing is a sequence of cameras of its kind.
LEMMA ListedKind ==
  ASSUME NEW kind, kind \subseteq K!Camera, NEW l \in K!Listed(kind)
  PROVE  l \in Seq(kind)
<1>1. CASE l = <<>>
  BY <1>1
<1>2. CASE l \in K!SetToSeqs(plugged \cap kind)
  <2>1. IsFiniteSet(plugged \cap kind)
    BY FS_Subset, CamerasAssumption DEF K!Camera
  <2>2. K!Cardinality(plugged \cap kind) \in Nat
    BY <2>1, FS_CardinalityType, SameCardinality
  <2>3. l \in [1..K!Cardinality(plugged \cap kind) -> plugged \cap kind]
    BY <1>2 DEF K!SetToSeqs
  <2> DEFINE n == K!Cardinality(plugged \cap kind)
  <2>4. n \in Nat /\ l \in [1..n -> kind]
    BY <2>2, <2>3
  <2> HIDE DEF n
  <2>5. QED  BY <2>4
<1>3. QED  BY <1>1, <1>2 DEF K!Listed

\* What is found are cameras, and the first of them is a CSI camera if one is.
LEMMA FoundCameras ==
  ASSUME NEW found \in K!Discovered
  PROVE  /\ found \in Seq(K!Camera)
         /\ found # <<>> =>
              /\ found[1] \in K!ToSet(found)
              /\ K!ToSet(found) \cap Csi # {} => found[1] \in Csi
<1>1. PICK csi \in K!Listed(Csi), usb \in K!Listed(Usb) : found = csi \o usb
  BY DEF K!Discovered
<1>2. csi \in Seq(Csi) /\ usb \in Seq(Usb)
  BY <1>1, ListedKind DEF K!Camera
<1>3. found \in Seq(K!Camera)
  BY <1>1, <1>2 DEF K!Camera
<1>4. ASSUME found # <<>> PROVE found[1] \in K!ToSet(found)
  BY <1>3, <1>4 DEF K!ToSet
<1>5. ASSUME found # <<>>, K!ToSet(found) \cap Csi # {} PROVE found[1] \in Csi
  <2>1. CASE csi # <<>>
    BY <1>1, <1>2, <2>1
  <2>2. CASE csi = <<>>
    <3>1. PICK i \in DOMAIN found : found[i] \in Csi
      BY <1>5 DEF K!ToSet
    <3>2. found[i] \in Usb
      BY <1>1, <1>2, <2>2, <3>1
    <3>3. QED  BY <3>1, <3>2, CamerasAssumption
  <2>3. QED  BY <2>1, <2>2
<1>6. QED  BY <1>3, <1>4, <1>5

LEMMA CamerasStep == ASSUME CamerasInv, [K!Next]_cameraVars PROVE CamerasInv'
<1>1. ASSUME K!StartStream PROVE CamerasInv'
  <2>1. PICK found \in K!Discovered :
          /\ cameras' = found /\ roles' = K!AutoAssign(found)
          /\ \/ streaming' = "running" /\ source' = roles'["primary"]
             \/ streaming' = "error" /\ source' = K!None
          /\ plugged' = plugged
    BY <1>1 DEF K!StartStream
  <2>2. found \in Seq(K!Camera)
    BY FoundCameras
  <2>3. /\ roles' \in [K!Role -> K!Camera \cup {K!None}]
        /\ found # <<>> => roles'["primary"] = found[1]
    BY <2>1, <2>2 DEF CamerasInv, K!TypeOK, K!AutoAssign, K!AssignRole, K!Role
  <2>4. K!TypeOK'
    BY <2>1, <2>2, <2>3 DEF CamerasInv, K!TypeOK, K!Role
  <2>5. K!ShowsFound'
    BY <2>1, <2>3, FoundCameras DEF K!ShowsFound
  <2>6. QED  BY <2>4, <2>5 DEF CamerasInv
<1>2. ASSUME NEW c \in K!Camera, K!Plug(c) \/ K!Unplug(c) PROVE CamerasInv'
  BY <1>2 DEF CamerasInv, K!TypeOK, K!ShowsFound, K!Plug, K!Unplug
<1>3. CASE UNCHANGED cameraVars
  BY <1>3 DEF cameraVars, CamerasInv, K!TypeOK, K!ShowsFound
<1>4. plugged \subseteq K!Camera
  BY DEF CamerasInv, K!TypeOK
<1>5. QED  BY <1>1, <1>2, <1>3, <1>4 DEF K!Next, K!Boot, K!Restart

\* The stream shows a camera its last start found, and a CSI camera if there was one,
\* for any cameras and however they were swapped (auto_assign, start_stream).
THEOREM StreamShowsFound == K!Spec => [](K!TypeOK /\ K!ShowsFound)
<1>1. CamerasInv => K!TypeOK /\ K!ShowsFound
  BY DEF CamerasInv
<1>2. CamerasInv /\ [K!Next]_K!vars => CamerasInv'
  BY CamerasStep DEF K!vars, cameraVars
<1>3. QED  BY CamerasInit, <1>1, <1>2, PTL DEF K!Spec

-----------------------------------------------------------------------------
(* The adapter of the radio link.                                           *)

(* From the first command to the start, an adapter that was not taken away is   *)
(* the one that was put down, and what the commands did to it lasts.            *)
AdaptersInv ==
  /\ W!TypeOK /\ W!LinkReady
  /\ same /\ step \in {"mode", "up", "started"} => interface \in inserted
  /\ same /\ step \in {"up", "started"} => mode[interface] = "monitor"

LEMMA AdaptersInit == W!Init => AdaptersInv
BY DEF W!Init, W!TypeOK, W!LinkReady, AdaptersInv

LEMMA AdaptersStep == ASSUME AdaptersInv, [W!Next]_adapterVars PROVE AdaptersInv'
<1> USE DEF AdaptersInv, W!TypeOK, W!LinkReady
<1>1. ASSUME NEW i \in W!Iface \ inserted, W!Insert(i) PROVE AdaptersInv'
  BY <1>1 DEF W!Insert
<1>2. ASSUME NEW i \in inserted, W!Remove(i) PROVE AdaptersInv'
  BY <1>2 DEF W!Remove
<1>3. CASE W!Detect
  BY <1>3 DEF W!Detect, W!Compatible, W!Interfaces, W!Monitors, W!Radios, W!devices
<1>4. CASE W!TakeConfigured
  BY <1>4 DEF W!TakeConfigured, W!devices
<1>5. CASE W!LinkDown
  BY <1>5 DEF W!LinkDown
<1>6. CASE W!SetMonitor
  BY <1>6 DEF W!SetMonitor
<1>7. CASE W!LinkUp
  BY <1>7 DEF W!LinkUp
<1>8. CASE W!CommandFails \/ W!Ends
  BY <1>8 DEF W!CommandFails, W!Ends, W!devices
<1>9. CASE UNCHANGED adapterVars
  BY <1>9 DEF adapterVars
<1>10. QED
  BY <1>1, <1>2, <1>3, <1>4, <1>5, <1>6, <1>7, <1>8, <1>9 DEF W!Next, W!Round

\* The link's processes start only on an interface that is in monitor mode and up,
\* for any adapters and whatever failed before, unless it was taken away (run).
THEOREM LinkAlwaysReady == W!Spec => [](W!TypeOK /\ W!LinkReady)
<1>1. AdaptersInv => W!TypeOK /\ W!LinkReady
  BY DEF AdaptersInv
<1>2. AdaptersInv /\ [W!Next]_W!vars => AdaptersInv'
  BY AdaptersStep DEF W!vars, adapterVars
<1>3. QED  BY AdaptersInit, <1>1, <1>2, PTL DEF W!Spec

-----------------------------------------------------------------------------
(* Discovery.                                                               *)

\* More than is promised: ados-discovery's record is that of its own memory.
RecordTold ==
  zeroconf /\ ~missed => record.paired = paired /\ (~inAgent => record.code = code)

DiscoveryInv ==
  /\ D!TypeOK /\ RecordTold
  /\ paired => code = 0

\* D!TypeOK as the provers take it, one variable at a time.
DiscoveryTyped ==
  /\ inAgent \in BOOLEAN /\ running \in BOOLEAN /\ paired \in BOOLEAN
  /\ expired \in BOOLEAN /\ zeroconf \in BOOLEAN /\ missed \in BOOLEAN
  /\ code \in 0..codes /\ codes \in 0..MaxCodes
  /\ record \in [paired : BOOLEAN, code : 0..codes]

LEMMA DiscoveryTypes ==
  (D!TypeOK <=> DiscoveryTyped) /\ (D!TypeOK' <=> DiscoveryTyped')
<1>1. D!TypeOK <=> DiscoveryTyped
  BY Zenon DEF D!TypeOK, DiscoveryTyped
<1>2. D!TypeOK' <=> DiscoveryTyped'
  BY <1>1, PTL
<1>3. QED  BY <1>1, <1>2

LEMMA DiscoveryInit == D!Init => DiscoveryInv
<1> SUFFICES ASSUME D!Init PROVE DiscoveryInv
  OBVIOUS
<1>1. record \in [paired : BOOLEAN, code : 0..codes] /\ code = 0 /\ codes = 0
  BY DEF D!Init, D!Records
<1>2. DiscoveryTyped
  <2>1. code \in 0..codes /\ codes \in 0..MaxCodes
    BY <1>1, DiscoveryAssumption
  <2>2. /\ inAgent \in BOOLEAN /\ running \in BOOLEAN /\ paired \in BOOLEAN
        /\ expired \in BOOLEAN /\ zeroconf \in BOOLEAN /\ missed \in BOOLEAN
    BY Zenon DEF D!Init
  <2>3. QED  BY <1>1, <2>1, <2>2, Zenon DEF DiscoveryTyped
<1>3. QED  BY <1>1, <1>2, DiscoveryTypes DEF D!Init, RecordTold, DiscoveryInv

\* What a record holds, and that a record still has its type when codes grow.
LEMMA RecordTypes ==
  ASSUME NEW n \in Nat, NEW m \in Nat, n <= m
  PROVE  /\ [paired : BOOLEAN, code : 0..n] \subseteq [paired : BOOLEAN, code : 0..m]
         /\ \A b \in BOOLEAN, k \in 0..m :
              /\ D!Records(b, k) \in [paired : BOOLEAN, code : 0..m]
              /\ D!Records(b, k).paired = b
              /\ ~b => D!Records(b, k).code = k
<1>1. [paired : BOOLEAN, code : 0..n] \subseteq [paired : BOOLEAN, code : 0..m]
  OBVIOUS
<1>2. ASSUME NEW b \in BOOLEAN, NEW k \in 0..m
      PROVE  /\ D!Records(b, k) \in [paired : BOOLEAN, code : 0..m]
             /\ D!Records(b, k).paired = b
             /\ ~b => D!Records(b, k).code = k
  BY DEF D!Records
<1>3. QED  BY <1>1, <1>2

\* A step that numbers codes on and says nothing, or what is so by then.
LEMMA DiscoveryMoves ==
  ASSUME DiscoveryInv, codes' \in Nat, codes <= codes', codes' <= MaxCodes,
         code' \in 0..codes', paired' \in BOOLEAN, paired' => code' = 0,
         inAgent' \in BOOLEAN, running' \in BOOLEAN, expired' \in BOOLEAN,
         zeroconf' \in BOOLEAN, missed' \in BOOLEAN,
         \/ record' = D!Records(paired', code')
         \/ record' = record /\ (zeroconf' /\ ~missed' => RecordTold')
  PROVE  DiscoveryInv'
<1>1. /\ codes \in Nat /\ MaxCodes \in Nat /\ record \in [paired : BOOLEAN, code : 0..codes]
  BY DiscoveryTypes, DiscoveryAssumption DEF DiscoveryInv, DiscoveryTyped
<1>2. codes' \in 0..MaxCodes
  BY <1>1
<1>3. record' \in [paired : BOOLEAN, code : 0..codes']
  <2>1. CASE record' = D!Records(paired', code')
    <3>1. D!Records(paired', code') \in [paired : BOOLEAN, code : 0..codes']
      BY <1>1, RecordTypes
    <3>2. QED  BY <2>1, <3>1
  <2>2. CASE record' = record
    <3>1. [paired : BOOLEAN, code : 0..codes] \subseteq [paired : BOOLEAN, code : 0..codes']
      BY <1>1, RecordTypes
    <3>2. QED  BY <1>1, <2>2, <3>1
  <2>3. QED  BY <2>1, <2>2
<1>4. DiscoveryTyped'
  BY <1>2, <1>3, Zenon DEF DiscoveryTyped
<1>5. RecordTold'
  <2>1. CASE record' = D!Records(paired', code')
    <3>1. /\ record'.paired = paired' /\ (~paired' => record'.code = code')
      BY <1>1, <2>1, RecordTypes
    <3>2. paired' => record'.code = 0
      BY <2>1 DEF D!Records
    <3>3. QED  BY <3>1, <3>2, Zenon DEF RecordTold
  <2>2. CASE record' = record /\ (zeroconf' /\ ~missed' => RecordTold')
    BY <2>2, Zenon DEF RecordTold
  <2>3. QED  BY <2>1, <2>2
<1>6. QED  BY <1>4, <1>5, DiscoveryTypes, Zenon DEF DiscoveryInv

\* What is told is what is so, or the record stays and is known to be old.
LEMMA UpdateTold ==
  ASSUME zeroconf \in BOOLEAN, D!UpdateTxt
  PROVE  /\ zeroconf' = zeroconf /\ missed' \in BOOLEAN
         /\ \/ record' = D!Records(paired', code')
            \/ record' = record /\ (zeroconf' => missed')
<1>1. CASE zeroconf /\ record' = D!Records(paired', code') /\ missed' = FALSE
  BY <1>1, Zenon DEF D!UpdateTxt
<1>2. CASE UNCHANGED record /\ missed' = zeroconf
  BY <1>2, Zenon DEF D!UpdateTxt
<1>3. QED  BY <1>1, <1>2, Zenon DEF D!UpdateTxt

LEMMA DiscoveryStep == ASSUME DiscoveryInv, [D!Next]_discoveryVars PROVE DiscoveryInv'
<1>0. /\ inAgent \in BOOLEAN /\ running \in BOOLEAN /\ paired \in BOOLEAN
      /\ expired \in BOOLEAN /\ zeroconf \in BOOLEAN /\ missed \in BOOLEAN
      /\ code \in 0..codes /\ codes \in Nat /\ codes <= MaxCodes /\ MaxCodes \in Nat
      /\ record \in [paired : BOOLEAN, code : 0..codes]
      /\ (paired => code = 0) /\ RecordTold
  BY DiscoveryTypes, DiscoveryAssumption DEF DiscoveryInv, DiscoveryTyped
<1>1. CASE D!Register
  <2>1. /\ codes' \in Nat /\ codes <= codes' /\ codes' <= MaxCodes /\ code' \in 0..codes'
        /\ paired => code' = 0
    BY <1>0, <1>1 DEF D!Register, D!GetCode, D!Renewed
  <2>2. /\ paired' = paired /\ paired' \in BOOLEAN /\ inAgent' \in BOOLEAN
        /\ running' \in BOOLEAN /\ expired' \in BOOLEAN
        /\ zeroconf' \in BOOLEAN /\ missed' \in BOOLEAN
        /\ record' = D!Records(paired', code')
    BY <1>0, <1>1, Zenon DEF D!Register, D!GetCode
  <2>3. QED  BY <2>1, <2>2, DiscoveryMoves, Zenon
<1>2. CASE D!CodeExpires
  <2>1. UNCHANGED <<inAgent, running, paired, code, codes, zeroconf, record, missed>>
        /\ expired' \in BOOLEAN
    BY <1>2, Zenon DEF D!CodeExpires, D!recordVars
  <2>2. QED  BY <1>0, <2>1, Zenon DEF DiscoveryInv, D!TypeOK, RecordTold
<1>3. CASE D!Refresh
  <2>1. /\ codes' \in Nat /\ codes <= codes' /\ codes' <= MaxCodes /\ code' \in 0..codes'
        /\ paired => code' = 0
    BY <1>0, <1>3 DEF D!Refresh, D!GetCode, D!Renewed
  <2>2. /\ UNCHANGED <<paired, inAgent, running, zeroconf>> /\ expired' \in BOOLEAN
        /\ missed' \in BOOLEAN
        /\ \/ record' = D!Records(paired', code')
           \/ record' = record /\ (zeroconf' => missed')
    BY <1>0, <1>3, UpdateTold, Zenon DEF D!Refresh, D!GetCode
  <2>3. QED  BY <1>0, <2>1, <2>2, DiscoveryMoves, Zenon
<1>4. CASE D!Renew
  <2>1. /\ codes' \in Nat /\ codes <= codes' /\ codes' <= MaxCodes /\ code' \in 0..codes'
        /\ paired => code' = 0
    BY <1>0, <1>4 DEF D!Renew, D!GetCode, D!Renewed
  <2>2. /\ UNCHANGED <<paired, inAgent, running, zeroconf, record, missed>>
        /\ expired' \in BOOLEAN /\ inAgent
    BY <1>0, <1>4, Zenon DEF D!Renew, D!GetCode, D!recordVars
  <2>3. zeroconf' /\ ~missed' => RecordTold'
    BY <1>0, <2>2, Zenon DEF RecordTold
  <2>4. QED  BY <1>0, <2>1, <2>2, <2>3, DiscoveryMoves, Zenon
<1>5. CASE D!Claim
  <2>1. /\ codes' = codes /\ code' \in 0..codes' /\ paired' = TRUE /\ code' = 0
    BY <1>0, <1>5 DEF D!Claim
  <2>2. /\ UNCHANGED <<inAgent, running, zeroconf>> /\ expired' \in BOOLEAN
        /\ missed' \in BOOLEAN
        /\ \/ record' = D!Records(paired', code')
           \/ record' = record /\ (zeroconf' => missed')
    BY <1>0, <1>5, UpdateTold, Zenon DEF D!Claim
  <2>3. codes <= codes'
    BY <1>0, <2>1
  <2>4. QED  BY <1>0, <2>1, <2>2, <2>3, DiscoveryMoves, Zenon
<1>6. CASE D!ChangeUnsaved
  <2>1. /\ codes' \in Nat /\ codes <= codes' /\ codes' <= MaxCodes /\ code' \in 0..codes'
        /\ code' = 0 \/ paired
    BY <1>0, <1>6 DEF D!ChangeUnsaved
  <2>2. /\ paired' = ~paired /\ paired' \in BOOLEAN
        /\ UNCHANGED <<inAgent, running, zeroconf, record>>
        /\ expired' \in BOOLEAN /\ missed' = zeroconf
    BY <1>0, <1>6, Zenon DEF D!ChangeUnsaved
  <2>3. QED  BY <1>0, <2>1, <2>2, DiscoveryMoves, Zenon
<1>7. CASE D!Unpair
  <2>1. /\ codes' \in Nat /\ codes <= codes' /\ codes' <= MaxCodes /\ code' \in 0..codes'
    BY <1>0, <1>7 DEF D!Unpair
  <2>2. /\ paired' = FALSE /\ UNCHANGED <<inAgent, running, zeroconf>>
        /\ expired' \in BOOLEAN /\ missed' \in BOOLEAN
        /\ \/ record' = D!Records(paired', code')
           \/ record' = record /\ (zeroconf' => missed')
    BY <1>0, <1>7, UpdateTold, Zenon DEF D!Unpair
  <2>3. QED  BY <1>0, <2>1, <2>2, DiscoveryMoves, Zenon
<1>8. CASE D!Unregister
  <2>1. code' \in {0, code} /\ (paired' => code' = 0) /\ codes' = codes
    BY <1>8 DEF D!Unregister
  <2>2. codes <= codes' /\ code' \in 0..codes'
    BY <1>0, <2>1
  <2>3. /\ paired' \in BOOLEAN /\ zeroconf' = FALSE /\ missed' = FALSE
        /\ running' = FALSE /\ UNCHANGED <<inAgent, record>> /\ expired' \in BOOLEAN
    BY <1>8, Zenon DEF D!Unregister
  <2>4. QED  BY <1>0, <2>1, <2>2, <2>3, DiscoveryMoves, Zenon
<1>9. CASE UNCHANGED discoveryVars
  BY <1>9, Zenon DEF discoveryVars, DiscoveryInv, D!TypeOK, RecordTold
<1>10. QED
  BY <1>1, <1>2, <1>3, <1>4, <1>5, <1>6, <1>7, <1>8, <1>9, Zenon DEF D!Next

\* Unless an update failed, the network reads whether the single-process agent is
\* paired and, from ados-discovery, the code it made last, however many codes there
\* are (update_txt, run).
THEOREM NetworkToldTruth == D!Spec => [](D!TypeOK /\ D!TellsTruth)
<1>1. DiscoveryInv => D!TypeOK /\ D!TellsTruth
  BY Zenon DEF DiscoveryInv, RecordTold, D!TellsTruth
<1>2. DiscoveryInv /\ [D!Next]_D!vars => DiscoveryInv'
  BY DiscoveryStep DEF D!vars, D!pairingVars, D!recordVars, discoveryVars
<1>3. QED  BY DiscoveryInit, <1>1, <1>2, PTL DEF D!Spec

-----------------------------------------------------------------------------
(* Files.                                                                   *)

Half   == F!File("half", made)
Random == F!File("random", made)

(* How far a generation that is under way has come: what is renamed or written   *)
(* next makes the pair whole.                                                    *)
KeysUnderWay ==
  /\ keygen = "renameTx" => keys["gs"] = Half /\ keys["drone"] = Half
  /\ keygen = "renameRx" => keys["tx"] = Half /\ keys["drone"] = Half
  /\ keygen \in {"openRx", "writeRx"} => keys["tx"] = Random
  /\ F!KeysPair

FilesInv ==
  /\ F!TypeOK /\ events \in Nat /\ made \in Nat
  /\ F!NeverHalf /\ KeysUnderWay /\ F!AuditKept

LEMMA FilesInit == F!Init => FilesInv
<1> SUFFICES ASSUME F!Init PROVE FilesInv
  OBVIOUS
<1>1. F!TypeOK /\ events \in Nat /\ made \in Nat /\ F!NeverHalf /\ KeysUnderWay
  BY DEF F!Init, F!TypeOK, F!Name, F!NoFile, F!File, F!NeverHalf, KeysUnderWay, F!KeysPair
<1>2. F!AuditKept
  BY DEF F!Init, F!AuditKept
<1>3. QED  BY <1>1, <1>2 DEF FilesInv

LEMMA HealthStep == ASSUME FilesInv, F!Health PROVE FilesInv'
<1>1. UNCHANGED <<F!keyVars, F!auditVars>>
  BY DEF F!Health, F!HealthStarts, F!WriteTmp, F!Replace, F!HealthStops, F!HealthDies
<1>2. /\ health' \in {"none", "whole"} /\ tmp' \in {"none", "partial", "whole"}
      /\ writing' \in {"off", "loop", "replace"}
  BY DEF FilesInv, F!TypeOK, F!NeverHalf,
         F!Health, F!HealthStarts, F!WriteTmp, F!Replace, F!HealthStops, F!HealthDies
<1>3. QED
  BY <1>1, <1>2 DEF FilesInv, F!TypeOK, F!NeverHalf, KeysUnderWay, Half, Random,
                    F!KeysPair, F!AuditKept, F!keyVars, F!auditVars

LEMMA KeysStep == ASSUME FilesInv, F!Keys PROVE FilesInv'
<1> DEFINE Kind == {"none", "empty", "half", "random"}
           KeysOK == /\ keys \in [F!Name -> [kind : Kind, of : 0..made]]
                     /\ made \in Nat /\ KeysUnderWay
                     /\ keygen \in {"off", "keygen", "renameTx", "renameRx", "openTx",
                                    "writeTx", "openRx", "writeRx", "made"}
<1>1. UNCHANGED <<F!healthVars, F!auditVars>>
  BY DEF F!Keys, F!GenerateKeys, F!Goes, F!KeygenRuns, F!KeygenFails, F!RenameTx,
         F!RenameRx, F!OpenTx, F!WriteTx, F!OpenRx, F!WriteRx, F!KeygenDies
<1>2. KeysOK
  BY DEF FilesInv, F!TypeOK
<1>3. KeysOK'
  <2> USE <1>2 DEF KeysUnderWay, Half, Random, F!KeysPair, F!Name, F!File, F!NoFile, F!Goes
  <2>1. CASE F!GenerateKeys
    <3>1. [kind : Kind, of : 0..made] \subseteq [kind : Kind, of : 0..made']
      BY <2>1 DEF F!GenerateKeys
    <3>2. QED  BY <2>1, <3>1 DEF F!GenerateKeys
  <2>2. CASE F!KeygenRuns
    BY <2>2 DEF F!KeygenRuns
  <2>3. CASE F!KeygenFails
    BY <2>3 DEF F!KeygenFails
  <2>4. CASE F!RenameTx
    BY <2>4 DEF F!RenameTx
  <2>5. CASE F!RenameRx
    BY <2>5 DEF F!RenameRx
  <2>6. CASE F!OpenTx \/ F!WriteTx
    BY <2>6 DEF F!OpenTx, F!WriteTx
  <2>7. CASE F!OpenRx \/ F!WriteRx
    BY <2>7 DEF F!OpenRx, F!WriteRx
  <2>8. CASE F!KeygenDies
    BY <2>8 DEF F!KeygenDies
  <2>9. QED  BY <2>1, <2>2, <2>3, <2>4, <2>5, <2>6, <2>7, <2>8 DEF F!Keys
<1>4. QED
  BY <1>1, <1>3 DEF FilesInv, F!TypeOK, F!NeverHalf, F!AuditKept, F!healthVars, F!auditVars

(* The audit log: entries is what the current file holds after an append.       *)

Numbered(kept, last) == \A i \in DOMAIN kept : kept[i] = last - Len(kept) + i

LEMMA AppendKept ==
  FilesInv =>
    LET entries == Append(log, events + 1)
        kept    == old \o entries
    IN /\ entries \in Seq(1..(events + 1)) /\ old \in Seq(1..(events + 1))
       /\ Len(kept) = Len(old \o log) + 1
       /\ Numbered(kept, events + 1) /\ Numbered(entries, events + 1)
<1> SUFFICES ASSUME FilesInv
             PROVE  LET entries == Append(log, events + 1)
                        kept    == old \o entries
                    IN /\ entries \in Seq(1..(events + 1)) /\ old \in Seq(1..(events + 1))
                       /\ Len(kept) = Len(old \o log) + 1
                       /\ Numbered(kept, events + 1) /\ Numbered(entries, events + 1)
  OBVIOUS
<1> DEFINE entries == Append(log, events + 1)
           kept    == old \o entries
           m       == Len(old)
           n       == Len(log)
<1>1. /\ events \in Nat /\ log \in Seq(1..events) /\ old \in Seq(1..events)
      /\ m \in Nat /\ n \in Nat
  BY DEF FilesInv, F!TypeOK
<1>2. /\ entries \in Seq(1..(events + 1)) /\ old \in Seq(1..(events + 1))
      /\ Len(entries) = n + 1
  <2>1. log \in Seq(1..(events + 1)) /\ old \in Seq(1..(events + 1))
    BY <1>1
  <2>2. events + 1 \in 1..(events + 1)
    BY <1>1
  <2>3. QED  BY <1>1, <2>1, <2>2
<1> DEFINE base == old \o log
<1>3. /\ Len(base) = m + n /\ DOMAIN base = 1..(m + n)
      /\ Len(kept) = m + n + 1 /\ DOMAIN kept = 1..(m + n + 1)
      /\ Len(entries) = n + 1 /\ DOMAIN entries = 1..(n + 1)
  BY <1>1, <1>2
<1>4. \A i \in DOMAIN base : base[i] = events - Len(base) + i
  BY DEF FilesInv, F!AuditKept
<1>5. \A i \in 1..(m + n) : kept[i] = base[i]
  BY <1>1, <1>2
<1>6. kept[m + n + 1] = events + 1
  BY <1>1, <1>2
<1>7. \A i \in 1..(n + 1) : entries[i] = kept[m + i]
  BY <1>1, <1>2
<1> HIDE DEF entries, kept, base, m, n
<1>8. \A i \in 1..(m + n + 1) : kept[i] = (events + 1) - (m + n + 1) + i
  <2>1. ASSUME NEW i \in 1..(m + n)
        PROVE  kept[i] = (events + 1) - (m + n + 1) + i
    <3>1. base[i] = events - (m + n) + i
      BY <1>3, <1>4
    <3>2. events - (m + n) + i = (events + 1) - (m + n + 1) + i
      BY <1>1
    <3>3. QED  BY <1>5, <3>1, <3>2
  <2>2. events + 1 = (events + 1) - (m + n + 1) + (m + n + 1)
    BY <1>1
  <2>3. \A i \in 1..(m + n + 1) : i \in 1..(m + n) \/ i = m + n + 1
    BY <1>1
  <2>4. QED  BY <1>6, <2>1, <2>2, <2>3
<1>9. \A i \in 1..(n + 1) : entries[i] = (events + 1) - (n + 1) + i
  <2>1. ASSUME NEW i \in 1..(n + 1)
        PROVE  /\ m + i \in 1..(m + n + 1) /\ entries[i] = kept[m + i]
               /\ (events + 1) - (m + n + 1) + (m + i) = (events + 1) - (n + 1) + i
    BY <1>1, <1>7
  <2>2. QED  BY <1>8, <2>1
<1>10. Numbered(kept, events + 1) /\ Numbered(entries, events + 1)
  BY <1>3, <1>8, <1>9 DEF Numbered
<1>11. QED  BY <1>2, <1>3, <1>10 DEF entries, kept, base

LEMMA AuditStep == ASSUME FilesInv, F!Audit PROVE FilesInv'
<1> DEFINE entries == Append(log, events + 1)
<1>1. UNCHANGED <<F!healthVars, F!keyVars>> /\ events' = events + 1
  BY DEF F!Audit, F!LogEvent, F!LogEventOnly
<1>2. /\ entries \in Seq(1..(events + 1)) /\ old \in Seq(1..(events + 1))
      /\ Len(old \o entries) = Len(old \o log) + 1
      /\ Numbered(old \o entries, events + 1) /\ Numbered(entries, events + 1)
  BY AppendKept
<1>3. \/ log' = entries /\ old' = old
      \/ log' = <<>> /\ old' = entries /\ ~(Len(entries) <= MaxLog)
  <2>1. CASE F!LogEvent
    BY <2>1 DEF F!LogEvent, F!Rotated
  <2>2. CASE F!LogEventOnly
    BY <2>2 DEF F!LogEventOnly
  <2>3. QED  BY <2>1, <2>2 DEF F!Audit
<1>4. events \in Nat /\ MaxLog \in Nat /\ log \in Seq(1..events)
  BY FilesAssumption DEF FilesInv, F!TypeOK
<1> HIDE DEF entries
<1>5. /\ log' \in Seq(1..events') /\ old' \in Seq(1..events')
      /\ Numbered(old' \o log', events')
      /\ Len(old' \o log') >= MaxLog \/ Len(old' \o log') = events'
  <2>1. CASE log' = entries /\ old' = old
    <3>1. Len(old \o log) >= MaxLog \/ Len(old \o log) = events
      BY DEF FilesInv, F!AuditKept
    <3>2. Len(old \o log) \in Nat
      BY <1>2, <1>4
    <3>3. QED  BY <1>1, <1>2, <1>4, <2>1, <3>1, <3>2
  <2>2. CASE log' = <<>> /\ old' = entries /\ ~(Len(entries) <= MaxLog)
    <3>1. entries \o <<>> = entries /\ Len(entries) \in Nat
      BY <1>2
    <3>2. QED  BY <1>1, <1>2, <1>4, <2>2, <3>1
  <2>3. QED  BY <1>3, <2>1, <2>2
<1>6. F!AuditKept'
  BY <1>5 DEF F!AuditKept, Numbered
<1>7. QED
  BY <1>1, <1>4, <1>5, <1>6 DEF FilesInv, F!TypeOK, F!NeverHalf, KeysUnderWay, Half,
                               Random, F!KeysPair, F!healthVars, F!keyVars

LEMMA FilesStep == ASSUME FilesInv, [F!Next]_fileVars PROVE FilesInv'
<1>1. CASE UNCHANGED fileVars
  BY <1>1 DEF fileVars, FilesInv, F!TypeOK, F!NeverHalf, KeysUnderWay, Half, Random,
              F!KeysPair, F!AuditKept
<1>2. QED  BY <1>1, HealthStep, KeysStep, AuditStep DEF F!Next

LEMMA PairMade == FilesInv => F!KeysPair
BY DEF FilesInv, KeysUnderWay

\* No crash leaves half a snapshot to be read, no generation that returns a mixture of
\* keys, and no rotation a gap in the audit log, for any size of it and any number of
\* writes (_write_health, generate_key_pair, AuditLogger.log).
THEOREM FilesWhole ==
  F!Spec => [](F!TypeOK /\ F!NeverHalf /\ F!KeysPair /\ F!AuditKept)
<1>1. FilesInv => F!TypeOK /\ F!NeverHalf /\ F!KeysPair /\ F!AuditKept
  BY PairMade DEF FilesInv
<1>2. FilesInv /\ [F!Next]_F!vars => FilesInv'
  BY FilesStep DEF F!vars, F!healthVars, F!keyVars, F!auditVars, fileVars
<1>3. QED  BY FilesInit, <1>1, <1>2, PTL DEF F!Spec

-----------------------------------------------------------------------------
(* All parts together: each makes its own steps or none.                    *)

LEMMA Turns ==
  [Next]_vars =>
    /\ [S!Next]_scriptVars /\ [A!Next]_agentVars /\ [C!Next]_cloudVars
    /\ [G!Next]_guardVars /\ [I!Next]_ipcVars /\ [K!Next]_cameraVars
    /\ [W!Next]_adapterVars /\ [D!Next]_discoveryVars /\ [F!Next]_fileVars
BY Zenon DEF Next, vars, aVars, bVars, F!Next

Inv == /\ ScriptsInv /\ AgentInv /\ CloudInv /\ GuardsInv /\ IpcInv
       /\ CamerasInv /\ AdaptersInv /\ DiscoveryInv /\ FilesInv

LEMMA InvInit == Init => Inv
<1> SUFFICES ASSUME Init PROVE Inv
  OBVIOUS
<1>1. /\ S!Init /\ C!Init /\ G!Init /\ I!Init /\ K!Init /\ W!Init /\ D!Init /\ F!Init
      /\ A!Init \/ AgentGone
  BY Zenon DEF Init, AgentGone
<1>2. QED
  BY <1>1, ScriptsInit, AgentInit, CloudInit, GuardsInit, IpcInit, CamerasInit,
     AdaptersInit, DiscoveryInit, FilesInit, Zenon DEF Inv

LEMMA InvStep == Inv /\ [Next]_vars => Inv'
<1> SUFFICES ASSUME Inv, [Next]_vars PROVE Inv'
  OBVIOUS
<1>1. /\ [S!Next]_scriptVars /\ [A!Next]_agentVars /\ [C!Next]_cloudVars
      /\ [G!Next]_guardVars /\ [I!Next]_ipcVars /\ [K!Next]_cameraVars
      /\ [W!Next]_adapterVars /\ [D!Next]_discoveryVars /\ [F!Next]_fileVars
  BY Turns, Zenon
<1>2. ScriptsInv' /\ AgentInv' /\ CloudInv'
  BY <1>1, ScriptsStep, AgentStep, CloudStep, Zenon DEF Inv
<1>3. GuardsInv' /\ IpcInv' /\ CamerasInv'
  BY <1>1, GuardsStep, IpcStep, CamerasStep, Zenon DEF Inv
<1>4. AdaptersInv' /\ DiscoveryInv' /\ FilesInv'
  BY <1>1, AdaptersStep, DiscoveryStep, FilesStep, Zenon DEF Inv
<1>5. QED  BY <1>2, <1>3, <1>4, Zenon DEF Inv

LEMMA PartsInvariant == Spec => []Inv
BY InvInit, InvStep, PTL DEF Spec

\* Every variable of every part holds what the code can put there.
THEOREM PartsTypeCorrect == Spec => []TypeOK
<1>1. Inv => TypeOK
  BY Zenon DEF Inv, TypeOK, ScriptsInv, AgentInv, CloudInv, GuardsInv, IpcInv,
               CamerasInv, AdaptersInv, DiscoveryInv, FilesInv
<1>2. QED  BY PartsInvariant, <1>1, PTL

\* Scripts stay within the limit, and no service outlives a start() that returns or
\* fails unreported, for any scripts and services.
THEOREM RunsAlwaysSafe == Spec => []RunsSafe
<1>1. Inv => RunsSafe
  BY SameCardinality, AgentSays
     DEF Inv, ScriptsInv, S!ActiveBounded, S!ActiveCount, Active, AgentInv, RunsSafe
<1>2. QED  BY PartsInvariant, <1>1, PTL

\* A key that was given works, no request that comes again as it was is served
\* again, and no client gets more than its rate, for any window, burst and rate.
THEOREM AccessAlwaysSafe == Spec => []AccessSafe
<1>1. Inv => AccessSafe
  BY DEF Inv, CloudInv, GuardsInv, ReplayInv, G!NoReplay, AccessSafe
<1>2. QED  BY PartsInvariant, <1>1, PTL

\* A client that lost its socket knows, and the network is told what the process
\* at hand knows, for any clients and any number of codes.
THEOREM NetworkAlwaysSafe == Spec => []NetworkSafe
<1>1. Inv => NetworkSafe
  BY Zenon DEF Inv, IpcInv, DiscoveryInv, RecordTold, D!TellsTruth, NetworkSafe
<1>2. QED  BY PartsInvariant, <1>1, PTL

\* The stream shows a camera that was found and the radio link starts on an
\* interface that is ready, for any cameras and adapters.
THEOREM DevicesAlwaysSafe == Spec => []DevicesSafe
<1>1. Inv => DevicesSafe
  BY Zenon DEF Inv, CamerasInv, AdaptersInv, DevicesSafe
<1>2. QED  BY PartsInvariant, <1>1, PTL

\* No crash leaves half a snapshot, no generation that returns a mixture of keys, and
\* no rotation a gap in the audit log, for any size of it.
THEOREM FilesAlwaysSafe == Spec => []FilesSafe
<1>1. Inv => FilesSafe
  BY PairMade, Zenon DEF Inv, FilesInv, FilesSafe
<1>2. QED  BY PartsInvariant, <1>1, PTL

\* A script that a stop was acknowledged for is never reported completed or failed
\* afterwards, unless its output broke its task (stop_script, _run_script).
THEOREM CancelAlwaysSticks == Spec => CancelSticks
<1>1. Inv /\ [Next]_vars => [S!CancelSticks]_vars
  BY Turns, CancelStep, Zenon DEF Inv
<1>2. QED  BY PartsInvariant, <1>1, PTL DEF Spec, CancelSticks
=============================================================================
