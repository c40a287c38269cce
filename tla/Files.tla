--------------------------------- MODULE Files ---------------------------------
(***************************************************************************)
(* Files the agent writes and what is in them after a crash, at any point: *)
(* the snapshot of the health service, the keys of the radio link and the  *)
(* audit log.  Whoever reads them is another process, or the writer's next *)
(* life.                                                                   *)
(***************************************************************************)
EXTENDS Integers, Sequences

CONSTANTS
  MaxLog,      \* entries that fit under MAX_LOG_SIZE_BYTES
  MaxWrites    \* bound: writes of each kind

VARIABLES
  health,    \* health.json: "none", "partial" or "whole"
  writing,   \* where the health service is
  tmp,       \* its temporary file
  keys,      \* the key files, by name
  keygen,    \* where generate_key_pair() is
  made,      \* generations begun
  log,       \* the audit log, of numbered events
  old,       \* the rotated one
  events     \* events logged

healthVars == <<health, writing, tmp>>
keyVars    == <<keys, keygen, made>>
auditVars  == <<log, old, events>>
vars       == <<healthVars, keyVars, auditVars>>

-----------------------------------------------------------------------------
(* The health service.                                                      *)

\* Slip: the snapshot is written in place.
WriteInPlace ==
  /\ writing = "loop"
  /\ writing' = "replace" /\ tmp' = "partial" /\ health' = "partial"
  /\ UNCHANGED <<keyVars, auditVars>>

\* Opened, and truncated; what it is to hold comes with the next step.
WriteTmp ==
  /\ writing = "loop"
  /\ writing' = "replace" /\ tmp' = "partial"
  /\ UNCHANGED <<health, keyVars, auditVars>>

\* os.replace; or the write raises, and the loop goes on.
Replace ==
  /\ writing = "replace" /\ writing' = "loop"
  /\ \/ tmp' = "none" /\ health' = "whole"
     \/ tmp' \in {"partial", "whole"} /\ UNCHANGED health
  /\ UNCHANGED <<keyVars, auditVars>>

\* The signal ends the loop, and the file goes.
HealthStops ==
  /\ writing = "loop"
  /\ writing' = "off" /\ health' = "none"
  /\ UNCHANGED <<tmp, keyVars, auditVars>>

HealthStarts ==
  /\ writing = "off" /\ writing' = "loop"
  /\ UNCHANGED <<health, tmp, keyVars, auditVars>>

-----------------------------------------------------------------------------
(* Keys of the radio link.                                                  *)

Name == {"gs", "drone", "tx", "rx"}

\* What is in a file, and which generation put it there.
File(kind, of) == [kind |-> kind, of |-> of]
NoFile == File("none", 0)

GenerateKeys ==
  /\ keygen \in {"off", "made"} /\ keygen' = "keygen"
  /\ made < MaxWrites /\ made' = made + 1
  /\ UNCHANGED <<keys, healthVars, auditVars>>

Goes(from, to) ==
  /\ keygen = from /\ keygen' = to
  /\ UNCHANGED <<made, healthVars, auditVars>>

\* wfb_keygen writes the halves of a pair, then they are renamed one by one.
KeygenRuns ==
  /\ Goes("keygen", "renameTx")
  /\ keys' = [keys EXCEPT !["gs"] = File("half", made), !["drone"] = File("half", made)]

\* It is not there, fails or hangs, with what it wrote until then.
KeygenFails ==
  /\ Goes("keygen", "openTx")
  /\ \E left \in SUBSET {"gs", "drone"} :
       keys' = [n \in Name |-> IF n \in left THEN File("half", made) ELSE keys[n]]

RenameTx ==
  /\ Goes("renameTx", "renameRx")
  /\ keys' = [keys EXCEPT !["tx"] = keys["gs"], !["gs"] = NoFile]

RenameRx ==
  /\ Goes("renameRx", "made")
  /\ keys' = [keys EXCEPT !["rx"] = keys["drone"], !["drone"] = NoFile]

\* The program's own keys are two files of random bytes, no pair; each is
\* truncated before it is written.
OpenTx == Goes("openTx", "writeTx") /\ keys' = [keys EXCEPT !["tx"] = File("empty", made)]

WriteTx == Goes("writeTx", "openRx") /\ keys' = [keys EXCEPT !["tx"] = File("random", made)]

\* Slip: a key that is there is not written over.
OpenRxOnce ==
  \/ keys["rx"] = NoFile /\ Goes("openRx", "writeRx")
     /\ keys' = [keys EXCEPT !["rx"] = File("empty", made)]
  \/ keys["rx"] # NoFile /\ Goes("openRx", "made") /\ UNCHANGED keys

OpenRx == Goes("openRx", "writeRx") /\ keys' = [keys EXCEPT !["rx"] = File("empty", made)]

WriteRx == Goes("writeRx", "made") /\ keys' = [keys EXCEPT !["rx"] = File("random", made)]

\* What the link manager asks before it starts its processes, and an empty file
\* satisfies.
KeyExists == keys["tx"] # NoFile /\ keys["rx"] # NoFile

-----------------------------------------------------------------------------
(* The audit log.                                                           *)

\* Slip: what was rotated before is kept instead.
RotatedKeep(entries) ==
  IF Len(entries) <= MaxLog THEN <<entries, old>>
  ELSE <<<<>>, IF old = <<>> THEN entries ELSE old>>

\* A log over its size takes the place of the one rotated before.
Rotated(entries) ==
  IF Len(entries) <= MaxLog THEN <<entries, old>> ELSE <<<<>>, entries>>

LogEvent ==
  /\ events < MaxWrites * MaxLog + MaxLog
  /\ events' = events + 1
  /\ LET now == Rotated(Append(log, events + 1)) IN log' = now[1] /\ old' = now[2]
  /\ UNCHANGED <<healthVars, keyVars>>

\* The process dies between the append and the rotation, or the move fails; the
\* next event makes up for it.
LogEventOnly ==
  /\ events < MaxWrites * MaxLog + MaxLog
  /\ events' = events + 1
  /\ log' = Append(log, events + 1)
  /\ UNCHANGED <<old, healthVars, keyVars>>

-----------------------------------------------------------------------------

\* A process dies.  The files stay.
HealthDies ==
  /\ writing' = "off"
  /\ UNCHANGED <<health, tmp, keyVars, auditVars>>

\* Or a file cannot be written, and generate_key_pair() raises.
KeygenDies ==
  /\ keygen' = "off"
  /\ UNCHANGED <<keys, made, healthVars, auditVars>>

Init ==
  /\ health = "none" /\ writing = "off" /\ tmp = "none"
  /\ keys = [n \in Name |-> NoFile] /\ keygen = "off" /\ made = 0
  /\ log = <<>> /\ old = <<>> /\ events = 0

Health == HealthStarts \/ WriteTmp \/ Replace \/ HealthStops \/ HealthDies

Keys ==
  \/ GenerateKeys \/ KeygenRuns \/ KeygenFails
  \/ RenameTx \/ RenameRx \/ OpenTx \/ WriteTx \/ OpenRx \/ WriteRx \/ KeygenDies

Audit == LogEvent \/ LogEventOnly

Next == Health \/ Keys \/ Audit

Spec == Init /\ [][Next]_vars
-----------------------------------------------------------------------------
(* Properties.                                                              *)

TypeOK ==
  /\ health \in {"none", "partial", "whole"} /\ tmp \in {"none", "partial", "whole"}
  /\ writing \in {"off", "loop", "replace"}
  /\ keys \in [Name -> [kind : {"none", "empty", "half", "random"}, of : 0..made]]
  /\ keygen \in {"off", "keygen", "renameTx", "renameRx", "openTx", "writeTx",
                 "openRx", "writeRx", "made"}
  /\ log \in Seq(1..events) /\ old \in Seq(1..events)

\* Whoever reads health.json, whenever its writer dies, never reads half of it.
NeverHalf == health # "partial"

\* A generation that returns leaves both files written by itself and whole, and
\* either the halves of its pair or its two random keys, never one of each,
\* whatever earlier ones that died or fell back left behind.
KeysPair ==
  keygen = "made" =>
    \E kind \in {"half", "random"} :
      keys["tx"] = File(kind, made) /\ keys["rx"] = File(kind, made)

\* The two audit files hold the newest events without a gap, and with rotation
\* and crashes never fewer than fit in one file.
AuditKept ==
  LET kept == old \o log IN
  /\ \A i \in DOMAIN kept : kept[i] = events - Len(kept) + i
  /\ Len(kept) >= MaxLog \/ Len(kept) = events
=============================================================================
