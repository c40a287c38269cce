-------------------------------- MODULE Discovery --------------------------------
(***************************************************************************)
(* What the agent says of itself on the local network: the TXT record of   *)
(* its mDNS service against the pairing state of the process that keeps it,*)
(* which is the single-process agent or ados-discovery.  How pairing       *)
(* changes, and the file it is kept in, is module Cloud's; what changes    *)
(* with it is said again when the process tells.  zeroconf is external.    *)
(***************************************************************************)
EXTENDS Naturals

CONSTANT MaxCodes   \* bound: pairing codes made

VARIABLES
  inAgent,   \* is it the single-process agent?
  running,   \* is the process?
  paired,    \* _state of its PairingManager
  code,      \* its code, by number; 0 for none
  expired,   \* is that older than its time to live?
  codes,     \* codes made
  zeroconf,  \* is anything registered?
  record,    \* what is
  missed     \* has an update of the record failed since?

pairingVars == <<paired, code, expired, codes>>
recordVars  == <<zeroconf, record, missed>>
vars        == <<inAgent, running, pairingVars, recordVars>>

\* A code and an owner are never told together.
Records(isPaired, c) == [paired |-> isPaired, code |-> IF isPaired THEN 0 ELSE c]

\* get_or_create_code(): codes' and what the code is after it.
Renewed == ~paired /\ (code = 0 \/ expired)

GetCode ==
  IF Renewed
  THEN /\ codes < MaxCodes
       /\ codes' = codes + 1 /\ code' = codes + 1 /\ expired' = FALSE
  ELSE UNCHANGED <<code, expired, codes>>

\* update_txt() of a service that is registered: zeroconf takes it, or it is
\* logged that it failed.
UpdateTxt ==
  /\ UNCHANGED zeroconf
  /\ \/ zeroconf /\ record' = Records(paired', code') /\ missed' = FALSE
     \/ UNCHANGED record /\ missed' = zeroconf

\* The process starts with what the file says and registers; when that fails it
\* runs on without.
Register ==
  /\ ~running /\ running' = TRUE
  /\ GetCode
  /\ zeroconf' \in BOOLEAN /\ record' = Records(paired, code') /\ missed' = FALSE
  /\ UNCHANGED <<inAgent, paired>>

CodeExpires ==
  /\ code # 0 /\ codes < MaxCodes /\ expired' = TRUE
  /\ UNCHANGED <<inAgent, running, paired, code, codes, recordVars>>

\* Slip: the record is made of what get_info() is about to replace.
RefreshFirst ==
  /\ running /\ ~inAgent
  /\ GetCode
  /\ \/ zeroconf /\ record' = Records(paired, code) /\ missed' = FALSE
     \/ UNCHANGED record /\ missed' = zeroconf
  /\ UNCHANGED <<inAgent, running, paired, zeroconf>>

\* Each 30 s of ados-discovery.
Refresh ==
  /\ running /\ ~inAgent
  /\ GetCode /\ UNCHANGED paired /\ UpdateTxt
  /\ UNCHANGED <<inAgent, running>>

\* The agent's beacon and GET /pairing/info renew the code and tell nobody.
Renew ==
  /\ running /\ inAgent /\ Renewed
  /\ GetCode
  /\ UNCHANGED <<inAgent, running, paired, recordVars>>

\* POST /pairing/claim.
Claim ==
  /\ running /\ inAgent /\ ~paired
  /\ paired' = TRUE /\ code' = 0 /\ expired' = FALSE /\ UNCHANGED codes
  /\ UpdateTxt
  /\ UNCHANGED <<inAgent, running>>

\* A claim or an unpairing that cannot be saved, or the code after it that
\* cannot, raises before the record.
ChangeUnsaved ==
  /\ running /\ inAgent
  /\ paired' = ~paired /\ expired' = FALSE
  /\ \/ code' = 0 /\ UNCHANGED codes
     \/ paired /\ codes < MaxCodes /\ codes' = codes + 1 /\ code' = codes + 1
  /\ missed' = zeroconf
  /\ UNCHANGED <<inAgent, running, zeroconf, record>>

\* Slip: unpairing tells the network nothing.
UnpairSilent ==
  /\ running /\ inAgent /\ paired /\ codes < MaxCodes
  /\ paired' = FALSE /\ codes' = codes + 1 /\ code' = codes + 1 /\ expired' = FALSE
  /\ UNCHANGED <<inAgent, running, recordVars>>

\* POST /pairing/unpair.
Unpair ==
  /\ running /\ inAgent /\ paired /\ codes < MaxCodes
  /\ paired' = FALSE /\ codes' = codes + 1 /\ code' = codes + 1 /\ expired' = FALSE
  /\ UpdateTxt
  /\ UNCHANGED <<inAgent, running>>

\* The service unregisters; or the process dies, and its record with it.  The
\* next one finds what the file says by then.
Unregister ==
  /\ running /\ running' = FALSE
  /\ zeroconf' = FALSE /\ missed' = FALSE /\ UNCHANGED record
  /\ paired' \in BOOLEAN
  /\ code' \in IF paired' THEN {0} ELSE {0, code}
  /\ expired' = (code' # 0 /\ expired)
  /\ UNCHANGED <<inAgent, codes>>

Init ==
  /\ inAgent \in BOOLEAN /\ running = FALSE
  /\ paired \in BOOLEAN /\ code = 0 /\ expired = FALSE /\ codes = 0
  /\ zeroconf = FALSE /\ record = Records(paired, 0) /\ missed = FALSE

Next ==
  \/ Register \/ CodeExpires \/ Refresh \/ Renew
  \/ Claim \/ ChangeUnsaved \/ Unpair \/ Unregister

Spec == Init /\ [][Next]_vars
-----------------------------------------------------------------------------
(* Properties.                                                              *)

TypeOK ==
  /\ {inAgent, running, paired, expired, zeroconf, missed} \subseteq BOOLEAN
  /\ code \in 0..codes /\ codes \in 0..MaxCodes
  /\ record \in [paired : BOOLEAN, code : 0..codes]

\* Unless an update of the record failed, whoever looks for the single-process
\* agent on the network reads whether it is paired as it is, through claims,
\* unpairings and restarts; ados-discovery, which never reads the file again and
\* knows of no claim made elsewhere, tells at least the code it made last, however
\* often codes expire.
TellsTruth ==
  zeroconf /\ ~missed =>
    IF inAgent THEN record.paired = paired ELSE record.code = code
=============================================================================
