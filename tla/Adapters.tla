-------------------------------- MODULE Adapters --------------------------------
(***************************************************************************)
(* Which Wi-Fi interface carries the WFB-ng link, and how it gets into     *)
(* monitor mode: each round of WfbManager.run() lists the interfaces, picks*)
(* one and runs three commands on it, any of which may fail, while adapters*)
(* come and go.  The link's two processes are module Radio's.  The commands*)
(* and the interfaces (Linux) are external.                                *)
(***************************************************************************)
EXTENDS Naturals

CONSTANTS
  Wfb,       \* interfaces of adapters with a chipset known to work
  Other,     \* the others, the board's own say
  Capable    \* those whose phy lists monitor mode

VARIABLES
  configured,  \* config.interface
  inserted,    \* interfaces there are
  mode,        \* of each
  up,          \* is it up?
  step,        \* where run() is
  interface,   \* _interface
  same         \* has it been there since the first command on it?

vars    == <<configured, inserted, mode, up, step, interface, same>>
devices == <<inserted, mode, up>>

Iface == Wfb \cup Other
None  == "none"

-----------------------------------------------------------------------------
(* The interfaces.                                                          *)

Insert(i) ==
  /\ inserted' = inserted \cup {i}
  /\ mode' = [mode EXCEPT ![i] = "managed"] /\ up' = [up EXCEPT ![i] = FALSE]
  /\ UNCHANGED <<configured, step, interface, same>>

Remove(i) ==
  /\ inserted' = inserted \ {i}
  /\ same' = (same /\ interface # i)
  /\ UNCHANGED <<configured, mode, up, step, interface>>

-----------------------------------------------------------------------------
(* The HAL.                                                                 *)

\* lsusb, iw dev and iw phy say what there is; one that is missing, fails or
\* hangs says nothing.
Radios     == {{}, inserted \cap Wfb}
Interfaces == {{}, inserted}
Monitors   == {{}, inserted \cap Capable}

\* A compatible adapter on the bus speaks for every interface there is: one that
\* matches no USB device by name is compatible if any device is.
Compatible(radios, interfaces) == IF radios = {} THEN {} ELSE interfaces

-----------------------------------------------------------------------------
(* WfbManager.run().                                                        *)

\* The first candidate, in the order of iw dev.  A round without one changes
\* nothing; the next comes after the backoff.
Detect ==
  /\ step = "find" /\ configured = None
  /\ \E radios \in Radios, interfaces \in Interfaces, monitors \in Monitors :
       interface' \in Compatible(radios, interfaces) \cap monitors
  /\ step' = "down"
  /\ UNCHANGED <<configured, devices, same>>

\* The configured interface is taken as it is, whether it is there or not.
TakeConfigured ==
  /\ step = "find" /\ configured # None
  /\ interface' = configured
  /\ step' = "down"
  /\ UNCHANGED <<configured, devices, same>>

LinkDown ==
  /\ step = "down" /\ step' = "mode"
  /\ interface \in inserted
  /\ up' = [up EXCEPT ![interface] = FALSE] /\ same' = TRUE
  /\ UNCHANGED <<configured, inserted, mode, interface>>

SetMonitor ==
  /\ step = "mode" /\ step' = "up"
  /\ interface \in inserted \cap Capable
  /\ mode' = [mode EXCEPT ![interface] = "monitor"]
  /\ UNCHANGED <<configured, inserted, up, interface, same>>

LinkUp ==
  /\ step = "up" /\ step' = "started"
  /\ interface \in inserted
  /\ up' = [up EXCEPT ![interface] = TRUE]
  /\ UNCHANGED <<configured, inserted, mode, interface, same>>

\* Slip: the result of the last command is not looked at.
CommandFailsUnseen ==
  /\ step \in {"down", "mode", "up"}
  /\ step' = IF step = "up" THEN "started" ELSE "find"
  /\ UNCHANGED <<configured, devices, interface, same>>

\* Slip: the interface that failed is tried again.
CommandFailsSticky ==
  /\ step \in {"down", "mode", "up"}
  /\ step' = "down"
  /\ UNCHANGED <<configured, devices, interface, same>>

\* A command fails, is missing or hangs: the commands before it stay done, and
\* the next round looks for an adapter again.
CommandFails ==
  /\ step \in {"down", "mode", "up"} /\ step' = "find"
  /\ UNCHANGED <<configured, devices, interface, same>>

\* The link's processes have ended, or did not start: the next round, or, after
\* _max_restarts of them, the end of run().
Ends ==
  /\ step = "started" /\ step' \in {"find", "ended"}
  /\ UNCHANGED <<configured, devices, interface, same>>

Init ==
  /\ configured \in Iface \cup {None}
  /\ inserted \in SUBSET Iface
  /\ mode = [i \in Iface |-> "managed"] /\ up \in [Iface -> BOOLEAN]
  /\ step = "find" /\ interface = None /\ same = FALSE

Round ==
  \/ Detect \/ TakeConfigured
  \/ LinkDown \/ SetMonitor \/ LinkUp \/ CommandFails

Next ==
  \/ \E i \in Iface \ inserted : Insert(i)
  \/ \E i \in inserted : Remove(i)
  \/ Round \/ Ends

Spec == Init /\ [][Next]_vars

\* The loop goes on, and the tools that list adapters do not fail for ever.
Fairness == WF_vars(Round)

FairSpec == Spec /\ Fairness
-----------------------------------------------------------------------------
(* Properties.                                                              *)

TypeOK ==
  /\ configured \in Iface \cup {None} /\ inserted \subseteq Iface
  /\ mode \in [Iface -> {"managed", "monitor"}] /\ up \in [Iface -> BOOLEAN]
  /\ step \in {"find", "down", "mode", "up", "started", "ended"}
  /\ interface \in Iface \cup {None} /\ same \in BOOLEAN

\* The processes of the link are started only on an interface that is in monitor
\* mode and up, whatever failed before, unless the adapter was taken away.
LinkReady ==
  step = "started" /\ same => mode[interface] = "monitor" /\ up[interface]

\* Once an adapter that works is there and none comes or goes any more, and
\* commands fail only for what the interface is, the link is started, unless
\* run() has ended, whatever was chosen before and wherever that failed.
LinkStarts ==
  /\ <>[](configured = None /\ inserted \cap Wfb \cap Capable # {})
  /\ <>[][/\ UNCHANGED inserted
          /\ CommandFails => interface \notin inserted \cap Capable]_vars
  => []<>(step \in {"started", "ended"})
=============================================================================
