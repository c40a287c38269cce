--------------------------- MODULE MCSupervisor ---------------------------
(* The constants of Supervisor for TLC.                                     *)
EXTENDS Supervisor

CONSTANT survey

MCSuites == {survey}

\* One core and one hardware service; the suite names both.
SmallRegCategory == <<"core", "hardware">>
SmallHardware == {2}
SmallManifest == [id \in MCSuites |-> <<2, 1>>]

\* The suite needs the hardware service only.
TakesVideo == [id \in MCSuites |-> <<2>>]
==========================================================================
