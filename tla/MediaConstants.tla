---------------------------- MODULE MediaConstants ----------------------------
(***************************************************************************)
(* The parameters of VideoService, Recorder and Radio.                     *)
(***************************************************************************)
EXTENDS Naturals

CONSTANTS
  CloudPush,     \* is config.video.cloud_relay_url set?
  Requests,      \* the requests to the recorder that may be under way together
  MaxRecordings, \* bound: how many ffmpeg processes it ever starts
  MaxRestarts    \* WfbManager._max_restarts

ASSUME CloudPushAssumption == CloudPush \in BOOLEAN

\* Callers of the recorder are its requests and, by number, the storage checks of
\* its recordings; 0 is no caller.
ASSUME RecorderAssumption ==
  MaxRecordings \in Nat /\ Requests \cap 0..MaxRecordings = {}

ASSUME RadioAssumption == MaxRestarts \in Nat \ {0}
=============================================================================
