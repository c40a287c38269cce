-------------------------------- MODULE Cameras --------------------------------
(***************************************************************************)
(* Which camera the video stream shows: at each start of the stream, also  *)
(* the health loop's restarts, VideoPipeline asks the HAL for the cameras  *)
(* there are and CameraManager gives them their roles.  Cameras come and   *)
(* go meanwhile.  The stream's processes are module VideoService's.        *)
(***************************************************************************)
EXTENDS Naturals, Sequences, SequencesExt

CONSTANTS Csi, Usb   \* cameras, by how they are attached

VARIABLES
  plugged,   \* cameras that are attached
  cameras,   \* _cameras, as discovered last
  roles,     \* _assignments
  streaming, \* "stopped", "running" or "error"
  source     \* the camera the running encoder was started on

vars == <<plugged, cameras, roles, streaming, source>>

Camera == Csi \cup Usb
Role   == {"primary", "secondary"}
None   == "none"

Plug(c) ==
  /\ plugged' = plugged \cup {c}
  /\ UNCHANGED <<cameras, roles, streaming, source>>

Unplug(c) ==
  /\ plugged' = plugged \ {c}
  /\ UNCHANGED <<cameras, roles, streaming, source>>

\* One tool lists the cameras of each kind; one that is missing, fails or hangs
\* lists none.  No IP sources are configured for the pipeline.
Listed(kind) == {<<>>} \cup SetToSeqs(plugged \cap kind)

\* CSI cameras come before USB cameras in the order of the lists.
Discovered == {csi \o usb : csi \in Listed(Csi), usb \in Listed(Usb)}

\* Slip: a role that has a camera keeps it.
AutoAssignFree(found) ==
  [r \in Role |->
     IF roles[r] # None THEN roles[r]
     ELSE IF r = "primary" /\ Len(found) >= 1 THEN found[1]
     ELSE IF r = "secondary" /\ Len(found) >= 2 THEN found[2] ELSE None]

AssignRole(assigned, camera, role) == [assigned EXCEPT ![role] = camera]

\* A role for which there is no camera now keeps the one it had.
AutoAssign(found) ==
  LET first == IF Len(found) >= 1 THEN AssignRole(roles, found[1], "primary") ELSE roles
  IN IF Len(found) >= 2 THEN AssignRole(first, found[2], "secondary") ELSE first

\* start_stream(): the encoder starts on the primary camera, or there is none,
\* or no encoder.
StartStream ==
  \E found \in Discovered :
    /\ cameras' = found /\ roles' = AutoAssign(found)
    /\ \/ /\ roles'["primary"] # None
          /\ streaming' = "running" /\ source' = roles'["primary"]
       \/ streaming' = "error" /\ source' = None
    /\ UNCHANGED plugged

Boot == streaming = "stopped" /\ StartStream

\* The health loop finds the encoder gone: its camera was, or it crashed.
Restart == streaming = "running" /\ StartStream

Init ==
  /\ plugged \in SUBSET Camera
  /\ cameras = <<>> /\ roles = [r \in Role |-> None]
  /\ streaming = "stopped" /\ source = None

Next ==
  \/ Boot \/ Restart
  \/ \E c \in Camera \ plugged : Plug(c)
  \/ \E c \in plugged : Unplug(c)

Spec == Init /\ [][Next]_vars
-----------------------------------------------------------------------------
(* Properties.                                                              *)

TypeOK ==
  /\ plugged \subseteq Camera /\ cameras \in Seq(Camera)
  /\ roles \in [Role -> Camera \cup {None}]
  /\ streaming \in {"stopped", "running", "error"} /\ source \in Camera \cup {None}

\* However cameras were swapped between restarts, the stream shows a camera its
\* last start found, if that found any, and a CSI camera if it found one.
ShowsFound ==
  streaming = "running" /\ cameras # <<>> =>
    source \in ToSet(cameras) /\ (ToSet(cameras) \cap Csi # {} => source \in Csi)
=============================================================================
