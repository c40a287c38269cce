--------------------------------- MODULE Media ---------------------------------
(***************************************************************************)
(* The video service, the recorder and the radio link service, which share *)
(* no state, in one run: part says which of them a behaviour exercises,    *)
(* and the others do not move.                                             *)
(***************************************************************************)
EXTENDS MediaConstants

VARIABLES
  part,
  state, assigned, encoder, push, mediamtx, running, shutdown, pc, lost,
  recording, process, check, ffmpeg, started, diskFull, caller, waits, clashed,
  link, proc, up, restarts, watched, txOk, signalled, task, rounds, dropped

V == INSTANCE VideoService
R == INSTANCE Recorder WITH pc <- caller
W == INSTANCE Radio WITH
       state <- link, running <- up, shutdown <- signalled, pc <- task,
       lost <- dropped

videoVars    == <<state, assigned, encoder, push, mediamtx, running, shutdown, pc, lost>>
recorderVars == <<recording, process, check, ffmpeg, started, diskFull, caller, waits,
                  clashed>>
radioVars    == <<link, proc, up, restarts, watched, txOk, signalled, task, rounds, dropped>>
vars         == <<part, videoVars, recorderVars, radioVars>>

Init ==
  /\ part \in {"video", "recorder", "radio"}
  /\ V!Init /\ W!Init
  /\ R!Init /\ (part # "recorder" => diskFull = FALSE)

Next ==
  \/ part = "video" /\ V!Next /\ UNCHANGED <<part, recorderVars, radioVars>>
  \/ part = "recorder" /\ R!Next /\ UNCHANGED <<part, videoVars, radioVars>>
  \/ part = "radio" /\ W!Next /\ UNCHANGED <<part, videoVars, recorderVars>>

\* Each part has its fairness where it is the one that moves.
Spec ==
  /\ Init /\ [][Next]_vars
  /\ part = "video" => V!Fairness
  /\ part = "recorder" => R!Fairness
  /\ part = "radio" => W!Fairness
-----------------------------------------------------------------------------
(* Properties: those of the parts, where they are stated and explained.     *)

\* Every variable of the three holds what the code can put there.
TypeOK == V!TypeOK /\ R!TypeOK /\ W!TypeOK

\* Video: one that holds no live encoder behind when main() has ended.
EncoderGoneAtExit == V!EncoderGoneAtExit

\* Video: no handle on a live encoder is let go.
OneEncoder == V!OneEncoder

\* Video: a dead encoder is restarted.
EncoderRestarted == V!EncoderRestarted

\* Video: a signal ends the service.
ShutdownEnds == V!ShutdownEnds

\* Recorder: no live ffmpeg without its handle, until starts clash.
LiveIsHeld == R!LiveIsHeld

\* Recorder: no request waits for ever.
RequestsEnd == R!RequestsEnd

\* Radio: no live process without its handle, none at exit.
NoOrphan == W!NoOrphan

\* Radio: the processes are started MaxRestarts times.
RestartsBounded == W!RestartsBounded

\* Radio: given up means down, and says so.
GivenUpClean == W!GivenUpClean

\* Radio: a dead receiver is noticed.
DeathNoticed == W!DeathNoticed

\* Radio: a signal ends the service.
RadioEnds == W!ShutdownEnds
=============================================================================
