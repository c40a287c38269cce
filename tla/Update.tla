------------------------------- MODULE Update -------------------------------
(***************************************************************************)
(* What the updater promises.  The package changes in two steps: to the    *)
(* new wheel, then to the record of it; a restart makes up for the record. *)
(* Nothing else changes it in between; an install never goes back, and the *)
(* version to come back to is on disk before the package changes.  It      *)
(* promises nothing once two of its calls were under way at once.          *)
(***************************************************************************)
EXTENDS Naturals

VARIABLES
  released,  \* the newest release
  package,   \* the version that is installed
  half,      \* is it installed and not yet recorded?
  shown,     \* the version the agent says it is
  before,    \* the version a rollback would install, 0 for none
  saved,     \* what a restarted agent will take for "before", 0 for none
  lost       \* were two calls under way at once?

updateVars == <<released, package, half, shown, before, saved, lost>>

Init ==
  /\ released = 1 /\ package = 1 /\ half = FALSE
  /\ shown = 1 /\ before = 0 /\ saved = 0 /\ lost = FALSE

Release == released' = released + 1 /\ UNCHANGED <<package, half, shown, before, saved>>

\* A state file that could not be written is the old one or an empty one.
Save ==
  /\ ~half /\ saved' \in {shown, 0}
  /\ UNCHANGED <<released, package, half, shown, before>>

Install ==
  /\ ~half /\ saved = shown
  /\ package' \in package..released /\ half' = TRUE
  /\ UNCHANGED <<released, shown, before, saved>>

GoBack ==
  /\ ~half /\ before # 0
  /\ package' = before /\ half' = TRUE
  /\ UNCHANGED <<released, shown, before, saved>>

Record ==
  /\ half /\ half' = FALSE
  /\ before' = shown /\ shown' = package
  /\ UNCHANGED <<released, package, saved>>

\* A death in the middle of Save leaves nothing saved.
Restart ==
  /\ half' = FALSE
  /\ \/ saved' = saved
     \/ ~half /\ saved' = 0
  /\ before' = saved' /\ shown' = package
  /\ UNCHANGED <<released, package>>

Keep == ~lost' /\ (Release \/ Save \/ Install \/ GoBack \/ Record \/ Restart)

Lose == lost' = TRUE

Next == Keep \/ Lose

Spec == Init /\ [][Next]_updateVars
=============================================================================
