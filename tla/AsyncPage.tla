------------------------------ MODULE AsyncPage ------------------------------
(***************************************************************************)
(* What the pages of the admin console share (libs/feature/src/shared.ts). *)
(* A page runs its work under a serial number.  Only the newest run sets   *)
(* the error and ends the busy state; an older one keeps running, and      *)
(* whether it still writes to the page is up to the work: it is given      *)
(* isCurrent, which not every page calls.                                  *)
(*                                                                         *)
(* A serial is only compared with the newest one, so the newest run is     *)
(* current and every other run in flight is not.                           *)
(***************************************************************************)
EXTENDS Naturals, FiniteSets

CONSTANTS
  Run,     \* identities for the runs in flight at once (a bound)
  None

VARIABLES
  alive,   \* the page is there
  current, \* the run with the newest serial, None once it has ended
  busy,
  error    \* an error is shown

asyncVars == <<alive, current, busy, error>>

ASSUME RunAssumption == None \notin Run

AsyncInit == alive = FALSE /\ current = None /\ busy = FALSE /\ error = FALSE

Start(r) ==
  /\ current' = r
  /\ busy' = TRUE
  /\ error' = FALSE

\* Mutant: every run that ends clears the busy state.
EndsBusy(r, failed) ==
  /\ current' = (IF r = current THEN None ELSE current)
  /\ busy' = FALSE
  /\ error' = ((r = current /\ failed) \/ error)

(* The end of run r, with an error or without. *)
End(r, failed) ==
  IF r = current
  THEN current' = None /\ busy' = FALSE /\ error' = (failed \/ error)
  ELSE UNCHANGED <<current, busy, error>>

AsyncTypeOK ==
  /\ alive \in BOOLEAN /\ busy \in BOOLEAN /\ error \in BOOLEAN
  /\ current \in Run \cup {None}
  /\ busy <=> current # None
===============================================================================
