------------------------------- MODULE QRPanel -------------------------------
(***************************************************************************)
(* The QR page: the staff list, the panel of the selected member with the  *)
(* code, its printable image and what can be done to it                    *)
(* (libs/feature/src/qr.ts).                                               *)
(*                                                                         *)
(* No run asks whether it is still current, so answers for two members     *)
(* that were selected one after the other can be mixed up.  The module     *)
(* records when that can be and shows that nothing else mixes them up.     *)
(*                                                                         *)
(* What the server answers is read when it arrives: whose answer it is     *)
(* matters here, not how old it is.  The list, its filters and the print   *)
(* preview, which shows the image of the panel, are left out.              *)
(***************************************************************************)
EXTENDS AsyncPage

CONSTANTS
  Staff,
  Wanted       \* the member named in the address (?staffId=), or None

VARIABLES
  selected,
  qr,          \* the code shown: whose it is and its status
  image,       \* whose image is shown
  confirming,  \* the confirmation dialog is open
  action,      \* what it confirms
  chosen,      \* history: the member selected when the dialog opened
  works,       \* works[r]: what run r waits for
  status,      \* server: the status of each member's code
  overlapped,  \* history: the panel was last loaded during another load of it
  unsettled    \* history: the dialog opened during a change of another's code

qrVars == <<selected, qr, image, confirming, action, chosen, works, status, overlapped,
            unsettled>>
panel == <<selected, qr, image, overlapped>>
question == <<confirming, action, chosen, unsettled>>

Status == {"NOT_GENERATED", "ACTIVE", "DISABLED"}
Action == {"batch", "regenerate", "disable"}
Change == {"generate", "regenerate", "disable"}
Stage == {"list", "file", "batch", "code", "image"} \cup Change
Work == [stage : Stage, staff : Staff \cup {None}, closes : BOOLEAN]

ASSUME QRAssumption ==
  /\ None \notin Staff \cup Work \cup Action \cup [staff : Staff, status : Status]
  /\ Wanted \in Staff \cup {None}

-------------------------------------------------------------------------------
Job(stage, s, closes) == [stage |-> stage, staff |-> s, closes |-> closes]

Begin(r, job) ==
  /\ works[r] = None
  /\ Start(r)
  /\ works' = [works EXCEPT ![r] = job]

(* A run ends; that of a confirmation closes the dialog if nothing failed.   *)
Finish(r) ==
  /\ End(r, FALSE)
  /\ confirming' = (confirming /\ ~works[r].closes)
  /\ works' = [works EXCEPT ![r] = None]

LoadsPanel(x) == works[x] # None /\ works[x].stage \in {"code", "image"}

\* Mutant: the code of the member selected before stays until the new one is there.
loadQRKeepsCode(r, s, closes) ==
  /\ selected' = s
  /\ works' = [works EXCEPT ![r] = Job("code", s, closes)]
  /\ overlapped' = \E x \in Run \ {r} : LoadsPanel(x)
  /\ UNCHANGED <<qr, image>>

(* loadQR(s) within run r. *)
loadQR(r, s, closes) ==
  /\ selected' = s
  /\ qr' = None
  /\ works' = [works EXCEPT ![r] = Job("code", s, closes)]
  /\ overlapped' = \E x \in Run \ {r} : LoadsPanel(x)
  /\ UNCHANGED image

CodeArrives(r) ==
  /\ works[r] # None /\ works[r].stage = "code"
  /\ LET s == works[r].staff
     IN  /\ qr' = [staff |-> s, status |-> status[s]]
         /\ image' = None
         /\ IF status[s] = "ACTIVE"
            THEN /\ works' = [works EXCEPT ![r].stage = "image"]
                 /\ UNCHANGED <<current, busy, error, confirming>>
            ELSE Finish(r)
  /\ UNCHANGED <<alive, selected, overlapped, action, chosen, unsettled, status>>

ImageArrives(r) ==
  /\ works[r] # None /\ works[r].stage = "image"
  /\ image' = works[r].staff
  /\ Finish(r)
  /\ UNCHANGED <<alive, selected, qr, overlapped, action, chosen, unsettled, status>>

(* Any request may fail; one that changes codes may have changed them.       *)
Changed(r) ==
  LET job == works[r]
      becomes == IF job.stage = "disable" THEN "DISABLED" ELSE "ACTIVE"
  IN  IF job.stage \in Change THEN [status EXCEPT ![job.staff] = becomes]
      ELSE IF job.stage = "batch"
      THEN [s \in Staff |-> IF status[s] = "NOT_GENERATED" THEN "ACTIVE" ELSE status[s]]
      ELSE status

QRRequestFails(r) ==
  /\ works[r] # None
  /\ End(r, TRUE)
  /\ works' = [works EXCEPT ![r] = None]
  /\ status' \in {status, Changed(r)}
  /\ UNCHANGED <<alive, panel, question>>

-------------------------------------------------------------------------------
(* The list, when the page opens and on every search, page or retry; the     *)
(* dialog is modal.                                                          *)
loadList(r) ==
  /\ ~confirming
  /\ alive' = TRUE
  /\ Begin(r, Job("list", None, FALSE))
  /\ UNCHANGED <<panel, question, status>>

QRListArrives(r) ==
  /\ works[r] # None /\ works[r].stage = "list"
  /\ IF Wanted # None /\ selected = None
     THEN loadQR(r, Wanted, FALSE) /\ UNCHANGED <<current, busy, error, confirming>>
     ELSE Finish(r) /\ UNCHANGED panel
  /\ UNCHANGED <<alive, action, chosen, unsettled, status>>

select(r, s) ==
  /\ alive /\ ~confirming
  /\ works[r] = None
  /\ Start(r)
  /\ loadQR(r, s, FALSE)
  /\ UNCHANGED <<alive, question, status>>

(* Downloads, copying and the package touch nothing but the busy state.      *)
download(r) ==
  /\ alive /\ ~confirming
  /\ Begin(r, Job("file", None, FALSE))
  /\ UNCHANGED <<alive, panel, question, status>>

generate(r) ==
  /\ alive /\ ~confirming /\ ~busy
  /\ qr # None /\ qr.status = "NOT_GENERATED"
  /\ Begin(r, Job("generate", selected, FALSE))
  /\ UNCHANGED <<alive, panel, question, status>>

(* Offered under a code that exists; batch is offered always.                *)
ask(a) ==
  /\ alive /\ ~confirming
  /\ a # "batch" => qr # None /\ qr.status # "NOT_GENERATED"
  /\ a = "disable" => qr.status = "ACTIVE"
  /\ action' = a
  /\ confirming' = TRUE
  /\ chosen' = selected
  /\ unsettled' = \E r \in Run : /\ works[r] # None /\ works[r].stage \in Change
                                 /\ works[r].staff # selected
  /\ UNCHANGED <<asyncVars, panel, works, status>>

cancel ==
  /\ confirming /\ ~busy
  /\ confirming' = FALSE
  /\ UNCHANGED <<asyncVars, panel, works, status, action, chosen, unsettled>>

confirm(r) ==
  /\ confirming /\ ~busy
  /\ Begin(r, Job(action, IF action = "batch" THEN None ELSE selected, TRUE))
  /\ UNCHANGED <<alive, panel, question, status>>

(* The server has changed one code, which is loaded again in the same run,   *)
(* or the missing ones of the cinema.                                        *)
ChangeAnswered(r) ==
  /\ works[r] # None /\ works[r].stage \in Change
  /\ status' = Changed(r)
  /\ loadQR(r, works[r].staff, works[r].closes)
  /\ UNCHANGED <<asyncVars, question>>

Ended(r) ==
  /\ works[r] # None /\ works[r].stage \in {"batch", "file"}
  /\ status' = Changed(r)
  /\ Finish(r)
  /\ UNCHANGED <<alive, panel, action, chosen, unsettled>>

QRInit ==
  /\ selected = None /\ qr = None /\ image = None
  /\ confirming = FALSE /\ action = None /\ chosen = None
  /\ works = [r \in Run |-> None]
  /\ status = [s \in Staff |-> "NOT_GENERATED"]
  /\ overlapped = FALSE /\ unsettled = FALSE

QRNext ==
  \/ \E r \in Run : \/ loadList(r) \/ QRListArrives(r) \/ CodeArrives(r) \/ ImageArrives(r)
                    \/ QRRequestFails(r) \/ download(r) \/ generate(r) \/ confirm(r)
                    \/ ChangeAnswered(r) \/ Ended(r)
                    \/ \E s \in Staff : select(r, s)
  \/ \E a \in Action : ask(a)
  \/ cancel

QRSpec == AsyncInit /\ QRInit /\ [][QRNext]_<<asyncVars, qrVars>>

-------------------------------------------------------------------------------
QRTypeOK ==
  /\ selected \in Staff \cup {None} /\ image \in Staff \cup {None}
  /\ chosen \in Staff \cup {None}
  /\ qr \in [staff : Staff, status : Status] \cup {None}
  /\ confirming \in BOOLEAN /\ overlapped \in BOOLEAN /\ unsettled \in BOOLEAN
  /\ action \in Action \cup {None}
  /\ works \in [Run -> Work \cup {None}]
  /\ status \in [Staff -> Status]

(* The code and the image to print are those of the member in the heading,   *)
(* unless the panel was loaded for two members at once; and the member whose *)
(* code is revoked is the one the administrator had in view, unless another  *)
(* member's code was still being changed when the dialog opened.             *)
PanelExplained ==
  /\ (qr # None /\ ~overlapped) => qr.staff = selected /\ image \in {None, selected}
  /\ (confirming /\ action # "batch" /\ ~unsettled) => selected = chosen
===============================================================================
