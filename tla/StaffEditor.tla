----------------------------- MODULE StaffEditor -----------------------------
(***************************************************************************)
(* The staff list with its add-and-edit dialog (libs/feature/src/staff.ts).*)
(* Next to the runs of the page, the dialog loads the managers of the      *)
(* draft's cinema under a request number of its own.                       *)
(*                                                                         *)
(* The dialog is modal: while it is open the list and its toolbar are out  *)
(* of reach.  Any document can be the row that is opened; of a document    *)
(* only the cinema and the manager matter here.                            *)
(***************************************************************************)
EXTENDS AsyncPage

CONSTANTS
  Cinema, Manager,
  ManagersOf,   \* ManagersOf[c]: the active managers of cinema c
  Home          \* the administrator's own cinema, None for a global one

VARIABLES
  cinemas,      \* the list of cinemas has arrived
  dialog, draft,
  opened,       \* history: the document that the draft is a copy of
  managers, managersLoading, managerError,
  request,      \* the newest request for managers
  asking,       \* asking[r]: the cinema whose managers request r asks for
  tasks         \* tasks[r]: what run r waits for

staffVars == <<cinemas, dialog, draft, opened, managers, managersLoading, managerError,
               request, asking, tasks>>
editor == <<managers, managersLoading, managerError, request, asking>>

Document == [cinemaId : Cinema \cup {None}, managerId : Manager \cup {None}]
Task == {"list", "save", "saved"}

ASSUME StaffAssumption ==
  /\ None \notin Cinema \cup Manager \cup Task
  /\ ManagersOf \in [Cinema -> SUBSET Manager]
  /\ Home \in Cinema \cup {None}

-------------------------------------------------------------------------------
ManagersAt(c) == IF c = None THEN {} ELSE ManagersOf[c]

(* loadManagers() for cinema c.  Without a cinema nothing is asked for.      *)
loadManagers(c) ==
  /\ managers' = {}
  /\ IF c = None
     THEN /\ managersLoading' = FALSE /\ managerError' = TRUE
          /\ request' = None
          /\ UNCHANGED asking
     ELSE /\ managersLoading' = TRUE /\ managerError' = FALSE
          /\ \E r \in Run : /\ asking[r] = None
                            /\ request' = r
                            /\ asking' = [asking EXCEPT ![r] = c]

\* Mutant: an answer is shown whatever was asked since.
ReceiveAny(r) ==
  /\ managers' = ManagersAt(asking[r])
  /\ managersLoading' = FALSE
  /\ UNCHANGED managerError

Receive(r) ==
  IF r = request
  THEN /\ managers' = ManagersAt(asking[r])
       /\ managersLoading' = FALSE
       /\ UNCHANGED managerError
  ELSE UNCHANGED <<managers, managersLoading, managerError>>

ManagersArrive(r) ==
  /\ asking[r] # None
  /\ Receive(r)
  /\ asking' = [asking EXCEPT ![r] = None]
  /\ request' = IF r = request THEN None ELSE request
  /\ UNCHANGED <<asyncVars, cinemas, dialog, draft, opened, tasks>>

ManagersFail(r) ==
  /\ asking[r] # None
  /\ asking' = [asking EXCEPT ![r] = None]
  /\ IF r = request
     THEN managerError' = TRUE /\ managersLoading' = FALSE /\ request' = None
     ELSE UNCHANGED <<managerError, managersLoading, request>>
  /\ UNCHANGED <<asyncVars, cinemas, dialog, draft, opened, managers, tasks>>

RetryManagers ==
  /\ dialog /\ managerError
  /\ loadManagers(draft.cinemaId)
  /\ UNCHANGED <<asyncVars, cinemas, dialog, draft, opened, tasks>>

-------------------------------------------------------------------------------
(* The list: when the page opens, on every search, page or retry.            *)
loadStaff(r) ==
  /\ alive => ~dialog
  /\ alive' = TRUE
  /\ tasks[r] = None
  /\ Start(r)
  /\ tasks' = [tasks EXCEPT ![r] = "list"]
  /\ UNCHANGED <<cinemas, dialog, draft, opened, editor>>

ListArrives(r) ==
  /\ tasks[r] \in {"list", "saved"}
  /\ tasks' = [tasks EXCEPT ![r] = None]
  /\ \E failed \in BOOLEAN : End(r, failed)
  /\ UNCHANGED <<alive, cinemas, dialog, draft, opened, editor>>

CinemasArrive ==
  /\ alive /\ ~cinemas
  /\ cinemas' = TRUE
  /\ UNCHANGED <<asyncVars, dialog, draft, opened, editor, tasks>>

(* A new member starts in the administrator's cinema or the first one, if    *)
(* the cinemas are there.                                                    *)
NewDocument ==
  [cinemaId |-> IF Home # None THEN Home
                ELSE IF cinemas THEN CHOOSE c \in Cinema : TRUE ELSE None,
   managerId |-> None]

(* A row of the list, which is hidden while the page is busy, or "add".      *)
edit(v) ==
  /\ alive /\ ~dialog
  /\ v = NewDocument \/ (~busy /\ v.cinemaId # None)
  /\ error' = FALSE
  /\ draft' = v /\ opened' = v
  /\ dialog' = TRUE
  /\ loadManagers(v.cinemaId)
  /\ UNCHANGED <<alive, current, busy, cinemas, tasks>>

\* Mutant: another cinema keeps the manager.
CinemaOnly(c) == [draft EXCEPT !.cinemaId = c]

InCinema(c) == [cinemaId |-> c, managerId |-> None]

chooseCinema(c) ==
  /\ dialog /\ cinemas /\ Home = None /\ c # draft.cinemaId
  /\ draft' = InCinema(c)
  /\ loadManagers(c)
  /\ UNCHANGED <<asyncVars, cinemas, dialog, opened, tasks>>

(* One of the managers offered, or none; not while they are being loaded.    *)
chooseManager(m) ==
  /\ dialog /\ ~managersLoading
  /\ m \in managers \cup {None}
  /\ draft' = [draft EXCEPT !.managerId = m]
  /\ UNCHANGED <<asyncVars, cinemas, dialog, opened, editor, tasks>>

(* Cancel, escape and the close button: not while the page is busy.          *)
close ==
  /\ dialog /\ ~busy
  /\ dialog' = FALSE
  /\ UNCHANGED <<asyncVars, cinemas, draft, opened, editor, tasks>>

save(r) ==
  /\ dialog /\ ~busy /\ draft.cinemaId # None
  /\ tasks[r] = None
  /\ Start(r)
  /\ tasks' = [tasks EXCEPT ![r] = "save"]
  /\ UNCHANGED <<alive, cinemas, dialog, draft, opened, editor>>

(* The dialog closes on success only; the list is loaded in the same run.    *)
SaveAnswered(r) ==
  /\ tasks[r] = "save"
  /\ \/ /\ dialog' = FALSE
        /\ tasks' = [tasks EXCEPT ![r] = "saved"]
        /\ UNCHANGED <<current, busy, error>>
     \/ /\ End(r, TRUE)
        /\ tasks' = [tasks EXCEPT ![r] = None]
        /\ UNCHANGED dialog
  /\ UNCHANGED <<alive, cinemas, draft, opened, editor>>

StaffInit ==
  /\ cinemas = FALSE /\ dialog = FALSE
  /\ draft = [cinemaId |-> None, managerId |-> None] /\ opened = draft
  /\ managers = {} /\ managersLoading = FALSE /\ managerError = FALSE
  /\ request = None
  /\ asking = [r \in Run |-> None] /\ tasks = [r \in Run |-> None]

StaffNext ==
  \/ \E r \in Run : \/ ManagersArrive(r) \/ ManagersFail(r) \/ loadStaff(r) \/ ListArrives(r)
                    \/ save(r) \/ SaveAnswered(r)
  \/ \E v \in Document : edit(v)
  \/ \E c \in Cinema : chooseCinema(c)
  \/ \E m \in Manager \cup {None} : chooseManager(m)
  \/ CinemasArrive \/ RetryManagers \/ close

StaffSpec == AsyncInit /\ StaffInit /\ [][StaffNext]_<<asyncVars, staffVars>>

-------------------------------------------------------------------------------
StaffTypeOK ==
  /\ cinemas \in BOOLEAN /\ dialog \in BOOLEAN
  /\ managersLoading \in BOOLEAN /\ managerError \in BOOLEAN
  /\ draft \in Document /\ opened \in Document
  /\ managers \subseteq Manager
  /\ request \in Run \cup {None}
  /\ asking \in [Run -> Cinema \cup {None}]
  /\ tasks \in [Run -> Task \cup {None}]

(* The managers offered are those of the draft's cinema, and a draft that is *)
(* saved names one of them, or the manager and the cinema its document had   *)
(* already, however the answers for cinemas chosen before come in.           *)
ManagerFits ==
  /\ managers \subseteq ManagersAt(draft.cinemaId)
  /\ draft.managerId \in ManagersAt(draft.cinemaId) \cup {None} \/ draft = opened
===============================================================================
