-------------------------- MODULE AdminConsoleProofs --------------------------
(* Theorems about AdminConsole, for any number of runs, notifications, staff, *)
(* cinemas, managers, files, codes and imports.  The inbox is in              *)
(* NotificationInboxProofs.                                                   *)
EXTENDS AdminConsole, NotificationInboxProofs

USE RunAssumption, StaffAssumption, QRAssumption, ImportAssumption

-------------------------------------------------------------------------------
LEMMA StartTyping ==
  ASSUME NEW r \in Run, Start(r), alive' \in BOOLEAN
  PROVE  AsyncTypeOK'
  BY DEF Start, AsyncTypeOK

LEMMA EndTyping ==
  ASSUME AsyncTypeOK, NEW r, NEW failed \in BOOLEAN, End(r, failed), UNCHANGED alive
  PROVE  AsyncTypeOK'
  <1>1. CASE r = current
    <2>1. current' = None /\ busy' = FALSE /\ error' = (failed \/ error)
      BY <1>1 DEF End
    <2>2. error' \in BOOLEAN
      BY <2>1 DEF AsyncTypeOK
    <2>3. QED
      BY <2>1, <2>2 DEF AsyncTypeOK
  <1>2. CASE r # current
    BY <1>2 DEF End, AsyncTypeOK
  <1>3. QED
    BY <1>1, <1>2

-------------------------------------------------------------------------------
(* The staff dialog.  The newest request asks for the draft's cinema.        *)
StaffInv ==
  /\ AsyncTypeOK /\ StaffTypeOK /\ ManagerFits
  /\ request # None => asking[request] = draft.cinemaId /\ draft.cinemaId # None

LEMMA ManagersStep ==
  ASSUME StaffTypeOK, NEW c \in Cinema \cup {None}, loadManagers(c)
  PROVE  /\ managers' = {} /\ managersLoading' \in BOOLEAN /\ managerError' \in BOOLEAN
         /\ request' \in Run \cup {None} /\ asking' \in [Run -> Cinema \cup {None}]
         /\ request' # None => asking'[request'] = c /\ c # None
  <1>1. CASE c = None
    BY <1>1 DEF loadManagers, StaffTypeOK
  <1>2. CASE c # None
    <2>1. PICK r \in Run : request' = r /\ asking' = [asking EXCEPT ![r] = c]
      BY <1>2 DEF loadManagers
    <2>2. managers' = {} /\ managersLoading' = TRUE /\ managerError' = FALSE
      BY <1>2 DEF loadManagers
    <2>3. QED
      BY <1>2, <2>1, <2>2 DEF StaffTypeOK
  <1>3. QED
    BY <1>1, <1>2

(* Steps that leave the dialog's draft and managers alone. *)
LEMMA ElsewhereStep ==
  ASSUME StaffInv, AsyncTypeOK', UNCHANGED <<draft, opened, editor>>,
         cinemas' \in BOOLEAN, dialog' \in BOOLEAN, tasks' \in [Run -> Task \cup {None}]
  PROVE  StaffInv'
  <1>1. UNCHANGED <<draft, opened, managers, managersLoading, managerError, request, asking>>
    BY DEF editor
  <1>2. StaffTypeOK'
    BY <1>1 DEF StaffInv, StaffTypeOK
  <1>3. ManagerFits'
    BY <1>1 DEF StaffInv, ManagerFits, ManagersAt
  <1>4. QED
    BY <1>1, <1>2, <1>3 DEF StaffInv

LEMMA DraftStep ==
  ASSUME StaffInv, AsyncTypeOK', draft' \in Document, opened' \in Document,
         loadManagers(draft'.cinemaId), UNCHANGED <<cinemas, tasks>>, dialog' \in BOOLEAN,
         draft'.managerId \in ManagersAt(draft'.cinemaId) \cup {None} \/ draft' = opened'
  PROVE  StaffInv'
  <1>1. draft'.cinemaId \in Cinema \cup {None}
    BY DEF Document
  <1>2. /\ managers' = {} /\ managersLoading' \in BOOLEAN /\ managerError' \in BOOLEAN
        /\ request' \in Run \cup {None} /\ asking' \in [Run -> Cinema \cup {None}]
        /\ request' # None => asking'[request'] = draft'.cinemaId /\ draft'.cinemaId # None
    BY <1>1, ManagersStep DEF StaffInv
  <1>3. StaffTypeOK'
    BY <1>2 DEF StaffInv, StaffTypeOK
  <1>4. ManagerFits'
    BY <1>2 DEF ManagerFits, ManagersAt
  <1>5. QED
    BY <1>2, <1>3, <1>4 DEF StaffInv

LEMMA StaffStep ==
  ASSUME StaffInv, StaffNext
  PROVE  StaffInv'
  <1>1. AsyncTypeOK /\ StaffTypeOK
    BY DEF StaffInv
  <1>2. ASSUME NEW r \in Run, ManagersArrive(r) PROVE StaffInv'
    <2>1. /\ UNCHANGED <<alive, current, busy, error, cinemas, dialog, draft, opened, tasks>>
          /\ asking[r] \in Cinema /\ asking' = [asking EXCEPT ![r] = None] /\ Receive(r)
          /\ request' = IF r = request THEN None ELSE request
      BY <1>1, <1>2 DEF ManagersArrive, asyncVars, StaffTypeOK
    <2>2. managers' \subseteq ManagersAt(draft.cinemaId)
          /\ managersLoading' \in BOOLEAN /\ managerError' = managerError
      <3>1. CASE r = request
        <4>1. managers' = ManagersAt(asking[r]) /\ managersLoading' = FALSE
              /\ managerError' = managerError
          BY <2>1, <3>1 DEF Receive
        <4>2. asking[r] = draft.cinemaId
          BY <1>1, <3>1 DEF StaffInv
        <4>3. QED
          BY <4>1, <4>2
      <3>2. CASE r # request
        BY <1>1, <2>1, <3>2 DEF Receive, StaffInv, ManagerFits, StaffTypeOK
      <3>3. QED
        BY <3>1, <3>2
    <2>3. ManagersAt(draft.cinemaId) \subseteq Manager
      BY <1>1 DEF StaffTypeOK, Document, ManagersAt
    <2>4. AsyncTypeOK'
      BY <1>1, <2>1 DEF AsyncTypeOK
    <2>5. StaffTypeOK'
      BY <1>1, <2>1, <2>2, <2>3 DEF StaffTypeOK
    <2>6. ManagerFits'
      BY <2>1, <2>2 DEF StaffInv, ManagerFits, ManagersAt
    <2>7. request' # None => asking'[request'] = draft'.cinemaId /\ draft'.cinemaId # None
      BY <1>1, <2>1 DEF StaffInv, StaffTypeOK
    <2>8. QED
      BY <2>4, <2>5, <2>6, <2>7 DEF StaffInv
  <1>3. ASSUME NEW r \in Run, ManagersFail(r) PROVE StaffInv'
    <2>1. /\ UNCHANGED <<alive, current, busy, error, cinemas, dialog, draft, opened, managers, tasks>>
          /\ asking' = [asking EXCEPT ![r] = None]
          /\ request' = IF r = request THEN None ELSE request
          /\ managersLoading' \in BOOLEAN /\ managerError' \in BOOLEAN
      BY <1>1, <1>3 DEF ManagersFail, asyncVars, StaffTypeOK
    <2>2. AsyncTypeOK'
      BY <1>1, <2>1 DEF AsyncTypeOK
    <2>3. StaffTypeOK'
      BY <1>1, <2>1 DEF StaffTypeOK
    <2>4. ManagerFits'
      BY <2>1 DEF StaffInv, ManagerFits, ManagersAt
    <2>5. request' # None => asking'[request'] = draft'.cinemaId /\ draft'.cinemaId # None
      BY <1>1, <2>1 DEF StaffInv, StaffTypeOK
    <2>6. QED
      BY <2>2, <2>3, <2>4, <2>5 DEF StaffInv
  <1>4. ASSUME NEW r \in Run, loadStaff(r) \/ save(r) PROVE StaffInv'
    <2>1. Start(r) /\ alive' \in BOOLEAN /\ UNCHANGED <<cinemas, dialog, draft, opened, editor>>
      BY <1>1, <1>4 DEF loadStaff, save, AsyncTypeOK
    <2>2. tasks' \in [Run -> Task \cup {None}]
      BY <1>1, <1>4 DEF loadStaff, save, StaffTypeOK, Task
    <2>3. QED
      BY <1>1, <2>1, <2>2, StartTyping, ElsewhereStep DEF StaffTypeOK
  <1>5. ASSUME NEW r \in Run, ListArrives(r) PROVE StaffInv'
    <2>1. UNCHANGED <<alive, cinemas, dialog, draft, opened, editor>>
          /\ tasks' = [tasks EXCEPT ![r] = None] /\ AsyncTypeOK'
      BY <1>1, <1>5, EndTyping DEF ListArrives
    <2>2. QED
      BY <1>1, <2>1, ElsewhereStep DEF StaffTypeOK
  <1>6. ASSUME NEW r \in Run, SaveAnswered(r) PROVE StaffInv'
    <2>1. UNCHANGED <<alive, cinemas, draft, opened, editor>>
      BY <1>6 DEF SaveAnswered
    <2>2. AsyncTypeOK'
      <3>1. CASE UNCHANGED <<current, busy, error>>
        BY <1>1, <2>1, <3>1 DEF AsyncTypeOK
      <3>2. CASE End(r, TRUE)
        BY <1>1, <2>1, <3>2, EndTyping
      <3>3. QED
        BY <1>6, <3>1, <3>2 DEF SaveAnswered
    <2>3. tasks' \in [Run -> Task \cup {None}] /\ dialog' \in BOOLEAN
      BY <1>1, <1>6 DEF SaveAnswered, StaffTypeOK, Task
    <2>4. QED
      BY <1>1, <2>1, <2>2, <2>3, ElsewhereStep DEF StaffTypeOK
  <1>7. ASSUME NEW v \in Document, edit(v) PROVE StaffInv'
    <2>1. draft' = v /\ opened' = v /\ loadManagers(draft'.cinemaId) /\ dialog' = TRUE
          /\ UNCHANGED <<cinemas, tasks>>
      BY <1>7 DEF edit
    <2>2. AsyncTypeOK'
      BY <1>1, <1>7 DEF edit, AsyncTypeOK
    <2>3. QED
      BY <2>1, <2>2, DraftStep
  <1>8. ASSUME NEW c \in Cinema, chooseCinema(c) PROVE StaffInv'
    <2>1. draft' = InCinema(c) /\ loadManagers(c) /\ UNCHANGED <<opened, cinemas, tasks, dialog>>
      BY <1>8 DEF chooseCinema
    <2>2. draft' \in Document /\ draft'.cinemaId = c /\ draft'.managerId = None
      BY <2>1 DEF InCinema, Document
    <2>3. AsyncTypeOK'
      BY <1>1, <1>8 DEF chooseCinema, asyncVars, AsyncTypeOK
    <2>4. QED
      BY <1>1, <2>1, <2>2, <2>3, DraftStep DEF StaffTypeOK
  <1>9. CASE RetryManagers
    <2>1. UNCHANGED <<cinemas, dialog, draft, opened, tasks>> /\ loadManagers(draft'.cinemaId)
      BY <1>9 DEF RetryManagers
    <2>2. AsyncTypeOK'
      BY <1>1, <1>9 DEF RetryManagers, asyncVars, AsyncTypeOK
    <2>3. QED
      BY <1>1, <2>1, <2>2, DraftStep DEF StaffTypeOK, StaffInv, ManagerFits, ManagersAt
  <1>10. ASSUME NEW m \in Manager \cup {None}, chooseManager(m) PROVE StaffInv'
    <2>1. /\ draft' = [draft EXCEPT !.managerId = m] /\ m \in managers \cup {None}
          /\ UNCHANGED <<alive, current, busy, error, cinemas, dialog, opened, tasks, managers,
                         managersLoading, managerError, request, asking>>
      BY <1>10 DEF chooseManager, asyncVars, editor
    <2>2. draft' \in Document /\ draft'.cinemaId = draft.cinemaId /\ draft'.managerId = m
      BY <1>1, <2>1 DEF StaffTypeOK, Document
    <2>3. AsyncTypeOK' /\ StaffTypeOK'
      BY <1>1, <2>1, <2>2 DEF AsyncTypeOK, StaffTypeOK
    <2>4. ManagerFits'
      BY <2>1, <2>2 DEF StaffInv, ManagerFits, ManagersAt
    <2>5. QED
      BY <2>1, <2>2, <2>3, <2>4 DEF StaffInv
  <1>11. CASE CinemasArrive \/ close
    <2>1. UNCHANGED <<asyncVars, draft, opened, editor, tasks>>
      BY <1>11 DEF CinemasArrive, close
    <2>2. cinemas' \in BOOLEAN /\ dialog' \in BOOLEAN
      BY <1>1, <1>11 DEF CinemasArrive, close, StaffTypeOK
    <2>3. AsyncTypeOK'
      BY <1>1, <2>1 DEF asyncVars, AsyncTypeOK
    <2>4. QED
      BY <1>1, <2>1, <2>2, <2>3, ElsewhereStep DEF StaffTypeOK
  <1>12. QED
    BY <1>2, <1>3, <1>4, <1>5, <1>6, <1>7, <1>8, <1>9, <1>10, <1>11 DEF StaffNext

-------------------------------------------------------------------------------
(* The QR panel.  A load of it that is alone is for the selected member, and *)
(* while a question is open, the changes under way are of that member's code *)
(* unless one of another's was under way already.                            *)
LoadsSelected ==
  ~overlapped => \A x \in Run : LoadsPanel(x) => works[x].staff = selected

ChangesSelected ==
  (confirming /\ ~unsettled) =>
    \A x \in Run : (works[x] # None /\ works[x].stage \in Change) => works[x].staff = selected

HasSubject ==
  /\ qr # None => selected # None
  /\ confirming => action # None
  /\ (confirming /\ action # "batch") => selected # None
  /\ \A x \in Run : (works[x] # None /\ works[x].stage \in Change \cup {"code", "image"}) =>
       works[x].staff # None /\ selected # None

QRInv ==
  AsyncTypeOK /\ QRTypeOK /\ LoadsSelected /\ ChangesSelected /\ HasSubject /\ PanelExplained

LEMMA JobTyping ==
  ASSUME NEW stage \in Stage, NEW s \in Staff \cup {None}, NEW closes \in BOOLEAN
  PROVE  /\ Job(stage, s, closes) \in Work /\ Job(stage, s, closes) # None
         /\ Job(stage, s, closes).stage = stage /\ Job(stage, s, closes).staff = s
         /\ Job(stage, s, closes).closes = closes
  <1>1. Job(stage, s, closes) \in Work
    BY DEF Job, Work
  <1>2. QED
    BY <1>1 DEF Job

(* A run that starts or ends with the panel as it is.                        *)
LEMMA WorkStep ==
  ASSUME QRInv, AsyncTypeOK', NEW r \in Run, NEW job \in Work \cup {None},
         works' = [works EXCEPT ![r] = job],
         UNCHANGED <<selected, qr, image, overlapped, action, chosen, unsettled>>,
         confirming' \in BOOLEAN, confirming' => confirming,
         status' \in [Staff -> Status],
         job # None =>
           \/ job.stage \notin Change \cup {"code", "image"}
           \/ job.stage \in Change /\ job.staff = selected /\ selected # None
  PROVE  QRInv'
  <1>1. works' \in [Run -> Work \cup {None}] /\ works'[r] = job
        /\ \A x \in Run : x # r => works'[x] = works[x]
    BY DEF QRInv, QRTypeOK
  <1>2. QRTypeOK'
    BY <1>1 DEF QRInv, QRTypeOK
  <1>3. {"code", "image"} \cap Change = {}
    BY DEF Change
  <1>4. \A x \in Run : LoadsPanel(x)' => x # r /\ LoadsPanel(x)
    BY <1>1, <1>3 DEF LoadsPanel
  <1>5. LoadsSelected'
    BY <1>1, <1>4 DEF QRInv, LoadsSelected
  <1>6. ChangesSelected'
    BY <1>1 DEF QRInv, ChangesSelected
  <1>7. HasSubject'
    BY <1>1 DEF QRInv, HasSubject
  <1>8. PanelExplained'
    BY DEF QRInv, PanelExplained
  <1>9. QED
    BY <1>2, <1>5, <1>6, <1>7, <1>8 DEF QRInv

(* The panel is loaded.                                                      *)
LEMMA PanelStep ==
  ASSUME QRInv, AsyncTypeOK', NEW r \in Run, NEW s \in Staff, NEW closes \in BOOLEAN,
         loadQR(r, s, closes), UNCHANGED <<confirming, action, chosen, unsettled>>,
         status' \in [Staff -> Status],
         confirming => s = selected \/ selected = None \/ unsettled
  PROVE  QRInv'
  <1>1. /\ selected' = s /\ qr' = None /\ image' = image
        /\ works' = [works EXCEPT ![r] = Job("code", s, closes)]
        /\ overlapped' = \E x \in Run \ {r} : LoadsPanel(x)
    BY DEF loadQR
  <1>2. "code" \in Stage /\ "code" \notin Change
    BY DEF Stage, Change
  <1>3. /\ works' \in [Run -> Work \cup {None}] /\ works'[r] # None /\ works'[r].stage = "code"
        /\ works'[r].staff = s /\ \A x \in Run : x # r => works'[x] = works[x]
    BY <1>1, <1>2, JobTyping DEF QRInv, QRTypeOK
  <1>4. overlapped' \in BOOLEAN
    BY <1>1
  <1>5. QRTypeOK'
    BY <1>1, <1>3, <1>4 DEF QRInv, QRTypeOK
  <1>6. LoadsSelected'
    BY <1>1, <1>3 DEF LoadsSelected, LoadsPanel
  <1>7. s # None
    OBVIOUS
  <1>8. HasSubject'
    BY <1>1, <1>3, <1>7 DEF QRInv, HasSubject
  <1>9. ChangesSelected'
    BY <1>1, <1>2, <1>3 DEF QRInv, ChangesSelected, HasSubject
  <1>10. PanelExplained'
    BY <1>1 DEF QRInv, PanelExplained, HasSubject
  <1>11. QED
    BY <1>5, <1>6, <1>8, <1>9, <1>10 DEF QRInv

LEMMA ChangedTyping ==
  ASSUME QRTypeOK, HasSubject, NEW r \in Run, works[r] # None
  PROVE  Changed(r) \in [Staff -> Status]
  <1>1. works[r] \in Work /\ (works[r].stage \in Change => works[r].staff \in Staff)
    BY DEF QRTypeOK, HasSubject, Work
  <1>2. QED
    BY <1>1 DEF Changed, QRTypeOK, Status

LEMMA CodeStep ==
  ASSUME QRInv, NEW r \in Run, CodeArrives(r)
  PROVE  QRInv'
  <1>. DEFINE s == works[r].staff
  <1>1. /\ works[r] \in Work /\ works[r].stage = "code" /\ LoadsPanel(r)
        /\ s \in Staff /\ selected # None
    BY DEF CodeArrives, QRInv, QRTypeOK, HasSubject, LoadsPanel, Work
  <1>2. /\ qr' = [staff |-> s, status |-> status[s]] /\ image' = None
        /\ UNCHANGED <<alive, selected, overlapped, action, chosen, unsettled, status>>
    BY DEF CodeArrives
  <1>3. qr' \in [staff : Staff, status : Status] /\ qr'.staff = s
    BY <1>1, <1>2 DEF QRInv, QRTypeOK
  <1>4. /\ works' \in [Run -> Work \cup {None}]
        /\ \A x \in Run : x # r => works'[x] = works[x]
        /\ works'[r] # None => works'[r].stage = "image" /\ works'[r].staff = s
        /\ confirming' \in BOOLEAN /\ (confirming' => confirming) /\ AsyncTypeOK'
    <2>1. CASE status[s] = "ACTIVE"
      <3>1. works' = [works EXCEPT ![r].stage = "image"]
            /\ UNCHANGED <<alive, current, busy, error, confirming>>
        BY <2>1 DEF CodeArrives
      <3>2. [works[r] EXCEPT !.stage = "image"] \in Work
        BY <1>1 DEF Work, Stage
      <3>3. QED
        BY <1>1, <3>1, <3>2 DEF QRInv, QRTypeOK, AsyncTypeOK, Work
    <2>2. CASE status[s] # "ACTIVE"
      <3>1. Finish(r) /\ UNCHANGED alive
        BY <2>2 DEF CodeArrives
      <3>2. AsyncTypeOK'
        BY <3>1, EndTyping DEF Finish, QRInv
      <3>3. confirming' \in BOOLEAN /\ (confirming' => confirming)
        BY <3>1 DEF Finish, QRInv, QRTypeOK
      <3>4. QED
        BY <3>1, <3>2, <3>3 DEF Finish, QRInv, QRTypeOK
    <2>3. QED
      BY <2>1, <2>2
  <1>5. "image" \notin Change
    BY DEF Change
  <1>6. QRTypeOK'
    BY <1>2, <1>3, <1>4 DEF QRInv, QRTypeOK
  <1>7. ~overlapped => s = selected
    BY <1>1 DEF QRInv, LoadsSelected
  <1>8. LoadsSelected'
    BY <1>2, <1>4, <1>7 DEF QRInv, LoadsSelected, LoadsPanel
  <1>9. ChangesSelected'
    BY <1>2, <1>4, <1>5 DEF QRInv, ChangesSelected
  <1>10. HasSubject'
    BY <1>1, <1>2, <1>4 DEF QRInv, HasSubject
  <1>11. PanelExplained'
    BY <1>2, <1>3, <1>4, <1>7 DEF QRInv, PanelExplained
  <1>12. QED
    BY <1>4, <1>6, <1>8, <1>9, <1>10, <1>11 DEF QRInv

LEMMA ImageStep ==
  ASSUME QRInv, NEW r \in Run, ImageArrives(r)
  PROVE  QRInv'
  <1>1. /\ works[r] # None /\ works[r].stage = "image" /\ LoadsPanel(r) /\ works[r].staff \in Staff
    BY DEF ImageArrives, QRInv, QRTypeOK, HasSubject, LoadsPanel, Work
  <1>2. /\ image' = works[r].staff /\ works' = [works EXCEPT ![r] = None]
        /\ UNCHANGED <<alive, selected, qr, overlapped, action, chosen, unsettled, status>>
        /\ End(r, FALSE) /\ confirming' = (confirming /\ ~works[r].closes)
    BY DEF ImageArrives, Finish
  <1>3. AsyncTypeOK'
    BY <1>2, EndTyping DEF QRInv
  <1>4. confirming' \in BOOLEAN /\ (confirming' => confirming)
    BY <1>2 DEF QRInv, QRTypeOK
  <1>5. works' \in [Run -> Work \cup {None}] /\ works'[r] = None
        /\ \A x \in Run : x # r => works'[x] = works[x]
    BY <1>2 DEF QRInv, QRTypeOK
  <1>6. QRTypeOK'
    BY <1>1, <1>2, <1>4, <1>5 DEF QRInv, QRTypeOK
  <1>7. LoadsSelected'
    BY <1>2, <1>5 DEF QRInv, LoadsSelected, LoadsPanel
  <1>8. ChangesSelected' /\ HasSubject'
    BY <1>2, <1>4, <1>5 DEF QRInv, ChangesSelected, HasSubject
  <1>9. PanelExplained'
    BY <1>1, <1>2, <1>4 DEF QRInv, PanelExplained, LoadsSelected
  <1>10. QED
    BY <1>3, <1>6, <1>7, <1>8, <1>9 DEF QRInv

LEMMA AskStep ==
  ASSUME QRInv, NEW a \in Action, ask(a)
  PROVE  QRInv'
  <1>1. /\ action' = a /\ confirming' = TRUE /\ chosen' = selected
        /\ unsettled' = \E r \in Run : /\ works[r] # None /\ works[r].stage \in Change
                                       /\ works[r].staff # selected
        /\ UNCHANGED <<alive, current, busy, error, selected, qr, image, overlapped, works, status>>
        /\ a # "batch" => qr # None
    BY DEF ask, asyncVars, panel
  <1>2. unsettled' \in BOOLEAN
    BY <1>1
  <1>3. AsyncTypeOK' /\ QRTypeOK'
    BY <1>1, <1>2 DEF QRInv, QRTypeOK, AsyncTypeOK
  <1>4. LoadsSelected'
    BY <1>1 DEF QRInv, LoadsSelected, LoadsPanel
  <1>5. ChangesSelected'
    BY <1>1 DEF ChangesSelected
  <1>6. a # None
    OBVIOUS
  <1>7. HasSubject'
    BY <1>1, <1>6 DEF QRInv, HasSubject
  <1>8. PanelExplained'
    BY <1>1 DEF QRInv, PanelExplained
  <1>9. QED
    BY <1>3, <1>4, <1>5, <1>7, <1>8 DEF QRInv

(* A request that starts and touches nothing else. *)
LEMMA BeginStep ==
  ASSUME QRInv, NEW r \in Run, NEW stage \in Stage, NEW s \in Staff \cup {None},
         NEW closes \in BOOLEAN, Begin(r, Job(stage, s, closes)), alive' \in BOOLEAN,
         UNCHANGED <<panel, question, status>>,
         stage \in Change => s = selected /\ selected # None,
         stage \notin {"code", "image"}
  PROVE  QRInv'
  <1>. DEFINE job == Job(stage, s, closes)
  <1>1. job \in Work /\ job.stage = stage /\ job.staff = s
    BY JobTyping
  <1>2. Start(r) /\ works' = [works EXCEPT ![r] = job]
    BY DEF Begin
  <1>3. AsyncTypeOK'
    BY <1>2, StartTyping
  <1>. HIDE DEF job
  <1>4. UNCHANGED <<selected, qr, image, overlapped, confirming, action, chosen, unsettled, status>>
    BY DEF panel, question
  <1>5. QED
    BY <1>1, <1>2, <1>3, <1>4, WorkStep DEF QRInv, QRTypeOK

LEMMA FinishStep ==
  ASSUME QRInv, NEW r \in Run, Finish(r),
         UNCHANGED <<alive, selected, qr, image, overlapped, action, chosen, unsettled>>,
         status' \in [Staff -> Status]
  PROVE  QRInv'
  <1>1. /\ End(r, FALSE) /\ confirming' = (confirming /\ ~works[r].closes)
        /\ works' = [works EXCEPT ![r] = None]
    BY DEF Finish
  <1>2. AsyncTypeOK'
    BY <1>1, EndTyping DEF QRInv
  <1>3. confirming' \in BOOLEAN /\ (confirming' => confirming)
    BY <1>1 DEF QRInv, QRTypeOK
  <1>4. QED
    BY <1>1, <1>2, <1>3, WorkStep

LEMMA QRStep ==
  ASSUME QRInv, QRNext
  PROVE  QRInv'
  <1>1. AsyncTypeOK /\ QRTypeOK /\ HasSubject
    BY DEF QRInv
  <1>2. alive \in BOOLEAN /\ status \in [Staff -> Status] /\ selected \in Staff \cup {None}
        /\ confirming \in BOOLEAN /\ action \in Action \cup {None}
    BY <1>1 DEF AsyncTypeOK, QRTypeOK
  <1>3. {"list", "file", "batch", "generate"} \subseteq Stage /\ Change \subseteq Stage
        /\ {"list", "file", "batch"} \cap Change = {} /\ {"code", "image"} \cap Change = {}
        /\ Action \ {"batch"} \subseteq Change
    BY DEF Stage, Change, Action
  <1>4. ASSUME NEW r \in Run, loadList(r) \/ download(r) PROVE QRInv'
    <2>1. /\ \E stage \in {"list", "file"} : Begin(r, Job(stage, None, FALSE))
          /\ alive' \in BOOLEAN /\ UNCHANGED <<panel, question, status>>
      BY <1>2, <1>4 DEF loadList, download
    <2>2. QED
      BY <1>3, <2>1, BeginStep
  <1>5. ASSUME NEW r \in Run, generate(r) PROVE QRInv'
    <2>1. /\ Begin(r, Job("generate", selected, FALSE)) /\ qr # None /\ UNCHANGED alive
          /\ UNCHANGED <<panel, question, status>>
      BY <1>5 DEF generate
    <2>2. selected # None
      BY <1>1, <2>1 DEF HasSubject
    <2>3. QED
      BY <1>2, <1>3, <2>1, <2>2, BeginStep
  <1>6. ASSUME NEW r \in Run, confirm(r) PROVE QRInv'
    <2>. DEFINE s == IF action = "batch" THEN None ELSE selected
    <2>1. /\ Begin(r, Job(action, s, TRUE)) /\ confirming /\ UNCHANGED alive
          /\ UNCHANGED <<panel, question, status>>
      BY <1>6 DEF confirm
    <2>2. action \in Action /\ (action # "batch" => selected # None)
      BY <1>1, <1>2, <2>1 DEF HasSubject
    <2>3. action \in Stage /\ action \notin {"code", "image"} /\ (action \in Change => action # "batch")
      BY <2>2 DEF Action, Stage, Change
    <2>4. s \in Staff \cup {None} /\ (action \in Change => s = selected /\ selected # None)
      BY <1>2, <2>2, <2>3
    <2>. HIDE DEF s
    <2>5. QED
      BY <1>2, <2>1, <2>3, <2>4, BeginStep
  <1>7. ASSUME NEW r \in Run, QRRequestFails(r) PROVE QRInv'
    <2>1. /\ works[r] # None /\ End(r, TRUE) /\ works' = [works EXCEPT ![r] = None]
          /\ status' \in {status, Changed(r)}
          /\ UNCHANGED <<alive, selected, qr, image, overlapped, confirming, action, chosen,
                         unsettled>>
      BY <1>7 DEF QRRequestFails, panel, question
    <2>2. status' \in [Staff -> Status]
      BY <1>1, <1>2, <2>1, ChangedTyping
    <2>3. AsyncTypeOK'
      BY <1>1, <2>1, EndTyping
    <2>4. QED
      BY <1>2, <2>1, <2>2, <2>3, WorkStep
  <1>8. ASSUME NEW r \in Run, Ended(r) PROVE QRInv'
    <2>1. works[r] # None /\ status' = Changed(r) /\ Finish(r)
          /\ UNCHANGED <<alive, selected, qr, image, overlapped, action, chosen, unsettled>>
      BY <1>8 DEF Ended, panel
    <2>2. QED
      BY <1>1, <2>1, ChangedTyping, FinishStep
  <1>9. ASSUME NEW r \in Run, QRListArrives(r) PROVE QRInv'
    <2>1. UNCHANGED <<alive, action, chosen, unsettled, status>>
      BY <1>9 DEF QRListArrives
    <2>2. CASE Wanted # None /\ selected = None
      <3>1. Wanted \in Staff /\ loadQR(r, Wanted, FALSE) /\ UNCHANGED <<current, busy, error, confirming>>
        BY <1>9, <2>2 DEF QRListArrives
      <3>2. AsyncTypeOK'
        BY <1>1, <2>1, <3>1 DEF AsyncTypeOK
      <3>3. QED
        BY <1>2, <2>1, <2>2, <3>1, <3>2, PanelStep
    <2>3. CASE ~(Wanted # None /\ selected = None)
      BY <1>2, <1>9, <2>1, <2>3, FinishStep DEF QRListArrives, panel
    <2>4. QED
      BY <2>2, <2>3
  <1>10. ASSUME NEW r \in Run, NEW s \in Staff, select(r, s) PROVE QRInv'
    <2>1. Start(r) /\ loadQR(r, s, FALSE) /\ ~confirming
          /\ UNCHANGED <<alive, confirming, action, chosen, unsettled, status>>
      BY <1>10 DEF select, question
    <2>2. AsyncTypeOK'
      BY <1>2, <2>1, StartTyping
    <2>3. QED
      BY <1>2, <2>1, <2>2, PanelStep
  <1>11. ASSUME NEW r \in Run, ChangeAnswered(r) PROVE QRInv'
    <2>1. /\ works[r] # None /\ works[r].stage \in Change /\ status' = Changed(r)
          /\ loadQR(r, works[r].staff, works[r].closes)
          /\ UNCHANGED <<alive, current, busy, error, confirming, action, chosen, unsettled>>
      BY <1>11 DEF ChangeAnswered, asyncVars, question
    <2>2. works[r].staff \in Staff /\ works[r].closes \in BOOLEAN
      BY <1>1, <2>1 DEF HasSubject, QRTypeOK, Work
    <2>3. confirming => works[r].staff = selected \/ unsettled
      BY <2>1 DEF QRInv, ChangesSelected
    <2>4. AsyncTypeOK'
      BY <1>1, <2>1 DEF AsyncTypeOK
    <2>5. status' \in [Staff -> Status]
      BY <1>1, <2>1, ChangedTyping
    <2>6. QED
      BY <2>1, <2>2, <2>3, <2>4, <2>5, PanelStep
  <1>12. CASE cancel
    <2>1. /\ confirming' = FALSE
          /\ UNCHANGED <<alive, current, busy, error, selected, qr, image, overlapped, works,
                         status, action, chosen, unsettled>>
      BY <1>12 DEF cancel, asyncVars, panel
    <2>2. AsyncTypeOK' /\ QRTypeOK'
      BY <1>1, <2>1 DEF AsyncTypeOK, QRTypeOK
    <2>3. LoadsSelected' /\ ChangesSelected' /\ HasSubject' /\ PanelExplained'
      BY <2>1 DEF QRInv, LoadsSelected, LoadsPanel, ChangesSelected, HasSubject, PanelExplained
    <2>4. QED
      BY <2>2, <2>3 DEF QRInv
  <1>13. QED
    BY <1>4, <1>5, <1>6, <1>7, <1>8, <1>9, <1>10, <1>11, <1>12, CodeStep, ImageStep, AskStep
       DEF QRNext

-------------------------------------------------------------------------------
(* The import page.  The file stays while a request is awaited, and an import *)
(* has inserted what its rows say once it is done, and nothing before.        *)
AwaitsFile ==
  awaited # None =>
    /\ busy
    /\ awaited.kind # "template" => awaited.file = file /\ file # None
    /\ awaited.kind = "import" => awaited.confirmed \in DOMAIN imports

RowsInserted ==
  \A n \in 1..MaxImports :
    Inserted(n) = IF n \in DOMAIN imports /\ imports[n].state = "done" THEN imports[n].rows ELSE {}

ReportsDone ==
  step = 3 => /\ result.confirmed \in DOMAIN imports
              /\ imports[result.confirmed].state = "done"
              /\ result.rows = imports[result.confirmed].rows

PreviewKept == step > 1 => result # None /\ result.file = file

ImportInv ==
  AsyncTypeOK /\ ImportTypeOK /\ AwaitsFile /\ RowsInserted /\ ReportsDone /\ PreviewKept

(* A step of the page: the server's side stays. *)
LEMMA PageSideStep ==
  ASSUME ImportInv, AsyncTypeOK', UNCHANGED <<imports, owner>>,
         file' \in File \cup {None}, result' \in Result \cup {None}, step' \in 1..3,
         awaited' \in Request \cup {None}, AwaitsFile', ReportsDone', PreviewKept'
  PROVE  ImportInv'
  <1>1. ImportTypeOK'
    BY DEF ImportInv, ImportTypeOK
  <1>2. RowsInserted'
    BY DEF ImportInv, RowsInserted, Inserted
  <1>3. QED
    BY <1>1, <1>2 DEF ImportInv

LEMMA SendTyping ==
  ASSUME NEW r \in Run, NEW kind \in {"preview", "import", "template"}, NEW f \in File \cup {None},
         NEW n \in Nat, Send(r, kind, f, n), alive \in BOOLEAN
  PROVE  /\ AsyncTypeOK' /\ busy' = TRUE /\ UNCHANGED alive
         /\ awaited' \in Request /\ awaited' # None
         /\ awaited'.kind = kind /\ awaited'.file = f /\ awaited'.confirmed = n
  <1>1. Start(r) /\ UNCHANGED alive
        /\ awaited' = [kind |-> kind, file |-> f, confirmed |-> n, rows |-> None]
    BY DEF Send
  <1>2. awaited' \in Request
    BY <1>1 DEF Request
  <1>3. QED
    BY <1>1, <1>2, StartTyping DEF Start

LEMMA PreviewStep ==
  ASSUME ImportInv, ~busy, NEW r \in Run, NEW f \in File \cup {None}, preview(r, f), file' = f,
         UNCHANGED <<result, step, imports, owner>>, step = 1 \/ f = file
  PROVE  ImportInv'
  <1>1. awaited = None /\ AsyncTypeOK /\ ImportTypeOK
    BY DEF ImportInv, AwaitsFile
  <1>2. AsyncTypeOK' /\ awaited' \in Request \cup {None} /\ AwaitsFile'
    <2>1. CASE f = None /\ UNCHANGED <<asyncVars, awaited>>
      BY <1>1, <2>1 DEF asyncVars, AsyncTypeOK, AwaitsFile
    <2>2. CASE error' = TRUE /\ UNCHANGED <<alive, current, busy, awaited>>
      BY <1>1, <2>2 DEF AsyncTypeOK, AwaitsFile
    <2>3. CASE f \in File \ TooBig /\ Send(r, "preview", f, 0)
      <3>1. /\ AsyncTypeOK' /\ busy' = TRUE /\ awaited' \in Request
            /\ awaited'.kind = "preview" /\ awaited'.file = f
        BY <1>1, <2>3, SendTyping DEF AsyncTypeOK
      <3>2. f # None
        BY <2>3
      <3>3. QED
        BY <3>1, <3>2 DEF AwaitsFile
    <2>4. QED
      BY <2>1, <2>2, <2>3 DEF preview
  <1>3. ReportsDone' /\ PreviewKept'
    BY <1>1 DEF ImportInv, ReportsDone, PreviewKept, ImportTypeOK
  <1>4. QED
    BY <1>1, <1>2, <1>3, PageSideStep DEF ImportTypeOK

LEMMA ConfirmStep ==
  ASSUME ImportInv, NEW r \in Run, confirmImport(r)
  PROVE  ImportInv'
  <1>. DEFINE n == Len(imports) + 1
              new == [file |-> file, state |-> "sent", rows |-> {}]
  <1>1. /\ alive /\ step = 2 /\ file # None /\ Len(imports) < MaxImports
        /\ Send(r, "import", file, n) /\ imports' = Append(imports, new)
        /\ UNCHANGED <<file, result, step, owner>>
    BY DEF confirmImport
  <1>2. imports \in Seq(Import) /\ file \in File \cup {None} /\ Len(imports) \in Nat
        /\ alive \in BOOLEAN
    BY DEF ImportInv, ImportTypeOK, AsyncTypeOK
  <1>3. /\ AsyncTypeOK' /\ busy' = TRUE /\ awaited' \in Request /\ awaited'.kind = "import"
        /\ awaited'.file = file /\ awaited'.confirmed = n
    <2>1. n \in Nat /\ Send(r, "import", file, n)
      BY <1>1, <1>2
    <2>. HIDE DEF n
    <2>2. QED
      BY <1>2, <2>1, SendTyping
  <1>4. new \in Import
    BY <1>1, <1>2 DEF Import
  <1>. HIDE DEF new
  <1>5. /\ imports' \in Seq(Import) /\ Len(imports') = n /\ DOMAIN imports' = 1..n
        /\ DOMAIN imports = 1..(n - 1)
        /\ imports'[n] = new /\ \A i \in DOMAIN imports : imports'[i] = imports[i]
    BY <1>1, <1>2, <1>4
  <1>6. ImportTypeOK'
    BY <1>1, <1>2, <1>3, <1>5 DEF ImportInv, ImportTypeOK
  <1>7. RowsInserted'
    <2>1. ASSUME NEW i \in 1..MaxImports
          PROVE  Inserted(i)' = IF i \in DOMAIN imports' /\ imports'[i].state = "done"
                                THEN imports'[i].rows ELSE {}
      <3>1. Inserted(i)' = Inserted(i)
        BY <1>1 DEF Inserted
      <3>2. CASE i = n
        <4>1. i \notin DOMAIN imports
          BY <1>2, <1>5, <3>2
        <4>2. Inserted(i) = {}
          BY <4>1 DEF ImportInv, RowsInserted
        <4>3. imports'[i].state = "sent"
          BY <1>5, <3>2 DEF new
        <4>4. QED
          BY <3>1, <4>2, <4>3
      <3>3. CASE i # n
        <4>1. i \in DOMAIN imports' <=> i \in DOMAIN imports
          BY <1>2, <1>5, <3>3
        <4>2. QED
          BY <1>5, <3>1, <4>1 DEF ImportInv, RowsInserted
      <3>4. QED
        BY <3>2, <3>3
    <2>2. QED
      BY <2>1 DEF RowsInserted
  <1>8. AwaitsFile'
    BY <1>1, <1>2, <1>3, <1>5 DEF AwaitsFile
  <1>9. ReportsDone' /\ PreviewKept'
    BY <1>1 DEF ImportInv, ReportsDone, PreviewKept
  <1>10. QED
    BY <1>3, <1>6, <1>7, <1>8, <1>9 DEF ImportInv

(* The answer the page waits for, or none, ends the run. *)
LEMMA AnsweredStep ==
  ASSUME ImportInv, NEW failed \in BOOLEAN, End(current, failed), awaited' = None,
         UNCHANGED <<alive, file, imports, owner>>,
         result' \in Result \cup {None}, step' \in 1..3, ReportsDone', PreviewKept'
  PROVE  ImportInv'
  <1>1. AsyncTypeOK'
    BY EndTyping DEF ImportInv
  <1>2. AwaitsFile'
    BY DEF AwaitsFile
  <1>3. QED
    BY <1>1, <1>2, PageSideStep DEF ImportInv, ImportTypeOK

(* The server's side of import n: it moves on, and inserts its rows or not.  *)
LEMMA ServerSideStep ==
  ASSUME ImportInv, NEW n \in DOMAIN imports, imports[n].state # "done",
         NEW job \in Import, imports' = [imports EXCEPT ![n] = job],
         UNCHANGED <<asyncVars, file, result, step, awaited>>,
         owner' \in [Code -> {None} \cup 0..MaxImports],
         Inserted(n)' = IF job.state = "done" THEN job.rows ELSE {},
         \A i \in 1..MaxImports : i # n => Inserted(i)' = Inserted(i)
  PROVE  ImportInv'
  <1>1. UNCHANGED <<alive, current, busy, error>>
    BY DEF asyncVars
  <1>2. imports \in Seq(Import) /\ Len(imports) <= MaxImports
    BY DEF ImportInv, ImportTypeOK
  <1>3. /\ imports' \in Seq(Import) /\ Len(imports') = Len(imports)
        /\ DOMAIN imports' = DOMAIN imports /\ imports'[n] = job
        /\ \A i \in DOMAIN imports : i # n => imports'[i] = imports[i]
    BY <1>2
  <1>4. AsyncTypeOK' /\ ImportTypeOK'
    BY <1>1, <1>2, <1>3 DEF ImportInv, AsyncTypeOK, ImportTypeOK
  <1>5. AwaitsFile' /\ PreviewKept'
    BY <1>1, <1>3 DEF ImportInv, AwaitsFile, PreviewKept
  <1>6. RowsInserted'
    BY <1>3 DEF ImportInv, RowsInserted
  <1>7. ReportsDone'
    BY <1>3 DEF ImportInv, ReportsDone
  <1>8. QED
    BY <1>4, <1>5, <1>6, <1>7 DEF ImportInv

LEMMA AtWork ==
  ASSUME ImportInv, NEW n \in DOMAIN imports, imports[n].state # "done"
  PROVE  /\ imports[n] \in Import /\ n \in 1..MaxImports /\ n # None /\ Inserted(n) = {}
         /\ owner \in [Code -> {None} \cup 0..MaxImports]
  <1>1. imports \in Seq(Import) /\ Len(imports) <= MaxImports /\ Len(imports) \in Nat
        /\ owner \in [Code -> {None} \cup 0..MaxImports]
    BY DEF ImportInv, ImportTypeOK
  <1>2. imports[n] \in Import /\ n \in 1..MaxImports
    BY <1>1
  <1>3. n # None /\ Inserted(n) = {}
    BY <1>2 DEF ImportInv, RowsInserted
  <1>4. QED
    BY <1>1, <1>2, <1>3

LEMMA InsertStep ==
  ASSUME ImportInv, NEW n \in DOMAIN imports, InsertRows(n)
  PROVE  ImportInv'
  <1>1. imports[n].state = "checked" /\ Insert(n)
        /\ UNCHANGED <<asyncVars, file, result, step, awaited>>
    BY DEF InsertRows
  <1>2. /\ imports[n] \in Import /\ n \in 1..MaxImports /\ n # None /\ Inserted(n) = {}
        /\ owner \in [Code -> {None} \cup 0..MaxImports] /\ imports[n].state # "done"
    BY <1>1, AtWork
  <1>3. CASE \A c \in imports[n].rows : owner[c] = None
    <2>. DEFINE job == [imports[n] EXCEPT !.state = "done"]
    <2>1. /\ owner' = [c \in Code |-> IF c \in imports[n].rows THEN n ELSE owner[c]]
          /\ imports' = [imports EXCEPT ![n] = job]
      BY <1>1, <1>3 DEF Insert
    <2>2. job \in Import /\ job.state = "done" /\ job.rows = imports[n].rows
          /\ job.rows \subseteq Code
      BY <1>2 DEF Import
    <2>3. owner' \in [Code -> {None} \cup 0..MaxImports]
      BY <1>2, <2>1
    <2>4. Inserted(n)' = job.rows
      BY <1>2, <2>1, <2>2 DEF Inserted
    <2>5. ASSUME NEW i \in 1..MaxImports, i # n PROVE Inserted(i)' = Inserted(i)
      <3>1. i # None
        OBVIOUS
      <3>2. QED
        BY <1>2, <1>3, <2>1, <2>2, <2>5, <3>1 DEF Inserted
    <2>. HIDE DEF job
    <2>6. QED
      BY <1>1, <1>2, <2>1, <2>2, <2>3, <2>4, <2>5, ServerSideStep
  <1>4. CASE ~\A c \in imports[n].rows : owner[c] = None
    <2>. DEFINE job == [imports[n] EXCEPT !.state = "failed"]
    <2>1. imports' = [imports EXCEPT ![n] = job] /\ owner' = owner
      BY <1>1, <1>4 DEF Insert
    <2>2. job \in Import /\ job.state = "failed"
      BY <1>2 DEF Import
    <2>3. \A i \in 1..MaxImports : Inserted(i)' = Inserted(i)
      BY <2>1 DEF Inserted
    <2>. HIDE DEF job
    <2>4. QED
      BY <1>1, <1>2, <2>1, <2>2, <2>3, ServerSideStep
  <1>5. QED
    BY <1>3, <1>4

LEMMA CheckStep ==
  ASSUME ImportInv, NEW n \in DOMAIN imports, CheckRows(n) \/ ImportFails(n)
  PROVE  ImportInv'
  <1>1. imports[n].state \in {"sent", "checked"}
        /\ UNCHANGED <<asyncVars, file, result, step, awaited, owner>>
    BY DEF CheckRows, ImportFails
  <1>2. /\ imports[n] \in Import /\ n \in 1..MaxImports /\ Inserted(n) = {}
        /\ owner \in [Code -> {None} \cup 0..MaxImports] /\ imports[n].state # "done"
    BY <1>1, AtWork
  <1>3. PICK job \in Import : imports' = [imports EXCEPT ![n] = job] /\ job.state # "done"
    <2>1. CASE CheckRows(n)
      <3>. DEFINE job == [imports[n] EXCEPT !.state = "checked", !.rows = FreeRows(imports[n].file)]
      <3>1. imports' = [imports EXCEPT ![n] = job]
        BY <2>1 DEF CheckRows
      <3>2. FreeRows(imports[n].file) \subseteq Code
        BY <1>2 DEF FreeRows, Import
      <3>3. job \in Import /\ job.state # "done"
        BY <1>2, <3>2 DEF Import
      <3>4. QED
        BY <3>1, <3>3
    <2>2. CASE ImportFails(n)
      <3>. DEFINE job == [imports[n] EXCEPT !.state = "failed"]
      <3>1. imports' = [imports EXCEPT ![n] = job]
        BY <2>2 DEF ImportFails
      <3>2. job \in Import /\ job.state # "done"
        BY <1>2 DEF Import
      <3>3. QED
        BY <3>1, <3>2
    <2>3. QED
      BY <2>1, <2>2
  <1>4. \A i \in 1..MaxImports : Inserted(i)' = Inserted(i)
    BY <1>1 DEF Inserted
  <1>5. QED
    BY <1>1, <1>2, <1>3, <1>4, ServerSideStep

LEMMA TakeStep ==
  ASSUME ImportInv, NEW c \in Code, TakeCode(c)
  PROVE  ImportInv'
  <1>1. /\ owner[c] = None /\ owner' = [owner EXCEPT ![c] = 0]
        /\ UNCHANGED <<alive, current, busy, error, file, result, step, awaited, imports>>
    BY DEF TakeCode, asyncVars
  <1>2. AsyncTypeOK' /\ ImportTypeOK'
    BY <1>1 DEF ImportInv, AsyncTypeOK, ImportTypeOK
  <1>3. ASSUME NEW i \in 1..MaxImports PROVE Inserted(i)' = Inserted(i)
    <2>1. i # None /\ i # 0
      OBVIOUS
    <2>2. QED
      BY <1>1, <2>1 DEF Inserted, ImportInv, ImportTypeOK
  <1>4. RowsInserted'
    BY <1>1, <1>3 DEF ImportInv, RowsInserted
  <1>5. AwaitsFile' /\ ReportsDone' /\ PreviewKept'
    BY <1>1 DEF ImportInv, AwaitsFile, ReportsDone, PreviewKept
  <1>6. QED
    BY <1>2, <1>4, <1>5 DEF ImportInv

LEMMA ImportStep ==
  ASSUME ImportInv, ImportNext
  PROVE  ImportInv'
  <1>1. AsyncTypeOK /\ ImportTypeOK
    BY DEF ImportInv
  <1>2. /\ alive \in BOOLEAN /\ file \in File \cup {None} /\ result \in Result \cup {None}
        /\ step \in 1..3 /\ awaited \in Request \cup {None} /\ imports \in Seq(Import)
        /\ owner \in [Code -> {None} \cup 0..MaxImports]
    BY <1>1 DEF AsyncTypeOK, ImportTypeOK
  <1>3. CASE openImport
    <2>1. UNCHANGED <<current, busy, error, file, result, step, awaited, imports, owner>>
          /\ alive' = TRUE
      BY <1>3 DEF openImport, importVars
    <2>2. AsyncTypeOK'
      BY <1>1, <2>1 DEF AsyncTypeOK
    <2>3. AwaitsFile' /\ ReportsDone' /\ PreviewKept'
      BY <2>1 DEF ImportInv, AwaitsFile, ReportsDone, PreviewKept
    <2>4. QED
      BY <1>2, <2>1, <2>2, <2>3, PageSideStep
  <1>4. CASE reset
    <2>1. /\ file' = None /\ result' = None /\ step' = 1 /\ error' = FALSE /\ ~busy
          /\ UNCHANGED <<alive, current, busy, awaited, imports, owner>>
      BY <1>4 DEF reset
    <2>2. AsyncTypeOK'
      BY <1>1, <2>1 DEF AsyncTypeOK
    <2>3. AwaitsFile' /\ ReportsDone' /\ PreviewKept'
      BY <2>1 DEF ImportInv, AwaitsFile, ReportsDone, PreviewKept
    <2>4. QED
      BY <1>2, <2>1, <2>2, <2>3, PageSideStep
  <1>5. ASSUME NEW r \in Run, NEW f \in File \cup {None}, choose(r, f) PROVE ImportInv'
    BY <1>5, PreviewStep DEF choose
  <1>6. ASSUME NEW r \in Run, RetryPreview(r) PROVE ImportInv'
    BY <1>2, <1>6, PreviewStep DEF RetryPreview
  <1>7. ASSUME NEW r \in Run, template(r) PROVE ImportInv'
    <2>1. Send(r, "template", None, 0) /\ UNCHANGED <<file, result, step, imports, owner>>
      BY <1>7 DEF template
    <2>2. /\ AsyncTypeOK' /\ busy' = TRUE /\ awaited' \in Request /\ awaited'.kind = "template"
      BY <1>2, <2>1, SendTyping
    <2>3. AwaitsFile' /\ ReportsDone' /\ PreviewKept'
      BY <2>1, <2>2 DEF ImportInv, AwaitsFile, ReportsDone, PreviewKept
    <2>4. QED
      BY <1>2, <2>1, <2>2, <2>3, PageSideStep
  <1>8. CASE PreviewServed
    <2>1. /\ awaited \in Request /\ awaited.kind = "preview"
          /\ awaited' = [awaited EXCEPT !.rows = FreeRows(awaited.file)]
          /\ UNCHANGED <<alive, current, busy, error, file, result, step, imports, owner>>
      BY <1>2, <1>8 DEF PreviewServed, asyncVars
    <2>2. awaited.file \in File
      BY <1>8, <2>1 DEF PreviewServed, ImportInv, AwaitsFile, Request
    <2>3. FreeRows(awaited.file) \subseteq Code
      BY <2>2 DEF FreeRows
    <2>4. awaited' \in Request /\ awaited'.kind = "preview" /\ awaited'.file = awaited.file
      BY <2>1, <2>3 DEF Request
    <2>5. AsyncTypeOK'
      BY <1>1, <2>1 DEF AsyncTypeOK
    <2>6. AwaitsFile' /\ ReportsDone' /\ PreviewKept'
      BY <1>8, <2>1, <2>4 DEF PreviewServed, ImportInv, AwaitsFile, ReportsDone, PreviewKept
    <2>7. QED
      BY <1>2, <2>1, <2>4, <2>5, <2>6, PageSideStep
  <1>9. CASE Previewed \/ Imported
    <2>. DEFINE n == IF awaited.kind = "preview" THEN 0 ELSE awaited.confirmed
                rows == IF awaited.kind = "preview" THEN awaited.rows ELSE imports[n].rows
    <2>1. /\ awaited \in Request /\ awaited.kind \in {"preview", "import"}
          /\ End(current, FALSE) /\ awaited' = None /\ UNCHANGED <<alive, file, imports, owner>>
          /\ result' = [file |-> awaited.file, confirmed |-> n, rows |-> rows]
          /\ awaited.kind = "preview" => step' = 2 /\ awaited.rows # None
          /\ awaited.kind = "import" => step' = 3 /\ imports[n].state = "done"
      BY <1>2, <1>9 DEF Previewed, Imported, ImportAnswered
    <2>2. awaited.file = file /\ awaited.file \in File
          /\ (awaited.kind = "import" => n \in DOMAIN imports)
      BY <1>2, <2>1 DEF ImportInv, AwaitsFile, Request
    <2>3. n \in Nat /\ rows \subseteq Code
      <3>1. CASE awaited.kind = "preview"
        BY <2>1, <3>1 DEF Request
      <3>2. CASE awaited.kind = "import"
        <4>1. imports[n] \in Import
          BY <1>2, <2>2, <3>2
        <4>2. QED
          BY <2>1, <3>2, <4>1 DEF Import, Request
      <3>3. QED
        BY <2>1, <3>1, <3>2
    <2>. HIDE DEF n
    <2>4. (awaited.kind = "import" => rows = imports[n].rows)
      BY <2>1
    <2>. HIDE DEF rows
    <2>5. result' \in Result /\ result'.file = file' /\ result'.confirmed = n /\ result'.rows = rows
      BY <2>1, <2>2, <2>3 DEF Result
    <2>6. ReportsDone' /\ PreviewKept'
      BY <2>1, <2>2, <2>4, <2>5 DEF ReportsDone, PreviewKept
    <2>7. step' \in 1..3
      BY <2>1
    <2>8. QED
      BY <2>1, <2>5, <2>6, <2>7, AnsweredStep
  <1>10. CASE TemplateArrives \/ ImportRequestFails
    <2>1. /\ \E failed \in BOOLEAN : End(current, failed)
          /\ awaited' = None /\ UNCHANGED <<alive, file, result, step, imports, owner>>
      BY <1>10 DEF TemplateArrives, ImportRequestFails, ImportAnswered
    <2>2. ReportsDone' /\ PreviewKept'
      BY <2>1 DEF ImportInv, ReportsDone, PreviewKept
    <2>3. QED
      BY <1>2, <2>1, <2>2, AnsweredStep
  <1>11. QED
    BY <1>3, <1>4, <1>5, <1>6, <1>7, <1>8, <1>9, <1>10, ConfirmStep, InsertStep, CheckStep,
       TakeStep DEF ImportNext

LEMMA ImportHolds ==
  ASSUME ImportInv
  PROVE  ImportExact
  <1>1. step > 1 => result # None /\ result.file = file
    BY DEF ImportInv, PreviewKept
  <1>2. ASSUME step = 3 PROVE result.rows = Inserted(result.confirmed)
    <2>1. result.confirmed \in DOMAIN imports /\ imports[result.confirmed].state = "done"
          /\ result.rows = imports[result.confirmed].rows
      BY <1>2 DEF ImportInv, ReportsDone
    <2>2. result.confirmed \in 1..MaxImports
      BY <2>1 DEF ImportInv, ImportTypeOK
    <2>3. QED
      BY <2>1, <2>2 DEF ImportInv, RowsInserted
  <1>3. QED
    BY <1>1, <1>2 DEF ImportExact

-------------------------------------------------------------------------------
(* The console: the page that is looked at keeps its invariant, the others   *)
(* stay as they start.                                                       *)
ConsoleInv ==
  /\ route \in Route /\ AsyncTypeOK
  /\ IF route = "notifications" THEN PageInv ELSE InboxInit
  /\ IF route = "staff" THEN StaffInv ELSE StaffInit
  /\ IF route = "qr" THEN QRInv ELSE QRInit
  /\ IF route = "import" THEN ImportInv ELSE ImportInit

LEMMA ConsoleStart ==
  ASSUME Init
  PROVE  ConsoleInv
  <1>1. AsyncTypeOK /\ PageInv
    BY InboxStart DEF Init, PageInv, InboxInv, Shape
  <1>2. StaffInv
    <2>1. StaffTypeOK
      BY DEF Init, StaffInit, StaffTypeOK, Document
    <2>2. ManagerFits
      BY DEF Init, StaffInit, ManagerFits, ManagersAt
    <2>3. QED
      BY <1>1, <2>1, <2>2 DEF Init, StaffInit, StaffInv
  <1>3. QRInv
    <2>1. QRTypeOK
      BY DEF Init, QRInit, QRTypeOK, Status
    <2>2. LoadsSelected /\ ChangesSelected /\ HasSubject /\ PanelExplained
      BY DEF Init, QRInit, LoadsSelected, LoadsPanel, ChangesSelected, HasSubject, PanelExplained
    <2>3. QED
      BY <1>1, <2>1, <2>2 DEF QRInv
  <1>4. ImportInv
    <2>1. imports \in Seq(Import) /\ Len(imports) = 0 /\ DOMAIN imports = {}
      BY DEF Init, ImportInit
    <2>2. owner \in [Code -> {None} \cup 0..MaxImports]
      BY DEF Init, ImportInit
    <2>3. ImportTypeOK
      BY <2>1, <2>2 DEF Init, ImportInit, ImportTypeOK
    <2>4. \A n \in 1..MaxImports : Inserted(n) = {}
      BY DEF Init, ImportInit, Inserted
    <2>5. RowsInserted
      BY <2>1, <2>4 DEF RowsInserted
    <2>6. AwaitsFile /\ ReportsDone /\ PreviewKept
      BY DEF Init, ImportInit, AwaitsFile, ReportsDone, PreviewKept
    <2>7. QED
      BY <1>1, <2>3, <2>5, <2>6 DEF ImportInv
  <1>5. QED
    BY <1>1, <1>2, <1>3, <1>4 DEF Init, ConsoleInv

LEMMA InboxStays == ASSUME InboxInit, UNCHANGED inboxVars PROVE InboxInit' /\ UNCHANGED data
  BY DEF InboxInit, inboxVars, EmptyPage

LEMMA StaffStays == ASSUME StaffInit, UNCHANGED staffVars PROVE StaffInit'
  BY DEF StaffInit, staffVars

LEMMA QRStays == ASSUME QRInit, UNCHANGED qrVars PROVE QRInit'
  BY DEF QRInit, qrVars

LEMMA ImportStays == ASSUME ImportInit, UNCHANGED importVars PROVE ImportInit'
  BY DEF ImportInit, importVars

LEMMA ConsoleStep ==
  ASSUME ConsoleInv, Next
  PROVE  ConsoleInv' /\ (data' # data => data'.new \cap known = {})
  <1>1. route' = route
    BY DEF Next
  <1>2. CASE route = "notifications" /\ OnInbox
    <2>1. PageInv /\ InboxNext /\ UNCHANGED <<staffVars, qrVars, importVars>>
      BY <1>2 DEF ConsoleInv, OnInbox
    <2>2. PageInv' /\ (data' # data => data'.new \cap known = {})
      BY <2>1, InboxStep
    <2>3. AsyncTypeOK'
      BY <2>2 DEF PageInv, InboxInv, Shape
    <2>4. QED
      BY <1>1, <1>2, <2>1, <2>2, <2>3, StaffStays, QRStays, ImportStays DEF ConsoleInv
  <1>3. CASE route = "staff" /\ OnStaff
    <2>1. StaffInv /\ StaffNext /\ UNCHANGED <<inboxVars, qrVars, importVars>>
      BY <1>3 DEF ConsoleInv, OnStaff
    <2>2. StaffInv' /\ AsyncTypeOK'
      BY <2>1, StaffStep DEF StaffInv
    <2>3. QED
      BY <1>1, <1>3, <2>1, <2>2, InboxStays, QRStays, ImportStays DEF ConsoleInv
  <1>4. CASE route = "qr" /\ OnQR
    <2>1. QRInv /\ QRNext /\ UNCHANGED <<inboxVars, staffVars, importVars>>
      BY <1>4 DEF ConsoleInv, OnQR
    <2>2. QRInv' /\ AsyncTypeOK'
      BY <2>1, QRStep DEF QRInv
    <2>3. QED
      BY <1>1, <1>4, <2>1, <2>2, InboxStays, StaffStays, ImportStays DEF ConsoleInv
  <1>5. CASE route = "import" /\ OnImport
    <2>1. ImportInv /\ ImportNext /\ UNCHANGED <<inboxVars, staffVars, qrVars>>
      BY <1>5 DEF ConsoleInv, OnImport
    <2>2. ImportInv' /\ AsyncTypeOK'
      BY <2>1, ImportStep DEF ImportInv
    <2>3. QED
      BY <1>1, <1>5, <2>1, <2>2, InboxStays, StaffStays, QRStays DEF ConsoleInv
  <1>6. QED
    BY <1>2, <1>3, <1>4, <1>5 DEF Next

LEMMA ConsoleIdle ==
  ASSUME ConsoleInv, UNCHANGED console
  PROVE  ConsoleInv'
  <1>1. UNCHANGED <<route, asyncVars, inboxVars, staffVars, qrVars, importVars>>
    BY DEF console
  <1>2. AsyncTypeOK'
    BY <1>1 DEF ConsoleInv, asyncVars, AsyncTypeOK
  <1>3. PageInv => PageInv'
    BY <1>1, InboxIdle DEF inbox
  <1>4. StaffInv => StaffInv'
    <2>1. StaffInv => StaffTypeOK'
      BY <1>1 DEF staffVars, StaffInv, StaffTypeOK
    <2>2. StaffInv => ManagerFits'
      BY <1>1 DEF staffVars, StaffInv, ManagerFits, ManagersAt
    <2>3. QED
      BY <1>1, <1>2, <2>1, <2>2 DEF staffVars, StaffInv
  <1>5. QRInv => QRInv'
    <2>1. QRInv => QRTypeOK'
      BY <1>1 DEF qrVars, QRInv, QRTypeOK
    <2>2. QRInv => LoadsSelected' /\ ChangesSelected' /\ HasSubject' /\ PanelExplained'
      BY <1>1 DEF qrVars, QRInv, LoadsSelected, LoadsPanel, ChangesSelected, HasSubject,
                  PanelExplained
    <2>3. QED
      BY <1>2, <2>1, <2>2 DEF QRInv
  <1>6. ImportInv => ImportInv'
    <2>1. ImportInv => ImportTypeOK' /\ RowsInserted'
      BY <1>1 DEF importVars, ImportInv, ImportTypeOK, RowsInserted, Inserted
    <2>2. ImportInv => AwaitsFile' /\ ReportsDone' /\ PreviewKept'
      BY <1>1 DEF importVars, asyncVars, ImportInv, AwaitsFile, ReportsDone, PreviewKept
    <2>3. QED
      BY <1>2, <2>1, <2>2 DEF ImportInv
  <1>7. QED
    BY <1>1, <1>2, <1>3, <1>4, <1>5, <1>6, InboxStays, StaffStays, QRStays, ImportStays
       DEF ConsoleInv

LEMMA ConsoleAlways == Spec => []ConsoleInv
  <1>1. Init => ConsoleInv
    BY ConsoleStart
  <1>2. ConsoleInv /\ [Next]_console => ConsoleInv'
    BY ConsoleStep, ConsoleIdle
  <1>3. QED
    BY <1>1, <1>2, PTL DEF Spec

-------------------------------------------------------------------------------
(* Every variable of the four pages keeps its type.                          *)
THEOREM ConsoleTypeCorrect == Spec => []ConsoleTypeOK
  <1>1. ConsoleInv => ConsoleTypeOK
    <2>1. InboxInit => InboxTypeOK
      <3>1. EmptyPage \in Answer
        BY InboxAssumption DEF EmptyPage, Answer
      <3>2. QED
        BY <3>1, InboxAssumption DEF InboxInit, InboxTypeOK, Filter
    <2>2. StaffInit => StaffTypeOK
      <3>1. StaffInit => draft \in Document /\ opened \in Document
        BY DEF StaffInit, Document
      <3>2. StaffInit => /\ cinemas \in BOOLEAN /\ dialog \in BOOLEAN
                         /\ managersLoading \in BOOLEAN /\ managerError \in BOOLEAN
        BY DEF StaffInit
      <3>3. QED
        BY <3>1, <3>2 DEF StaffInit, StaffTypeOK
    <2>3. QRInit => QRTypeOK
      BY DEF QRInit, QRTypeOK, Status
    <2>4. ImportInit => ImportTypeOK
      <3>1. <<>> \in Seq(Import) /\ Len(<<>>) = 0
        OBVIOUS
      <3>2. QED
        BY <3>1 DEF ImportInit, ImportTypeOK
    <2>5. QED
      BY <2>1, <2>2, <2>3, <2>4 DEF ConsoleInv, ConsoleTypeOK, PageInv, InboxInv, Shape, StaffInv,
                                    QRInv, ImportInv
  <1>2. QED
    BY <1>1, ConsoleAlways, PTL

(* A notification that the inbox has shown as read, or was told is read, is  *)
(* never shown as unread again, however loads, polls and answers overtake    *)
(* each other.                                                               *)
THEOREM ReadStaysRead == Spec => NeverUnreadAgain
  <1>1. ConsoleInv /\ [Next]_console => [data' # data => data'.new \cap known = {}]_inbox
    BY ConsoleStep DEF console, inbox, inboxVars
  <1>2. QED
    BY <1>1, ConsoleAlways, PTL DEF Spec, NeverUnreadAgain

(* The inbox shows the answer for the filter and page that are selected.     *)
THEOREM ListFitsQuery == Spec => []DataAnswersQuery
  <1>1. InboxInit => DataAnswersQuery
    <2>1. InboxInit => data.unread = FALSE /\ data.page = page
      BY DEF InboxInit, EmptyPage
    <2>2. InboxInit => (filter = "unread") = FALSE
      BY DEF InboxInit
    <2>3. QED
      BY <2>1, <2>2 DEF DataAnswersQuery, query
  <1>2. ConsoleInv => DataAnswersQuery
    BY <1>1, ShownAnswers DEF ConsoleInv
  <1>3. QED
    BY <1>2, ConsoleAlways, PTL

(* The managers offered are those of the draft's cinema, whichever answers   *)
(* for cinemas chosen before come in.                                        *)
THEOREM ManagersFitCinema == Spec => []ManagerFits
  <1>1. ConsoleInv => ManagerFits
    BY DEF ConsoleInv, StaffInv, StaffInit, ManagerFits, ManagersAt
  <1>2. QED
    BY <1>1, ConsoleAlways, PTL

(* The panel mixes up two members only if it was loaded for two at once, and *)
(* the question only if another code was still being changed.                *)
THEOREM PanelIsExplained == Spec => []PanelExplained
  <1>1. ConsoleInv => PanelExplained
    BY DEF ConsoleInv, QRInv, QRInit, PanelExplained
  <1>2. QED
    BY <1>1, ConsoleAlways, PTL

(* An import reports exactly what it inserted, of the file that was previewed. *)
THEOREM ImportReportsExactly == Spec => []ImportExact
  <1>1. ImportInit => ImportExact
    BY DEF ImportInit, ImportExact
  <1>2. ConsoleInv => ImportExact
    BY <1>1, ImportHolds DEF ConsoleInv
  <1>3. QED
    BY <1>2, ConsoleAlways, PTL
===============================================================================
