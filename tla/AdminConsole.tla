----------------------------- MODULE AdminConsole -----------------------------
(***************************************************************************)
(* The pages of the admin console together.  The router shows one page at  *)
(* a time; the pages share AsyncPage and the server, but none of their     *)
(* state, so a behaviour stays on the page it starts with.                 *)
(***************************************************************************)
EXTENDS NotificationInbox, StaffEditor, QRPanel, StaffImport

CONSTANT Route    \* the pages that are looked at
VARIABLE route

ASSUME RouteAssumption == Route \subseteq {"notifications", "staff", "qr", "import"}

console == <<route, asyncVars, inboxVars, staffVars, qrVars, importVars>>

Init ==
  /\ route \in Route
  /\ AsyncInit /\ InboxInit /\ StaffInit /\ QRInit /\ ImportInit

OnInbox == InboxNext /\ UNCHANGED <<staffVars, qrVars, importVars>>
OnStaff == StaffNext /\ UNCHANGED <<inboxVars, qrVars, importVars>>
OnQR == QRNext /\ UNCHANGED <<inboxVars, staffVars, importVars>>
OnImport == ImportNext /\ UNCHANGED <<inboxVars, staffVars, qrVars>>

Next ==
  /\ \/ route = "notifications" /\ OnInbox
     \/ route = "staff" /\ OnStaff
     \/ route = "qr" /\ OnQR
     \/ route = "import" /\ OnImport
  /\ UNCHANGED route

BellRings ==
  /\ route = "notifications" /\ Bell
  /\ UNCHANGED <<route, staffVars, qrVars, importVars>>

(* The bell's timer fires while the tab is visible, which it is now and then, *)
(* and a request for the count is answered or fails.                         *)
Spec == Init /\ [][Next]_console /\ WF_console(BellRings)

-------------------------------------------------------------------------------
ConsoleTypeOK ==
  /\ route \in Route /\ AsyncTypeOK
  /\ InboxTypeOK /\ StaffTypeOK /\ QRTypeOK /\ ImportTypeOK

(* On the inbox, the bell ends up with the number of unread notifications    *)
(* (CounterSettles).                                                         *)
BellSettles == route = "notifications" => CounterSettles
===============================================================================
