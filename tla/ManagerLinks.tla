------------------------------ MODULE ManagerLinks ------------------------------
(***************************************************************************)
(* The direct manager of a staff member against changes of the manager's   *)
(* account (backend/internal/server: saveStaff in management.go, users.go, *)
(* detachManager in notifications.go; backend/internal/auth/users.go).     *)
(*                                                                         *)
(* Accounts live in Keycloak, staff in MongoDB, and nothing spans the two: *)
(* saveStaff looks the manager up and writes the link later; saveUser and  *)
(* deleteUser announce themselves in the audit log, change the account in  *)
(* several requests and then clear the links that no longer fit.           *)
(*                                                                         *)
(* Of the audit log only the last entry about each account is kept.  The   *)
(* status of cinemas, names, passwords and e-mail addresses are left out.  *)
(***************************************************************************)
EXTENDS Naturals

CONSTANTS
  Staff, Cinema, NoCinema, Manager, NoManager,
  Editor,        \* concurrent staff saves
  Admin,         \* concurrent account requests
  None,          \* no request
  Faulty         \* whether requests may fail and the server may crash

VARIABLES
  staff,         \* staff documents: cinema and managerId
  account,       \* the accounts in Keycloak
  save,          \* save[e]: a staff save under way
  change,        \* change[a]: an account request under way
  entry,         \* entry[m]: the last audit entry about account m
  undetached,    \* accounts whose last clearing of links failed, as logged
  outdated,      \* saves whose manager has changed since they looked it up
  raced          \* staff whose link was written by an outdated save

vars == <<staff, account, save, change, entry, undetached, outdated, raced>>

-------------------------------------------------------------------------------
Role == {"CINEMA_MANAGER", "HEAD_OFFICE", "SYSTEM_ADMIN"}
StaffDoc == [cinema : Cinema, manager : Manager \cup {NoManager}]
Account == [state : {"none", "live", "gone"}, enabled : BOOLEAN,
            cinema : Cinema \cup {NoCinema}, roles : SUBSET Role]
Save == [phase : {"user", "roles", "write"}, staff : Staff, cinema : Cinema,
         manager : Manager \cup {NoManager}, fits : BOOLEAN]
Change == [phase : {"put", "grant", "list", "remove", "delete", "settled", "record"},
           account : Manager, enabled : BOOLEAN, cinema : Cinema \cup {NoCinema},
           role : Role \cup {"NONE"}, doomed : SUBSET Role]
Entry == {"NONE", "REQUESTED", "FAILED", "DONE"}

ASSUME LinksAssumption ==
  /\ NoManager \notin Manager /\ NoCinema \notin Cinema
  /\ None \notin Save /\ None \notin Change
  /\ Faulty \in BOOLEAN

(* eligibleManager *)
Eligible(m, k) ==
  /\ account[m].state = "live" /\ account[m].enabled
  /\ "CINEMA_MANAGER" \in account[m].roles
  /\ account[m].cinema = k

-------------------------------------------------------------------------------
\* Mutant: a manager is looked up even when there is none.
BeginSaveLookup(e, s, k, m) ==
  /\ save[e] = None
  /\ save' = [save EXCEPT ![e] = [phase |-> "user", staff |-> s, cinema |-> k,
                                  manager |-> m, fits |-> FALSE]]
  /\ outdated' = outdated \ {e}
  /\ UNCHANGED <<staff, account, change, entry, undetached, raced>>

(* saveStaff.  A save without a manager has nothing to look up.              *)
BeginSave(e, s, k, m) ==
  /\ save[e] = None
  /\ save' = [save EXCEPT ![e] = [phase |-> IF m = NoManager THEN "write" ELSE "user",
                                  staff |-> s, cinema |-> k, manager |-> m, fits |-> FALSE]]
  /\ outdated' = outdated \ {e}
  /\ UNCHANGED <<staff, account, change, entry, undetached, raced>>

(* UserAdmin.Get asks for the account and then for its roles. *)
ReadUser(e) ==
  /\ save[e] # None /\ save[e].phase = "user"
  /\ account[save[e].manager].state = "live"
  /\ save' = [save EXCEPT ![e] =
       [phase |-> "roles", staff |-> save[e].staff, cinema |-> save[e].cinema,
        manager |-> save[e].manager,
        fits |-> /\ account[save[e].manager].enabled
                 /\ account[save[e].manager].cinema = save[e].cinema]]
  /\ outdated' = outdated \ {e}
  /\ UNCHANGED <<staff, account, change, entry, undetached, raced>>

ReadRoles(e) ==
  /\ save[e] # None /\ save[e].phase = "roles"
  /\ account[save[e].manager].state = "live"
  /\ save[e].fits /\ "CINEMA_MANAGER" \in account[save[e].manager].roles
  /\ save' = [save EXCEPT ![e] =
       [phase |-> "write", staff |-> save[e].staff, cinema |-> save[e].cinema,
        manager |-> save[e].manager, fits |-> TRUE]]
  /\ UNCHANGED <<staff, account, change, entry, undetached, outdated, raced>>

(* The staff document is replaced. *)
Write(e) ==
  LET s == save[e].staff
  IN  /\ save[e] # None /\ save[e].phase = "write"
      /\ staff' = [staff EXCEPT ![s] = [cinema |-> save[e].cinema, manager |-> save[e].manager]]
      /\ raced' = IF e \in outdated THEN raced \cup {s} ELSE raced \ {s}
      /\ save' = [save EXCEPT ![e] = None]
      /\ UNCHANGED <<account, change, entry, undetached, outdated>>

(* 4xx, 5xx or a crash: nothing is written. *)
AbandonSave(e) ==
  /\ save[e] # None
  /\ save' = [save EXCEPT ![e] = None]
  /\ UNCHANGED <<staff, account, change, entry, undetached, outdated, raced>>

-------------------------------------------------------------------------------
\* Mutant: the account is changed first and the change logged afterwards.
BeginUnannounced(a, m, role, k, enabled) ==
  /\ change[a] = None
  /\ k = NoCinema <=> role # "CINEMA_MANAGER"
  /\ role = "NONE" => ~enabled /\ account[m].state # "none"
  /\ change' = [change EXCEPT ![a] =
       [phase |-> IF role = "NONE" THEN "delete" ELSE "put",
        account |-> m, enabled |-> enabled, cinema |-> k, role |-> role, doomed |-> {}]]
  /\ UNCHANGED <<staff, account, save, entry, undetached, outdated, raced>>

(* saveUser and deleteUser.  The intent is logged before anything happens.   *)
(* Only a cinema manager keeps a cinema.                                     *)
BeginChange(a, m, role, k, enabled) ==
  /\ change[a] = None
  /\ k = NoCinema <=> role # "CINEMA_MANAGER"
  /\ role = "NONE" => ~enabled /\ account[m].state # "none"
  /\ change' = [change EXCEPT ![a] =
       [phase |-> IF role = "NONE" THEN "delete" ELSE "put",
        account |-> m, enabled |-> enabled, cinema |-> k, role |-> role, doomed |-> {}]]
  /\ entry' = [entry EXCEPT ![m] = "REQUESTED"]
  /\ UNCHANGED <<staff, account, save, undetached, outdated, raced>>

At(a, phase) == change[a] # None /\ change[a].phase = phase

Goto(a, phase, doomed) ==
  change' = [change EXCEPT ![a] =
               [phase |-> phase, account |-> change[a].account, enabled |-> change[a].enabled,
                cinema |-> change[a].cinema, role |-> change[a].role, doomed |-> doomed]]

(* Keycloak stores x as account m; the saves that have looked m up are now   *)
(* outdated.                                                                 *)
Store(m, x) ==
  /\ account' = [account EXCEPT ![m] = x]
  /\ outdated' = outdated \cup {e \in Editor : save[e] # None /\ save[e].manager = m}

(* The account is created or updated; its roles stay. *)
Put(a) ==
  LET m == change[a].account
  IN  /\ At(a, "put")
      /\ account[m].state # "gone"
      /\ Store(m, [state |-> "live", enabled |-> change[a].enabled,
                   cinema |-> change[a].cinema, roles |-> account[m].roles])
      /\ Goto(a, "grant", {})
      /\ UNCHANGED <<staff, save, entry, undetached, raced>>

SetRoles(m, roles) ==
  Store(m, [state |-> "live", enabled |-> account[m].enabled,
            cinema |-> account[m].cinema, roles |-> roles])

Grant(a) ==
  LET m == change[a].account
  IN  /\ At(a, "grant")
      /\ account[m].state = "live"
      /\ SetRoles(m, account[m].roles \cup {change[a].role})
      /\ Goto(a, "list", {})
      /\ UNCHANGED <<staff, save, entry, undetached, raced>>

\* Mutant: the role just granted is removed with the others.
ListAllRoles(a) ==
  /\ At(a, "list")
  /\ account[change[a].account].state = "live"
  /\ Goto(a, "remove", account[change[a].account].roles)
  /\ UNCHANGED <<staff, account, save, entry, undetached, outdated, raced>>

\* Mutant: the roles it had are left to the account.
ListNoRoles(a) ==
  /\ At(a, "list")
  /\ account[change[a].account].state = "live"
  /\ Goto(a, "remove", {})
  /\ UNCHANGED <<staff, account, save, entry, undetached, outdated, raced>>

(* The platform roles that the new one replaces. *)
ListRoles(a) ==
  /\ At(a, "list")
  /\ account[change[a].account].state = "live"
  /\ Goto(a, "remove", account[change[a].account].roles \ {change[a].role})
  /\ UNCHANGED <<staff, account, save, entry, undetached, outdated, raced>>

Remove(a) ==
  LET m == change[a].account
  IN  /\ At(a, "remove")
      /\ account[m].state = "live"
      /\ SetRoles(m, account[m].roles \ change[a].doomed)
      /\ Goto(a, "settled", {})
      /\ UNCHANGED <<staff, save, entry, undetached, raced>>

Delete(a) ==
  LET m == change[a].account
  IN  /\ At(a, "delete")
      /\ account[m].state = "live"
      /\ Store(m, [state |-> "gone", enabled |-> FALSE, cinema |-> NoCinema, roles |-> {}])
      /\ Goto(a, "settled", {})
      /\ UNCHANGED <<staff, save, entry, undetached, raced>>

\* Mutant: a manager who has moved keeps the staff of the former cinema.
KeepsManaging(a) ==
  IF change[a].enabled /\ change[a].role = "CINEMA_MANAGER" THEN Cinema ELSE {}

\* Mutant: a manager loses every link, those of the cinema just assigned too.
KeepsNothing(a) == {}

(* The cinemas whose links survive: the one an enabled manager has now.      *)
Keeps(a) ==
  IF change[a].enabled /\ change[a].role = "CINEMA_MANAGER" THEN {change[a].cinema} ELSE {}

(* The sessions are ended and detachManager clears the links outside the     *)
(* account's scope.  An error of that update is only logged.                 *)
Detach(a) ==
  LET m == change[a].account
  IN  /\ At(a, "settled")
      /\ \/ /\ staff' = [s \in Staff |->
                 IF staff[s].manager = m /\ staff[s].cinema \notin Keeps(a)
                 THEN [cinema |-> staff[s].cinema, manager |-> NoManager] ELSE staff[s]]
            /\ undetached' = undetached \ {m}
         \/ /\ Faulty
            /\ undetached' = undetached \cup {m}
            /\ UNCHANGED staff
      /\ Goto(a, "record", {})
      /\ UNCHANGED <<account, save, entry, outdated, raced>>

(* The outcome is logged. *)
Record(a) ==
  /\ At(a, "record")
  /\ change' = [change EXCEPT ![a] = None]
  /\ entry' = [entry EXCEPT ![change[a].account] = "DONE"]
  /\ UNCHANGED <<staff, account, save, undetached, outdated, raced>>

\* The account to change is no longer there.
NotFound(a) ==
  /\ change[a].phase \in {"put", "grant", "list", "remove", "delete"}
  /\ account[change[a].account].state = "gone"

(* A request to Keycloak fails, or was carried out and its answer lost: the  *)
(* failure is logged and the links stay as they are.  When the audit entry   *)
(* cannot be stored or the server crashes, nothing is logged.                *)
Fail(a) ==
  /\ change[a] # None
  /\ change' = [change EXCEPT ![a] = None]
  /\ \/ /\ (Faulty /\ change[a].phase # "record") \/ NotFound(a)
        /\ entry' = [entry EXCEPT ![change[a].account] = "FAILED"]
     \/ Faulty /\ UNCHANGED entry
  /\ UNCHANGED <<staff, account, save, undetached, outdated, raced>>

-------------------------------------------------------------------------------
(* Every account is still to be created or an active manager's. *)
Init ==
  /\ staff \in [Staff -> {d \in StaffDoc : d.manager = NoManager}]
  /\ account \in [Manager ->
       {x \in Account :
          \/ x.state = "none" /\ ~x.enabled /\ x.cinema = NoCinema /\ x.roles = {}
          \/ x.state = "live" /\ x.enabled /\ x.cinema # NoCinema /\ x.roles = {"CINEMA_MANAGER"}}]
  /\ save = [e \in Editor |-> None]
  /\ change = [a \in Admin |-> None]
  /\ entry = [m \in Manager |-> "NONE"]
  /\ undetached = {} /\ outdated = {} /\ raced = {}

EditorStep(e) ==
  \/ \E s \in Staff, k \in Cinema, m \in Manager \cup {NoManager} : BeginSave(e, s, k, m)
  \/ ReadUser(e) \/ ReadRoles(e) \/ Write(e) \/ AbandonSave(e)

AdminStep(a) ==
  \/ \E m \in Manager, role \in Role \cup {"NONE"}, k \in Cinema \cup {NoCinema},
        enabled \in BOOLEAN : BeginChange(a, m, role, k, enabled)
  \/ Put(a) \/ Grant(a) \/ ListRoles(a) \/ Remove(a) \/ Delete(a)
  \/ Detach(a) \/ Record(a) \/ Fail(a)

Next == (\E e \in Editor : EditorStep(e)) \/ (\E a \in Admin : AdminStep(a))

Spec == Init /\ [][Next]_vars

(* Account requests that are under way at once are about different accounts. *)
(* Nothing in the code sees to it: it is what is asked of administrators.    *)
Apart ==
  \A a, b \in Admin : a # b /\ change[a] # None /\ change[b] # None =>
    change[a].account # change[b].account

ApartSpec == Init /\ [][Next /\ Apart']_vars

-------------------------------------------------------------------------------
TypeOK ==
  /\ staff \in [Staff -> StaffDoc]
  /\ account \in [Manager -> Account]
  /\ save \in [Editor -> Save \cup {None}]
  /\ \A e \in Editor :
       save[e] # None /\ save[e].manager = NoManager => save[e].phase = "write"
  /\ change \in [Admin -> Change \cup {None}]
  /\ entry \in [Manager -> Entry]
  /\ undetached \in SUBSET Manager /\ outdated \in SUBSET Editor /\ raced \in SUBSET Staff

Stale(s) == staff[s].manager # NoManager /\ ~Eligible(staff[s].manager, staff[s].cinema)

(* No request is left half done: every link to a manager who cannot read the *)
(* staff member's notifications is explained by the logs (an account request *)
(* announced but not done, a failed clearing) or was written by a save that  *)
(* an account change overtook.                                               *)
LinksExplained ==
  \A s \in Staff : Stale(s) =>
    \/ entry[staff[s].manager] \in {"REQUESTED", "FAILED"}
    \/ staff[s].manager \in undetached
    \/ s \in raced

(* An account is changed only after the audit log has announced it, so that  *)
(* a crash between the two systems leaves a trace (users.go:76).             *)
ChangesAnnounced ==
  [][\A m \in Manager : account'[m] # account[m] => entry[m] = "REQUESTED"]_account

(* Grant, then remove what it replaces (auth/users.go:148): an account that  *)
(* has a platform role always has one, wherever the exchange stops.          *)
NeverWithoutRole ==
  [][\A m \in Manager : account[m].roles # {} /\ account'[m].state = "live"
                          => account'[m].roles # {}]_account

(* A change recorded as done has made the account what was asked for.        *)
DoneMeansDone ==
  \A a \in Admin : At(a, "record") =>
    LET x == account[change[a].account]
    IN  IF change[a].role = "NONE" THEN x.state = "gone"
        ELSE x = [state |-> "live", enabled |-> change[a].enabled,
                  cinema |-> change[a].cinema, roles |-> {change[a].role}]

(* Clearing takes no link from a manager who is eligible for it.             *)
OnlyStaleCleared ==
  [][\A s \in Staff : staff'[s].manager = NoManager /\ staff[s].manager # NoManager =>
       \/ Stale(s)
       \/ \E e \in Editor : save[e] # None /\ save'[e] = None /\ save[e].staff = s]_staff

Quiet == (\A e \in Editor : save[e] = None) /\ (\A a \in Admin : change[a] = None)

(* When an account is deleted, moved, demoted or locked the links to it are  *)
(* cleared (docs/manager-feedback-notifications.md:3): with no request under *)
(* way nobody is linked to a manager who is not eligible.                    *)
LinksEligible == Quiet => \A s \in Staff : ~Stale(s)

(* What is left of it: at rest, a stale link was written by a save that an   *)
(* account change overtook.                                                  *)
OnlyOvertakenStale == Quiet => \A s \in Staff : Stale(s) => s \in raced
===============================================================================
