----------------------------- MODULE CoachingCases -----------------------------
(***************************************************************************)
(* Coaching cases: saveCoaching of backend/internal/server/management.go.  *)
(*                                                                         *)
(* A save reads the staff document, then the case as it is, checks the     *)
(* requested status against it and prepares the whole new document; only   *)
(* then does a transaction replace the case and log the action.  Nothing   *)
(* ties the write to the version that was read, so two saves may overlap.  *)
(* Topic, action, note and follow-up date are checked on their own and     *)
(* decide nothing here; they and updatedAt are left out.                   *)
(***************************************************************************)
EXTENDS Naturals, Sequences

CONSTANTS
  Case, NoCase, Staff, Cinema,
  Editor,        \* concurrent requests, each of some signed-in user
  None,          \* no document, no request
  Never,         \* the completion time of a case that is not completed
  MaxClock, MaxAudit   \* bounds of the model

VARIABLES
  place,         \* place[s]: the cinema of staff member s
  case,          \* the coaching documents
  audit,         \* the audit log
  request,       \* request[e]: the save that e is making, with its staff read
  work,          \* work[e]: the document it has read and the one it will store
  clock

vars == <<place, case, audit, request, work, clock>>

-------------------------------------------------------------------------------
Status == {"OPEN", "IN_PROGRESS", "COMPLETED", "CANCELLED"}
Closed == {"COMPLETED", "CANCELLED"}
Action == {"CREATE_COACHING", "UPDATE_COACHING", "COMPLETE_COACHING"}

Coaching == [staff : Staff, cinema : Cinema, status : Status, createdBy : Editor,
             createdAt : Nat, completedAt : Nat \cup {Never}]
Request == [case : Case \cup {NoCase}, staff : Staff, status : Status,
            cinema : Cinema, scope : SUBSET Cinema, began : Nat]
Work == [old : Coaching, new : Coaching]
LogEntry == [case : Case, action : Action]

ASSUME CoachingAssumption ==
  /\ NoCase \notin Case
  /\ None \notin Coaching /\ None \notin Request /\ None \notin Work
  /\ Never \notin Nat
  /\ MaxClock \in Nat /\ MaxAudit \in Nat

\* The cinemas a caller may see: all of them, or the one of a cinema manager.
Scopes == {Cinema} \cup {{k} : k \in Cinema}

-------------------------------------------------------------------------------
\* Mutant: the request is over but what it prepared is kept.
EndKeepsWork(e) ==
  /\ request' = [request EXCEPT ![e] = None]
  /\ work' = work

End(e) ==
  /\ request' = [request EXCEPT ![e] = None]
  /\ work' = [work EXCEPT ![e] = None]

\* Mutant: the staff member is not checked against the caller's scope.
BeginAnywhere(e, x, s, status, scope) ==
  /\ request[e] = None
  /\ request' = [request EXCEPT ![e] = [case |-> x, staff |-> s, status |-> status,
                                        cinema |-> place[s], scope |-> scope, began |-> clock]]
  /\ UNCHANGED <<place, case, audit, work, clock>>

(* A save for staff member s, of case x or of a new one.  The staff document *)
(* gives the cinema, which must be in the caller's scope.  The random id of a*)
(* case is known only once it has been stored; a new case is opened whatever *)
(* status is asked for.                                                      *)
Begin(e, x, s, status, scope) ==
  /\ request[e] = None
  /\ place[s] \in scope
  /\ request' = [request EXCEPT ![e] = [case |-> x, staff |-> s, status |-> status,
                                        cinema |-> place[s], scope |-> scope, began |-> clock]]
  /\ UNCHANGED <<place, case, audit, work, clock>>

\* Mutant: a case may be given to another staff member.
MaySaveForAnyone(e, old) == old.cinema \in request[e].scope

(* The caller may see the case, which is one of the staff member named.      *)
MaySave(e, old) ==
  /\ old.cinema \in request[e].scope
  /\ old.staff = request[e].staff

\* Mutant: a closed case may be given any status.
AllowedAfter(old, status) == ~(old = "IN_PROGRESS" /\ status = "OPEN")

(* A closed case keeps its status, and one in progress is not opened again.  *)
Allowed(old, status) ==
  /\ old \in Closed => status = old
  /\ ~(old = "IN_PROGRESS" /\ status = "OPEN")

Completes(old, status) == status = "COMPLETED" /\ old # "COMPLETED"

\* Mutant: the completion time is not carried over from the old document.
RevisedWithoutCompletion(e, old, t) ==
  [staff |-> request[e].staff, cinema |-> request[e].cinema, status |-> request[e].status,
   createdBy |-> old.createdBy, createdAt |-> old.createdAt,
   completedAt |-> IF Completes(old.status, request[e].status) THEN t ELSE Never]

(* The document that replaces old, prepared at time t. *)
Revised(e, old, t) ==
  [staff |-> request[e].staff, cinema |-> request[e].cinema, status |-> request[e].status,
   createdBy |-> old.createdBy, createdAt |-> old.createdAt,
   completedAt |-> IF Completes(old.status, request[e].status) THEN t ELSE old.completedAt]

(* The case is read, and the request checked against it. *)
Check(e) ==
  LET old == case[request[e].case]
  IN  /\ request[e] # None /\ work[e] = None
      /\ request[e].case # NoCase
      /\ MaySave(e, old)
      /\ Allowed(old.status, request[e].status)
      /\ \E t \in request[e].began..clock :
           work' = [work EXCEPT ![e] = [old |-> old, new |-> Revised(e, old, t)]]
      /\ UNCHANGED <<place, case, audit, request, clock>>

Log(x, action) ==
  /\ Len(audit) < MaxAudit
  /\ audit' = Append(audit, [case |-> x, action |-> action])

(* A new case is inserted, open. *)
Create(e) ==
  /\ request[e] # None /\ request[e].case = NoCase
  /\ \E x \in Case, t \in request[e].began..clock :
       /\ case[x] = None
       /\ case' = [case EXCEPT ![x] =
            [staff |-> request[e].staff, cinema |-> request[e].cinema, status |-> "OPEN",
             createdBy |-> e, createdAt |-> t, completedAt |-> Never]]
       /\ Log(x, "CREATE_COACHING")
  /\ End(e)
  /\ UNCHANGED <<place, clock>>

(* The case is replaced, whatever it has become since it was read. *)
Replace(e) ==
  /\ work[e] # None
  /\ case' = [case EXCEPT ![request[e].case] = work[e].new]
  /\ Log(request[e].case, IF Completes(work[e].old.status, work[e].new.status)
                          THEN "COMPLETE_COACHING" ELSE "UPDATE_COACHING")
  /\ End(e)
  /\ UNCHANGED <<place, clock>>

(* 403, 404, 422, a database error or a crash: nothing is stored. *)
Abandon(e) ==
  /\ request[e] # None
  /\ End(e)
  /\ UNCHANGED <<place, case, audit, clock>>

(* saveStaff moves a staff member; the cases keep their cinema. *)
Move(s, k) ==
  /\ place' = [place EXCEPT ![s] = k]
  /\ UNCHANGED <<case, audit, request, work, clock>>

Tick ==
  /\ clock < MaxClock
  /\ clock' = clock + 1
  /\ UNCHANGED <<place, case, audit, request, work>>

-------------------------------------------------------------------------------
Init ==
  /\ place \in [Staff -> Cinema]
  /\ case = [x \in Case |-> None]
  /\ audit = <<>>
  /\ request = [e \in Editor |-> None]
  /\ work = [e \in Editor |-> None]
  /\ clock = 0

EditorStep(e) ==
  \/ \E s \in Staff, scope \in Scopes :
       \/ Begin(e, NoCase, s, "OPEN", scope)
       \/ \E x \in Case, status \in Status : case[x] # None /\ Begin(e, x, s, status, scope)
  \/ Check(e) \/ Create(e) \/ Replace(e) \/ Abandon(e)

Next ==
  \/ \E e \in Editor : EditorStep(e)
  \/ \E s \in Staff, k \in Cinema : Move(s, k)
  \/ Tick

Spec == Init /\ [][Next]_vars

(* No two saves of one case are between their read and their write at once.  *)
(* Nothing in the code sees to it: it is what the missing condition on the   *)
(* write would have to bring about.                                          *)
Alone ==
  \A d, e \in Editor :
    work[d] # None /\ work[e] # None /\ request[d].case = request[e].case => d = e

AloneSpec == Init /\ [][Next /\ Alone']_vars

-------------------------------------------------------------------------------
TypeOK ==
  /\ place \in [Staff -> Cinema]
  /\ case \in [Case -> Coaching \cup {None}]
  /\ audit \in Seq(LogEntry)
  /\ request \in [Editor -> Request \cup {None}]
  /\ work \in [Editor -> Work \cup {None}]
  /\ \A e \in Editor :
       /\ request[e] # None /\ request[e].case # NoCase => case[request[e].case] # None
       /\ work[e] # None => request[e] # None /\ request[e].case # NoCase
  /\ clock \in Nat

(* However saves overlap, a stored case agrees with itself and with the log: *)
(* it has a completion time exactly when it is completed, that time is not   *)
(* before its creation, and the log has the save that completed it.          *)
CompletionExplained ==
  \A x \in Case : case[x] # None =>
    /\ case[x].status = "COMPLETED" <=> case[x].completedAt # Never
    /\ case[x].status = "COMPLETED" =>
         /\ case[x].createdAt <= case[x].completedAt
         /\ [case |-> x, action |-> "COMPLETE_COACHING"] \in {audit[i] : i \in DOMAIN audit}

(* A case keeps its staff member, its author and its creation time through   *)
(* every save, whoever makes it and whatever it overlaps.                    *)
OriginKept ==
  [][\A x \in Case : case[x] # None =>
       /\ case'[x] # None
       /\ case'[x].staff = case[x].staff
       /\ case'[x].createdBy = case[x].createdBy
       /\ case'[x].createdAt = case[x].createdAt]_case

(* A save never puts a case into a cinema outside its caller's scope, even   *)
(* when the staff member moves while it is under way.                        *)
StoredInScope ==
  [][\A x \in Case : case'[x] # case[x] =>
       \E e \in Editor : request[e] # None /\ request'[e] = None
                         /\ case'[x].cinema \in request[e].scope]_case

(* A save that nobody overlapped (the case is still the document it read)    *)
(* was within its caller's scope and made an allowed change of status: no    *)
(* reopening, no way back from IN_PROGRESS to OPEN.                          *)
AllowedUnlessOverlapped ==
  [][\A x \in Case : case[x] # None /\ case'[x] # case[x] =>
       \E e \in Editor :
         /\ work[e] # None /\ work'[e] = None /\ request[e].case = x
         /\ case[x] = work[e].old =>
              /\ case[x].status \in Closed => case'[x].status = case[x].status
              /\ case[x].status = "IN_PROGRESS" => case'[x].status # "OPEN"
              /\ case[x].cinema \in request[e].scope]_case

(* "Closed coaching cannot be reopened": what saveCoaching answers to a save *)
(* that would.  It does not hold when two saves of a case overlap.           *)
ClosedStaysClosed ==
  [][\A x \in Case : case[x] # None /\ case[x].status \in Closed =>
       case'[x].status = case[x].status]_case
===============================================================================
