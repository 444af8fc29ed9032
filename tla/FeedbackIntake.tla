---------------------------- MODULE FeedbackIntake ----------------------------
(***************************************************************************)
(* Public feedback submission against QR, staff, cinema and configuration  *)
(* changes (backend/internal/server: public.go, qr.go, management.go,      *)
(* notifications.go; backend/internal/repository/mongo.go).                *)
(*                                                                         *)
(* Every handler runs one MongoDB transaction under snapshot isolation:    *)
(* its reads see the database as it was when the transaction began, and it *)
(* commits only if nobody else has committed a write to a document it      *)
(* writes.  A conflict makes the driver run the whole callback again.      *)
(* missed[x] is the set of documents others wrote since x began.           *)
(*                                                                         *)
(* A QR token is 128 random bits; here it is the pair of the staff member  *)
(* it was made for and its number among that member's tokens, so tokens    *)
(* are distinct.  The wording of ratings, reasons and consent is abstracted*)
(* to the version of the terms the form was filled in against.             *)
(***************************************************************************)
EXTENDS Naturals, Sequences

CONSTANTS
  Staff, Cinema, Manager, NoManager, Phone, Ticket, NoTicket, Terms,
  Nothing,       \* the input or reads of a request that has none
  Customer,      \* concurrent public requests
  Admin,         \* concurrent QR administration requests
  Printed,       \* the staff who have a first QR code at the start
  Window,        \* the repeat window, in ticks
  EmailEnabled,  \* whether the e-mail outbox is configured
  MaxClock, MaxFeedback, MaxAudit   \* bounds of the model

VARIABLES
  staff,         \* staff documents: status, cinema, manager
  cinema,        \* cinema documents: status
  qr,            \* the QR document of each staff member (unique staffId)
  terms,         \* the feedback configuration in force
  feedback,      \* committed feedback, in commit order
  notification,  \* in-app notifications
  email,         \* feedback numbers with a queued e-mail job
  audit,         \* audit log: what each transaction added, in commit order
  postings,      \* history: the cinemas and managers each staff member has
                 \* had since the last feedback about that member
  clock,
  form,          \* form[c]: the input of customer request c while it has a transaction
  read,          \* read[c]: what its open transaction has read
  job,           \* job[a]: administration request a
  missed         \* missed[x]: documents written by others since x began

database == <<staff, cinema, qr, terms, feedback, notification, email, audit, postings>>
requests == <<form, read, job, missed>>
vars == <<database, requests, clock>>

-------------------------------------------------------------------------------
Status == {"ACTIVE", "INACTIVE"}
StaffDoc == [status : Status, cinema : Cinema, manager : Manager \cup {NoManager}]
Posting == [cinema : Cinema, manager : Manager \cup {NoManager}]
QRDoc == [status : {"NONE", "ACTIVE", "DISABLED"}, token : Nat]
Form == [staff : Staff, token : Nat, phone : Phone,
         ticket : Ticket \cup {NoTicket}, terms : Terms]
Read == [cinema : Cinema, manager : Manager \cup {NoManager}, seen : Nat, began : Nat]
Entry == [staff : Staff, cinema : Cinema, phone : Phone,
          ticket : Ticket \cup {NoTicket}, token : Nat, at : Nat,
          suspicious : BOOLEAN]
Notice == [id : Nat, recipient : Manager, cinema : Cinema, suspicious : BOOLEAN]
QROp == {"GENERATE_QR", "REGENERATE_QR", "DISABLE_QR", "GENERATE_QR_BATCH"}
Job == [phase : {"idle", "open"}, op : QROp,
        targets : SUBSET Staff, absent : SUBSET Staff]
Action == QROp \cup {"SAVE_STAFF", "SAVE_CINEMA", "UPDATE_FEEDBACK_CONFIG"}
LogEntry == [action : Action, target : Staff \cup Cinema \cup {"staff", "default"}]
Actor == Customer \cup Admin
Key == ({"qr"} \X Staff) \cup ({"cinema"} \X Cinema)

ASSUME IntakeAssumption ==
  /\ NoManager \notin Manager
  /\ NoTicket \notin Ticket
  /\ Nothing \notin Form /\ Nothing \notin Read
  /\ Customer \cap Admin = {}
  /\ Printed \subseteq Staff
  /\ Window \in Nat /\ MaxClock \in Nat /\ MaxFeedback \in Nat /\ MaxAudit \in Nat
  /\ EmailEnabled \in BOOLEAN

Repeats(f, g) ==
  \/ g.staff = f.staff /\ g.phone = f.phone
  \/ f.ticket # NoTicket /\ g.cinema = f.cinema /\ g.ticket = f.ticket

Recent(g, t) == g.at + Window >= t

RepeatsOneOf(f, entries, n) ==
  \E i \in 1..n : Recent(entries[i], f.at) /\ Repeats(f, entries[i])

-------------------------------------------------------------------------------
(* The transactions: who is inside one, and what a commit does to the others. *)
InTransaction(x) ==
  IF x \in Customer THEN form[x] # Nothing ELSE job[x].phase = "open"

NoJob == [phase |-> "idle", op |-> "DISABLE_QR", targets |-> {}, absent |-> {}]

\* Mutant: what the request read outlives it.
CloseKeepsRead(c) ==
  /\ form' = [form EXCEPT ![c] = Nothing]
  /\ read' = read

(* Request c is over, whatever its answer. *)
Close(c) ==
  /\ form' = [form EXCEPT ![c] = Nothing]
  /\ read' = [read EXCEPT ![c] = Nothing]

Publish(x, keys) ==
  missed' = [y \in Actor |->
               IF y # x /\ InTransaction(y) THEN missed[y] \cup keys ELSE {}]

Log(action, target) == [action |-> action, target |-> target]

PostingOf(d) == [cinema |-> d.cinema, manager |-> d.manager]

-------------------------------------------------------------------------------
(* Customers.  resolve: the token is the active one of an active staff       *)
(* member of an active cinema.                                               *)
Resolves(f) ==
  /\ qr[f.staff].status = "ACTIVE" /\ qr[f.staff].token = f.token
  /\ staff[f.staff].status = "ACTIVE"
  /\ cinema[staff[f.staff].cinema] = "ACTIVE"

(* The transaction of c takes its snapshot with input f, and everything it   *)
(* reads before it writes passes.                                            *)
Snapshot(c, f) ==
  /\ Resolves(f)
  /\ f.terms = terms
  /\ form' = [form EXCEPT ![c] = f]
  /\ read' = [read EXCEPT ![c] =
                [cinema |-> staff[f.staff].cinema, manager |-> staff[f.staff].manager,
                 seen |-> Len(feedback), began |-> clock]]
  /\ missed' = [missed EXCEPT ![c] = {}]

(* A form comes in.  What happens before its snapshot (validation, the rate  *)
(* limit) reads none of these documents, and a refusal changes none.         *)
Submit(c, f) ==
  /\ ~InTransaction(c)
  /\ Snapshot(c, f)
  /\ UNCHANGED <<database, clock, job>>

\* Mutant: the submission does not write the QR document.
WritesCinemaOnly(c) ==
  IF form[c].ticket = NoTicket THEN {} ELSE {<<"cinema", read[c].cinema>>}

\* Mutant: the transaction id check does not write the cinema document.
WritesQROnly(c) == {<<"qr", form[c].staff>>}

(* The QR document is replaced to count the submission, and the cinema       *)
(* document is incremented when there is a transaction id.                   *)
Writes(c) ==
  {<<"qr", form[c].staff>>} \cup
    IF form[c].ticket = NoTicket THEN {} ELSE {<<"cinema", read[c].cinema>>}

(* The feedback that c inserts when its clock reading is t. *)
EntryOf(c, t) ==
  LET f == [staff |-> form[c].staff, cinema |-> read[c].cinema,
            phone |-> form[c].phone, ticket |-> form[c].ticket,
            token |-> form[c].token, at |-> t, suspicious |-> FALSE]
  IN  [f EXCEPT !.suspicious = RepeatsOneOf(f, feedback, read[c].seen)]

(* queueFeedbackNotification: nothing for a staff member without a manager. *)
Notify(c, f) ==
  IF read[c].manager = NoManager
  THEN UNCHANGED <<notification, email>>
  ELSE /\ notification' = notification \cup
            {[id |-> Len(feedback) + 1, recipient |-> read[c].manager,
              cinema |-> f.cinema, suspicious |-> f.suspicious]}
       /\ email' = IF EmailEnabled THEN email \cup {Len(feedback) + 1} ELSE email

Commit(c) ==
  /\ InTransaction(c)
  /\ missed[c] \cap Writes(c) = {}
  /\ Len(feedback) < MaxFeedback
  /\ \E t \in read[c].began..clock :
       /\ feedback' = Append(feedback, EntryOf(c, t))
       /\ Notify(c, EntryOf(c, t))
  /\ postings' = [postings EXCEPT ![form[c].staff] = {PostingOf(staff[form[c].staff])}]
  /\ Close(c)
  /\ Publish(c, Writes(c))
  /\ UNCHANGED <<staff, cinema, qr, terms, audit, clock, job>>

\* Mutant: the time is read before the transaction and kept by its retries.
RetryKeepsTime(c) ==
  /\ InTransaction(c)
  /\ missed[c] \cap Writes(c) # {}
  /\ Resolves(form[c]) /\ form[c].terms = terms
  /\ read' = [read EXCEPT ![c].seen = Len(feedback)]
  /\ missed' = [missed EXCEPT ![c] = {}]
  /\ UNCHANGED <<database, clock, form, job>>

\* Mutant: the staff member is looked up once and kept by the retries.
RetryKeepsStaff(c) ==
  /\ InTransaction(c)
  /\ missed[c] \cap Writes(c) # {}
  /\ Resolves(form[c]) /\ form[c].terms = terms
  /\ read' = [read EXCEPT ![c].seen = Len(feedback), ![c].began = clock]
  /\ missed' = [missed EXCEPT ![c] = {}]
  /\ UNCHANGED <<database, clock, form, job>>

(* A write conflict: the callback runs again on a new snapshot. *)
Retry(c) ==
  /\ InTransaction(c)
  /\ missed[c] \cap Writes(c) # {}
  /\ Snapshot(c, form[c])
  /\ UNCHANGED <<database, clock, job>>

(* 404, 422, 429 or 503, a time limit, or a crash of the server: the          *)
(* transaction leaves nothing behind.                                         *)
Abandon(c) ==
  /\ InTransaction(c)
  /\ Close(c)
  /\ missed' = [missed EXCEPT ![c] = {}]
  /\ UNCHANGED <<database, clock, job>>
-------------------------------------------------------------------------------
(* QR administration.  The staff document is read, and for generate,         *)
(* regenerate and batch its ACTIVE status checked, before the transaction: a *)
(* check that passed at any earlier time lets the request in, so it guards   *)
(* nothing here.  S is one staff member, or the list batch has read.         *)
JobSnapshot(a, op, S) ==
  LET absent == {s \in S : qr[s].status = "NONE"}
  IN  /\ op = "DISABLE_QR" => absent = {}
      /\ job' = [job EXCEPT ![a] = [phase |-> "open", op |-> op,
                                    targets |-> S, absent |-> absent]]
      /\ missed' = [missed EXCEPT ![a] = {}]

Open(a, op, S) ==
  /\ ~InTransaction(a)
  /\ op # "GENERATE_QR_BATCH" => \E s \in Staff : S = {s}
  /\ JobSnapshot(a, op, S)
  /\ UNCHANGED <<database, clock, form, read>>

(* The QR documents a replaces or inserts: an existing code is left alone by *)
(* generate and by batch.                                                    *)
Changed(a) ==
  IF job[a].op \in {"REGENERATE_QR", "DISABLE_QR"}
  THEN job[a].targets ELSE job[a].absent

\* Mutant: a code is inserted without its unique index, and replaced blindly.
JobWritesNothing(a) == {}

JobWrites(a) == {<<"qr", s>> : s \in Changed(a)}

(* The audit entries that a's transaction inserts: batch logs each code it   *)
(* creates and then itself.                                                  *)
Entries(a) ==
  IF job[a].op = "GENERATE_QR_BATCH"
  THEN {Log("GENERATE_QR", s) : s \in Changed(a)} \cup {Log(job[a].op, "staff")}
  ELSE {Log(job[a].op, s) : s \in job[a].targets}

CommitJob(a) ==
  /\ InTransaction(a)
  /\ missed[a] \cap JobWrites(a) = {}
  /\ qr' = [s \in Staff |->
              IF s \notin Changed(a) THEN qr[s]
              ELSE IF job[a].op = "DISABLE_QR" THEN [status |-> "DISABLED", token |-> qr[s].token]
              ELSE [status |-> "ACTIVE", token |-> qr[s].token + 1]]
  /\ Len(audit) < MaxAudit
  /\ audit' = Append(audit, Entries(a))
  /\ job' = [job EXCEPT ![a] = NoJob]
  /\ Publish(a, JobWrites(a))
  /\ UNCHANGED <<staff, cinema, terms, feedback, notification, email, postings,
                 clock, form, read>>

RetryJob(a) ==
  /\ InTransaction(a)
  /\ missed[a] \cap JobWrites(a) # {}
  /\ JobSnapshot(a, job[a].op, job[a].targets)
  /\ UNCHANGED <<database, clock, form, read>>

AbandonJob(a) ==
  /\ InTransaction(a)
  /\ job' = [job EXCEPT ![a] = NoJob]
  /\ missed' = [missed EXCEPT ![a] = {}]
  /\ UNCHANGED <<database, clock, form, read>>

-------------------------------------------------------------------------------
(* Staff, cinema and configuration saves replace a whole document without    *)
(* reading it in their transaction, so each is one step.  The checks they    *)
(* make first (active cinema, eligible manager) read outside it and say      *)
(* nothing about the moment of the write.                                    *)
SaveStaff(s, d) ==
  /\ Len(audit) < MaxAudit
  /\ staff' = [staff EXCEPT ![s] = d]
  /\ audit' = Append(audit, {Log("SAVE_STAFF", s)})
  /\ postings' = [postings EXCEPT ![s] = postings[s] \cup {PostingOf(d)}]
  /\ UNCHANGED <<cinema, qr, terms, feedback, notification, email, clock, requests>>

(* detachManager, when an account is deleted or changed: an update outside   *)
(* any transaction and without an audit entry, of all the staff of manager m *)
(* or of those outside the cinema the account still manages.                 *)
Detach(m, K) ==
  /\ staff' = [s \in Staff |-> IF staff[s].manager = m /\ staff[s].cinema \notin K
                               THEN [staff[s] EXCEPT !.manager = NoManager] ELSE staff[s]]
  /\ postings' = [s \in Staff |-> postings[s] \cup {PostingOf(staff'[s])}]
  /\ UNCHANGED <<cinema, qr, terms, feedback, notification, email, audit, clock, requests>>

SaveCinema(k, status) ==
  /\ Len(audit) < MaxAudit
  /\ cinema' = [cinema EXCEPT ![k] = status]
  /\ audit' = Append(audit, {Log("SAVE_CINEMA", k)})
  /\ missed' = [y \in Actor |->
                  IF InTransaction(y) THEN missed[y] \cup {<<"cinema", k>>} ELSE {}]
  /\ UNCHANGED <<staff, qr, terms, feedback, notification, email, postings, clock,
                 form, read, job>>

SaveConfig(t) ==
  /\ Len(audit) < MaxAudit
  /\ terms' = t
  /\ audit' = Append(audit, {Log("UPDATE_FEEDBACK_CONFIG", "default")})
  /\ UNCHANGED <<staff, cinema, qr, feedback, notification, email, postings, clock, requests>>

Tick ==
  /\ clock < MaxClock
  /\ clock' = clock + 1
  /\ UNCHANGED <<database, requests>>

-------------------------------------------------------------------------------
(* Initially everyone is active and some have a manager.  A staff member     *)
(* still to be created is one without a code.                                *)
Init ==
  /\ staff \in [Staff -> {d \in StaffDoc : d.status = "ACTIVE"}]
  /\ cinema = [k \in Cinema |-> "ACTIVE"]
  /\ qr = [s \in Staff |-> IF s \in Printed THEN [status |-> "ACTIVE", token |-> 1]
                            ELSE [status |-> "NONE", token |-> 0]]
  /\ terms \in Terms
  /\ feedback = <<>> /\ notification = {} /\ email = {} /\ audit = <<>>
  /\ postings = [s \in Staff |-> {PostingOf(staff[s])}]
  /\ clock = 0
  /\ form = [c \in Customer |-> Nothing]
  /\ read = [c \in Customer |-> Nothing]
  /\ job = [a \in Admin |-> NoJob]
  /\ missed = [x \in Actor |-> {}]

CustomerStep(c) ==
  \/ \E s \in Staff, p \in Phone, tk \in Ticket \cup {NoTicket}, t \in Terms :
       \E n \in 1..qr[s].token :
         Submit(c, [staff |-> s, token |-> n, phone |-> p, ticket |-> tk, terms |-> t])
  \/ Commit(c) \/ Retry(c) \/ Abandon(c)

AdminStep(a) ==
  \/ \E op \in QROp, S \in SUBSET Staff : Open(a, op, S)
  \/ CommitJob(a) \/ RetryJob(a) \/ AbandonJob(a)

Save ==
  \/ \E s \in Staff, d \in StaffDoc : SaveStaff(s, d)
  \/ \E m \in Manager, K \in {{}} \cup {{k} : k \in Cinema} : Detach(m, K)
  \/ \E k \in Cinema, status \in Status : SaveCinema(k, status)
  \/ \E t \in Terms : SaveConfig(t)

Next ==
  \/ \E c \in Customer : CustomerStep(c)
  \/ \E a \in Admin : AdminStep(a)
  \/ Save
  \/ Tick

Spec == Init /\ [][Next]_vars

-------------------------------------------------------------------------------
TypeOK ==
  /\ staff \in [Staff -> StaffDoc]
  /\ cinema \in [Cinema -> Status]
  /\ qr \in [Staff -> QRDoc]
  /\ terms \in Terms
  /\ feedback \in Seq(Entry)
  /\ notification \in SUBSET Notice
  /\ email \in SUBSET Nat
  /\ audit \in Seq(SUBSET LogEntry)
  /\ postings \in [Staff -> SUBSET Posting]
  /\ clock \in Nat
  /\ form \in [Customer -> Form \cup {Nothing}]
  /\ read \in [Customer -> Read \cup {Nothing}]
  /\ \A c \in Customer : form[c] = Nothing <=> read[c] = Nothing
  /\ job \in [Admin -> Job]
  /\ missed \in [Actor -> SUBSET Key]

(* A feedback is flagged suspicious exactly when an earlier one repeats it   *)
(* inside the window (public.go, the two counts of submitFeedback), however  *)
(* the submissions overlapped: of any burst from one phone for one staff     *)
(* member, or with one transaction id in one cinema, only the first is clean.*)
FlaggedExactly ==
  \A i \in DOMAIN feedback :
    feedback[i].suspicious = RepeatsOneOf(feedback[i], feedback, i - 1)

(* The times of one staff member's feedback follow the order of the commits, *)
(* so that "the last ten minutes" of a count means what was committed.       *)
TimesInCommitOrder ==
  \A i, j \in DOMAIN feedback :
    i < j /\ feedback[i].staff = feedback[j].staff => feedback[i].at <= feedback[j].at

(* No feedback is committed with a token that was regenerated or disabled    *)
(* before the commit: submission and revocation meet on the QR document.     *)
LiveTokenOnly ==
  [][\A i \in DOMAIN feedback' \ DOMAIN feedback :
       LET f == feedback'[i]
       IN  qr[f.staff] = [status |-> "ACTIVE", token |-> f.token]]_feedback

(* Who is told of a feedback is settled when it is sent: the notice and its  *)
(* e-mail job name the manager and the cinema of one version of the staff    *)
(* document, in force at some moment since the feedback before it about the  *)
(* same member was committed.  A manager replaced before that is not told,   *)
(* however often the submission was retried, and without a manager nobody is.*)
TellsManagerInForce ==
  [][\E s \in Staff : \E d \in postings[s] :
       LET i == Len(feedback) + 1
           told == IF d.manager = NoManager THEN {} ELSE {i}
       IN  /\ Len(feedback') = i
           /\ feedback'[i].staff = s /\ feedback'[i].cinema = d.cinema
           /\ notification' = notification \cup
                {[id |-> n, recipient |-> d.manager, cinema |-> d.cinema,
                  suspicious |-> feedback'[n].suspicious] : n \in told}
           /\ email' = email \cup (IF EmailEnabled THEN told ELSE {})
    ]_<<feedback, notification, email>>

(* The audit log explains every code: replayed in commit order it gives the  *)
(* status of each QR document, whatever administrators did at once.  A code  *)
(* is disabled iff a revocation of it has no later regeneration, and exists  *)
(* iff it was generated, regenerated, or printed before the log starts.      *)
Revoked(s) ==
  \E i \in DOMAIN audit :
    /\ Log("DISABLE_QR", s) \in audit[i]
    /\ \A j \in DOMAIN audit : j > i => Log("REGENERATE_QR", s) \notin audit[j]

Made(s) ==
  s \in Printed \/ \E i \in DOMAIN audit, op \in {"GENERATE_QR", "REGENERATE_QR"} :
                      Log(op, s) \in audit[i]

AuditReplays ==
  \A s \in Staff :
    qr[s].status = IF Revoked(s) THEN "DISABLED" ELSE IF Made(s) THEN "ACTIVE" ELSE "NONE"

(* What an open submission has read is still true unless it is bound to be   *)
(* refused: while nobody has written its QR document its token is live and   *)
(* no feedback of that staff member is hidden from it, and while nobody has  *)
(* written the cinema no feedback with a transaction id is hidden from it.   *)
(* Everything it did see is no later than its own start.                     *)
SnapshotHolds(c) ==
  LET f == form[c]
      r == read[c]
      Hidden == {i \in DOMAIN feedback : i > r.seen}
  IN  /\ r.seen <= Len(feedback) /\ r.began <= clock
      /\ \A i \in DOMAIN feedback : i <= r.seen => feedback[i].at <= r.began
      /\ <<"qr", f.staff>> \notin missed[c] =>
           /\ qr[f.staff] = [status |-> "ACTIVE", token |-> f.token]
           /\ \A i \in Hidden : feedback[i].staff # f.staff
      /\ <<"cinema", r.cinema>> \notin missed[c] =>
           \A i \in Hidden : feedback[i].cinema = r.cinema => feedback[i].ticket = NoTicket

SnapshotsHold == \A c \in Customer : InTransaction(c) => SnapshotHolds(c)

Ledger ==
  INSTANCE FeedbackLedger WITH
    ledger <- feedback,
    issued <- [s \in Staff |-> qr[s].token],
    live   <- [s \in Staff |-> IF qr[s].status = "ACTIVE" THEN qr[s].token ELSE 0]

(* Submission under snapshot isolation is as good as one entry at a time:    *)
(* every commit is an Accept of the ledger, with its token live at that      *)
(* moment and its flag computed over everything committed before.            *)
ImplementsLedger == Ledger!Spec
===============================================================================
