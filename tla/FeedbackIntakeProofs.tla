------------------------- MODULE FeedbackIntakeProofs -------------------------
(* Theorems about FeedbackIntake, for any number of staff, customers,        *)
(* administrators, phones and transaction ids.                               *)
EXTENDS FeedbackIntake, TLAPS, SequenceTheorems

USE IntakeAssumption

-------------------------------------------------------------------------------
(* Type correctness: the database and the requests keep their shapes.        *)
LEMMA SnapshotTyping ==
  ASSUME TypeOK, NEW c \in Customer, NEW f \in Form, Snapshot(c, f),
         UNCHANGED <<database, clock, job>>
  PROVE  TypeOK'
  <1>1. form' \in [Customer -> Form \cup {Nothing}]
    BY DEF TypeOK, Snapshot
  <1>2. staff[f.staff] \in StaffDoc
    BY DEF TypeOK, Form
  <1>3. [cinema |-> staff[f.staff].cinema, manager |-> staff[f.staff].manager,
         seen |-> Len(feedback), began |-> clock] \in Read
    BY <1>2 DEF TypeOK, Read, StaffDoc
  <1>4. read' \in [Customer -> Read \cup {Nothing}]
    BY <1>3 DEF TypeOK, Snapshot
  <1>5. \A d \in Customer : form'[d] = Nothing <=> read'[d] = Nothing
    BY <1>3 DEF TypeOK, Snapshot
  <1>6. missed' \in [Actor -> SUBSET Key]
    BY DEF TypeOK, Snapshot, Actor
  <1>7. QED
    BY <1>1, <1>4, <1>5, <1>6 DEF TypeOK, database

LEMMA CloseTyping ==
  ASSUME TypeOK, NEW c \in Customer, Close(c)
  PROVE  /\ form' \in [Customer -> Form \cup {Nothing}]
         /\ read' \in [Customer -> Read \cup {Nothing}]
         /\ \A d \in Customer : form'[d] = Nothing <=> read'[d] = Nothing
  BY DEF TypeOK, Close

LEMMA PublishTyping ==
  ASSUME TypeOK, NEW x, NEW keys \in SUBSET Key, Publish(x, keys)
  PROVE  missed' \in [Actor -> SUBSET Key]
  BY DEF TypeOK, Publish

(* An open submission has a form and what it read. *)
LEMMA OpenTyping ==
  ASSUME TypeOK, NEW c \in Customer, InTransaction(c)
  PROVE  form[c] \in Form /\ read[c] \in Read
  BY DEF TypeOK, InTransaction

LEMMA RecordedTyping ==
  ASSUME TypeOK, NEW i \in DOMAIN feedback
  PROVE  feedback[i] \in Entry
  BY DEF TypeOK

LEMMA EntryTyping ==
  ASSUME TypeOK, NEW c \in Customer, InTransaction(c), NEW t \in Nat
  PROVE  /\ EntryOf(c, t) \in Entry
         /\ EntryOf(c, t).staff = form[c].staff
         /\ EntryOf(c, t).cinema = read[c].cinema
         /\ EntryOf(c, t).ticket = form[c].ticket
         /\ EntryOf(c, t).phone = form[c].phone
         /\ EntryOf(c, t).token = form[c].token
         /\ EntryOf(c, t).at = t
  <1>1. form[c] \in Form /\ read[c] \in Read
    BY OpenTyping
  <1>2. RepeatsOneOf([staff |-> form[c].staff, cinema |-> read[c].cinema,
            phone |-> form[c].phone, ticket |-> form[c].ticket,
            token |-> form[c].token, at |-> t, suspicious |-> FALSE], feedback, read[c].seen) \in BOOLEAN
    BY DEF RepeatsOneOf
  <1>3. QED
    BY <1>1, <1>2 DEF EntryOf, Entry, Form, Read

(* The keys that a transaction writes. *)
LEMMA WritesTyping ==
  ASSUME TypeOK, NEW c \in Customer, InTransaction(c)
  PROVE  Writes(c) \in SUBSET Key
  <1>1. form[c] \in Form /\ read[c] \in Read
    BY OpenTyping
  <1>2. QED
    BY <1>1 DEF Writes, Key, Form, Read

LEMMA JobTyping ==
  ASSUME TypeOK, NEW a \in Admin
  PROVE  /\ job[a] \in Job
         /\ Changed(a) \in SUBSET Staff
         /\ JobWrites(a) \in SUBSET Key
  BY DEF TypeOK, Job, Changed, JobWrites, Key

LEMMA EntriesTyping ==
  ASSUME TypeOK, NEW a \in Admin
  PROVE  Entries(a) \in SUBSET LogEntry
  BY JobTyping DEF Entries, Log, LogEntry, Action, Job, QROp

LEMMA CommitTyping ==
  ASSUME TypeOK, NEW c \in Customer, Commit(c)
  PROVE  TypeOK'
  <1>1. InTransaction(c)
    BY DEF Commit
  <1>2. form[c] \in Form /\ read[c] \in Read
    BY <1>1, OpenTyping
  <1>3. PICK t \in read[c].began..clock :
          /\ feedback' = Append(feedback, EntryOf(c, t))
          /\ Notify(c, EntryOf(c, t))
    BY DEF Commit
  <1>4. t \in Nat
    BY <1>2 DEF TypeOK, Read
  <1>5. EntryOf(c, t) \in Entry
    BY <1>1, <1>4, EntryTyping
  <1>6. feedback' \in Seq(Entry)
    BY <1>3, <1>5 DEF TypeOK
  <1>7. notification' \in SUBSET Notice /\ email' \in SUBSET Nat
    <2>1. Len(feedback) + 1 \in Nat
      BY DEF TypeOK
    <2>2. CASE read[c].manager = NoManager
      BY <1>3, <2>2 DEF Notify, TypeOK
    <2>3. CASE read[c].manager # NoManager
      <3>1. [id |-> Len(feedback) + 1, recipient |-> read[c].manager,
             cinema |-> EntryOf(c, t).cinema, suspicious |-> EntryOf(c, t).suspicious] \in Notice
        BY <1>2, <1>5, <2>1, <2>3 DEF Notice, Entry, Read
      <3>2. QED
        BY <1>3, <2>1, <2>3, <3>1 DEF Notify, TypeOK
    <2>4. QED
      BY <2>2, <2>3
  <1>8. missed' \in [Actor -> SUBSET Key]
    BY <1>1, WritesTyping, PublishTyping DEF Commit
  <1>9. postings' \in [Staff -> SUBSET Posting]
    <2>1. staff[form[c].staff] \in StaffDoc
      BY <1>2 DEF Form, TypeOK
    <2>2. {PostingOf(staff[form[c].staff])} \in SUBSET Posting
      BY <2>1 DEF PostingOf, Posting, StaffDoc
    <2>3. QED
      BY <2>2 DEF Commit, TypeOK
  <1>10. QED
    BY <1>6, <1>7, <1>8, <1>9, CloseTyping DEF Commit, TypeOK

LEMMA CommitJobTyping ==
  ASSUME TypeOK, NEW a \in Admin, CommitJob(a)
  PROVE  TypeOK'
  <1>1. qr' \in [Staff -> QRDoc]
    <2>1. ASSUME NEW s \in Staff PROVE qr'[s] \in QRDoc
      <3>1. qr[s] \in QRDoc
        BY <2>1 DEF TypeOK
      <3>2. qr[s].token + 1 \in Nat
        BY <3>1 DEF QRDoc
      <3>3. QED
        BY <3>1, <3>2 DEF CommitJob, QRDoc
    <2>2. QED
      BY <2>1 DEF CommitJob
  <1>2. Entries(a) \in SUBSET LogEntry
    BY EntriesTyping
  <1>3. audit' \in Seq(SUBSET LogEntry)
    BY <1>2 DEF CommitJob, TypeOK
  <1>4. job' \in [Admin -> Job]
    BY DEF CommitJob, TypeOK, NoJob, Job, QROp
  <1>5. missed' \in [Actor -> SUBSET Key]
    BY JobTyping, PublishTyping DEF CommitJob
  <1>6. QED
    BY <1>1, <1>3, <1>4, <1>5 DEF CommitJob, TypeOK

LEMMA JobSnapshotTyping ==
  ASSUME TypeOK, NEW a \in Admin, NEW op \in QROp, NEW S \in SUBSET Staff,
         JobSnapshot(a, op, S), UNCHANGED <<database, clock, form, read>>
  PROVE  TypeOK'
  <1>1. job' \in [Admin -> Job]
    BY DEF JobSnapshot, TypeOK, Job
  <1>2. missed' \in [Actor -> SUBSET Key]
    BY DEF JobSnapshot, TypeOK, Actor
  <1>3. QED
    BY <1>1, <1>2 DEF TypeOK, database

LEMMA SaveTyping ==
  ASSUME TypeOK, Save
  PROVE  TypeOK'
  <1>1. ASSUME NEW s \in Staff, NEW d \in StaffDoc, SaveStaff(s, d) PROVE TypeOK'
    <2>1. audit' \in Seq(SUBSET LogEntry)
      <3>1. {Log("SAVE_STAFF", s)} \in SUBSET LogEntry
        BY DEF Log, LogEntry, Action
      <3>2. QED
        BY <1>1, <3>1 DEF SaveStaff, TypeOK
    <2>2. postings' \in [Staff -> SUBSET Posting]
      BY <1>1 DEF SaveStaff, TypeOK, PostingOf, Posting, StaffDoc
    <2>3. QED
      BY <1>1, <2>1, <2>2 DEF SaveStaff, TypeOK, requests
  <1>2. ASSUME NEW m \in Manager, NEW K \in {{}} \cup {{k} : k \in Cinema}, Detach(m, K) PROVE TypeOK'
    <2>1. staff' \in [Staff -> StaffDoc]
      <3>1. ASSUME NEW s \in Staff PROVE staff'[s] \in StaffDoc
        BY <1>2 DEF Detach, TypeOK, StaffDoc
      <3>2. QED
        BY <1>2, <3>1 DEF Detach
    <2>2. postings' \in [Staff -> SUBSET Posting]
      <3>1. ASSUME NEW s \in Staff PROVE PostingOf(staff'[s]) \in Posting
        BY <2>1 DEF PostingOf, Posting, StaffDoc
      <3>2. QED
        BY <1>2, <3>1 DEF Detach, TypeOK
    <2>3. QED
      BY <1>2, <2>1, <2>2 DEF Detach, TypeOK, requests
  <1>3. ASSUME NEW k \in Cinema, NEW status \in Status, SaveCinema(k, status) PROVE TypeOK'
    <2>1. audit' \in Seq(SUBSET LogEntry)
      <3>1. {Log("SAVE_CINEMA", k)} \in SUBSET LogEntry
        BY DEF Log, LogEntry, Action
      <3>2. QED
        BY <1>3, <3>1 DEF SaveCinema, TypeOK
    <2>2. missed' \in [Actor -> SUBSET Key]
      BY <1>3 DEF SaveCinema, TypeOK, Key
    <2>3. QED
      BY <1>3, <2>1, <2>2 DEF SaveCinema, TypeOK
  <1>4. ASSUME NEW t \in Terms, SaveConfig(t) PROVE TypeOK'
    <2>1. audit' \in Seq(SUBSET LogEntry)
      <3>1. {Log("UPDATE_FEEDBACK_CONFIG", "default")} \in SUBSET LogEntry
        BY DEF Log, LogEntry, Action
      <3>2. QED
        BY <1>4, <3>1 DEF SaveConfig, TypeOK
    <2>2. QED
      BY <1>4, <2>1 DEF SaveConfig, TypeOK, requests
  <1>5. QED
    BY <1>1, <1>2, <1>3, <1>4 DEF Save
LEMMA StepTyping ==
  ASSUME TypeOK, [Next]_vars
  PROVE  TypeOK'
  <1>1. CASE UNCHANGED vars
    BY <1>1 DEF vars, database, requests, TypeOK
  <1>2. ASSUME NEW c \in Customer, CustomerStep(c) PROVE TypeOK'
    <2>1. ASSUME NEW f \in Form, Submit(c, f) PROVE TypeOK'
      BY <2>1, SnapshotTyping DEF Submit
    <2>2. CASE Commit(c)
      BY <2>2, CommitTyping
    <2>3. CASE Retry(c)
      BY <2>3, OpenTyping, SnapshotTyping DEF Retry
    <2>4. CASE Abandon(c)
      <3>1. missed' \in [Actor -> SUBSET Key]
        BY <2>4 DEF Abandon, TypeOK, Actor
      <3>2. QED
        BY <2>4, <3>1, CloseTyping DEF Abandon, TypeOK, database
    <2>5. ASSUME NEW s \in Staff, NEW p \in Phone, NEW tk \in Ticket \cup {NoTicket},
                 NEW t \in Terms, NEW n \in 1..qr[s].token
          PROVE  [staff |-> s, token |-> n, phone |-> p, ticket |-> tk, terms |-> t] \in Form
      BY <2>5 DEF Form, TypeOK, QRDoc
    <2>6. QED
      BY <1>2, <2>1, <2>2, <2>3, <2>4, <2>5 DEF CustomerStep
  <1>3. ASSUME NEW a \in Admin, AdminStep(a) PROVE TypeOK'
    <2>1. ASSUME NEW op \in QROp, NEW S \in SUBSET Staff, Open(a, op, S) PROVE TypeOK'
      BY <2>1, JobSnapshotTyping DEF Open
    <2>2. CASE CommitJob(a)
      BY <2>2, CommitJobTyping
    <2>3. CASE RetryJob(a)
      <3>1. job[a].op \in QROp /\ job[a].targets \in SUBSET Staff
        BY DEF TypeOK, Job
      <3>2. QED
        BY <2>3, <3>1, JobSnapshotTyping DEF RetryJob
    <2>4. CASE AbandonJob(a)
      <3>1. NoJob \in Job
        BY DEF NoJob, Job, QROp
      <3>2. job' \in [Admin -> Job] /\ missed' \in [Actor -> SUBSET Key]
        BY <2>4, <3>1 DEF AbandonJob, TypeOK, Actor
      <3>3. QED
        BY <2>4, <3>2 DEF AbandonJob, TypeOK, database
    <2>5. QED
      BY <1>3, <2>1, <2>2, <2>3, <2>4 DEF AdminStep
  <1>4. CASE Save
    BY <1>4, SaveTyping
  <1>5. CASE Tick
    BY <1>5 DEF Tick, TypeOK, database, requests
  <1>6. QED
    BY <1>1, <1>2, <1>3, <1>4, <1>5 DEF Next

LEMMA InitTyping ==
  ASSUME Init
  PROVE  TypeOK
  <1>2. NoJob \in Job
    BY DEF NoJob, Job, QROp
  <1>3. qr \in [Staff -> QRDoc]
    <2>1. qr = [s \in Staff |-> IF s \in Printed THEN [status |-> "ACTIVE", token |-> 1]
                               ELSE [status |-> "NONE", token |-> 0]]
      BY DEF Init
    <2>2. QED
      BY <2>1 DEF QRDoc
  <1>4. feedback \in Seq(Entry) /\ audit \in Seq(SUBSET LogEntry)
    <2>1. feedback = <<>> /\ audit = <<>>
      BY DEF Init
    <2>2. QED
      BY <2>1
  <1>5. staff \in [Staff -> StaffDoc]
    BY DEF Init
  <1>6. cinema \in [Cinema -> Status] /\ terms \in Terms /\ clock \in Nat
    BY DEF Init, Status
  <1>7. notification \in SUBSET Notice /\ email \in SUBSET Nat
    BY DEF Init
  <1>8. /\ form \in [Customer -> Form \cup {Nothing}]
        /\ read \in [Customer -> Read \cup {Nothing}]
        /\ \A c \in Customer : form[c] = Nothing <=> read[c] = Nothing
    BY DEF Init
  <1>9. job \in [Admin -> Job] /\ missed \in [Actor -> SUBSET Key]
    BY <1>2 DEF Init
  <1>10. postings \in [Staff -> SUBSET Posting]
    <2>1. ASSUME NEW s \in Staff PROVE {PostingOf(staff[s])} \in SUBSET Posting
      BY <1>5 DEF PostingOf, Posting, StaffDoc
    <2>2. QED
      BY <2>1 DEF Init
  <1>11. QED
    BY <1>3, <1>4, <1>5, <1>6, <1>7, <1>8, <1>9, <1>10 DEF TypeOK

(* Every database and request of the model keeps its shape. *)
THEOREM TypeCorrect == Spec => []TypeOK
  BY InitTyping, StepTyping, PTL DEF Spec

-------------------------------------------------------------------------------
(* The QR documents, the audit log and the open administration requests.     *)
(* What a has read about a code is still so unless somebody wrote the code,  *)
(* and a code that exists never ceases to exist.                             *)
TokensNumbered == \A s \in Staff : qr[s].status # "NONE" => qr[s].token >= 1

JobHolds(a) ==
  /\ job[a].absent \subseteq job[a].targets
  /\ job[a].op = "DISABLE_QR" => job[a].absent = {}
  /\ \A s \in job[a].targets \ job[a].absent : qr[s].status # "NONE"
  /\ \A s \in job[a].absent : <<"qr", s>> \notin missed[a] => qr[s].status = "NONE"

JobsHold == \A a \in Admin : InTransaction(a) => JobHolds(a)

CodesInv == TokensNumbered /\ JobsHold /\ AuditReplays

LEMMA AdminOpen ==
  ASSUME NEW a \in Admin
  PROVE  (InTransaction(a) <=> job[a].phase = "open") /\ a \in Actor
  BY DEF InTransaction, Actor

(* A set E of new entries revokes, remakes or makes the code of s. *)
LEMMA AuditAppend ==
  ASSUME TypeOK, NEW E \in SUBSET LogEntry, audit' = Append(audit, E), NEW s \in Staff
  PROVE  /\ Revoked(s)' <=> \/ Log("DISABLE_QR", s) \in E
                            \/ Revoked(s) /\ Log("REGENERATE_QR", s) \notin E
         /\ Made(s)' <=> \/ Made(s)
                         \/ Log("GENERATE_QR", s) \in E
                         \/ Log("REGENERATE_QR", s) \in E
  <1>. DEFINE n == Len(audit) + 1
  <1>1. /\ DOMAIN audit = 1..Len(audit) /\ Len(audit) \in Nat
        /\ DOMAIN audit' = 1..n
        /\ \A i \in DOMAIN audit : audit'[i] = audit[i]
        /\ audit'[n] = E
    BY AppendProperties DEF TypeOK
  <1>2. \A i : i \in DOMAIN audit' <=> i \in DOMAIN audit \/ i = n
    BY <1>1
  <1>3. \A i \in DOMAIN audit : n > i /\ ~(i > n)
    BY <1>1
  <1>4. ~(n > n)
    BY <1>1
  <1>. HIDE DEF n
  <1>5. Revoked(s)' <=> \/ Log("DISABLE_QR", s) \in E
                        \/ Revoked(s) /\ Log("REGENERATE_QR", s) \notin E
    BY <1>1, <1>2, <1>3, <1>4, Zenon DEF Revoked, Log
  <1>6. Made(s)' <=> \/ Made(s)
                     \/ Log("GENERATE_QR", s) \in E
                     \/ Log("REGENERATE_QR", s) \in E
    BY <1>1, <1>2, Zenon DEF Made, Log
  <1>7. QED
    BY <1>5, <1>6

(* A step that leaves the codes alone and writes no entry about them. *)
LEMMA CodesQuiet ==
  ASSUME TypeOK, CodesInv, qr' = qr,
         \/ audit' = audit
         \/ \E E \in SUBSET LogEntry :
              /\ audit' = Append(audit, E)
              /\ \A s \in Staff, op \in {"GENERATE_QR", "REGENERATE_QR", "DISABLE_QR"} :
                   Log(op, s) \notin E,
         \A a \in Admin : InTransaction(a)' =>
            \/ JobHolds(a)'
            \/ InTransaction(a) /\ job'[a] = job[a] /\ missed[a] \subseteq missed'[a]
  PROVE  CodesInv'
  <1>1. TokensNumbered'
    BY DEF CodesInv, TokensNumbered
  <1>2. JobsHold'
    <2>1. ASSUME NEW a \in Admin, InTransaction(a), JobHolds(a), job'[a] = job[a],
                 missed[a] \subseteq missed'[a]
          PROVE  JobHolds(a)'
      BY <2>1 DEF JobHolds
    <2>2. QED
      BY <2>1 DEF CodesInv, JobsHold
  <1>3. AuditReplays'
    <2>1. ASSUME NEW s \in Staff
          PROVE  (Revoked(s)' <=> Revoked(s)) /\ (Made(s)' <=> Made(s))
      <3>1. CASE audit' = audit
        BY <3>1 DEF Revoked, Made
      <3>2. ASSUME NEW E \in SUBSET LogEntry, audit' = Append(audit, E),
                   \A r \in Staff, op \in {"GENERATE_QR", "REGENERATE_QR", "DISABLE_QR"} :
                     Log(op, r) \notin E
            PROVE  (Revoked(s)' <=> Revoked(s)) /\ (Made(s)' <=> Made(s))
        BY <3>2, AuditAppend
      <3>3. QED
        BY <3>1, <3>2
    <2>2. QED
      BY <2>1, Zenon DEF CodesInv, AuditReplays
  <1>4. QED
    BY <1>1, <1>2, <1>3 DEF CodesInv

LEMMA FreshJob ==
  ASSUME TypeOK, CodesInv, NEW a \in Admin, NEW op \in QROp, NEW S \in SUBSET Staff,
         JobSnapshot(a, op, S), UNCHANGED <<database, clock, form, read>>
  PROVE  CodesInv'
  <1>1. JobHolds(a)'
    BY DEF JobSnapshot, JobHolds, TypeOK, Job, database
  <1>2. ASSUME NEW b \in Admin, b # a
        PROVE  job'[b] = job[b] /\ missed'[b] = missed[b]
    BY <1>2 DEF JobSnapshot, TypeOK, Actor
  <1>3. \A b \in Admin : InTransaction(b)' =>
            \/ JobHolds(b)'
            \/ InTransaction(b) /\ job'[b] = job[b] /\ missed[b] \subseteq missed'[b]
    BY <1>1, <1>2 DEF InTransaction
  <1>4. QED
    BY <1>3, CodesQuiet DEF database

(* The effect of a's commit on the code of s, by what a is and what it read. *)
LEMMA CommitJobCode ==
  ASSUME TypeOK, CodesInv, NEW a \in Admin, CommitJob(a), NEW s \in Staff
  PROVE  /\ qr[s].status # "NONE" => qr'[s].status # "NONE"
         /\ qr'[s].status # "NONE" => qr'[s].token >= 1
         /\ s \notin Changed(a) => qr'[s] = qr[s]
         /\ qr'[s].status = IF Revoked(s)' THEN "DISABLED" ELSE IF Made(s)' THEN "ACTIVE" ELSE "NONE"
  <1>1. JobHolds(a) /\ job[a] \in Job /\ qr[s] \in QRDoc
    BY AdminOpen DEF CommitJob, CodesInv, JobsHold, TypeOK
  <1>2. qr[s].status # "NONE" => qr[s].token >= 1
    BY DEF CodesInv, TokensNumbered
  <1>3. Entries(a) \in SUBSET LogEntry
    BY EntriesTyping
  <1>4. /\ Revoked(s)' <=> \/ Log("DISABLE_QR", s) \in Entries(a)
                           \/ Revoked(s) /\ Log("REGENERATE_QR", s) \notin Entries(a)
        /\ Made(s)' <=> \/ Made(s)
                        \/ Log("GENERATE_QR", s) \in Entries(a)
                        \/ Log("REGENERATE_QR", s) \in Entries(a)
    BY <1>3, AuditAppend DEF CommitJob
  <1>5. qr[s].status = IF Revoked(s) THEN "DISABLED" ELSE IF Made(s) THEN "ACTIVE" ELSE "NONE"
    BY Zenon DEF CodesInv, AuditReplays
  <1>6. qr'[s] = IF s \notin Changed(a) THEN qr[s]
                 ELSE IF job[a].op = "DISABLE_QR" THEN [status |-> "DISABLED", token |-> qr[s].token]
                 ELSE [status |-> "ACTIVE", token |-> qr[s].token + 1]
    BY DEF CommitJob
  <1>7. s \in Changed(a) => <<"qr", s>> \notin missed[a]
    BY DEF CommitJob, JobWrites
  <1>8. CASE job[a].op = "DISABLE_QR"
    <2>1. Changed(a) = job[a].targets /\ (s \in Changed(a) => qr[s].status # "NONE")
      BY <1>1, <1>8 DEF Changed, JobHolds
    <2>2. /\ Log("DISABLE_QR", s) \in Entries(a) <=> s \in Changed(a)
          /\ Log("GENERATE_QR", s) \notin Entries(a) /\ Log("REGENERATE_QR", s) \notin Entries(a)
      BY <1>8, <2>1 DEF Entries, Log
    <2>3. QED
      BY <1>1, <1>2, <1>4, <1>5, <1>6, <1>8, <2>1, <2>2
  <1>9. CASE job[a].op = "REGENERATE_QR"
    <2>1. Changed(a) = job[a].targets
      BY <1>9 DEF Changed
    <2>2. /\ Log("REGENERATE_QR", s) \in Entries(a) <=> s \in Changed(a)
          /\ Log("GENERATE_QR", s) \notin Entries(a) /\ Log("DISABLE_QR", s) \notin Entries(a)
      BY <1>9, <2>1 DEF Entries, Log
    <2>3. QED
      BY <1>1, <1>2, <1>4, <1>5, <1>6, <1>9, <2>1, <2>2 DEF QRDoc
  <1>10. CASE job[a].op \in {"GENERATE_QR", "GENERATE_QR_BATCH"}
    <2>1. Changed(a) = job[a].absent
      BY <1>10 DEF Changed
    <2>2. s \in Changed(a) => qr[s].status = "NONE" /\ s \in job[a].targets
      BY <1>1, <1>7, <2>1 DEF JobHolds
    <2>3. /\ s \in Changed(a) => Log("GENERATE_QR", s) \in Entries(a)
          /\ Log("GENERATE_QR", s) \in Entries(a) => s \in Changed(a) \/ qr[s].status # "NONE"
          /\ Log("REGENERATE_QR", s) \notin Entries(a) /\ Log("DISABLE_QR", s) \notin Entries(a)
      BY <1>1, <1>10, <2>1, <2>2 DEF Entries, Log, JobHolds
    <2>4. QED
      BY <1>1, <1>2, <1>4, <1>5, <1>6, <1>10, <2>2, <2>3 DEF QRDoc
  <1>11. QED
    BY <1>1, <1>8, <1>9, <1>10, <1>6 DEF Job, QROp

LEMMA CommitJobCodes ==
  ASSUME TypeOK, CodesInv, NEW a \in Admin, CommitJob(a)
  PROVE  CodesInv'
  <1>1. TokensNumbered'
    BY CommitJobCode DEF TokensNumbered
  <1>2. AuditReplays'
    BY CommitJobCode, Zenon DEF AuditReplays
  <1>3. ASSUME NEW b \in Admin, InTransaction(b)' PROVE JobHolds(b)'
    <2>1. b # a
      BY <1>3, AdminOpen DEF CommitJob, NoJob, TypeOK, InTransaction
    <2>2. job'[b] = job[b] /\ InTransaction(b)
      BY <1>3, <2>1 DEF CommitJob, TypeOK, InTransaction
    <2>3. missed'[b] = missed[b] \cup JobWrites(a)
      BY <2>1, <2>2, AdminOpen DEF CommitJob, Publish
    <2>4. JobHolds(b) /\ job[b] \in Job
      BY <2>2 DEF CodesInv, JobsHold, TypeOK
    <2>5. ASSUME NEW s \in job[b].absent, <<"qr", s>> \notin missed'[b]
          PROVE  qr'[s].status = "NONE"
      <3>1. s \in Staff /\ s \notin Changed(a) /\ <<"qr", s>> \notin missed[b]
        BY <2>3, <2>4, <2>5 DEF JobWrites, Job
      <3>2. QED
        BY <2>4, <2>5, <3>1, CommitJobCode DEF JobHolds
    <2>6. ASSUME NEW s \in job[b].targets \ job[b].absent PROVE qr'[s].status # "NONE"
      BY <2>4, <2>6, CommitJobCode DEF JobHolds, Job
    <2>7. QED
      BY <2>2, <2>4, <2>5, <2>6 DEF JobHolds
  <1>4. JobsHold'
    BY <1>3 DEF JobsHold
  <1>5. QED
    BY <1>1, <1>2, <1>4 DEF CodesInv

-------------------------------------------------------------------------------
(* The inductive invariant behind the guarantees of a submission.  What the  *)
(* runs check does not by itself survive a step: that a flag is right at the *)
(* commit depends on what the open transaction has not seen, SnapshotsHold.  *)
NoneFromTheFuture == \A i \in DOMAIN feedback : feedback[i].at <= clock

LedgerInv ==
  /\ NoneFromTheFuture
  /\ SnapshotsHold
  /\ TimesInCommitOrder
  /\ FlaggedExactly

(* What d has read stays true while the ledger is left alone and every write *)
(* to its QR document is published to it.                                    *)
LEMMA Undisturbed ==
  ASSUME TypeOK, TypeOK', NEW d \in Customer, SnapshotHolds(d),
         form'[d] = form[d], read'[d] = read[d], InTransaction(d),
         feedback' = feedback, clock <= clock',
         missed[d] \subseteq missed'[d],
         \/ <<"qr", form[d].staff>> \in missed'[d]
         \/ qr'[form[d].staff] = qr[form[d].staff]
  PROVE  SnapshotHolds(d)'
  <1>1. read[d].began \in Nat /\ clock \in Nat /\ clock' \in Nat
    BY OpenTyping DEF TypeOK, Read
  <1>2. QED
    BY <1>1 DEF SnapshotHolds

(* The ledger and its tokens are left alone, and so are open submissions.    *)
LEMMA Quiet ==
  ASSUME TypeOK, TypeOK', LedgerInv, UNCHANGED <<feedback, qr>>, clock <= clock',
         \A d \in Customer : InTransaction(d)' =>
            \/ SnapshotHolds(d)'
            \/ /\ InTransaction(d) /\ form'[d] = form[d] /\ read'[d] = read[d]
               /\ missed[d] \subseteq missed'[d]
  PROVE  LedgerInv'
  <1>1. SnapshotsHold'
    BY Undisturbed DEF SnapshotsHold, LedgerInv
  <1>2. NoneFromTheFuture'
    <2>1. ASSUME NEW i \in DOMAIN feedback PROVE feedback[i].at \in Nat
      BY RecordedTyping DEF Entry
    <2>2. QED
      BY <2>1 DEF NoneFromTheFuture, LedgerInv, TypeOK
  <1>3. TimesInCommitOrder' /\ FlaggedExactly'
    BY DEF LedgerInv, TimesInCommitOrder, FlaggedExactly, RepeatsOneOf, Recent, Repeats
  <1>4. QED
    BY <1>1, <1>2, <1>3 DEF LedgerInv

(* A new snapshot has seen the whole ledger, and its token resolves. *)
LEMMA FreshSnapshot ==
  ASSUME TypeOK, LedgerInv, NEW c \in Customer, NEW f \in Form, Snapshot(c, f),
         UNCHANGED <<database, clock, job>>
  PROVE  LedgerInv'
  <1>1. TypeOK'
    BY SnapshotTyping
  <1>2. SnapshotHolds(c)'
    <2>1. form'[c] = f /\ read'[c].seen = Len(feedback) /\ read'[c].began = clock
      BY DEF Snapshot, TypeOK
    <2>2. qr[f.staff] = [status |-> "ACTIVE", token |-> f.token]
      <3>1. f.staff \in Staff
        BY DEF Form
      <3>2. qr[f.staff] \in QRDoc
        BY <3>1 DEF TypeOK
      <3>3. QED
        BY <3>2 DEF Snapshot, Resolves, QRDoc
    <2>3. Len(feedback) \in Nat /\ clock \in Nat /\ DOMAIN feedback = 1..Len(feedback)
      BY DEF TypeOK
    <2>4. feedback' = feedback /\ qr' = qr /\ clock' = clock
      BY DEF database
    <2>5. QED
      BY <2>1, <2>2, <2>3, <2>4 DEF SnapshotHolds, LedgerInv, NoneFromTheFuture
  <1>3. ASSUME NEW d \in Customer, d # c
        PROVE  form'[d] = form[d] /\ read'[d] = read[d] /\ missed'[d] = missed[d]
    BY <1>3 DEF Snapshot, TypeOK, Actor
  <1>4. \A d \in Customer : InTransaction(d)' =>
            \/ SnapshotHolds(d)'
            \/ /\ InTransaction(d) /\ form'[d] = form[d] /\ read'[d] = read[d]
               /\ missed[d] \subseteq missed'[d]
    BY <1>2, <1>3 DEF InTransaction
  <1>5. clock <= clock'
    BY DEF TypeOK
  <1>6. QED
    BY <1>1, <1>4, <1>5, Quiet DEF database

(* The flag of a new entry is computed over what its transaction has seen;   *)
(* it would be the same over the whole ledger, because whatever has been     *)
(* committed since then cannot repeat it without a write conflict.           *)
LEMMA FlagOfEntry ==
  ASSUME TypeOK, NEW c \in Customer, NEW t \in Nat, InTransaction(c),
         SnapshotHolds(c), missed[c] \cap Writes(c) = {}
  PROVE  EntryOf(c, t).suspicious = RepeatsOneOf(EntryOf(c, t), feedback, Len(feedback))
  <1>. DEFINE e == EntryOf(c, t)
  <1>1. form[c] \in Form /\ read[c] \in Read
    BY OpenTyping
  <1>2. /\ e.staff = form[c].staff /\ e.cinema = read[c].cinema
        /\ e.ticket = form[c].ticket /\ e.phone = form[c].phone /\ e.at = t
    BY EntryTyping
  <1>3. e.suspicious = RepeatsOneOf(e, feedback, read[c].seen)
    <2>. DEFINE g == [staff |-> form[c].staff, cinema |-> read[c].cinema,
                      phone |-> form[c].phone, ticket |-> form[c].ticket,
                      token |-> form[c].token, at |-> t, suspicious |-> FALSE]
    <2>1. e.suspicious = RepeatsOneOf(g, feedback, read[c].seen)
      BY DEF EntryOf
    <2>2. RepeatsOneOf(g, feedback, read[c].seen) = RepeatsOneOf(e, feedback, read[c].seen)
      <3>1. g.at = e.at /\ g.staff = e.staff /\ g.phone = e.phone /\ g.ticket = e.ticket /\ g.cinema = e.cinema
        BY <1>2
      <3>. HIDE DEF g, e
      <3>2. QED
        BY <3>1 DEF RepeatsOneOf, Recent, Repeats
    <2>3. QED
      BY <2>1, <2>2
  <1>4. <<"qr", form[c].staff>> \notin missed[c]
    BY DEF Writes
  <1>5. form[c].ticket # NoTicket => <<"cinema", read[c].cinema>> \notin missed[c]
    BY DEF Writes
  <1>6. ASSUME NEW i \in 1..Len(feedback), i > read[c].seen
        PROVE  ~Repeats(e, feedback[i])
    <2>1. i \in DOMAIN feedback
      BY <1>6 DEF TypeOK
    <2>2. feedback[i].staff # form[c].staff
      BY <1>4, <1>6, <2>1 DEF SnapshotHolds
    <2>3. form[c].ticket # NoTicket /\ feedback[i].cinema = read[c].cinema
             => feedback[i].ticket = NoTicket
      BY <1>5, <1>6, <2>1 DEF SnapshotHolds
    <2>4. QED
      BY <1>2, <2>2, <2>3 DEF Repeats
  <1>7. read[c].seen \in Nat /\ Len(feedback) \in Nat /\ read[c].seen <= Len(feedback)
    BY <1>1 DEF Read, TypeOK, SnapshotHolds
  <1>8. RepeatsOneOf(e, feedback, read[c].seen) = RepeatsOneOf(e, feedback, Len(feedback))
    <2>. HIDE DEF e
    <2>1. QED
      BY <1>6, <1>7 DEF RepeatsOneOf
  <1>9. QED
    BY <1>3, <1>8

(* Another open submission d learns of the commit of c if it matters to it.  *)
LEMMA CommitPublished ==
  ASSUME TypeOK, TypeOK', NEW c \in Customer, NEW d \in Customer, c # d,
         InTransaction(c), InTransaction(d), SnapshotHolds(d), NEW t \in Nat,
         feedback' = Append(feedback, EntryOf(c, t)),
         form'[d] = form[d], read'[d] = read[d], UNCHANGED <<qr, clock>>,
         missed'[d] = missed[d] \cup Writes(c)
  PROVE  SnapshotHolds(d)'
  <1>. DEFINE n == Len(feedback) + 1
  <1>1. /\ DOMAIN feedback = 1..Len(feedback) /\ Len(feedback) \in Nat
        /\ DOMAIN feedback' = 1..n /\ Len(feedback') = n
        /\ \A i \in DOMAIN feedback : feedback'[i] = feedback[i]
        /\ feedback'[n] = EntryOf(c, t)
    BY EntryTyping, AppendProperties DEF TypeOK
  <1>2. read[d].seen \in Nat /\ read[d].seen <= Len(feedback)
    BY OpenTyping DEF Read, SnapshotHolds
  <1>3. /\ EntryOf(c, t).staff = form[c].staff
        /\ EntryOf(c, t).cinema = read[c].cinema
        /\ EntryOf(c, t).ticket = form[c].ticket
    BY EntryTyping
  <1>4. EntryOf(c, t).staff = form[d].staff => <<"qr", form[d].staff>> \in missed'[d]
    BY <1>3 DEF Writes
  <1>5. EntryOf(c, t).cinema = read[d].cinema /\ EntryOf(c, t).ticket # NoTicket
          => <<"cinema", read[d].cinema>> \in missed'[d]
    BY <1>3 DEF Writes
  <1>6. \A i \in DOMAIN feedback' : i \in DOMAIN feedback \/ i = n
    BY <1>1
  <1>. HIDE DEF n
  <1>7. QED
    BY <1>1, <1>2, <1>4, <1>5, <1>6 DEF SnapshotHolds, n

(* A transaction that may commit has seen all feedback of its staff member. *)
LEMMA NoneLater ==
  ASSUME TypeOK, LedgerInv, NEW c \in Customer, InTransaction(c),
         missed[c] \cap Writes(c) = {}, NEW t \in Nat, read[c].began <= t,
         NEW i \in DOMAIN feedback, feedback[i].staff = form[c].staff
  PROVE  feedback[i].at <= t
  <1>1. SnapshotHolds(c) /\ read[c] \in Read
    BY OpenTyping DEF LedgerInv, SnapshotsHold
  <1>2. <<"qr", form[c].staff>> \notin missed[c]
    BY DEF Writes
  <1>3. i \in Nat /\ read[c].seen \in Nat /\ read[c].began \in Nat
    BY <1>1 DEF Read, TypeOK
  <1>4. i <= read[c].seen
    BY <1>1, <1>2, <1>3 DEF SnapshotHolds
  <1>5. feedback[i].at \in Nat
    BY RecordedTyping DEF Entry
  <1>6. QED
    BY <1>1, <1>3, <1>4, <1>5 DEF SnapshotHolds

LEMMA CommitInv ==
  ASSUME TypeOK, LedgerInv, NEW c \in Customer, Commit(c)
  PROVE  LedgerInv'
  <1>. DEFINE n == Len(feedback) + 1
  <1>1. TypeOK' /\ InTransaction(c) /\ missed[c] \cap Writes(c) = {}
    BY CommitTyping DEF Commit
  <1>2. SnapshotHolds(c) /\ form[c] \in Form /\ read[c] \in Read
    BY <1>1, OpenTyping DEF LedgerInv, SnapshotsHold
  <1>3. PICK t \in read[c].began..clock : feedback' = Append(feedback, EntryOf(c, t))
    BY DEF Commit
  <1>. DEFINE e == EntryOf(c, t)
  <1>4. t \in Nat /\ read[c].began \in Nat /\ clock \in Nat /\ read[c].began <= t /\ t <= clock
    BY <1>2, <1>3 DEF TypeOK, Read
  <1>5. e \in Entry /\ e.staff = form[c].staff /\ e.at = t
    BY <1>1, <1>4, EntryTyping
  <1>6. /\ DOMAIN feedback = 1..Len(feedback) /\ Len(feedback) \in Nat
        /\ DOMAIN feedback' = 1..n /\ Len(feedback') = n
        /\ \A i \in DOMAIN feedback : feedback'[i] = feedback[i]
        /\ feedback'[n] = e
    BY <1>3, <1>5, AppendProperties DEF TypeOK
  <1>7. \A i \in DOMAIN feedback' : i \in DOMAIN feedback \/ i = n
    BY <1>6
  <1>8. qr' = qr /\ clock' = clock
    BY DEF Commit
  <1>9. e.suspicious = RepeatsOneOf(e, feedback, Len(feedback))
    BY <1>1, <1>2, <1>4, FlagOfEntry
  <1>10. ASSUME NEW i \in DOMAIN feedback, feedback[i].staff = e.staff
         PROVE  feedback[i].at <= t
    BY <1>1, <1>4, <1>5, <1>10, NoneLater
  <1>. HIDE DEF e, n
  <1>11. NoneFromTheFuture'
    BY <1>4, <1>5, <1>6, <1>7, <1>8 DEF NoneFromTheFuture, LedgerInv
  <1>12. SnapshotsHold'
    <2>1. ASSUME NEW d \in Customer, InTransaction(d)' PROVE SnapshotHolds(d)'
      <3>1. d # c
        BY <2>1 DEF Commit, Close, InTransaction, TypeOK
      <3>2. InTransaction(d) /\ form'[d] = form[d] /\ read'[d] = read[d]
        BY <2>1, <3>1 DEF Commit, Close, InTransaction, TypeOK
      <3>3. missed'[d] = missed[d] \cup Writes(c)
        BY <3>1, <3>2 DEF Commit, Publish, Actor
      <3>4. SnapshotHolds(d)
        BY <3>2 DEF LedgerInv, SnapshotsHold
      <3>5. QED
        BY <1>1, <1>3, <1>4, <1>8, <3>1, <3>2, <3>3, <3>4, CommitPublished DEF e
    <2>2. QED
      BY <2>1 DEF SnapshotsHold
  <1>13. TimesInCommitOrder'
    <2>1. ASSUME NEW i \in DOMAIN feedback', NEW j \in DOMAIN feedback',
                 i < j, feedback'[i].staff = feedback'[j].staff
          PROVE  feedback'[i].at <= feedback'[j].at
      <3>1. i \in DOMAIN feedback
        BY <1>6, <1>7, <2>1 DEF n
      <3>2. CASE j = n
        BY <1>5, <1>6, <1>10, <2>1, <3>1, <3>2
      <3>3. CASE j \in DOMAIN feedback
        BY <1>6, <2>1, <3>1, <3>3 DEF LedgerInv, TimesInCommitOrder
      <3>4. QED
        BY <1>7, <3>2, <3>3
    <2>2. QED
      BY <2>1 DEF TimesInCommitOrder
  <1>14. FlaggedExactly'
    <2>1. ASSUME NEW f, NEW m \in Nat, m <= Len(feedback)
          PROVE  RepeatsOneOf(f, feedback', m) = RepeatsOneOf(f, feedback, m)
      BY <1>6, <2>1 DEF RepeatsOneOf
    <2>2. ASSUME NEW i \in DOMAIN feedback'
          PROVE  feedback'[i].suspicious = RepeatsOneOf(feedback'[i], feedback', i - 1)
      <3>1. CASE i = n
        BY <1>6, <1>9, <2>1, <3>1 DEF n
      <3>2. CASE i \in DOMAIN feedback
        <4>1. i - 1 \in Nat /\ i - 1 <= Len(feedback)
          BY <1>6, <3>2
        <4>2. feedback[i].suspicious = RepeatsOneOf(feedback[i], feedback, i - 1)
          BY <3>2 DEF LedgerInv, FlaggedExactly
        <4>3. QED
          BY <1>6, <2>1, <3>2, <4>1, <4>2
      <3>3. QED
        BY <1>7, <2>2, <3>1, <3>2
    <2>3. QED
      BY <2>2 DEF FlaggedExactly
  <1>15. QED
    BY <1>11, <1>12, <1>13, <1>14 DEF LedgerInv

(* A commit of an administrator changes the QR documents it writes, and no   *)
(* others; every open submission for one of them learns of it.               *)
LEMMA CommitJobInv ==
  ASSUME TypeOK, LedgerInv, NEW a \in Admin, CommitJob(a)
  PROVE  LedgerInv'
  <1>1. TypeOK'
    BY CommitJobTyping
  <1>2. UNCHANGED <<feedback, clock, form, read>>
    BY DEF CommitJob
  <1>3. NoneFromTheFuture' /\ TimesInCommitOrder' /\ FlaggedExactly'
    BY <1>2 DEF LedgerInv, NoneFromTheFuture, TimesInCommitOrder, FlaggedExactly,
                RepeatsOneOf, Recent, Repeats
  <1>4. ASSUME NEW d \in Customer, InTransaction(d)
        PROVE  SnapshotHolds(d)'
    <2>1. d # a /\ d \in Actor
      BY DEF Actor
    <2>2. missed'[d] = missed[d] \cup JobWrites(a)
      BY <1>4, <2>1 DEF CommitJob, Publish
    <2>3. form[d].staff \in Staff
      BY <1>4, OpenTyping DEF Form
    <2>4. \/ <<"qr", form[d].staff>> \in missed'[d]
          \/ qr'[form[d].staff] = qr[form[d].staff]
      BY <2>2, <2>3 DEF CommitJob, JobWrites
    <2>5. SnapshotHolds(d) /\ clock <= clock'
      BY <1>2, <1>4 DEF LedgerInv, SnapshotsHold, TypeOK
    <2>6. QED
      BY <1>1, <1>2, <1>4, <2>2, <2>4, <2>5, Undisturbed
  <1>5. SnapshotsHold'
    BY <1>2, <1>4 DEF SnapshotsHold, InTransaction
  <1>6. QED
    BY <1>3, <1>5 DEF LedgerInv

-------------------------------------------------------------------------------
(* The inductive invariant, step by step.                                    *)
IInv == TypeOK /\ CodesInv /\ LedgerInv

LEMMA CustomerStepInv ==
  ASSUME IInv, NEW c \in Customer, CustomerStep(c)
  PROVE  CodesInv' /\ LedgerInv'
  <1>1. TypeOK /\ CodesInv /\ LedgerInv /\ TypeOK'
    BY StepTyping DEF IInv, Next
  <1>2. qr' = qr /\ audit' = audit /\ job' = job
    BY DEF CustomerStep, Submit, Commit, Retry, Abandon, database
  <1>3. ASSUME NEW a \in Admin
        PROVE  missed[a] \subseteq missed'[a] \/ ~InTransaction(a)
    <2>1. a # c /\ a \in Actor
      BY DEF Actor
    <2>2. CASE Commit(c)
      BY <2>1, <2>2 DEF Commit, Publish
    <2>3. CASE ~Commit(c)
      <3>1. missed' = [missed EXCEPT ![c] = {}]
        <4>1. (\E f : Submit(c, f)) \/ Retry(c) \/ Abandon(c)
          BY <2>3 DEF CustomerStep
        <4>2. QED
          BY <4>1 DEF Submit, Retry, Abandon, Snapshot
      <3>2. QED
        BY <1>1, <2>1, <3>1 DEF TypeOK
    <2>4. QED
      BY <2>2, <2>3
  <1>4. CodesInv'
    <2>1. \A a \in Admin : InTransaction(a)' =>
            \/ JobHolds(a)'
            \/ InTransaction(a) /\ job'[a] = job[a] /\ missed[a] \subseteq missed'[a]
      BY <1>2, <1>3, AdminOpen DEF InTransaction
    <2>2. QED
      BY <1>1, <1>2, <2>1, CodesQuiet
  <1>5. LedgerInv'
    <2>1. ASSUME NEW f \in Form, Submit(c, f) PROVE LedgerInv'
      BY <1>1, <2>1, FreshSnapshot DEF Submit
    <2>2. CASE Commit(c)
      BY <1>1, <2>2, CommitInv
    <2>3. CASE Retry(c)
      BY <1>1, <2>3, OpenTyping, FreshSnapshot DEF Retry
    <2>4. CASE Abandon(c)
      <3>1. ASSUME NEW d \in Customer, InTransaction(d)'
            PROVE  /\ InTransaction(d) /\ form'[d] = form[d] /\ read'[d] = read[d]
                   /\ missed[d] \subseteq missed'[d]
        BY <1>1, <2>4, <3>1 DEF Abandon, Close, InTransaction, TypeOK, Actor
      <3>2. UNCHANGED <<feedback, qr>> /\ clock <= clock'
        BY <1>1, <2>4 DEF Abandon, database, TypeOK
      <3>3. QED
        BY <1>1, <3>1, <3>2, Quiet
    <2>5. ASSUME NEW s \in Staff, NEW p \in Phone, NEW tk \in Ticket \cup {NoTicket},
                 NEW t \in Terms, NEW n \in 1..qr[s].token
          PROVE  [staff |-> s, token |-> n, phone |-> p, ticket |-> tk, terms |-> t] \in Form
      BY <1>1, <2>5 DEF Form, TypeOK, QRDoc
    <2>6. QED
      BY <2>1, <2>2, <2>3, <2>4, <2>5 DEF CustomerStep
  <1>6. QED
    BY <1>4, <1>5

LEMMA AdminStepInv ==
  ASSUME IInv, NEW a \in Admin, AdminStep(a)
  PROVE  CodesInv' /\ LedgerInv'
  <1>1. TypeOK /\ CodesInv /\ LedgerInv /\ TypeOK'
    BY StepTyping DEF IInv, Next
  <1>2. CASE CommitJob(a)
    BY <1>1, <1>2, CommitJobCodes, CommitJobInv
  <1>3. ASSUME NEW op \in QROp, NEW S \in SUBSET Staff, JobSnapshot(a, op, S),
               UNCHANGED <<database, clock, form, read>>
        PROVE  CodesInv' /\ LedgerInv'
    <2>1. CodesInv'
      BY <1>1, <1>3, FreshJob
    <2>2. \A d \in Customer : missed'[d] = missed[d]
      BY <1>1, <1>3 DEF JobSnapshot, TypeOK, Actor
    <2>3. UNCHANGED <<feedback, qr>> /\ clock <= clock'
      BY <1>1, <1>3 DEF database, TypeOK
    <2>4. QED
      BY <1>1, <1>3, <2>1, <2>2, <2>3, Quiet DEF InTransaction
  <1>4. ASSUME NEW op \in QROp, NEW S \in SUBSET Staff, Open(a, op, S)
        PROVE  CodesInv' /\ LedgerInv'
    BY <1>3, <1>4 DEF Open
  <1>5. CASE RetryJob(a)
    <2>1. job[a].op \in QROp /\ job[a].targets \in SUBSET Staff
      BY <1>1 DEF TypeOK, Job
    <2>2. QED
      BY <1>3, <1>5, <2>1 DEF RetryJob
  <1>6. CASE AbandonJob(a)
    <2>1. ASSUME NEW b \in Admin, InTransaction(b)'
          PROVE  InTransaction(b) /\ job'[b] = job[b] /\ missed[b] \subseteq missed'[b]
      <3>1. b # a
        BY <1>1, <1>6, <2>1, AdminOpen DEF AbandonJob, NoJob, TypeOK, InTransaction
      <3>2. QED
        BY <1>1, <1>6, <2>1, <3>1, AdminOpen DEF AbandonJob, TypeOK, InTransaction
    <2>2. CodesInv'
      BY <1>1, <1>6, <2>1, CodesQuiet DEF AbandonJob, database
    <2>3. \A d \in Customer : missed'[d] = missed[d]
      BY <1>1, <1>6 DEF AbandonJob, TypeOK, Actor
    <2>4. UNCHANGED <<feedback, qr, form, read>> /\ clock <= clock'
      BY <1>1, <1>6 DEF AbandonJob, database, TypeOK
    <2>5. QED
      BY <1>1, <2>2, <2>3, <2>4, Quiet DEF InTransaction
  <1>7. QED
    BY <1>2, <1>4, <1>5, <1>6 DEF AdminStep

LEMMA SaveInv ==
  ASSUME IInv, Save
  PROVE  CodesInv' /\ LedgerInv'
  <1>1. TypeOK /\ CodesInv /\ LedgerInv /\ TypeOK'
    BY StepTyping DEF IInv, Next
  <1>2. UNCHANGED <<feedback, qr, clock, form, read, job>> /\ clock <= clock'
    BY <1>1 DEF Save, SaveStaff, Detach, SaveCinema, SaveConfig, requests, TypeOK
  <1>3. ASSUME NEW x \in Actor, InTransaction(x) PROVE missed[x] \subseteq missed'[x]
    BY <1>3 DEF Save, SaveStaff, Detach, SaveCinema, SaveConfig, requests
  <1>4. \/ audit' = audit
        \/ \E E \in SUBSET LogEntry :
              /\ audit' = Append(audit, E)
              /\ \A s \in Staff, op \in {"GENERATE_QR", "REGENERATE_QR", "DISABLE_QR"} :
                   Log(op, s) \notin E
    <2>1. ASSUME NEW s \in Staff, NEW d \in StaffDoc, SaveStaff(s, d)
          PROVE  \E E \in SUBSET LogEntry :
              /\ audit' = Append(audit, E)
              /\ \A r \in Staff, op \in {"GENERATE_QR", "REGENERATE_QR", "DISABLE_QR"} : Log(op, r) \notin E
      <3>1. {Log("SAVE_STAFF", s)} \in SUBSET LogEntry
        BY DEF Log, LogEntry, Action
      <3>2. WITNESS {Log("SAVE_STAFF", s)} \in SUBSET LogEntry
      <3>3. QED
        BY <2>1 DEF SaveStaff, Log
    <2>2. ASSUME NEW k \in Cinema, NEW status \in Status, SaveCinema(k, status)
          PROVE  \E E \in SUBSET LogEntry :
              /\ audit' = Append(audit, E)
              /\ \A r \in Staff, op \in {"GENERATE_QR", "REGENERATE_QR", "DISABLE_QR"} : Log(op, r) \notin E
      <3>1. {Log("SAVE_CINEMA", k)} \in SUBSET LogEntry
        BY DEF Log, LogEntry, Action
      <3>2. WITNESS {Log("SAVE_CINEMA", k)} \in SUBSET LogEntry
      <3>3. QED
        BY <2>2 DEF SaveCinema, Log
    <2>3. ASSUME NEW t \in Terms, SaveConfig(t)
          PROVE  \E E \in SUBSET LogEntry :
              /\ audit' = Append(audit, E)
              /\ \A r \in Staff, op \in {"GENERATE_QR", "REGENERATE_QR", "DISABLE_QR"} : Log(op, r) \notin E
      <3>1. {Log("UPDATE_FEEDBACK_CONFIG", "default")} \in SUBSET LogEntry
        BY DEF Log, LogEntry, Action
      <3>2. WITNESS {Log("UPDATE_FEEDBACK_CONFIG", "default")} \in SUBSET LogEntry
      <3>3. QED
        BY <2>3 DEF SaveConfig, Log
    <2>4. ASSUME NEW m \in Manager, NEW K \in {{}} \cup {{k} : k \in Cinema}, Detach(m, K)
          PROVE  audit' = audit
      BY <2>4 DEF Detach
    <2>5. QED
      BY <2>1, <2>2, <2>3, <2>4 DEF Save
  <1>5. CodesInv'
    <2>1. \A a \in Admin : InTransaction(a)' =>
            \/ JobHolds(a)'
            \/ InTransaction(a) /\ job'[a] = job[a] /\ missed[a] \subseteq missed'[a]
      BY <1>2, <1>3, AdminOpen DEF InTransaction
    <2>2. QED
      BY <1>1, <1>2, <1>4, <2>1, CodesQuiet
  <1>6. LedgerInv'
    BY <1>1, <1>2, <1>3, Quiet DEF InTransaction, Actor
  <1>7. QED
    BY <1>5, <1>6

LEMMA StepInv ==
  ASSUME IInv, [Next]_vars
  PROVE  IInv'
  <1>1. TypeOK /\ CodesInv /\ LedgerInv /\ TypeOK'
    BY StepTyping DEF IInv
  <1>2. ASSUME UNCHANGED <<database, requests>>, clock <= clock'
        PROVE  CodesInv' /\ LedgerInv'
    <2>1. UNCHANGED <<qr, audit, feedback, form, read, job, missed>>
      BY <1>2 DEF database, requests
    <2>2. CodesInv'
      BY <1>1, <2>1, CodesQuiet DEF InTransaction
    <2>3. LedgerInv'
      BY <1>1, <1>2, <2>1, Quiet DEF InTransaction
    <2>4. QED
      BY <2>2, <2>3
  <1>3. CASE UNCHANGED vars
    BY <1>1, <1>2, <1>3 DEF vars, IInv, TypeOK
  <1>4. CASE Tick
    BY <1>1, <1>2, <1>4 DEF Tick, IInv, TypeOK
  <1>5. QED
    BY <1>1, <1>3, <1>4, CustomerStepInv, AdminStepInv, SaveInv DEF Next, IInv

LEMMA InitInv ==
  ASSUME Init
  PROVE  IInv
  <1>1. TypeOK
    BY InitTyping
  <1>2. feedback = <<>> /\ audit = <<>>
    BY DEF Init
  <1>3. LedgerInv
    <2>1. DOMAIN feedback = {}
      BY <1>2
    <2>2. SnapshotsHold
      BY DEF Init, SnapshotsHold, InTransaction
    <2>3. QED
      BY <2>1, <2>2 DEF LedgerInv, NoneFromTheFuture, TimesInCommitOrder, FlaggedExactly
  <1>4. CodesInv
    <2>1. DOMAIN audit = {}
      BY <1>2
    <2>2. ASSUME NEW s \in Staff
          PROVE  /\ qr[s].status # "NONE" => qr[s].token >= 1
                 /\ qr[s].status = IF s \in Printed THEN "ACTIVE" ELSE "NONE"
      BY DEF Init
    <2>3. AuditReplays
      BY <2>1, <2>2, Zenon DEF AuditReplays, Revoked, Made
    <2>4. JobsHold
      BY AdminOpen DEF Init, NoJob, JobsHold
    <2>5. QED
      BY <2>2, <2>3, <2>4 DEF CodesInv, TokensNumbered
  <1>5. QED
    BY <1>1, <1>3, <1>4 DEF IInv

LEMMA Invariance == Spec => []IInv
  BY InitInv, StepInv, PTL DEF Spec

-------------------------------------------------------------------------------
(* Every flag is the flag that one-at-a-time submission would have given.    *)
THEOREM FlagsExact == Spec => []FlaggedExactly
  BY Invariance, PTL DEF IInv, LedgerInv

(* The times of one staff member's feedback follow the order of the commits. *)
THEOREM TimesOrdered == Spec => []TimesInCommitOrder
  BY Invariance, PTL DEF IInv, LedgerInv

(* What an open submission has read holds until it is bound to be refused.   *)
THEOREM SnapshotsStand == Spec => []SnapshotsHold
  BY Invariance, PTL DEF IInv, LedgerInv

(* Replaying the audit log gives the status of every QR document.            *)
THEOREM AuditExplains == Spec => []AuditReplays
  BY Invariance, PTL DEF IInv, CodesInv

(* Only a commit touches the ledger and its notifications. *)
LEMMA OnlyCommits ==
  ASSUME [Next]_vars
  PROVE  (\E c \in Customer : Commit(c)) \/ UNCHANGED <<feedback, notification, email>>
  <1>1. ASSUME NEW c \in Customer, CustomerStep(c)
        PROVE  Commit(c) \/ UNCHANGED <<feedback, notification, email>>
    BY <1>1 DEF CustomerStep, Submit, Retry, Abandon, database
  <1>2. ASSUME NEW a \in Admin, AdminStep(a)
        PROVE  UNCHANGED <<feedback, notification, email>>
    BY <1>2 DEF AdminStep, Open, CommitJob, RetryJob, AbandonJob, database
  <1>3. CASE Save
    BY <1>3 DEF Save, SaveStaff, Detach, SaveCinema, SaveConfig
  <1>4. QED
    BY <1>1, <1>2, <1>3 DEF Next, Tick, vars, database

(* The token of a commit is live when it happens. *)
LEMMA CommitLive ==
  ASSUME IInv, NEW c \in Customer, Commit(c)
  PROVE  /\ InTransaction(c) /\ form[c] \in Form /\ read[c] \in Read
         /\ SnapshotHolds(c)
         /\ qr[form[c].staff] = [status |-> "ACTIVE", token |-> form[c].token]
         /\ form[c].token >= 1
  <1>1. InTransaction(c)
    BY DEF Commit
  <1>2. form[c] \in Form /\ read[c] \in Read /\ SnapshotHolds(c)
    BY <1>1, OpenTyping DEF IInv, LedgerInv, SnapshotsHold
  <1>3. <<"qr", form[c].staff>> \notin missed[c]
    BY DEF Commit, Writes
  <1>4. qr[form[c].staff] = [status |-> "ACTIVE", token |-> form[c].token]
    BY <1>2, <1>3 DEF SnapshotHolds
  <1>5. form[c].token >= 1
    BY <1>2, <1>4 DEF IInv, CodesInv, TokensNumbered, Form
  <1>6. QED
    BY <1>1, <1>2, <1>4, <1>5

(* A commit appends one entry to the ledger, for the form it holds. *)
LEMMA CommitAppends ==
  ASSUME IInv, NEW c \in Customer, Commit(c)
  PROVE  \E t \in read[c].began..clock :
           /\ t \in Nat
           /\ feedback' = Append(feedback, EntryOf(c, t))
           /\ Notify(c, EntryOf(c, t))
           /\ EntryOf(c, t) \in Entry
           /\ DOMAIN feedback' = DOMAIN feedback \cup {Len(feedback) + 1}
           /\ Len(feedback) + 1 \notin DOMAIN feedback
           /\ \A i \in DOMAIN feedback : feedback'[i] = feedback[i]
           /\ feedback'[Len(feedback) + 1] = EntryOf(c, t)
  <1>1. PICK t \in read[c].began..clock :
          /\ feedback' = Append(feedback, EntryOf(c, t))
          /\ Notify(c, EntryOf(c, t))
    BY DEF Commit
  <1>2. t \in Nat
    <2>1. read[c] \in Read
      BY CommitLive
    <2>2. read[c].began \in Nat /\ clock \in Nat
      BY <2>1 DEF IInv, TypeOK, Read
    <2>3. QED
      BY <1>1, <2>2
  <1>3. EntryOf(c, t) \in Entry
    BY <1>2, CommitLive, EntryTyping DEF IInv
  <1>4. /\ DOMAIN feedback = 1..Len(feedback) /\ Len(feedback) \in Nat
        /\ DOMAIN feedback' = 1..(Len(feedback) + 1)
        /\ \A i \in DOMAIN feedback : feedback'[i] = feedback[i]
        /\ feedback'[Len(feedback) + 1] = EntryOf(c, t)
    BY <1>1, <1>3, AppendProperties DEF IInv, TypeOK
  <1>5. /\ DOMAIN feedback' = DOMAIN feedback \cup {Len(feedback) + 1}
        /\ Len(feedback) + 1 \notin DOMAIN feedback
    BY <1>4
  <1>6. QED
    BY <1>1, <1>2, <1>3, <1>4, <1>5

LEMMA LiveStep ==
  ASSUME IInv, [Next]_vars, feedback' # feedback
  PROVE  \A i \in DOMAIN feedback' \ DOMAIN feedback :
           qr[feedback'[i].staff] = [status |-> "ACTIVE", token |-> feedback'[i].token]
  <1>1. PICK c \in Customer : Commit(c)
    BY OnlyCommits
  <1>2. PICK t \in Nat :
          /\ DOMAIN feedback' = DOMAIN feedback \cup {Len(feedback) + 1}
          /\ feedback'[Len(feedback) + 1] = EntryOf(c, t)
    BY <1>1, CommitAppends
  <1>3. EntryOf(c, t).staff = form[c].staff /\ EntryOf(c, t).token = form[c].token
    BY <1>1, CommitLive, EntryTyping DEF IInv
  <1>4. QED
    BY <1>1, <1>2, <1>3, CommitLive

(* No feedback is committed with a token that has been replaced or disabled, *)
(* however its submission and the revocation overlapped.                     *)
THEOREM TokenLive == Spec => LiveTokenOnly
  <1>1. IInv /\ [Next]_vars =>
          [\A i \in DOMAIN feedback' \ DOMAIN feedback :
             LET f == feedback'[i]
             IN  qr[f.staff] = [status |-> "ACTIVE", token |-> f.token]]_feedback
    BY LiveStep
  <1>2. QED
    BY <1>1, Invariance, PTL DEF Spec, LiveTokenOnly

(* What an open submission has read of its staff member is a version of the  *)
(* document in force since the last feedback about that member, unless that  *)
(* feedback has been committed meanwhile: then it is bound to conflict.      *)
PostingsInv ==
  /\ \A s \in Staff : PostingOf(staff[s]) \in postings[s]
  /\ \A c \in Customer :
       InTransaction(c) /\ <<"qr", form[c].staff>> \notin missed[c]
         => PostingOf(read[c]) \in postings[form[c].staff]

(* The histories only grow, and the submissions stay as they are or learn of *)
(* more conflicts.                                                           *)
LEMMA PostingsKept ==
  ASSUME IInv, PostingsInv,
         \A s \in Staff : /\ PostingOf(staff'[s]) \in postings'[s]
                          /\ postings[s] \subseteq postings'[s],
         \A c \in Customer : InTransaction(c)' =>
            /\ InTransaction(c) /\ form'[c] = form[c] /\ read'[c] = read[c]
            /\ missed[c] \subseteq missed'[c]
  PROVE  PostingsInv'
  <1>1. ASSUME NEW c \in Customer, InTransaction(c)', <<"qr", form'[c].staff>> \notin missed'[c]
        PROVE  PostingOf(read'[c]) \in postings'[form'[c].staff]
    <2>1. form[c] \in Form
      BY <1>1, OpenTyping DEF IInv
    <2>2. form[c].staff \in Staff
      BY <2>1 DEF Form
    <2>3. PostingOf(read[c]) \in postings[form[c].staff]
      BY <1>1 DEF PostingsInv
    <2>4. QED
      BY <1>1, <2>2, <2>3
  <1>2. QED
    BY <1>1 DEF PostingsInv

LEMMA PostingsSnapshot ==
  ASSUME IInv, PostingsInv, NEW c \in Customer, NEW f \in Form, Snapshot(c, f),
         UNCHANGED <<staff, postings>>
  PROVE  PostingsInv'
  <1>1. TypeOK
    BY DEF IInv
  <1>2. /\ form'[c] = f
        /\ read'[c].cinema = staff[f.staff].cinema /\ read'[c].manager = staff[f.staff].manager
        /\ \A d \in Customer : d # c => /\ form'[d] = form[d] /\ read'[d] = read[d]
                                        /\ missed'[d] = missed[d]
    BY <1>1 DEF Snapshot, TypeOK, Actor
  <1>3. PostingOf(read'[c]) = PostingOf(staff[f.staff]) /\ f.staff \in Staff
    BY <1>2 DEF PostingOf, Form
  <1>4. ASSUME NEW d \in Customer, InTransaction(d)', <<"qr", form'[d].staff>> \notin missed'[d]
        PROVE  PostingOf(read'[d]) \in postings[form'[d].staff]
    <2>1. CASE d = c
      BY <1>2, <1>3, <2>1 DEF PostingsInv
    <2>2. CASE d # c
      BY <1>2, <1>4, <2>2 DEF PostingsInv, InTransaction
    <2>3. QED
      BY <2>1, <2>2
  <1>5. QED
    BY <1>4 DEF PostingsInv

LEMMA PostingsCommit ==
  ASSUME IInv, PostingsInv, NEW c \in Customer, Commit(c)
  PROVE  PostingsInv'
  <1>1. TypeOK /\ InTransaction(c) /\ form[c] \in Form
    BY OpenTyping DEF IInv, Commit
  <1>. DEFINE s == form[c].staff
  <1>2. s \in Staff
    BY <1>1 DEF Form
  <1>3. /\ postings'[s] = {PostingOf(staff[s])} /\ staff' = staff
        /\ \A r \in Staff : r # s => postings'[r] = postings[r]
    BY <1>1, <1>2 DEF Commit, TypeOK
  <1>4. ASSUME NEW d \in Customer, InTransaction(d)', <<"qr", form'[d].staff>> \notin missed'[d]
        PROVE  PostingOf(read'[d]) \in postings'[form'[d].staff]
    <2>1. d # c /\ InTransaction(d) /\ form'[d] = form[d] /\ read'[d] = read[d]
      BY <1>1, <1>4 DEF Commit, Close, InTransaction, TypeOK
    <2>2. missed'[d] = missed[d] \cup Writes(c)
      BY <2>1 DEF Commit, Publish, Actor
    <2>3. form[d] \in Form
      BY <1>1, <2>1, OpenTyping
    <2>4. form[d].staff \in Staff /\ form[d].staff # s
      BY <1>4, <2>1, <2>2, <2>3 DEF Writes, Form
    <2>5. PostingOf(read[d]) \in postings[form[d].staff]
      BY <1>4, <2>1, <2>2 DEF PostingsInv
    <2>6. QED
      BY <1>3, <2>1, <2>4, <2>5
  <1>5. \A r \in Staff : PostingOf(staff'[r]) \in postings'[r]
    BY <1>3 DEF PostingsInv
  <1>6. QED
    BY <1>4, <1>5 DEF PostingsInv

LEMMA PostingsSave ==
  ASSUME IInv, PostingsInv, Save
  PROVE  PostingsInv'
  <1>1. TypeOK
    BY DEF IInv
  <1>2. ASSUME NEW c \in Customer, InTransaction(c)'
        PROVE  /\ InTransaction(c) /\ form'[c] = form[c] /\ read'[c] = read[c]
               /\ missed[c] \subseteq missed'[c]
    BY <1>2 DEF Save, SaveStaff, Detach, SaveCinema, SaveConfig, requests, InTransaction, Actor
  <1>3. ASSUME NEW s \in Staff
        PROVE  PostingOf(staff'[s]) \in postings'[s] /\ postings[s] \subseteq postings'[s]
    <2>1. ASSUME NEW r \in Staff, NEW d \in StaffDoc, SaveStaff(r, d)
          PROVE  PostingOf(staff'[s]) \in postings'[s] /\ postings[s] \subseteq postings'[s]
      BY <1>1, <2>1 DEF SaveStaff, TypeOK, PostingsInv
    <2>2. ASSUME NEW m \in Manager, NEW K \in {{}} \cup {{k} : k \in Cinema}, Detach(m, K)
          PROVE  PostingOf(staff'[s]) \in postings'[s] /\ postings[s] \subseteq postings'[s]
      BY <2>2 DEF Detach
    <2>3. CASE UNCHANGED <<staff, postings>>
      BY <2>3 DEF PostingsInv
    <2>4. QED
      BY <2>1, <2>2, <2>3 DEF Save, SaveCinema, SaveConfig
  <1>4. QED
    BY <1>2, <1>3, PostingsKept

LEMMA PostingsStep ==
  ASSUME IInv, PostingsInv, [Next]_vars
  PROVE  PostingsInv'
  <1>1. TypeOK
    BY DEF IInv
  <1>2. ASSUME UNCHANGED <<staff, postings>>,
               \A c \in Customer : InTransaction(c)' =>
                  /\ InTransaction(c) /\ form'[c] = form[c] /\ read'[c] = read[c]
                  /\ missed[c] \subseteq missed'[c]
        PROVE  PostingsInv'
    BY <1>2, PostingsKept DEF PostingsInv
  <1>3. ASSUME NEW c \in Customer, CustomerStep(c) PROVE PostingsInv'
    <2>1. ASSUME NEW f \in Form, Submit(c, f) PROVE PostingsInv'
      BY <2>1, PostingsSnapshot DEF Submit, database
    <2>2. CASE Retry(c)
      BY <1>1, <2>2, OpenTyping, PostingsSnapshot DEF Retry, database
    <2>3. CASE Abandon(c)
      <3>1. ASSUME NEW d \in Customer, InTransaction(d)'
            PROVE  /\ InTransaction(d) /\ form'[d] = form[d] /\ read'[d] = read[d]
                   /\ missed[d] \subseteq missed'[d]
        BY <1>1, <2>3, <3>1 DEF Abandon, Close, InTransaction, TypeOK, Actor
      <3>2. QED
        BY <1>2, <2>3, <3>1 DEF Abandon, database
    <2>4. ASSUME NEW s \in Staff, NEW p \in Phone, NEW tk \in Ticket \cup {NoTicket},
                 NEW t \in Terms, NEW n \in 1..qr[s].token
          PROVE  [staff |-> s, token |-> n, phone |-> p, ticket |-> tk, terms |-> t] \in Form
      BY <1>1, <2>4 DEF Form, TypeOK, QRDoc
    <2>5. QED
      BY <1>3, <2>1, <2>2, <2>3, <2>4, PostingsCommit DEF CustomerStep
  <1>4. ASSUME NEW a \in Admin, AdminStep(a) PROVE PostingsInv'
    <2>1. UNCHANGED <<staff, postings, form, read>>
      BY <1>4 DEF AdminStep, Open, CommitJob, RetryJob, AbandonJob, database
    <2>2. ASSUME NEW c \in Customer, InTransaction(c)
          PROVE  missed[c] \subseteq missed'[c]
      <3>1. c # a /\ c \in Actor
        BY DEF Actor
      <3>2. CASE CommitJob(a)
        BY <2>2, <3>1, <3>2 DEF CommitJob, Publish
      <3>3. CASE ~CommitJob(a)
        <4>1. missed' = [missed EXCEPT ![a] = {}]
          BY <1>4, <3>3 DEF AdminStep, Open, RetryJob, AbandonJob, JobSnapshot
        <4>2. QED
          BY <1>1, <3>1, <4>1 DEF TypeOK
      <3>4. QED
        BY <3>2, <3>3
    <2>3. QED
      BY <1>2, <2>1, <2>2 DEF InTransaction
  <1>5. CASE Tick
    BY <1>2, <1>5 DEF Tick, database, requests, InTransaction
  <1>6. CASE UNCHANGED vars
    BY <1>2, <1>6 DEF vars, database, requests, InTransaction
  <1>7. QED
    BY <1>3, <1>4, <1>5, <1>6, PostingsSave DEF Next

(* Notices are what a commit adds, to the manager it has read. *)
LEMMA TellsStep ==
  ASSUME IInv, PostingsInv, [Next]_vars, ~UNCHANGED <<feedback, notification, email>>
  PROVE  \E s \in Staff : \E d \in postings[s] :
           LET i == Len(feedback) + 1
               told == IF d.manager = NoManager THEN {} ELSE {i}
           IN  /\ Len(feedback') = i
               /\ feedback'[i].staff = s /\ feedback'[i].cinema = d.cinema
               /\ notification' = notification \cup
                    {[id |-> n, recipient |-> d.manager, cinema |-> d.cinema,
                      suspicious |-> feedback'[n].suspicious] : n \in told}
               /\ email' = email \cup (IF EmailEnabled THEN told ELSE {})
  <1>1. PICK c \in Customer : Commit(c)
    BY OnlyCommits
  <1>. DEFINE i == Len(feedback) + 1
  <1>2. PICK t \in Nat :
          /\ feedback' = Append(feedback, EntryOf(c, t))
          /\ Notify(c, EntryOf(c, t))
          /\ feedback'[i] = EntryOf(c, t)
    BY <1>1, CommitAppends
  <1>3. InTransaction(c) /\ form[c] \in Form /\ EntryOf(c, t) \in Entry
        /\ EntryOf(c, t).staff = form[c].staff /\ EntryOf(c, t).cinema = read[c].cinema
    BY <1>1, CommitLive, EntryTyping DEF IInv
  <1>4. Len(feedback') = i
    BY <1>2, <1>3, AppendProperties DEF IInv, TypeOK
  <1>5. PICK s \in Staff : s = form[c].staff
    BY <1>3 DEF Form
  <1>6. PostingOf(read[c]) \in postings[s]
    BY <1>1, <1>3, <1>5 DEF PostingsInv, Commit, Writes
  <1>7. PICK d \in postings[s] : d = PostingOf(read[c])
    BY <1>6
  <1>8. d.manager = read[c].manager /\ d.cinema = read[c].cinema
    BY <1>7 DEF PostingOf
  <1>. DEFINE told == IF d.manager = NoManager THEN {} ELSE {i}
  <1>9. /\ notification' = notification \cup
             {[id |-> n, recipient |-> d.manager, cinema |-> d.cinema,
               suspicious |-> feedback'[n].suspicious] : n \in told}
        /\ email' = email \cup (IF EmailEnabled THEN told ELSE {})
    <2>1. CASE d.manager = NoManager
      BY <1>2, <1>8, <2>1 DEF Notify
    <2>2. CASE d.manager # NoManager
      BY <1>2, <1>3, <1>8, <2>2 DEF Notify
    <2>3. QED
      BY <2>1, <2>2
  <1>. HIDE DEF i, told
  <1>10. QED
    BY <1>2, <1>3, <1>4, <1>5, <1>8, <1>9 DEF i, told

(* Each feedback is told to the manager, in the cinema, that its staff       *)
(* member had at some moment since the feedback before it, and to no one     *)
(* else: a save of the staff member cannot slip between the two.             *)
THEOREM RightManagerTold == Spec => TellsManagerInForce
  <1>1. Init => PostingsInv
    BY DEF Init, PostingsInv, InTransaction
  <1>2. IInv /\ PostingsInv /\ [Next]_vars =>
          [\E s \in Staff : \E d \in postings[s] :
             LET i == Len(feedback) + 1
                 told == IF d.manager = NoManager THEN {} ELSE {i}
             IN  /\ Len(feedback') = i
                 /\ feedback'[i].staff = s /\ feedback'[i].cinema = d.cinema
                 /\ notification' = notification \cup
                      {[id |-> n, recipient |-> d.manager, cinema |-> d.cinema,
                        suspicious |-> feedback'[n].suspicious] : n \in told}
                 /\ email' = email \cup (IF EmailEnabled THEN told ELSE {})
          ]_<<feedback, notification, email>>
    BY TellsStep
  <1>3. QED
    BY <1>1, <1>2, PostingsStep, Invariance, PTL DEF Spec, TellsManagerInForce

-------------------------------------------------------------------------------
(* The refinement.  A commit of a submission is an Accept with the token     *)
(* that is live; a commit of an administrator issues or revokes the tokens   *)
(* of the codes it changes; everything else is invisible in the ledger.      *)
issuedOf == [s \in Staff |-> qr[s].token]
liveOf == [s \in Staff |-> IF qr[s].status = "ACTIVE" THEN qr[s].token ELSE 0]

LEMMA CommitAccepts ==
  ASSUME IInv, NEW c \in Customer, Commit(c)
  PROVE  Ledger!Next
  <1>1. /\ InTransaction(c) /\ form[c] \in Form /\ read[c] \in Read /\ SnapshotHolds(c)
        /\ qr[form[c].staff] = [status |-> "ACTIVE", token |-> form[c].token]
        /\ form[c].token >= 1
    BY CommitLive
  <1>2. PICK t \in read[c].began..clock :
          t \in Nat /\ feedback' = Append(feedback, EntryOf(c, t))
    BY CommitAppends
  <1>. DEFINE s == form[c].staff
              k == read[c].cinema
              p == form[c].phone
              tk == form[c].ticket
  <1>3. s \in Staff /\ k \in Cinema /\ p \in Phone /\ tk \in Ticket \cup {NoTicket}
    BY <1>1 DEF Form, Read
  <1>4. t \in 0..clock
    BY <1>2 DEF IInv, TypeOK
  <1>5. liveOf[s] = form[c].token /\ liveOf[s] # 0
    BY <1>1, <1>3 DEF liveOf
  <1>6. qr' = qr /\ clock' = clock
    BY DEF Commit
  <1>7. EntryOf(c, t).suspicious = RepeatsOneOf(EntryOf(c, t), feedback, Len(feedback))
    BY <1>1, <1>2, FlagOfEntry DEF IInv, Commit
  <1>8. EntryOf(c, t) = Ledger!EntryOf(s, k, p, tk, t)
    <2>. DEFINE f == [staff |-> s, cinema |-> k, phone |-> p, ticket |-> tk,
                      token |-> form[c].token, at |-> t, suspicious |-> FALSE]
    <2>1. EntryOf(c, t) = [f EXCEPT !.suspicious = EntryOf(c, t).suspicious]
      BY DEF EntryOf
    <2>2. RepeatsOneOf(EntryOf(c, t), feedback, Len(feedback)) = RepeatsOneOf(f, feedback, Len(feedback))
      <3>1. /\ EntryOf(c, t).staff = s /\ EntryOf(c, t).cinema = k /\ EntryOf(c, t).phone = p
            /\ EntryOf(c, t).ticket = tk /\ EntryOf(c, t).at = t
        BY <1>1, <1>2, EntryTyping DEF IInv
      <3>2. QED
        BY <3>1 DEF RepeatsOneOf, Recent, Repeats
    <2>3. Ledger!EntryOf(s, k, p, tk, t)
            = [f EXCEPT !.suspicious = Ledger!RepeatsOneOf(f, feedback, Len(feedback))]
      BY <1>5 DEF Ledger!EntryOf, liveOf
    <2>4. Ledger!RepeatsOneOf(f, feedback, Len(feedback)) = RepeatsOneOf(f, feedback, Len(feedback))
      BY DEF Ledger!RepeatsOneOf, Ledger!Recent, Ledger!Repeats, RepeatsOneOf, Recent, Repeats
    <2>5. QED
      BY <1>7, <2>1, <2>2, <2>3, <2>4
  <1>9. \A i \in DOMAIN feedback : feedback[i].staff = s => feedback[i].at <= t
    BY <1>1, <1>2, NoneLater DEF IInv, Commit
  <1>10. Ledger!Accept(s, k, p, tk, t)
    BY <1>2, <1>5, <1>6, <1>8, <1>9 DEF Ledger!Accept, liveOf
  <1>. HIDE DEF s, k, p, tk
  <1>11. QED
    BY <1>3, <1>4, <1>10 DEF Ledger!Next

LEMMA CommitJobIssues ==
  ASSUME IInv, NEW a \in Admin, CommitJob(a)
  PROVE  Ledger!Next
  <1>1. qr \in [Staff -> QRDoc]
    BY DEF IInv, TypeOK
  <1>2. UNCHANGED <<feedback, clock>>
    BY DEF CommitJob
  <1>3. PICK S \in SUBSET Staff : S = Changed(a)
    BY JobTyping DEF IInv
  <1>4. CASE job[a].op = "DISABLE_QR"
    <2>1. Ledger!Revoke(S)
      BY <1>1, <1>2, <1>3, <1>4 DEF Ledger!Revoke, CommitJob, QRDoc
    <2>2. QED
      BY <2>1 DEF Ledger!Next
  <1>5. CASE job[a].op # "DISABLE_QR"
    <2>1. Ledger!Issue(S)
      BY <1>1, <1>2, <1>3, <1>5 DEF Ledger!Issue, CommitJob, QRDoc
    <2>2. QED
      BY <2>1 DEF Ledger!Next
  <1>6. QED
    BY <1>4, <1>5

LEMMA RefinementStep ==
  ASSUME IInv, [Next]_vars
  PROVE  [Ledger!Next]_Ledger!vars
  <1>1. ASSUME UNCHANGED <<feedback, qr, clock>>
        PROVE  UNCHANGED Ledger!vars
    BY <1>1 DEF Ledger!vars
  <1>2. ASSUME NEW c \in Customer, CustomerStep(c)
        PROVE  Commit(c) \/ UNCHANGED <<feedback, qr, clock>>
    BY <1>2 DEF CustomerStep, Submit, Retry, Abandon, database
  <1>3. ASSUME NEW a \in Admin, AdminStep(a)
        PROVE  CommitJob(a) \/ UNCHANGED <<feedback, qr, clock>>
    BY <1>3 DEF AdminStep, Open, RetryJob, AbandonJob, database
  <1>4. ASSUME Save
        PROVE  UNCHANGED <<feedback, qr, clock>>
    BY <1>4 DEF Save, SaveStaff, Detach, SaveCinema, SaveConfig
  <1>5. ASSUME Tick
        PROVE  Ledger!Next
    <2>1. Ledger!Tick
      BY <1>5 DEF Tick, Ledger!Tick, database
    <2>2. QED
      BY <2>1 DEF Ledger!Next
  <1>6. CASE UNCHANGED vars
    BY <1>1, <1>6 DEF vars, database
  <1>7. QED
    BY <1>1, <1>2, <1>3, <1>4, <1>5, <1>6, CommitAccepts, CommitJobIssues DEF Next

LEMMA RefinementInit ==
  ASSUME Init
  PROVE  Ledger!Init
  <1>1. /\ feedback = <<>> /\ clock = 0
        /\ qr = [s \in Staff |-> IF s \in Printed THEN [status |-> "ACTIVE", token |-> 1]
                                 ELSE [status |-> "NONE", token |-> 0]]
    BY DEF Init
  <1>2. QED
    BY <1>1 DEF Ledger!Init

(* Submissions, revocations and saves that overlap in any way, with retries, *)
(* refusals and crashes, are together one serial ledger: every feedback is   *)
(* accepted at one moment, with a live token and the flag of that moment.    *)
THEOREM IntakeImplementsLedger == Spec => ImplementsLedger
  BY RefinementInit, RefinementStep, Invariance, PTL DEF Spec, ImplementsLedger, Ledger!Spec

(* Through the ledger: of one customer's feedback about a staff member, and  *)
(* of one transaction id's in a cinema, at most one in a window is counted,  *)
(* and no feedback comes through an older code than one committed before.    *)
THEOREM CountedOncePerWindow == Spec => [](Ledger!CountedOnce /\ Ledger!CodesInOrder)
  BY IntakeImplementsLedger, Ledger!LedgerCounts, PTL DEF ImplementsLedger
===============================================================================
