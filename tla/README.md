# Smart Cinema feedback platform: models and proofs

TLA+ specifications of the platform's core. On the server: public feedback
intake, QR codes, notifications, the e-mail outbox, coaching cases, the import
of staff, and the links between staff and their managers. In the browser: the
customer's feedback page with its ticket scanner, and the asynchronous pages of
the admin console (inbox, staff editor, QR codes, import). TLC checks them on small
instances; TLAPS proves the theorems of the `*Proofs` modules for every value of the
constants. Source paths below are relative to `src/`; `PROJECT.json` maps every
definition to its lines.

To run one check: `tlc -config MCIntakeRepeats.cfg MCFeedbackIntake.tla`; to
check proofs: `tlapm FeedbackIntakeProofs.tla`.

## 1. The system and its components

Go API (several replicas) over one MongoDB replica set, accounts in Keycloak,
e-mail through Resend, two Angular applications. What the replicas share is
MongoDB only; there are no in-process queues.

| Component | State | Operations | Interacts with |
|---|---|---|---|
| Public submission (`backend/internal/server/public.go`) | `feedbacks`, `feedbackRevision` of QR and cinema documents | `resolve`, `submitFeedback` | QR, staff, cinema, config documents, notification queue, rate limiter |
| QR administration (`qr.go`) | `staff_qr_codes` (unique `staffId`), `audit_logs` | `generateQR`, `regenerateQR`, `disableQR`, `batchQR` | submissions, through the QR document |
| Master data (`management.go`) | `cinemas`, `staff`, `feedback_config`, `feedback_reasons` | `saveCinema`, `saveStaff`, `saveConfig`, `saveReason` | submissions; Keycloak (manager look-up) |
| Coaching (`management.go`) | `coaching` | `saveCoaching` | staff documents, audit log |
| Users (`users.go`, `auth/users.go`) | Keycloak accounts and roles, audit log, `staff.managerId` | `saveUser`, `deleteUser`, `detachManager` | staff saves, notifications |
| Notifications (`notifications.go`) | `notifications`, `notification_emails` | `queueFeedbackNotification`, read, read-all | submission's transaction |
| E-mail worker (`notification/email.go`, `repository/notification.go`) | e-mail jobs with a lease | `ClaimEmail`, `DeliverOne`, `FinishEmail`, `Run` | Keycloak, Resend |
| Rate limiter (`repository/mongo.go`) | per-minute counters | `Allow` | every public request |
| Staff import (`import.go`) | staff | preview, confirm | staff saves |
| Seed and start-up (`seed.go`, `cmd/api/main.go`) | all collections | `EnsureIndexes`, `Seed` | other replicas starting |
| Customer page (`frontend/apps/smart-customer/src/app/feedback.ts`) | form, the configuration it was loaded with, the request awaited | submit, reload, reset | scanner (ticket id), public API |
| Ticket field and scanner (`transaction.ts`) | mode, camera stream, generation number | type, scan, help, leave | customer page |
| Admin pages (`frontend/libs/feature/src`) | data, filters, dialogs, request serials (`shared.ts`) | load, poll, mark, select, save, import | admin API; the bell's counter |
| Lists, dashboard, ranking, export (`feedback.go`) | none (aggregation) | queries | feedback |
| Presentation, deployment, design material | none of interest | | |

Hard behaviours: overlapping MongoDB transactions and the driver's silent
retries; checks made before a transaction and used in it; writes spanning
MongoDB and Keycloak with no common transaction; workers that crash, are shut
down or outlive their lease; provider answers that get lost; front-end
continuations that resume after the page has moved on. `PROJECT.json` lists them
as hazards, each at its line with the properties that cover it.

What makes each component correct:

* Submission: a feedback is flagged suspicious exactly when it repeats an
  earlier one inside ten minutes; no feedback on a dead token; the notification
  goes to the manager the staff member had while the feedback was under way.
* QR: a revoked token stays dead; the audit log explains every code.
* Outbox: one message per feedback; a bounded number of attempts; no message to
  someone long ineligible; every job settles.
* Coaching: a case keeps its origin; completion and its time agree; a closed
  case is not reopened (this one fails, section 5).
* Manager links: nobody stays linked to a manager who cannot read the
  notifications (fails for one interleaving, section 5), and every such link is
  explained by the logs; an account never loses its last role on the way.
* Customer page: the form sends the id its field holds and a consent given to
  the version it is recorded with; the customer is told what became of it, and a
  form is recorded twice only after being told that sending failed; no wait lasts
  for ever.
* Scanner: the camera is released whatever happens during its awaits, and a
  scan that was left behind captures nothing.
* Inbox: what was read is not shown unread again; the list answers the filter;
  the bell ends up right.
* Staff editor, QR codes, import: the managers offered are those of the cinema
  chosen; the code shown is that of the member selected (with the exceptions
  section 7 describes); the import reports what it inserted.

## 2. Modules

| Module | Models | Lines up with the code so |
|---|---|---|
| `FeedbackLedger` | abstract: what submission promises, one entry at a time, and the theorem about it | `Accept` = one accepted submission, `Issue`/`Revoke` = token changes |
| `FeedbackIntake` | submission, QR administration, notification queueing and master-data saves over transactions | `Submit` takes the snapshot, `Commit`, `Retry`, `Abandon` end it; `Open`, `CommitJob`, `RetryJob`, `AbandonJob` for `changeQR`/`disableQR`/`batchQR`; `SaveStaff`, `Detach`, `SaveCinema`, `SaveConfig` |
| `FeedbackIntakeProofs` | theorems about it | |
| `MailPromise` | abstract: what the outbox promises for each job, with no workers, leases or clocks | `Queue` = the job is inserted, `Try` = one request to the provider, `Settle` = a result is recorded |
| `EmailOutbox` | e-mail jobs and workers | `Queue` = the insert of `queueFeedbackNotification`, `Claim` = `ClaimEmail`, `Begin`, `LookupUser`, `LookupRoles`, `Send` = the parts of `DeliverOne` between its calls, the two look-ups being the two requests of `UserAdmin.Get`, `Finish` = `FinishEmail`, `Lose` = crash or shutdown |
| `EmailOutboxProofs` | theorems about it | |
| `CoachingCases` | `saveCoaching` | `Begin` reads the staff member, `Check` reads the case and prepares the document, `Create`/`Replace` are the transaction |
| `CoachingCasesProofs` | theorems about it | |
| `ManagerLinks` | `saveStaff`'s look-up and write against `saveUser`/`deleteUser` | one action per request to Keycloak or MongoDB: `ReadUser`, `ReadRoles`, `Write`; `Put`, `Grant`, `ListRoles`, `Remove`, `Delete`, `Detach`, `Record`, `Fail` |
| `ManagerLinksProofs` | theorems about it | |
| `TransactionScanner` | the ticket field: typing, scanning, help, page events | `scan(c)` is one call of `scan()`; `Granted`, `Prepare`, `Hit`, `Captured` are its continuations after the permission prompt, the video and the decoder import, a frame and the timer; `stop`, `manual`, `change`, `hide`, `leave`, `Destroy` keep their names |
| `CustomerFeedback` | the page around the field, in front of the ledger | `selectRating`, `toggleReason`, `submit`, `reloadForm`, `reset`; `Answered`, `GiveUp`, `Reloaded`, `ReloadFails` are the answers; `Handle`, `Lose`, `Administer` the server and the network |
| `CustomerFeedbackProofs` | theorems about both | |
| `AsyncPage` | the base class of the admin pages: `run()` with its serial | `Start`, `End` |
| `NotificationInbox` | inbox page, bell, and the endpoints they call | `load`, `pick`, `markRead`, `goToFeedback`, `markAllRead`, the poll and the counter; `...Served` is the server reading, `...Arrives`/`...Answered` the page resuming |
| `StaffEditor` | staff page and its manager look-up | `loadManagers`, `edit`, `chooseCinema`, `save` |
| `QRPanel` | QR page | `select`, `loadQR`, `generate`, `ask`, `confirm` |
| `StaffImport` | import dialog and `import.go` | `choose`, `preview`, `confirmImport`; `CheckRows`, `Insert` are the server's check and transaction |
| `AdminConsole` | the four pages and what they share | one page per behaviour, chosen by `route` |
| `NotificationInboxProofs` | the lemmas about the inbox | |
| `AdminConsoleProofs` | theorems about the console | |
| `MC*` | instances for TLC | |

`FeedbackIntake` implements `FeedbackLedger` under the mapping `ledger` =
committed feedback, `issued` = tokens made so far, `live` = the active token.
`EmailOutbox` implements `MailPromise`: `outcome` is the status of the job with
`pending` and `sending` both seen as open, `tries` the requests made, `mails`
the messages delivered. Its `Queue` is the insert of the job that
`FeedbackIntake` makes with the feedback (its `email`); the two are checked
apart because they share nothing else. `FeedbackIntake`
treats staff saves and detachments as arbitrary, which covers every behaviour
of `ManagerLinks`. `CustomerFeedback` stands in front of an INSTANCE of
`FeedbackLedger`: a request the server handles is one `Accept`, which the
refinement of `FeedbackIntake` justifies. The admin pages share `AsyncPage`'s
variables and nothing else, and only one is shown at a time.

Operators whose names end in a change (`WritesQROnly`, `FinishById`, ...)
and are introduced by "Mutant:" are not part of any specification. They are the
plausible mistakes against which the properties were tried: each property of a
passing run is violated when one of them takes the place of the real definition.

## 3. How the code is abstracted

**Transactions (`FeedbackIntake`).** MongoDB transactions run under snapshot
isolation: reads see the database as of the transaction's start and two
transactions that write the same document conflict. `missed[x]` is the set of
documents that others have committed to since x began. A commit is enabled only
while `missed[x]` is disjoint from the transaction's own writes; otherwise
`Retry` runs the callback again on a new snapshot, as `WithTransaction` does.
`Abandon` is every way out that writes nothing (404, 422, 503, a time limit, a
crash). A transaction that only replaces documents without reading them is one
step. The QR insert conflicts through the unique index on `staffId`.
Only documents that someone both reads and writes are tracked: the QR code and
the cinema. Staff, configuration and reasons are read by a submission and not
written, so a save of them during a submission is not noticed: write skew the
model keeps. `postings` is a history variable: the cinemas and managers a staff
member has had since the last feedback about the member was committed.

**Checks outside a transaction** (staff active before a QR change, cinema active
before a staff save) may have passed at any earlier time, so they guard nothing
at the write. They are left out where they guard nothing, and modelled as a step
of their own where their result is used (`saveCoaching`, `saveStaff`).

**Data.** A token is the pair of a staff member and a number. Rating, reasons
and consent version are one value, `terms`, compared with the configuration in
force. Transaction ids are compared after `NormalizeTransaction`, which makes the
pattern of the repeat query an equality. Time is a counter: a time stamp is
any value between the start of its callback and the commit, and all replicas
are assumed to share one clock. Names, comments, addresses and wording are left
out.

**Outbox.** Times are kept relative to now and saturate, so the model has no
bound on time. The lease id is the number of the attempt (both are fresh for
each claim). The provider is external: it delivers on a key it has not seen for
`KeyLife`, and may accept, refuse, or lose its answer. The account directory
(Keycloak) answers two requests: `LookupUser` reads the account (`profile`: enabled,
of the right cinema, addressable) and `LookupRoles` its roles (`role`), each may
fail, and an administrator changes either at any time, also between the two; only a
deletion is for good. `unfit` and `roleless` are history variables, the time since
each was last as it should be. Which due job is claimed
first is left open. A job is absent until it is queued, at any time, and its age
counts from then. Jobs share only the workers, and each job takes at most
`MaxAttempts` + faults of their turns (`RequestsBounded`), so the runs use one job;
with two jobs, one worker and no faults the safety run completes as well, and the
proofs hold for any number.

**Coaching.** Topic, action, note, follow-up date and `updatedAt` decide nothing
and are left out. A case can be saved by id only after it exists, since the id is
random. `Abandon` covers every refusal. `AloneSpec` is the specification
restricted to behaviours in which no two saves of one case are between their read
and their write at once; only one theorem speaks of it.

**Manager links.** Keycloak requests are atomic one by one. A failing request may
have taken effect (its answer lost): `Fail` may follow any step. Of the audit
log the last entry about each account is kept. `outdated` and `raced` are history
variables: a save whose manager has been changed since its look-up, and staff
whose present link such a save wrote. Deleted accounts are never reused (Keycloak
ids are random). Any number of account requests may be under way, about different
accounts: `ApartSpec` is the specification with that restriction (`Apart`). With two
administrators changing one account at once the roles can cross, which is listed
as a hazard and not claimed; nothing in the code prevents it.

**Front end in general.** A step is what JavaScript runs without interruption:
from an event, a timer or a settled promise to the next `await`. Between steps
anything may happen, and answers arrive in any order. Serials, generations and
revision numbers are only ever compared for equality with the newest one, so
the model keeps which run, scan or poll is the newest (`current`, `fresh`)
instead of a number. A run whose answer will be dropped has no further effect,
so what it carries is erased, and its slot is free for another run.

**Scanner.** A text is a pair of a format and an id: `parseTransaction` and
`validTransaction` are what they make of the four formats a customer may type or
scan. Zoom, torch, focus and messages are left out. At most as many scans as
`Scan` has members are under way at once.

**Customer page.** A request or an answer may be delayed or lost on its own; the
browser gives up a request that the server may still handle. `filling`, `posts` and
`told` are history variables: how many forms were begun, how many requests sent, and how
many times the customer was told that sending failed. The server is the
ledger, the configuration in force and the token's state, which administrators
change at any time. A reload fetches the token and the configuration at
different times.

**Inbox.** Notices are numbered by age; the server's list is the newest first, a
page at a time, all or the unread ones. Other tabs may mark notices read.
`goToFeedback`'s navigation, once its mark is answered, is a step of `Leave`. That
the request to mark was handled shows in the notice no longer being unread.

**Staff editor, QR codes, import.** Of a staff document its cinema and manager
are kept, of a QR code its status. An answer about a code is read on arrival. A
row of an import is its staff code: the other checks of a row do not change
between preview and confirmation in a way the model would tell apart.
`overlapped`, `unsettled` and `chosen` of `QRPanel` are history variables.

## 4. Runs that pass

| Run | Question | Instance and why it is enough |
|---|---|---|
| `intake_repeats` | Are flags right however submissions overlap? Does the intake implement the ledger, which accepts a staff member's feedback in the order of its times? | 2 customers, 2 staff with codes in 1 cinema, 2 phones, 1 transaction id, 2 feedbacks, clock to 2 with window 1: both dedupe paths, one across staff members, repeats inside and outside the window, conflicts and retries |
| `intake_revocation` | Can a feedback land on a dead token? Does the audit log explain codes? | 2 administrators with every QR operation on one code that does not exist yet, 1 customer, 3 audit entries: races of two inserts, of insert and replace, and revocation during a submission |
| `intake_notify` | Is the right manager told, though managers change and callbacks are run again? | 1 staff member, 2 managers, 2 cinemas, 2 terms, 2 customers, 1 save of any kind and any number of detachments between snapshot and commit: the second of two overlapping submissions conflicts and is run again after the change |
| `outbox_safety` | One message, bounded requests, newest attempt decides, recipient lately eligible; does the outbox implement `MailPromise`? | 1 job, 2 workers, 2 attempts, lease 2 > timeout 1, window 4, key life 6, 2 faults: expiry of lease, window and key all happen, and so do changes of the account and of its role between the two look-ups |
| `outbox_settles` | Does every job end? | the same with window 3, key life 5, 1 fault, under fairness and without symmetry |
| `coaching_overlap` | What survives overlapping saves? | 1 case, 2 staff, 2 cinemas, 2 concurrent saves (each replaying any number of times), clock to 1, 3 audit entries: create and two updates |
| `links_explained` | Is every stale link explained? Are account changes announced, complete and never roleless? | 1 staff member, 2 cinemas, 1 manager, 2 staff saves, 1 administrator under `ApartSpec`, failures anywhere; the state space is finite without further bounds. With 2 administrators on 2 managers and 1 staff save the same properties hold without failures; with failures 17 million states were searched without a violation |
| `customer_scanner` | Is the camera released? Does a scan that was left stay without effect? Does the form send what its field holds? | 2 scans at once, 2 ids in each format, help, hidden tabs, reloads, one submission: an old scan's continuations meet a new one |
| `customer_resend` | What becomes of lost answers and changed configurations? | 2 submissions, 2 configurations (the second with a new consent version, without a rating and its reason), window 0 and clock to 1 so that a repeat falls inside or outside the window; no scanner |
| `admin_console` | Do late answers do harm on the admin pages? Does the bell settle? Does an import report what it did? | 2 runs at once on every page; 2 notices at 1 per page, 1 of them new; 2 cinemas with a manager each; 2 members with codes; 3 files (two share a code, one is too big) and 2 imports; the largest run, some 925,000 states in three minutes |

Bounds: `MaxClock`, `MaxFeedback`, `MaxAudit` cap the counters of the intake and
of coaching; `MaxFaults` caps crashes and outlived leases of the outbox. They
appear as guards. With `MaxFeedback` 2 a third submission is never committed, but
each property speaks of pairs of feedbacks, and the proofs of section 6 hold for
any bound.

`MaxPosts`, `MaxClock` and `MaxCodes` (tokens regenerated) cap the customer
page, `MaxNotices` and `MaxImports` the console. Two runs are enough to overtake
each other; a third could only repeat what the two do, since all but the newest
are dropped alike, and the proofs hold for any set `Run` or `Scan`.

Symmetry is used over sets whose members no property distinguishes, and not in
the runs with liveness. No run needs `CHECK_DEADLOCK FALSE`.

**Fairness** (`EmailOutbox!FairSpec`): time passes; each worker's next step is
weakly fair. The loop `Run` polls every one to five seconds for as long as the
process lives, and each of its calls ends (40 s per attempt, 10 s per database
call, 15 s per HTTP request). A crash is followed by other replicas' loops, or
by the restarted one: the worker is then idle again. Crashes, and claims from
under a worker still at work, are bounded by `MaxFaults`; without a bound
workers each slower than the lease could take the job from each other for
ever, until the attempt limit ends it, which `RequestsBounded` covers.

`CustomerFeedback!Spec` assumes that the browser settles every request it has
sent, one way or the other (`Settle`, `Arrive`), and nothing of the server or the
customer: network errors and timeouts reject the promise. `AdminConsole!Spec`
assumes that the bell's timer fires as long as the tab is looked at and that its
request is answered or fails (`BellRings`); requests may fail as often as they
like, and `BellSettles` then promises nothing.

The properties, most telling first:

* `FlaggedExactly`, `ImplementsLedger`: snapshot isolation
  plus the two revision counters is as good as one submission at a time. Removing
  either counter's write breaks the flags, keeping the time of the first try the
  refinement.
* `LiveTokenOnly`: depends on the write of the QR document by submissions.
* `AuditReplays`: retried callbacks log what they did on the final try.
* `TellsManagerInForce`: the feedback is of the cinema, and is told to the manager,
  that one version of the staff document named, in force since the feedback before.
  A submission does not conflict with a save of its staff member, so the version may
  be one that was replaced during the try that commits, but not one that was replaced
  before: a callback that is run again has to read the staff member again.
* `OneMail`: needs `Window + Timeout < KeyLife` (12 h + 40 s against 24 h).
* `NewestAttemptDecides`: a slow worker's result is stored only under its lease.
* `KeepsPromise`: leases, retries and lost answers come out as `MailPromise`: one
  result per job and for good, `sent` only for a message that was delivered.
* `RequestsBounded`: attempts ended by a crash count, and a spent job is not
  handed out for ever.
* `RecentlyEligible`: account and roles are read again on every attempt, so each was as
  it should be within the last 40 seconds before a message goes out. It does not say
  that both were at one moment, which is not so (section 7).
* `Settles`: leases of crashed workers expire and are claimed, so a queued job
  leads to a settled one.
* `CompletionExplained`, `OriginKept`, `StoredInScope`,
  `AllowedUnlessOverlapped`: what a lost update on a case can not break.
* `LinksExplained`, `DoneMeansDone`, `ChangesAnnounced`, `NeverWithoutRole`,
  `OnlyStaleCleared`: the two systems without a common transaction.
* `CameraReleased`, `CaptureOnlyWhileScanning`: the generation is compared again
  after every await of `scan()`. Dropping its increment in `stop()` lets a
  granted prompt turn the camera on behind the customer's back.
* `TicketIsFieldValue`: a text that is no id clears the id the form sends, and a
  field that comes back starts from it.
* `RecordedAsTold`: thanks are said only for the request just sent, and only once it is
  recorded; of one form two requests are recorded only if the customer was told in
  between that sending failed. Without the guard on `submitting` a second click breaks it.
* `ConsentForVersion`, `ClientChecksSuffice`, `PageComesBack`:
  the form against lost answers and against a configuration that changes.
* `NeverUnreadAgain`, `DataAnswersQuery`, `BellSettles`: the inbox's three
  sources of data (loads, polls, marks) against each other and the bell.
* `ManagerFits`, `PanelExplained`: one answer overtaking another.
* `ImportExact`: preview, confirmation and server agree although codes are
  taken in between and a lost answer makes the administrator try again.

## 5. Runs that end in a violation

* `coaching_reopen` (`ClosedStaysClosed`): editor 1 reads an open case; editor 2
  completes it; editor 1 stores IN_PROGRESS. The check "Closed coaching cannot be
  reopened" (`management.go:281`) is made on a read outside the transaction whose
  write is unconditional. Conditioning the replacement on the status that was
  read, or reading inside the transaction, would close it:
  `ClosedUnlessOverlapped` (section 6) proves that nothing else reopens a case.
* `links_overtaken` (`LinksEligible`): a staff save verifies the manager; the
  account is deleted and the links to it cleared; the save stores the link.
  `docs/manager-feedback-notifications.md:3` says such links are cleared. Later
  edits of that staff member answer 422 until another manager is chosen, and
  notifications go to an inbox nobody opens. No failure is involved.
  `OvertakingAlone` (section 6) proves that without failures this race is the only
  source of such links.

## 6. Proofs

`FeedbackIntakeProofs` proves, for any sets and bounds that satisfy
`IntakeAssumption`:

* `TypeCorrect`, `FlagsExact`, `TimesOrdered`, `SnapshotsStand`,
  `AuditExplains`: `Spec => []P` for the invariants;
* `TokenLive`, `RightManagerTold`: `LiveTokenOnly` and `TellsManagerInForce`, action
  properties;
* `IntakeImplementsLedger`: the refinement;
* `CountedOncePerWindow`: what the ledger guarantees, carried over along it.

The invariants are not inductive: whether a commit flags its feedback rightly
depends on what its snapshot has missed. The strengthening `IInv` has two halves
beside `TypeOK`. `LedgerInv` adds `SnapshotsHold`: while nobody has written the
QR document (or cinema) an open submission will write, no feedback of that staff
member (or, with a transaction id, of that cinema) is hidden from it; and
`NoneFromTheFuture`: no committed time lies after the clock. A commit is
possible only with `missed` disjoint from its writes, so then the count over the
snapshot equals the count over the whole ledger. That gives `FlaggedExactly`,
`TimesInCommitOrder` (which the runs check as part of `ImplementsLedger`) and the
`Accept` step of the refinement. `CodesInv` adds
`TokensNumbered` (token numbers and statuses agree) and `JobsHold` (what an open
administration request has read is still so unless it is bound to conflict),
from which `AuditReplays` follows. `RightManagerTold` has an invariant of its own:
what an open submission that no longer conflicts has read of its staff member is
among the `postings` of that member, because the only step that empties them, a commit
about the same member, writes the QR document and so makes the submission conflict.

`FeedbackLedger` itself has the theorem `LedgerCounts`: of the feedback shown by
default (not flagged), none repeats another inside the window, and the codes of a
staff member are used in the order they were issued. `FeedbackIntakeProofs` cites it
through the refinement (`CountedOncePerWindow`), so it need not be proved again over
transactions.

`EmailOutboxProofs` proves `TypeCorrect`, `AtMostOneMail`, `RequestsLimited`,
`NewestDecides`, `SentToEligible`, `OutboxKeepsPromise` and `SentIsDelivered` for any number of jobs and workers, from `OutboxAssumption` (its
essential part: `Window + Timeout < KeyLife`) and `BackoffAssumption` (powers of
two are positive numbers, which TLC evaluates). `AtMostOneMail` rests on an
invariant that ties the life of the key to the age of the job: once a message
was sent, what is left of the key's life and the age of the job add up to
`KeyLife` at least, and an attempt that may still send works on a job no older
than `Window + Timeout`, so the key it meets is alive. `RequestsLimited` counts a job's requests
together with the attempts that still may send one (`BudgetInv`): their sum
never exceeds the attempts made, nor the limit, since an attempt beyond it never
comes to send (`LimitInv`). Its second half, the bound on claims, needs more: a verdict
to try again is reached only below the limit (`PendingInv`), so an open job that nobody
is at work on has been claimed less often than the limit and the faults allow
(`ClaimsInv`), and a claim from under a worker is itself a fault. `NewestDecides` ties a worker's verdict to the job's
lease and attempt number. `SentToEligible` rests on `FitInv`: the attempt that is
about to read the roles found the account fit, and the one about to send found the role
held as well, so neither has been otherwise for longer than the attempt has lasted. Jobs may still be to be queued: `AbsentInv` says that
before, none has had an attempt or a message.

`OutboxKeepsPromise` is the refinement: `Queue`, `Send` with a request and `Finish`
under the worker's own lease are the three actions of `MailPromise`, every other step
a stutter. The step of `Send` needs `BudgetInv` for the guard of `Try` and the key's
life for "not again"; that of `Finish` needs that a verdict "sent" under the lease was
accepted, and that what the provider accepted was delivered (`DeliveredInv`).
`SentIsDelivered` follows from it by an invariant of `MailPromise` alone.

`CoachingCasesProofs` proves the five properties of `CoachingCases` that hold
(`TypeCorrect`, `CompletionHolds`, `OriginStays`, `StaysInScope`,
`OverlapAlone`) for any sets of cases, staff, cinemas and editors. Its `IInv`
follows a save from its first read to its write. `CaseInv` says that a stored
case is sound: its completion time goes with its status, does not precede its
creation, and is in the log. `RequestInv` says that a request began in scope and
not after now, and not before the case it names was created; `WorkInv` that a
prepared document keeps the origin of the case *as stored now*, is sound itself,
and changes the status it was read with in an allowed way. The last half of
`WorkInv` cannot be said of the case as stored now, which is why a closed case
can come back. Under `AloneSpec` it can: what a save has read of its case is then
still so when it writes (`ReadStands`), and `ClosedUnlessOverlapped` proves
`ClosedStaysClosed`.

`ManagerLinksProofs` proves `TypeCorrect` for any requests whatever and, under
`ApartSpec` (requests under way at once are about different accounts),
`StaleLinksExplained`, `DoneIsDone`, `ChangesLogged`, `RoleKept` and
`EligibleLinksStay`, for any number of administrators, staff saves, accounts,
failures and crashes. `RoleInv` is needed for types: what `Grant` adds is a role because only
a deletion asks for none. `SaveInv`: what a save found out about its manager
holds until an account change overtakes it. `ChangeInv`: a change under way is
announced and has brought the account as far as `Progress` says; it is false as
soon as two requests change one account, hence `Apart`. `RecordInv`: once
links have been cleared, a stale one is explained without the announcement,
which `Record` is about to withdraw. Without failures (`~Faulty`), a stale link that no
overtaken save wrote is one that a request under way is about to clear
(`PendingInv`), from which `OvertakingAlone` follows: at rest the only stale links are
those of the race of `links_overtaken`.

`CustomerFeedbackProofs` proves `PageTypeCorrect`, `CameraIsReleased`,
`TicketFollowsField`, `CaptureIsSeen`, `ChecksSuffice`, `ConsentFits`,
and `CustomerIsTold` for any sets of scans, ids and configurations. `PageInv` has
three parts. `FieldInv`: a scan that is not the newest is over or waits for
something after which it will find itself replaced (`ScanInv`). `FormInv`: what
is filled in fits the configuration it was loaded with (`FormFits`), and no form
is shown without one. `ServerInv`: what is on the wire carries a consent for its
version. `CustomerIsTold` adds `ToldInv`, which says of every request ever sent, be it on
the wire or recorded, that unless its form was reset or its answer is awaited the customer
has been told of a failure since (`SentInv`), so that two requests of one form have such
a message between them (`ToldBetween`); and that a page that thanks, or is about to, has
its last request in the ledger (`Kept`).

`NotificationInboxProofs` and `AdminConsoleProofs` prove `ConsoleTypeCorrect`,
`ReadStaysRead`, `ListFitsQuery`, `ManagersFitCinema`, `PanelIsExplained` and
`ImportReportsExactly` for any numbers of runs, notices, staff, cinemas, files
and imports. The invariant of the inbox says of every list in sight or in
flight what may still be shown of it: an answer that was read before a mark and
would be stored after it must be stale (`ReadHolds`, `LoadsFit`, `PollFits`), and
a current load asks for the query that is selected (`AskedFits`). `QRInv` follows
a change from the click to the reload of the panel (`LoadsSelected`,
`ChangesSelected`): its subject is the selection unless `overlapped` or
`unsettled` is recorded. `ImportInv` says that the rows inserted under an import
are those of its check (`RowsInserted`) and that an answer reports a finished
import (`ReportsDone`). `ConsoleInv` asks this of the page that is looked at,
and of the others that they are as they began.

Only model-checked, because liveness is out of the prover's reach: `Settles`,
`PageComesBack` and `BellSettles`.

## 7. Not modelled, and why

* **Rate limiter** (`repository/mongo.go`): one atomic increment of one document
  per request and nothing read again; a model would restate it. A refusal is one
  of the answers `CustomerFeedback` allows for. It counts calendar minutes, so
  twice the limit may pass around a minute's boundary.
* **Seed and start-up**: each document is looked up by a fixed id, inserted if
  missing, and a duplicate counts as success, so starts commute whole or broken
  off.
* **Authentication**: token verification is the OIDC library's, and the login
  in the browser is the identity provider's redirect. Scopes enter
  `CoachingCases` as a parameter.
* **Lists, dashboard, ranking, export**: aggregations over committed feedback
  without state. Their arithmetic is left to unit tests.
* **The other admin pages** (users, coaching, configuration, cinemas, audit):
  an editor over a list with one request at a time under `AsyncPage.run`, which
  the modelled pages exercise harder.
* **Validation**: string checks of one argument. What the form and the server
  both check of ratings and reasons is in `CustomerFeedback`.
* **Presentation, i18n, the 3D landing page, QR rendering, deployment files and
  design hand-offs** hold no logic of this kind. Half of the repository's
  JavaScript is support code of the hand-offs, repeated in each of them, and most
  of the rest is markup, wording and styling of pages, so the definitions of this
  project stand for a small share of the lines of the repository; the logic
  they stand for is mostly the Go server's and the TypeScript files named in
  section 1.

Looser than the code, without effect on what is claimed: `CheckRows` of `StaffImport`
reads the codes of all rows at once where `import.go` counts them row by row, which
the insert makes up for, since it takes all rows or none; a staff code that is taken stays
taken, though renaming a staff member sets the former code free; `QRListArrives` takes
the member that was asked for to be in the list.

Observations that no document or test contradicts, and no property therefore
claims otherwise:

* E-mail worker: `UserAdmin.Get` reads the account (`auth/users.go:183`) and its roles
  (`:187`) by two requests. If the account is read while in the cinema of the
  notification but without the role, and is then moved to another cinema and made a
  manager, the roles read next complete the picture of a manager who never was in
  charge, and the message goes out. `RecentlyEligible` allows this and bounds
  how old either half may be.
* QR page: select A, then B; if the answer for A comes last, the panel shows A's
  code under B's name. `PanelExplained` has the exception (`overlapped`).
  While `generate` of A is under way, a dialog opened for B can be confirmed
  after the answer has moved the selection back to A (`unsettled`). An image's
  object URL is not released when a later answer replaces it.
* Staff, user and audit lists are stored without asking whether their run is
  current (`staff.ts:268`): the answer to an earlier search may replace that
  of a later one. Exporting the feedback list clears the error of a load that failed.
* Inbox: marking the only notice of the last unread page leaves an empty page
  that says "all caught up". The counter drops a refresh that is asked for while
  one is pending, so the bell may be late by one interval (`BellSettles` says not
  for ever).
* Ticket field: typing an id, choosing to scan, and opening the help keeps the
  typed id in the form, although it is not in view. `pagehide` stops the camera
  but leaves the mode at scanning, so a page restored from the browser's cache
  shows a viewfinder without a picture.
* `saveUser` by two administrators at once on one account can leave it without
  a role; two system administrators can demote each other (section 3, hazards).
