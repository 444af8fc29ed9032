----------------------------- MODULE EmailOutbox ------------------------------
(***************************************************************************)
(* The e-mail outbox: jobs in notification_emails, the lease queue over    *)
(* them (backend/internal/repository/notification.go) and the worker loop  *)
(* of every API replica (backend/internal/notification/email.go).          *)
(*                                                                         *)
(* Time is kept relative and in ticks: age is how long ago the feedback    *)
(* was created, due how far nextAttemptAt lies ahead, elapsed how long ago *)
(* an attempt took its "now".  Each saturates where nothing can tell the   *)
(* difference any more, so time itself has no bound.  A lease is a random  *)
(* id; the number of the attempt it was made for names it as well.         *)
(*                                                                         *)
(* The e-mail provider is external: it delivers a message for an           *)
(* idempotency key it has not seen for KeyLife, and otherwise answers as   *)
(* before.  So is the account directory.                                   *)
(***************************************************************************)
EXTENDS Integers

CONSTANTS
  Job,           \* queued e-mail jobs
  NoJob,
  Worker,        \* worker loops, one per API replica
  MaxAttempts,   \* 8
  Lease,         \* 2 minutes
  Timeout,       \* 40 seconds, the limit of one attempt
  Window,        \* 12 hours, the retry window
  BackoffCap,    \* 7: the longest delay between attempts is 2^7 minutes
  KeyLife,       \* 24 hours, the life of an idempotency key
  MaxFaults      \* crashes, lost updates and outlived leases, all together

VARIABLES
  status, attempts, lease, due,   \* the job documents; "absent" before they are queued
  age,          \* time since the feedback of a queued job
  run,          \* run[w]: the attempt worker w is making
  profile,      \* the recipient's account in the directory, its role aside:
                \* "fit" if enabled, in the cinema of the notification, and addressable
  role,         \* whether it has the role CINEMA_MANAGER
  unfit,        \* time since the profile was last fit
  roleless,     \* time since the role was last held
  requests,     \* requests made to the provider
  accepted,     \* attempts that saw the provider accept
  key,          \* remaining life of the job's idempotency key
  mails,        \* messages delivered
  faults

job == <<status, attempts, lease, due>>
directory == <<profile, role, unfit, roleless>>
provider == <<requests, accepted, key, mails>>
vars == <<job, age, run, directory, provider, faults>>

Open == {"pending", "sending"}
Terminal == {"sent", "failed", "cancelled"}
Profile == {"fit", "unfit", "unaddressable", "missing"}

Run == [phase : {"idle", "claimed", "lookup", "roles", "send", "decided"},
        job : Job \cup {NoJob}, attempt : Nat, elapsed : Nat,
        verdict : Open \cup Terminal]

Least(a, b) == IF a <= b THEN a ELSE b
Greatest(a, b) == IF a <= b THEN b ELSE a

ASSUME OutboxAssumption ==
  /\ NoJob \notin Job
  /\ MaxAttempts \in Nat \ {0} /\ BackoffCap \in Nat
  /\ Lease \in Nat \ {0} /\ Timeout \in Nat /\ Window \in Nat /\ KeyLife \in Nat
  /\ MaxFaults \in Nat
  /\ Window + Timeout < KeyLife

ASSUME BackoffAssumption == \A n \in 0..BackoffCap : 2^n \in Nat \ {0}

Backoff(n) == 2^Least(n, BackoffCap)

\* Beyond this an attempt's age changes nothing: it has timed out and its delay is over.
Patience == Timeout + Backoff(BackoffCap)

-------------------------------------------------------------------------------
Idle == [phase |-> "idle", job |-> NoJob, attempt |-> 0, elapsed |-> 0,
         verdict |-> "pending"]

Active(w) == run[w].phase \in {"lookup", "roles", "send", "decided"}

Goto(w, phase, verdict) ==
  run' = [run EXCEPT ![w] = [phase |-> phase, job |-> run[w].job,
                             attempt |-> run[w].attempt, elapsed |-> run[w].elapsed,
                             verdict |-> verdict]]

Decide(w, verdict) == Goto(w, "decided", verdict)

(* An error that may pass: tried again later, unless this was the last try.  *)
TryLater(w) ==
  Decide(w, IF run[w].attempt >= MaxAttempts THEN "failed" ELSE "pending")

\* Mutant: a job left behind by a crashed worker is not taken up.
DuePendingOnly == {j \in Job : status[j] = "pending" /\ due[j] = 0}

(* A job whose worker has outlived its lease is due like a pending one.      *)
Due == {j \in Job : status[j] \in Open /\ due[j] = 0}

(* Someone is still at work under the lease of j. *)
Held(j) ==
  \E w \in Worker :
    run[w].phase # "idle" /\ run[w].job = j /\ run[w].attempt = lease[j]

\* Mutant: the leased document is not decoded into the job the worker goes on with.
ClaimUndecoded(w, j) ==
  /\ run[w].phase = "idle"
  /\ j \in Due
  /\ faults' = faults
  /\ status' = [status EXCEPT ![j] = "sending"]
  /\ attempts' = [attempts EXCEPT ![j] = attempts[j] + 1]
  /\ lease' = [lease EXCEPT ![j] = attempts[j] + 1]
  /\ due' = [due EXCEPT ![j] = Lease]
  /\ run' = [run EXCEPT ![w] = [phase |-> "claimed", job |-> NoJob, attempt |-> 0,
                                elapsed |-> 0, verdict |-> "pending"]]
  /\ UNCHANGED <<age, directory, provider>>

(* ClaimEmail: one find-and-update leases a due job.  (The code takes the one *)
(* that has been due longest; here it may be any.)  A claim from under a     *)
(* worker still at work counts as that worker's fault.                       *)
Claim(w, j) ==
  /\ run[w].phase = "idle"
  /\ j \in Due
  /\ IF Held(j) THEN faults < MaxFaults /\ faults' = faults + 1 ELSE faults' = faults
  /\ status' = [status EXCEPT ![j] = "sending"]
  /\ attempts' = [attempts EXCEPT ![j] = attempts[j] + 1]
  /\ lease' = [lease EXCEPT ![j] = attempts[j] + 1]
  /\ due' = [due EXCEPT ![j] = Lease]
  /\ run' = [run EXCEPT ![w] = [phase |-> "claimed", job |-> j, attempt |-> attempts[j] + 1,
                                elapsed |-> 0, verdict |-> "pending"]]
  /\ UNCHANGED <<age, directory, provider>>

\* Mutant: no limit on the age of a job.
BeginAtAnyAge(w) ==
  /\ run[w].phase = "claimed"
  /\ IF run[w].attempt > MaxAttempts
     THEN Decide(w, "failed") ELSE Goto(w, "lookup", "pending")
  /\ UNCHANGED <<job, age, directory, provider, faults>>

\* Mutant: no limit on the attempts that a crash left without a result.
BeginAnyAttempt(w) ==
  /\ run[w].phase = "claimed"
  /\ IF age[run[w].job] > Window
     THEN Decide(w, "failed") ELSE Goto(w, "lookup", "pending")
  /\ UNCHANGED <<job, age, directory, provider, faults>>

(* The claimed job has reached the worker: a spent job fails at once.        *)
Begin(w) ==
  /\ run[w].phase = "claimed"
  /\ IF run[w].attempt > MaxAttempts \/ age[run[w].job] > Window
     THEN Decide(w, "failed") ELSE Goto(w, "lookup", "pending")
  /\ UNCHANGED <<job, age, directory, provider, faults>>

(* What the account found says of the attempt while its roles are unknown. *)
Finding(p) ==
  CASE p = "fit"           -> "pending"
    [] p = "unfit"         -> "cancelled"   \* disabled, or in another cinema
    [] p = "unaddressable" -> "failed"

(* The recipient is read again before every attempt, by two requests to the  *)
(* directory with room for an administrator between them.  This is the       *)
(* first, for the account; the directory may fail to answer.                 *)
LookupUser(w) ==
  LET p == profile[run[w].job]
  IN  /\ run[w].phase = "lookup"
      /\ \/ /\ run[w].elapsed <= Timeout
            /\ IF p = "missing" THEN Decide(w, "cancelled") ELSE Goto(w, "roles", Finding(p))
         \/ TryLater(w)
      /\ UNCHANGED <<job, age, directory, provider, faults>>

\* Mutant: the roles are read but not asked for the manager's.
LookupAnyRole(w) ==
  /\ run[w].phase = "roles"
  /\ \/ /\ run[w].elapsed <= Timeout
        /\ \/ run[w].verdict = "pending" /\ Goto(w, "send", "pending")
           \/ run[w].verdict # "pending" /\ Decide(w, run[w].verdict)
     \/ TryLater(w)
  /\ UNCHANGED <<job, age, directory, provider, faults>>

(* The second request, for the roles: an account deleted since has none.     *)
LookupRoles(w) ==
  /\ run[w].phase = "roles"
  /\ \/ /\ run[w].elapsed <= Timeout
        /\ \/ ~role[run[w].job] /\ Decide(w, "cancelled")
           \/ role[run[w].job] /\ run[w].verdict = "pending" /\ Goto(w, "send", "pending")
           \/ role[run[w].job] /\ run[w].verdict # "pending" /\ Decide(w, run[w].verdict)
     \/ TryLater(w)
  /\ UNCHANGED <<job, age, directory, provider, faults>>

(* The provider takes the request: a new key delivers a message.             *)
Accept(j) ==
  /\ mails' = [mails EXCEPT ![j] = IF key[j] = 0 THEN mails[j] + 1 ELSE mails[j]]
  /\ key' = [key EXCEPT ![j] = IF key[j] = 0 THEN KeyLife ELSE key[j]]

Send(w) ==
  LET j == run[w].job
  IN  /\ run[w].phase = "send"
      /\ \/ /\ run[w].elapsed <= Timeout
            /\ requests' = [requests EXCEPT ![j] = requests[j] + 1]
            /\ \/ /\ Accept(j)
                  /\ accepted' = [accepted EXCEPT ![j] = accepted[j] \cup {run[w].attempt}]
                  /\ Decide(w, "sent")
               \/ /\ Accept(j)          \* the answer is lost
                  /\ TryLater(w)
                  /\ UNCHANGED accepted
               \/ /\ Decide(w, "failed") \* 4xx other than 429
                  /\ UNCHANGED <<accepted, key, mails>>
               \/ /\ TryLater(w)         \* 429, 5xx, not reached
                  /\ UNCHANGED <<accepted, key, mails>>
         \/ TryLater(w) /\ UNCHANGED provider
      /\ UNCHANGED <<job, age, directory, faults>>

\* Mutant: the result is stored by the id of the job alone.
FinishById(w) ==
  LET j == run[w].job
  IN  /\ run[w].phase = "decided"
      /\ status' = [status EXCEPT ![j] = run[w].verdict]
      /\ lease' = [lease EXCEPT ![j] = 0]
      /\ due' = [due EXCEPT ![j] =
           Greatest((IF run[w].verdict = "pending" THEN Backoff(run[w].attempt) ELSE 0)
                      - run[w].elapsed, 0)]
      /\ run' = [run EXCEPT ![w] = Idle]
      /\ UNCHANGED <<attempts, age, directory, provider, faults>>

(* FinishEmail: the result is stored only while the lease is still the       *)
(* worker's own.  The next attempt is counted from the "now" of this one.    *)
Finish(w) ==
  LET j == run[w].job
  IN  /\ run[w].phase = "decided"
      /\ IF status[j] = "sending" /\ lease[j] = run[w].attempt
         THEN /\ status' = [status EXCEPT ![j] = run[w].verdict]
              /\ lease' = [lease EXCEPT ![j] = 0]
              /\ due' = [due EXCEPT ![j] =
                   Greatest((IF run[w].verdict = "pending" THEN Backoff(run[w].attempt) ELSE 0)
                              - run[w].elapsed, 0)]
         ELSE UNCHANGED <<status, lease, due>>
      /\ run' = [run EXCEPT ![w] = Idle]
      /\ UNCHANGED <<attempts, age, directory, provider, faults>>

(* The process crashes or shuts down, or an operation on the queue fails:    *)
(* the job stays as it is until its lease runs out.                          *)
Lose(w) ==
  /\ run[w].phase # "idle"
  /\ faults < MaxFaults /\ faults' = faults + 1
  /\ run' = [run EXCEPT ![w] = Idle]
  /\ UNCHANGED <<job, age, directory, provider>>

-------------------------------------------------------------------------------
(* A feedback is committed with its notification and this job, due at once.  *)
Queue(j) ==
  /\ status[j] = "absent"
  /\ status' = [status EXCEPT ![j] = "pending"]
  /\ UNCHANGED <<attempts, lease, due, age, run, directory, provider, faults>>

(* An administrator changes the account or its role, each by a request of    *)
(* its own, or deletes it for good.                                          *)
ChangeProfile(j, p) ==
  /\ profile[j] # "missing" /\ p # "missing"
  /\ profile' = [profile EXCEPT ![j] = p]
  /\ unfit' = [unfit EXCEPT ![j] = IF p = "fit" THEN 0 ELSE unfit[j]]
  /\ UNCHANGED <<job, age, run, role, roleless, provider, faults>>

ChangeRole(j, held) ==
  /\ profile[j] # "missing"
  /\ role' = [role EXCEPT ![j] = held]
  /\ roleless' = [roleless EXCEPT ![j] = IF held THEN 0 ELSE roleless[j]]
  /\ UNCHANGED <<job, age, run, profile, unfit, provider, faults>>

DeleteAccount(j) ==
  /\ profile' = [profile EXCEPT ![j] = "missing"]
  /\ role' = [role EXCEPT ![j] = FALSE]
  /\ UNCHANGED <<job, age, run, unfit, roleless, provider, faults>>

Tick ==
  /\ age' = [j \in Job |-> IF status[j] = "absent" THEN 0 ELSE Least(age[j] + 1, KeyLife)]
  /\ due' = [j \in Job |-> Greatest(due[j] - 1, 0)]
  /\ key' = [j \in Job |-> Greatest(key[j] - 1, 0)]
  /\ unfit' = [j \in Job |-> IF profile[j] = "fit" THEN 0 ELSE Least(unfit[j] + 1, Timeout + 1)]
  /\ roleless' = [j \in Job |-> IF role[j] THEN 0 ELSE Least(roleless[j] + 1, Timeout + 1)]
  /\ run' = [w \in Worker |->
               IF Active(w)
               THEN [phase |-> run[w].phase, job |-> run[w].job, attempt |-> run[w].attempt,
                     elapsed |-> Least(run[w].elapsed + 1, Patience),
                     verdict |-> run[w].verdict]
               ELSE run[w]]
  /\ UNCHANGED <<status, attempts, lease, profile, role, requests, accepted, mails, faults>>

Init ==
  /\ status = [j \in Job |-> "absent"]
  /\ attempts = [j \in Job |-> 0]
  /\ lease = [j \in Job |-> 0]
  /\ due = [j \in Job |-> 0]
  /\ age = [j \in Job |-> 0]
  /\ run = [w \in Worker |-> Idle]
  /\ profile = [j \in Job |-> "fit"]
  /\ role = [j \in Job |-> TRUE]
  /\ unfit = [j \in Job |-> 0]
  /\ roleless = [j \in Job |-> 0]
  /\ requests = [j \in Job |-> 0]
  /\ accepted = [j \in Job |-> {}]
  /\ key = [j \in Job |-> 0]
  /\ mails = [j \in Job |-> 0]
  /\ faults = 0

WorkerStep(w) ==
  \/ \E j \in Job : Claim(w, j)
  \/ Begin(w) \/ LookupUser(w) \/ LookupRoles(w) \/ Send(w) \/ Finish(w)

Next ==
  \/ \E w \in Worker : WorkerStep(w) \/ Lose(w)
  \/ \E j \in Job : Queue(j) \/ DeleteAccount(j)
  \/ \E j \in Job, p \in Profile : ChangeProfile(j, p)
  \/ \E j \in Job, held \in BOOLEAN : ChangeRole(j, held)
  \/ Tick

Spec == Init /\ [][Next]_vars

(* The loop of a live replica polls for ever and each of its calls ends.     *)
Fairness == WF_vars(Tick) /\ \A w \in Worker : WF_vars(WorkerStep(w))

FairSpec == Spec /\ Fairness

-------------------------------------------------------------------------------
TypeOK ==
  /\ status \in [Job -> {"absent"} \cup Open \cup Terminal]
  /\ attempts \in [Job -> Nat]
  /\ lease \in [Job -> Nat]
  /\ due \in [Job -> Nat]
  /\ age \in [Job -> Nat]
  /\ run \in [Worker -> Run]
  /\ \A w \in Worker : run[w].phase # "idle" => run[w].job \in Job
  /\ profile \in [Job -> Profile]
  /\ role \in [Job -> BOOLEAN]
  /\ unfit \in [Job -> Nat]
  /\ roleless \in [Job -> Nat]
  /\ requests \in [Job -> Nat]
  /\ accepted \in [Job -> SUBSET Nat]
  /\ key \in [Job -> Nat]
  /\ mails \in [Job -> Nat]
  /\ faults \in Nat

(* Whatever is retried after crashes and lost answers, and however late, the *)
(* recipient gets one message per feedback: every request falls into the     *)
(* life of the key of the first one.                                         *)
OneMail == \A j \in Job : mails[j] <= 1

(* No more than MaxAttempts requests, crashes and outlived leases included,  *)
(* and a spent job leaves the queue: it is handed out once per attempt and   *)
(* once more for each crash or outlived lease, not for ever.                 *)
RequestsBounded ==
  \A j \in Job : requests[j] <= MaxAttempts /\ attempts[j] <= MaxAttempts + faults

(* The result of a job is the one of its newest attempt: it is recorded sent *)
(* only if that attempt has seen the provider accept, and once it has, no    *)
(* slower worker can record anything else.                                   *)
NewestAttemptDecides ==
  \A j \in Job :
    /\ attempts[j] \in accepted[j] => status[j] \in {"sending", "sent"}
    /\ status[j] = "sent" => attempts[j] \in accepted[j]

(* A message goes out only to an account that was fit, and had the role, a   *)
(* moment (the limit of an attempt) before: a manager disabled, moved,       *)
(* demoted or deleted earlier gets none.  The two moments need not be one:   *)
(* an account can change between the two reads.                              *)
RecentlyEligible ==
  [][\A j \in Job : mails'[j] > mails[j] => unfit[j] <= Timeout /\ roleless[j] <= Timeout]_mails

(* The abstract view of a job: not queued, still open, or its result. *)
Promise ==
  INSTANCE MailPromise WITH
    outcome <- [j \in Job |-> IF status[j] \in Open THEN "open" ELSE status[j]],
    tries <- requests

(* Leases, retries, crashes and lost answers come out as MailPromise: no     *)
(* result is overwritten, no message is delivered outside a counted request  *)
(* or twice, and nothing is recorded sent that was not delivered.            *)
KeepsPromise == Promise!Spec

(* Every queued job is settled in the end: sent, failed or cancelled. *)
Settles == \A j \in Job : (status[j] = "pending") ~> (status[j] \in Terminal)
===============================================================================
