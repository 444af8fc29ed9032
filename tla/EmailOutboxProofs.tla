-------------------------- MODULE EmailOutboxProofs ---------------------------
(* Theorems about EmailOutbox, for any number of jobs and workers and any    *)
(* limits with Window + Timeout < KeyLife.                                   *)
EXTENDS EmailOutbox, FiniteSetTheorems, TLAPS

USE OutboxAssumption

LEMMA BackoffTyping == \A n \in Nat : Backoff(n) \in Nat \ {0}
  BY BackoffAssumption DEF Backoff, Least

LEMMA PatienceOutlasts == Patience \in Nat /\ Patience > Timeout
  BY BackoffTyping DEF Patience

-------------------------------------------------------------------------------
(* Type correctness. *)
LEMMA RunTyping ==
  ASSUME TypeOK, NEW w \in Worker
  PROVE  run[w] \in Run /\ (run[w].phase # "idle" => run[w].job \in Job)
  BY DEF TypeOK

LEMMA GotoTyping ==
  ASSUME TypeOK, NEW w \in Worker, run[w].phase # "idle",
         NEW p \in {"claimed", "lookup", "roles", "send", "decided"},
         NEW v \in Open \cup Terminal, Goto(w, p, v)
  PROVE  /\ run' \in [Worker -> Run]
         /\ \A x \in Worker : run'[x].phase # "idle" => run'[x].job \in Job
  <1>1. run[w] \in Run /\ run[w].job \in Job
    BY RunTyping
  <1>2. [phase |-> p, job |-> run[w].job, attempt |-> run[w].attempt,
         elapsed |-> run[w].elapsed, verdict |-> v] \in Run
    BY <1>1 DEF Run
  <1>3. QED
    BY <1>1, <1>2 DEF TypeOK, Goto

LEMMA IdleTyping ==
  ASSUME TypeOK, NEW w \in Worker, run' = [run EXCEPT ![w] = Idle]
  PROVE  /\ run' \in [Worker -> Run]
         /\ \A x \in Worker : run'[x].phase # "idle" => run'[x].job \in Job
  <1>1. Idle \in Run /\ Idle.phase = "idle"
    BY DEF Idle, Run, Open
  <1>2. QED
    BY <1>1 DEF TypeOK

(* Begin, the two reads and Send move on to another phase and touch no document. *)
LEMMA DecideTyping ==
  ASSUME TypeOK, NEW w \in Worker, run[w].phase # "idle",
         \/ \E v \in {"sent", "failed", "cancelled"} : Decide(w, v)
         \/ TryLater(w)
         \/ \E p \in {"lookup", "send"} : Goto(w, p, "pending")
         \/ \E v \in Open \cup Terminal : Goto(w, "roles", v)
  PROVE  /\ run' \in [Worker -> Run]
         /\ \A x \in Worker : run'[x].phase # "idle" => run'[x].job \in Job
  BY GotoTyping DEF Decide, TryLater, Open, Terminal

LEMMA ClaimTyping ==
  ASSUME TypeOK, NEW w \in Worker, NEW j \in Job, Claim(w, j)
  PROVE  TypeOK'
  <1>1. [phase |-> "claimed", job |-> j, attempt |-> attempts[j] + 1,
         elapsed |-> 0, verdict |-> "pending"] \in Run
    BY DEF TypeOK, Run, Open
  <1>2. run' \in [Worker -> Run] /\ \A x \in Worker : run'[x].phase # "idle" => run'[x].job \in Job
    BY <1>1 DEF Claim, TypeOK
  <1>3. attempts' \in [Job -> Nat] /\ lease' \in [Job -> Nat] /\ due' \in [Job -> Nat]
    BY DEF Claim, TypeOK
  <1>4. status' \in [Job -> {"absent"} \cup Open \cup Terminal] /\ faults' \in Nat
    BY DEF Claim, TypeOK, Open
  <1>5. QED
    BY <1>2, <1>3, <1>4 DEF Claim, TypeOK, directory, provider

LEMMA SendTyping ==
  ASSUME TypeOK, NEW w \in Worker, Send(w)
  PROVE  TypeOK'
  <1>1. run[w].phase # "idle" /\ run[w] \in Run /\ run[w].job \in Job
    BY RunTyping DEF Send
  <1>2. run' \in [Worker -> Run] /\ \A x \in Worker : run'[x].phase # "idle" => run'[x].job \in Job
    BY <1>1, DecideTyping DEF Send
  <1>3. requests' \in [Job -> Nat]
    BY <1>1 DEF Send, TypeOK, provider
  <1>4. accepted' \in [Job -> SUBSET Nat]
    BY <1>1 DEF Send, TypeOK, provider, Run
  <1>5. key' \in [Job -> Nat] /\ mails' \in [Job -> Nat]
    BY <1>1 DEF Send, Accept, TypeOK, provider
  <1>6. QED
    BY <1>2, <1>3, <1>4, <1>5 DEF Send, TypeOK, directory, job

LEMMA FinishTyping ==
  ASSUME TypeOK, NEW w \in Worker, Finish(w)
  PROVE  TypeOK'
  <1>1. run[w] \in Run /\ run[w].job \in Job
    BY RunTyping DEF Finish
  <1>2. run' \in [Worker -> Run] /\ \A x \in Worker : run'[x].phase # "idle" => run'[x].job \in Job
    BY IdleTyping DEF Finish
  <1>3. Greatest((IF run[w].verdict = "pending" THEN Backoff(run[w].attempt) ELSE 0)
                   - run[w].elapsed, 0) \in Nat
    BY <1>1, BackoffTyping DEF Greatest, Run
  <1>4. status' \in [Job -> {"absent"} \cup Open \cup Terminal]
    <2>1. run[w].verdict \in {"absent"} \cup Open \cup Terminal
      BY <1>1 DEF Run
    <2>2. QED
      BY <2>1 DEF Finish, TypeOK
  <1>5. lease' \in [Job -> Nat] /\ due' \in [Job -> Nat]
    BY <1>1, <1>3 DEF Finish, TypeOK
  <1>6. QED
    BY <1>2, <1>4, <1>5 DEF Finish, TypeOK, directory, provider

LEMMA TickTyping ==
  ASSUME TypeOK, Tick
  PROVE  TypeOK'
  <1>1. ASSUME NEW w \in Worker
        PROVE  run'[w] \in Run /\ run'[w].phase = run[w].phase /\ run'[w].job = run[w].job
    <2>1. run[w] \in Run /\ Least(run[w].elapsed + 1, Patience) \in Nat
      BY RunTyping, PatienceOutlasts DEF Least, Run
    <2>2. QED
      BY <2>1 DEF Tick, Run
  <1>2. run' \in [Worker -> Run]
    BY <1>1 DEF Tick
  <1>3. \A w \in Worker : run'[w].phase # "idle" => run'[w].job \in Job
    BY <1>1 DEF TypeOK
  <1>4. /\ age' \in [Job -> Nat] /\ due' \in [Job -> Nat] /\ key' \in [Job -> Nat]
        /\ unfit' \in [Job -> Nat] /\ roleless' \in [Job -> Nat]
    BY DEF Tick, TypeOK, Least, Greatest
  <1>5. QED
    BY <1>2, <1>3, <1>4 DEF Tick, TypeOK

(* What the reads of the recipient may lead to. *)
LEMMA UserOutcomes ==
  ASSUME TypeOK, NEW w \in Worker, LookupUser(w)
  PROVE  /\ run[w].phase = "lookup"
         /\ \/ TryLater(w) \/ Decide(w, "cancelled")
            \/ /\ run[w].elapsed <= Timeout
               /\ \E v \in {"pending", "cancelled", "failed"} :
                     Goto(w, "roles", v) /\ (v = "pending" => profile[run[w].job] = "fit")
  <1>1. run[w].phase = "lookup" /\ profile[run[w].job] \in Profile
    BY RunTyping DEF LookupUser, TypeOK
  <1>2. profile[run[w].job] # "missing" =>
          /\ Finding(profile[run[w].job]) \in {"pending", "cancelled", "failed"}
          /\ Finding(profile[run[w].job]) = "pending" => profile[run[w].job] = "fit"
    BY <1>1 DEF Finding, Profile
  <1>3. QED
    BY <1>1, <1>2 DEF LookupUser

LEMMA RolesOutcomes ==
  ASSUME TypeOK, NEW w \in Worker, LookupRoles(w)
  PROVE  /\ run[w].phase = "roles"
         /\ \/ TryLater(w)
            \/ \E v \in {"cancelled", run[w].verdict} \ {"pending"} : Decide(w, v)
            \/ /\ run[w].elapsed <= Timeout /\ run[w].verdict = "pending"
               /\ role[run[w].job]
               /\ Goto(w, "send", "pending")
  BY DEF LookupRoles

(* An administrator's changes leave the outbox as it is. *)
Administration(j) ==
  \/ \E p \in Profile : ChangeProfile(j, p)
  \/ \E held \in BOOLEAN : ChangeRole(j, held)
  \/ DeleteAccount(j)

LEMMA AdministrationApart ==
  ASSUME NEW j \in Job, Administration(j)
  PROVE  UNCHANGED <<job, age, run, provider, faults>>
  BY DEF Administration, ChangeProfile, ChangeRole, DeleteAccount

LEMMA Steps ==
  Next <=> \/ \E w \in Worker :
                \/ \E j \in Job : Claim(w, j)
                \/ Begin(w) \/ LookupUser(w) \/ LookupRoles(w) \/ Send(w) \/ Finish(w)
                \/ Lose(w)
           \/ \E j \in Job : Queue(j) \/ Administration(j)
           \/ Tick
  BY DEF Next, WorkerStep, Administration

LEMMA StepTyping ==
  ASSUME TypeOK, [Next]_vars
  PROVE  TypeOK'
  <1>1. ASSUME NEW w \in Worker, Begin(w) PROVE TypeOK'
    <2>1. run[w].phase # "idle" /\ (Decide(w, "failed") \/ Goto(w, "lookup", "pending"))
      BY <1>1 DEF Begin
    <2>2. run' \in [Worker -> Run] /\ \A x \in Worker : run'[x].phase # "idle" => run'[x].job \in Job
      BY <2>1, DecideTyping
    <2>3. QED
      BY <1>1, <2>2 DEF Begin, TypeOK, directory, job, provider
  <1>2. ASSUME NEW w \in Worker, LookupUser(w) PROVE TypeOK'
    <2>1. run[w].phase # "idle"
      BY <1>2 DEF LookupUser
    <2>2. run' \in [Worker -> Run] /\ \A x \in Worker : run'[x].phase # "idle" => run'[x].job \in Job
      BY <1>2, <2>1, UserOutcomes, DecideTyping DEF Open, Terminal
    <2>3. QED
      BY <1>2, <2>2 DEF LookupUser, TypeOK, job, directory, provider
  <1>3. ASSUME NEW w \in Worker, LookupRoles(w) PROVE TypeOK'
    <2>1. run[w].phase # "idle" /\ run[w].verdict \in Open \cup Terminal
      BY <1>3, RunTyping DEF LookupRoles, Run
    <2>2. \A v \in {"cancelled", run[w].verdict} : v \in Open \cup Terminal
      BY <2>1 DEF Terminal
    <2>3. run' \in [Worker -> Run] /\ \A x \in Worker : run'[x].phase # "idle" => run'[x].job \in Job
      BY <1>3, <2>1, <2>2, RolesOutcomes, DecideTyping, GotoTyping DEF Decide
    <2>4. QED
      BY <1>3, <2>3 DEF LookupRoles, TypeOK, job, directory, provider
  <1>4. ASSUME NEW w \in Worker, Lose(w) PROVE TypeOK'
    <2>1. faults' \in Nat
      BY <1>4 DEF Lose, TypeOK
    <2>2. run' \in [Worker -> Run] /\ \A x \in Worker : run'[x].phase # "idle" => run'[x].job \in Job
      BY <1>4, IdleTyping DEF Lose
    <2>3. QED
      BY <1>4, <2>1, <2>2 DEF Lose, TypeOK, directory, job, provider
  <1>5. ASSUME NEW j \in Job, Administration(j) PROVE TypeOK'
    <2>1. UNCHANGED <<status, attempts, lease, due, age, run, requests, accepted, key, mails, faults>>
      BY <1>5, AdministrationApart DEF job, provider
    <2>2. profile' \in [Job -> Profile] /\ unfit' \in [Job -> Nat]
      BY <1>5 DEF Administration, ChangeProfile, ChangeRole, DeleteAccount, TypeOK, Profile
    <2>3. roleless' \in [Job -> Nat]
      BY <1>5 DEF Administration, ChangeProfile, ChangeRole, DeleteAccount, TypeOK
    <2>4. role' = role \/ \E held \in BOOLEAN : role' = [role EXCEPT ![j] = held]
      BY <1>5, Zenon DEF Administration, ChangeProfile, ChangeRole, DeleteAccount
    <2>5. role' \in [Job -> BOOLEAN]
      BY <2>4 DEF TypeOK
    <2>6. QED
      BY <2>1, <2>2, <2>3, <2>5 DEF TypeOK
  <1>6. ASSUME NEW j \in Job, Queue(j) PROVE TypeOK'
    BY <1>6 DEF Queue, TypeOK, directory, Open, provider
  <1>7. CASE UNCHANGED vars
    BY <1>7 DEF vars, job, directory, provider, TypeOK
  <1>8. QED
    BY <1>1, <1>2, <1>3, <1>4, <1>5, <1>6, <1>7, ClaimTyping, SendTyping, FinishTyping, TickTyping, Steps

LEMMA InitTyping ==
  ASSUME Init
  PROVE  TypeOK
  <1>1. Idle \in Run /\ Idle.phase = "idle"
    BY DEF Idle, Run, Open
  <1>2. QED
    BY <1>1 DEF Init, TypeOK, Open, Profile

(* Jobs, attempts and the provider's books keep their shapes. *)
THEOREM TypeCorrect == Spec => []TypeOK
  BY InitTyping, StepTyping, PTL DEF Spec

-------------------------------------------------------------------------------
(* The inductive invariant.  An attempt that is still the newest holds the   *)
(* lease and nobody else makes it; it is accepted exactly when its verdict   *)
(* is "sent"; while it may send its job is young enough.  The key of a       *)
(* delivered message lives at least until the job is KeyLife old.            *)
Trying(w) == run[w].phase \in {"claimed", "lookup", "roles", "send"}

AttemptInv(w) ==
  LET j == run[w].job
      n == run[w].attempt
  IN  /\ n >= 1 /\ n <= attempts[j]
      /\ n = attempts[j] => status[j] = "sending" /\ lease[j] = n
      /\ Trying(w) => n \notin accepted[j]
      /\ run[w].phase = "roles" => run[w].verdict \in {"pending", "cancelled", "failed"}
      /\ run[w].phase = "decided" => (run[w].verdict = "sent" <=> n \in accepted[j])
      /\ run[w].phase \in {"lookup", "roles", "send"} /\ run[w].elapsed <= Timeout
           => age[j] <= Window + run[w].elapsed

AttemptsInv == \A w \in Worker : run[w].phase # "idle" => AttemptInv(w)

OneHolder ==
  \A v, w \in Worker :
    /\ run[v].phase # "idle" /\ run[w].phase # "idle"
    /\ run[v].job = run[w].job /\ run[v].attempt = run[w].attempt
    => v = w

NumbersInv ==
  \A j \in Job :
    /\ \A n \in accepted[j] : n >= 1 /\ n <= attempts[j]
    /\ lease[j] = 0 \/ lease[j] = attempts[j]

KeyInv ==
  \A j \in Job : mails[j] = 0 \/ (mails[j] = 1 /\ KeyLife <= key[j] + age[j])

IInv ==
  /\ TypeOK
  /\ AttemptsInv /\ OneHolder /\ NumbersInv
  /\ NewestAttemptDecides
  /\ KeyInv

(* Before a job is queued, nothing has been done for it. *)
AbsentInv == \A j \in Job : status[j] = "absent" => attempts[j] = 0 /\ mails[j] = 0

LEMMA ClaimInv ==
  ASSUME IInv, NEW w \in Worker, NEW j \in Job, Claim(w, j)
  PROVE  IInv'
  <1>1. TypeOK /\ TypeOK'
    BY ClaimTyping DEF IInv
  <1>. DEFINE n == attempts[j] + 1
  <1>2. /\ attempts[j] \in Nat
        /\ attempts'[j] = n /\ lease'[j] = n /\ status'[j] = "sending"
        /\ \A i \in Job : i # j => /\ attempts'[i] = attempts[i] /\ lease'[i] = lease[i]
                                  /\ status'[i] = status[i]
        /\ UNCHANGED <<age, accepted, key, mails>>
    BY <1>1 DEF Claim, TypeOK, provider
  <1>3. /\ run'[w] = [phase |-> "claimed", job |-> j, attempt |-> n, elapsed |-> 0, verdict |-> "pending"]
        /\ \A v \in Worker : v # w => run'[v] = run[v]
    BY <1>1 DEF Claim, TypeOK
  <1>4. ASSUME NEW v \in Worker, v # w, run[v].phase # "idle", run[v].job = j
        PROVE  run[v].attempt < n /\ run[v].attempt \in Nat
    BY <1>1, <1>2, <1>4, RunTyping DEF IInv, AttemptsInv, AttemptInv, Run
  <1>5. n \notin accepted[j]
    BY <1>2 DEF IInv, NumbersInv
  <1>6. NumbersInv'
    BY <1>1, <1>2 DEF IInv, NumbersInv, TypeOK
  <1>7. NewestAttemptDecides'
    BY <1>2, <1>5 DEF IInv, NewestAttemptDecides
  <1>8. KeyInv'
    BY <1>2 DEF IInv, KeyInv
  <1>9. OneHolder'
    BY <1>3, <1>4 DEF IInv, OneHolder
  <1>10. ASSUME NEW v \in Worker, run'[v].phase # "idle" PROVE AttemptInv(v)'
    <2>1. CASE v = w
      BY <1>2, <1>3, <1>5, <2>1 DEF AttemptInv, Trying
    <2>2. CASE v # w
      <3>1. AttemptInv(v) /\ run'[v] = run[v] /\ run[v].job \in Job
        BY <1>1, <1>3, <1>10, <2>2, RunTyping DEF IInv, AttemptsInv
      <3>2. CASE run[v].job # j
        BY <1>2, <3>1, <3>2 DEF AttemptInv, Trying
      <3>3. CASE run[v].job = j
        <4>1. run[v].attempt < n /\ run[v].attempt \in Nat
          BY <1>3, <1>4, <1>10, <2>2, <3>3
        <4>2. QED
          BY <1>2, <3>1, <3>3, <4>1 DEF AttemptInv, Trying
      <3>4. QED
        BY <3>2, <3>3
    <2>3. QED
      BY <2>1, <2>2
  <1>11. QED
    BY <1>1, <1>6, <1>7, <1>8, <1>9, <1>10 DEF IInv, AttemptsInv

(* An attempt goes on without having been seen to be accepted. *)
LEMMA MoveInv ==
  ASSUME IInv, TypeOK', NEW w \in Worker, Trying(w),
         NEW p \in {"lookup", "roles", "send", "decided"}, NEW v, v # "sent", Goto(w, p, v),
         p = "roles" => v \in {"pending", "cancelled", "failed"},
         UNCHANGED <<job, age, accepted>>,
         p # "decided" => age[run[w].job] <= Window + run[w].elapsed
  PROVE  AttemptsInv' /\ OneHolder' /\ NumbersInv' /\ NewestAttemptDecides'
  <1>1. TypeOK /\ run[w].phase # "idle"
    BY DEF IInv, Trying
  <1>2. /\ run'[w] = [phase |-> p, job |-> run[w].job, attempt |-> run[w].attempt,
                      elapsed |-> run[w].elapsed, verdict |-> v]
        /\ \A x \in Worker : x # w => run'[x] = run[x]
    BY <1>1 DEF Goto, TypeOK
  <1>3. UNCHANGED <<status, attempts, lease, age, accepted>>
    BY DEF job
  <1>4. NumbersInv' /\ NewestAttemptDecides'
    BY <1>3 DEF IInv, NumbersInv, NewestAttemptDecides
  <1>5. OneHolder'
    BY <1>1, <1>2 DEF IInv, OneHolder
  <1>6. ASSUME NEW x \in Worker, run'[x].phase # "idle" PROVE AttemptInv(x)'
    <2>1. CASE x = w
      <3>1. AttemptInv(w)
        BY <1>1 DEF IInv, AttemptsInv
      <3>2. QED
        BY <1>2, <1>3, <2>1, <3>1 DEF AttemptInv, Trying
    <2>2. CASE x # w
      <3>1. AttemptInv(x) /\ run'[x] = run[x]
        BY <1>2, <1>6, <2>2 DEF IInv, AttemptsInv
      <3>2. QED
        BY <1>3, <3>1 DEF AttemptInv, Trying
    <2>3. QED
      BY <2>1, <2>2
  <1>7. QED
    BY <1>4, <1>5, <1>6 DEF AttemptsInv

LEMMA BeginInv ==
  ASSUME IInv, NEW w \in Worker, Begin(w)
  PROVE  IInv'
  <1>1. TypeOK /\ TypeOK' /\ Trying(w) /\ run[w] \in Run /\ run[w].job \in Job
    BY StepTyping, RunTyping DEF IInv, Next, WorkerStep, Begin, Trying
  <1>2. UNCHANGED <<job, age, accepted, key, mails>>
    BY DEF Begin, provider
  <1>3. \/ Goto(w, "decided", "failed")
        \/ Goto(w, "lookup", "pending") /\ age[run[w].job] <= Window + run[w].elapsed
    BY <1>1 DEF Begin, Decide, TypeOK, Run
  <1>4. AttemptsInv' /\ OneHolder' /\ NumbersInv' /\ NewestAttemptDecides'
    BY <1>1, <1>2, <1>3, MoveInv
  <1>5. KeyInv'
    BY <1>2 DEF IInv, KeyInv
  <1>6. QED
    BY <1>1, <1>4, <1>5 DEF IInv

LEMMA UserInv ==
  ASSUME IInv, NEW w \in Worker, LookupUser(w)
  PROVE  IInv'
  <1>1. TypeOK /\ TypeOK' /\ Trying(w)
    BY StepTyping DEF IInv, Next, WorkerStep, LookupUser, Trying
  <1>2. UNCHANGED <<job, age, accepted, key, mails>>
    BY DEF LookupUser, provider
  <1>3. run[w].elapsed <= Timeout => age[run[w].job] <= Window + run[w].elapsed
    BY DEF IInv, AttemptsInv, AttemptInv, LookupUser
  <1>4. \/ \E v \in {"cancelled", "failed", "pending"} : Goto(w, "decided", v)
        \/ /\ run[w].elapsed <= Timeout
           /\ \E v \in {"pending", "cancelled", "failed"} : Goto(w, "roles", v)
    BY <1>1, UserOutcomes DEF Decide, TryLater
  <1>5. AttemptsInv' /\ OneHolder' /\ NumbersInv' /\ NewestAttemptDecides'
    <2>1. ASSUME NEW v \in {"cancelled", "failed", "pending"}, Goto(w, "decided", v)
          PROVE  AttemptsInv' /\ OneHolder' /\ NumbersInv' /\ NewestAttemptDecides'
      BY <1>1, <1>2, <2>1, MoveInv
    <2>2. ASSUME NEW v \in {"pending", "cancelled", "failed"}, Goto(w, "roles", v),
                 run[w].elapsed <= Timeout
          PROVE  AttemptsInv' /\ OneHolder' /\ NumbersInv' /\ NewestAttemptDecides'
      BY <1>1, <1>2, <1>3, <2>2, MoveInv
    <2>3. QED
      BY <1>4, <2>1, <2>2
  <1>6. KeyInv'
    BY <1>2 DEF IInv, KeyInv
  <1>7. QED
    BY <1>1, <1>5, <1>6 DEF IInv

LEMMA RolesInv ==
  ASSUME IInv, NEW w \in Worker, LookupRoles(w)
  PROVE  IInv'
  <1>1. TypeOK /\ TypeOK' /\ Trying(w)
    BY StepTyping DEF IInv, Next, WorkerStep, LookupRoles, Trying
  <1>2. UNCHANGED <<job, age, accepted, key, mails>>
    BY DEF LookupRoles, provider
  <1>3. run[w].elapsed <= Timeout => age[run[w].job] <= Window + run[w].elapsed
    BY DEF IInv, AttemptsInv, AttemptInv, LookupRoles
  <1>4. run[w].verdict \in {"pending", "cancelled", "failed"}
    BY DEF IInv, AttemptsInv, AttemptInv, LookupRoles
  <1>5. \/ \E v \in {"cancelled", "failed", "pending"} : Goto(w, "decided", v)
        \/ Goto(w, "send", "pending") /\ run[w].elapsed <= Timeout
    BY <1>1, <1>4, RolesOutcomes DEF Decide, TryLater
  <1>6. AttemptsInv' /\ OneHolder' /\ NumbersInv' /\ NewestAttemptDecides'
    <2>1. ASSUME NEW v \in {"cancelled", "failed", "pending"}, Goto(w, "decided", v)
          PROVE  AttemptsInv' /\ OneHolder' /\ NumbersInv' /\ NewestAttemptDecides'
      BY <1>1, <1>2, <2>1, MoveInv
    <2>2. ASSUME Goto(w, "send", "pending"), run[w].elapsed <= Timeout
          PROVE  AttemptsInv' /\ OneHolder' /\ NumbersInv' /\ NewestAttemptDecides'
      BY <1>1, <1>2, <1>3, <2>2, MoveInv
    <2>3. QED
      BY <1>5, <2>1, <2>2
  <1>7. KeyInv'
    BY <1>2 DEF IInv, KeyInv
  <1>8. QED
    BY <1>1, <1>6, <1>7 DEF IInv

(* A request falls into the life of the key that the first one created. *)
LEMMA AcceptKey ==
  ASSUME IInv, NEW w \in Worker, run[w].phase = "send", run[w].elapsed <= Timeout,
         Accept(run[w].job), age' = age
  PROVE  KeyInv'
  <1>. DEFINE j == run[w].job
  <1>1. TypeOK /\ run[w] \in Run /\ j \in Job
    BY RunTyping DEF IInv
  <1>2. age[j] <= Window + run[w].elapsed
    BY DEF IInv, AttemptsInv, AttemptInv
  <1>3. age[j] < KeyLife
    BY <1>1, <1>2 DEF TypeOK, Run
  <1>4. mails[j] = 0 \/ (mails[j] = 1 /\ key[j] # 0)
    BY <1>1, <1>3 DEF IInv, KeyInv, TypeOK
  <1>5. /\ \A i \in Job : i # j => mails'[i] = mails[i] /\ key'[i] = key[i]
        /\ mails'[j] = IF key[j] = 0 THEN mails[j] + 1 ELSE mails[j]
        /\ key'[j] = IF key[j] = 0 THEN KeyLife ELSE key[j]
    BY <1>1 DEF Accept, TypeOK
  <1>6. mails'[j] = 0 \/ (mails'[j] = 1 /\ KeyLife <= key'[j] + age'[j])
    <2>1. key[j] \in Nat /\ age[j] \in Nat /\ mails[j] \in Nat
      BY <1>1 DEF TypeOK
    <2>2. CASE key[j] = 0
      BY <1>4, <1>5, <2>1, <2>2
    <2>3. CASE key[j] # 0
      BY <1>1, <1>4, <1>5, <2>1, <2>3 DEF IInv, KeyInv
    <2>4. QED
      BY <2>2, <2>3
  <1>7. QED
    BY <1>5, <1>6 DEF IInv, KeyInv

LEMMA SendInv ==
  ASSUME IInv, NEW w \in Worker, Send(w)
  PROVE  IInv'
  <1>. DEFINE j == run[w].job
              n == run[w].attempt
  <1>1. /\ TypeOK /\ TypeOK' /\ Trying(w) /\ run[w].phase = "send"
        /\ run[w] \in Run /\ j \in Job
    BY SendTyping, RunTyping DEF IInv, Send, Trying
  <1>2. UNCHANGED <<job, age>>
    BY DEF Send
  <1>3. KeyInv'
    <2>1. \/ run[w].elapsed <= Timeout /\ Accept(j)
          \/ UNCHANGED <<key, mails>>
      BY DEF Send, provider
    <2>2. CASE UNCHANGED <<key, mails>>
      BY <1>2, <2>2 DEF IInv, KeyInv
    <2>3. QED
      BY <1>1, <1>2, <2>1, <2>2, AcceptKey
  <1>4. \/ /\ \E v \in {"failed", "pending"} : Goto(w, "decided", v)
           /\ UNCHANGED accepted
        \/ /\ accepted' = [accepted EXCEPT ![j] = accepted[j] \cup {n}]
           /\ Goto(w, "decided", "sent")
    BY DEF Send, TryLater, Decide, provider
  <1>5. ASSUME NEW v \in {"failed", "pending"}, Goto(w, "decided", v), UNCHANGED accepted
        PROVE  AttemptsInv' /\ OneHolder' /\ NumbersInv' /\ NewestAttemptDecides'
    BY <1>1, <1>2, <1>5, MoveInv
  <1>6. ASSUME accepted' = [accepted EXCEPT ![j] = accepted[j] \cup {n}],
               Goto(w, "decided", "sent")
        PROVE  AttemptsInv' /\ OneHolder' /\ NumbersInv' /\ NewestAttemptDecides'
    <2>1. /\ run'[w] = [phase |-> "decided", job |-> j, attempt |-> n,
                        elapsed |-> run[w].elapsed, verdict |-> "sent"]
          /\ \A x \in Worker : x # w => run'[x] = run[x]
      BY <1>1, <1>6 DEF Goto, TypeOK
    <2>2. /\ accepted'[j] = accepted[j] \cup {n}
          /\ \A i \in Job : i # j => accepted'[i] = accepted[i]
      BY <1>1, <1>6 DEF TypeOK
    <2>3. UNCHANGED <<status, attempts, lease, age>>
      BY <1>2 DEF job
    <2>4. AttemptInv(w)
      BY <1>1 DEF IInv, AttemptsInv
    <2>5. n >= 1 /\ n <= attempts[j] /\ (n = attempts[j] => status[j] = "sending")
      BY <2>4 DEF AttemptInv
    <2>6. NumbersInv'
      BY <2>2, <2>3, <2>5 DEF IInv, NumbersInv
    <2>7. NewestAttemptDecides'
      BY <2>2, <2>3, <2>5 DEF IInv, NewestAttemptDecides
    <2>8. OneHolder'
      BY <1>1, <2>1 DEF IInv, OneHolder
    <2>9. ASSUME NEW x \in Worker, run'[x].phase # "idle" PROVE AttemptInv(x)'
      <3>1. CASE x = w
        BY <2>1, <2>2, <2>3, <2>4, <3>1 DEF AttemptInv, Trying
      <3>2. CASE x # w
        <4>1. AttemptInv(x) /\ run'[x] = run[x] /\ run[x].job \in Job
          BY <1>1, <2>1, <2>9, <3>2, RunTyping DEF IInv, AttemptsInv
        <4>2. run[x].job = j => run[x].attempt # n
          BY <1>1, <2>1, <2>9, <3>2 DEF IInv, OneHolder
        <4>3. run[x].attempt \in accepted'[run[x].job] <=> run[x].attempt \in accepted[run[x].job]
          BY <2>2, <4>1, <4>2
        <4>4. QED
          BY <2>3, <4>1, <4>3 DEF AttemptInv, Trying
      <3>3. QED
        BY <3>1, <3>2
    <2>10. QED
      BY <2>6, <2>7, <2>8, <2>9 DEF AttemptsInv
  <1>7. QED
    BY <1>1, <1>3, <1>4, <1>5, <1>6 DEF IInv

(* Worker w is done, or lost: the attempts of the others are as they were,   *)
(* unless w has stored the result of the newest one, which is only its own.  *)
LEMMA FinishInv ==
  ASSUME IInv, NEW w \in Worker, Finish(w)
  PROVE  IInv'
  <1>. DEFINE j == run[w].job
              n == run[w].attempt
  <1>1. /\ TypeOK /\ TypeOK' /\ run[w].phase = "decided"
        /\ run[w] \in Run /\ j \in Job /\ n \in Nat
    BY FinishTyping, RunTyping DEF IInv, Finish, Run
  <1>2. UNCHANGED <<attempts, age, accepted, key, mails>>
    BY DEF Finish, provider
  <1>3. run'[w].phase = "idle" /\ \A x \in Worker : x # w => run'[x] = run[x]
    BY <1>1 DEF Finish, Idle, TypeOK
  <1>4. AttemptInv(w)
    BY <1>1 DEF IInv, AttemptsInv
  <1>5. KeyInv' /\ OneHolder'
    BY <1>2, <1>3 DEF IInv, KeyInv, OneHolder
  <1>6. CASE UNCHANGED <<status, lease>>
    <2>1. NumbersInv' /\ NewestAttemptDecides'
      BY <1>2, <1>6 DEF IInv, NumbersInv, NewestAttemptDecides
    <2>2. ASSUME NEW x \in Worker, run'[x].phase # "idle" PROVE AttemptInv(x)'
      <3>1. AttemptInv(x) /\ run'[x] = run[x]
        BY <1>3, <2>2 DEF IInv, AttemptsInv
      <3>2. QED
        BY <1>2, <1>6, <3>1 DEF AttemptInv, Trying
    <2>3. QED
      BY <1>1, <1>5, <2>1, <2>2 DEF IInv, AttemptsInv
  <1>7. CASE /\ status[j] = "sending" /\ lease[j] = n
             /\ status' = [status EXCEPT ![j] = run[w].verdict]
             /\ lease' = [lease EXCEPT ![j] = 0]
    <2>1. n = attempts[j]
      BY <1>1, <1>4, <1>7 DEF IInv, NumbersInv, AttemptInv
    <2>2. /\ status'[j] = run[w].verdict /\ lease'[j] = 0
          /\ \A i \in Job : i # j => status'[i] = status[i] /\ lease'[i] = lease[i]
      BY <1>1, <1>7 DEF TypeOK
    <2>3. NumbersInv'
      BY <1>2, <2>2 DEF IInv, NumbersInv
    <2>4. NewestAttemptDecides'
      BY <1>1, <1>2, <1>4, <2>1, <2>2 DEF IInv, NewestAttemptDecides, AttemptInv
    <2>5. ASSUME NEW x \in Worker, run'[x].phase # "idle" PROVE AttemptInv(x)'
      <3>1. x # w /\ AttemptInv(x) /\ run'[x] = run[x] /\ run[x].job \in Job
        BY <1>1, <1>3, <2>5, RunTyping DEF IInv, AttemptsInv
      <3>2. run[x].job = j => run[x].attempt # attempts[j]
        BY <1>1, <1>3, <2>1, <2>5, <3>1 DEF IInv, OneHolder
      <3>3. QED
        BY <1>2, <2>2, <3>1, <3>2 DEF AttemptInv, Trying
    <2>6. QED
      BY <1>1, <1>5, <2>3, <2>4, <2>5 DEF IInv, AttemptsInv
  <1>8. QED
    BY <1>6, <1>7 DEF Finish

LEMMA LoseInv ==
  ASSUME IInv, NEW w \in Worker, Lose(w)
  PROVE  IInv'
  <1>1. TypeOK /\ TypeOK'
    BY StepTyping DEF IInv, Next
  <1>2. UNCHANGED <<status, attempts, lease, age, accepted, key, mails>>
    BY DEF Lose, job, provider
  <1>3. run'[w].phase = "idle" /\ \A x \in Worker : x # w => run'[x] = run[x]
    BY <1>1 DEF Lose, Idle, TypeOK
  <1>4. NumbersInv' /\ NewestAttemptDecides' /\ KeyInv' /\ OneHolder'
    BY <1>2, <1>3 DEF IInv, NumbersInv, NewestAttemptDecides, KeyInv, OneHolder
  <1>5. ASSUME NEW x \in Worker, run'[x].phase # "idle" PROVE AttemptInv(x)'
    <2>1. AttemptInv(x) /\ run'[x] = run[x]
      BY <1>3, <1>5 DEF IInv, AttemptsInv
    <2>2. QED
      BY <1>2, <2>1 DEF AttemptInv, Trying
  <1>6. QED
    BY <1>1, <1>4, <1>5 DEF IInv, AttemptsInv

(* Time passes for the job and for the attempt alike. *)
LEMMA TickInv ==
  ASSUME IInv, AbsentInv, Tick
  PROVE  IInv'
  <1>1. TypeOK /\ TypeOK'
    BY TickTyping DEF IInv
  <1>2. UNCHANGED <<status, attempts, lease, accepted, mails>>
    BY DEF Tick
  <1>3. ASSUME NEW x \in Worker
        PROVE  /\ run'[x].phase = run[x].phase /\ run'[x].job = run[x].job
               /\ run'[x].attempt = run[x].attempt /\ run'[x].verdict = run[x].verdict
               /\ run[x].phase \in {"lookup", "roles", "send"} =>
                    run'[x].elapsed = Least(run[x].elapsed + 1, Patience)
    BY DEF Tick, Active
  <1>4. NumbersInv' /\ NewestAttemptDecides' /\ OneHolder'
    BY <1>2, <1>3 DEF IInv, NumbersInv, NewestAttemptDecides, OneHolder
  <1>5. KeyInv'
    <2>1. ASSUME NEW j \in Job, status[j] # "absent", KeyLife <= key[j] + age[j]
          PROVE  KeyLife <= key'[j] + age'[j]
      BY <1>1, <2>1 DEF Tick, TypeOK, Least, Greatest
    <2>2. QED
      BY <1>2, <2>1 DEF IInv, KeyInv, AbsentInv
  <1>6. ASSUME NEW x \in Worker, run'[x].phase # "idle" PROVE AttemptInv(x)'
    <2>1. AttemptInv(x) /\ run[x] \in Run /\ run[x].job \in Job
      BY <1>1, <1>3, <1>6, RunTyping DEF IInv, AttemptsInv
    <2>2. ASSUME run[x].phase \in {"lookup", "roles", "send"}, run'[x].elapsed <= Timeout
          PROVE  age'[run[x].job] <= Window + run'[x].elapsed
      <3>1. run[x].elapsed \in Nat /\ run'[x].elapsed = Least(run[x].elapsed + 1, Patience)
        BY <1>3, <2>1, <2>2 DEF Run
      <3>2. run'[x].elapsed = run[x].elapsed + 1 /\ run[x].elapsed <= Timeout
        BY <2>2, <3>1, PatienceOutlasts DEF Least
      <3>3. age[run[x].job] <= Window + run[x].elapsed
        BY <2>1, <2>2, <3>2 DEF AttemptInv
      <3>4. age'[run[x].job] <= age[run[x].job] + 1 /\ age[run[x].job] \in Nat /\ age'[run[x].job] \in Nat
        BY <1>1, <2>1 DEF Tick, TypeOK, Least
      <3>5. QED
        BY <3>1, <3>2, <3>3, <3>4
    <2>3. QED
      BY <1>2, <1>3, <2>1, <2>2 DEF AttemptInv, Trying
  <1>7. QED
    BY <1>1, <1>4, <1>5, <1>6 DEF IInv, AttemptsInv

LEMMA QueueInv ==
  ASSUME IInv, NEW j \in Job, Queue(j)
  PROVE  IInv'
  <1>1. TypeOK /\ TypeOK'
    BY StepTyping DEF IInv, Next
  <1>2. /\ status[j] = "absent" /\ status'[j] = "pending"
        /\ \A i \in Job : i # j => status'[i] = status[i]
        /\ UNCHANGED <<attempts, lease, age, run, accepted, key, mails>>
    BY <1>1 DEF Queue, TypeOK, provider
  <1>3. NumbersInv' /\ OneHolder' /\ KeyInv'
    BY <1>2 DEF IInv, NumbersInv, OneHolder, KeyInv
  <1>4. NewestAttemptDecides'
    BY <1>2 DEF IInv, NewestAttemptDecides
  <1>5. ASSUME NEW x \in Worker, run'[x].phase # "idle" PROVE AttemptInv(x)'
    <2>1. AttemptInv(x) /\ run[x].job \in Job
      BY <1>1, <1>2, <1>5, RunTyping DEF IInv, AttemptsInv
    <2>2. QED
      BY <1>2, <2>1 DEF AttemptInv, Trying
  <1>6. QED
    BY <1>1, <1>3, <1>4, <1>5 DEF IInv, AttemptsInv

LEMMA StepInv ==
  ASSUME IInv, AbsentInv, [Next]_vars
  PROVE  IInv'
  <1>1. ASSUME UNCHANGED <<job, age, run, provider>>
        PROVE  IInv'
    <2>1. TypeOK'
      BY StepTyping DEF IInv
    <2>2. UNCHANGED <<status, attempts, lease, age, run, accepted, key, mails>>
      BY <1>1 DEF job, provider
    <2>3. \A x \in Worker : AttemptInv(x) => AttemptInv(x)'
      BY <2>2 DEF AttemptInv, Trying
    <2>4. QED
      BY <2>1, <2>2, <2>3 DEF IInv, AttemptsInv, NumbersInv, NewestAttemptDecides, KeyInv, OneHolder
  <1>2. CASE UNCHANGED vars
    BY <1>1, <1>2 DEF vars
  <1>3. ASSUME NEW j \in Job, Administration(j) PROVE IInv'
    BY <1>1, <1>3, AdministrationApart
  <1>4. QED
    BY <1>2, <1>3, ClaimInv, BeginInv, UserInv, RolesInv, SendInv, FinishInv, LoseInv, QueueInv, TickInv, Steps

LEMMA AbsentStep ==
  ASSUME IInv, AbsentInv, [Next]_vars
  PROVE  AbsentInv'
  <1>1. TypeOK
    BY DEF IInv
  <1>2. ASSUME \A j \in Job : status'[j] = "absent" =>
                 status[j] = "absent" /\ attempts'[j] = attempts[j] /\ mails'[j] = mails[j]
        PROVE  AbsentInv'
    BY <1>2 DEF AbsentInv
  <1>3. ASSUME NEW w \in Worker, NEW j \in Job, Claim(w, j) PROVE AbsentInv'
    <2>1. status'[j] = "sending" /\ \A i \in Job : i # j => status'[i] = status[i]
      BY <1>1, <1>3 DEF Claim, TypeOK
    <2>2. \A i \in Job : i # j => attempts'[i] = attempts[i] /\ mails'[i] = mails[i]
      BY <1>1, <1>3 DEF Claim, TypeOK, provider
    <2>3. QED
      BY <1>2, <2>1, <2>2
  <1>4. ASSUME NEW w \in Worker, Send(w) PROVE AbsentInv'
    <2>1. run[w].phase = "send" /\ run[w] \in Run /\ run[w].job \in Job
      BY <1>1, <1>4, RunTyping DEF Send
    <2>2. run[w].attempt \in Nat /\ run[w].attempt >= 1 /\ run[w].attempt <= attempts[run[w].job]
      BY <2>1 DEF IInv, AttemptsInv, AttemptInv, Run
    <2>3. status[run[w].job] # "absent"
      BY <2>1, <2>2 DEF AbsentInv
    <2>4. UNCHANGED <<status, attempts>>
      BY <1>4 DEF Send, job
    <2>5. \A i \in Job : i # run[w].job => mails'[i] = mails[i]
      BY <1>1, <1>4 DEF Send, Accept, TypeOK, provider
    <2>6. QED
      BY <1>2, <2>3, <2>4, <2>5
  <1>5. ASSUME NEW w \in Worker, Finish(w) PROVE AbsentInv'
    <2>1. run[w] \in Run /\ run[w].job \in Job
      BY <1>1, <1>5, RunTyping DEF Finish
    <2>2. run[w].verdict # "absent"
      BY <2>1 DEF Run, Open, Terminal
    <2>3. \A i \in Job : status'[i] = status[i] \/ status'[i] = run[w].verdict
      BY <1>1, <1>5, <2>1 DEF Finish, TypeOK
    <2>4. UNCHANGED <<attempts, mails>>
      BY <1>5 DEF Finish, provider
    <2>5. QED
      BY <1>2, <2>2, <2>3, <2>4
  <1>6. ASSUME NEW j \in Job, Queue(j) PROVE AbsentInv'
    <2>1. \A i \in Job : status'[i] = "absent" => status[i] = "absent"
      BY <1>1, <1>6 DEF Queue, TypeOK
    <2>2. QED
      BY <1>2, <1>6, <2>1 DEF Queue, provider
  <1>7. CASE UNCHANGED <<status, attempts, mails>>
    BY <1>2, <1>7
  <1>8. QED
    BY <1>3, <1>4, <1>5, <1>6, <1>7, AdministrationApart, Steps
       DEF Begin, LookupUser, LookupRoles, Lose, Tick, vars, job, provider

LEMMA InitInv ==
  ASSUME Init
  PROVE  IInv /\ AbsentInv
  <1>1. TypeOK
    BY InitTyping
  <1>2. \A w \in Worker : run[w].phase = "idle"
    BY DEF Init, Idle
  <1>3. NumbersInv /\ NewestAttemptDecides /\ KeyInv
    BY DEF Init, NumbersInv, NewestAttemptDecides, KeyInv
  <1>4. AbsentInv
    BY DEF Init, AbsentInv
  <1>5. QED
    BY <1>1, <1>2, <1>3, <1>4 DEF IInv, AttemptsInv, OneHolder

LEMMA Invariance == Spec => [](IInv /\ AbsentInv)
  BY InitInv, StepInv, AbsentStep, PTL DEF Spec

(* One message per feedback, with any number of crashes, lost answers and    *)
(* slow workers, provided the key outlives the retry window and an attempt.  *)
THEOREM AtMostOneMail == Spec => []OneMail
  <1>1. IInv => OneMail
    <2>1. ASSUME KeyInv, NEW j \in Job PROVE mails[j] <= 1
      <3>1. mails[j] = 0 \/ mails[j] = 1
        BY <2>1 DEF KeyInv
      <3>2. QED
        BY <3>1
    <2>2. QED
      BY <2>1 DEF IInv, OneMail
  <1>2. QED
    BY <1>1, Invariance, PTL

(* The recorded result is the result of the newest attempt. *)
THEOREM NewestDecides == Spec => []NewestAttemptDecides
  BY Invariance, PTL DEF IInv

-------------------------------------------------------------------------------
(* The attempt that sends has found the account fit and then the role held,  *)
(* so neither has been missing for longer than the attempt has lasted.       *)
FitFor(w) ==
  /\ run[w].phase = "roles" /\ run[w].verdict = "pending" /\ run[w].elapsed <= Timeout
       => unfit[run[w].job] <= run[w].elapsed
  /\ run[w].phase = "send" /\ run[w].elapsed <= Timeout
       => unfit[run[w].job] <= run[w].elapsed /\ roleless[run[w].job] <= run[w].elapsed

FitInv ==
  /\ \A j \in Job : (profile[j] = "fit" => unfit[j] = 0) /\ (role[j] => roleless[j] = 0)
  /\ \A w \in Worker : FitFor(w)

LEMMA FitMove ==
  ASSUME TypeOK, FitInv, NEW w \in Worker, UNCHANGED directory, FitFor(w)',
         \A x \in Worker : x # w => run'[x] = run[x]
  PROVE  FitInv'
  BY DEF FitInv, FitFor, directory

LEMMA FitGoto ==
  ASSUME TypeOK, NEW w \in Worker, NEW p, NEW v, Goto(w, p, v)
  PROVE  /\ run'[w].phase = p /\ run'[w].verdict = v
         /\ run'[w].job = run[w].job /\ run'[w].elapsed = run[w].elapsed
         /\ \A x \in Worker : x # w => run'[x] = run[x]
  BY DEF Goto, TypeOK

(* Administrators can only make the account fit again, or take from now on. *)
LEMMA FitAdministration ==
  ASSUME TypeOK, FitInv, NEW j \in Job, Administration(j)
  PROVE  FitInv'
  <1>1. run' = run
    BY AdministrationApart
  <1>2. ASSUME NEW i \in Job
        PROVE  /\ unfit'[i] \in {unfit[i], 0} /\ roleless'[i] \in {roleless[i], 0}
               /\ profile'[i] = "fit" => unfit'[i] = 0
               /\ role'[i] => roleless'[i] = 0
    <2>1. (profile[i] = "fit" => unfit[i] = 0) /\ (role[i] => roleless[i] = 0)
      BY DEF FitInv
    <2>2. CASE \E held \in BOOLEAN : ChangeRole(j, held)
      <3>1. CASE i = j
        BY <2>1, <2>2, <3>1 DEF ChangeRole, TypeOK
      <3>2. CASE i # j
        BY <2>1, <2>2, <3>2 DEF ChangeRole, TypeOK
      <3>3. QED
        BY <3>1, <3>2
    <2>3. CASE DeleteAccount(j)
      <3>1. CASE i = j
        <4>1. profile'[i] = "missing" /\ role'[i] = FALSE
          BY <2>3, <3>1 DEF DeleteAccount, TypeOK
        <4>2. QED
          BY <2>3, <4>1 DEF DeleteAccount
      <3>2. CASE i # j
        BY <2>1, <2>3, <3>2 DEF DeleteAccount, TypeOK
      <3>3. QED
        BY <3>1, <3>2
    <2>4. ASSUME NEW p \in Profile, ChangeProfile(j, p)
          PROVE  /\ unfit'[i] \in {unfit[i], 0} /\ roleless'[i] \in {roleless[i], 0}
                 /\ profile'[i] = "fit" => unfit'[i] = 0
                 /\ role'[i] => roleless'[i] = 0
      <3>1. role'[i] = role[i] /\ roleless'[i] = roleless[i]
        BY <2>4 DEF ChangeProfile
      <3>2. CASE i = j
        BY <2>1, <2>4, <3>1, <3>2 DEF ChangeProfile, TypeOK
      <3>3. CASE i # j
        BY <2>1, <2>4, <3>1, <3>3 DEF ChangeProfile, TypeOK
      <3>4. QED
        BY <3>2, <3>3
    <2>5. QED
      BY <2>2, <2>3, <2>4 DEF Administration
  <1>3. ASSUME NEW w \in Worker PROVE FitFor(w)'
    <2>1. CASE run[w].phase = "idle"
      BY <1>1, <2>1 DEF FitFor
    <2>2. CASE run[w].phase # "idle"
      <3>1. run[w].job \in Job /\ run[w].elapsed \in Nat
        BY <2>2, RunTyping DEF Run
      <3>2. PICK i \in Job : i = run[w].job
        BY <3>1
      <3>3. unfit'[i] \in {unfit[i], 0} /\ roleless'[i] \in {roleless[i], 0}
        BY <1>2
      <3>4. FitFor(w)
        BY DEF FitInv, FitFor
      <3>5. QED
        BY <1>1, <3>1, <3>2, <3>3, <3>4 DEF FitFor
    <2>3. QED
      BY <2>1, <2>2
  <1>4. QED
    BY <1>2, <1>3 DEF FitInv, FitFor

(* Time passes alike for the attempt and for the account. *)
LEMMA FitTick ==
  ASSUME TypeOK, FitInv, Tick
  PROVE  FitInv'
  <1>1. ASSUME NEW j \in Job
        PROVE  /\ unfit'[j] <= unfit[j] + 1 /\ roleless'[j] <= roleless[j] + 1
               /\ unfit'[j] \in Nat /\ roleless'[j] \in Nat
               /\ profile'[j] = "fit" => unfit'[j] = 0
               /\ role'[j] => roleless'[j] = 0
    <2>1. unfit[j] \in Nat /\ roleless[j] \in Nat
      BY DEF TypeOK
    <2>2. /\ unfit'[j] = IF profile[j] = "fit" THEN 0 ELSE Least(unfit[j] + 1, Timeout + 1)
          /\ profile'[j] = profile[j]
      BY DEF Tick
    <2>3. /\ roleless'[j] = IF role[j] THEN 0 ELSE Least(roleless[j] + 1, Timeout + 1)
          /\ role'[j] = role[j]
      BY DEF Tick
    <2>4. unfit'[j] <= unfit[j] + 1 /\ unfit'[j] \in Nat /\ (profile'[j] = "fit" => unfit'[j] = 0)
      BY <2>1, <2>2 DEF Least
    <2>5. roleless'[j] <= roleless[j] + 1 /\ roleless'[j] \in Nat
      BY <2>1, <2>3 DEF Least
    <2>6. role'[j] => roleless'[j] = 0
      BY <2>3
    <2>7. QED
      BY <2>4, <2>5, <2>6
  <1>2. ASSUME NEW w \in Worker PROVE FitFor(w)'
    <2>1. CASE run'[w].phase \notin {"roles", "send"} \/ ~(run'[w].elapsed <= Timeout)
      BY <2>1 DEF FitFor
    <2>2. CASE run'[w].phase \in {"roles", "send"} /\ run'[w].elapsed <= Timeout
      <3>1. /\ run[w].phase \in {"roles", "send"} /\ run'[w].phase = run[w].phase
            /\ run'[w].job = run[w].job /\ run'[w].verdict = run[w].verdict
            /\ run'[w].elapsed = Least(run[w].elapsed + 1, Patience)
        BY <2>2 DEF Tick, Active
      <3>2. run[w].job \in Job /\ run[w].elapsed \in Nat
        BY <3>1, RunTyping DEF Run
      <3>3. run'[w].elapsed = run[w].elapsed + 1 /\ run[w].elapsed <= Timeout
        BY <2>2, <3>1, <3>2, PatienceOutlasts DEF Least
      <3>4. PICK j \in Job : j = run[w].job
        BY <3>2
      <3>5. unfit[j] \in Nat /\ roleless[j] \in Nat
        BY DEF TypeOK
      <3>6. FitFor(w)
        BY DEF FitInv, FitFor
      <3>7. QED
        BY <1>1, <3>1, <3>2, <3>3, <3>4, <3>5, <3>6 DEF FitFor
    <2>3. QED
      BY <2>1, <2>2
  <1>3. QED
    BY <1>1, <1>2 DEF FitInv, FitFor

LEMMA FitStep ==
  ASSUME TypeOK, FitInv, [Next]_vars
  PROVE  FitInv'
  <1>1. ASSUME NEW w \in Worker, NEW j \in Job, Claim(w, j) PROVE FitInv'
    <2>1. run'[w].phase = "claimed" /\ \A x \in Worker : x # w => run'[x] = run[x]
      BY <1>1 DEF Claim, TypeOK
    <2>2. QED
      BY <1>1, <2>1, FitMove DEF Claim, FitFor
  <1>2. ASSUME NEW w \in Worker, NEW p \in {"lookup", "decided"}, NEW v, Goto(w, p, v),
               UNCHANGED directory
        PROVE  FitInv'
    BY <1>2, FitGoto, FitMove DEF FitFor
  <1>3. ASSUME NEW w \in Worker, Begin(w) PROVE FitInv'
    BY <1>2, <1>3 DEF Begin, Decide
  <1>4. ASSUME NEW w \in Worker, LookupUser(w) PROVE FitInv'
    <2>1. UNCHANGED directory /\ run[w].job \in Job /\ run[w].elapsed \in Nat
      BY <1>4, RunTyping DEF LookupUser, Run
    <2>2. ASSUME NEW v, Goto(w, "roles", v), v = "pending" => profile[run[w].job] = "fit"
          PROVE  FitInv'
      <3>1. v = "pending" => unfit[run[w].job] = 0
        BY <2>1, <2>2 DEF FitInv
      <3>2. FitFor(w)'
        BY <2>1, <2>2, <3>1, FitGoto DEF FitFor, directory
      <3>3. QED
        BY <2>1, <2>2, <3>2, FitGoto, FitMove
    <2>3. ASSUME NEW v, Goto(w, "decided", v) PROVE FitInv'
      BY <1>2, <2>1, <2>3
    <2>4. QED
      BY <1>4, <2>2, <2>3, UserOutcomes DEF TryLater, Decide
  <1>5. ASSUME NEW w \in Worker, LookupRoles(w) PROVE FitInv'
    <2>1. UNCHANGED directory /\ run[w].job \in Job /\ run[w].elapsed \in Nat
      BY <1>5, RunTyping DEF LookupRoles, Run
    <2>2. CASE /\ run[w].elapsed <= Timeout /\ run[w].verdict = "pending" /\ role[run[w].job]
               /\ Goto(w, "send", "pending")
      <3>1. roleless[run[w].job] = 0
        BY <2>1, <2>2 DEF FitInv
      <3>2. unfit[run[w].job] <= run[w].elapsed
        BY <1>5, <2>2 DEF LookupRoles, FitInv, FitFor
      <3>3. FitFor(w)'
        BY <2>1, <2>2, <3>1, <3>2, FitGoto DEF FitFor, directory
      <3>4. QED
        BY <2>1, <2>2, <3>3, FitGoto, FitMove
    <2>3. ASSUME NEW v, Goto(w, "decided", v) PROVE FitInv'
      BY <1>2, <2>1, <2>3
    <2>4. QED
      BY <1>5, <2>2, <2>3, RolesOutcomes DEF TryLater, Decide
  <1>6. ASSUME NEW w \in Worker, Send(w) PROVE FitInv'
    <2>1. \E v \in {"sent", "failed", "pending"} : Goto(w, "decided", v)
      BY <1>6 DEF Send, TryLater, Decide
    <2>2. QED
      BY <1>2, <1>6, <2>1 DEF Send
  <1>7. ASSUME NEW w \in Worker, Finish(w) \/ Lose(w) PROVE FitInv'
    <2>1. run'[w].phase = "idle" /\ \A x \in Worker : x # w => run'[x] = run[x]
      BY <1>7 DEF Finish, Lose, Idle, TypeOK
    <2>2. QED
      BY <1>7, <2>1, FitMove DEF Finish, Lose, FitFor
  <1>8. CASE UNCHANGED <<run, directory>>
    BY <1>8 DEF FitInv, FitFor, directory
  <1>9. QED
    BY <1>1, <1>3, <1>4, <1>5, <1>6, <1>7, <1>8, FitAdministration, FitTick, Steps DEF Queue, vars

LEMMA RecentlyStep ==
  ASSUME TypeOK, FitInv, [Next]_vars, mails' # mails
  PROVE  \A j \in Job : mails'[j] > mails[j] => unfit[j] <= Timeout /\ roleless[j] <= Timeout
  <1>1. PICK w \in Worker : Send(w)
    BY AdministrationApart, Steps
       DEF Claim, Begin, LookupUser, LookupRoles, Finish, Lose, Queue, Tick, provider, vars
  <1>2. run[w].phase = "send" /\ run[w].elapsed <= Timeout /\ Accept(run[w].job)
    BY <1>1 DEF Send, provider
  <1>3. unfit[run[w].job] <= Timeout /\ roleless[run[w].job] <= Timeout
    BY <1>1, <1>2, RunTyping DEF FitInv, FitFor, Run, TypeOK
  <1>4. ASSUME NEW j \in Job, mails'[j] > mails[j] PROVE j = run[w].job
    <2>1. CASE j # run[w].job
      BY <1>2, <1>4, <2>1 DEF Accept, TypeOK
    <2>2. QED
      BY <2>1
  <1>5. QED
    BY <1>3, <1>4

(* A message goes out only to a recipient whose account was found fit and,   *)
(* by the second read, in the role, both within the limit of one attempt,    *)
(* whatever administrators do before, between and after the two reads.       *)
THEOREM SentToEligible == Spec => RecentlyEligible
  <1>1. Init => FitInv
    BY DEF Init, FitInv, FitFor, Idle
  <1>2. TypeOK /\ FitInv /\ [Next]_vars =>
          [\A j \in Job : mails'[j] > mails[j] => unfit[j] <= Timeout /\ roleless[j] <= Timeout]_mails
    BY RecentlyStep
  <1>3. QED
    BY <1>1, <1>2, FitStep, TypeCorrect, PTL DEF Spec, RecentlyEligible
-------------------------------------------------------------------------------
(* No job causes more than MaxAttempts requests.  An attempt makes one       *)
(* request at most, and only if its number is within the limit; so requests  *)
(* made, together with the attempts within the limit that may still make     *)
(* one, are no more than the claims within the limit.                        *)
Unsent(j) ==
  {w \in Worker : Trying(w) /\ run[w].job = j /\ run[w].attempt <= MaxAttempts}

LimitInv ==
  \A w \in Worker : run[w].phase \in {"lookup", "roles", "send"} => run[w].attempt <= MaxAttempts

BudgetInv ==
  \A j \in Job :
    /\ IsFiniteSet(Unsent(j))
    /\ requests[j] + Cardinality(Unsent(j)) <= Least(attempts[j], MaxAttempts)

LEMMA ShrinkingBudget ==
  ASSUME TypeOK, BudgetInv, NEW j \in Job, Unsent(j)' \subseteq Unsent(j),
         requests'[j] = requests[j], attempts'[j] = attempts[j]
  PROVE  /\ IsFiniteSet(Unsent(j)')
         /\ requests'[j] + Cardinality(Unsent(j)') <= Least(attempts'[j], MaxAttempts)
  <1>1. IsFiniteSet(Unsent(j)') /\ Cardinality(Unsent(j)') <= Cardinality(Unsent(j))
    BY FS_Subset DEF BudgetInv
  <1>2. Cardinality(Unsent(j)') \in Nat /\ Cardinality(Unsent(j)) \in Nat
    BY <1>1, FS_CardinalityType DEF BudgetInv
  <1>3. requests[j] \in Nat /\ attempts[j] \in Nat
    BY DEF TypeOK
  <1>4. requests[j] + Cardinality(Unsent(j)) <= Least(attempts[j], MaxAttempts)
    BY DEF BudgetInv
  <1>5. QED
    BY <1>1, <1>2, <1>3, <1>4 DEF Least

LEMMA ClaimBudget ==
  ASSUME TypeOK, BudgetInv, NEW w \in Worker, NEW j \in Job, Claim(w, j)
  PROVE  BudgetInv'
  <1>1. /\ run'[w] = [phase |-> "claimed", job |-> j, attempt |-> attempts[j] + 1,
                      elapsed |-> 0, verdict |-> "pending"]
        /\ \A v \in Worker : v # w => run'[v] = run[v]
        /\ run[w].phase = "idle"
    BY DEF Claim, TypeOK
  <1>2. /\ attempts'[j] = attempts[j] + 1 /\ attempts[j] \in Nat
        /\ \A i \in Job : i # j => attempts'[i] = attempts[i]
        /\ requests' = requests /\ requests[j] \in Nat
    BY DEF Claim, TypeOK, provider
  <1>3. ASSUME NEW i \in Job, i # j
        PROVE  Unsent(i)' \subseteq Unsent(i)
    BY <1>1, <1>3 DEF Unsent, Trying
  <1>4. CASE attempts[j] + 1 <= MaxAttempts
    <2>1. Unsent(j)' = Unsent(j) \cup {w} /\ w \notin Unsent(j)
      BY <1>1, <1>4 DEF Unsent, Trying
    <2>2. /\ IsFiniteSet(Unsent(j)')
          /\ Cardinality(Unsent(j)') = Cardinality(Unsent(j)) + 1
          /\ Cardinality(Unsent(j)) \in Nat
      BY <2>1, FS_AddElement, FS_CardinalityType DEF BudgetInv
    <2>3. requests[j] + Cardinality(Unsent(j)) <= Least(attempts[j], MaxAttempts)
      BY DEF BudgetInv
    <2>4. requests'[j] + Cardinality(Unsent(j)') <= Least(attempts'[j], MaxAttempts)
      BY <1>2, <1>4, <2>2, <2>3 DEF Least
    <2>5. QED
      BY <1>2, <1>3, <2>2, <2>4, ShrinkingBudget DEF BudgetInv
  <1>5. CASE ~(attempts[j] + 1 <= MaxAttempts)
    <2>1. Unsent(j)' = Unsent(j)
      BY <1>1, <1>5 DEF Unsent, Trying
    <2>2. IsFiniteSet(Unsent(j)) /\ Cardinality(Unsent(j)) \in Nat
      BY FS_CardinalityType DEF BudgetInv
    <2>3. requests[j] + Cardinality(Unsent(j)) <= Least(attempts[j], MaxAttempts)
      BY DEF BudgetInv
    <2>4. requests'[j] + Cardinality(Unsent(j)') <= Least(attempts'[j], MaxAttempts)
      BY <1>2, <1>5, <2>1, <2>2, <2>3 DEF Least
    <2>5. QED
      BY <1>2, <1>3, <2>1, <2>2, <2>4, ShrinkingBudget DEF BudgetInv
  <1>6. QED
    BY <1>4, <1>5

LEMMA SendBudget ==
  ASSUME TypeOK, LimitInv, BudgetInv, NEW w \in Worker, Send(w)
  PROVE  BudgetInv'
  <1>1. run[w].phase = "send" /\ run[w].attempt <= MaxAttempts /\ run[w].job \in Job
    BY RunTyping DEF Send, LimitInv
  <1>2. PICK j \in Job : j = run[w].job
    BY <1>1
  <1>3. /\ run'[w].phase = "decided"
        /\ \A v \in Worker : v # w => run'[v] = run[v]
    BY DEF Send, TryLater, Decide, Goto, TypeOK
  <1>4. \A i \in Job : Unsent(i)' \subseteq Unsent(i)
    BY <1>3 DEF Unsent, Trying
  <1>5. attempts' = attempts
    BY DEF Send, job
  <1>6. CASE UNCHANGED requests
    BY <1>4, <1>5, <1>6, ShrinkingBudget DEF BudgetInv
  <1>7. CASE requests' = [requests EXCEPT ![j] = requests[j] + 1]
    <2>1. /\ requests'[j] = requests[j] + 1 /\ requests[j] \in Nat /\ attempts[j] \in Nat
          /\ \A i \in Job : i # j => requests'[i] = requests[i]
      BY <1>2, <1>7 DEF TypeOK
    <2>2. Unsent(j)' \subseteq Unsent(j) \ {w} /\ w \in Unsent(j)
      BY <1>1, <1>2, <1>3 DEF Unsent, Trying
    <2>3. IsFiniteSet(Unsent(j)) /\ Cardinality(Unsent(j)) \in Nat
      BY <1>2, FS_CardinalityType DEF BudgetInv
    <2>4. IsFiniteSet(Unsent(j) \ {w}) /\ Cardinality(Unsent(j) \ {w}) = Cardinality(Unsent(j)) - 1
      BY <2>2, <2>3, FS_RemoveElement
    <2>5. IsFiniteSet(Unsent(j)') /\ Cardinality(Unsent(j)') <= Cardinality(Unsent(j)) - 1
      BY <2>2, <2>4, FS_Subset
    <2>6. Cardinality(Unsent(j)') \in Nat
      BY <2>5, FS_CardinalityType
    <2>7. requests[j] + Cardinality(Unsent(j)) <= Least(attempts[j], MaxAttempts)
      BY <1>2 DEF BudgetInv
    <2>8. requests'[j] + Cardinality(Unsent(j)') <= Least(attempts'[j], MaxAttempts)
      BY <1>5, <2>1, <2>3, <2>5, <2>6, <2>7 DEF Least
    <2>9. ASSUME NEW i \in Job, i # j
          PROVE  /\ IsFiniteSet(Unsent(i)')
                 /\ requests'[i] + Cardinality(Unsent(i)') <= Least(attempts'[i], MaxAttempts)
      BY <1>4, <1>5, <2>1, <2>9, ShrinkingBudget
    <2>10. QED
      BY <2>5, <2>8, <2>9 DEF BudgetInv
  <1>8. QED
    BY <1>2, <1>6, <1>7 DEF Send, provider

LEMMA BudgetStep ==
  ASSUME TypeOK, LimitInv, BudgetInv, [Next]_vars
  PROVE  LimitInv' /\ BudgetInv'
  <1>1. ASSUME UNCHANGED requests, UNCHANGED attempts, \A j \in Job : Unsent(j)' \subseteq Unsent(j)
        PROVE  BudgetInv'
    BY <1>1, ShrinkingBudget DEF BudgetInv
  <1>2. ASSUME NEW w \in Worker, NEW j \in Job, Claim(w, j) PROVE LimitInv' /\ BudgetInv'
    <2>1. LimitInv'
      BY <1>2 DEF Claim, LimitInv, TypeOK
    <2>2. QED
      BY <1>2, <2>1, ClaimBudget
  <1>3. ASSUME NEW w \in Worker, Begin(w) PROVE LimitInv' /\ BudgetInv'
    <2>1. /\ run[w].phase = "claimed"
          /\ run'[w].job = run[w].job /\ run'[w].attempt = run[w].attempt
          /\ run'[w].phase = "decided" \/ (run'[w].phase = "lookup" /\ run[w].attempt <= MaxAttempts)
          /\ \A v \in Worker : v # w => run'[v] = run[v]
      BY <1>3, RunTyping DEF Begin, Decide, Goto, TypeOK, Run
    <2>2. LimitInv'
      BY <2>1 DEF LimitInv
    <2>3. \A j \in Job : Unsent(j)' \subseteq Unsent(j)
      BY <2>1 DEF Unsent, Trying
    <2>4. QED
      BY <1>1, <1>3, <2>2, <2>3 DEF Begin, job, provider
  <1>4. ASSUME NEW w \in Worker, LookupUser(w) \/ LookupRoles(w) PROVE LimitInv' /\ BudgetInv'
    <2>1. /\ run[w].phase \in {"lookup", "roles"}
          /\ \E v : Goto(w, "decided", v) \/ Goto(w, "roles", v) \/ Goto(w, "send", v)
      BY <1>4, UserOutcomes, RolesOutcomes DEF TryLater, Decide
    <2>2. /\ run'[w].job = run[w].job /\ run'[w].attempt = run[w].attempt
          /\ run'[w].phase \in {"decided", "roles", "send"}
          /\ \A v \in Worker : v # w => run'[v] = run[v]
      BY <2>1 DEF Goto, TypeOK
    <2>3. LimitInv'
      BY <2>1, <2>2 DEF LimitInv
    <2>4. \A j \in Job : Unsent(j)' \subseteq Unsent(j)
      BY <2>1, <2>2 DEF Unsent, Trying
    <2>5. QED
      BY <1>1, <1>4, <2>3, <2>4 DEF LookupUser, LookupRoles, job, provider
  <1>5. ASSUME NEW w \in Worker, Send(w) PROVE LimitInv' /\ BudgetInv'
    <2>1. /\ run'[w].phase = "decided"
          /\ \A v \in Worker : v # w => run'[v] = run[v]
      BY <1>5 DEF Send, TryLater, Decide, Goto, TypeOK
    <2>2. LimitInv'
      BY <2>1 DEF LimitInv
    <2>3. QED
      BY <1>5, <2>2, SendBudget
  <1>6. ASSUME NEW w \in Worker, Finish(w) \/ Lose(w) PROVE LimitInv' /\ BudgetInv'
    <2>1. /\ run'[w].phase = "idle"
          /\ \A v \in Worker : v # w => run'[v] = run[v]
      BY <1>6 DEF Finish, Lose, Idle, TypeOK
    <2>2. LimitInv'
      BY <2>1 DEF LimitInv
    <2>3. \A j \in Job : Unsent(j)' \subseteq Unsent(j)
      BY <2>1 DEF Unsent, Trying
    <2>4. QED
      BY <1>1, <1>6, <2>2, <2>3 DEF Finish, Lose, job, provider
  <1>7. CASE Tick
    <2>1. \A v \in Worker : /\ run'[v].phase = run[v].phase /\ run'[v].job = run[v].job
                            /\ run'[v].attempt = run[v].attempt
      BY <1>7 DEF Tick
    <2>2. LimitInv'
      BY <2>1 DEF LimitInv
    <2>3. \A j \in Job : Unsent(j)' \subseteq Unsent(j)
      BY <2>1 DEF Unsent, Trying
    <2>4. QED
      BY <1>1, <1>7, <2>2, <2>3 DEF Tick
  <1>8. ASSUME UNCHANGED <<run, requests, attempts>> PROVE LimitInv' /\ BudgetInv'
    BY <1>1, <1>8 DEF LimitInv, Unsent, Trying
  <1>9. QED
    BY <1>2, <1>3, <1>4, <1>5, <1>6, <1>7, <1>8, AdministrationApart, Steps
       DEF Queue, vars, job, provider

(* A spent job leaves the queue.  It is put back as pending only below the   *)
(* limit; so a job that is open with nobody at work under its lease has been *)
(* claimed less often than the limit and the faults allow.                   *)
PendingInv ==
  \A w \in Worker :
    run[w].phase = "decided" /\ run[w].verdict \in Open => run[w].attempt < MaxAttempts

ClaimsOf(j) ==
  /\ attempts[j] <= MaxAttempts + faults
  /\ status[j] \in Open /\ ~Held(j) => attempts[j] < MaxAttempts + faults

ClaimsInv == \A j \in Job : ClaimsOf(j)

LEMMA ClaimsKept ==
  ASSUME TypeOK, TypeOK', NEW j \in Job, ClaimsOf(j), attempts'[j] = attempts[j],
         faults' >= faults, status'[j] \in Open => status[j] \in Open,
         Held(j) => Held(j)'
  PROVE  ClaimsOf(j)'
  <1>1. attempts[j] \in Nat /\ faults \in Nat /\ faults' \in Nat
    BY DEF TypeOK
  <1>2. QED
    BY <1>1 DEF ClaimsOf

(* An attempt that moves on still holds what it held. *)
LEMMA MoveHeld ==
  ASSUME TypeOK, NEW w \in Worker, run[w].phase # "idle",
         NEW p \in {"lookup", "roles", "send", "decided"}, NEW v, Goto(w, p, v), UNCHANGED job,
         NEW j \in Job, Held(j)
  PROVE  Held(j)'
  <1>1. PICK x \in Worker :
          run[x].phase # "idle" /\ run[x].job = j /\ run[x].attempt = lease[j]
    BY DEF Held
  <1>2. run'[x].phase # "idle" /\ run'[x].job = j /\ run'[x].attempt = lease'[j]
    BY <1>1 DEF Goto, TypeOK, job
  <1>3. QED
    BY <1>2 DEF Held

LEMMA MoveClaims ==
  ASSUME TypeOK, TypeOK', PendingInv, ClaimsInv, NEW w \in Worker, run[w].phase # "idle",
         NEW p \in {"lookup", "roles", "send", "decided"}, NEW v, Goto(w, p, v),
         p = "decided" /\ v \in Open => run[w].attempt < MaxAttempts,
         UNCHANGED <<job, faults>>
  PROVE  PendingInv' /\ ClaimsInv'
  <1>1. /\ run'[w].phase = p /\ run'[w].verdict = v /\ run'[w].attempt = run[w].attempt
        /\ \A x \in Worker : x # w => run'[x] = run[x]
    BY DEF Goto, TypeOK
  <1>2. PendingInv'
    BY <1>1 DEF PendingInv
  <1>3. faults' >= faults
    BY DEF TypeOK
  <1>4. ASSUME NEW j \in Job PROVE ClaimsOf(j)'
    BY <1>3, MoveHeld, ClaimsKept DEF ClaimsInv, job
  <1>5. QED
    BY <1>2, <1>4 DEF ClaimsInv

LEMMA ClaimClaims ==
  ASSUME TypeOK, TypeOK', PendingInv, ClaimsInv, NEW w \in Worker, NEW j \in Job, Claim(w, j)
  PROVE  PendingInv' /\ ClaimsInv'
  <1>1. /\ run'[w] = [phase |-> "claimed", job |-> j, attempt |-> attempts[j] + 1,
                      elapsed |-> 0, verdict |-> "pending"]
        /\ \A v \in Worker : v # w => run'[v] = run[v]
        /\ run[w].phase = "idle" /\ status[j] \in Open
    BY DEF Claim, Due, TypeOK
  <1>2. /\ attempts'[j] = attempts[j] + 1 /\ lease'[j] = attempts[j] + 1
        /\ \A i \in Job : i # j => /\ attempts'[i] = attempts[i] /\ lease'[i] = lease[i]
                                  /\ status'[i] = status[i]
    BY DEF Claim, TypeOK
  <1>3. PendingInv'
    BY <1>1 DEF PendingInv
  <1>4. /\ attempts[j] \in Nat /\ faults \in Nat
        /\ IF Held(j) THEN faults' = faults + 1 ELSE faults' = faults
    BY DEF Claim, TypeOK
  <1>5. ClaimsOf(j)'
    <2>1. Held(j)'
      BY <1>1, <1>2 DEF Held
    <2>2. attempts'[j] <= MaxAttempts + faults'
      BY <1>1, <1>2, <1>4 DEF ClaimsInv, ClaimsOf
    <2>3. QED
      BY <2>1, <2>2 DEF ClaimsOf
  <1>6. ASSUME NEW i \in Job, i # j PROVE ClaimsOf(i)'
    <2>1. Held(i) => Held(i)'
      BY <1>1, <1>2, <1>6 DEF Held
    <2>2. QED
      BY <1>2, <1>4, <1>6, <2>1, ClaimsKept DEF ClaimsInv
  <1>7. QED
    BY <1>3, <1>5, <1>6 DEF ClaimsInv

LEMMA FinishClaims ==
  ASSUME IInv, TypeOK', PendingInv, ClaimsInv, NEW w \in Worker, Finish(w)
  PROVE  PendingInv' /\ ClaimsInv'
  <1>1. TypeOK /\ run[w].phase = "decided" /\ run[w] \in Run /\ run[w].job \in Job
    BY RunTyping DEF IInv, Finish
  <1>2. PICK i \in Job : i = run[w].job
    BY <1>1
  <1>3. /\ run'[w].phase = "idle" /\ attempts' = attempts /\ faults' = faults
        /\ \A x \in Worker : x # w => run'[x] = run[x]
    BY <1>1, <1>2 DEF Finish, Idle, TypeOK
  <1>4. PendingInv'
    BY <1>3 DEF PendingInv
  <1>5. faults' >= faults
    BY <1>1, <1>2, <1>3 DEF TypeOK
  <1>6. ASSUME NEW j \in Job, j # i \/ lease[j] # run[w].attempt PROVE ClaimsOf(j)'
    <2>1. status'[j] = status[j] /\ lease'[j] = lease[j]
      BY <1>1, <1>2, <1>6 DEF Finish, TypeOK
    <2>2. Held(j) => Held(j)'
      BY <1>1, <1>2, <1>3, <1>6, <2>1 DEF Held
    <2>3. QED
      BY <1>1, <1>2, <1>3, <1>5, <2>1, <2>2, ClaimsKept DEF ClaimsInv
  <1>7. ASSUME lease[i] = run[w].attempt PROVE ClaimsOf(i)'
    <2>1. AttemptInv(w) /\ NumbersInv
      BY <1>1, <1>2 DEF IInv, AttemptsInv
    <2>2. run[w].attempt = attempts[i] /\ status[i] = "sending"
      BY <1>1, <1>2, <1>7, <2>1 DEF AttemptInv, NumbersInv, Run
    <2>3. status'[i] = run[w].verdict
      BY <1>1, <1>2, <1>7, <2>2 DEF Finish, TypeOK
    <2>4. attempts[i] \in Nat /\ faults \in Nat /\ attempts[i] <= MaxAttempts + faults
      BY <1>1, <1>2 DEF TypeOK, ClaimsInv, ClaimsOf
    <2>5. status'[i] \in Open => attempts[i] < MaxAttempts + faults
      BY <1>1, <1>2, <2>2, <2>3, <2>4 DEF PendingInv
    <2>6. QED
      BY <1>3, <2>4, <2>5 DEF ClaimsOf
  <1>8. QED
    BY <1>4, <1>6, <1>7 DEF ClaimsInv

LEMMA ClaimsStep ==
  ASSUME IInv, AbsentInv, PendingInv, ClaimsInv, [Next]_vars
  PROVE  PendingInv' /\ ClaimsInv'
  <1>1. TypeOK /\ TypeOK'
    BY StepTyping DEF IInv
  <1>2. ASSUME NEW w \in Worker, NEW p \in {"lookup", "roles", "send"}, NEW v, Goto(w, p, v),
               run[w].phase # "idle", UNCHANGED <<job, faults>>
        PROVE  PendingInv' /\ ClaimsInv'
    BY <1>1, <1>2, MoveClaims
  <1>3. ASSUME NEW w \in Worker, run[w].phase # "idle", UNCHANGED <<job, faults>>,
               TryLater(w) \/ \E v \in Terminal : Decide(w, v)
        PROVE  PendingInv' /\ ClaimsInv'
    <2>1. run[w].attempt \in Nat
      BY <1>1, RunTyping DEF Run
    <2>2. PICK v : Goto(w, "decided", v) /\ (v \in Open => run[w].attempt < MaxAttempts)
      BY <1>3, <2>1 DEF TryLater, Decide, Terminal, Open
    <2>3. QED
      BY <1>1, <1>3, <2>2, MoveClaims
  <1>4. ASSUME NEW w \in Worker, Begin(w) PROVE PendingInv' /\ ClaimsInv'
    BY <1>2, <1>3, <1>4 DEF Begin, Terminal
  <1>5. ASSUME NEW w \in Worker, LookupUser(w) PROVE PendingInv' /\ ClaimsInv'
    BY <1>1, <1>2, <1>3, <1>5, UserOutcomes DEF LookupUser, Terminal
  <1>6. ASSUME NEW w \in Worker, LookupRoles(w) PROVE PendingInv' /\ ClaimsInv'
    <2>1. run[w].verdict \in {"pending", "cancelled", "failed"}
      BY <1>6 DEF LookupRoles, IInv, AttemptsInv, AttemptInv
    <2>2. \/ TryLater(w) \/ \E v \in Terminal : Decide(w, v)
          \/ Goto(w, "send", "pending")
      BY <1>1, <1>6, <2>1, RolesOutcomes DEF Terminal
    <2>3. QED
      BY <1>2, <1>3, <1>6, <2>2 DEF LookupRoles
  <1>7. ASSUME NEW w \in Worker, Send(w) PROVE PendingInv' /\ ClaimsInv'
    BY <1>3, <1>7 DEF Send, Terminal
  <1>8. ASSUME NEW w \in Worker, Lose(w) PROVE PendingInv' /\ ClaimsInv'
    <2>1. /\ run'[w].phase = "idle" /\ UNCHANGED job
          /\ faults \in Nat /\ faults' = faults + 1
          /\ \A x \in Worker : x # w => run'[x] = run[x]
      BY <1>1, <1>8 DEF Lose, Idle, TypeOK
    <2>2. PendingInv'
      BY <2>1 DEF PendingInv
    <2>3. ASSUME NEW j \in Job PROVE ClaimsOf(j)'
      <3>1. attempts'[j] = attempts[j] /\ attempts[j] \in Nat
        BY <1>1, <2>1 DEF TypeOK, job
      <3>2. attempts[j] <= MaxAttempts + faults
        BY DEF ClaimsInv, ClaimsOf
      <3>3. attempts'[j] < MaxAttempts + faults'
        BY <2>1, <3>1, <3>2
      <3>4. attempts'[j] <= MaxAttempts + faults'
        BY <2>1, <3>1, <3>2
      <3>5. QED
        BY <3>3, <3>4 DEF ClaimsOf
    <2>4. QED
      BY <2>2, <2>3 DEF ClaimsInv
  <1>9. ASSUME UNCHANGED <<status, attempts, lease, faults>>,
               \A w \in Worker : /\ run'[w].phase = run[w].phase /\ run'[w].job = run[w].job
                                 /\ run'[w].attempt = run[w].attempt
                                 /\ run'[w].verdict = run[w].verdict
        PROVE  PendingInv' /\ ClaimsInv'
    <2>1. PendingInv'
      BY <1>9 DEF PendingInv
    <2>2. faults' >= faults
      BY <1>1, <1>9 DEF TypeOK
    <2>3. ASSUME NEW j \in Job PROVE ClaimsOf(j)'
      <3>1. Held(j) => Held(j)'
        BY <1>9 DEF Held
      <3>2. QED
        BY <1>1, <1>9, <2>2, <3>1, ClaimsKept DEF ClaimsInv
    <2>4. QED
      BY <2>1, <2>3 DEF ClaimsInv
  <1>10. CASE Tick
    BY <1>9, <1>10 DEF Tick
  <1>11. ASSUME NEW j \in Job, Administration(j) PROVE PendingInv' /\ ClaimsInv'
    BY <1>9, <1>11, AdministrationApart DEF job
  <1>12. ASSUME NEW j \in Job, Queue(j) PROVE PendingInv' /\ ClaimsInv'
    <2>1. PendingInv' /\ faults' >= faults /\ faults \in Nat
      BY <1>1, <1>12 DEF Queue, PendingInv, TypeOK
    <2>2. ASSUME NEW i \in Job, i # j PROVE ClaimsOf(i)'
      <3>1. status'[i] = status[i] /\ (Held(i) => Held(i)')
        BY <1>1, <1>12, <2>2 DEF Queue, Held, TypeOK
      <3>2. QED
        BY <1>1, <1>12, <2>1, <3>1, ClaimsKept DEF ClaimsInv, Queue
    <2>3. attempts'[j] = 0
      BY <1>12 DEF Queue, AbsentInv
    <2>4. ClaimsOf(j)'
      BY <1>12, <2>1, <2>3 DEF ClaimsOf, Queue
    <2>5. QED
      BY <2>1, <2>2, <2>4 DEF ClaimsInv
  <1>13. CASE UNCHANGED vars
    BY <1>9, <1>13 DEF vars, job
  <1>14. QED
    BY <1>1, <1>4, <1>5, <1>6, <1>7, <1>8, <1>10, <1>11, <1>12, <1>13, ClaimClaims, FinishClaims, Steps

(* At most MaxAttempts requests for a job, whatever crashes and however many *)
(* workers outlive their leases; and at most one claim for each attempt      *)
(* allowed and each such fault.                                              *)
THEOREM RequestsLimited == Spec => []RequestsBounded
  <1>1. Init => LimitInv /\ BudgetInv
    <2>1. ASSUME Init, NEW j \in Job PROVE Unsent(j) = {}
      BY <2>1 DEF Init, Idle, Unsent, Trying
    <2>2. ASSUME Init PROVE BudgetInv
      <3>1. ASSUME NEW j \in Job
            PROVE  IsFiniteSet(Unsent(j)) /\ Cardinality(Unsent(j)) = 0
        BY <2>1, <2>2, FS_EmptySet
      <3>2. ASSUME NEW j \in Job
            PROVE  requests[j] + Cardinality(Unsent(j)) <= Least(attempts[j], MaxAttempts)
        <4>1. requests[j] = 0 /\ attempts[j] = 0
          BY <2>2 DEF Init
        <4>2. QED
          BY <3>1, <4>1 DEF Least
      <3>3. QED
        BY <3>1, <3>2 DEF BudgetInv
    <2>3. QED
      BY <2>2 DEF Init, LimitInv, Idle
  <1>2. Init => PendingInv /\ ClaimsInv
    BY DEF Init, PendingInv, ClaimsInv, ClaimsOf, Idle
  <1>3. TypeOK /\ BudgetInv /\ ClaimsInv => RequestsBounded
    <2>1. ASSUME TypeOK, BudgetInv, NEW j \in Job PROVE requests[j] <= MaxAttempts
      <3>1. Cardinality(Unsent(j)) \in Nat
        BY <2>1, FS_CardinalityType DEF BudgetInv
      <3>2. requests[j] \in Nat /\ attempts[j] \in Nat
        BY <2>1 DEF TypeOK
      <3>3. requests[j] + Cardinality(Unsent(j)) <= Least(attempts[j], MaxAttempts)
        BY <2>1 DEF BudgetInv
      <3>4. QED
        BY <3>1, <3>2, <3>3 DEF Least
    <2>2. QED
      BY <2>1 DEF RequestsBounded, ClaimsInv, ClaimsOf
  <1>4. QED
    BY <1>1, <1>2, <1>3, BudgetStep, ClaimsStep, TypeCorrect, Invariance, PTL DEF Spec
-------------------------------------------------------------------------------
(* The outbox implements MailPromise: a request is a Try, a stored result a  *)
(* Settle, and every other step leaves the abstract view as it was.          *)
DeliveredInv ==
  \A j \in Job : accepted[j] # {} \/ key[j] # 0 => mails[j] = 1

Outcome == [j \in Job |-> IF status[j] \in Open THEN "open" ELSE status[j]]

(* Once the provider has taken a request, the message is delivered. *)
LEMMA AcceptDelivers ==
  ASSUME TypeOK, KeyInv', DeliveredInv, NEW j \in Job, Accept(j)
  PROVE  /\ mails' = mails \/ (mails[j] = 0 /\ mails' = [mails EXCEPT ![j] = 1])
         /\ mails'[j] = 1
         /\ \A i \in Job : i # j => mails'[i] = mails[i] /\ key'[i] = key[i]
  <1>1. mails[j] \in Nat /\ mails \in [Job -> Nat] /\ key \in [Job -> Nat]
    BY DEF TypeOK
  <1>2. \A i \in Job : i # j => mails'[i] = mails[i] /\ key'[i] = key[i]
    BY <1>1 DEF Accept
  <1>3. CASE key[j] = 0
    <2>1. mails' = [mails EXCEPT ![j] = mails[j] + 1] /\ mails'[j] = mails[j] + 1
      BY <1>1, <1>3 DEF Accept
    <2>2. mails'[j] = 0 \/ mails'[j] = 1
      BY DEF KeyInv
    <2>3. mails[j] = 0
      BY <1>1, <2>1, <2>2
    <2>4. QED
      BY <1>2, <2>1, <2>3
  <1>4. CASE key[j] # 0
    <2>1. mails[j] = 1
      BY <1>4 DEF DeliveredInv
    <2>2. mails' = mails
      BY <1>1, <1>4 DEF Accept
    <2>3. QED
      BY <1>2, <2>1, <2>2
  <1>5. QED
    BY <1>3, <1>4

LEMMA DeliveredStep ==
  ASSUME TypeOK, KeyInv', DeliveredInv, [Next]_vars
  PROVE  DeliveredInv'
  <1>1. ASSUME UNCHANGED <<accepted, mails>>, \A j \in Job : key'[j] # 0 => key[j] # 0
        PROVE  DeliveredInv'
    BY <1>1 DEF DeliveredInv
  <1>2. ASSUME NEW w \in Worker, Send(w) PROVE DeliveredInv'
    <2>1. run[w].job \in Job
      BY <1>2, RunTyping DEF Send
    <2>2. PICK j \in Job : j = run[w].job
      BY <2>1
    <2>3. \A i \in Job : i # j => accepted'[i] = accepted[i]
      BY <1>2, <2>2 DEF Send, provider, TypeOK
    <2>4. CASE Accept(j)
      <3>1. /\ mails'[j] = 1
            /\ \A i \in Job : i # j => mails'[i] = mails[i] /\ key'[i] = key[i]
        BY <2>4, AcceptDelivers
      <3>2. QED
        BY <2>3, <3>1 DEF DeliveredInv
    <2>5. CASE UNCHANGED <<accepted, key, mails>>
      BY <1>1, <2>5
    <2>6. QED
      BY <1>2, <2>2, <2>4, <2>5 DEF Send, provider
  <1>3. CASE Tick
    <2>1. \A j \in Job : key'[j] # 0 => key[j] # 0
      BY <1>3 DEF Tick, Greatest, TypeOK
    <2>2. QED
      BY <1>1, <1>3, <2>1 DEF Tick
  <1>4. CASE UNCHANGED provider
    BY <1>1, <1>4 DEF provider
  <1>5. QED
    BY <1>2, <1>3, <1>4, AdministrationApart, Steps
       DEF Claim, Begin, LookupUser, LookupRoles, Finish, Lose, Queue, vars

(* A request counts as one try, and delivers at most the first message. *)
LEMMA SendPromise ==
  ASSUME IInv, AbsentInv, KeyInv', RequestsBounded', DeliveredInv, NEW w \in Worker, Send(w)
  PROVE  [Promise!Next]_(Promise!vars)
  <1>1. TypeOK /\ run[w].phase = "send" /\ run[w].job \in Job /\ run[w] \in Run
    BY RunTyping DEF IInv, Send
  <1>2. PICK j \in Job : j = run[w].job
    BY <1>1
  <1>3. UNCHANGED status
    BY DEF Send, job
  <1>4. CASE UNCHANGED provider
    BY <1>3, <1>4 DEF provider, Promise!vars
  <1>5. CASE /\ requests' = [requests EXCEPT ![j] = requests[j] + 1]
             /\ Accept(j) \/ UNCHANGED mails
    <2>1. requests[j] \in Nat /\ requests'[j] = requests[j] + 1 /\ requests'[j] <= MaxAttempts
      BY <1>1, <1>5 DEF TypeOK, RequestsBounded
    <2>2. requests[j] < MaxAttempts
      BY <2>1
    <2>3. mails' = mails \/ (mails[j] = 0 /\ mails' = [mails EXCEPT ![j] = 1])
      BY <1>1, <1>5, AcceptDelivers
    <2>4. run[w].attempt \in Nat /\ run[w].attempt >= 1 /\ run[w].attempt <= attempts[j]
      BY <1>1, <1>2 DEF IInv, AttemptsInv, AttemptInv, Run
    <2>5. Outcome[j] # "absent"
      BY <2>4 DEF AbsentInv, Outcome
    <2>6. Promise!Try(j)
      BY <1>3, <1>5, <2>2, <2>3, <2>5 DEF Promise!Try, Outcome
    <2>7. QED
      BY <2>6 DEF Promise!Next
  <1>6. QED
    BY <1>2, <1>4, <1>5 DEF Send, provider

(* The worker that still holds the lease settles the job, or leaves it open. *)
LEMMA FinishPromise ==
  ASSUME IInv, DeliveredInv, NEW w \in Worker, Finish(w)
  PROVE  [Promise!Next]_(Promise!vars)
  <1>1. TypeOK /\ run[w].phase = "decided" /\ run[w] \in Run /\ run[w].job \in Job
    BY RunTyping DEF IInv, Finish
  <1>2. PICK j \in Job : j = run[w].job
    BY <1>1
  <1>3. UNCHANGED <<requests, mails>>
    BY DEF Finish, provider
  <1>4. CASE UNCHANGED status
    BY <1>3, <1>4 DEF Promise!vars
  <1>5. CASE status[j] = "sending" /\ status' = [status EXCEPT ![j] = run[w].verdict]
    <2>1. status \in [Job -> {"absent"} \cup Open \cup Terminal] /\ status[j] \in Open
      BY <1>1, <1>5 DEF TypeOK, Open
    <2>2. CASE run[w].verdict \in Open
      <3>1. \A i \in Job : {status[i], status'[i]} \subseteq Open \/ status'[i] = status[i]
        BY <1>5, <2>1, <2>2
      <3>2. Outcome' = Outcome
        BY <3>1 DEF Outcome
      <3>3. QED
        BY <1>3, <3>2 DEF Promise!vars, Outcome
    <2>3. CASE run[w].verdict \notin Open
      <3>1. run[w].verdict \in {"sent", "failed", "cancelled"}
        BY <1>1, <2>3 DEF Run, Terminal
      <3>2. PICK r \in {"sent", "failed", "cancelled"} : r = run[w].verdict
        BY <3>1
      <3>3. r = "sent" => mails[j] = 1
        BY <1>1, <1>2, <3>2 DEF IInv, AttemptsInv, AttemptInv, DeliveredInv
      <3>4. Outcome' = [Outcome EXCEPT ![j] = r]
        <4>1. \A i \in Job : status'[i] = IF i = j THEN r ELSE status[i]
          BY <1>5, <2>1, <3>2
        <4>2. Outcome' = [i \in Job |-> IF i = j THEN r ELSE Outcome[i]]
          BY <2>3, <3>2, <4>1 DEF Outcome
        <4>3. QED
          BY <4>2 DEF Outcome
      <3>5. Outcome[j] = "open"
        BY <2>1 DEF Outcome
      <3>6. Promise!Settle(j, r)
        BY <1>3, <3>3, <3>4, <3>5 DEF Promise!Settle, Outcome
      <3>7. Promise!Next
        BY <3>6 DEF Promise!Next
      <3>8. QED
        BY <3>7
    <2>4. QED
      BY <2>2, <2>3
  <1>6. QED
    BY <1>2, <1>4, <1>5 DEF Finish

LEMMA QueuePromise ==
  ASSUME TypeOK, NEW j \in Job, Queue(j)
  PROVE  Promise!Next
  <1>1. \A i \in Job : status'[i] = IF i = j THEN "pending" ELSE status[i]
    BY DEF Queue, TypeOK
  <1>2. Outcome' = [i \in Job |-> IF i = j THEN "open" ELSE Outcome[i]]
    BY <1>1 DEF Outcome, Open
  <1>3. Outcome' = [Outcome EXCEPT ![j] = "open"]
    BY <1>2 DEF Outcome
  <1>4. Outcome[j] = "absent"
    BY DEF Queue, Outcome, Open
  <1>5. Promise!Queue(j)
    BY <1>3, <1>4 DEF Queue, provider, Promise!Queue, Outcome
  <1>6. QED
    BY <1>5 DEF Promise!Next

LEMMA PromiseStep ==
  ASSUME IInv, AbsentInv, IInv', RequestsBounded', DeliveredInv, [Next]_vars
  PROVE  [Promise!Next]_(Promise!vars)
  <1>1. TypeOK /\ KeyInv'
    BY DEF IInv
  <1>2. ASSUME NEW w \in Worker, NEW j \in Job, Claim(w, j)
        PROVE  [Promise!Next]_(Promise!vars)
    <2>1. \A i \in Job : {status[i], status'[i]} \subseteq Open \/ status'[i] = status[i]
      BY <1>1, <1>2 DEF Claim, Due, Open, TypeOK
    <2>2. Outcome' = Outcome
      BY <2>1 DEF Outcome
    <2>3. QED
      BY <1>2, <2>2 DEF Claim, provider, Promise!vars, Outcome
  <1>3. CASE UNCHANGED <<status, requests, mails>>
    BY <1>3 DEF Promise!vars
  <1>4. QED
    BY <1>1, <1>2, <1>3, SendPromise, FinishPromise, QueuePromise,
       AdministrationApart, Steps
       DEF Begin, LookupUser, LookupRoles, Lose, Tick, vars, job, provider

(* The queue of leases keeps the promise of a mail that is delivered at most *)
(* once in a bounded number of requests, with a result recorded for good.    *)
THEOREM OutboxKeepsPromise == Spec => KeepsPromise
  <1>1. Init => Promise!Init
    BY DEF Init, Promise!Init, Open
  <1>2. Init => DeliveredInv
    BY DEF Init, DeliveredInv
  <1>3. IInv' => KeyInv'
    BY DEF IInv
  <1>4. IInv => TypeOK
    BY DEF IInv
  <1>5. QED
    BY <1>1, <1>2, <1>3, <1>4, DeliveredStep, PromiseStep, Invariance, RequestsLimited, PTL
       DEF Spec, KeepsPromise, Promise!Spec

(* What the promise is worth: a job recorded sent has been delivered.  It    *)
(* follows from the abstract specification alone.                            *)
LEMMA PromiseDelivers == KeepsPromise => []Promise!Delivered
  <1>1. Promise!Init => Promise!Delivered
    BY DEF Promise!Init, Promise!Delivered
  <1>2. ASSUME Promise!Delivered, [Promise!Next]_(Promise!vars)
        PROVE  Promise!Delivered'
    <2>1. CASE UNCHANGED Promise!vars
      BY <1>2, <2>1 DEF Promise!Delivered, Promise!vars
    <2>2. ASSUME NEW j \in Job, Promise!Try(j) PROVE Promise!Delivered'
      <3>1. /\ mails' = mails \/ mails' = [mails EXCEPT ![j] = 1]
            /\ Outcome' = Outcome
        BY <2>2 DEF Promise!Try, Outcome
      <3>2. mails \in [Job -> {0, 1}] /\ \A i \in Job : Outcome[i] = "sent" => mails[i] = 1
        BY <1>2 DEF Promise!Delivered, Outcome
      <3>3. mails' \in [Job -> {0, 1}] /\ \A i \in Job : Outcome'[i] = "sent" => mails'[i] = 1
        BY <3>1, <3>2
      <3>4. QED
        BY <3>3 DEF Promise!Delivered, Outcome
    <2>3. ASSUME NEW j \in Job, NEW r \in {"sent", "failed", "cancelled"}, Promise!Settle(j, r)
          PROVE  Promise!Delivered'
      BY <1>2, <2>3 DEF Promise!Delivered, Promise!Settle
    <2>4. ASSUME NEW j \in Job, Promise!Queue(j) PROVE Promise!Delivered'
      <3>1. Outcome' = [Outcome EXCEPT ![j] = "open"] /\ mails' = mails
        BY <2>4 DEF Promise!Queue, Outcome
      <3>2. \A i \in Job : Outcome'[i] = "sent" => Outcome[i] = "sent"
        BY <3>1 DEF Outcome
      <3>3. QED
        BY <1>2, <3>1, <3>2 DEF Promise!Delivered, Outcome
    <2>5. QED
      BY <1>2, <2>1, <2>2, <2>3, <2>4 DEF Promise!Next
  <1>3. QED
    BY <1>1, <1>2, PTL DEF KeepsPromise, Promise!Spec

THEOREM SentIsDelivered == Spec => [](\A j \in Job : status[j] = "sent" => mails[j] = 1)
  <1>1. Promise!Delivered => \A j \in Job : status[j] = "sent" => mails[j] = 1
    BY DEF Promise!Delivered, Open
  <1>2. QED
    BY <1>1, OutboxKeepsPromise, PromiseDelivers, PTL
===============================================================================
