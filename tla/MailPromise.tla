----------------------------- MODULE MailPromise ------------------------------
(***************************************************************************)
(* What the e-mail outbox promises for each notification, with no workers, *)
(* leases, clocks or provider keys: nothing happens before the job is      *)
(* queued, the provider is asked a bounded number of times, one of these   *)
(* requests delivers the message, none delivers it again, and one result   *)
(* is recorded for good, "sent" only for a message that was delivered.     *)
(* After another result was recorded the message may still be delivered,   *)
(* by a request that was under way.  EmailOutbox is shown to implement     *)
(* this module.                                                            *)
(***************************************************************************)
EXTENDS Naturals

CONSTANTS
  Job,           \* e-mail jobs
  MaxAttempts    \* requests allowed for one job

VARIABLES
  outcome,       \* "absent" until queued, then "open", then the recorded result
  mails,         \* messages delivered
  tries          \* requests made

vars == <<outcome, mails, tries>>

Init ==
  /\ outcome = [j \in Job |-> "absent"]
  /\ mails = [j \in Job |-> 0]
  /\ tries = [j \in Job |-> 0]

Queue(j) ==
  /\ outcome[j] = "absent"
  /\ outcome' = [outcome EXCEPT ![j] = "open"]
  /\ UNCHANGED <<mails, tries>>

(* A request: it may deliver the message unless that was delivered before.   *)
Try(j) ==
  /\ outcome[j] # "absent"
  /\ tries[j] < MaxAttempts
  /\ tries' = [tries EXCEPT ![j] = tries[j] + 1]
  /\ mails' = mails \/ (mails[j] = 0 /\ mails' = [mails EXCEPT ![j] = 1])
  /\ UNCHANGED outcome

Settle(j, result) ==
  /\ outcome[j] = "open"
  /\ result = "sent" => mails[j] = 1
  /\ outcome' = [outcome EXCEPT ![j] = result]
  /\ UNCHANGED <<mails, tries>>

Next ==
  \E j \in Job : Queue(j) \/ Try(j) \/ \E r \in {"sent", "failed", "cancelled"} : Settle(j, r)

Spec == Init /\ [][Next]_vars

(* What a manager may rely on: one message at most, and a job recorded sent  *)
(* has been delivered.                                                       *)
Delivered ==
  /\ mails \in [Job -> {0, 1}]
  /\ \A j \in Job : outcome[j] = "sent" => mails[j] = 1
===============================================================================
