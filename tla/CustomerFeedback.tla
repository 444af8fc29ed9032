--------------------------- MODULE CustomerFeedback ---------------------------
(***************************************************************************)
(* The public feedback page (apps/smart-customer/src/app/feedback.ts and   *)
(* feedback.html) around the scanner of TransactionScanner and in front of *)
(* the endpoint that FeedbackLedger promises and FeedbackIntake models.    *)
(*                                                                         *)
(* Requests and answers can be delayed and lost on their own: the browser  *)
(* may give a request up that the server handles later, so a customer who  *)
(* sends again can be recorded twice.  Meanwhile the configuration changes *)
(* and the code of the staff member is regenerated or disabled.            *)
(*                                                                         *)
(* The name, the comment and the wording of errors are left out.           *)
(***************************************************************************)
EXTENDS TransactionScanner, Sequences

CONSTANTS
  Rating, Reason, Version,
  Terms,     \* the configurations the administrators put in force
  Phone,
  Clerk,     \* the staff member whose code the page was opened with
  House,     \* and the cinema
  Window,    \* the repeat window
  MaxPosts, MaxClock, MaxCodes   \* bounds of the model

VARIABLES
  screen, config, rating, reasons, phone, consent, submitting,
  submitError,  \* an error panel, with a button to reload, is on the form
  post,         \* the body of the request the page awaits
  reload,       \* the two answers the page awaits to show the form
  agreed,       \* history: the consent version shown when consent was ticked
  filling,      \* history: how many times the form was reset
  posts,        \* history: how many requests were sent
  told,         \* history: how many times the customer was told that it failed
  inForce,      \* the configuration on the server
  wire,         \* bodies sent that the server has not handled
  reply,        \* the server's answer to the awaited request
  origin,       \* history: the body behind each entry of the ledger
  ledger, issued, live, clock   \* FeedbackLedger

page == <<screen, config, rating, reasons, phone, consent, submitting, submitError,
          post, reload, agreed, filling, posts, told>>
server == <<inForce, origin, ledger, issued, live, clock>>
network == <<wire, reply>>
all == <<vars, page, server, network>>

Ledger == INSTANCE FeedbackLedger
            WITH Staff <- {Clerk}, Cinema <- {House}, Ticket <- Id, NoTicket <- None

Screen == {"form", "privacy", "loading", "thanks", "invalid", "error"}
Config == [version : Version, enabled : SUBSET Rating,
           ratings : [Reason -> SUBSET Rating], required : SUBSET Reason]
Body == [n : Nat, filling : Nat, told : Nat,
         rating : Rating, reasons : SUBSET Reason, phone : Phone,
         ticket : Id \cup {None}, version : Version, agreed : Version \cup {None}]
Reply == {"created", "gone", "refused"}
Reload == [token : {"asked", "resolved"}, config : Terms \cup {None}]

ASSUME PageAssumption ==
  /\ None \notin Rating \cup Version \cup Phone \cup Terms
  /\ None \notin Reply
  /\ Terms \subseteq Config
  /\ Window \in Nat /\ MaxPosts \in Nat /\ MaxClock \in Nat /\ MaxCodes \in Nat

-------------------------------------------------------------------------------
(* An active reason is one that some rating has; r.ratings.includes(rating).  *)
ReasonsForRating(cfg, r) == {q \in Reason : r \in cfg.ratings[q]}

requiredReasonsValid == ReasonsForRating(config, rating) \cap config.required \subseteq reasons

TextOf(id) == IF id = None THEN None ELSE [format |-> "plain", id |-> id]

(* The transaction field is on the form only.                                *)
Show(s) ==
  /\ screen' = s
  /\ \/ screen # "form" /\ s = "form" /\ Mount(TextOf(ticket.id))
     \/ screen = "form" /\ s # "form" /\ Destroy
     \/ (screen = "form") = (s = "form") /\ UNCHANGED field

OnForm == screen = "form" /\ ~helpOpen

\* Mutant: another rating keeps the reasons that were ticked.
RateKeepsReasons(r) ==
  /\ OnForm /\ r \in config.enabled
  /\ rating' = r
  /\ UNCHANGED <<field, ticket, server, network, screen, config, reasons, phone, consent,
                 submitting, submitError, post, reload, agreed, filling, posts, told>>

selectRating(r) ==
  /\ OnForm /\ r \in config.enabled
  /\ rating' = r
  /\ reasons' = {}
  /\ UNCHANGED <<field, ticket, server, network, screen, config, phone, consent,
                 submitting, submitError, post, reload, agreed, filling, posts, told>>

toggleReason(q) ==
  /\ OnForm /\ rating # None /\ q \in ReasonsForRating(config, rating)
  /\ reasons' = IF q \in reasons THEN reasons \ {q} ELSE reasons \cup {q}
  /\ UNCHANGED <<field, ticket, server, network, screen, config, rating, phone, consent,
                 submitting, submitError, post, reload, agreed, filling, posts, told>>

(* The customer's name and phone: a valid pair, or (None) not a valid one. *)
Introduce(p) ==
  /\ OnForm
  /\ phone' = p
  /\ UNCHANGED <<field, ticket, server, network, screen, config, rating, reasons, consent,
                 submitting, submitError, post, reload, agreed, filling, posts, told>>

TickConsent ==
  /\ OnForm
  /\ consent' = ~consent
  /\ agreed' = IF consent THEN None ELSE config.version
  /\ UNCHANGED <<field, ticket, server, network, screen, config, rating, reasons, phone,
                 submitting, submitError, post, reload, filling, posts, told>>

ReadPrivacy ==
  /\ \/ OnForm /\ Show("privacy")
     \/ screen = "privacy" /\ Show("form")
  /\ UNCHANGED <<ticket, server, network, config, rating, reasons, phone, consent,
                 submitting, submitError, post, reload, agreed, filling, posts, told>>

-------------------------------------------------------------------------------
(* Sending: nothing while a submission is awaited, and nothing that the form *)
(* itself finds incomplete.                                                  *)
Complete == rating # None /\ phone # None /\ consent /\ requiredReasonsValid

Answers ==
  [n |-> posts + 1, filling |-> filling, told |-> told,
   rating |-> rating, reasons |-> reasons, phone |-> phone, ticket |-> ticket.id,
   version |-> config.version, agreed |-> agreed]

Incomplete ==
  /\ OnForm /\ ~submitting /\ ~Complete
  /\ submitError
  /\ submitError' = FALSE
  /\ UNCHANGED <<field, ticket, server, network, screen, config, rating, reasons, phone,
                 consent, submitting, post, reload, agreed, filling, posts, told>>

PostAnswers ==
  /\ OnForm /\ Complete
  /\ posts < MaxPosts
  /\ submitError' = FALSE
  /\ submitting' = TRUE
  /\ post' = Answers
  /\ wire' = wire \cup {Answers}
  /\ posts' = posts + 1
  /\ UNCHANGED <<field, ticket, server, screen, config, rating, reasons, phone, consent,
                 reload, agreed, filling, told, reply>>

\* Mutant: a second click sends the form again while the first is awaited.
SubmitAgain == PostAnswers

submit == ~submitting /\ PostAnswers

\* Mutant: a refused submission leaves the button disabled.
SettlesOnSuccessOnly(answer) ==
  /\ submitting' = (answer # "created")
  /\ post' = None
  /\ reply' = None

(* The end of submit, whatever the answer (finally). *)
Settled(answer) ==
  /\ submitting' = FALSE
  /\ post' = None
  /\ reply' = None

(* The answer is shown: thanks, an invalid code (404), or an error with the  *)
(* answers kept.  A request that was given up ends like a failed one.        *)
Finish(answer) ==
  /\ Settled(answer)
  /\ \/ answer = "created" /\ Show("thanks") /\ UNCHANGED submitError
     \/ answer = "gone" /\ Show("invalid") /\ UNCHANGED submitError
     \/ answer = "refused" /\ submitError' = TRUE /\ UNCHANGED <<field, screen>>
  /\ told' = IF answer = "created" THEN told ELSE told + 1
  /\ UNCHANGED <<ticket, server, config, rating, reasons, phone, consent, reload, agreed,
                 filling, posts, wire>>

Answered == post # None /\ reply # None /\ Finish(reply)

GiveUp == post # None /\ Finish("refused")

-------------------------------------------------------------------------------
(* Loading the form: the code and the configuration are asked for at once.   *)
Ask ==
  /\ Show("loading")
  /\ reload' = [token |-> "asked", config |-> None]

reloadForm ==
  /\ \/ screen \in {"invalid", "error"}
     \/ OnForm /\ submitError
  /\ Ask
  /\ UNCHANGED <<ticket, server, network, config, rating, reasons, phone, consent,
                 submitting, submitError, post, agreed, filling, posts, told>>

reset ==
  /\ screen = "thanks"
  /\ rating' = None /\ reasons' = {} /\ phone' = None
  /\ ticket' = NoTicketId
  /\ consent' = FALSE /\ agreed' = None
  /\ submitError' = FALSE
  /\ filling' = filling + 1
  /\ Ask
  /\ UNCHANGED <<server, network, config, submitting, post, posts, told>>

Resolves == live[Clerk] = 1

ServerAnswersToken ==
  /\ reload # None /\ reload.token = "asked" /\ Resolves
  /\ reload' = [reload EXCEPT !.token = "resolved"]
  /\ UNCHANGED <<field, ticket, server, network, screen, config, rating, reasons, phone,
                 consent, submitting, submitError, post, agreed, filling, posts, told>>

ServerAnswersConfig ==
  /\ reload # None /\ reload.config = None
  /\ reload' = [reload EXCEPT !.config = inForce]
  /\ UNCHANGED <<field, ticket, server, network, screen, config, rating, reasons, phone,
                 consent, submitting, submitError, post, agreed, filling, posts, told>>

\* Mutant: consent outlives a change of its version.
KeepConsent(new) == UNCHANGED <<consent, agreed>>

(* Consent given for another version does not count. *)
RenewConsent(new) ==
  IF config # None /\ config.version = new.version THEN UNCHANGED <<consent, agreed>>
  ELSE consent' = FALSE /\ agreed' = None

(* What the new configuration does not offer is taken back, the rest kept. *)
Reloaded ==
  LET new == reload.config
      kept == IF rating \in new.enabled THEN rating ELSE None
  IN  /\ reload # None /\ reload.token = "resolved" /\ reload.config # None
      /\ RenewConsent(new)
      /\ rating' = kept
      /\ reasons' = reasons \cap ReasonsForRating(new, kept)
      /\ config' = new
      /\ submitError' = FALSE
      /\ Show("form")
      /\ reload' = None
      /\ UNCHANGED <<ticket, server, network, phone, submitting, post, filling, posts, told>>

(* The first request to fail decides the screen (Promise.all): 404 for a     *)
(* code that does not resolve, or anything else at any time.                 *)
ReloadFails ==
  /\ reload # None
  /\ \/ Show("error")
     \/ reload.token = "asked" /\ ~Resolves /\ Show("invalid")
  /\ reload' = None
  /\ UNCHANGED <<ticket, server, network, config, rating, reasons, phone, consent,
                 submitting, submitError, post, agreed, filling, posts, told>>

-------------------------------------------------------------------------------
(* The server.  What submitFeedback checks of a body against the             *)
(* configuration in force (public.go).                                       *)
Valid(b) ==
  /\ b.version = inForce.version
  /\ b.rating \in inForce.enabled
  /\ b.reasons \subseteq ReasonsForRating(inForce, b.rating)
  /\ ReasonsForRating(inForce, b.rating) \cap inForce.required \subseteq b.reasons

AnswerTo(b, answer) == reply' = IF post # None /\ post.n = b.n THEN answer ELSE reply

(* A body reaches the server and is recorded, or is not: the code does not   *)
(* resolve (404), it is not valid (422), over the limit (429), or fails.     *)
Record(b) ==
  /\ Resolves /\ Valid(b)
  /\ Ledger!Accept(Clerk, House, b.phone, b.ticket, clock)
  /\ origin' = Append(origin, b)
  /\ AnswerTo(b, "created")
  /\ UNCHANGED inForce

Refuse(b) ==
  /\ \/ ~Resolves /\ AnswerTo(b, "gone")
     \/ AnswerTo(b, "refused")
  /\ UNCHANGED server

Handle(b) ==
  /\ b \in wire
  /\ wire' = wire \ {b}
  /\ Record(b) \/ Refuse(b)
  /\ UNCHANGED <<field, ticket, page>>

Lose(b) ==
  /\ b \in wire
  /\ wire' = wire \ {b}
  /\ UNCHANGED <<field, ticket, page, server, reply>>

(* Administrators save a configuration, or regenerate or disable the code. *)
Administer ==
  /\ \/ \E cfg \in Terms : /\ inForce # cfg /\ inForce' = cfg
                           /\ UNCHANGED <<ledger, issued, live, clock>>
     \/ issued[Clerk] <= MaxCodes /\ Ledger!Issue({Clerk}) /\ UNCHANGED inForce
     \/ live[Clerk] # 0 /\ Ledger!Revoke({Clerk}) /\ UNCHANGED inForce
  /\ UNCHANGED <<field, ticket, page, network, origin>>

Tick ==
  /\ clock < MaxClock
  /\ Ledger!Tick
  /\ UNCHANGED <<field, ticket, page, network, inForce, origin>>

-------------------------------------------------------------------------------
(* The page as the resolver and the first render leave it, with or without a *)
(* transaction id in the address (?tx=).                                     *)
Init ==
  /\ Idle /\ alive = FALSE
  /\ ticket \in {NoTicketId} \cup {[id |-> i, source |-> "QR_TICKET"] : i \in Id}
  /\ screen = "loading" /\ reload = [token |-> "asked", config |-> None]
  /\ config = None
  /\ rating = None /\ reasons = {} /\ phone = None
  /\ consent = FALSE /\ agreed = None
  /\ submitting = FALSE /\ submitError = FALSE /\ post = None
  /\ filling = 0 /\ posts = 0 /\ told = 0
  /\ inForce \in Terms
  /\ wire = {} /\ reply = None
  /\ origin = <<>>
  /\ ledger = <<>> /\ issued = [s \in {Clerk} |-> 1] /\ live = issued /\ clock = 0

Field == (Customer \/ Browser) /\ UNCHANGED <<page, server, network>>

Form ==
  \/ \E r \in Rating : selectRating(r)
  \/ \E q \in Reason : toggleReason(q)
  \/ \E p \in Phone \cup {None} : Introduce(p)
  \/ TickConsent \/ ReadPrivacy \/ Incomplete \/ submit \/ reloadForm \/ reset

Settle == Answered \/ GiveUp

Arrive == Reloaded \/ ReloadFails

Server ==
  \/ ServerAnswersToken \/ ServerAnswersConfig
  \/ \E b \in wire : Handle(b) \/ Lose(b)
  \/ Administer \/ Tick

PageNext == Field \/ Form \/ Settle \/ Arrive \/ Server

(* A browser settles every request in the end, with an answer or an error. *)
Behaviour == Init /\ [][PageNext]_all

Spec == Behaviour /\ WF_all(Settle) /\ WF_all(Arrive)

-------------------------------------------------------------------------------
PageTypeOK ==
  /\ TypeOK
  /\ screen \in Screen /\ config \in Terms \cup {None}
  /\ rating \in Rating \cup {None} /\ reasons \subseteq Reason
  /\ phone \in Phone \cup {None}
  /\ consent \in BOOLEAN /\ submitting \in BOOLEAN /\ submitError \in BOOLEAN
  /\ post \in Body \cup {None} /\ reload \in Reload \cup {None}
  /\ agreed \in Version \cup {None} /\ filling \in Nat /\ told \in Nat
  /\ posts \in 0..MaxPosts
  /\ inForce \in Terms /\ wire \subseteq Body /\ reply \in Reply \cup {None}
  /\ origin \in Seq(Body) /\ Len(origin) = Len(ledger)
  /\ clock \in 0..MaxClock

(* The page and the server check the same things: a form that the page lets  *)
(* through, filled in against the configuration in force, is valid for the   *)
(* server, whatever ratings and reasons were picked, dropped and reloaded.   *)
ClientChecksSuffice ==
  (screen = "form" /\ Complete /\ config = inForce) => Valid(Answers)

(* Every recorded feedback has a consent that was given while the page       *)
(* showed the very version it is recorded with.                              *)
ConsentForVersion ==
  \A i \in DOMAIN origin : origin[i].agreed = origin[i].version

(* The customer is told what happened: thanks only for the request just sent *)
(* and only once it is recorded, and a form filled in once is recorded a     *)
(* second time only if the customer was told in between that the sending     *)
(* failed (which a lost answer makes the page say of a recorded one too).    *)
RecordedAsTold ==
  /\ screen = "thanks" =>
       \E i \in DOMAIN origin : origin[i].n = posts /\ origin[i].filling = filling
  /\ \A i, j \in DOMAIN origin :
       origin[i].filling = origin[j].filling /\ origin[i].n < origin[j].n
         => origin[i].told < origin[j].told

(* The page comes back from every wait: a submission is not awaited forever  *)
(* and the loading screen gives way to the form or to an error.              *)
PageComesBack ==
  /\ submitting ~> ~submitting
  /\ (screen = "loading") ~> (screen # "loading")
===============================================================================
