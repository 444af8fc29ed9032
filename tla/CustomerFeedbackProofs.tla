------------------------ MODULE CustomerFeedbackProofs ------------------------
(* Theorems about CustomerFeedback, for any number of scans, ids, ratings,   *)
(* reasons and configurations, and any bounds.                               *)
EXTENDS CustomerFeedback, TLAPS

USE ScannerAssumption, PageAssumption

-------------------------------------------------------------------------------
(* The transaction field.  What a step of the page does to it: an action of  *)
(* the field itself, its arrival or its end, or nothing, except that a new   *)
(* form drops the id while the field is away.                                *)
FieldMove ==
  \/ Customer \/ Browser
  \/ Mount(TextOf(ticket.id)) /\ UNCHANGED ticket
  \/ Destroy /\ UNCHANGED ticket
  \/ UNCHANGED <<field, ticket>>
  \/ ~alive /\ UNCHANGED field /\ ticket' = NoTicketId

(* A fresh scan is seen by the customer, and it is the only one; it is the   *)
(* one that has the camera; a pending capture is its own.                    *)
ScanInv ==
  /\ fresh # {} => alive /\ mode = "scanning" /\ ~helpOpen
  /\ \A c, d \in fresh : c = d
  /\ stream # None => fresh = {stream}
  /\ camera # {} => stream # None /\ camera = {stream}
  /\ \A c \in fresh : stage[c] \in {"paint", "start", "reading"} => c \in camera
  /\ capture # None => /\ capture.scan \in fresh /\ stage[capture.scan] = "reading"
                       /\ validTransaction(capture.id)

FieldInv == TypeOK /\ ScanInv /\ TicketIsFieldValue

LEMMA ParsedIsValid ==
  ASSUME NEW t \in Text \cup {None}
  PROVE  /\ parseTransaction(t) \in Text \cup {None}
         /\ parseTransaction(t) # None => validTransaction(parseTransaction(t))
  BY DEF parseTransaction, validTransaction, Text

LEMMA EmitTyping ==
  ASSUME NEW t \in Text \cup {None}, NEW s \in {"MANUAL", "QR_SCAN"}, Emit(t, s)
  PROVE  /\ ticket' \in [id : Id \cup {None}, source : Source]
         /\ ticket'.id = IdOf(t)
         /\ ticket'.id = None <=> ticket'.source = "NONE"
  BY DEF Emit, NoTicketId, IdOf, validTransaction, Text, Source

(* After a stop nothing is left of a scan. *)
LEMMA StopClean ==
  ASSUME FieldInv, stop
  PROVE  /\ ScanInv'
         /\ stage' \in [Scan -> Stage] /\ fresh' \subseteq Scan /\ camera' \subseteq Scan
         /\ stream' \in Scan \cup {None} /\ capture' \in [scan : Scan, id : Text] \cup {None}
         /\ camera' = {}
  <1>1. fresh' = {} /\ capture' = None /\ stream' = None /\ camera' = {}
    BY DEF FieldInv, ScanInv, stop, StopInto
  <1>2. stage' \in [Scan -> Stage]
    BY DEF FieldInv, TypeOK, stop, StopInto, Cancelled, Stage
  <1>3. QED
    BY <1>1, <1>2 DEF ScanInv

LEMMA StoppingMove ==
  ASSUME FieldInv, stop, mode' \in Mode, value' \in Text \cup {None}, helpOpen' \in BOOLEAN,
         alive' \in BOOLEAN, UNCHANGED ticket,
         alive' => alive /\ UNCHANGED value
  PROVE  FieldInv'
  BY StopClean DEF FieldInv, TypeOK, TicketIsFieldValue, IdOf, validTransaction

LEMMA CustomerInv ==
  ASSUME FieldInv, Customer
  PROVE  FieldInv'
  <1>1. CASE ChooseManual
    BY <1>1, StoppingMove DEF ChooseManual, manual, Mode, FieldInv, TypeOK
  <1>2. CASE clear
    <2>1. ticket' = NoTicketId /\ value' = None
      BY <1>2 DEF clear
    <2>2. TicketIsFieldValue' /\ ticket' \in [id : Id \cup {None}, source : Source]
      BY <2>1 DEF TicketIsFieldValue, NoTicketId, IdOf, validTransaction, Source
    <2>3. QED
      BY <1>2, <2>1, <2>2, StopClean DEF clear, FieldInv, TypeOK, Mode
  <1>3. CASE openHelp
    <2>1. CASE mode = "scanning"
      BY <1>3, <2>1, StoppingMove DEF openHelp, Mode, FieldInv, TypeOK
    <2>2. CASE mode # "scanning"
      BY <1>3, <2>2 DEF openHelp, FieldInv, TypeOK, ScanInv, TicketIsFieldValue, IdOf,
                        validTransaction
    <2>3. QED
      BY <2>1, <2>2
  <1>4. CASE closeHelp
    BY <1>4 DEF closeHelp, FieldInv, TypeOK, ScanInv, TicketIsFieldValue, IdOf, validTransaction
  <1>5. ASSUME NEW raw \in Text \cup {None}, change(raw) PROVE FieldInv'
    <2>. DEFINE id == IF parseTransaction(raw) = None THEN raw ELSE parseTransaction(raw)
    <2>1. id \in Text \cup {None}
      BY ParsedIsValid
    <2>2. value' = id /\ Emit(id, "MANUAL") /\ UNCHANGED alive
      BY <1>5 DEF change
    <2>. HIDE DEF id
    <2>3. TicketIsFieldValue' /\ ticket' \in [id : Id \cup {None}, source : Source]
      BY <2>1, <2>2, EmitTyping DEF TicketIsFieldValue, IdOf, validTransaction
    <2>4. QED
      BY <1>5, <2>1, <2>2, <2>3 DEF change, FieldInv, TypeOK, ScanInv, validTransaction
  <1>6. ASSUME NEW c \in Scan, scan(c) PROVE FieldInv'
    <2>1. /\ fresh' = {c} /\ capture' = None /\ stream' = None /\ camera' = {}
          /\ alive' /\ mode' = "scanning" /\ ~helpOpen'
          /\ UNCHANGED <<value, ticket, alive, helpOpen>>
      BY <1>6 DEF scan, StopInto, Offered, FieldInv, ScanInv
    <2>2. stage' \in [Scan -> Stage] /\ stage'[c] = "prompt"
      BY <1>6 DEF scan, StopInto, Cancelled, FieldInv, TypeOK, Stage
    <2>3. TypeOK'
      BY <2>1, <2>2 DEF FieldInv, TypeOK, Mode
    <2>4. QED
      BY <2>1, <2>2, <2>3 DEF FieldInv, ScanInv, TicketIsFieldValue, IdOf, validTransaction
  <1>7. QED
    BY <1>1, <1>2, <1>3, <1>4, <1>5, <1>6 DEF Customer

LEMMA BrowserInv ==
  ASSUME FieldInv, Browser
  PROVE  FieldInv'
  <1>1. CASE hide
    BY <1>1, StoppingMove DEF hide, manual, Mode, FieldInv, TypeOK
  <1>2. CASE leave
    BY <1>2, StoppingMove DEF leave, FieldInv, TypeOK
  <1>3. CASE Captured
    <2>1. capture.id \in Text /\ value' = capture.id /\ Emit(capture.id, "QR_SCAN")
      BY <1>3 DEF Captured, FieldInv, TypeOK
    <2>2. TicketIsFieldValue' /\ ticket' \in [id : Id \cup {None}, source : Source]
      BY <2>1, EmitTyping DEF TicketIsFieldValue, IdOf, validTransaction
    <2>3. QED
      BY <1>3, <2>1, <2>2, StopClean DEF Captured, FieldInv, TypeOK, Mode
  <1>4. ASSUME NEW c \in Scan, Abandon(c) PROVE FieldInv'
    <2>1. stage' \in [Scan -> Stage] /\ \A d \in fresh : stage'[d] = stage[d]
      BY <1>4 DEF Abandon, FieldInv, TypeOK, Stage
    <2>2. QED
      BY <1>4, <2>1 DEF Abandon, FieldInv, TypeOK, ScanInv, TicketIsFieldValue, IdOf,
                        validTransaction
  <1>5. ASSUME NEW c \in Scan, Granted(c) PROVE FieldInv'
    <2>1. fresh = {c} /\ stream' = c /\ camera' = {c} /\ UNCHANGED fresh
      BY <1>5 DEF Granted, FieldInv, ScanInv, TypeOK
    <2>2. stage' \in [Scan -> Stage] /\ \A d \in Scan : d # c => stage'[d] = stage[d]
      BY <1>5 DEF Granted, FieldInv, TypeOK, Stage
    <2>3. capture = None
      BY <1>5, <2>1 DEF Granted, FieldInv, ScanInv, TypeOK
    <2>4. QED
      BY <1>5, <2>1, <2>2, <2>3 DEF Granted, FieldInv, TypeOK, ScanInv, TicketIsFieldValue,
                                    IdOf, validTransaction
  <1>6. ASSUME NEW c \in Scan, Prepare(c) PROVE FieldInv'
    <2>1. /\ stage' \in [Scan -> Stage] /\ \A d \in Scan : d # c => stage'[d] = stage[d]
          /\ stage[c] \in {"paint", "start"} /\ c \in fresh
      BY <1>6 DEF Prepare, FieldInv, TypeOK, Stage
    <2>2. c \in camera /\ capture = None
      BY <2>1 DEF FieldInv, ScanInv, TypeOK
    <2>3. QED
      BY <1>6, <2>1, <2>2 DEF Prepare, FieldInv, TypeOK, ScanInv, TicketIsFieldValue, IdOf,
                              validTransaction
  <1>7. ASSUME NEW c \in Scan, Fail(c) PROVE FieldInv'
    <2>1. /\ fresh' = {} /\ capture' = None /\ stream' = None /\ camera' = {}
          /\ UNCHANGED <<alive, value, helpOpen, ticket>> /\ mode' = "manual"
      BY <1>7 DEF Fail, StopInto, FieldInv, ScanInv
    <2>2. stage' \in [Scan -> Stage]
      BY <1>7 DEF Fail, StopInto, Cancelled, FieldInv, TypeOK, Stage
    <2>3. QED
      BY <2>1, <2>2 DEF FieldInv, TypeOK, ScanInv, TicketIsFieldValue, IdOf, validTransaction, Mode
  <1>8. ASSUME NEW c \in Scan, NEW code \in Text, Hit(c, code) PROVE FieldInv'
    <2>1. parseTransaction(code) \in Text /\ validTransaction(parseTransaction(code))
      BY <1>8, ParsedIsValid DEF Hit
    <2>2. capture' = [scan |-> c, id |-> parseTransaction(code)]
      BY <1>8 DEF Hit
    <2>3. capture' \in [scan : Scan, id : Text] /\ capture'.scan = c
          /\ validTransaction(capture'.id)
      BY <2>1, <2>2
    <2>4. QED
      BY <1>8, <2>3 DEF Hit, FieldInv, TypeOK, ScanInv, TicketIsFieldValue, IdOf, validTransaction
  <1>9. QED
    BY <1>1, <1>2, <1>3, <1>4, <1>5, <1>6, <1>7, <1>8 DEF Browser

LEMMA IdThroughText ==
  ASSUME NEW i \in Id \cup {None}
  PROVE  TextOf(i) \in Text \cup {None} /\ IdOf(TextOf(i)) = i
  BY DEF TextOf, IdOf, validTransaction, Text

LEMMA MoveInv ==
  ASSUME FieldInv, FieldMove
  PROVE  FieldInv'
  <1>1. CASE Mount(TextOf(ticket.id)) /\ UNCHANGED ticket
    <2>1. TextOf(ticket.id) \in Text \cup {None} /\ IdOf(TextOf(ticket.id)) = ticket.id
      BY IdThroughText DEF FieldInv, TypeOK
    <2>2. value' = TextOf(ticket.id) /\ UNCHANGED <<stage, fresh, stream, camera, capture, ticket>>
      BY <1>1 DEF Mount
    <2>3. fresh = {} /\ camera = {} /\ capture = None /\ stream = None
      BY <1>1 DEF Mount, FieldInv, ScanInv
    <2>4. alive' /\ mode' \in Mode /\ helpOpen' = FALSE
      BY <1>1 DEF Mount, Mode
    <2>5. TicketIsFieldValue'
      BY <2>1, <2>2 DEF FieldInv, TicketIsFieldValue, IdOf, validTransaction
    <2>6. QED
      BY <1>1, <2>1, <2>2, <2>3, <2>4, <2>5 DEF Mount, FieldInv, TypeOK, ScanInv
  <1>2. CASE Destroy /\ UNCHANGED ticket
    BY <1>2, StoppingMove DEF Destroy, FieldInv, TypeOK
  <1>3. CASE UNCHANGED <<field, ticket>>
    BY <1>3 DEF field, FieldInv, TypeOK, ScanInv, TicketIsFieldValue, IdOf, validTransaction
  <1>4. CASE ~alive /\ UNCHANGED field /\ ticket' = NoTicketId
    BY <1>4 DEF field, FieldInv, TypeOK, ScanInv, TicketIsFieldValue, NoTicketId, Source,
                validTransaction
  <1>5. QED
    BY <1>1, <1>2, <1>3, <1>4, CustomerInv, BrowserInv DEF FieldMove

LEMMA FieldReleases ==
  ASSUME FieldInv
  PROVE  CameraReleased
  BY DEF FieldInv, ScanInv, TypeOK, CameraReleased

LEMMA MoveCaptures ==
  ASSUME FieldInv, FieldMove, alive, mode # "captured", mode' = "captured"
  PROVE  mode = "scanning" /\ ~helpOpen /\ camera # {}
  <1>1. Captured
    BY DEF FieldMove, Customer, ChooseManual, clear, openHelp, closeHelp, change, scan, manual,
           Browser, hide, leave, Abandon, Granted, Prepare, Fail, Hit, Mount, Destroy, field, stop,
           StopInto
  <1>2. QED
    BY <1>1 DEF Captured, FieldInv, ScanInv

-------------------------------------------------------------------------------
(* The page.  What the form holds fits the configuration it shows, consent   *)
(* included, and so does what it sends.                                      *)
FieldShown == alive <=> screen = "form"

FormShape ==
  /\ screen \in Screen /\ config \in Terms \cup {None}
  /\ rating \in Rating \cup {None} /\ reasons \subseteq Reason
  /\ phone \in Phone \cup {None}
  /\ consent \in BOOLEAN /\ submitting \in BOOLEAN /\ submitError \in BOOLEAN
  /\ post \in Body \cup {None} /\ reload \in Reload \cup {None}
  /\ agreed \in Version \cup {None} /\ filling \in Nat /\ told \in Nat
  /\ posts \in 0..MaxPosts

FormFits ==
  /\ screen \in {"form", "privacy"} => config # None
  /\ consent => config # None /\ agreed = config.version
  /\ rating # None => config # None /\ rating \in config.enabled
  /\ \A q \in reasons : config # None /\ rating # None /\ rating \in config.ratings[q]

FormInv == FieldShown /\ FormShape /\ FormFits

Entry == [staff : {Clerk}, cinema : {House}, phone : Phone, ticket : Id \cup {None},
          token : Nat, at : 0..MaxClock, suspicious : BOOLEAN]

ServerShape ==
  /\ inForce \in Terms /\ wire \subseteq Body /\ reply \in Reply \cup {None}
  /\ origin \in Seq(Body) /\ ledger \in Seq(Entry) /\ Len(origin) = Len(ledger)
  /\ live \in [{Clerk} -> Nat] /\ issued \in [{Clerk} -> Nat]
  /\ clock \in 0..MaxClock

ConsentSent == \A b \in wire : b.agreed = b.version

ServerInv == ServerShape /\ ConsentSent /\ ConsentForVersion

PageInv == FieldInv /\ FormInv /\ ServerInv

LEMMA ConfigFields ==
  ASSUME NEW cfg \in Terms
  PROVE  /\ cfg # None /\ cfg.version \in Version /\ cfg.enabled \subseteq Rating
         /\ cfg.required \subseteq Reason /\ cfg.ratings \in [Reason -> SUBSET Rating]
  BY DEF Config

LEMMA ShowMove ==
  ASSUME FieldShown, NEW s \in Screen, Show(s)
  PROVE  /\ screen' = s /\ FieldShown'
         /\ Mount(TextOf(ticket.id)) \/ Destroy \/ UNCHANGED field
  BY DEF FieldShown, Show, Mount, Destroy, field

(* A step of the form, or an answer that the page takes in, keeps the form.  *)
LEMMA FormMove ==
  ASSUME FieldInv, FormInv, Form
  PROVE  FieldMove /\ FormInv'
  <1>. USE DEF FormInv, FormShape, FormFits, OnForm
  <1>1. ASSUME NEW r \in Rating, selectRating(r) PROVE FieldMove /\ FormInv'
    BY <1>1 DEF selectRating, FieldMove, FieldShown, field
  <1>2. ASSUME NEW q \in Reason, toggleReason(q) PROVE FieldMove /\ FormInv'
    <2>1. reasons' \subseteq reasons \cup {q} /\ rating \in config.ratings[q]
      BY <1>2 DEF toggleReason, ReasonsForRating
    <2>2. QED
      BY <1>2, <2>1 DEF toggleReason, FieldMove, FieldShown, field
  <1>3. ASSUME NEW p \in Phone \cup {None}, Introduce(p) PROVE FieldMove /\ FormInv'
    BY <1>3 DEF Introduce, FieldMove, FieldShown, field
  <1>4. CASE TickConsent
    BY <1>4, ConfigFields DEF TickConsent, FieldMove, FieldShown, field
  <1>5. CASE ReadPrivacy
    <2>1. screen \in {"form", "privacy"} /\ (Show("privacy") \/ Show("form"))
      BY <1>5 DEF ReadPrivacy
    <2>2. screen' \in Screen /\ FieldShown'
          /\ (Mount(TextOf(ticket.id)) \/ Destroy \/ UNCHANGED field)
      BY <2>1, ShowMove DEF Screen
    <2>3. QED
      BY <1>5, <2>1, <2>2 DEF ReadPrivacy, FieldMove
  <1>6. CASE Incomplete
    BY <1>6 DEF Incomplete, FieldMove, FieldShown, field
  <1>7. CASE submit
    <2>1. Answers \in Body
      BY <1>7, ConfigFields DEF submit, PostAnswers, Answers, Body, Complete, FieldInv, TypeOK
    <2>2. posts + 1 \in 0..MaxPosts
      BY <1>7 DEF submit, PostAnswers
    <2>3. QED
      BY <1>7, <2>1, <2>2 DEF submit, PostAnswers, FieldMove, FieldShown, field
  <1>8. CASE reloadForm
    <2>1. screen' = "loading" /\ FieldShown'
          /\ (Mount(TextOf(ticket.id)) \/ Destroy \/ UNCHANGED field)
      BY <1>8, ShowMove DEF reloadForm, Ask, Screen
    <2>2. reload' \in Reload
      BY <1>8 DEF reloadForm, Ask, Reload
    <2>3. QED
      BY <1>8, <2>1, <2>2 DEF reloadForm, FieldMove, Screen
  <1>9. CASE reset
    <2>1. screen' = "loading" /\ UNCHANGED field /\ ~alive /\ ticket' = NoTicketId
      BY <1>9 DEF reset, Ask, Show, FieldShown
    <2>2. reload' \in Reload
      BY <1>9 DEF reset, Ask, Reload
    <2>3. FieldShown' /\ FieldMove
      BY <2>1 DEF FieldShown, FieldMove, field
    <2>4. /\ rating' = None /\ reasons' = {} /\ phone' = None /\ consent' = FALSE
          /\ agreed' = None /\ submitError' = FALSE /\ filling' = filling + 1
          /\ UNCHANGED <<config, submitting, post, posts, told>>
      BY <1>9 DEF reset
    <2>5. consent' \in BOOLEAN /\ submitError' \in BOOLEAN
      BY <2>4
    <2>6. filling' \in Nat
      BY <2>4
    <2>7. rating' \in Rating \cup {None} /\ reasons' \subseteq Reason
          /\ phone' \in Phone \cup {None} /\ agreed' \in Version \cup {None}
      BY <2>4
    <2>8. config' \in Terms \cup {None} /\ submitting' \in BOOLEAN
          /\ post' \in Body \cup {None} /\ posts' \in 0..MaxPosts
          /\ told' \in Nat
      BY <2>4
    <2>9. FormShape'
      BY <2>1, <2>2, <2>5, <2>6, <2>7, <2>8 DEF Screen
    <2>10. ~consent' /\ FormFits'
      BY <2>1, <2>4
    <2>11. QED
      BY <2>3, <2>9, <2>10
  <1>10. QED
    BY <1>1, <1>2, <1>3, <1>4, <1>5, <1>6, <1>7, <1>8, <1>9 DEF Form

LEMMA AnswerMove ==
  ASSUME FieldInv, FormInv, Settle \/ Arrive
  PROVE  FieldMove /\ FormInv'
  <1>. USE DEF FormInv, FormShape, FormFits
  <1>1. ASSUME NEW answer, Finish(answer) PROVE FieldMove /\ FormInv'
    <2>1. /\ screen' \in {screen, "thanks", "invalid"} /\ FieldShown'
          /\ Mount(TextOf(ticket.id)) \/ Destroy \/ UNCHANGED field
      BY <1>1, ShowMove DEF Finish, Screen, FieldShown, field
    <2>2. /\ submitting' = FALSE /\ post' = None /\ submitError' \in {submitError, TRUE}
          /\ told' \in {told, told + 1}
          /\ UNCHANGED <<ticket, config, rating, reasons, phone, consent, reload, agreed,
                         filling, posts>>
      BY <1>1 DEF Finish, Settled
    <2>3. screen' \in {"form", "privacy"} => config # None
      BY <2>1, <2>2
    <2>4. FieldMove /\ FormShape'
      <3>1. told' \in Nat
        BY <2>2
      <3>2. submitting' \in BOOLEAN /\ submitError' \in BOOLEAN
        BY <2>2, Zenon
      <3>3. QED
        BY <2>1, <2>2, <3>1, <3>2 DEF FieldMove, Screen
    <2>5. FormFits'
      BY <2>2, <2>3
    <2>6. QED
      BY <2>1, <2>4, <2>5
  <1>2. CASE Reloaded
    <2>. DEFINE new == reload.config
                kept == IF rating \in new.enabled THEN rating ELSE None
    <2>1. new \in Terms /\ config' = new
      BY <1>2 DEF Reloaded, Reload
    <2>2. screen' = "form" /\ FieldShown'
          /\ (Mount(TextOf(ticket.id)) \/ Destroy \/ UNCHANGED field)
      BY <1>2, ShowMove DEF Reloaded, Screen
    <2>3. rating' = kept /\ reasons' = reasons \cap ReasonsForRating(new, kept)
      BY <1>2 DEF Reloaded
    <2>4. rating' # None => rating' \in new.enabled
      BY <2>3
    <2>5. \A q \in reasons' : q \in Reason /\ rating' \in new.ratings[q] /\ rating' # None
      BY <2>1, <2>3, ConfigFields DEF ReasonsForRating
    <2>6. consent' \in BOOLEAN /\ agreed' \in Version \cup {None}
          /\ (consent' => agreed' = new.version)
      BY <1>2, <2>1 DEF Reloaded, RenewConsent
    <2>7. QED
      BY <1>2, <2>1, <2>2, <2>3, <2>4, <2>5, <2>6, ConfigFields DEF Reloaded, FieldMove, Screen
  <1>3. CASE ReloadFails
    <2>1. screen' \in {"error", "invalid"} /\ FieldShown'
          /\ (Mount(TextOf(ticket.id)) \/ Destroy \/ UNCHANGED field)
      BY <1>3, ShowMove DEF ReloadFails, Screen
    <2>2. QED
      BY <1>3, <2>1 DEF ReloadFails, FieldMove, Screen
  <1>4. QED
    BY <1>1, <1>2, <1>3 DEF Settle, Answered, GiveUp, Arrive

-------------------------------------------------------------------------------
(* The server, and what reaches it.                                          *)
LEMMA ServerStays ==
  ASSUME ServerInv, UNCHANGED server, reply' \in Reply \cup {None},
         \A b \in wire' : b \in wire \/ (b \in Body /\ b.agreed = b.version)
  PROVE  ServerInv'
  BY DEF ServerInv, ServerShape, ConsentSent, ConsentForVersion, server

LEMMA FieldStep ==
  ASSUME PageInv, Field
  PROVE  FieldMove /\ FormInv' /\ ServerInv'
  <1>1. FieldMove /\ UNCHANGED <<page, server, network, alive>>
    BY DEF Field, FieldMove, Customer, ChooseManual, clear, openHelp, closeHelp, change, scan,
           manual, Browser, hide, leave, Captured, Abandon, Granted, Prepare, Fail, Hit
  <1>2. FormInv'
    <2>1. FieldShown'
      BY <1>1 DEF PageInv, FormInv, FieldShown, page
    <2>2. FormShape'
      BY <1>1 DEF PageInv, FormInv, FormShape, page
    <2>3. FormFits'
      BY <1>1 DEF PageInv, FormInv, FormFits, page
    <2>4. QED
      BY <2>1, <2>2, <2>3 DEF FormInv
  <1>3. ServerInv'
    BY <1>1, ServerStays DEF PageInv, network, ServerInv, ServerShape
  <1>4. QED
    BY <1>1, <1>2, <1>3

LEMMA FormSends ==
  ASSUME PageInv, Form \/ Settle \/ Arrive
  PROVE  ServerInv'
  <1>1. CASE submit
    <2>1. Answers \in Body
      BY <1>1, ConfigFields DEF submit, PostAnswers, Answers, Body, Complete, PageInv, FieldInv, TypeOK,
                                FormInv, FormShape, FormFits, OnForm
    <2>2. Answers.agreed = Answers.version
      BY <1>1 DEF submit, PostAnswers, Answers, Complete, PageInv, FormInv, FormFits
    <2>3. wire' = wire \cup {Answers} /\ UNCHANGED <<server, reply>>
      BY <1>1 DEF submit, PostAnswers
    <2>. HIDE DEF Answers
    <2>4. QED
      BY <2>1, <2>2, <2>3, ServerStays DEF PageInv, ServerInv, ServerShape
  <1>2. CASE ~submit
    <2>1. UNCHANGED <<server, wire>> /\ reply' \in {reply, None}
      BY <1>2 DEF Form, selectRating, toggleReason, Introduce, TickConsent, ReadPrivacy,
                  Incomplete, reloadForm, reset, Settle, Answered, GiveUp, Finish, Settled,
                  Arrive, Reloaded, ReloadFails, network
    <2>2. QED
      BY <2>1, ServerStays DEF PageInv, ServerInv, ServerShape
  <1>3. QED
    BY <1>1, <1>2

(* What is recorded fits the ledger. *)
LEMMA Recorded ==
  ASSUME ServerInv, NEW b \in wire, Record(b)
  PROVE  /\ origin' \in Seq(Body) /\ ledger' \in Seq(Entry) /\ Len(origin') = Len(ledger')
         /\ ConsentForVersion'
         /\ UNCHANGED <<inForce, issued, live, clock>> /\ reply' \in Reply \cup {None}
  <1>. DEFINE e == Ledger!EntryOf(Clerk, House, b.phone, b.ticket, clock)
              n == Len(origin)
  <1>1. /\ ledger' = Append(ledger, e) /\ origin' = Append(origin, b)
        /\ UNCHANGED <<inForce, issued, live, clock>> /\ AnswerTo(b, "created")
    BY DEF Record, Ledger!Accept
  <1>2. b \in Body /\ b.agreed = b.version /\ n \in Nat /\ Len(ledger) = n
        /\ ledger \in Seq(Entry) /\ origin \in Seq(Body)
    BY DEF ServerInv, ServerShape, ConsentSent
  <1>3. e \in Entry
    <2>1. e = [staff |-> Clerk, cinema |-> House, phone |-> b.phone, ticket |-> b.ticket,
               token |-> live[Clerk], at |-> clock, suspicious |-> e.suspicious]
      BY DEF Ledger!EntryOf
    <2>2. e.suspicious \in BOOLEAN
      BY DEF Ledger!EntryOf, Ledger!RepeatsOneOf
    <2>3. b.phone \in Phone /\ b.ticket \in Id \cup {None}
      BY <1>2 DEF Body
    <2>4. live[Clerk] \in Nat /\ clock \in 0..MaxClock
      BY DEF ServerInv, ServerShape
    <2>. HIDE DEF e
    <2>5. QED
      BY <2>1, <2>2, <2>3, <2>4 DEF Entry
  <1>. HIDE DEF e
  <1>4. /\ origin' \in Seq(Body) /\ Len(origin') = n + 1 /\ DOMAIN origin' = 1..(n + 1)
        /\ \A i \in 1..n : origin'[i] = origin[i]
        /\ origin'[n + 1] = b
    BY <1>1, <1>2
  <1>5. ledger' \in Seq(Entry) /\ Len(ledger') = n + 1
    BY <1>1, <1>2, <1>3
  <1>6. ConsentForVersion'
    BY <1>2, <1>4 DEF ConsentForVersion, ServerInv
  <1>7. reply' \in Reply \cup {None}
    BY <1>1 DEF AnswerTo, Reply, ServerInv, ServerShape
  <1>8. QED
    BY <1>1, <1>4, <1>5, <1>6, <1>7

LEMMA ServerStep ==
  ASSUME PageInv, Server
  PROVE  FieldMove /\ FormInv' /\ ServerInv'
  <1>1. UNCHANGED <<field, ticket>>
    BY DEF Server, ServerAnswersToken, ServerAnswersConfig, Handle, Lose, Administer, Tick
  <1>2. FieldMove
    BY <1>1 DEF FieldMove
  <1>3. FormInv'
    <2>1. reload' \in Reload \cup {None} /\ UNCHANGED <<alive, screen, config, rating, reasons,
             phone, consent, submitting, submitError, post, agreed, filling, posts, told>>
      BY <1>1 DEF Server, ServerAnswersToken, ServerAnswersConfig, Handle, Lose, Administer, Tick,
                  PageInv, FormInv, FormShape, ServerInv, ServerShape, Reload, page, field
    <2>2. FieldShown'
      BY <2>1 DEF PageInv, FormInv, FieldShown
    <2>3. FormShape'
      BY <2>1 DEF PageInv, FormInv, FormShape
    <2>4. FormFits'
      BY <2>1 DEF PageInv, FormInv, FormFits
    <2>5. QED
      BY <2>2, <2>3, <2>4 DEF FormInv
  <1>4. ServerInv'
    <2>1. CASE ServerAnswersToken \/ ServerAnswersConfig
      BY <2>1, ServerStays DEF ServerAnswersToken, ServerAnswersConfig, network, PageInv,
                               ServerInv, ServerShape
    <2>2. ASSUME NEW b \in wire, Handle(b) PROVE ServerInv'
      <3>1. CASE Record(b)
        BY <2>2, <3>1, Recorded DEF Handle, PageInv, ServerInv, ServerShape, ConsentSent
      <3>2. CASE Refuse(b)
        BY <2>2, <3>2, ServerStays DEF Handle, Refuse, AnswerTo, Reply, PageInv, ServerInv,
                                       ServerShape
      <3>3. QED
        BY <2>2, <3>1, <3>2 DEF Handle
    <2>3. ASSUME NEW b \in wire, Lose(b) PROVE ServerInv'
      BY <2>3, ServerStays DEF Lose, PageInv, ServerInv, ServerShape
    <2>4. CASE Administer
      <3>1. UNCHANGED <<wire, reply, origin, ledger, clock>>
        BY <2>4 DEF Administer, Ledger!Issue, Ledger!Revoke, network
      <3>2. inForce' \in Terms
        BY <2>4 DEF Administer, PageInv, ServerInv, ServerShape
      <3>3. live' \in [{Clerk} -> Nat] /\ issued' \in [{Clerk} -> Nat]
        BY <2>4 DEF Administer, Ledger!Issue, Ledger!Revoke, PageInv, ServerInv, ServerShape
      <3>4. QED
        BY <3>1, <3>2, <3>3 DEF PageInv, ServerInv, ServerShape, ConsentSent, ConsentForVersion
    <2>5. CASE Tick
      BY <2>5 DEF Tick, Ledger!Tick, network, PageInv, ServerInv, ServerShape, ConsentSent,
                  ConsentForVersion
    <2>6. QED
      BY <2>1, <2>2, <2>3, <2>4, <2>5 DEF Server
  <1>5. QED
    BY <1>2, <1>3, <1>4

-------------------------------------------------------------------------------
LEMMA InitInv ==
  ASSUME Init
  PROVE  PageInv
  <1>1. FieldInv
    <2>1. /\ ticket \in [id : Id \cup {None}, source : Source]
          /\ ticket.id = None <=> ticket.source = "NONE"
      BY DEF Init, NoTicketId, Source
    <2>2. ~alive /\ alive \in BOOLEAN /\ ~helpOpen /\ helpOpen \in BOOLEAN
      BY DEF Init, Idle
    <2>3. /\ mode \in Mode /\ value = None /\ stage \in [Scan -> Stage]
          /\ fresh = {} /\ camera = {} /\ stream = None /\ capture = None
      BY DEF Init, Idle, Mode, Stage
    <2>4. QED
      BY <2>1, <2>2, <2>3 DEF FieldInv, TypeOK, ScanInv, TicketIsFieldValue
  <1>2. FormInv
    <2>1. FieldShown
      BY DEF Init, FieldShown
    <2>2. FormShape
      <3>1. consent \in BOOLEAN /\ submitting \in BOOLEAN /\ submitError \in BOOLEAN
        BY DEF Init
      <3>2. reload \in Reload
        BY DEF Init, Reload
      <3>3. QED
        BY <3>1, <3>2 DEF Init, FormShape, Screen
    <2>3. FormFits
      BY DEF Init, FormFits
    <2>4. QED
      BY <2>1, <2>2, <2>3 DEF FormInv
  <1>3. ServerInv
    BY DEF Init, ServerInv, ServerShape, ConsentSent, ConsentForVersion
  <1>4. QED
    BY <1>1, <1>2, <1>3 DEF PageInv

LEMMA PageStep ==
  ASSUME PageInv, [PageNext]_all
  PROVE  FieldMove /\ PageInv'
  <1>1. CASE UNCHANGED all
    <2>1. UNCHANGED <<field, alive, ticket, page, server, network>>
      BY <1>1 DEF all, vars, field
    <2>2. FieldShown' /\ FormShape' /\ FormFits'
      <3>1. FieldShown'
        BY <2>1 DEF PageInv, FormInv, FieldShown, page
      <3>2. FormShape'
        BY <2>1 DEF PageInv, FormInv, FormShape, page
      <3>3. FormFits'
        BY <2>1 DEF PageInv, FormInv, FormFits, page
      <3>4. QED
        BY <3>1, <3>2, <3>3
    <2>3. ServerInv'
      BY <2>1, ServerStays DEF PageInv, network, ServerInv, ServerShape
    <2>4. FieldMove
      BY <2>1 DEF FieldMove
    <2>5. QED
      BY <2>2, <2>3, <2>4, MoveInv DEF PageInv, FormInv
  <1>2. CASE Field
    BY <1>2, FieldStep, MoveInv DEF PageInv
  <1>3. CASE Form \/ Settle \/ Arrive
    BY <1>3, FormMove, AnswerMove, FormSends, MoveInv DEF PageInv
  <1>4. CASE Server
    BY <1>4, ServerStep, MoveInv DEF PageInv
  <1>5. QED
    BY <1>1, <1>2, <1>3, <1>4 DEF PageNext

-------------------------------------------------------------------------------
LEMMA AlwaysInv == Spec => []PageInv
  <1>1. Init => PageInv
    BY InitInv
  <1>2. PageInv /\ [PageNext]_all => PageInv'
    BY PageStep
  <1>3. QED
    BY <1>1, <1>2, PTL DEF Spec, Behaviour

(* Every variable of the field, the page and the server keeps its type.      *)
THEOREM PageTypeCorrect == Spec => []PageTypeOK
  <1>1. PageInv => PageTypeOK
    BY DEF PageInv, PageTypeOK, FieldInv, FormInv, FormShape, ServerInv, ServerShape
  <1>2. QED
    BY <1>1, AlwaysInv, PTL

(* However prompts, frames, taps and page events are ordered, and with any   *)
(* number of scans under way, the camera is live for the newest one only and *)
(* only while the scanner is shown.                                          *)
THEOREM CameraIsReleased == Spec => []CameraReleased
  <1>1. PageInv => CameraReleased
    BY FieldReleases DEF PageInv
  <1>2. QED
    BY <1>1, AlwaysInv, PTL

(* The form sends the id the field holds, through every reload of the form.  *)
THEOREM TicketFollowsField == Spec => []TicketIsFieldValue
  <1>1. PageInv => TicketIsFieldValue
    BY DEF PageInv, FieldInv
  <1>2. QED
    BY <1>1, AlwaysInv, PTL

(* A scan that was left, covered or replaced captures nothing.               *)
THEOREM CaptureIsSeen == Spec => CaptureOnlyWhileScanning
  <1>1. PageInv /\ [PageNext]_all =>
          [ (alive /\ mode # "captured" /\ mode' = "captured") =>
              mode = "scanning" /\ ~helpOpen /\ camera # {} ]_vars
    BY PageStep, MoveCaptures DEF PageInv
  <1>2. QED
    BY <1>1, AlwaysInv, PTL DEF Spec, Behaviour, CaptureOnlyWhileScanning

(* A form that the page lets through is valid for a server with the same     *)
(* configuration, whatever was picked, dropped and reloaded.                 *)
THEOREM ChecksSuffice == Spec => []ClientChecksSuffice
  <1>1. PageInv => ClientChecksSuffice
    BY ConfigFields DEF PageInv, FormInv, FormFits, FormShape, ClientChecksSuffice, Complete,
       requiredReasonsValid, ReasonsForRating, Valid, Answers
  <1>2. QED
    BY <1>1, AlwaysInv, PTL

(* Every recorded feedback carries a consent given for its own version.      *)
THEOREM ConsentFits == Spec => []ConsentForVersion
  <1>1. PageInv => ConsentForVersion
    BY DEF PageInv, ServerInv
  <1>2. QED
    BY <1>1, AlwaysInv, PTL

-------------------------------------------------------------------------------
(* What the customer was told.  Between two submissions of one form lies a   *)
(* message that the first failed: while a request is awaited nothing else is *)
(* sent, and the wait ends in thanks, after which the form is a new one, or  *)
(* in such a message.                                                        *)
Sent == wire \cup {origin[i] : i \in DOMAIN origin}

Kept == \E i \in DOMAIN origin : origin[i].n = posts /\ origin[i].filling = filling

WaitInv ==
  /\ ~submitting => post = None /\ reply = None
  /\ submitting => /\ screen \in {"form", "privacy"} /\ submitError = FALSE /\ reload = None
                   /\ post.n = posts
  /\ reload # None => screen = "loading"

SentInv(b) ==
  /\ b.n <= posts /\ b.filling <= filling /\ b.told <= told
  /\ b.filling = filling /\ ~submitting /\ screen # "thanks" => b.told < told
  /\ b.n = posts /\ submitting => b.filling = filling

ToldBetween ==
  \A b, c \in Sent : b.filling = c.filling /\ b.n < c.n => b.told < c.told

ToldInv ==
  /\ WaitInv
  /\ \A b \in Sent : SentInv(b)
  /\ ToldBetween
  /\ reply = "created" \/ screen = "thanks" => Kept

LEMMA SentTyping ==
  ASSUME PageInv
  PROVE  \A b \in Sent : b \in Body /\ b.n \in Nat /\ b.filling \in Nat /\ b.told \in Nat
  <1>1. \A b \in Sent : b \in Body
    BY DEF Sent, PageInv, ServerInv, ServerShape
  <1>2. QED
    BY <1>1 DEF Body

(* Steps that neither send, nor answer, nor start a new form. *)
LEMMA QuietTold ==
  ASSUME ToldInv, WaitInv', UNCHANGED <<submitting, post, posts, told, filling, origin, wire, reply>>,
         screen' = "thanks" <=> screen = "thanks"
  PROVE  ToldInv'
  <1>1. Sent' = Sent /\ (Kept => Kept')
    BY DEF Sent, Kept
  <1>2. \A b : SentInv(b) => SentInv(b)'
    BY DEF SentInv
  <1>3. QED
    BY <1>1, <1>2 DEF ToldInv, ToldBetween

LEMMA FormTold ==
  ASSUME PageInv, ToldInv, Form, ~submit, ~reset
  PROVE  ToldInv'
  <1>. USE DEF PageInv, FormInv, FormShape, ToldInv, WaitInv, OnForm
  <1>1. UNCHANGED <<post, submitting, posts, told, filling, origin, wire, reply>>
    BY DEF Form, selectRating, toggleReason, Introduce, TickConsent, ReadPrivacy, Incomplete,
           reloadForm, server, network
  <1>2. CASE reloadForm
    <2>1. screen # "thanks" /\ ~submitting
      BY <1>2 DEF reloadForm
    <2>2. screen' = "loading"
      BY <1>2 DEF reloadForm, Ask, Show
    <2>3. QED
      BY <1>1, <2>1, <2>2, QuietTold
  <1>3. CASE ReadPrivacy
    <2>1. screen \in {"form", "privacy"} /\ screen' \in {"form", "privacy"}
          /\ UNCHANGED <<submitError, reload>>
      BY <1>3 DEF ReadPrivacy, Show
    <2>2. QED
      BY <1>1, <2>1, QuietTold
  <1>4. CASE ~reloadForm /\ ~ReadPrivacy
    <2>1. UNCHANGED <<screen, reload>> /\ submitError' \in {submitError, FALSE}
      BY <1>4 DEF Form, selectRating, toggleReason, Introduce, TickConsent, Incomplete
    <2>2. QED
      BY <1>1, <2>1, QuietTold
  <1>5. QED
    BY <1>2, <1>3, <1>4

LEMMA SubmitTold ==
  ASSUME PageInv, ToldInv, submit
  PROVE  ToldInv'
  <1>. DEFINE a == Answers
  <1>1. /\ a.n = posts + 1 /\ a.filling = filling /\ a.told = told
        /\ posts \in Nat /\ told \in Nat /\ filling \in Nat
    BY DEF Answers, PageInv, FormInv, FormShape
  <1>2. /\ post' = a /\ wire' = wire \cup {a} /\ posts' = posts + 1
        /\ submitting' = TRUE /\ submitError' = FALSE
        /\ UNCHANGED <<screen, reload, filling, told, reply, origin>>
        /\ screen = "form" /\ ~submitting
    BY DEF submit, PostAnswers, OnForm, server
  <1>. HIDE DEF a
  <1>3. post = None /\ reply = None /\ reload = None
    BY <1>2 DEF ToldInv, WaitInv
  <1>4. WaitInv'
    BY <1>1, <1>2, <1>3 DEF WaitInv
  <1>5. Sent' = Sent \cup {a}
    BY <1>2 DEF Sent
  <1>6. ASSUME NEW b \in Sent
        PROVE  /\ b.n <= posts /\ b.filling <= filling /\ b.told <= told
               /\ b.filling = filling => b.told < told
               /\ b.n \in Nat /\ b.filling \in Nat /\ b.told \in Nat
    BY <1>2, <1>3, SentTyping DEF ToldInv, SentInv
  <1>7. \A b \in Sent' : SentInv(b)'
    BY <1>1, <1>2, <1>5, <1>6 DEF SentInv
  <1>8. ToldBetween'
    BY <1>1, <1>5, <1>6 DEF ToldBetween, ToldInv
  <1>9. QED
    BY <1>2, <1>3, <1>4, <1>7, <1>8 DEF ToldInv, Reply

LEMMA ResetTold ==
  ASSUME PageInv, ToldInv, reset
  PROVE  ToldInv'
  <1>1. /\ screen = "thanks" /\ screen' = "loading" /\ filling' = filling + 1
        /\ UNCHANGED <<post, submitting, posts, told, origin, wire, reply>>
    BY DEF reset, Ask, Show, server, network
  <1>2. ~submitting /\ post = None /\ reply = None /\ filling \in Nat
    BY <1>1 DEF ToldInv, WaitInv, PageInv, FormInv, FormShape
  <1>3. WaitInv'
    BY <1>1, <1>2 DEF ToldInv, WaitInv
  <1>4. Sent' = Sent
    BY <1>1 DEF Sent
  <1>5. \A b \in Sent' : SentInv(b)'
    BY <1>1, <1>2, <1>4, SentTyping DEF ToldInv, SentInv
  <1>6. QED
    BY <1>1, <1>2, <1>3, <1>4, <1>5 DEF ToldInv, ToldBetween, Reply

LEMMA FinishTold ==
  ASSUME PageInv, ToldInv, submitting, NEW answer, Finish(answer), answer = "created" => Kept
  PROVE  ToldInv'
  <1>1. /\ post' = None /\ reply' = None /\ submitting' = FALSE
        /\ UNCHANGED <<posts, filling, origin, wire, reload>>
        /\ reload = None /\ screen \in {"form", "privacy"}
        /\ told \in Nat
    BY DEF Finish, Settled, server, ToldInv, WaitInv, PageInv, FormInv, FormShape
  <1>2. \/ answer = "created" /\ screen' = "thanks" /\ told' = told
        \/ screen' # "thanks" /\ told' = told + 1
    BY <1>1 DEF Finish, Show
  <1>3. WaitInv'
    BY <1>1 DEF WaitInv
  <1>4. Sent' = Sent /\ (Kept => Kept')
    BY <1>1 DEF Sent, Kept
  <1>5. \A b \in Sent' : SentInv(b)'
    BY <1>1, <1>2, <1>4, SentTyping DEF ToldInv, SentInv
  <1>6. QED
    BY <1>1, <1>2, <1>3, <1>4, <1>5 DEF ToldInv, ToldBetween, Reply

LEMMA ArriveTold ==
  ASSUME ToldInv, Arrive
  PROVE  ToldInv'
  <1>1. /\ reload # None /\ reload' = None
        /\ UNCHANGED <<post, submitting, posts, told, filling, origin, wire, reply>>
    BY DEF Arrive, Reloaded, ReloadFails, server, network
  <1>2. ~submitting /\ screen = "loading"
    BY <1>1 DEF ToldInv, WaitInv
  <1>3. screen' # "thanks"
    BY DEF Arrive, Reloaded, ReloadFails, Show
  <1>4. WaitInv'
    BY <1>1, <1>2 DEF ToldInv, WaitInv
  <1>5. QED
    BY <1>1, <1>2, <1>3, <1>4, QuietTold

(* A body handled or lost leaves the wire, for the ledger if at all. *)
LEMMA HandledTold ==
  ASSUME PageInv, ToldInv, NEW b \in wire, Handle(b) \/ Lose(b)
  PROVE  ToldInv'
  <1>1. UNCHANGED <<screen, submitting, submitError, post, reload, filling, posts, told>>
        /\ wire' = wire \ {b}
    BY DEF Handle, Lose, page
  <1>2. /\ origin \in Seq(Body)
        /\ origin' = origin \/ (origin' = Append(origin, b) /\ AnswerTo(b, "created"))
    BY DEF Handle, Lose, Record, Refuse, server, PageInv, ServerInv, ServerShape
  <1>3. b \in Body
    BY DEF PageInv, ServerInv, ServerShape
  <1>4. /\ Sent' \subseteq Sent
        /\ Kept => Kept'
        /\ origin' = Append(origin, b) /\ b.n = posts /\ b.filling = filling => Kept'
    <2>1. CASE origin' = origin
      <3>1. Sent' \subseteq Sent /\ (Kept => Kept')
        BY <1>1, <2>1 DEF Sent, Kept
      <3>2. origin' # Append(origin, b)
        BY <1>2, <1>3, <2>1
      <3>3. QED
        BY <3>1, <3>2
    <2>2. CASE origin' = Append(origin, b)
      <3>1. /\ DOMAIN origin' = 1..(Len(origin) + 1) /\ DOMAIN origin = 1..Len(origin)
            /\ Len(origin) \in Nat /\ origin'[Len(origin) + 1] = b
            /\ \A i \in DOMAIN origin : i \in DOMAIN origin' /\ origin'[i] = origin[i]
            /\ \A i \in DOMAIN origin' : i \in DOMAIN origin \/ i = Len(origin) + 1
        BY <1>2, <1>3, <2>2
      <3>2. Sent' \subseteq Sent
        BY <1>1, <3>1 DEF Sent
      <3>3. Kept => Kept'
        BY <1>1, <3>1 DEF Kept
      <3>4. b.n = posts /\ b.filling = filling => Kept'
        BY <1>1, <3>1 DEF Kept
      <3>5. QED
        BY <3>2, <3>3, <3>4
    <2>3. QED
      BY <1>2, <2>1, <2>2
  <1>5. ~submitting => reply' = reply
    BY DEF Handle, Lose, Record, Refuse, AnswerTo, ToldInv, WaitInv
  <1>6. reply' = "created" => Kept'
    <2>1. CASE reply' = reply
      BY <1>4, <2>1 DEF ToldInv
    <2>2. CASE reply' # reply /\ reply' = "created"
      <3>1. Record(b) /\ submitting /\ post.n = b.n
        BY <1>5, <2>2 DEF Handle, Lose, Record, Refuse, AnswerTo
      <3>2. b.n = posts /\ b \in Sent
        BY <3>1 DEF ToldInv, WaitInv, Sent
      <3>3. b.filling = filling
        BY <3>1, <3>2 DEF ToldInv, SentInv
      <3>4. QED
        BY <1>4, <3>1, <3>2, <3>3 DEF Record
    <2>3. QED
      BY <2>1, <2>2
  <1>7. WaitInv'
    BY <1>1, <1>5 DEF ToldInv, WaitInv
  <1>8. \A c : SentInv(c) => SentInv(c)'
    BY <1>1 DEF SentInv
  <1>9. QED
    BY <1>1, <1>4, <1>6, <1>7, <1>8 DEF ToldInv, ToldBetween

LEMMA ToldStep ==
  ASSUME PageInv, ToldInv, [PageNext]_all
  PROVE  ToldInv'
  <1>1. ASSUME UNCHANGED <<screen, submitting, submitError, post, posts, told, filling, origin,
                           wire, reply>>,
               reload' = reload \/ reload # None
        PROVE  ToldInv'
    <2>1. WaitInv'
      BY <1>1 DEF ToldInv, WaitInv
    <2>2. QED
      BY <1>1, <2>1, QuietTold
  <1>2. CASE UNCHANGED all
    BY <1>1, <1>2 DEF all, page, server, network
  <1>3. CASE Field
    BY <1>1, <1>3 DEF Field, page, server, network
  <1>4. CASE Form
    BY <1>4, FormTold, SubmitTold, ResetTold
  <1>5. CASE Settle
    <2>1. CASE Answered
      BY <2>1, FinishTold DEF Answered, ToldInv, WaitInv
    <2>2. CASE GiveUp
      BY <2>2, FinishTold DEF GiveUp, ToldInv, WaitInv
    <2>3. QED
      BY <1>5, <2>1, <2>2 DEF Settle
  <1>6. CASE Arrive
    BY <1>6, ArriveTold
  <1>7. CASE Server
    <2>1. CASE ServerAnswersToken \/ ServerAnswersConfig
      BY <1>1, <2>1 DEF ServerAnswersToken, ServerAnswersConfig, server, network
    <2>2. CASE Administer \/ Tick
      BY <1>1, <2>2 DEF Administer, Tick, page, network
    <2>3. QED
      BY <1>7, <2>1, <2>2, HandledTold DEF Server
  <1>8. QED
    BY <1>2, <1>3, <1>4, <1>5, <1>6, <1>7 DEF PageNext

(* However requests and answers are delayed and lost, the customer is        *)
(* thanked only for a recorded form, and a form is recorded again only after *)
(* the page said that sending it failed.                                     *)
THEOREM CustomerIsTold == Spec => []RecordedAsTold
  <1>1. Init => ToldInv
    <2>1. Init => Sent = {}
      BY DEF Init, Sent
    <2>2. Init => WaitInv /\ reply # "created" /\ screen # "thanks"
      BY DEF Init, WaitInv, Reply
    <2>3. QED
      BY <2>1, <2>2 DEF ToldInv, ToldBetween
  <1>2. ToldInv => RecordedAsTold
    <2>1. ASSUME ToldInv, NEW i \in DOMAIN origin, NEW j \in DOMAIN origin,
                 origin[i].filling = origin[j].filling, origin[i].n < origin[j].n
          PROVE  origin[i].told < origin[j].told
      BY <2>1 DEF ToldInv, ToldBetween, Sent
    <2>2. QED
      BY <2>1 DEF ToldInv, Kept, RecordedAsTold
  <1>3. QED
    BY <1>1, <1>2, ToldStep, AlwaysInv, PTL DEF Spec, Behaviour
===============================================================================
