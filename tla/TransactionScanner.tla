-------------------------- MODULE TransactionScanner --------------------------
(***************************************************************************)
(* The optional transaction id of the public form: typed, prefilled, or    *)
(* scanned with the phone's camera (apps/smart-customer/src/app:           *)
(* transaction.ts, transaction-parser.ts, transaction-help.ts).            *)
(*                                                                         *)
(* A scan is a chain of awaits: the permission prompt, the next paint, the *)
(* start of the video and of the decoder, then one animation frame after   *)
(* another, and a timer between a hit and its capture.  Anything may       *)
(* happen at each of them: the customer leaves the scanner or starts it    *)
(* again, the tab is hidden, the field is destroyed.  The code compares a  *)
(* counter, generation, that every stop() increments; it only ever asks    *)
(* whether its own value is still the counter's, so here a scan that       *)
(* passes that test is in fresh and stop() empties fresh.                  *)
(*                                                                         *)
(* A text is a record of its format and the id in it: validTransaction     *)
(* accepts the plain format only, parseTransaction also takes the id out   *)
(* of the two ticket formats.  Messages, zoom and focus are left out.      *)
(***************************************************************************)
EXTENDS Naturals

CONSTANTS
  Id,        \* transaction ids
  Scan,      \* identities for the scans under way at once (a bound)
  None       \* no id, no text, no scan

VARIABLES
  alive,     \* the field is on the page
  mode, value, helpOpen,
  stage,     \* stage[c]: the await that scan c is at, "over" if it is not under way
  fresh,     \* the scans whose generation is the field's
  stream,    \* the scan that this.stream comes from
  camera,    \* the scans whose camera tracks are live
  capture,   \* the pending capture timer: the scan that set it and the id it read
  ticket     \* the transaction id and source the form holds

field == <<alive, mode, value, helpOpen, stage, fresh, stream, camera, capture>>
vars == <<field, ticket>>

Mode == {"idle", "manual", "scanning", "captured"}
Stage == {"over", "prompt", "paint", "start", "reading"}
Source == {"NONE", "MANUAL", "QR_SCAN", "QR_TICKET"}
Text == [format : {"plain", "slash", "entry", "other"}, id : Id]

ASSUME ScannerAssumption == None \notin Id \cup Scan \cup Text

-------------------------------------------------------------------------------
validTransaction(text) == text # None /\ text.format = "plain"

(* Both ticket formats and the plain one give the id in plain format.        *)
parseTransaction(text) ==
  IF text # None /\ text.format \in {"plain", "slash", "entry"}
  THEN [format |-> "plain", id |-> text.id] ELSE None

(* The id a text stands for on the form: none unless it is valid. *)
IdOf(text) == IF validTransaction(text) THEN text.id ELSE None

NoTicketId == [id |-> None, source |-> "NONE"]

\* Mutant: the text goes to the form as it is.
EmitUnchecked(text, source) ==
  ticket' = IF text = None THEN NoTicketId ELSE [id |-> text, source |-> source]

(* changed.emit: the id of a valid text with its source, or no id at all. *)
Emit(text, source) ==
  ticket' = IF validTransaction(text) THEN [id |-> text.id, source |-> source]
            ELSE NoTicketId

-------------------------------------------------------------------------------
\* The frame callbacks are cancelled; a scan at an earlier await goes on.
Cancelled == [c \in Scan |-> IF stage[c] = "reading" THEN "over" ELSE stage[c]]

\* Mutant: a stop does not start a new generation.
StopKeepsGeneration(wanted, stages) ==
  /\ fresh' = fresh \cup wanted
  /\ stage' = stages
  /\ capture' = None
  /\ camera' = camera \ {stream}
  /\ stream' = None

\* Mutant: a hit that waits for its timer is let through.
StopLetsHitThrough(wanted, stages) ==
  /\ fresh' = IF capture = None THEN wanted ELSE fresh
  /\ stage' = stages
  /\ UNCHANGED capture
  /\ camera' = camera \ {stream}
  /\ stream' = None

(* stop(), after which the scans in wanted are fresh and at the given stages: *)
(* the timer is cleared and the tracks of the stream are stopped.            *)
StopInto(wanted, stages) ==
  /\ fresh' = wanted
  /\ stage' = stages
  /\ capture' = None
  /\ camera' = camera \ {stream}
  /\ stream' = None

stop == StopInto({}, Cancelled)

manual ==
  /\ stop
  /\ mode' = "manual"
  /\ UNCHANGED <<alive, value, helpOpen, ticket>>

(* What the template offers: nothing behind the help sheet. *)
Offered(modes) == alive /\ ~helpOpen /\ mode \in modes

ChooseManual == Offered({"idle", "scanning"}) /\ manual

clear ==
  /\ Offered({"captured"})
  /\ stop
  /\ value' = None
  /\ mode' = "idle"
  /\ ticket' = NoTicketId
  /\ UNCHANGED <<alive, helpOpen>>

\* Mutant: the form is told only of valid ids.
ChangeKeepsOldId(raw) ==
  LET id == IF parseTransaction(raw) = None THEN raw ELSE parseTransaction(raw)
  IN  /\ Offered({"manual"})
      /\ value' = id
      /\ IF validTransaction(id) THEN Emit(id, "MANUAL") ELSE UNCHANGED ticket
      /\ UNCHANGED <<alive, mode, helpOpen, stage, fresh, stream, camera, capture>>

(* The customer types raw, or empties the input (None). *)
change(raw) ==
  LET id == IF parseTransaction(raw) = None THEN raw ELSE parseTransaction(raw)
  IN  /\ Offered({"manual"})
      /\ value' = id
      /\ Emit(id, "MANUAL")
      /\ UNCHANGED <<alive, mode, helpOpen, stage, fresh, stream, camera, capture>>

openHelp ==
  /\ alive /\ ~helpOpen
  /\ IF mode = "scanning" THEN stop /\ mode' = "idle"
     ELSE UNCHANGED <<mode, stage, fresh, stream, camera, capture>>
  /\ helpOpen' = TRUE
  /\ UNCHANGED <<alive, value, ticket>>

closeHelp ==
  /\ alive /\ helpOpen
  /\ helpOpen' = FALSE
  /\ UNCHANGED <<alive, mode, value, stage, fresh, stream, camera, capture, ticket>>

(* The tab is hidden: a scanner falls back to typing.  The page is left      *)
(* (pagehide): everything stops, and the mode stays for a page that returns. *)
hide == alive /\ mode = "scanning" /\ manual

leave ==
  /\ alive
  /\ stop
  /\ UNCHANGED <<alive, mode, value, helpOpen, ticket>>

-------------------------------------------------------------------------------
(* A scan, from the button to the first frame.                               *)
scan(c) ==
  /\ Offered({"idle", "manual"})
  /\ stage[c] = "over"
  /\ StopInto({c}, [Cancelled EXCEPT ![c] = "prompt"])
  /\ mode' = "scanning"
  /\ UNCHANGED <<alive, value, helpOpen, ticket>>

(* A stale scan stops where it is; a stream it was just given is stopped in  *)
(* the same step.                                                            *)
Abandon(c) ==
  /\ stage[c] \in {"prompt", "paint", "start"}
  /\ c \notin fresh
  /\ stage' = [stage EXCEPT ![c] = "over"]
  /\ UNCHANGED <<alive, mode, value, helpOpen, fresh, stream, camera, capture, ticket>>

(* The camera is granted to a scan that is still wanted. *)
Granted(c) ==
  /\ stage[c] = "prompt" /\ c \in fresh
  /\ stage' = [stage EXCEPT ![c] = "paint"]
  /\ stream' = c
  /\ camera' = camera \cup {c}
  /\ UNCHANGED <<alive, mode, value, helpOpen, fresh, capture, ticket>>

(* The scanner is painted, then the video plays and the decoder is loaded. *)
Prepare(c) ==
  /\ c \in fresh
  /\ \/ stage[c] = "paint" /\ stage' = [stage EXCEPT ![c] = "start"]
     \/ stage[c] = "start" /\ stage' = [stage EXCEPT ![c] = "reading"]
  /\ UNCHANGED <<alive, mode, value, helpOpen, fresh, stream, camera, capture, ticket>>

(* The prompt is declined, the video or the decoder does not start, or a     *)
(* frame cannot be drawn: a scan that is still wanted falls back to typing.  *)
Fail(c) ==
  /\ stage[c] # "over" /\ c \in fresh
  /\ StopInto({}, [Cancelled EXCEPT ![c] = "over"])
  /\ mode' = "manual"
  /\ UNCHANGED <<alive, value, helpOpen, ticket>>

(* A frame shows a code.  One that parses is locked and captured after a     *)
(* while, any other leaves everything as it is.                              *)
Hit(c, code) ==
  /\ stage[c] = "reading" /\ c \in fresh
  /\ capture = None
  /\ parseTransaction(code) # None
  /\ capture' = [scan |-> c, id |-> parseTransaction(code)]
  /\ UNCHANGED <<alive, mode, value, helpOpen, stage, fresh, stream, camera, ticket>>

(* The timer runs out. *)
Captured ==
  /\ capture # None
  /\ capture.scan \in fresh
  /\ stop
  /\ value' = capture.id
  /\ mode' = "captured"
  /\ Emit(capture.id, "QR_SCAN")
  /\ UNCHANGED <<alive, helpOpen>>

-------------------------------------------------------------------------------
(* The form shows the field with the id it holds, or takes it away.          *)
Mount(initial) ==
  /\ ~alive
  /\ alive' = TRUE
  /\ value' = initial
  /\ mode' = IF initial = None THEN "idle"
             ELSE IF validTransaction(initial) THEN "captured" ELSE "manual"
  /\ helpOpen' = FALSE
  /\ UNCHANGED <<stage, fresh, stream, camera, capture>>

\* Mutant: destroying the field stops nothing.
DestroyOnly ==
  /\ alive
  /\ alive' = FALSE
  /\ UNCHANGED <<mode, value, helpOpen, stage, fresh, stream, camera, capture>>

Destroy ==
  /\ alive
  /\ stop
  /\ alive' = FALSE
  /\ UNCHANGED <<mode, value, helpOpen>>

Idle ==
  /\ mode = "idle" /\ value = None /\ helpOpen = FALSE
  /\ stage = [c \in Scan |-> "over"] /\ fresh = {}
  /\ stream = None /\ camera = {} /\ capture = None

Customer ==
  \/ ChooseManual \/ clear \/ openHelp \/ closeHelp
  \/ \E raw \in Text \cup {None} : change(raw)
  \/ \E c \in Scan : scan(c)

Browser ==
  \/ hide \/ leave \/ Captured
  \/ \E c \in Scan : Abandon(c) \/ Granted(c) \/ Prepare(c) \/ Fail(c)
  \/ \E c \in Scan, code \in Text : Hit(c, code)

Next == Customer \/ Browser

-------------------------------------------------------------------------------
TypeOK ==
  /\ alive \in BOOLEAN /\ helpOpen \in BOOLEAN
  /\ mode \in Mode
  /\ value \in Text \cup {None}
  /\ stage \in [Scan -> Stage]
  /\ fresh \subseteq Scan /\ camera \subseteq Scan
  /\ stream \in Scan \cup {None}
  /\ capture \in [scan : Scan, id : Text] \cup {None}
  /\ ticket \in [id : Id \cup {None}, source : Source]

(* "Leaving the scanner, opening help, hiding the page or destroying the     *)
(* component cancels the animation/capture and stops tracks": whatever the   *)
(* order of prompts, frames, taps and page events, the camera is live only   *)
(* for the newest scan, on a field that is there and shows the scanner.      *)
CameraReleased ==
  camera # {} =>
    /\ alive /\ mode = "scanning" /\ ~helpOpen
    /\ camera = {stream} /\ fresh = {stream}

(* The form sends what the field holds: the id of a valid text and no id for *)
(* any other, also after the field was destroyed and came back.              *)
TicketIsFieldValue ==
  /\ alive => ticket.id = IdOf(value)
  /\ ticket.id = None <=> ticket.source = "NONE"

(* A scan ends in a capture only while the customer sees the scanner: one    *)
(* that was left, covered by help, hidden or replaced changes nothing.       *)
CaptureOnlyWhileScanning ==
  [][ (alive /\ mode # "captured" /\ mode' = "captured") =>
        mode = "scanning" /\ ~helpOpen /\ camera # {} ]_vars
===============================================================================
