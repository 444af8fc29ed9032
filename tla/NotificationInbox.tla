-------------------------- MODULE NotificationInbox --------------------------
(***************************************************************************)
(* The notification inbox of a manager and the bell in the console's       *)
(* header (libs/feature/src/notifications.ts), against the endpoints of    *)
(* backend/internal/server/notifications.go.                               *)
(*                                                                         *)
(* Three kinds of requests refresh what the page shows: its loads, the     *)
(* poll of every 15 seconds, and the unread count that the bell polls too. *)
(* Each is answered from the database as it is at one moment and arrives   *)
(* at a later one, while the manager marks notifications as read here or   *)
(* on another device and new feedback comes in.                            *)
(*                                                                         *)
(* revision is only compared with the value a poll started from: a poll is *)
(* fresh until it changes.  What a superseded load or a stale poll is      *)
(* answered is thrown away and so is not kept.  Texts, times and the       *)
(* totals next to the filters are left out.                                *)
(***************************************************************************)
EXTENDS AsyncPage

CONSTANTS
  Earlier,     \* notifications 1..Earlier are there, and read, at the start
  MaxNotices,  \* those up to MaxNotices are queued later, in this order (a bound)
  Urgent,      \* those of kind ALERT; the others are SYSTEM
  PageSize

VARIABLES
  data,        \* the page of notifications that is shown
  page, filter,
  loads,       \* the load each run is at, None if it is not one
  poll,        \* the poll in flight
  reading,     \* the notification being marked, and what follows
  marking,     \* "sent", "handled", or the load that markAllRead awaits
  count,       \* the bell's unread count, None if it is unknown
  asked,       \* the request for the count in flight
  made, unread,  \* server: how many notifications exist, which are unread
  known        \* history: those the page was told are read

inboxVars == <<data, page, filter, loads, poll, reading, marking, count, asked,
               made, unread, known>>
inbox == <<asyncVars, inboxVars>>
counterVars == <<count, asked>>
serverVars == <<made, unread>>

Notice == 1..MaxNotices
Kind == {"ALERT", "SYSTEM"}
Filter == {"all", "unread"} \cup Kind
Query == [unread : BOOLEAN, page : Nat]
Answer == [unread : BOOLEAN, page : Nat, items : SUBSET Notice, new : SUBSET Notice,
           total : Nat]
Load == [stage : {"fetch", "count"}, query : Query \cup {None}, answer : Answer \cup {None}]
Poll == [fresh : BOOLEAN, query : Query \cup {None}, answer : Answer \cup {None}]
Mark == [id : Notice, next : {"load", "go"}]
Count == [value : Nat \cup {None}, by : Run \cup {"bell"}]

ASSUME InboxAssumption ==
  /\ MaxNotices \in Nat /\ Earlier \in 0..MaxNotices /\ PageSize \in Nat \ {0} /\ Urgent \subseteq Notice
  /\ None \notin Nat \cup Query \cup Answer \cup Load \cup Poll \cup Mark \cup Count
  /\ None \notin {"sent", "handled"}
  /\ Run \cap {"sent", "handled", "bell"} = {}

-------------------------------------------------------------------------------
notificationKind(n) == IF n \in Urgent THEN "ALERT" ELSE "SYSTEM"

(* listNotifications: one page of the inbox, or of what is unread, with the  *)
(* newest first.                                                             *)
Listed(q) ==
  LET found == IF q.unread THEN unread ELSE 1..made
      place(n) == Cardinality({m \in found : m >= n})
      items == {n \in found : place(n) > (q.page - 1) * PageSize /\ place(n) <= q.page * PageSize}
  IN  [unread |-> q.unread, page |-> q.page, items |-> items, new |-> items \cap unread,
       total |-> Cardinality(found)]

query == [unread |-> filter = "unread", page |-> page]

(* What the filter leaves of the page, and the filters it offers. *)
ShownBy(f, d) == IF f \in Kind THEN {n \in d.items : notificationKind(n) = f} ELSE d.items

filters == {"all", "unread"} \cup {k \in Kind : ShownBy(k, data) # {}}

reconcileFilter(d) == IF ShownBy(filter, d) = {} /\ filter \in Kind THEN "all" ELSE filter

store(d) ==
  /\ data' = d
  /\ filter' = reconcileFilter(d)
  /\ known' = known \cup (d.items \ d.new)

-------------------------------------------------------------------------------
(* NotificationCounter.  A refresh while one is pending does nothing and is  *)
(* over at once.                                                             *)
refresh(by) == asked' = IF asked = None THEN [value |-> None, by |-> by] ELSE asked

\* Mutant: the bell asks until it has a count and then never again.
BellOnce ==
  /\ asked = None /\ count = None
  /\ refresh("bell")
  /\ UNCHANGED <<asyncVars, data, page, filter, loads, poll, reading, marking, count,
                 serverVars, known>>

BellTick ==
  /\ asked = None
  /\ refresh("bell")
  /\ UNCHANGED <<asyncVars, data, page, filter, loads, poll, reading, marking, count,
                 serverVars, known>>

CounterServed ==
  /\ asked # None /\ asked.value = None
  /\ asked' = [asked EXCEPT !.value = Cardinality(unread)]
  /\ UNCHANGED <<asyncVars, data, page, filter, loads, poll, reading, marking, count,
                 serverVars, known>>

EmptyPage == [unread |-> FALSE, page |-> 1, items |-> {}, new |-> {}, total |-> 0]

(* The page and its requests are gone. *)
Gone ==
  /\ alive' = FALSE /\ current' = None /\ busy' = FALSE /\ error' = FALSE
  /\ data' = EmptyPage /\ page' = 1 /\ filter' = "all"
  /\ loads' = [r \in Run |-> None]
  /\ poll' = None /\ reading' = None /\ marking' = None
  /\ known' = {}

\* A count asked for by a page that is gone still arrives.
Disown ==
  /\ asked' = IF asked = None THEN None ELSE [asked EXCEPT !.by = "bell"]
  /\ UNCHANGED count

(* The load that waited for the count ends, and with it the markAllRead that *)
(* awaits the load.                                                          *)
Continue(by) ==
  \/ /\ by \in Run
     /\ End(by, FALSE)
     /\ loads' = [loads EXCEPT ![by] = None]
     /\ marking' = IF marking = by THEN None ELSE marking
     /\ UNCHANGED <<alive, data, page, filter, poll, reading, known>>
  \/ /\ by = "bell"
     /\ UNCHANGED <<asyncVars, data, page, filter, loads, poll, reading, marking, known>>

Counted(value) ==
  /\ count' = value
  /\ asked' = None

CounterAnswered ==
  /\ asked # None /\ asked.value # None
  /\ Counted(asked.value)
  /\ Continue(asked.by)
  /\ UNCHANGED serverVars

CounterFails ==
  /\ asked # None
  /\ Counted(None)
  /\ Continue(asked.by)
  /\ UNCHANGED serverVars

-------------------------------------------------------------------------------
\* Mutant: the revision stays the same, and with it the poll in flight fresh.
KeepFresh(p) == p

Stale(p) == IF p = None THEN None ELSE [fresh |-> FALSE, query |-> None, answer |-> None]

\* A superseded load: its answer is not stored.
Superseded(job) ==
  IF job # None /\ job.stage = "fetch" THEN [job EXCEPT !.query = None, !.answer = None]
  ELSE job

(* load() of the given page and filter under run r. *)
load(r, p, f) ==
  /\ alive
  /\ loads[r] = None
  /\ Start(r)
  /\ page' = p /\ filter' = f
  /\ poll' = Stale(poll)
  /\ loads' = [x \in Run |->
       IF x = r THEN [stage |-> "fetch", answer |-> None,
                      query |-> [unread |-> f = "unread", page |-> p]]
       ELSE Superseded(loads[x])]
  /\ UNCHANGED alive

ngOnInit(r) ==
  /\ ~alive
  /\ alive' = TRUE
  /\ loads[r] = None /\ Start(r)
  /\ loads' = [loads EXCEPT ![r] = [stage |-> "fetch", query |-> query, answer |-> None]]
  /\ UNCHANGED <<data, page, filter, poll, reading, marking, counterVars, serverVars, known>>

(* The refresh button, or retry under an error. *)
Reload(r) ==
  /\ ~busy \/ error
  /\ load(r, page, filter)
  /\ UNCHANGED <<data, reading, marking, counterVars, serverVars, known>>

TurnPage(r, p) ==
  /\ ~busy /\ p # page /\ (p - 1) * PageSize < data.total
  /\ load(r, p, filter)
  /\ UNCHANGED <<data, reading, marking, counterVars, serverVars, known>>

pick(r, f) ==
  /\ alive /\ f \in filters \ {filter}
  /\ IF (f = "unread") = (filter = "unread")
     THEN filter' = f /\ UNCHANGED <<asyncVars, page, loads, poll>>
     ELSE load(r, 1, f)
  /\ UNCHANGED <<data, reading, marking, counterVars, serverVars, known>>

LoadServed(r) ==
  /\ loads[r] # None /\ loads[r].query # None /\ loads[r].answer = None
  /\ loads' = [loads EXCEPT ![r].answer = Listed(loads[r].query)]
  /\ UNCHANGED <<asyncVars, data, page, filter, poll, reading, marking, counterVars,
                 serverVars, known>>

StoreCurrent(r) ==
  IF r = current THEN store(loads[r].answer) ELSE UNCHANGED <<data, filter, known>>

(* The list arrives; the load goes on to refresh the count, or ends if a     *)
(* refresh is pending.                                                       *)
LoadArrives(r) ==
  /\ loads[r] # None /\ loads[r].stage = "fetch"
  /\ r = current => loads[r].answer # None
  /\ StoreCurrent(r)
  /\ refresh(r)
  /\ IF asked # None
     THEN /\ End(r, FALSE)
          /\ loads' = [loads EXCEPT ![r] = None]
          /\ marking' = IF marking = r THEN None ELSE marking
     ELSE /\ loads' = [loads EXCEPT ![r] = [stage |-> "count", query |-> None, answer |-> None]]
          /\ UNCHANGED <<current, busy, error, marking>>
  /\ UNCHANGED <<alive, page, poll, reading, count, serverVars>>

LoadFails(r) ==
  /\ loads[r] # None /\ loads[r].stage = "fetch"
  /\ End(r, TRUE)
  /\ loads' = [loads EXCEPT ![r] = None]
  /\ marking' = IF marking = r THEN None ELSE marking
  /\ UNCHANGED <<alive, data, page, filter, poll, reading, counterVars, serverVars, known>>

-------------------------------------------------------------------------------
(* The poll: not while the page is busy, polling or marking.                 *)
PollTick ==
  /\ alive /\ ~busy /\ poll = None /\ reading = None /\ marking = None
  /\ poll' = [fresh |-> TRUE, query |-> query, answer |-> None]
  /\ UNCHANGED <<asyncVars, data, page, filter, loads, reading, marking, counterVars,
                 serverVars, known>>

PollServed ==
  /\ poll # None /\ poll.query # None /\ poll.answer = None
  /\ poll' = [poll EXCEPT !.answer = Listed(poll.query)]
  /\ UNCHANGED <<asyncVars, data, page, filter, loads, reading, marking, counterVars,
                 serverVars, known>>

PollArrives ==
  /\ poll # None
  /\ poll' = None
  /\ \/ ~poll.fresh /\ UNCHANGED <<error, data, filter, known>>
     \/ poll.fresh /\ poll.answer # None /\ store(poll.answer) /\ error' = FALSE
     \/ poll.fresh /\ error' = TRUE /\ UNCHANGED <<data, filter, known>>
  /\ UNCHANGED <<alive, current, busy, page, loads, reading, marking, counterVars, serverVars>>

-------------------------------------------------------------------------------
(* mark() sends one notification as read. *)
mark(n, next) ==
  /\ reading' = [id |-> n, next |-> next]
  /\ poll' = Stale(poll)

OnList(n) == alive /\ ~busy /\ n \in ShownBy(filter, data)

markRead(n) ==
  /\ OnList(n) /\ n \in data.new /\ reading = None
  /\ mark(n, "load")
  /\ UNCHANGED <<asyncVars, data, page, filter, loads, marking, counterVars, serverVars, known>>

(* The link to the feedback.  Once it is read the count is refreshed and the *)
(* page is left, which is a step of Leave.                                   *)
goToFeedback(n) ==
  /\ OnList(n)
  /\ IF n \in data.new
     THEN reading = None /\ mark(n, "go") /\ UNCHANGED asked
     ELSE refresh("bell") /\ UNCHANGED <<poll, reading>>
  /\ UNCHANGED <<asyncVars, data, page, filter, loads, marking, count, serverVars, known>>

ReadServed ==
  /\ reading # None /\ reading.id \in unread
  /\ unread' = unread \ {reading.id}
  /\ UNCHANGED <<asyncVars, data, page, filter, loads, poll, reading, marking, counterVars,
                 made, known>>

\* Mutant: the server answers before it has written.
AnsweredBeforeWrite(r) ==
  /\ reading # None /\ reading.next = "load"
  /\ load(r, page, filter)
  /\ reading' = None
  /\ known' = known \cup {reading.id}
  /\ UNCHANGED <<data, marking, counterVars, serverVars>>

(* The server says that it is read, also if it was before: the list is       *)
(* loaded, or the count is refreshed before the feedback is opened.          *)
ReadAnswered(r) ==
  /\ reading # None /\ reading.id \notin unread
  /\ \/ /\ reading.next = "load"
        /\ load(r, page, filter)
        /\ reading' = None
        /\ known' = known \cup {reading.id}
        /\ UNCHANGED <<data, marking, counterVars>>
     \/ /\ reading.next = "go"
        /\ reading' = None
        /\ refresh("bell")
        /\ UNCHANGED <<asyncVars, data, page, filter, loads, poll, marking, count, known>>
  /\ UNCHANGED serverVars

ReadFails ==
  /\ reading # None
  /\ reading' = None
  /\ error' = TRUE
  /\ UNCHANGED <<alive, current, busy, data, page, filter, loads, poll, marking, counterVars,
                 serverVars, known>>

markAllRead ==
  /\ alive /\ ~busy /\ marking = None
  /\ count \notin {None, 0}
  /\ marking' = "sent"
  /\ poll' = Stale(poll)
  /\ UNCHANGED <<asyncVars, data, page, filter, loads, reading, counterVars, serverVars, known>>

AllReadServed ==
  /\ marking = "sent"
  /\ unread' = {}
  /\ marking' = "handled"
  /\ UNCHANGED <<asyncVars, data, page, filter, loads, poll, reading, counterVars, made, known>>

(* All that the page shows is read by now, except what came in later. *)
AllReadAnswered(r) ==
  /\ marking = "handled"
  /\ load(r, page, filter)
  /\ marking' = r
  /\ known' = known \cup (data.items \ unread)
  /\ UNCHANGED <<data, reading, counterVars, serverVars>>

AllReadFails ==
  /\ marking \in {"sent", "handled"}
  /\ marking' = None
  /\ error' = TRUE
  /\ UNCHANGED <<alive, current, busy, data, page, filter, loads, poll, reading, counterVars,
                 serverVars, known>>

-------------------------------------------------------------------------------
(* Leaving the page.  What its requests still do on the server or to the     *)
(* count, ReadElsewhere and BellTick do as well.                             *)
Leave ==
  /\ alive
  /\ Gone /\ Disown
  /\ UNCHANGED serverVars

(* Feedback for this manager comes in; another device reads a notification.  *)
Queue ==
  /\ made < MaxNotices
  /\ made' = made + 1
  /\ unread' = unread \cup {made + 1}
  /\ UNCHANGED <<asyncVars, data, page, filter, loads, poll, reading, marking, counterVars, known>>

ReadElsewhere(n) ==
  /\ n \in unread
  /\ unread' = unread \ {n}
  /\ UNCHANGED <<asyncVars, data, page, filter, loads, poll, reading, marking, counterVars,
                 made, known>>

InboxInit ==
  /\ data = EmptyPage /\ page = 1 /\ filter = "all"
  /\ loads = [r \in Run |-> None]
  /\ poll = None /\ reading = None /\ marking = None
  /\ count = None /\ asked = None
  /\ made = Earlier /\ unread = {} /\ known = {}

Bell == BellTick \/ CounterServed \/ CounterAnswered

InboxNext ==
  \/ Bell \/ CounterFails
  \/ \E r \in Run :
       \/ ngOnInit(r) \/ Reload(r) \/ LoadServed(r) \/ LoadArrives(r) \/ LoadFails(r)
       \/ ReadAnswered(r) \/ AllReadAnswered(r)
       \/ \E p \in Notice : TurnPage(r, p)
       \/ \E f \in Filter : pick(r, f)
  \/ PollTick \/ PollServed \/ PollArrives
  \/ \E n \in Notice : markRead(n) \/ goToFeedback(n) \/ ReadElsewhere(n)
  \/ ReadServed \/ ReadFails \/ markAllRead \/ AllReadServed \/ AllReadFails
  \/ Leave \/ Queue

InboxSpec == AsyncInit /\ InboxInit /\ [][InboxNext]_inbox /\ WF_inbox(Bell)

-------------------------------------------------------------------------------
InboxTypeOK ==
  /\ data \in Answer /\ page \in Nat /\ filter \in Filter
  /\ loads \in [Run -> Load \cup {None}]
  /\ poll \in Poll \cup {None} /\ reading \in Mark \cup {None}
  /\ marking \in {"sent", "handled", None} \cup Run
  /\ count \in Nat \cup {None} /\ asked \in Count \cup {None}
  /\ made \in Nat /\ unread \subseteq 1..made /\ known \subseteq Notice

(* A notification the page has shown as read, or was told is read, is never  *)
(* shown as unread again, whichever answers overtake each other.             *)
NeverUnreadAgain ==
  [][ data' # data => data'.new \cap known = {} ]_inbox

(* A list that is not being loaded, with no error over it, is the answer for *)
(* the filter and the page that are selected.                                *)
DataAnswersQuery ==
  (alive /\ ~busy /\ ~error) => [unread |-> data.unread, page |-> data.page] = query

(* The bell ends up with the number of unread notifications, although a      *)
(* refresh is dropped while another is pending, unless its requests keep     *)
(* failing and the count is unknown again and again.                         *)
CounterSettles ==
  []<>(count = None) \/ <>[](count = Cardinality(unread))
===============================================================================
