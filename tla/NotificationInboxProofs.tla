----------------------- MODULE NotificationInboxProofs -----------------------
(* Theorems about NotificationInbox, for any number of notifications, runs   *)
(* and pages.                                                                *)
EXTENDS NotificationInbox, FiniteSetTheorems, TLAPS

USE RunAssumption, InboxAssumption

-------------------------------------------------------------------------------
Shape == AsyncTypeOK /\ InboxTypeOK /\ made <= MaxNotices

(* Nothing of the page is left while it is not there. *)
Absent == ~alive => current = None /\ poll = None /\ loads = [r \in Run |-> None]

(* What the page knows to be read is read, and stays so. *)
ReadHolds == known \subseteq 1..made /\ known \cap unread = {} /\ data.items \subseteq 1..made

(* An answer that may still be stored was true when it was given, and says   *)
(* nothing against what the page knows.                                      *)
Good(a) ==
  /\ a.items \subseteq 1..made
  /\ a.new \cap known = {}
  /\ (a.items \ a.new) \cap unread = {}

Matches(a) == a.unread = (filter = "unread") /\ a.page = page

(* Only the newest run's load has a query, which is the one selected. *)
LoadsFit ==
  \A r \in Run : loads[r] # None =>
    /\ loads[r].query # None => r = current /\ loads[r].stage = "fetch" /\ Matches(loads[r].query)
    /\ loads[r].answer # None => /\ r = current /\ loads[r].stage = "fetch"
                                 /\ Good(loads[r].answer) /\ Matches(loads[r].answer)

PollFits ==
  poll # None =>
    /\ poll.fresh => ~busy
    /\ poll.query # None => poll.fresh /\ Matches(poll.query)
    /\ poll.answer # None => poll.fresh /\ Good(poll.answer) /\ Matches(poll.answer)

(* A load that waits for the count has stored its list if it is the newest. *)
AskedFits == (asked # None /\ asked.by \in Run) =>
  loads[asked.by] # None /\ loads[asked.by].stage = "count"

Stored == current # None =>
  loads[current] # None /\ (loads[current].stage = "count" => Matches(data))

Shown == (alive /\ ~busy /\ ~error) => Matches(data)

InboxInv ==
  Shape /\ Absent /\ ReadHolds /\ LoadsFit /\ PollFits /\ AskedFits /\ Stored /\ Shown

-------------------------------------------------------------------------------
LEMMA ListedTyping ==
  ASSUME Shape, NEW q \in Query
  PROVE  /\ Listed(q) \in Answer /\ Listed(q).unread = q.unread /\ Listed(q).page = q.page
         /\ Listed(q).items \subseteq 1..made /\ Listed(q).new \subseteq unread
         /\ (Listed(q).items \ Listed(q).new) \cap unread = {}
  <1>. DEFINE found == IF q.unread THEN unread ELSE 1..made
              place(n) == Cardinality({m \in found : m >= n})
              items == {n \in found : /\ place(n) > (q.page - 1) * PageSize
                                      /\ place(n) <= q.page * PageSize}
  <1>1. Listed(q) = [unread |-> q.unread, page |-> q.page, items |-> items,
                     new |-> items \cap unread, total |-> Cardinality(found)]
    BY DEF Listed
  <1>2. made \in Nat /\ unread \subseteq 1..made /\ made <= MaxNotices
    BY DEF Shape, InboxTypeOK
  <1>3. found \subseteq 1..made
    BY <1>2
  <1>4. IsFiniteSet(1..made)
    BY <1>2, FS_Interval
  <1>. HIDE DEF found
  <1>5. Cardinality(found) \in Nat
    BY <1>3, <1>4, FS_Subset, FS_CardinalityType
  <1>6. items \subseteq found
    OBVIOUS
  <1>. HIDE DEF items
  <1>7. items \subseteq Notice
    BY <1>2, <1>3, <1>6 DEF Notice
  <1>8. Listed(q) \in Answer
    BY <1>1, <1>5, <1>7 DEF Answer, Query
  <1>9. QED
    BY <1>1, <1>3, <1>6, <1>8

LEMMA CountTyping ==
  ASSUME Shape
  PROVE  Cardinality(unread) \in Nat
  <1>1. made \in Nat /\ unread \subseteq 1..made
    BY DEF Shape, InboxTypeOK
  <1>2. IsFiniteSet(1..made)
    BY <1>1, FS_Interval
  <1>3. QED
    BY <1>1, <1>2, FS_Subset, FS_CardinalityType

(* What the server does keeps the answers under way good. *)
LEMMA GoodStays ==
  ASSUME NEW a, Good(a), made' \in Nat, made \in Nat, made <= made',
         UNCHANGED known, \A n \in unread' : n \in unread \/ n = made + 1
  PROVE  a.items \subseteq 1..made' /\ a.new \cap known' = {}
         /\ (a.items \ a.new) \cap unread' = {}
  BY DEF Good

-------------------------------------------------------------------------------
LEMMA SupersededJob ==
  ASSUME NEW job \in Load \cup {None},
         job # None => ((job.query # None \/ job.answer # None) => job.stage = "fetch")
  PROVE  /\ Superseded(job) \in Load \cup {None}
         /\ Superseded(job) # None => /\ job # None /\ Superseded(job).stage = job.stage
                                      /\ Superseded(job).query = None
                                      /\ Superseded(job).answer = None
         /\ job # None => Superseded(job) # None
  <1>1. CASE job # None /\ job.stage = "fetch"
    <2>1. Superseded(job) = [job EXCEPT !.query = None, !.answer = None] /\ job \in Load
      BY <1>1 DEF Superseded
    <2>2. Superseded(job) \in Load
      BY <2>1 DEF Load
    <2>3. Superseded(job) # None
      BY <2>2
    <2>4. QED
      BY <1>1, <2>1, <2>2, <2>3 DEF Load
  <1>2. CASE ~(job # None /\ job.stage = "fetch")
    BY <1>2 DEF Superseded
  <1>3. QED
    BY <1>1, <1>2

(* load() erases what was under way.                                         *)
LEMMA LoadStep ==
  ASSUME InboxInv, NEW r \in Run, NEW p \in Nat, NEW f \in Filter, load(r, p, f),
         known' \subseteq 1..made, known' \cap unread = {},
         UNCHANGED <<data, made, unread, count, asked>>,
         reading' \in Mark \cup {None}, marking' \in {"sent", "handled", None} \cup Run
  PROVE  InboxInv'
  <1>. DEFINE q == [unread |-> f = "unread", page |-> p]
  <1>1. /\ alive /\ alive' /\ current' = r /\ busy' = TRUE /\ error' = FALSE
        /\ page' = p /\ filter' = f /\ loads[r] = None
        /\ loads' = [x \in Run |-> IF x = r THEN [stage |-> "fetch", answer |-> None, query |-> q]
                                   ELSE Superseded(loads[x])]
        /\ poll' = Stale(poll)
    BY DEF load, Start
  <1>2. q \in Query
    BY DEF Query
  <1>3. loads \in [Run -> Load \cup {None}] /\ loads' \in [Run -> Load \cup {None}]
    <2>1. loads \in [Run -> Load \cup {None}]
      BY DEF InboxInv, Shape, InboxTypeOK
    <2>2. \A x \in Run : Superseded(loads[x]) \in Load \cup {None}
      BY <2>1, SupersededJob DEF InboxInv, LoadsFit
    <2>3. [stage |-> "fetch", answer |-> None, query |-> q] \in Load
      BY <1>2 DEF Load
    <2>4. QED
      BY <1>1, <2>1, <2>2, <2>3
  <1>4. \A x \in Run : x # r /\ loads'[x] # None =>
           /\ loads'[x].query = None /\ loads'[x].answer = None
           /\ loads[x] # None /\ loads'[x].stage = loads[x].stage
    BY <1>1, <1>3, SupersededJob DEF InboxInv, LoadsFit
  <1>5. loads'[r] = [stage |-> "fetch", answer |-> None, query |-> q] /\ loads'[r] # None
    <2>1. [stage |-> "fetch", answer |-> None, query |-> q] \in Load
      BY <1>2 DEF Load
    <2>2. QED
      BY <1>1, <2>1
  <1>6. poll' \in Poll \cup {None} /\ (poll' # None => ~poll'.fresh /\ poll'.query = None
                                                      /\ poll'.answer = None)
    BY <1>1 DEF Stale, Poll, InboxInv, Shape, InboxTypeOK
  <1>7. Shape'
    <2>1. Shape
      BY DEF InboxInv
    <2>2. AsyncTypeOK'
      BY <1>1 DEF AsyncTypeOK
    <2>3. known' \subseteq Notice
      BY <2>1 DEF Shape, InboxTypeOK, Notice
    <2>4. QED
      BY <1>1, <1>3, <1>6, <2>1, <2>2, <2>3 DEF Shape, InboxTypeOK
  <1>8. LoadsFit'
    BY <1>1, <1>4, <1>5 DEF LoadsFit, Matches
  <1>9. PollFits'
    BY <1>6 DEF PollFits
  <1>10. AskedFits'
    BY <1>1, <1>3, <1>4, <1>5, SupersededJob DEF InboxInv, AskedFits, LoadsFit
  <1>11. Stored'
    BY <1>1, <1>5 DEF Stored
  <1>12. Absent' /\ ReadHolds' /\ Shown'
    BY <1>1 DEF Absent, Shown, InboxInv, ReadHolds
  <1>13. QED
    BY <1>7, <1>8, <1>9, <1>10, <1>11, <1>12 DEF InboxInv

(* The bell, and requests of the page that do not load: the lists stay.      *)
LEMMA QuietStep ==
  ASSUME InboxInv, UNCHANGED <<alive, current, busy, data, page, filter, loads, known, made, unread>>,
         error' \in {error, TRUE}, poll' \in {poll, Stale(poll)},
         reading' \in Mark \cup {None}, marking' \in {"sent", "handled", None} \cup Run,
         count' \in Nat \cup {None}, asked' \in Count \cup {None},
         asked' # None => asked'.by \notin Run \/ (asked # None /\ asked'.by = asked.by)
  PROVE  InboxInv'
  <1>1. poll' \in Poll \cup {None}
    <2>1. [fresh |-> FALSE, query |-> None, answer |-> None] \in Poll
      BY DEF Poll
    <2>2. poll \in Poll \cup {None}
      BY DEF InboxInv, Shape, InboxTypeOK
    <2>3. QED
      BY <2>1, <2>2 DEF Stale
  <1>2. error' \in BOOLEAN
    BY DEF InboxInv, Shape, AsyncTypeOK
  <1>3. Shape'
    <2>1. AsyncTypeOK'
      BY <1>2 DEF InboxInv, Shape, AsyncTypeOK
    <2>2. QED
      BY <1>1, <2>1 DEF InboxInv, Shape, InboxTypeOK
  <1>4. PollFits'
    <2>1. CASE poll' = poll
      BY <2>1 DEF InboxInv, PollFits, Good, Matches
    <2>2. CASE poll' = Stale(poll)
      BY <2>2 DEF Stale, PollFits
    <2>3. QED
      BY <2>1, <2>2
  <1>5. LoadsFit'
    BY DEF InboxInv, LoadsFit, Good, Matches
  <1>6. Absent' /\ ReadHolds'
    <2>1. poll = None => poll' = None
      BY DEF Stale
    <2>2. QED
      BY <2>1 DEF InboxInv, Absent, ReadHolds
  <1>7. AskedFits' /\ Stored'
    BY DEF InboxInv, AskedFits, Stored, Matches
  <1>8. Shown'
    BY DEF InboxInv, Shown, Matches
  <1>9. QED
    BY <1>3, <1>4, <1>5, <1>6, <1>7, <1>8 DEF InboxInv

(* The server: a new notification, or some that are read.                    *)
LEMMA ServerStep ==
  ASSUME InboxInv,
         UNCHANGED <<asyncVars, data, page, filter, loads, poll, reading, counterVars, known>>,
         marking' \in {"sent", "handled", None} \cup Run,
         made' \in {made, made + 1}, made' <= MaxNotices, unread' \subseteq 1..made',
         \A n \in unread' : n \in unread \/ n = made + 1
  PROVE  InboxInv'
  <1>1. UNCHANGED <<alive, current, busy, error, count, asked>>
    BY DEF asyncVars, counterVars
  <1>2. made \in Nat /\ made' \in Nat /\ made <= made'
    BY DEF InboxInv, Shape, InboxTypeOK
  <1>3. Shape'
    <2>1. AsyncTypeOK'
      BY <1>1 DEF InboxInv, Shape, AsyncTypeOK
    <2>2. QED
      BY <1>1, <1>2, <2>1 DEF InboxInv, Shape, InboxTypeOK
  <1>4. \A n \in 1..made : n \in 1..made' /\ n # made + 1
    BY <1>2
  <1>5. ReadHolds'
    BY <1>2, <1>4 DEF InboxInv, ReadHolds
  <1>6. LoadsFit'
    BY <1>1, <1>4 DEF InboxInv, LoadsFit, Good, Matches
  <1>7. PollFits'
    BY <1>1, <1>4 DEF InboxInv, PollFits, Good, Matches
  <1>8. Absent' /\ AskedFits' /\ Stored'
    BY <1>1 DEF InboxInv, Absent, AskedFits, Stored, Matches
  <1>9. Shown'
    BY <1>1 DEF InboxInv, Shown, Matches
  <1>10. QED
    BY <1>3, <1>5, <1>6, <1>7, <1>8, <1>9 DEF InboxInv

(* A run ends: the newest one has stored its list or has failed.             *)
LEMMA EndStep ==
  ASSUME InboxInv, NEW r \in Run, NEW failed \in BOOLEAN, End(r, failed),
         loads' = [loads EXCEPT ![r] = None],
         r = current => failed \/ Matches(data),
         UNCHANGED <<alive, data, page, filter, poll, known, made, unread>>,
         reading' \in Mark \cup {None}, marking' \in {"sent", "handled", None} \cup Run,
         count' \in Nat \cup {None}, asked' \in Count \cup {None},
         asked' # None => asked' = asked /\ asked.by # r
  PROVE  InboxInv'
  <1>1. /\ loads \in [Run -> Load \cup {None}] /\ loads' \in [Run -> Load \cup {None}]
        /\ loads'[r] = None /\ \A x \in Run : x # r => loads'[x] = loads[x]
    BY DEF InboxInv, Shape, InboxTypeOK
  <1>2. /\ r = current => current' = None /\ busy' = FALSE /\ error' = (failed \/ error)
        /\ r # current => UNCHANGED <<current, busy, error>>
    BY DEF End
  <1>3. AsyncTypeOK'
    <2>1. AsyncTypeOK
      BY DEF InboxInv, Shape
    <2>2. CASE r = current
      <3>1. current' = None /\ busy' = FALSE /\ error' \in BOOLEAN
        BY <1>2, <2>1, <2>2 DEF AsyncTypeOK
      <3>2. QED
        BY <2>1, <3>1 DEF AsyncTypeOK
    <2>3. CASE r # current
      BY <1>2, <2>1, <2>3 DEF AsyncTypeOK
    <2>4. QED
      BY <2>2, <2>3
  <1>4. Shape'
    BY <1>1, <1>3 DEF InboxInv, Shape, InboxTypeOK
  <1>5. LoadsFit'
    BY <1>1, <1>2 DEF InboxInv, LoadsFit, Good, Matches
  <1>6. PollFits'
    <2>1. busy' => busy
      BY <1>2
    <2>2. QED
      BY <2>1 DEF InboxInv, PollFits, Good, Matches
  <1>7. AskedFits'
    BY <1>1 DEF InboxInv, AskedFits
  <1>8. Stored' /\ Shown'
    <2>1. CASE r = current
      BY <1>2, <2>1 DEF InboxInv, Stored, Shown, Matches
    <2>2. CASE r # current
      <3>1. current' = current /\ (current # None => loads'[current] = loads[current])
        BY <1>1, <1>2, <2>2 DEF InboxInv, Shape, AsyncTypeOK
      <3>2. Stored'
        BY <3>1 DEF InboxInv, Stored, Matches
      <3>3. Shown'
        BY <1>2, <2>2 DEF InboxInv, Shown, Matches
      <3>4. QED
        BY <3>2, <3>3
    <2>3. QED
      BY <2>1, <2>2
  <1>9. Absent' /\ ReadHolds'
    <2>1. ~alive => loads' = [x \in Run |-> None] /\ current' = None
      BY <1>1, <1>2 DEF InboxInv, Absent
    <2>2. QED
      BY <2>1 DEF InboxInv, Absent, ReadHolds
  <1>10. QED
    BY <1>4, <1>5, <1>6, <1>7, <1>8, <1>9 DEF InboxInv

-------------------------------------------------------------------------------
(* Storing a good answer for the query, at a time when no other is awaited.  *)
LEMMA Storing ==
  ASSUME InboxInv, NEW d \in Answer, Good(d), Matches(d), store(d),
         UNCHANGED <<page, made, unread>>
  PROVE  /\ data' = d /\ filter' \in Filter /\ (filter' = "unread") = (filter = "unread")
         /\ known' \subseteq Notice /\ ReadHolds' /\ Matches(data)'
         /\ data'.new \cap known = {}
  <1>1. data' = d /\ known' = known \cup (d.items \ d.new)
    BY DEF store
  <1>2. filter' \in Filter /\ (filter' = "unread") = (filter = "unread")
    BY DEF store, reconcileFilter, Kind, Filter, InboxInv, Shape, InboxTypeOK
  <1>3. ReadHolds'
    BY <1>1 DEF Good, InboxInv, ReadHolds
  <1>4. known' \subseteq Notice
    BY <1>3 DEF ReadHolds, Notice, InboxInv, Shape, InboxTypeOK
  <1>5. Matches(data)'
    BY <1>1, <1>2 DEF Matches
  <1>6. QED
    BY <1>1, <1>2, <1>3, <1>4, <1>5 DEF Good

LEMMA CurrentArrives ==
  ASSUME InboxInv, NEW r \in Run, LoadArrives(r), r = current
  PROVE  InboxInv' /\ data'.new \cap known = {}
  <1>1. /\ loads \in [Run -> Load \cup {None}] /\ loads[r] \in Load /\ loads[r].stage = "fetch"
        /\ loads[r].answer # None /\ loads[r].answer \in Answer
        /\ UNCHANGED <<alive, page, poll, reading, count, made, unread>>
    BY DEF LoadArrives, InboxInv, Shape, InboxTypeOK, Load, serverVars
  <1>2. Good(loads[r].answer) /\ Matches(loads[r].answer)
    BY <1>1 DEF InboxInv, LoadsFit
  <1>3. store(loads[r].answer)
    BY DEF LoadArrives, StoreCurrent
  <1>4. /\ data' \in Answer /\ filter' \in Filter /\ (filter' = "unread") = (filter = "unread")
        /\ known' \subseteq Notice /\ ReadHolds' /\ Matches(data)' /\ data'.new \cap known = {}
    BY <1>1, <1>2, <1>3, Storing
  <1>5. busy /\ current # None /\ alive /\ alive'
    BY <1>1 DEF InboxInv, Shape, AsyncTypeOK, Absent
  <1>6. PollFits'
    BY <1>1, <1>5 DEF InboxInv, PollFits
  <1>7. \A x \in Run : x # r /\ loads[x] # None => loads[x].query = None /\ loads[x].answer = None
    BY DEF InboxInv, LoadsFit
  <1>8. CASE asked # None
    <2>1. /\ loads' = [loads EXCEPT ![r] = None] /\ asked' = asked
          /\ current' = None /\ busy' = FALSE /\ error' = (FALSE \/ error)
          /\ marking' = IF marking = r THEN None ELSE marking
      BY <1>8 DEF LoadArrives, refresh, End
    <2>2. error' \in BOOLEAN
      BY <2>1
    <2>3. AsyncTypeOK'
      BY <1>1, <2>1, <2>2 DEF InboxInv, Shape, AsyncTypeOK
    <2>4. Shape'
      BY <1>1, <1>4, <2>1, <2>3 DEF InboxInv, Shape, InboxTypeOK
    <2>5. LoadsFit'
      BY <1>1, <1>7, <2>1 DEF LoadsFit
    <2>6. AskedFits'
      BY <1>1, <2>1 DEF InboxInv, AskedFits
    <2>7. Stored' /\ Shown' /\ Absent'
      BY <1>4, <1>5, <2>1 DEF Stored, Shown, Absent
    <2>8. QED
      BY <1>4, <1>6, <2>4, <2>5, <2>6, <2>7 DEF InboxInv
  <1>9. CASE asked = None
    <2>. DEFINE waits == [stage |-> "count", query |-> None, answer |-> None]
    <2>1. /\ loads' = [loads EXCEPT ![r] = waits]
          /\ asked' = [value |-> None, by |-> r]
          /\ UNCHANGED <<current, busy, error, marking>>
      BY <1>9 DEF LoadArrives, refresh
    <2>2. waits \in Load
      BY DEF Load
    <2>3. asked' \in Count
      BY <2>1 DEF Count
    <2>4. loads'[r] = waits /\ \A x \in Run : x # r => loads'[x] = loads[x]
      BY <1>1, <2>1
    <2>5. Shape'
      BY <1>1, <1>4, <2>1, <2>2, <2>3 DEF InboxInv, Shape, AsyncTypeOK, InboxTypeOK
    <2>6. LoadsFit'
      BY <1>1, <1>7, <2>4 DEF LoadsFit
    <2>7. AskedFits' /\ Stored'
      BY <1>4, <2>1, <2>2, <2>4 DEF AskedFits, Stored
    <2>8. Shown' /\ Absent'
      BY <1>5, <2>1 DEF Shown, Absent
    <2>9. QED
      BY <1>4, <1>6, <2>5, <2>6, <2>7, <2>8 DEF InboxInv
  <1>10. QED
    BY <1>4, <1>8, <1>9

LEMMA OlderArrives ==
  ASSUME InboxInv, NEW r \in Run, LoadArrives(r), r # current
  PROVE  InboxInv' /\ UNCHANGED data
  <1>1. /\ loads \in [Run -> Load \cup {None}] /\ loads[r] \in Load /\ loads[r].stage = "fetch"
        /\ UNCHANGED <<alive, data, page, filter, known, poll, reading, count, made, unread>>
    BY DEF LoadArrives, StoreCurrent, InboxInv, Shape, InboxTypeOK, serverVars
  <1>2. CASE asked # None
    <2>1. /\ End(r, FALSE) /\ loads' = [loads EXCEPT ![r] = None] /\ asked' = asked
          /\ marking' = IF marking = r THEN None ELSE marking
      BY <1>2 DEF LoadArrives, refresh
    <2>2. asked.by # r
      BY <1>1, <1>2 DEF InboxInv, AskedFits
    <2>3. marking' \in {"sent", "handled", None} \cup Run /\ asked' \in Count \cup {None}
          /\ reading' \in Mark \cup {None} /\ count' \in Nat \cup {None}
      BY <1>1, <2>1 DEF InboxInv, Shape, InboxTypeOK
    <2>4. QED
      BY <1>1, <2>1, <2>2, <2>3, EndStep
  <1>3. CASE asked = None
    <2>. DEFINE waits == [stage |-> "count", query |-> None, answer |-> None]
    <2>1. /\ loads' = [loads EXCEPT ![r] = waits]
          /\ asked' = [value |-> None, by |-> r]
          /\ UNCHANGED <<current, busy, error, marking>>
      BY <1>3 DEF LoadArrives, refresh
    <2>2. waits \in Load
      BY DEF Load
    <2>3. asked' \in Count
      BY <2>1 DEF Count
    <2>4. loads'[r] = waits /\ \A x \in Run : x # r => loads'[x] = loads[x]
      BY <1>1, <2>1
    <2>5. Shape'
      BY <1>1, <2>1, <2>2, <2>3 DEF InboxInv, Shape, AsyncTypeOK, InboxTypeOK
    <2>6. LoadsFit'
      BY <1>1, <2>1, <2>4 DEF InboxInv, LoadsFit, Good, Matches
    <2>7. AskedFits'
      BY <2>1, <2>2, <2>4 DEF AskedFits
    <2>8. Stored'
      <3>1. current # None => current \in Run /\ loads'[current] = loads[current]
        BY <2>4 DEF InboxInv, Shape, AsyncTypeOK
      <3>2. QED
        BY <1>1, <2>1, <3>1 DEF InboxInv, Stored, Matches
    <2>9. PollFits'
      BY <1>1, <2>1 DEF InboxInv, PollFits, Good, Matches
    <2>10. Shown' /\ ReadHolds'
      BY <1>1, <2>1 DEF InboxInv, Shown, Matches, ReadHolds
    <2>11. Absent'
      BY <1>1, <2>1 DEF InboxInv, Absent
    <2>12. QED
      BY <1>1, <2>5, <2>6, <2>7, <2>8, <2>9, <2>10, <2>11 DEF InboxInv
  <1>4. QED
    BY <1>1, <1>2, <1>3

LEMMA PollStored ==
  ASSUME InboxInv, PollArrives
  PROVE  InboxInv' /\ (data' # data => data'.new \cap known = {})
  <1>1. /\ poll # None /\ poll' = None
        /\ UNCHANGED <<alive, current, busy, page, loads, reading, marking, count, asked, made, unread>>
    BY DEF PollArrives, counterVars, serverVars
  <1>2. CASE UNCHANGED <<data, filter, known>>
    <2>1. error' \in BOOLEAN
      BY DEF PollArrives, InboxInv, Shape, AsyncTypeOK
    <2>2. Shape'
      BY <1>1, <1>2, <2>1 DEF InboxInv, Shape, AsyncTypeOK, InboxTypeOK
    <2>3. LoadsFit' /\ AskedFits' /\ Stored' /\ Absent' /\ ReadHolds'
      BY <1>1, <1>2 DEF InboxInv, LoadsFit, AskedFits, Stored, Absent, ReadHolds, Good, Matches
    <2>4. Shown'
      BY <1>1, <1>2 DEF PollArrives, store, InboxInv, Shown, PollFits, Matches
    <2>5. PollFits'
      BY <1>1 DEF PollFits
    <2>6. QED
      BY <1>2, <2>2, <2>3, <2>4, <2>5 DEF InboxInv
  <1>3. CASE ~UNCHANGED <<data, filter, known>>
    <2>1. poll.fresh /\ poll.answer # None /\ store(poll.answer) /\ error' = FALSE
      BY <1>3 DEF PollArrives
    <2>2. Good(poll.answer) /\ Matches(poll.answer) /\ ~busy /\ current = None
          /\ poll.answer \in Answer
      BY <1>1, <2>1 DEF InboxInv, PollFits, Shape, AsyncTypeOK, InboxTypeOK, Poll
    <2>3. /\ data' \in Answer /\ filter' \in Filter /\ (filter' = "unread") = (filter = "unread")
          /\ known' \subseteq Notice /\ ReadHolds' /\ Matches(data)' /\ data'.new \cap known = {}
      BY <1>1, <2>1, <2>2, Storing
    <2>4. \A r \in Run : loads[r] # None => loads[r].query = None /\ loads[r].answer = None
      BY <2>2 DEF InboxInv, LoadsFit
    <2>5. AsyncTypeOK'
      BY <1>1, <2>1 DEF InboxInv, Shape, AsyncTypeOK
    <2>6. Shape'
      BY <1>1, <2>3, <2>5 DEF InboxInv, Shape, InboxTypeOK
    <2>7. LoadsFit' /\ PollFits'
      BY <1>1, <2>4 DEF LoadsFit, PollFits
    <2>8. AskedFits' /\ Stored' /\ Absent'
      BY <1>1, <2>2 DEF InboxInv, AskedFits, Stored, Absent
    <2>9. Shown'
      BY <2>3 DEF Shown
    <2>10. QED
      BY <2>3, <2>6, <2>7, <2>8, <2>9 DEF InboxInv
  <1>4. QED
    BY <1>2, <1>3

LEMMA QueryTyping ==
  ASSUME Shape
  PROVE  query \in Query /\ Matches(query) /\ query # None
  <1>1. (filter = "unread") \in BOOLEAN /\ page \in Nat
    BY DEF Shape, InboxTypeOK
  <1>2. query.unread = (filter = "unread") /\ query.page = page
    BY DEF query
  <1>3. query \in Query
    BY <1>1 DEF query, Query
  <1>4. QED
    BY <1>2, <1>3 DEF Matches

LEMMA LoadAnswered ==
  ASSUME InboxInv, NEW r \in Run, LoadServed(r)
  PROVE  InboxInv'
  <1>. DEFINE a == Listed(loads[r].query)
  <1>1. /\ loads \in [Run -> Load \cup {None}] /\ loads[r] \in Load /\ loads[r].query \in Query
        /\ loads' = [loads EXCEPT ![r].answer = a]
        /\ UNCHANGED <<asyncVars, data, page, filter, poll, reading, marking, count, asked, made,
                       unread, known>>
    BY DEF LoadServed, InboxInv, Shape, InboxTypeOK, Load, counterVars, serverVars
  <1>2. r = current /\ Matches(loads[r].query) /\ loads[r].stage = "fetch"
    BY <1>1 DEF LoadServed, InboxInv, LoadsFit
  <1>3. a \in Answer /\ Good(a) /\ Matches(a)
    BY <1>1, <1>2, ListedTyping DEF InboxInv, ReadHolds, Good, Matches
  <1>. HIDE DEF a
  <1>4. /\ loads'[r] \in Load /\ loads'[r].query = loads[r].query /\ loads'[r].answer = a
        /\ loads'[r].stage = "fetch" /\ \A x \in Run : x # r => loads'[x] = loads[x]
    BY <1>1, <1>2, <1>3 DEF Load
  <1>5. UNCHANGED <<alive, current, busy, error>>
    BY <1>1 DEF asyncVars
  <1>6. loads' \in [Run -> Load \cup {None}]
    BY <1>1, <1>4
  <1>7. Shape'
    BY <1>1, <1>5, <1>6 DEF InboxInv, Shape, AsyncTypeOK, InboxTypeOK
  <1>8. LoadsFit'
    BY <1>1, <1>2, <1>3, <1>4, <1>5 DEF InboxInv, LoadsFit, Good, Matches
  <1>9. AskedFits'
    BY <1>1, <1>2, <1>4 DEF InboxInv, AskedFits
  <1>10. Stored'
    BY <1>2, <1>4, <1>5 DEF Stored
  <1>11. PollFits' /\ ReadHolds' /\ Shown'
    BY <1>1, <1>5 DEF InboxInv, PollFits, ReadHolds, Shown, Good, Matches
  <1>12. Absent'
    BY <1>2, <1>5 DEF InboxInv, Absent
  <1>13. QED
    BY <1>7, <1>8, <1>9, <1>10, <1>11, <1>12 DEF InboxInv

LEMMA PollStep ==
  ASSUME InboxInv, PollTick \/ PollServed
  PROVE  InboxInv'
  <1>1. /\ UNCHANGED <<alive, current, busy, error, data, page, filter, loads, reading, marking,
                       count, asked, made, unread, known>>
    BY DEF PollTick, PollServed, asyncVars, counterVars, serverVars
  <1>2. poll' \in Poll /\ PollFits' /\ alive
    <2>1. CASE PollTick
      <3>1. poll' = [fresh |-> TRUE, query |-> query, answer |-> None] /\ ~busy /\ alive
        BY <2>1 DEF PollTick
      <3>2. query \in Query /\ Matches(query)
        BY QueryTyping DEF InboxInv
      <3>. QED
        BY <1>1, <3>1, <3>2 DEF Poll, PollFits, Matches
    <2>2. CASE PollServed
      <3>. DEFINE a == Listed(poll.query)
      <3>1. poll \in Poll /\ poll.query \in Query /\ poll' = [poll EXCEPT !.answer = a]
        BY <2>2 DEF PollServed, InboxInv, Shape, InboxTypeOK, Poll
      <3>2. poll.fresh /\ ~busy /\ Matches(poll.query) /\ alive
        BY <2>2, <3>1 DEF PollServed, InboxInv, PollFits, Absent
      <3>3. a \in Answer /\ Good(a) /\ Matches(a)
        BY <3>1, <3>2, ListedTyping DEF InboxInv, ReadHolds, Good, Matches
      <3>. HIDE DEF a
      <3>4. poll' \in Poll /\ poll'.fresh = poll.fresh /\ poll'.query = poll.query
            /\ poll'.answer = a
        BY <3>1, <3>3 DEF Poll
      <3>5. QED
        BY <1>1, <3>2, <3>3, <3>4 DEF PollFits, Good, Matches
    <2>3. QED
      BY <2>1, <2>2
  <1>3. Shape'
    BY <1>1, <1>2 DEF InboxInv, Shape, AsyncTypeOK, InboxTypeOK
  <1>4. LoadsFit' /\ AskedFits' /\ Stored' /\ ReadHolds' /\ Shown'
    BY <1>1 DEF InboxInv, LoadsFit, AskedFits, Stored, ReadHolds, Shown, Good, Matches
  <1>5. Absent'
    BY <1>1, <1>2 DEF Absent
  <1>6. QED
    BY <1>2, <1>3, <1>4, <1>5 DEF InboxInv

-------------------------------------------------------------------------------
LEMMA Picked ==
  ASSUME InboxInv, NEW r \in Run, NEW f \in Filter, pick(r, f)
  PROVE  InboxInv' /\ UNCHANGED data
  <1>1. UNCHANGED <<data, reading, marking, count, asked, made, unread, known>>
    BY DEF pick, counterVars, serverVars
  <1>2. CASE (f = "unread") = (filter = "unread")
    <2>1. /\ filter' = f /\ (filter' = "unread") = (filter = "unread")
          /\ UNCHANGED <<alive, current, busy, error, page, loads, poll>>
      BY <1>2 DEF pick, asyncVars
    <2>2. Shape'
      BY <1>1, <2>1 DEF InboxInv, Shape, AsyncTypeOK, InboxTypeOK
    <2>3. LoadsFit' /\ PollFits'
      BY <1>1, <2>1 DEF InboxInv, LoadsFit, PollFits, Good, Matches
    <2>4. AskedFits' /\ Stored' /\ ReadHolds' /\ Shown' /\ Absent'
      BY <1>1, <2>1 DEF InboxInv, AskedFits, Stored, ReadHolds, Shown, Absent, Matches
    <2>5. QED
      BY <1>1, <2>2, <2>3, <2>4 DEF InboxInv
  <1>3. CASE load(r, 1, f)
    BY <1>1, <1>3, LoadStep DEF InboxInv, ReadHolds, Shape, InboxTypeOK
  <1>4. QED
    BY <1>2, <1>3 DEF pick

LEMMA Opened ==
  ASSUME InboxInv, NEW r \in Run, ngOnInit(r)
  PROVE  InboxInv' /\ UNCHANGED data
  <1>. DEFINE job == [stage |-> "fetch", query |-> query, answer |-> None]
  <1>1. /\ alive' = TRUE /\ current' = r /\ busy' = TRUE /\ error' = FALSE
        /\ loads' = [loads EXCEPT ![r] = job]
        /\ UNCHANGED <<data, page, filter, poll, reading, marking, count, asked, made, unread, known>>
        /\ poll = None /\ loads = [x \in Run |-> None]
    BY DEF ngOnInit, Start, InboxInv, Absent, counterVars, serverVars
  <1>2. query \in Query /\ Matches(query)
    BY QueryTyping DEF InboxInv
  <1>3. job \in Load
    BY <1>2 DEF Load
  <1>4. loads'[r] = job /\ job # None /\ \A x \in Run : x # r => loads'[x] = None
    BY <1>1, <1>3
  <1>5. loads' \in [Run -> Load \cup {None}]
    BY <1>1, <1>3
  <1>6. Shape'
    BY <1>1, <1>5 DEF InboxInv, Shape, AsyncTypeOK, InboxTypeOK
  <1>7. LoadsFit' /\ PollFits'
    BY <1>1, <1>2, <1>4 DEF LoadsFit, PollFits, Matches
  <1>8. AskedFits'
    BY <1>1 DEF InboxInv, AskedFits
  <1>9. Stored' /\ Shown' /\ Absent'
    BY <1>1, <1>4 DEF Stored, Shown, Absent
  <1>10. ReadHolds'
    BY <1>1 DEF InboxInv, ReadHolds
  <1>11. QED
    BY <1>1, <1>6, <1>7, <1>8, <1>9, <1>10 DEF InboxInv

LEMMA Left ==
  ASSUME InboxInv, Leave
  PROVE  InboxInv' /\ data'.new = {}
  <1>1. /\ alive' = FALSE /\ current' = None /\ busy' = FALSE /\ error' = FALSE
        /\ data' = EmptyPage /\ page' = 1 /\ filter' = "all"
        /\ loads' = [r \in Run |-> None]
        /\ poll' = None /\ reading' = None /\ marking' = None /\ known' = {}
        /\ UNCHANGED <<count, made, unread>>
        /\ asked' = IF asked = None THEN None ELSE [asked EXCEPT !.by = "bell"]
    BY DEF Leave, Gone, Disown, serverVars
  <1>2. asked' \in Count \cup {None} /\ (asked' # None => asked'.by \notin Run)
    BY <1>1 DEF InboxInv, Shape, InboxTypeOK, Count
  <1>3. EmptyPage \in Answer
    BY DEF EmptyPage, Answer
  <1>4. AsyncTypeOK'
    BY <1>1 DEF AsyncTypeOK
  <1>5. Shape'
    BY <1>1, <1>2, <1>3, <1>4 DEF InboxInv, Shape, InboxTypeOK, Filter
  <1>6. LoadsFit' /\ PollFits' /\ Stored' /\ Shown' /\ Absent' /\ ReadHolds'
    BY <1>1 DEF LoadsFit, PollFits, Stored, Shown, Absent, ReadHolds, EmptyPage
  <1>7. AskedFits'
    BY <1>2 DEF AskedFits
  <1>8. QED
    BY <1>1, <1>5, <1>6, <1>7 DEF InboxInv, EmptyPage

LEMMA CounterStep ==
  ASSUME InboxInv, Bell \/ CounterFails
  PROVE  InboxInv' /\ UNCHANGED data
  <1>1. CASE BellTick \/ CounterServed
    <2>1. asked' \in Count
      <3>1. CASE BellTick
        BY <3>1 DEF BellTick, refresh, Count
      <3>2. CASE CounterServed
        <4>1. asked \in Count /\ asked' = [asked EXCEPT !.value = Cardinality(unread)]
          BY <3>2 DEF CounterServed, InboxInv, Shape, InboxTypeOK
        <4>2. QED
          BY <4>1, CountTyping DEF Count, InboxInv
      <3>3. QED
        BY <1>1, <3>1, <3>2
    <2>2. asked'.by \notin Run \/ (asked # None /\ asked'.by = asked.by)
      BY <1>1 DEF BellTick, refresh, CounterServed, InboxInv, Shape, InboxTypeOK, Count
    <2>3. /\ UNCHANGED <<alive, current, busy, error, data, page, filter, loads, poll, reading,
                         marking, count, made, unread, known>>
      BY <1>1 DEF BellTick, CounterServed, asyncVars, serverVars
    <2>4. QED
      BY <2>1, <2>2, <2>3, QuietStep DEF InboxInv, Shape, InboxTypeOK
  <1>2. CASE CounterAnswered \/ CounterFails
    <2>1. /\ asked # None /\ asked \in Count /\ asked' = None /\ count' \in Nat \cup {None}
          /\ UNCHANGED <<made, unread>> /\ Continue(asked.by)
      BY <1>2 DEF CounterAnswered, CounterFails, Counted, serverVars, InboxInv, Shape,
                  InboxTypeOK, Count
    <2>2. CASE asked.by \in Run
      <3>1. /\ End(asked.by, FALSE) /\ loads' = [loads EXCEPT ![asked.by] = None]
            /\ marking' = IF marking = asked.by THEN None ELSE marking
            /\ UNCHANGED <<alive, data, page, filter, poll, reading, known>>
        BY <2>1, <2>2 DEF Continue
      <3>2. asked.by = current => Matches(data)
        BY <2>1, <2>2 DEF InboxInv, AskedFits, Stored
      <3>3. marking' \in {"sent", "handled", None} \cup Run /\ reading' \in Mark \cup {None}
        BY <3>1 DEF InboxInv, Shape, InboxTypeOK
      <3>4. QED
        BY <2>1, <2>2, <3>1, <3>2, <3>3, EndStep
    <2>3. CASE asked.by \notin Run
      <3>1. /\ UNCHANGED <<alive, current, busy, error, data, page, filter, loads, poll,
                           reading, marking, known>>
        BY <2>1, <2>3 DEF Continue, asyncVars
      <3>2. QED
        BY <2>1, <3>1, QuietStep DEF InboxInv, Shape, InboxTypeOK
    <2>4. QED
      BY <2>2, <2>3
  <1>3. QED
    BY <1>1, <1>2 DEF Bell

-------------------------------------------------------------------------------
(* What is being marked exists. *)
MarkedExists == reading # None => reading.id \in 1..made

PageInv == InboxInv /\ MarkedExists

LEMMA MarkStays ==
  ASSUME PageInv, InboxNext
  PROVE  MarkedExists'
  <1>1. made \in Nat /\ data.items \subseteq 1..made /\ (made' = made \/ made' = made + 1)
    BY DEF PageInv, InboxInv, Shape, InboxTypeOK, ReadHolds, InboxNext, Bell, BellTick,
           CounterServed, CounterAnswered, CounterFails, ngOnInit, Reload, LoadServed, LoadArrives,
           LoadFails, ReadAnswered, AllReadAnswered, TurnPage, pick, PollTick, PollServed,
           PollArrives, markRead, goToFeedback, ReadElsewhere, ReadServed, ReadFails, markAllRead,
           AllReadServed, AllReadFails, Leave, Queue, serverVars
  <1>2. \/ reading' = reading \/ reading' = None
        \/ \E n \in data.items, next \in {"load", "go"} : reading' = [id |-> n, next |-> next]
    <2>1. ASSUME NEW n \in Notice, markRead(n) \/ goToFeedback(n)
          PROVE  \/ reading' = reading
                 \/ n \in data.items /\ \E next \in {"load", "go"} : reading' = [id |-> n, next |-> next]
      BY <2>1 DEF markRead, goToFeedback, OnList, ShownBy, mark
    <2>2. CASE ~\E n \in Notice : markRead(n) \/ goToFeedback(n)
      BY <2>2 DEF InboxNext, Bell, BellTick, CounterServed, CounterAnswered, CounterFails, Continue,
                  ngOnInit, Reload, LoadServed, LoadArrives, LoadFails, ReadAnswered,
                  AllReadAnswered, TurnPage, pick, PollTick, PollServed, PollArrives,
                  ReadElsewhere, ReadServed, ReadFails, markAllRead, AllReadServed, AllReadFails,
                  Leave, Gone, Queue
    <2>3. QED
      BY <2>1, <2>2
  <1>3. QED
    BY <1>1, <1>2 DEF PageInv, MarkedExists

LEMMA MarkStep ==
  ASSUME InboxInv, NEW n \in Notice, markRead(n) \/ goToFeedback(n)
  PROVE  InboxInv' /\ UNCHANGED data
  <1>1. UNCHANGED <<alive, current, busy, error, data, page, filter, loads, marking, count, made,
                    unread, known>>
    BY DEF markRead, goToFeedback, asyncVars, counterVars, serverVars
  <1>2. asked' = asked \/ (asked = None /\ asked' = [value |-> None, by |-> "bell"])
    BY DEF markRead, goToFeedback, refresh, counterVars
  <1>3. asked' \in Count \cup {None}
    BY <1>2 DEF InboxInv, Shape, InboxTypeOK, Count
  <1>4. asked' # None => asked'.by \notin Run \/ (asked # None /\ asked'.by = asked.by)
    BY <1>2
  <1>5. reading' \in Mark \cup {None} /\ poll' \in {poll, Stale(poll)}
    BY DEF markRead, goToFeedback, mark, Mark, InboxInv, Shape, InboxTypeOK
  <1>6. QED
    BY <1>1, <1>3, <1>4, <1>5, QuietStep DEF InboxInv, Shape, InboxTypeOK

LEMMA ReadStep ==
  ASSUME PageInv, NEW r \in Run, ReadAnswered(r)
  PROVE  InboxInv' /\ UNCHANGED data
  <1>1. reading # None /\ reading.id \in 1..made /\ reading.id \notin unread
        /\ UNCHANGED <<data, marking, count, made, unread>> /\ reading' = None
    BY DEF ReadAnswered, PageInv, MarkedExists, counterVars, serverVars
  <1>2. page \in Nat /\ filter \in Filter /\ known \subseteq 1..made /\ known \cap unread = {}
        /\ marking \in {"sent", "handled", None} \cup Run /\ asked \in Count \cup {None}
        /\ count \in Nat \cup {None}
    BY DEF PageInv, InboxInv, Shape, InboxTypeOK, ReadHolds
  <1>3. CASE reading.next = "load"
    <2>1. load(r, page, filter) /\ known' = known \cup {reading.id} /\ UNCHANGED asked
      BY <1>1, <1>3 DEF ReadAnswered, counterVars
    <2>2. QED
      BY <1>1, <1>2, <2>1, LoadStep DEF PageInv
  <1>4. CASE reading.next # "load"
    <2>1. /\ UNCHANGED <<alive, current, busy, error, page, filter, loads, poll, known>>
          /\ refresh("bell")
      BY <1>4 DEF ReadAnswered, asyncVars
    <2>2. asked' = asked \/ (asked = None /\ asked' = [value |-> None, by |-> "bell"])
      BY <2>1 DEF refresh
    <2>3. asked' \in Count \cup {None}
      BY <1>2, <2>2 DEF Count
    <2>4. asked' # None => asked'.by \notin Run \/ (asked # None /\ asked'.by = asked.by)
      BY <2>2
    <2>5. QED
      BY <1>1, <1>2, <2>1, <2>3, <2>4, QuietStep DEF PageInv
  <1>5. QED
    BY <1>3, <1>4

(* Every step keeps the invariant, and shows nothing as unread that the page *)
(* knows to be read.                                                         *)
LEMMA InboxStep ==
  ASSUME PageInv, InboxNext
  PROVE  PageInv' /\ (data' # data => data'.new \cap known = {})
  <1>1. InboxInv /\ MarkedExists'
    BY MarkStays DEF PageInv
  <1>2. SUFFICES InboxInv' /\ (data' # data => data'.new \cap known = {})
    BY <1>1 DEF PageInv
  <1>3. /\ page \in Nat /\ filter \in Filter /\ known \subseteq 1..made /\ known \cap unread = {}
        /\ marking \in {"sent", "handled", None} \cup Run /\ reading \in Mark \cup {None}
        /\ asked \in Count \cup {None} /\ count \in Nat \cup {None} /\ data.items \subseteq 1..made
        /\ made \in Nat /\ unread \subseteq 1..made /\ made <= MaxNotices
    BY <1>1 DEF InboxInv, Shape, InboxTypeOK, ReadHolds
  <1>4. CASE Bell \/ CounterFails
    BY <1>1, <1>4, CounterStep
  <1>5. ASSUME NEW r \in Run, Reload(r) PROVE InboxInv' /\ UNCHANGED data
    BY <1>1, <1>3, <1>5, LoadStep DEF Reload, counterVars, serverVars
  <1>6. ASSUME NEW r \in Run, NEW p \in Notice, TurnPage(r, p) PROVE InboxInv' /\ UNCHANGED data
    BY <1>1, <1>3, <1>6, LoadStep DEF TurnPage, counterVars, serverVars, Notice
  <1>7. ASSUME NEW r \in Run, AllReadAnswered(r) PROVE InboxInv' /\ UNCHANGED data
    BY <1>1, <1>3, <1>7, LoadStep DEF AllReadAnswered, counterVars, serverVars
  <1>8. ASSUME NEW r \in Run, LoadFails(r) PROVE InboxInv' /\ UNCHANGED data
    <2>1. /\ loads[r] # None /\ loads[r].stage = "fetch" /\ End(r, TRUE)
          /\ loads' = [loads EXCEPT ![r] = None]
          /\ marking' = IF marking = r THEN None ELSE marking
          /\ UNCHANGED <<alive, data, page, filter, poll, reading, count, asked, made, unread,
                         known>>
      BY <1>8 DEF LoadFails, counterVars, serverVars
    <2>2. asked # None => asked.by # r
      BY <1>1, <2>1 DEF InboxInv, AskedFits
    <2>3. marking' \in {"sent", "handled", None} \cup Run
      BY <1>3, <2>1
    <2>4. QED
      BY <1>1, <1>3, <2>1, <2>2, <2>3, EndStep
  <1>9. CASE ReadServed \/ (\E n \in Notice : ReadElsewhere(n)) \/ AllReadServed \/ Queue
    <2>1. /\ UNCHANGED <<asyncVars, data, page, filter, loads, poll, reading, counterVars, known>>
          /\ marking' \in {marking, "handled"}
      BY <1>9 DEF ReadServed, ReadElsewhere, AllReadServed, Queue
    <2>2. /\ made' \in {made, made + 1} /\ made' <= MaxNotices /\ unread' \subseteq 1..made'
          /\ \A n \in unread' : n \in unread \/ n = made + 1
      <3>1. CASE Queue
        <4>1. made' = made + 1 /\ unread' = unread \cup {made + 1} /\ made < MaxNotices
          BY <3>1 DEF Queue
        <4>2. made' <= MaxNotices
          BY <1>3, <4>1
        <4>3. unread' \subseteq 1..made'
          BY <1>3, <4>1
        <4>4. QED
          BY <4>1, <4>2, <4>3
      <3>2. CASE ReadServed \/ (\E n \in Notice : ReadElsewhere(n)) \/ AllReadServed
        <4>1. made' = made /\ unread' \subseteq unread
          BY <3>2 DEF ReadServed, ReadElsewhere, AllReadServed
        <4>2. QED
          BY <1>3, <4>1
      <3>3. QED
        BY <1>9, <3>1, <3>2
    <2>3. QED
      BY <1>1, <1>3, <2>1, <2>2, ServerStep
  <1>10. CASE ReadFails \/ markAllRead \/ AllReadFails
    <2>1. /\ UNCHANGED <<alive, current, busy, data, page, filter, loads, count, asked, made,
                         unread, known>>
          /\ error' \in {error, TRUE} /\ poll' \in {poll, Stale(poll)}
          /\ reading' \in {reading, None} /\ marking' \in {marking, "sent", None}
      BY <1>10 DEF ReadFails, markAllRead, AllReadFails, asyncVars, counterVars, serverVars
    <2>2. reading' \in Mark \cup {None} /\ marking' \in {"sent", "handled", None} \cup Run
      BY <1>3, <2>1
    <2>3. QED
      BY <1>1, <1>3, <2>1, <2>2, QuietStep
  <1>11. ASSUME NEW r \in Run, LoadArrives(r)
         PROVE  InboxInv' /\ (data' # data => data'.new \cap known = {})
    BY <1>1, <1>11, CurrentArrives, OlderArrives
  <1>12. CASE PollTick \/ PollServed \/ PollArrives
    <2>1. CASE PollTick \/ PollServed
      BY <1>1, <2>1, PollStep DEF PollTick, PollServed
    <2>2. CASE PollArrives
      BY <1>1, <2>2, PollStored
    <2>3. QED
      BY <1>12, <2>1, <2>2
  <1>13. CASE Leave
    BY <1>1, <1>13, Left
  <1>14. ASSUME NEW r \in Run, ngOnInit(r) PROVE InboxInv' /\ UNCHANGED data
    BY <1>1, <1>14, Opened
  <1>15. ASSUME NEW r \in Run, LoadServed(r) PROVE InboxInv' /\ UNCHANGED data
    BY <1>1, <1>15, LoadAnswered DEF LoadServed
  <1>16. ASSUME NEW r \in Run, ReadAnswered(r) PROVE InboxInv' /\ UNCHANGED data
    BY <1>16, ReadStep
  <1>17. ASSUME NEW r \in Run, NEW f \in Filter, pick(r, f) PROVE InboxInv' /\ UNCHANGED data
    BY <1>1, <1>17, Picked
  <1>18. ASSUME NEW n \in Notice, markRead(n) \/ goToFeedback(n) PROVE InboxInv' /\ UNCHANGED data
    BY <1>1, <1>18, MarkStep
  <1>19. QED
    BY <1>4, <1>5, <1>6, <1>7, <1>8, <1>9, <1>10, <1>11, <1>12, <1>13, <1>14, <1>15, <1>16, <1>17,
       <1>18 DEF InboxNext

LEMMA InboxStart ==
  ASSUME AsyncInit, InboxInit
  PROVE  PageInv
  <1>1. AsyncTypeOK
    BY DEF AsyncInit, AsyncTypeOK
  <1>2. EmptyPage \in Answer
    BY DEF EmptyPage, Answer
  <1>3. Shape
    BY <1>1, <1>2 DEF InboxInit, Shape, InboxTypeOK, Filter
  <1>4. Absent /\ ReadHolds
    BY DEF AsyncInit, InboxInit, Absent, ReadHolds, EmptyPage
  <1>5. LoadsFit /\ PollFits /\ AskedFits /\ Stored /\ Shown /\ MarkedExists
    BY DEF AsyncInit, InboxInit, LoadsFit, PollFits, AskedFits, Stored, Shown, MarkedExists
  <1>6. QED
    BY <1>3, <1>4, <1>5 DEF PageInv, InboxInv

LEMMA InboxIdle ==
  ASSUME PageInv, UNCHANGED inbox
  PROVE  PageInv'
  <1>1. UNCHANGED <<alive, current, busy, error, data, page, filter, loads, poll, reading, marking,
                    count, asked, made, unread, known>>
    BY DEF inbox, asyncVars, inboxVars
  <1>2. InboxInv'
    BY <1>1, QuietStep DEF PageInv, InboxInv, Shape, InboxTypeOK
  <1>3. QED
    BY <1>1, <1>2 DEF PageInv, MarkedExists

(* A list that is not being loaded, with no error over it, answers the       *)
(* filter and the page that are selected.                                    *)
LEMMA ShownAnswers ==
  ASSUME PageInv
  PROVE  DataAnswersQuery
  BY DEF PageInv, InboxInv, Shown, Matches, DataAnswersQuery, query
===============================================================================
