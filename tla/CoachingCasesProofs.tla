-------------------------- MODULE CoachingCasesProofs -------------------------
(* Theorems about CoachingCases, for any sets of cases, staff, cinemas and   *)
(* requests: what overlapping saves of a case can not break.                 *)
EXTENDS CoachingCases, TLAPS, SequenceTheorems

USE CoachingAssumption

-------------------------------------------------------------------------------
(* Type correctness. *)
LEMMA EndTyping ==
  ASSUME TypeOK, NEW e \in Editor, End(e)
  PROVE  /\ request' \in [Editor -> Request \cup {None}]
         /\ work' \in [Editor -> Work \cup {None}]
         /\ request'[e] = None /\ work'[e] = None
         /\ \A d \in Editor : d # e => request'[d] = request[d] /\ work'[d] = work[d]
  BY DEF TypeOK, End

LEMMA LogTyping ==
  ASSUME TypeOK, NEW x \in Case, NEW action \in Action, Log(x, action)
  PROVE  /\ audit' \in Seq(LogEntry)
         /\ \A i \in DOMAIN audit : i \in DOMAIN audit' /\ audit'[i] = audit[i]
         /\ \E i \in DOMAIN audit' : audit'[i] = [case |-> x, action |-> action]
  <1>1. [case |-> x, action |-> action] \in LogEntry
    BY DEF LogEntry
  <1>2. /\ audit' = Append(audit, [case |-> x, action |-> action])
        /\ audit \in Seq(LogEntry)
    BY DEF Log, TypeOK
  <1>3. /\ audit' \in Seq(LogEntry)
        /\ Len(audit') = Len(audit) + 1
        /\ audit'[Len(audit) + 1] = [case |-> x, action |-> action]
        /\ \A i \in 1..Len(audit) : audit'[i] = audit[i]
    BY <1>1, <1>2, AppendProperties
  <1>4. /\ DOMAIN audit = 1..Len(audit) /\ DOMAIN audit' = 1..Len(audit')
        /\ Len(audit) \in Nat
    BY <1>2, <1>3, LenProperties
  <1>5. QED
    BY <1>3, <1>4

LEMMA RequestTyping ==
  ASSUME TypeOK, NEW e \in Editor, request[e] # None
  PROVE  /\ request[e] \in Request
         /\ request[e].case # NoCase =>
              request[e].case \in Case /\ case[request[e].case] \in Coaching
  BY DEF TypeOK, Request

LEMMA WorkTyping ==
  ASSUME TypeOK, NEW e \in Editor, work[e] # None
  PROVE  /\ work[e] \in Work /\ request[e] \in Request /\ request[e] # None
         /\ request[e].case \in Case /\ case[request[e].case] \in Coaching
         /\ work[e].old \in Coaching /\ work[e].new \in Coaching
  <1>1. work[e] \in Work /\ request[e] # None /\ request[e].case # NoCase
    BY DEF TypeOK
  <1>2. QED
    BY <1>1, RequestTyping DEF Work

LEMMA RevisedTyping ==
  ASSUME TypeOK, NEW e \in Editor, request[e] # None,
         NEW old \in Coaching, NEW t \in Nat
  PROVE  Revised(e, old, t) \in Coaching
  <1>1. request[e] \in Request
    BY RequestTyping
  <1>2. /\ request[e].staff \in Staff /\ request[e].cinema \in Cinema
        /\ request[e].status \in Status
    BY <1>1 DEF Request
  <1>3. /\ old.createdBy \in Editor /\ old.createdAt \in Nat
        /\ old.completedAt \in Nat \cup {Never}
    BY DEF Coaching
  <1>4. QED
    BY <1>2, <1>3 DEF Revised, Coaching

LEMMA BeginTyping ==
  ASSUME TypeOK, NEW e \in Editor, NEW x \in Case \cup {NoCase}, NEW s \in Staff,
         NEW status \in Status, NEW scope \in Scopes, Begin(e, x, s, status, scope),
         x # NoCase => case[x] # None
  PROVE  TypeOK'
  <1>1. scope \in SUBSET Cinema /\ place[s] \in Cinema /\ clock \in Nat
    BY DEF Scopes, TypeOK
  <1>2. [case |-> x, staff |-> s, status |-> status, cinema |-> place[s],
         scope |-> scope, began |-> clock] \in Request
    BY <1>1 DEF Request
  <1>3. QED
    BY <1>2 DEF TypeOK, Begin

LEMMA CheckTyping ==
  ASSUME TypeOK, NEW e \in Editor, Check(e)
  PROVE  TypeOK'
  <1>. DEFINE x == request[e].case
  <1>1. /\ request[e] \in Request /\ request[e] # None
        /\ x \in Case /\ x # NoCase /\ case[x] \in Coaching
    BY RequestTyping DEF Check
  <1>2. PICK t \in request[e].began..clock :
          work' = [work EXCEPT ![e] = [old |-> case[x], new |-> Revised(e, case[x], t)]]
    BY DEF Check
  <1>3. t \in Nat
    BY <1>1, <1>2 DEF Request, TypeOK
  <1>4. [old |-> case[x], new |-> Revised(e, case[x], t)] \in Work
    BY <1>1, <1>3, RevisedTyping DEF Work
  <1>5. UNCHANGED <<place, case, audit, request, clock>>
    BY DEF Check
  <1>6. work' \in [Editor -> Work \cup {None}]
    BY <1>2, <1>4 DEF TypeOK
  <1>7. ASSUME NEW d \in Editor, work'[d] # None
        PROVE  request[d] # None /\ request[d].case # NoCase
    BY <1>1, <1>2, <1>7 DEF TypeOK
  <1>8. QED
    BY <1>5, <1>6, <1>7 DEF TypeOK

LEMMA CreateTyping ==
  ASSUME TypeOK, NEW e \in Editor, Create(e)
  PROVE  TypeOK'
  <1>1. PICK x \in Case, t \in request[e].began..clock :
          /\ case[x] = None
          /\ case' = [case EXCEPT ![x] =
               [staff |-> request[e].staff, cinema |-> request[e].cinema, status |-> "OPEN",
                createdBy |-> e, createdAt |-> t, completedAt |-> Never]]
          /\ Log(x, "CREATE_COACHING")
    BY DEF Create
  <1>2. request[e] \in Request /\ t \in Nat
    BY <1>1, RequestTyping DEF Create, Request, TypeOK
  <1>3. [staff |-> request[e].staff, cinema |-> request[e].cinema, status |-> "OPEN",
         createdBy |-> e, createdAt |-> t, completedAt |-> Never] \in Coaching
    BY <1>2 DEF Request, Coaching, Status
  <1>4. case' \in [Case -> Coaching \cup {None}] /\ (\A y \in Case : case[y] # None => case'[y] # None)
    BY <1>1, <1>3 DEF TypeOK
  <1>5. audit' \in Seq(LogEntry)
    BY <1>1, LogTyping DEF Action
  <1>6. End(e) /\ UNCHANGED <<place, clock>>
    BY DEF Create
  <1>7. /\ request' \in [Editor -> Request \cup {None}] /\ work' \in [Editor -> Work \cup {None}]
        /\ request'[e] = None /\ work'[e] = None
        /\ \A d \in Editor : d # e => request'[d] = request[d] /\ work'[d] = work[d]
    BY <1>6, EndTyping
  <1>8. ASSUME NEW d \in Editor
        PROVE  /\ request'[d] # None /\ request'[d].case # NoCase => case'[request'[d].case] # None
               /\ work'[d] # None => request'[d] # None /\ request'[d].case # NoCase
    BY <1>4, <1>7, RequestTyping DEF TypeOK
  <1>9. QED
    BY <1>4, <1>5, <1>6, <1>7, <1>8 DEF TypeOK

LEMMA ReplaceTyping ==
  ASSUME TypeOK, NEW e \in Editor, Replace(e)
  PROVE  TypeOK'
  <1>. DEFINE x == request[e].case
  <1>1. x \in Case /\ work[e].new \in Coaching
    BY WorkTyping DEF Replace
  <1>2. case' = [case EXCEPT ![x] = work[e].new] /\ End(e) /\ UNCHANGED <<place, clock>>
    BY DEF Replace
  <1>3. case' \in [Case -> Coaching \cup {None}] /\ (\A y \in Case : case[y] # None => case'[y] # None)
    BY <1>1, <1>2 DEF TypeOK
  <1>4. audit' \in Seq(LogEntry)
    BY <1>1, LogTyping DEF Replace, Action
  <1>5. /\ request' \in [Editor -> Request \cup {None}] /\ work' \in [Editor -> Work \cup {None}]
        /\ request'[e] = None /\ work'[e] = None
        /\ \A d \in Editor : d # e => request'[d] = request[d] /\ work'[d] = work[d]
    BY <1>2, EndTyping
  <1>6. ASSUME NEW d \in Editor
        PROVE  /\ request'[d] # None /\ request'[d].case # NoCase => case'[request'[d].case] # None
               /\ work'[d] # None => request'[d] # None /\ request'[d].case # NoCase
    BY <1>3, <1>5, RequestTyping DEF TypeOK
  <1>7. QED
    BY <1>2, <1>3, <1>4, <1>5, <1>6 DEF TypeOK

LEMMA InitTyping == Init => TypeOK
  BY DEF Init, TypeOK

LEMMA StepTyping == TypeOK /\ [Next]_vars => TypeOK'
  <1>. SUFFICES ASSUME TypeOK, [Next]_vars PROVE TypeOK'
    OBVIOUS
  <1>1. ASSUME NEW e \in Editor, EditorStep(e) PROVE TypeOK'
    <2>1. ASSUME NEW s \in Staff, NEW scope \in Scopes, Begin(e, NoCase, s, "OPEN", scope)
          PROVE  TypeOK'
      BY <2>1, BeginTyping DEF Status
    <2>2. ASSUME NEW s \in Staff, NEW scope \in Scopes, NEW x \in Case, NEW status \in Status,
                 case[x] # None, Begin(e, x, s, status, scope)
          PROVE  TypeOK'
      BY <2>2, BeginTyping
    <2>3. CASE Check(e)
      BY <2>3, CheckTyping
    <2>4. CASE Create(e)
      BY <2>4, CreateTyping
    <2>5. CASE Replace(e)
      BY <2>5, ReplaceTyping
    <2>6. CASE Abandon(e)
      BY <2>6, EndTyping DEF Abandon, TypeOK
    <2>7. QED
      BY <1>1, <2>1, <2>2, <2>3, <2>4, <2>5, <2>6 DEF EditorStep
  <1>2. ASSUME NEW s \in Staff, NEW k \in Cinema, Move(s, k) PROVE TypeOK'
    BY <1>2 DEF Move, TypeOK
  <1>3. CASE Tick
    BY <1>3 DEF Tick, TypeOK
  <1>4. CASE UNCHANGED vars
    BY <1>4 DEF vars, TypeOK
  <1>5. QED
    BY <1>1, <1>2, <1>3, <1>4 DEF Next

(* Every variable keeps its type, whatever saves, moves and refusals of      *)
(* saveCoaching overlap.                                                     *)
THEOREM TypeCorrect == Spec => []TypeOK
  BY InitTyping, StepTyping, PTL DEF Spec
-------------------------------------------------------------------------------
(* The invariant.  What a save has prepared still fits the case it will      *)
(* replace, however often that has been replaced since.                      *)
Sound(c) ==
  /\ c.status = "COMPLETED" <=> c.completedAt # Never
  /\ c.status = "COMPLETED" => c.createdAt <= c.completedAt

Completed(x) == \E i \in DOMAIN audit : audit[i] = [case |-> x, action |-> "COMPLETE_COACHING"]

CaseInv(x) ==
  /\ Sound(case[x])
  /\ case[x].createdAt <= clock
  /\ case[x].status = "COMPLETED" => Completed(x)

RequestInv(e) ==
  /\ request[e].began <= clock
  /\ request[e].cinema \in request[e].scope
  /\ request[e].case # NoCase => case[request[e].case].createdAt <= request[e].began

SameOrigin(c, d) == c.staff = d.staff /\ c.createdBy = d.createdBy /\ c.createdAt = d.createdAt

WorkInv(e) ==
  LET x == request[e].case
      old == work[e].old
      new == work[e].new
  IN  /\ SameOrigin(old, case[x]) /\ SameOrigin(new, case[x])
      /\ new.status = request[e].status /\ new.cinema = request[e].cinema
      /\ Allowed(old.status, new.status) /\ old.cinema \in request[e].scope
      /\ Sound(new)
      /\ new.status = "COMPLETED" /\ ~Completes(old.status, new.status) => Completed(x)

IInv ==
  /\ TypeOK
  /\ \A x \in Case : case[x] # None => CaseInv(x)
  /\ \A e \in Editor : request[e] # None => RequestInv(e)
  /\ \A e \in Editor : work[e] # None => WorkInv(e)

LEMMA CompletedStays ==
  ASSUME NEW x \in Case, Completed(x),
         \A i \in DOMAIN audit : i \in DOMAIN audit' /\ audit'[i] = audit[i]
  PROVE  Completed(x)'
  BY DEF Completed

(* While the cases, the log and the clock stay, a request that is unchanged  *)
(* keeps its part of the invariant.                                          *)
LEMMA FrameInv ==
  ASSUME IInv, TypeOK', UNCHANGED <<case, audit, clock>>, NEW e \in Editor,
         \A d \in Editor : d # e => request'[d] = request[d] /\ work'[d] = work[d],
         request'[e] # None => RequestInv(e)', work'[e] # None => WorkInv(e)'
  PROVE  IInv'
  <1>1. \A x \in Case : case'[x] # None => CaseInv(x)'
    BY DEF IInv, CaseInv, Completed
  <1>2. \A d \in Editor : request'[d] # None => RequestInv(d)'
    BY DEF IInv, RequestInv
  <1>3. \A d \in Editor : work'[d] # None => WorkInv(d)'
    BY DEF IInv, WorkInv, Completed
  <1>4. QED
    BY <1>1, <1>2, <1>3 DEF IInv

LEMMA BeginInv ==
  ASSUME IInv, TypeOK', NEW e \in Editor, NEW x \in Case \cup {NoCase}, NEW s \in Staff,
         NEW status \in Status, NEW scope \in Scopes, Begin(e, x, s, status, scope),
         x # NoCase => case[x] # None
  PROVE  IInv'
  <1>1. /\ TypeOK /\ clock \in Nat
        /\ x # NoCase => x \in Case /\ CaseInv(x)
    BY DEF IInv, TypeOK
  <1>2. /\ request[e] = None /\ place[s] \in scope
        /\ request' = [request EXCEPT ![e] =
             [case |-> x, staff |-> s, status |-> status, cinema |-> place[s],
              scope |-> scope, began |-> clock]]
        /\ UNCHANGED <<case, audit, work, clock>>
    BY DEF Begin
  <1>3. /\ request'[e] = [case |-> x, staff |-> s, status |-> status, cinema |-> place[s],
                          scope |-> scope, began |-> clock]
        /\ \A d \in Editor : d # e => request'[d] = request[d]
    BY <1>1, <1>2 DEF TypeOK
  <1>4. RequestInv(e)'
    BY <1>1, <1>2, <1>3 DEF RequestInv, CaseInv
  <1>5. work'[e] = None
    BY <1>1, <1>2 DEF TypeOK
  <1>6. QED
    BY <1>2, <1>3, <1>4, <1>5, FrameInv

LEMMA RevisedFits ==
  ASSUME TypeOK, NEW e \in Editor, request[e] # None, request[e].case \in Case,
         case[request[e].case] # None, CaseInv(request[e].case), RequestInv(e),
         MaySave(e, case[request[e].case]),
         Allowed(case[request[e].case].status, request[e].status),
         NEW t \in Nat, request[e].began <= t
  PROVE  LET x == request[e].case
             old == case[x]
             new == Revised(e, old, t)
         IN  /\ SameOrigin(new, old)
             /\ new.status = request[e].status /\ new.cinema = request[e].cinema
             /\ Allowed(old.status, new.status) /\ old.cinema \in request[e].scope
             /\ Sound(new)
             /\ new.status = "COMPLETED" /\ ~Completes(old.status, new.status) => Completed(x)
  <1>. DEFINE x == request[e].case
              old == case[x]
              new == Revised(e, old, t)
  <1>1. /\ request[e] \in Request /\ old \in Coaching
        /\ x # NoCase
    BY RequestTyping
  <1>2. /\ new.staff = request[e].staff /\ new.createdBy = old.createdBy
        /\ new.createdAt = old.createdAt
        /\ new.status = request[e].status /\ new.cinema = request[e].cinema
        /\ new.completedAt = IF Completes(old.status, request[e].status) THEN t ELSE old.completedAt
    BY DEF Revised
  <1>3. old.staff = request[e].staff /\ old.cinema \in request[e].scope
    BY DEF MaySave
  <1>4. old.createdAt \in Nat /\ request[e].began \in Nat /\ old.createdAt <= t /\ t # Never
    BY <1>1 DEF RequestInv, Request, Coaching
  <1>5. CASE Completes(old.status, request[e].status)
    BY <1>2, <1>3, <1>4, <1>5 DEF SameOrigin, Sound, Completes
  <1>6. CASE ~Completes(old.status, request[e].status)
    <2>1. new.status = "COMPLETED" <=> old.status = "COMPLETED"
      BY <1>2, <1>6 DEF Completes, Allowed, Closed
    <2>2. QED
      BY <1>2, <1>3, <1>6, <2>1 DEF SameOrigin, Sound, CaseInv
  <1>7. QED
    BY <1>5, <1>6

LEMMA CheckInv ==
  ASSUME IInv, TypeOK', NEW e \in Editor, Check(e)
  PROVE  IInv'
  <1>. DEFINE x == request[e].case
  <1>1. /\ TypeOK /\ request[e] \in Request /\ request[e] # None
        /\ x \in Case /\ x # NoCase /\ case[x] \in Coaching /\ case[x] # None
    BY RequestTyping DEF Check, IInv
  <1>2. CaseInv(x) /\ RequestInv(e)
    BY <1>1 DEF IInv
  <1>3. PICK t \in request[e].began..clock :
          work' = [work EXCEPT ![e] = [old |-> case[x], new |-> Revised(e, case[x], t)]]
    BY DEF Check
  <1>4. t \in Nat /\ request[e].began <= t
    BY <1>1, <1>3 DEF Request, TypeOK
  <1>5. UNCHANGED <<case, audit, request, clock>>
    BY DEF Check
  <1>6. /\ work'[e] = [old |-> case[x], new |-> Revised(e, case[x], t)]
        /\ \A d \in Editor : d # e => work'[d] = work[d]
    BY <1>1, <1>3 DEF TypeOK
  <1>7. WorkInv(e)'
    <2>1. MaySave(e, case[x]) /\ Allowed(case[x].status, request[e].status)
      BY DEF Check
    <2>2. LET new == Revised(e, case[x], t)
          IN  /\ SameOrigin(new, case[x])
              /\ new.status = request[e].status /\ new.cinema = request[e].cinema
              /\ Allowed(case[x].status, new.status) /\ case[x].cinema \in request[e].scope
              /\ Sound(new)
              /\ new.status = "COMPLETED" /\ ~Completes(case[x].status, new.status) => Completed(x)
      BY <1>1, <1>2, <1>4, <2>1, RevisedFits
    <2>3. work'[e].old = case[x] /\ work'[e].new = Revised(e, case[x], t)
      BY <1>6
    <2>4. QED
      BY <1>5, <2>2, <2>3 DEF WorkInv, SameOrigin, Completed
  <1>8. RequestInv(e)'
    BY <1>2, <1>5 DEF RequestInv
  <1>9. QED
    BY <1>5, <1>6, <1>7, <1>8, FrameInv

(* A case is stored: it keeps its origin, or is new.                         *)
LEMMA StoreInv ==
  ASSUME IInv, TypeOK', NEW e \in Editor, End(e), clock' = clock,
         NEW x \in Case, NEW c \in Coaching, case' = [case EXCEPT ![x] = c],
         case[x] # None => SameOrigin(c, case[x]),
         \A i \in DOMAIN audit : i \in DOMAIN audit' /\ audit'[i] = audit[i],
         CaseInv(x)'
  PROVE  IInv'
  <1>1. TypeOK
    BY DEF IInv
  <1>2. /\ case'[x] = c
        /\ \A y \in Case : y # x => case'[y] = case[y]
    BY <1>1 DEF TypeOK
  <1>3. /\ request'[e] = None /\ work'[e] = None
        /\ \A d \in Editor : d # e => request'[d] = request[d] /\ work'[d] = work[d]
    BY <1>1, EndTyping
  <1>4. ASSUME NEW y \in Case, case'[y] # None PROVE CaseInv(y)'
    <2>1. CASE y = x
      BY <2>1
    <2>2. CASE y # x
      BY <1>2, <1>4, <2>2, CompletedStays DEF IInv, CaseInv
    <2>3. QED
      BY <2>1, <2>2
  <1>5. ASSUME NEW y \in Case, case[y] # None PROVE SameOrigin(case'[y], case[y])
    BY <1>2, <1>5 DEF SameOrigin
  <1>6. ASSUME NEW d \in Editor, request'[d] # None PROVE RequestInv(d)'
    <2>1. d # e /\ request'[d] = request[d] /\ RequestInv(d)
      BY <1>3, <1>6 DEF IInv
    <2>2. request[d].case # NoCase =>
            request[d].case \in Case /\ case[request[d].case] # None
      BY <1>1, <1>6, <2>1, RequestTyping DEF TypeOK
    <2>3. request[d].case # NoCase => case'[request[d].case].createdAt = case[request[d].case].createdAt
      BY <1>5, <2>2 DEF SameOrigin
    <2>4. QED
      BY <2>1, <2>3 DEF RequestInv
  <1>7. ASSUME NEW d \in Editor, work'[d] # None PROVE WorkInv(d)'
    <2>1. d # e /\ request'[d] = request[d] /\ work'[d] = work[d] /\ work[d] # None /\ WorkInv(d)
      BY <1>3, <1>7 DEF IInv
    <2>2. request[d].case \in Case /\ case[request[d].case] # None
      BY <1>1, <2>1, WorkTyping DEF TypeOK
    <2>3. SameOrigin(case'[request[d].case], case[request[d].case])
      BY <1>5, <2>2
    <2>4. PICK y \in Case : y = request[d].case
      BY <2>2
    <2>5. Completed(y) => Completed(y)'
      BY CompletedStays
    <2>6. QED
      BY <2>1, <2>3, <2>4, <2>5 DEF WorkInv, SameOrigin, Sound, Completed
  <1>8. QED
    BY <1>4, <1>6, <1>7 DEF IInv

LEMMA CreateInv ==
  ASSUME IInv, TypeOK', NEW e \in Editor, Create(e)
  PROVE  IInv'
  <1>1. TypeOK /\ request[e] \in Request /\ request[e] # None /\ RequestInv(e)
    BY RequestTyping DEF Create, IInv
  <1>2. PICK x \in Case, t \in request[e].began..clock :
          /\ case[x] = None
          /\ case' = [case EXCEPT ![x] =
               [staff |-> request[e].staff, cinema |-> request[e].cinema, status |-> "OPEN",
                createdBy |-> e, createdAt |-> t, completedAt |-> Never]]
          /\ Log(x, "CREATE_COACHING")
    BY DEF Create
  <1>. DEFINE c == [staff |-> request[e].staff, cinema |-> request[e].cinema, status |-> "OPEN",
                    createdBy |-> e, createdAt |-> t, completedAt |-> Never]
  <1>3. t \in Nat /\ t <= clock
    BY <1>1, <1>2 DEF Request, TypeOK
  <1>4. c \in Coaching
    BY <1>1, <1>3 DEF Request, Coaching, Status
  <1>5. End(e) /\ clock' = clock
    BY DEF Create
  <1>6. \A i \in DOMAIN audit : i \in DOMAIN audit' /\ audit'[i] = audit[i]
    BY <1>1, <1>2, LogTyping DEF Action
  <1>7. case'[x] = c
    BY <1>1, <1>2 DEF TypeOK
  <1>8. c.status = "OPEN" /\ c.createdAt = t /\ c.completedAt = Never
    OBVIOUS
  <1>9. CaseInv(x)'
    BY <1>3, <1>5, <1>7, <1>8 DEF CaseInv, Sound
  <1>10. QED
    BY <1>2, <1>4, <1>5, <1>6, <1>9, StoreInv

LEMMA ReplaceInv ==
  ASSUME IInv, TypeOK', NEW e \in Editor, Replace(e)
  PROVE  IInv'
  <1>1. TypeOK /\ work[e] # None /\ WorkInv(e)
    BY DEF Replace, IInv
  <1>x. PICK x \in Case : x = request[e].case
    BY <1>1, WorkTyping
  <1>c. PICK c \in Coaching : c = work[e].new
    BY <1>1, WorkTyping
  <1>a. PICK action \in Action :
          action = IF Completes(work[e].old.status, c.status)
                   THEN "COMPLETE_COACHING" ELSE "UPDATE_COACHING"
    BY DEF Action
  <1>2. case[x] \in Coaching /\ case[x] # None
    BY <1>1, <1>x, WorkTyping
  <1>3. /\ case' = [case EXCEPT ![x] = c] /\ End(e) /\ clock' = clock
        /\ Log(x, action)
    BY <1>x, <1>c, <1>a DEF Replace
  <1>4. SameOrigin(c, case[x])
    BY <1>1, <1>x, <1>c DEF WorkInv
  <1>5. /\ \A i \in DOMAIN audit : i \in DOMAIN audit' /\ audit'[i] = audit[i]
        /\ \E i \in DOMAIN audit' : audit'[i] = [case |-> x, action |-> action]
    BY <1>1, <1>3, LogTyping
  <1>6. c.status = "COMPLETED" => Completed(x)'
    <2>1. CASE Completes(work[e].old.status, c.status)
      BY <1>a, <1>5, <2>1 DEF Completed
    <2>2. CASE ~Completes(work[e].old.status, c.status)
      <3>1. c.status = "COMPLETED" => Completed(x)
        BY <1>1, <1>x, <1>c, <2>2 DEF WorkInv
      <3>2. QED
        BY <1>5, <3>1, CompletedStays
    <2>3. QED
      BY <2>1, <2>2
  <1>7. case'[x] = c
    BY <1>1, <1>3 DEF TypeOK
  <1>8. Sound(c)
    BY <1>1, <1>x, <1>c DEF WorkInv, Sound
  <1>9. c.createdAt <= clock
    BY <1>2, <1>4 DEF IInv, CaseInv, SameOrigin
  <1>10. CaseInv(x)'
    BY <1>3, <1>6, <1>7, <1>8, <1>9 DEF CaseInv, Sound
  <1>11. QED
    BY <1>2, <1>3, <1>4, <1>5, <1>10, StoreInv

LEMMA InitInv == Init => IInv
  BY InitTyping DEF Init, IInv

LEMMA StepInv == IInv /\ [Next]_vars => IInv'
  <1>. SUFFICES ASSUME IInv, [Next]_vars PROVE IInv'
    OBVIOUS
  <1>1. TypeOK /\ TypeOK'
    BY StepTyping DEF IInv
  <1>2. ASSUME NEW e \in Editor, EditorStep(e) PROVE IInv'
    <2>1. ASSUME NEW s \in Staff, NEW scope \in Scopes, Begin(e, NoCase, s, "OPEN", scope)
          PROVE  IInv'
      BY <1>1, <2>1, BeginInv DEF Status
    <2>2. ASSUME NEW s \in Staff, NEW scope \in Scopes, NEW x \in Case, NEW status \in Status,
                 case[x] # None, Begin(e, x, s, status, scope)
          PROVE  IInv'
      BY <1>1, <2>2, BeginInv
    <2>3. CASE Check(e)
      BY <1>1, <2>3, CheckInv
    <2>4. CASE Create(e)
      BY <1>1, <2>4, CreateInv
    <2>5. CASE Replace(e)
      BY <1>1, <2>5, ReplaceInv
    <2>6. CASE Abandon(e)
      <3>1. /\ request'[e] = None /\ work'[e] = None
            /\ \A d \in Editor : d # e => request'[d] = request[d] /\ work'[d] = work[d]
        BY <1>1, <2>6, EndTyping DEF Abandon
      <3>2. UNCHANGED <<case, audit, clock>>
        BY <2>6 DEF Abandon
      <3>3. QED
        BY <1>1, <3>1, <3>2, FrameInv
    <2>7. QED
      BY <1>2, <2>1, <2>2, <2>3, <2>4, <2>5, <2>6 DEF EditorStep
  <1>3. ASSUME UNCHANGED <<case, audit, request, work>>, clock' \in Nat, clock <= clock'
        PROVE  IInv'
    <2>1. \A x \in Case : case'[x] # None => CaseInv(x)'
      <3>1. ASSUME NEW x \in Case, case[x] # None
            PROVE  case[x].createdAt \in Nat /\ CaseInv(x)
        BY <1>1, <3>1 DEF TypeOK, Coaching, IInv
      <3>2. clock \in Nat
        BY <1>1 DEF TypeOK
      <3>3. QED
        BY <1>3, <3>1, <3>2 DEF CaseInv, Sound, Completed
    <2>2. \A e \in Editor : request'[e] # None => RequestInv(e)'
      <3>1. ASSUME NEW e \in Editor, request[e] # None
            PROVE  request[e].began \in Nat /\ RequestInv(e)
        BY <1>1, <3>1, RequestTyping DEF Request, IInv
      <3>2. clock \in Nat
        BY <1>1 DEF TypeOK
      <3>3. QED
        BY <1>3, <3>1, <3>2 DEF RequestInv
    <2>3. \A e \in Editor : work'[e] # None => WorkInv(e)'
      BY <1>3 DEF IInv, WorkInv, Completed
    <2>4. QED
      BY <1>1, <2>1, <2>2, <2>3 DEF IInv
  <1>4. ASSUME NEW s \in Staff, NEW k \in Cinema, Move(s, k) PROVE IInv'
    BY <1>1, <1>3, <1>4 DEF Move, TypeOK
  <1>5. CASE Tick
    BY <1>1, <1>3, <1>5 DEF Tick, TypeOK
  <1>6. CASE UNCHANGED vars
    BY <1>1, <1>3, <1>6 DEF vars, TypeOK
  <1>7. QED
    BY <1>2, <1>4, <1>5, <1>6 DEF Next

(* However saves overlap, stored cases, open requests and prepared documents *)
(* fit together.                                                             *)
THEOREM Invariance == Spec => []IInv
  BY InitInv, StepInv, PTL DEF Spec

-------------------------------------------------------------------------------
(* What overlapping saves of saveCoaching can not break: a case is completed *)
(* exactly when it has a completion time, not before its creation, and the   *)
(* log has the save that completed it.                                       *)
THEOREM CompletionHolds == Spec => []CompletionExplained
  <1>1. IInv => CompletionExplained
    BY DEF IInv, CaseInv, Sound, Completed, CompletionExplained
  <1>2. QED
    BY <1>1, Invariance, PTL

(* Every step that changes an existing case is a save's replacement.         *)
LEMMA OnlyReplaced ==
  ASSUME IInv, [Next]_vars, NEW x \in Case, case[x] # None, case'[x] # case[x]
  PROVE  \E e \in Editor :
           /\ work[e] # None /\ work'[e] = None /\ request[e].case = x
           /\ request[e] # None /\ request'[e] = None
           /\ case'[x] = work[e].new /\ WorkInv(e)
  <1>1. TypeOK
    BY DEF IInv
  <1>2. PICK e \in Editor : Create(e) \/ Replace(e)
    BY DEF Next, EditorStep, Begin, Check, Abandon, Move, Tick, vars
  <1>3. CASE Create(e)
    BY <1>1, <1>3 DEF Create, TypeOK
  <1>4. CASE Replace(e)
    <2>1. /\ work[e] # None /\ WorkInv(e) /\ request[e] # None /\ request[e].case \in Case
          /\ case' = [case EXCEPT ![request[e].case] = work[e].new] /\ End(e)
      BY <1>1, <1>4, WorkTyping DEF Replace, IInv
    <2>2. request'[e] = None /\ work'[e] = None
      BY <1>1, <2>1, EndTyping
    <2>3. request[e].case = x /\ case'[x] = work[e].new
      BY <1>1, <2>1 DEF TypeOK
    <2>4. QED
      BY <2>1, <2>2, <2>3
  <1>5. QED
    BY <1>2, <1>3, <1>4

(* However saves overlap, a case keeps its staff member, author and creation *)
(* time.                                                                     *)
THEOREM OriginStays == Spec => OriginKept
  <1>1. ASSUME IInv, TypeOK', [Next]_vars, NEW x \in Case, case[x] # None
        PROVE  /\ case'[x] # None
               /\ case'[x].staff = case[x].staff
               /\ case'[x].createdBy = case[x].createdBy
               /\ case'[x].createdAt = case[x].createdAt
    <2>1. CASE case'[x] = case[x]
      BY <1>1, <2>1
    <2>2. CASE case'[x] # case[x]
      <3>1. PICK e \in Editor : work[e] # None /\ request[e].case = x
                                /\ case'[x] = work[e].new /\ WorkInv(e)
        BY <1>1, <2>2, OnlyReplaced
      <3>2. work[e].new \in Coaching
        BY <1>1, <3>1, WorkTyping DEF IInv
      <3>3. QED
        BY <3>1, <3>2 DEF WorkInv, SameOrigin
    <2>3. QED
      BY <2>1, <2>2
  <1>2. IInv /\ [Next]_vars =>
          [\A x \in Case : case[x] # None =>
             /\ case'[x] # None
             /\ case'[x].staff = case[x].staff
             /\ case'[x].createdBy = case[x].createdBy
             /\ case'[x].createdAt = case[x].createdAt]_case
    BY <1>1, StepTyping DEF IInv
  <1>3. QED
    BY <1>2, Invariance, PTL DEF Spec, OriginKept

(* A save never puts a case into a cinema outside its caller's scope, even   *)
(* when the staff member moves while it is under way.                        *)
THEOREM StaysInScope == Spec => StoredInScope
  <1>1. ASSUME IInv, [Next]_vars, NEW x \in Case, case'[x] # case[x]
        PROVE  \E e \in Editor : request[e] # None /\ request'[e] = None
                                  /\ case'[x].cinema \in request[e].scope
    <2>1. TypeOK
      BY <1>1 DEF IInv
    <2>2. CASE case[x] # None
      <3>1. PICK e \in Editor : /\ request[e] # None /\ request'[e] = None
                                /\ case'[x] = work[e].new /\ WorkInv(e)
        BY <1>1, <2>2, OnlyReplaced
      <3>2. RequestInv(e)
        BY <1>1, <3>1 DEF IInv
      <3>3. QED
        BY <3>1, <3>2 DEF WorkInv, RequestInv
    <2>3. CASE case[x] = None
      <3>1. PICK e \in Editor : Create(e) \/ Replace(e)
        BY <1>1 DEF Next, EditorStep, Begin, Check, Abandon, Move, Tick, vars
      <3>2. CASE Replace(e)
        <4>1. /\ request[e].case \in Case /\ case[request[e].case] # None
          BY <2>1, <3>2, WorkTyping DEF Replace
        <4>2. QED
          BY <1>1, <2>1, <2>3, <3>2, <4>1 DEF Replace, TypeOK
      <3>3. CASE Create(e)
        <4>1. PICK y \in Case, t \in request[e].began..clock :
                case' = [case EXCEPT ![y] =
                  [staff |-> request[e].staff, cinema |-> request[e].cinema, status |-> "OPEN",
                   createdBy |-> e, createdAt |-> t, completedAt |-> Never]]
          BY <3>3 DEF Create
        <4>2. case'[x].cinema = request[e].cinema
          BY <1>1, <2>1, <4>1 DEF TypeOK
        <4>3. request[e] # None /\ request'[e] = None
          BY <2>1, <3>3, EndTyping DEF Create
        <4>4. RequestInv(e)
          BY <1>1, <4>3 DEF IInv
        <4>5. QED
          BY <4>2, <4>3, <4>4 DEF RequestInv
      <3>4. QED
        BY <3>1, <3>2, <3>3
    <2>4. QED
      BY <2>2, <2>3
  <1>2. IInv /\ [Next]_vars =>
          [\A x \in Case : case'[x] # case[x] =>
             \E e \in Editor : request[e] # None /\ request'[e] = None
                               /\ case'[x].cinema \in request[e].scope]_case
    BY <1>1
  <1>3. QED
    BY <1>2, Invariance, PTL DEF Spec, StoredInScope

(* A save that nobody overlapped was in scope and made an allowed change of  *)
(* status: the checks of saveCoaching can fail only through an overlap.      *)
THEOREM OverlapAlone == Spec => AllowedUnlessOverlapped
  <1>1. ASSUME IInv, [Next]_vars, NEW x \in Case, case[x] # None, case'[x] # case[x]
        PROVE  \E e \in Editor :
                 /\ work[e] # None /\ work'[e] = None /\ request[e].case = x
                 /\ case[x] = work[e].old =>
                      /\ case[x].status \in Closed => case'[x].status = case[x].status
                      /\ case[x].status = "IN_PROGRESS" => case'[x].status # "OPEN"
                      /\ case[x].cinema \in request[e].scope
    <2>1. PICK e \in Editor : /\ work[e] # None /\ work'[e] = None /\ request[e].case = x
                              /\ case'[x] = work[e].new /\ WorkInv(e)
      BY <1>1, OnlyReplaced
    <2>2. QED
      BY <2>1 DEF WorkInv, Allowed
  <1>2. IInv /\ [Next]_vars =>
          [\A x \in Case : case[x] # None /\ case'[x] # case[x] =>
             \E e \in Editor :
               /\ work[e] # None /\ work'[e] = None /\ request[e].case = x
               /\ case[x] = work[e].old =>
                    /\ case[x].status \in Closed => case'[x].status = case[x].status
                    /\ case[x].status = "IN_PROGRESS" => case'[x].status # "OPEN"
                    /\ case[x].cinema \in request[e].scope]_case
    BY <1>1
  <1>3. QED
    BY <1>2, Invariance, PTL DEF Spec, AllowedUnlessOverlapped

-------------------------------------------------------------------------------
(* Where no two saves of a case overlap, it is still what was read of it.    *)
ReadStands == \A e \in Editor : work[e] # None => case[request[e].case] = work[e].old

LEMMA ReadStandsStep ==
  ASSUME IInv, ReadStands, Alone, [Next]_vars
  PROVE  ReadStands'
  <1>1. TypeOK /\ TypeOK'
    BY StepTyping DEF IInv
  <1>2. ASSUME NEW e \in Editor, work'[e] # None
        PROVE  case'[request'[e].case] = work'[e].old
    <2>. DEFINE x == request'[e].case
    <2>1. x \in Case
      BY <1>1, <1>2, WorkTyping DEF TypeOK, Request
    <2>2. CASE Check(e)
      BY <1>1, <2>1, <2>2 DEF Check, TypeOK
    <2>3. CASE ~Check(e)
      <3>1. work[e] = work'[e] /\ request[e] = request'[e]
        <4>1. ASSUME NEW d \in Editor, EditorStep(d)
              PROVE  work[e] = work'[e] /\ request[e] = request'[e]
          <5>1. CASE End(d)
            BY <1>1, <1>2, <5>1, EndTyping
          <5>2. CASE Check(d)
            BY <1>1, <2>3, <5>2 DEF Check, TypeOK
          <5>3. ASSUME NEW y \in Case \cup {NoCase}, NEW s \in Staff, NEW status \in Status,
                       NEW scope \in Scopes, Begin(d, y, s, status, scope)
                PROVE  work[e] = work'[e] /\ request[e] = request'[e]
            BY <1>1, <1>2, <5>3 DEF Begin, TypeOK
          <5>4. QED
            BY <4>1, <5>1, <5>2, <5>3 DEF EditorStep, Create, Replace, Abandon, Status
        <4>2. QED
          BY <4>1 DEF Next, Move, Tick, vars
      <3>2. case[x] = work[e].old
        BY <1>2, <3>1 DEF ReadStands
      <3>3. CASE case'[x] = case[x]
        BY <3>1, <3>2, <3>3
      <3>4. CASE case'[x] # case[x]
        <4>1. case[x] # None
          BY <1>1, <1>2, <3>1, WorkTyping DEF TypeOK
        <4>2. PICK d \in Editor : work[d] # None /\ work'[d] = None /\ request[d].case = x
          BY <2>1, <3>4, <4>1, OnlyReplaced
        <4>3. d = e
          BY <1>2, <3>1, <4>2 DEF Alone
        <4>4. QED
          BY <1>2, <4>2, <4>3
      <3>5. QED
        BY <3>3, <3>4
    <2>4. QED
      BY <2>2, <2>3
  <1>3. QED
    BY <1>2 DEF ReadStands

(* "Closed coaching cannot be reopened" holds as long as no two saves of one *)
(* case overlap, for any number of cases, moves and abandoned saves: the     *)
(* overlap is the only way to reopen a case.                                 *)
THEOREM ClosedUnlessOverlapped == AloneSpec => ClosedStaysClosed
  <1>. DEFINE Inv == IInv /\ ReadStands /\ Alone
  <1>1. Init => Inv
    BY InitInv DEF Init, ReadStands, Alone
  <1>2. ASSUME Inv, [Next /\ Alone']_vars PROVE Inv'
    <2>1. [Next]_vars
      BY <1>2
    <2>2. Alone'
      BY <1>2 DEF vars, Alone
    <2>3. QED
      BY <1>2, <2>1, <2>2, StepInv, ReadStandsStep
  <1>3. ASSUME Inv, [Next /\ Alone']_vars, NEW x \in Case,
               case[x] # None, case[x].status \in Closed
        PROVE  case'[x].status = case[x].status
    <2>1. CASE case'[x] = case[x]
      BY <2>1
    <2>2. CASE case'[x] # case[x]
      <3>1. [Next]_vars
        BY <1>3
      <3>2. PICK e \in Editor : /\ work[e] # None /\ request[e].case = x
                                /\ case'[x] = work[e].new /\ WorkInv(e)
        BY <1>3, <2>2, <3>1, OnlyReplaced
      <3>3. case[x] = work[e].old
        BY <1>3, <3>2 DEF ReadStands
      <3>4. QED
        BY <1>3, <3>2, <3>3 DEF WorkInv, Allowed
    <2>3. QED
      BY <2>1, <2>2
  <1>4. Inv /\ [Next /\ Alone']_vars =>
          [\A x \in Case : case[x] # None /\ case[x].status \in Closed =>
             case'[x].status = case[x].status]_case
    BY <1>3
  <1>. HIDE DEF Inv
  <1>5. QED
    BY <1>1, <1>2, <1>4, PTL DEF AloneSpec, ClosedStaysClosed
===============================================================================
