-------------------------- MODULE ManagerLinksProofs --------------------------
(* Theorems about ManagerLinks, for any sets of staff, cinemas, managers and *)
(* staff saves and account requests, with or without failures, as long as    *)
(* account requests under way at once are about different accounts (Apart).  *)
EXTENDS ManagerLinks, TLAPS

USE LinksAssumption

Exchange == {"put", "grant", "list", "remove"}
Phase == {"put", "grant", "list", "remove", "delete", "settled", "record"}

-------------------------------------------------------------------------------
(* Type correctness. *)
(* Only a deletion asks for no role: what is granted is a role. *)
RoleInv ==
  \A a \in Admin : change[a] # None =>
    /\ change[a].phase \in Exchange => change[a].role \in Role
    /\ change[a].phase = "delete" => change[a].role = "NONE"

LEMMA SaveTyping ==
  ASSUME TypeOK, NEW e \in Editor, save[e] # None
  PROVE  /\ save[e] \in Save
         /\ save[e].phase # "write" => save[e].manager \in Manager
         /\ save[e].manager \in Manager => account[save[e].manager] \in Account
  BY DEF TypeOK, Save

LEMMA ChangeTyping ==
  ASSUME TypeOK, NEW a \in Admin, change[a] # None
  PROVE  /\ change[a] \in Change /\ change[a].account \in Manager
         /\ account[change[a].account] \in Account
         /\ change[a].role \in Role \cup {"NONE"}
         /\ change[a].enabled \in BOOLEAN /\ change[a].cinema \in Cinema \cup {NoCinema}
         /\ change[a].phase \in Phase /\ change[a].doomed \in SUBSET Role
  BY DEF TypeOK, Change, Phase

LEMMA StoreTyping ==
  ASSUME TypeOK, NEW m \in Manager, NEW x \in Account, Store(m, x)
  PROVE  /\ account' \in [Manager -> Account] /\ outdated' \in SUBSET Editor
         /\ account'[m] = x
         /\ \A n \in Manager : n # m => account'[n] = account[n]
  BY DEF TypeOK, Store

LEMMA GotoTyping ==
  ASSUME TypeOK, NEW a \in Admin, change[a] # None, NEW p \in Phase,
         NEW D \in SUBSET Role, Goto(a, p, D)
  PROVE  /\ change' \in [Admin -> Change \cup {None}]
         /\ change'[a] = [phase |-> p, account |-> change[a].account,
                          enabled |-> change[a].enabled, cinema |-> change[a].cinema,
                          role |-> change[a].role, doomed |-> D]
         /\ change'[a] # None
         /\ \A b \in Admin : b # a => change'[b] = change[b]
  <1>1. [phase |-> p, account |-> change[a].account,
         enabled |-> change[a].enabled, cinema |-> change[a].cinema,
         role |-> change[a].role, doomed |-> D] \in Change
    BY ChangeTyping DEF Change, Phase
  <1>2. QED
    BY <1>1 DEF TypeOK, Goto

LEMMA SaveSetTyping ==
  ASSUME TypeOK, NEW e \in Editor, NEW p \in {"user", "roles", "write"}, NEW s \in Staff,
         NEW k \in Cinema, NEW m \in Manager \cup {NoManager}, NEW f \in BOOLEAN,
         save' = [save EXCEPT ![e] = [phase |-> p, staff |-> s, cinema |-> k,
                                      manager |-> m, fits |-> f]]
  PROVE  /\ save' \in [Editor -> Save \cup {None}]
         /\ save'[e] = [phase |-> p, staff |-> s, cinema |-> k, manager |-> m, fits |-> f]
         /\ save'[e] # None
         /\ \A d \in Editor : d # e => save'[d] = save[d]
  <1>1. [phase |-> p, staff |-> s, cinema |-> k, manager |-> m, fits |-> f] \in Save
    BY DEF Save
  <1>2. QED
    BY <1>1 DEF TypeOK

LEMMA EditorTyping ==
  ASSUME TypeOK, NEW e \in Editor, EditorStep(e)
  PROVE  TypeOK'
  <1>1. ASSUME NEW s \in Staff, NEW k \in Cinema, NEW m \in Manager \cup {NoManager},
               BeginSave(e, s, k, m)
        PROVE  TypeOK'
    <2>. DEFINE p == IF m = NoManager THEN "write" ELSE "user"
    <2>1. save' = [save EXCEPT ![e] = [phase |-> p, staff |-> s, cinema |-> k,
                                       manager |-> m, fits |-> FALSE]]
      BY <1>1 DEF BeginSave
    <2>2. /\ save' \in [Editor -> Save \cup {None}]
          /\ save'[e] = [phase |-> p, staff |-> s, cinema |-> k, manager |-> m, fits |-> FALSE]
          /\ \A d \in Editor : d # e => save'[d] = save[d]
      BY <2>1, SaveSetTyping
    <2>3. QED
      BY <1>1, <2>2 DEF BeginSave, TypeOK
  <1>2. CASE ReadUser(e)
    <2>. DEFINE f == /\ account[save[e].manager].enabled
                     /\ account[save[e].manager].cinema = save[e].cinema
    <2>1. save[e] \in Save /\ save[e] # None /\ save[e].manager \in Manager
      BY <1>2, SaveTyping DEF ReadUser
    <2>2. account[save[e].manager] \in Account
      BY <2>1 DEF TypeOK
    <2>3. save' = [save EXCEPT ![e] = [phase |-> "roles", staff |-> save[e].staff,
                     cinema |-> save[e].cinema, manager |-> save[e].manager, fits |-> f]]
      BY <1>2 DEF ReadUser
    <2>4. save[e].staff \in Staff /\ save[e].cinema \in Cinema /\ f \in BOOLEAN
      BY <2>1, <2>2 DEF Save, Account
    <2>5. /\ save' \in [Editor -> Save \cup {None}]
          /\ save'[e].manager = save[e].manager
          /\ \A d \in Editor : d # e => save'[d] = save[d]
      <3>. HIDE DEF f
      <3>1. QED
        BY <2>1, <2>3, <2>4, SaveSetTyping
    <2>6. QED
      BY <1>2, <2>1, <2>5 DEF ReadUser, TypeOK
  <1>3. CASE ReadRoles(e)
    <2>1. save[e] \in Save /\ save[e] # None /\ save[e].manager \in Manager
      BY <1>3, SaveTyping DEF ReadRoles
    <2>2. save[e].staff \in Staff /\ save[e].cinema \in Cinema
      BY <2>1 DEF Save
    <2>3. save' = [save EXCEPT ![e] = [phase |-> "write", staff |-> save[e].staff,
                     cinema |-> save[e].cinema, manager |-> save[e].manager, fits |-> TRUE]]
      BY <1>3 DEF ReadRoles
    <2>4. /\ save' \in [Editor -> Save \cup {None}]
          /\ save'[e].phase = "write"
          /\ \A d \in Editor : d # e => save'[d] = save[d]
      BY <2>1, <2>2, <2>3, SaveSetTyping
    <2>5. QED
      BY <1>3, <2>4 DEF ReadRoles, TypeOK
  <1>4. CASE Write(e)
    <2>1. save[e] \in Save
      BY <1>4, SaveTyping DEF Write
    <2>2. /\ [cinema |-> save[e].cinema, manager |-> save[e].manager] \in StaffDoc
          /\ save[e].staff \in Staff
      BY <2>1 DEF Save, StaffDoc
    <2>3. staff' \in [Staff -> StaffDoc]
      BY <1>4, <2>2 DEF Write, TypeOK
    <2>4. raced' \in SUBSET Staff
      BY <1>4, <2>2 DEF Write, TypeOK
    <2>5. QED
      BY <1>4, <2>3, <2>4 DEF Write, TypeOK
  <1>5. CASE AbandonSave(e)
    BY <1>5 DEF AbandonSave, TypeOK
  <1>6. QED
    BY <1>1, <1>2, <1>3, <1>4, <1>5 DEF EditorStep

(* What the requests to Keycloak of one change have in common.               *)
Common(a, m) ==
  /\ change[a] # None /\ change'[a] # None
  /\ change' \in [Admin -> Change \cup {None}]
  /\ change'[a].account = m /\ change'[a].role = change[a].role
  /\ change'[a].enabled = change[a].enabled /\ change'[a].cinema = change[a].cinema
  /\ \A b \in Admin : b # a => change'[b] = change[b]
  /\ account' \in [Manager -> Account] /\ outdated' \in SUBSET Editor
  /\ \A n \in Manager : n # m => account'[n] = account[n]
  /\ outdated \subseteq outdated'
  /\ \A e \in Editor : save[e] # None /\ save[e].manager = m /\ e \notin outdated' =>
       account'[m] = account[m]
  /\ UNCHANGED <<staff, save, entry, undetached, raced>>

(* What the five requests to Keycloak do, in terms of the account m. *)
LEMMA Effects ==
  ASSUME TypeOK, RoleInv, NEW a \in Admin, NEW m \in Manager, m = change[a].account
  PROVE  /\ Put(a) =>
              /\ change[a].phase = "put" /\ change'[a].phase = "grant"
              /\ account'[m] = [state |-> "live", enabled |-> change[a].enabled,
                                cinema |-> change[a].cinema, roles |-> account[m].roles]
         /\ Grant(a) =>
              /\ change[a].phase = "grant" /\ change'[a].phase = "list"
              /\ account'[m] = [state |-> "live", enabled |-> account[m].enabled,
                                cinema |-> account[m].cinema,
                                roles |-> account[m].roles \cup {change[a].role}]
         /\ ListRoles(a) =>
              /\ change[a].phase = "list" /\ change'[a].phase = "remove"
              /\ change'[a].doomed = account[m].roles \ {change[a].role}
              /\ account'[m] = account[m]
         /\ Remove(a) =>
              /\ change[a].phase = "remove" /\ change'[a].phase = "settled"
              /\ account'[m] = [state |-> "live", enabled |-> account[m].enabled,
                                cinema |-> account[m].cinema,
                                roles |-> account[m].roles \ change[a].doomed]
         /\ Delete(a) =>
              /\ change[a].phase = "delete" /\ change'[a].phase = "settled"
              /\ account'[m] = [state |-> "gone", enabled |-> FALSE, cinema |-> NoCinema,
                                roles |-> {}]
         /\ Put(a) \/ Grant(a) \/ ListRoles(a) \/ Remove(a) \/ Delete(a) =>
              Common(a, m)
  <1>. USE DEF Phase
  <1>1. ASSUME NEW x \in Account, NEW p \in Phase, NEW D \in SUBSET Role,
               change[a] # None, Store(m, x), Goto(a, p, D),
               UNCHANGED <<staff, save, entry, undetached, raced>>
        PROVE  /\ Common(a, m) /\ account'[m] = x
               /\ change'[a].phase = p /\ change'[a].doomed = D
    <2>1. /\ account' \in [Manager -> Account] /\ outdated' \in SUBSET Editor
          /\ account'[m] = x /\ \A n \in Manager : n # m => account'[n] = account[n]
      BY <1>1, StoreTyping
    <2>2. /\ change' \in [Admin -> Change \cup {None}]
          /\ change'[a] = [phase |-> p, account |-> m, enabled |-> change[a].enabled,
                           cinema |-> change[a].cinema, role |-> change[a].role, doomed |-> D]
          /\ change'[a] # None /\ \A b \in Admin : b # a => change'[b] = change[b]
      BY <1>1, GotoTyping
    <2>3. /\ outdated \subseteq outdated'
          /\ \A e \in Editor : ~(save[e] # None /\ save[e].manager = m /\ e \notin outdated')
      BY <1>1 DEF Store
    <2>4. QED
      BY <1>1, <2>1, <2>2, <2>3 DEF Common
  <1>2. change[a] # None =>
          /\ change[a] \in Change /\ account[m] \in Account
          /\ change[a].phase \in Exchange => change[a].role \in Role
    BY ChangeTyping DEF RoleInv
  <1>3. ASSUME Put(a)
        PROVE  /\ change[a].phase = "put" /\ change'[a].phase = "grant" /\ Common(a, m)
               /\ account'[m] = [state |-> "live", enabled |-> change[a].enabled,
                                 cinema |-> change[a].cinema, roles |-> account[m].roles]
    <2>. DEFINE x == [state |-> "live", enabled |-> change[a].enabled,
                      cinema |-> change[a].cinema, roles |-> account[m].roles]
    <2>1. change[a] # None /\ change[a].phase = "put"
      BY <1>3 DEF Put, At
    <2>2. x \in Account
      BY <2>1, <1>2 DEF Account, Change
    <2>3. /\ Store(m, x) /\ Goto(a, "grant", {})
          /\ UNCHANGED <<staff, save, entry, undetached, raced>>
      BY <1>3 DEF Put
    <2>. HIDE DEF x
    <2>4. Common(a, m) /\ account'[m] = x /\ change'[a].phase = "grant"
      BY <1>1, <2>1, <2>2, <2>3
    <2>5. QED
      BY <2>1, <2>4 DEF x
  <1>4. ASSUME Grant(a)
        PROVE  /\ change[a].phase = "grant" /\ change'[a].phase = "list" /\ Common(a, m)
               /\ account'[m] = [state |-> "live", enabled |-> account[m].enabled,
                                 cinema |-> account[m].cinema,
                                 roles |-> account[m].roles \cup {change[a].role}]
    <2>. DEFINE x == [state |-> "live", enabled |-> account[m].enabled,
                      cinema |-> account[m].cinema,
                      roles |-> account[m].roles \cup {change[a].role}]
    <2>1. change[a] # None /\ change[a].phase = "grant"
      BY <1>4 DEF Grant, At
    <2>2. x \in Account
      BY <2>1, <1>2 DEF Account, Exchange
    <2>3. /\ Store(m, x) /\ Goto(a, "list", {})
          /\ UNCHANGED <<staff, save, entry, undetached, raced>>
      BY <1>4 DEF Grant, SetRoles
    <2>. HIDE DEF x
    <2>4. Common(a, m) /\ account'[m] = x /\ change'[a].phase = "list"
      BY <1>1, <2>1, <2>2, <2>3
    <2>5. QED
      BY <2>1, <2>4 DEF x
  <1>5. ASSUME ListRoles(a)
        PROVE  /\ change[a].phase = "list" /\ change'[a].phase = "remove" /\ Common(a, m)
               /\ change'[a].doomed = account[m].roles \ {change[a].role}
               /\ account'[m] = account[m]
    <2>. DEFINE D == account[m].roles \ {change[a].role}
    <2>1. change[a] # None /\ change[a].phase = "list"
      BY <1>5 DEF ListRoles, At
    <2>2. D \in SUBSET Role
      BY <2>1, <1>2 DEF Account
    <2>3. /\ Goto(a, "remove", D)
          /\ UNCHANGED <<staff, account, save, entry, undetached, outdated, raced>>
      BY <1>5 DEF ListRoles
    <2>. HIDE DEF D
    <2>4. /\ change' \in [Admin -> Change \cup {None}]
          /\ change'[a] = [phase |-> "remove", account |-> m, enabled |-> change[a].enabled,
                           cinema |-> change[a].cinema, role |-> change[a].role, doomed |-> D]
          /\ change'[a] # None /\ \A b \in Admin : b # a => change'[b] = change[b]
      BY <2>1, <2>2, <2>3, GotoTyping
    <2>5. Common(a, m)
      BY <2>1, <2>3, <2>4 DEF Common, TypeOK
    <2>6. QED
      BY <2>1, <2>3, <2>4, <2>5 DEF D
  <1>6. ASSUME Remove(a)
        PROVE  /\ change[a].phase = "remove" /\ change'[a].phase = "settled" /\ Common(a, m)
               /\ account'[m] = [state |-> "live", enabled |-> account[m].enabled,
                                 cinema |-> account[m].cinema,
                                 roles |-> account[m].roles \ change[a].doomed]
    <2>. DEFINE x == [state |-> "live", enabled |-> account[m].enabled,
                      cinema |-> account[m].cinema,
                      roles |-> account[m].roles \ change[a].doomed]
    <2>1. change[a] # None /\ change[a].phase = "remove"
      BY <1>6 DEF Remove, At
    <2>2. x \in Account
      BY <2>1, <1>2 DEF Account
    <2>3. /\ Store(m, x) /\ Goto(a, "settled", {})
          /\ UNCHANGED <<staff, save, entry, undetached, raced>>
      BY <1>6 DEF Remove, SetRoles
    <2>. HIDE DEF x
    <2>4. Common(a, m) /\ account'[m] = x /\ change'[a].phase = "settled"
      BY <1>1, <2>1, <2>2, <2>3
    <2>5. QED
      BY <2>1, <2>4 DEF x
  <1>7. ASSUME Delete(a)
        PROVE  /\ change[a].phase = "delete" /\ change'[a].phase = "settled" /\ Common(a, m)
               /\ account'[m] = [state |-> "gone", enabled |-> FALSE, cinema |-> NoCinema,
                                 roles |-> {}]
    <2>. DEFINE x == [state |-> "gone", enabled |-> FALSE, cinema |-> NoCinema, roles |-> {}]
    <2>1. change[a] # None /\ change[a].phase = "delete"
      BY <1>7 DEF Delete, At
    <2>2. x \in Account
      BY DEF Account
    <2>3. /\ Store(m, x) /\ Goto(a, "settled", {})
          /\ UNCHANGED <<staff, save, entry, undetached, raced>>
      BY <1>7 DEF Delete
    <2>. HIDE DEF x
    <2>4. Common(a, m) /\ account'[m] = x /\ change'[a].phase = "settled"
      BY <1>1, <2>1, <2>2, <2>3
    <2>5. QED
      BY <2>1, <2>4 DEF x
  <1>8. QED
    BY <1>3, <1>4, <1>5, <1>6, <1>7

LEMMA AdminTyping ==
  ASSUME TypeOK, RoleInv, NEW a \in Admin, AdminStep(a)
  PROVE  TypeOK' /\ RoleInv'
  <1>1. ASSUME NEW m \in Manager, NEW role \in Role \cup {"NONE"},
               NEW k \in Cinema \cup {NoCinema}, NEW enabled \in BOOLEAN,
               BeginChange(a, m, role, k, enabled)
        PROVE  TypeOK' /\ RoleInv'
    <2>. DEFINE c == [phase |-> IF role = "NONE" THEN "delete" ELSE "put", account |-> m,
                      enabled |-> enabled, cinema |-> k, role |-> role, doomed |-> {}]
    <2>1. c \in Change
      BY DEF Change
    <2>2. change' = [change EXCEPT ![a] = c]
      BY <1>1 DEF BeginChange
    <2>3. TypeOK'
      BY <1>1, <2>1, <2>2 DEF BeginChange, TypeOK, Entry
    <2>4. RoleInv'
      BY <2>2 DEF RoleInv, TypeOK, Exchange
    <2>5. QED
      BY <2>3, <2>4
  <1>2. CASE Put(a) \/ Grant(a) \/ ListRoles(a) \/ Remove(a) \/ Delete(a)
    <2>1. change[a] # None
      BY <1>2 DEF Put, Grant, ListRoles, Remove, Delete, At
    <2>2. PICK m \in Manager : m = change[a].account
      BY <2>1, ChangeTyping
    <2>3. Common(a, m) /\ change[a].phase \in Exchange \cup {"delete"}
      BY <1>2, <2>2, Effects DEF Exchange
    <2>4. change'[a].phase \in Exchange => change[a].phase \in Exchange
      BY <1>2, <2>2, Effects DEF Exchange
    <2>5. change'[a].phase # "delete"
      BY <1>2, <2>2, Effects
    <2>6. TypeOK'
      BY <2>3 DEF Common, TypeOK
    <2>7. RoleInv'
      BY <2>1, <2>3, <2>4, <2>5 DEF Common, RoleInv
    <2>8. QED
      BY <2>6, <2>7
  <1>3. CASE Detach(a)
    <2>1. change[a] # None /\ change[a].phase = "settled" /\ Goto(a, "record", {})
      BY <1>3 DEF Detach, At
    <2>2. PICK m \in Manager : m = change[a].account
      BY <2>1, ChangeTyping
    <2>3. /\ change' \in [Admin -> Change \cup {None}] /\ change'[a].phase = "record"
          /\ \A b \in Admin : b # a => change'[b] = change[b]
      <3>1. "record" \in Phase /\ {} \in SUBSET Role
        BY DEF Phase
      <3>2. change'[a] = [phase |-> "record", account |-> change[a].account,
                          enabled |-> change[a].enabled, cinema |-> change[a].cinema,
                          role |-> change[a].role, doomed |-> {}]
        BY <2>1, <3>1, GotoTyping
      <3>3. QED
        BY <2>1, <3>1, <3>2, GotoTyping
    <2>4. \A s \in Staff : [cinema |-> staff[s].cinema, manager |-> NoManager] \in StaffDoc
      BY DEF TypeOK, StaffDoc
    <2>5. staff' \in [Staff -> StaffDoc]
      BY <1>3, <2>2, <2>4 DEF Detach, TypeOK
    <2>6. undetached' \in SUBSET Manager
      BY <1>3, <2>2 DEF Detach, TypeOK
    <2>7. TypeOK'
      BY <1>3, <2>3, <2>5, <2>6 DEF Detach, TypeOK
    <2>8. RoleInv'
      BY <2>3 DEF RoleInv, Exchange
    <2>9. QED
      BY <2>7, <2>8
  <1>4. CASE Record(a) \/ Fail(a)
    <2>1. change[a] # None /\ change' = [change EXCEPT ![a] = None]
      BY <1>4 DEF Record, Fail, At
    <2>2. PICK m \in Manager : m = change[a].account
      BY <2>1, ChangeTyping
    <2>3. entry' \in [Manager -> Entry]
      BY <1>4, <2>2 DEF Record, Fail, TypeOK, Entry
    <2>4. TypeOK'
      BY <1>4, <2>1, <2>3 DEF Record, Fail, TypeOK
    <2>5. RoleInv'
      BY <2>1 DEF RoleInv, TypeOK
    <2>6. QED
      BY <2>4, <2>5
  <1>5. QED
    BY <1>1, <1>2, <1>3, <1>4 DEF AdminStep

(* Every variable keeps its type, with any number of account requests. *)
LEMMA TypingStep ==
  ASSUME TypeOK, RoleInv, [Next]_vars
  PROVE  TypeOK' /\ RoleInv'
  <1>1. ASSUME NEW e \in Editor, EditorStep(e)
        PROVE  TypeOK' /\ RoleInv'
    <2>1. UNCHANGED change
      BY <1>1 DEF EditorStep, BeginSave, ReadUser, ReadRoles, Write, AbandonSave
    <2>2. QED
      BY <1>1, <2>1, EditorTyping DEF RoleInv
  <1>2. CASE UNCHANGED vars
    BY <1>2 DEF vars, TypeOK, RoleInv
  <1>3. QED
    BY <1>1, <1>2, AdminTyping DEF Next

LEMMA TypingInit == Init => TypeOK /\ RoleInv
  <1>. SUFFICES ASSUME Init
               PROVE  TypeOK /\ RoleInv
    OBVIOUS
  <1>1. staff \in [Staff -> StaffDoc]
    <2>. DEFINE D == {d \in StaffDoc : d.manager = NoManager}
    <2>1. staff \in [Staff -> D] /\ D \subseteq StaffDoc
      BY DEF Init
    <2>. HIDE DEF D
    <2>2. QED
      BY <2>1
  <1>2. account \in [Manager -> Account]
    <2>. DEFINE X == {x \in Account :
           \/ x.state = "none" /\ ~x.enabled /\ x.cinema = NoCinema /\ x.roles = {}
           \/ x.state = "live" /\ x.enabled /\ x.cinema # NoCinema /\ x.roles = {"CINEMA_MANAGER"}}
    <2>1. account \in [Manager -> X]
      BY DEF Init
    <2>2. X \subseteq Account
      OBVIOUS
    <2>. HIDE DEF X
    <2>3. QED
      BY <2>1, <2>2
  <1>3. /\ save = [e \in Editor |-> None] /\ change = [a \in Admin |-> None]
        /\ entry = [m \in Manager |-> "NONE"]
        /\ undetached = {} /\ outdated = {} /\ raced = {}
    BY DEF Init
  <1>4. QED
    BY <1>1, <1>2, <1>3 DEF TypeOK, RoleInv, Entry

(* Staff documents, accounts, requests and log entries keep their types,     *)
(* whatever requests overlap or fail.                                        *)
THEOREM TypeCorrect == Spec => []TypeOK
  <1>1. TypeOK /\ RoleInv /\ [Next]_vars => (TypeOK /\ RoleInv)'
    BY TypingStep
  <1>2. QED
    BY TypingInit, <1>1, PTL DEF Spec

-------------------------------------------------------------------------------
(* The saves.  What a save has found out about its manager still holds as    *)
(* long as no account change has overtaken the save.                         *)
SaveInv ==
  \A e \in Editor : save[e] # None /\ save[e].manager # NoManager /\ e \notin outdated =>
    /\ save[e].phase = "roles" /\ save[e].fits =>
         /\ account[save[e].manager].enabled
         /\ account[save[e].manager].cinema = save[e].cinema
    /\ save[e].phase = "write" => Eligible(save[e].manager, save[e].cinema)

(* How far the request a has brought the account x.                          *)
Progress(a, x) ==
  LET c == change[a]
  IN  /\ c.phase \in {"grant", "list", "remove"} =>
           x.state = "live" /\ x.enabled = c.enabled /\ x.cinema = c.cinema
      /\ c.phase \in {"list", "remove"} => c.role \in x.roles
      /\ c.phase = "remove" => c.doomed = x.roles \ {c.role}
      /\ c.phase \in {"settled", "record"} =>
           IF c.role = "NONE" THEN x.state = "gone"
           ELSE x = [state |-> "live", enabled |-> c.enabled,
                     cinema |-> c.cinema, roles |-> {c.role}]

(* A change under way was announced, and has done so far what it should.     *)
ChangeInv ==
  \A a \in Admin : change[a] # None =>
    /\ entry[change[a].account] = "REQUESTED"
    /\ Progress(a, account[change[a].account])

(* Once a change has cleared its links, the ones that are stale all the same *)
(* are explained.                                                            *)
RecordInv ==
  \A a \in Admin, s \in Staff :
    /\ At(a, "record") /\ Stale(s) /\ staff[s].manager = change[a].account
    => change[a].account \in undetached \/ s \in raced

IInv == TypeOK /\ RoleInv /\ SaveInv /\ ChangeInv /\ RecordInv /\ LinksExplained

-------------------------------------------------------------------------------
(* Saves keep the invariant: nothing else changes meanwhile.                 *)
LEMMA ReadKeeps ==
  ASSUME IInv, NEW e \in Editor, ReadUser(e) \/ ReadRoles(e)
  PROVE  SaveInv'
  <1>1. TypeOK /\ SaveInv
    BY DEF IInv
  <1>2. UNCHANGED account /\ save[e] # None
    BY DEF ReadUser, ReadRoles
  <1>3. PICK m \in Manager : m = save[e].manager
    BY <1>1, SaveTyping DEF ReadUser, ReadRoles
  <1>4. PICK k \in Cinema : k = save[e].cinema
    BY <1>1, <1>2, SaveTyping DEF Save
  <1>5. ASSUME NEW d \in Editor, d # e, save'[d] # None, save'[d].manager # NoManager,
               d \notin outdated'
        PROVE  /\ save'[d].phase = "roles" /\ save'[d].fits =>
                    /\ account'[save'[d].manager].enabled
                    /\ account'[save'[d].manager].cinema = save'[d].cinema
               /\ save'[d].phase = "write" => Eligible(save[d].manager, save[d].cinema)'
    <2>1. save'[d] = save[d] /\ d \notin outdated
      BY <1>1, <1>5 DEF ReadUser, ReadRoles, TypeOK
    <2>2. QED
      BY <1>1, <1>2, <1>5, <2>1 DEF SaveInv, Eligible
  <1>6. CASE ReadUser(e)
    <2>1. /\ save'[e].phase = "roles" /\ save'[e].manager = m /\ save'[e].cinema = k
          /\ save'[e].fits => account[m].enabled /\ account[m].cinema = k
      BY <1>1, <1>3, <1>4, <1>6 DEF ReadUser, TypeOK
    <2>2. QED
      BY <1>2, <1>5, <2>1 DEF SaveInv
  <1>7. CASE ReadRoles(e)
    <2>1. /\ save'[e].phase = "write" /\ save'[e].manager = m /\ save'[e].cinema = k
          /\ UNCHANGED outdated /\ save[e].phase = "roles" /\ save[e].fits
          /\ account[m].state = "live" /\ "CINEMA_MANAGER" \in account[m].roles
      BY <1>1, <1>3, <1>4, <1>7 DEF ReadRoles, TypeOK
    <2>2. e \notin outdated => account[m].enabled /\ account[m].cinema = k
      BY <1>1, <1>2, <1>3, <1>4, <2>1 DEF SaveInv
    <2>3. e \notin outdated' => Eligible(m, k)'
      BY <1>2, <2>1, <2>2 DEF Eligible
    <2>4. e \notin outdated' => Eligible(save[e].manager, save[e].cinema)'
      BY <2>1, <2>3 DEF Eligible
    <2>5. QED
      BY <1>5, <2>1, <2>4 DEF SaveInv
  <1>8. QED
    BY <1>6, <1>7

LEMMA WriteKeeps ==
  ASSUME IInv, NEW e \in Editor, Write(e)
  PROVE  /\ SaveInv' /\ RecordInv' /\ LinksExplained'
         /\ \A t \in Staff : Stale(t)' /\ t \notin raced' =>
              staff'[t] = staff[t] /\ Stale(t) /\ t \notin raced
  <1>1. TypeOK /\ SaveInv /\ RecordInv /\ LinksExplained
    BY DEF IInv
  <1>2. /\ save[e] # None /\ save[e].phase = "write"
        /\ UNCHANGED <<account, change, entry, undetached, outdated>>
    BY <1>1 DEF Write
  <1>3. PICK s \in Staff, k \in Cinema, m \in Manager \cup {NoManager} :
               s = save[e].staff /\ k = save[e].cinema /\ m = save[e].manager
    BY <1>1, <1>2, SaveTyping DEF Save
  <1>4. /\ staff' = [staff EXCEPT ![s] = [cinema |-> k, manager |-> m]]
        /\ raced' = IF e \in outdated THEN raced \cup {s} ELSE raced \ {s}
        /\ save' = [save EXCEPT ![e] = None]
    BY <1>3 DEF Write
  <1>5. staff'[s] = [cinema |-> k, manager |-> m]
    BY <1>1, <1>4 DEF TypeOK
  <1>6. \A t \in Staff : t # s =>
          /\ staff'[t] = staff[t] /\ (t \in raced' <=> t \in raced)
          /\ Stale(t)' => Stale(t)
    BY <1>1, <1>2, <1>4 DEF TypeOK, Stale, Eligible
  <1>7. Stale(s)' => s \in raced'
    <2>1. CASE e \in outdated
      BY <1>4, <2>1
    <2>2. CASE m = NoManager
      BY <1>5, <2>2 DEF Stale
    <2>3. CASE e \notin outdated /\ m # NoManager
      <3>1. Eligible(m, k)
        BY <1>1, <1>2, <1>3, <2>3 DEF SaveInv
      <3>2. Eligible(m, k)'
        BY <1>2, <3>1 DEF Eligible
      <3>3. QED
        BY <1>5, <3>2 DEF Stale, Eligible
    <2>4. QED
      BY <2>1, <2>2, <2>3
  <1>8. SaveInv'
    <2>1. \A d \in Editor : save'[d] = IF d = e THEN None ELSE save[d]
      BY <1>1, <1>4 DEF TypeOK
    <2>2. QED
      BY <1>1, <1>2, <2>1 DEF SaveInv, Eligible
  <1>9. RecordInv'
    BY <1>1, <1>2, <1>6, <1>7 DEF RecordInv, At
  <1>10. LinksExplained'
    BY <1>1, <1>2, <1>6, <1>7 DEF LinksExplained
  <1>11. QED
    BY <1>6, <1>7, <1>8, <1>9, <1>10

LEMMA EditorKeeps ==
  ASSUME IInv, NEW e \in Editor, EditorStep(e)
  PROVE  SaveInv' /\ ChangeInv' /\ RecordInv' /\ LinksExplained'
  <1>1. TypeOK /\ SaveInv /\ ChangeInv /\ RecordInv /\ LinksExplained
    BY DEF IInv
  <1>2. UNCHANGED <<account, change, entry, undetached>>
    BY DEF EditorStep, BeginSave, ReadUser, ReadRoles, Write, AbandonSave
  <1>3. ChangeInv'
    BY <1>1, <1>2 DEF ChangeInv, Progress
  <1>4. Write(e) \/ UNCHANGED <<staff, raced>>
    BY DEF EditorStep, BeginSave, ReadUser, ReadRoles, AbandonSave
  <1>5. UNCHANGED <<staff, raced>> => RecordInv' /\ LinksExplained'
    BY <1>1, <1>2 DEF RecordInv, At, LinksExplained, Stale, Eligible
  <1>6. ASSUME NEW s \in Staff, NEW k \in Cinema, NEW m \in Manager \cup {NoManager},
               BeginSave(e, s, k, m)
        PROVE  SaveInv'
    <2>1. \A d \in Editor : d # e => save'[d] = save[d] /\ (d \in outdated' <=> d \in outdated)
      BY <1>1, <1>6 DEF BeginSave, TypeOK
    <2>2. /\ save'[e].manager = m /\ ~save'[e].fits
          /\ m # NoManager => save'[e].phase = "user"
      BY <1>1, <1>6 DEF BeginSave, TypeOK
    <2>3. QED
      BY <1>1, <1>2, <2>1, <2>2 DEF SaveInv, Eligible
  <1>7. ASSUME AbandonSave(e)
        PROVE  SaveInv'
    <2>1. \A d \in Editor : save'[d] = IF d = e THEN None ELSE save[d]
      BY <1>1, <1>7 DEF AbandonSave, TypeOK
    <2>2. UNCHANGED outdated
      BY <1>7 DEF AbandonSave
    <2>3. QED
      BY <1>1, <1>2, <2>1, <2>2 DEF SaveInv, Eligible
  <1>8. SaveInv'
    BY <1>6, <1>7, ReadKeeps, WriteKeeps DEF EditorStep
  <1>9. QED
    BY <1>3, <1>4, <1>5, <1>8, WriteKeeps

-------------------------------------------------------------------------------
(* The account requests.                                                     *)
LEMMA ProgressStep ==
  ASSUME TypeOK, RoleInv, NEW a \in Admin, NEW m \in Manager, m = change[a].account,
         change[a] # None => Progress(a, account[m]),
         Put(a) \/ Grant(a) \/ ListRoles(a) \/ Remove(a) \/ Delete(a)
  PROVE  Common(a, m) /\ Progress(a, account[m])' /\ change'[a].phase # "record"
  <1>1. Common(a, m)
    BY Effects
  <1>2. /\ change[a] # None /\ account[m] \in Account
        /\ change[a].phase \in Exchange => change[a].role \in Role
        /\ change[a].phase = "delete" => change[a].role = "NONE"
        /\ change'[a].role = change[a].role /\ change'[a].enabled = change[a].enabled
        /\ change'[a].cinema = change[a].cinema
    BY <1>1, ChangeTyping DEF Common, RoleInv
  <1>3. CASE Put(a)
    <2>1. /\ change'[a].phase = "grant"
          /\ account'[m] = [state |-> "live", enabled |-> change[a].enabled,
                            cinema |-> change[a].cinema, roles |-> account[m].roles]
      BY <1>3, Effects
    <2>2. QED
      BY <1>1, <1>2, <2>1 DEF Progress
  <1>4. CASE Grant(a)
    <2>1. /\ change[a].phase = "grant" /\ change'[a].phase = "list"
          /\ account'[m] = [state |-> "live", enabled |-> account[m].enabled,
                            cinema |-> account[m].cinema,
                            roles |-> account[m].roles \cup {change[a].role}]
      BY <1>4, Effects
    <2>2. QED
      BY <1>1, <1>2, <2>1 DEF Progress
  <1>5. CASE ListRoles(a)
    BY <1>1, <1>2, <1>5, Effects DEF Progress
  <1>6. CASE Remove(a)
    <2>1. /\ change[a].phase = "remove" /\ change'[a].phase = "settled"
          /\ account'[m] = [state |-> "live", enabled |-> account[m].enabled,
                            cinema |-> account[m].cinema,
                            roles |-> account[m].roles \ change[a].doomed]
      BY <1>6, Effects
    <2>2. /\ account[m].enabled = change[a].enabled /\ account[m].cinema = change[a].cinema
          /\ change[a].role \in account[m].roles
          /\ change[a].doomed = account[m].roles \ {change[a].role}
      BY <1>2, <2>1 DEF Progress
    <2>3. account[m].roles \ change[a].doomed = {change[a].role}
      BY <2>2
    <2>4. change[a].role # "NONE"
      BY <1>2, <2>1 DEF Exchange, Role
    <2>5. QED
      BY <1>1, <1>2, <2>1, <2>2, <2>3, <2>4 DEF Progress
  <1>7. CASE Delete(a)
    <2>1. /\ change[a].phase = "delete" /\ change'[a].phase = "settled"
          /\ account'[m] = [state |-> "gone", enabled |-> FALSE, cinema |-> NoCinema,
                            roles |-> {}]
      BY <1>7, Effects
    <2>2. QED
      BY <1>1, <1>2, <2>1 DEF Progress
  <1>8. QED
    BY <1>3, <1>4, <1>5, <1>6, <1>7

(* What a step on account m leaves as it was for the requests about others.  *)
Apartness(a, m) ==
  \A b \in Admin : b # a /\ change'[b] # None =>
    /\ change'[b] = change[b] /\ change[b] # None
    /\ change[b].account \in Manager \ {m}

LEMMA OthersApart ==
  ASSUME TypeOK, Apart, NEW a \in Admin, change[a] # None, NEW m \in Manager,
         m = change[a].account,
         \A b \in Admin : b # a => change'[b] = change[b]
  PROVE  Apartness(a, m)
  BY ChangeTyping DEF Apart, Apartness

(* They are as far as they were, if m is all whose account and entry change. *)
LEMMA OthersProgress ==
  ASSUME TypeOK, ChangeInv, NEW a \in Admin, NEW m \in Manager, Apartness(a, m),
         \A n \in Manager : n # m => account'[n] = account[n] /\ entry'[n] = entry[n]
  PROVE  \A b \in Admin : b # a /\ change'[b] # None =>
           /\ entry'[change'[b].account] = "REQUESTED"
           /\ Progress(b, account[change[b].account])'
  <1>. SUFFICES ASSUME NEW b \in Admin, b # a, change'[b] # None
                PROVE  /\ entry'[change'[b].account] = "REQUESTED"
                       /\ Progress(b, account[change[b].account])'
    OBVIOUS
  <1>1. PICK n \in Manager : n = change[b].account /\ n # m
    BY DEF Apartness
  <1>2. change'[b] = change[b] /\ change[b] # None
    BY DEF Apartness
  <1>3. entry[n] = "REQUESTED" /\ Progress(b, account[n])
    BY <1>1, <1>2 DEF ChangeInv
  <1>4. account'[n] = account[n] /\ entry'[n] = entry[n]
    BY <1>1
  <1>5. Progress(b, account[change[b].account])'
    BY <1>1, <1>2, <1>3, <1>4 DEF Progress
  <1>6. QED
    BY <1>1, <1>2, <1>3, <1>4, <1>5

(* And their links stay explained, if m is also all whose links change.      *)
LEMMA OthersRecorded ==
  ASSUME TypeOK, RecordInv, NEW a \in Admin, NEW m \in Manager, Apartness(a, m),
         UNCHANGED raced,
         \A n \in Manager : n # m =>
           account'[n] = account[n] /\ (n \in undetached' <=> n \in undetached),
         \A s \in Staff : staff'[s].manager # NoManager => staff'[s] = staff[s]
  PROVE  \A b \in Admin, s \in Staff :
           /\ b # a /\ At(b, "record")' /\ Stale(s)'
           /\ staff'[s].manager = change'[b].account
           => change'[b].account \in undetached' \/ s \in raced'
  <1>. SUFFICES ASSUME NEW b \in Admin, NEW s \in Staff, b # a, At(b, "record")', Stale(s)',
                       staff'[s].manager = change'[b].account
                PROVE  change'[b].account \in undetached' \/ s \in raced'
    OBVIOUS
  <1>1. change'[b] # None /\ change'[b].phase = "record"
    BY DEF At
  <1>2. change'[b] = change[b] /\ change[b] # None
    BY <1>1 DEF Apartness
  <1>3. PICK n \in Manager : n = change[b].account /\ n # m
    BY <1>1 DEF Apartness
  <1>4. staff'[s] = staff[s] /\ staff[s].manager = n
    BY <1>2, <1>3 DEF Stale
  <1>5. Stale(s)
    BY <1>3, <1>4 DEF Stale, Eligible
  <1>6. At(b, "record")
    BY <1>1, <1>2 DEF At
  <1>7. n \in undetached \/ s \in raced
    BY <1>3, <1>4, <1>5, <1>6 DEF RecordInv
  <1>8. QED
    BY <1>2, <1>3, <1>7

LEMMA ExchangeKeeps ==
  ASSUME Apart, IInv, NEW a \in Admin,
         Put(a) \/ Grant(a) \/ ListRoles(a) \/ Remove(a) \/ Delete(a)
  PROVE  SaveInv' /\ ChangeInv' /\ RecordInv' /\ LinksExplained'
  <1>1. TypeOK /\ RoleInv /\ SaveInv /\ ChangeInv /\ RecordInv /\ LinksExplained
    BY DEF IInv
  <1>2. change[a] # None
    BY DEF Put, Grant, ListRoles, Remove, Delete, At
  <1>3. PICK m \in Manager : m = change[a].account
    BY <1>1, <1>2, ChangeTyping
  <1>4. entry[m] = "REQUESTED" /\ Progress(a, account[m])
    BY <1>1, <1>2, <1>3 DEF ChangeInv
  <1>5. Common(a, m) /\ Progress(a, account[m])' /\ change'[a].phase # "record"
    BY <1>1, <1>3, <1>4, ProgressStep
  <1>6. /\ UNCHANGED <<staff, save, entry, undetached, raced>>
        /\ change'[a].account = m
        /\ \A n \in Manager : n # m => account'[n] = account[n]
        /\ \A e \in Editor : e \notin outdated' => e \notin outdated
        /\ \A e \in Editor : save[e] # None /\ save[e].manager = m /\ e \notin outdated' =>
             account'[m] = account[m]
    BY <1>5 DEF Common
  <1>7. SaveInv'
    <2>1. \A e \in Editor :
            save[e] # None /\ save[e].manager # NoManager /\ e \notin outdated' =>
              /\ e \notin outdated
              /\ account'[save[e].manager] = account[save[e].manager]
      <3>1. \A e \in Editor : save[e] # None => save[e].manager \in Manager \cup {NoManager}
        BY <1>1, SaveTyping DEF Save
      <3>2. QED
        BY <1>6, <3>1
    <2>2. QED
      BY <1>1, <1>6, <2>1 DEF SaveInv, Eligible
  <1>8. Apartness(a, m)
    <2>1. \A b \in Admin : b # a => change'[b] = change[b]
      BY <1>5 DEF Common
    <2>2. QED
      BY <1>1, <1>2, <1>3, <2>1, OthersApart
  <1>9. ChangeInv'
    <2>1. \A b \in Admin : b # a /\ change'[b] # None =>
            /\ entry'[change'[b].account] = "REQUESTED"
            /\ Progress(b, account[change[b].account])'
      BY <1>1, <1>6, <1>8, OthersProgress
    <2>2. Progress(a, account[change[a].account])'
      BY <1>5, <1>6 DEF Progress
    <2>3. QED
      BY <1>4, <1>6, <2>1, <2>2 DEF ChangeInv
  <1>10. RecordInv'
    <2>1. \A b \in Admin, s \in Staff :
            /\ b # a /\ At(b, "record")' /\ Stale(s)'
            /\ staff'[s].manager = change'[b].account
            => change'[b].account \in undetached' \/ s \in raced'
      BY <1>1, <1>6, <1>8, OthersRecorded
    <2>2. ~At(a, "record")'
      BY <1>5 DEF At
    <2>3. QED
      BY <2>1, <2>2 DEF RecordInv
  <1>11. LinksExplained'
    <2>1. \A s \in Staff : staff[s].manager \in Manager \cup {NoManager}
      BY <1>1 DEF TypeOK, StaffDoc
    <2>2. \A s \in Staff : Stale(s)' /\ staff[s].manager # m => Stale(s)
      BY <1>6, <2>1 DEF Stale, Eligible
    <2>3. QED
      BY <1>1, <1>4, <1>6, <2>2 DEF LinksExplained
  <1>12. QED
    BY <1>7, <1>9, <1>10, <1>11

(* A link that clearing leaves in place is one its manager is eligible for.  *)
LEMMA SettledLinks ==
  ASSUME IInv, NEW a \in Admin, change[a] # None,
         change[a].phase \in {"settled", "record"}, NEW k \in Cinema
  PROVE  Eligible(change[a].account, k) <=> k \in Keeps(a)
  <1>1. PICK m \in Manager : m = change[a].account
    BY ChangeTyping DEF IInv
  <1>2. Progress(a, account[m])
    BY <1>1 DEF IInv, ChangeInv
  <1>3. CASE change[a].role = "NONE"
    BY <1>1, <1>2, <1>3 DEF Progress, Eligible, Keeps
  <1>4. CASE change[a].role # "NONE"
    <2>1. account[m] = [state |-> "live", enabled |-> change[a].enabled,
                        cinema |-> change[a].cinema, roles |-> {change[a].role}]
      BY <1>2, <1>4 DEF Progress
    <2>2. QED
      BY <1>1, <2>1 DEF Eligible, Keeps
  <1>5. QED
    BY <1>3, <1>4

LEMMA DetachKeeps ==
  ASSUME Apart, IInv, NEW a \in Admin, Detach(a)
  PROVE  SaveInv' /\ ChangeInv' /\ RecordInv' /\ LinksExplained'
  <1>1. TypeOK /\ RoleInv /\ SaveInv /\ ChangeInv /\ RecordInv /\ LinksExplained
    BY DEF IInv
  <1>2. change[a] # None /\ change[a].phase = "settled" /\ Goto(a, "record", {})
    BY DEF Detach, At
  <1>3. PICK m \in Manager : m = change[a].account
    BY <1>1, <1>2, ChangeTyping
  <1>4. UNCHANGED <<account, save, entry, outdated, raced>>
    BY DEF Detach
  <1>5. change'[a] = [phase |-> "record", account |-> m, enabled |-> change[a].enabled,
                      cinema |-> change[a].cinema, role |-> change[a].role, doomed |-> {}]
    <2>1. "record" \in Phase /\ {} \in SUBSET Role
      BY DEF Phase
    <2>2. QED
      BY <1>1, <1>2, <1>3, <2>1, GotoTyping
  <1>6. entry[m] = "REQUESTED" /\ Progress(a, account[m])
    BY <1>1, <1>2, <1>3 DEF ChangeInv
  <1>7. \A s \in Staff : staff[s].cinema \in Cinema
    BY <1>1 DEF TypeOK, StaffDoc
  <1>8. \A s \in Staff : staff[s].manager # m => staff'[s] = staff[s]
    BY <1>3 DEF Detach, TypeOK
  <1>9. \A s \in Staff : staff'[s].manager = m => staff'[s] = staff[s]
    BY <1>3, <1>8 DEF Detach, LinksAssumption
  <1>10. \A n \in Manager : n # m => (n \in undetached' <=> n \in undetached)
    BY <1>3 DEF Detach
  <1>11. \A s \in Staff : Stale(s)' /\ staff'[s].manager = m => m \in undetached'
    <2>. SUFFICES ASSUME NEW s \in Staff, Stale(s)', staff'[s].manager = m
                  PROVE  m \in undetached'
      OBVIOUS
    <2>1. staff'[s] = staff[s] /\ ~Eligible(m, staff[s].cinema)
      BY <1>4, <1>9 DEF Stale, Eligible
    <2>2. staff[s].cinema \notin Keeps(a)
      BY <1>2, <1>3, <1>7, <2>1, SettledLinks
    <2>3. CASE staff' = [t \in Staff |->
                 IF staff[t].manager = m /\ staff[t].cinema \notin Keeps(a)
                 THEN [cinema |-> staff[t].cinema, manager |-> NoManager] ELSE staff[t]]
      BY <2>1, <2>2, <2>3
    <2>4. QED
      BY <1>3, <2>3 DEF Detach
  <1>12. SaveInv'
    BY <1>1, <1>4 DEF SaveInv, Eligible
  <1>13. Apartness(a, m)
    <2>1. "record" \in Phase /\ {} \in SUBSET Role
      BY DEF Phase
    <2>2. \A b \in Admin : b # a => change'[b] = change[b]
      BY <1>1, <1>2, <2>1, GotoTyping
    <2>3. QED
      BY <1>1, <1>2, <1>3, <2>2, OthersApart
  <1>14. ChangeInv'
    <2>1. \A b \in Admin : b # a /\ change'[b] # None =>
            /\ entry'[change'[b].account] = "REQUESTED"
            /\ Progress(b, account[change[b].account])'
      BY <1>1, <1>4, <1>13, OthersProgress
    <2>2. Progress(a, account[change[a].account])'
      BY <1>2, <1>4, <1>5, <1>6 DEF Progress
    <2>3. QED
      BY <1>4, <1>5, <1>6, <2>1, <2>2 DEF ChangeInv
  <1>15. RecordInv'
    <2>1. \A s \in Staff : staff'[s].manager # NoManager => staff'[s] = staff[s]
      BY <1>3, <1>8 DEF Detach
    <2>2. \A b \in Admin, s \in Staff :
            /\ b # a /\ At(b, "record")' /\ Stale(s)'
            /\ staff'[s].manager = change'[b].account
            => change'[b].account \in undetached' \/ s \in raced'
      BY <1>1, <1>4, <1>10, <1>13, <2>1, OthersRecorded
    <2>3. QED
      BY <1>5, <1>11, <2>2 DEF RecordInv
  <1>16. LinksExplained'
    <2>1. \A s \in Staff : staff[s].manager \in Manager \cup {NoManager}
      BY <1>1 DEF TypeOK, StaffDoc
    <2>2. \A s \in Staff : Stale(s)' /\ staff'[s].manager # m =>
            staff'[s] = staff[s] /\ Stale(s) /\ staff[s].manager # m
      BY <1>4, <1>8, <1>3 DEF Stale, Eligible, Detach
    <2>3. QED
      BY <1>1, <1>4, <1>6, <1>10, <2>1, <2>2 DEF LinksExplained, Stale
  <1>17. QED
    BY <1>12, <1>14, <1>15, <1>16

LEMMA BoundsKeep ==
  ASSUME Apart, Apart', IInv, NEW a \in Admin,
         \/ \E m \in Manager, role \in Role \cup {"NONE"}, k \in Cinema \cup {NoCinema},
               enabled \in BOOLEAN : BeginChange(a, m, role, k, enabled)
         \/ Record(a) \/ Fail(a)
  PROVE  SaveInv' /\ ChangeInv' /\ RecordInv' /\ LinksExplained'
  <1>1. TypeOK /\ SaveInv /\ ChangeInv /\ RecordInv /\ LinksExplained
    BY DEF IInv
  <1>2. UNCHANGED <<staff, account, save, undetached, outdated, raced>>
    BY DEF BeginChange, Record, Fail
  <1>3. SaveInv' /\ \A s \in Staff : Stale(s)' <=> Stale(s)
    BY <1>1, <1>2 DEF SaveInv, Eligible, Stale
  <1>4. ASSUME NEW m \in Manager, NEW role \in Role \cup {"NONE"},
               NEW k \in Cinema \cup {NoCinema}, NEW enabled \in BOOLEAN,
               BeginChange(a, m, role, k, enabled)
        PROVE  ChangeInv' /\ RecordInv' /\ LinksExplained'
    <2>1. /\ change'[a].phase \in {"put", "delete"} /\ change'[a].account = m
          /\ entry'[m] = "REQUESTED" /\ \A n \in Manager : n # m => entry'[n] = entry[n]
      BY <1>1, <1>4 DEF BeginChange, TypeOK
    <2>2. Progress(a, account[change[a].account])'
      BY <2>1 DEF Progress
    <2>3. Apartness(a, m)
      <3>1. \A b \in Admin : b # a => change'[b] = change[b]
        BY <1>1, <1>4 DEF BeginChange, TypeOK
      <3>2. change'[a] # None
        <4>1. [phase |-> IF role = "NONE" THEN "delete" ELSE "put", account |-> m,
               enabled |-> enabled, cinema |-> k, role |-> role, doomed |-> {}] \in Change
          BY DEF Change
        <4>2. QED
          BY <1>1, <1>4, <4>1 DEF BeginChange, TypeOK
      <3>3. QED
        BY <1>1, <2>1, <3>1, <3>2, ChangeTyping DEF Apart, Apartness
    <2>4. ChangeInv'
      <3>1. \A b \in Admin : b # a /\ change'[b] # None =>
              /\ entry'[change'[b].account] = "REQUESTED"
              /\ Progress(b, account[change[b].account])'
        BY <1>1, <1>2, <2>1, <2>3, OthersProgress
      <3>2. QED
        BY <2>1, <2>2, <3>1 DEF ChangeInv
    <2>5. RecordInv'
      <3>1. \A b \in Admin, s \in Staff :
              /\ b # a /\ At(b, "record")' /\ Stale(s)'
              /\ staff'[s].manager = change'[b].account
              => change'[b].account \in undetached' \/ s \in raced'
        BY <1>1, <1>2, <2>3, OthersRecorded
      <3>2. QED
        BY <2>1, <3>1 DEF RecordInv, At
    <2>6. LinksExplained'
      <3>1. \A s \in Staff : staff[s].manager \in Manager \cup {NoManager}
        BY <1>1 DEF TypeOK, StaffDoc
      <3>2. QED
        BY <1>1, <1>2, <1>3, <2>1, <3>1 DEF LinksExplained, Stale
    <2>7. QED
      BY <2>4, <2>5, <2>6
  <1>5. ASSUME Record(a) \/ Fail(a)
        PROVE  ChangeInv' /\ RecordInv' /\ LinksExplained'
    <2>1. change[a] # None /\ change'[a] = None
      BY <1>1, <1>5 DEF Record, Fail, At, TypeOK
    <2>2. PICK m \in Manager : m = change[a].account
      BY <1>1, <2>1, ChangeTyping
    <2>3. Apartness(a, m)
      <3>1. \A b \in Admin : b # a => change'[b] = change[b]
        BY <1>1, <1>5 DEF Record, Fail, TypeOK
      <3>2. QED
        BY <1>1, <2>1, <2>2, <3>1, OthersApart
    <2>4. ChangeInv' /\ RecordInv'
      <3>1. \A n \in Manager : n # m => entry'[n] = entry[n]
        BY <1>1, <1>5, <2>2 DEF Record, Fail, TypeOK
      <3>2. \A b \in Admin : b # a /\ change'[b] # None =>
              /\ entry'[change'[b].account] = "REQUESTED"
              /\ Progress(b, account[change[b].account])'
        BY <1>1, <1>2, <2>3, <3>1, OthersProgress
      <3>3. ChangeInv'
        BY <2>1, <3>2 DEF ChangeInv
      <3>4. \A b \in Admin, s \in Staff :
              /\ b # a /\ At(b, "record")' /\ Stale(s)'
              /\ staff'[s].manager = change'[b].account
              => change'[b].account \in undetached' \/ s \in raced'
        BY <1>1, <1>2, <2>3, OthersRecorded
      <3>5. RecordInv'
        BY <2>1, <3>4 DEF RecordInv, At
      <3>6. QED
        BY <3>3, <3>5
    <2>5. \A s \in Staff : staff[s].manager \in Manager \cup {NoManager}
      BY <1>1 DEF TypeOK, StaffDoc
    <2>6. CASE Record(a)
      <3>1. At(a, "record") /\ \A n \in Manager : n # m => entry'[n] = entry[n]
        BY <1>1, <2>2, <2>6 DEF Record, TypeOK
      <3>2. \A s \in Staff : Stale(s) /\ staff[s].manager = m =>
              m \in undetached \/ s \in raced
        BY <1>1, <2>2, <3>1 DEF RecordInv
      <3>3. LinksExplained'
        BY <1>1, <1>2, <1>3, <2>5, <3>1, <3>2 DEF LinksExplained, Stale
      <3>4. QED
        BY <2>4, <3>3
    <2>7. CASE Fail(a)
      <3>1. /\ \A n \in Manager : n # m => entry'[n] = entry[n]
            /\ entry'[m] \in {"FAILED", entry[m]}
        BY <1>1, <2>2, <2>7 DEF Fail, TypeOK
      <3>2. LinksExplained'
        BY <1>1, <1>2, <1>3, <2>5, <3>1 DEF LinksExplained, Stale
      <3>3. QED
        BY <2>4, <3>2
    <2>8. QED
      BY <1>5, <2>6, <2>7
  <1>6. QED
    BY <1>3, <1>4, <1>5

-------------------------------------------------------------------------------
LEMMA InvariantInit == Init => IInv
  <1>. SUFFICES ASSUME Init
               PROVE  IInv
    OBVIOUS
  <1>1. TypeOK /\ RoleInv
    BY TypingInit
  <1>2. /\ save = [e \in Editor |-> None] /\ change = [a \in Admin |-> None]
        /\ \A s \in Staff : staff[s].manager = NoManager
    BY DEF Init
  <1>3. QED
    BY <1>1, <1>2 DEF IInv, SaveInv, ChangeInv, RecordInv, At, LinksExplained, Stale

LEMMA InvariantStep ==
  ASSUME Apart, IInv, [Next /\ Apart']_vars
  PROVE  IInv'
  <1>1. TypeOK' /\ RoleInv'
    BY TypingStep DEF IInv
  <1>2. ASSUME NEW a \in Admin, AdminStep(a), Apart'
        PROVE  SaveInv' /\ ChangeInv' /\ RecordInv' /\ LinksExplained'
    <2>1. CASE Put(a) \/ Grant(a) \/ ListRoles(a) \/ Remove(a) \/ Delete(a)
      BY <2>1, ExchangeKeeps
    <2>2. CASE Detach(a)
      BY <2>2, DetachKeeps
    <2>3. QED
      BY <1>2, <2>1, <2>2, BoundsKeep DEF AdminStep
  <1>3. ASSUME UNCHANGED vars
        PROVE  SaveInv' /\ ChangeInv' /\ RecordInv' /\ LinksExplained'
    <2>1. SaveInv'
      BY <1>3 DEF vars, IInv, SaveInv, Eligible
    <2>2. ChangeInv'
      BY <1>3 DEF vars, IInv, ChangeInv, Progress
    <2>3. RecordInv'
      BY <1>3 DEF vars, IInv, RecordInv, At, Stale, Eligible
    <2>4. LinksExplained'
      BY <1>3 DEF vars, IInv, LinksExplained, Stale, Eligible
    <2>5. QED
      BY <2>1, <2>2, <2>3, <2>4
  <1>4. QED
    BY <1>1, <1>2, <1>3, EditorKeeps DEF Next, IInv

(* The inductive invariant holds as long as account requests stay apart.     *)
LEMMA Invariance == ApartSpec => [](IInv /\ Apart)
  <1>1. Init => IInv /\ Apart
    BY InvariantInit DEF Init, Apart
  <1>2. ASSUME IInv, Apart, [Next /\ Apart']_vars
        PROVE  IInv' /\ Apart'
    BY <1>2, InvariantStep DEF Apart, vars
  <1>3. QED
    BY <1>1, <1>2, PTL DEF ApartSpec

(* Every link to a manager who cannot read the notifications is explained by *)
(* the logs or was written by a save that an account change overtook.        *)
THEOREM StaleLinksExplained == ApartSpec => []LinksExplained
  <1>1. IInv => LinksExplained
    BY DEF IInv
  <1>2. QED
    BY Invariance, <1>1, PTL

(* A change about to be recorded as done has made the account what was asked *)
(* for (saveUser, deleteUser).                                               *)
THEOREM DoneIsDone == ApartSpec => []DoneMeansDone
  <1>1. IInv => DoneMeansDone
    BY DEF IInv, ChangeInv, Progress, DoneMeansDone, At
  <1>2. QED
    BY Invariance, <1>1, PTL

(* Only the requests to Keycloak change accounts.                            *)
LEMMA AccountSteps ==
  ASSUME [Next]_vars, account' # account
  PROVE  \E a \in Admin : Put(a) \/ Grant(a) \/ ListRoles(a) \/ Remove(a) \/ Delete(a)
  <1>1. ASSUME NEW e \in Editor, EditorStep(e)
        PROVE  FALSE
    BY <1>1 DEF EditorStep, BeginSave, ReadUser, ReadRoles, Write, AbandonSave
  <1>2. ASSUME NEW a \in Admin, AdminStep(a)
        PROVE  Put(a) \/ Grant(a) \/ ListRoles(a) \/ Remove(a) \/ Delete(a)
    BY <1>2 DEF AdminStep, BeginChange, Detach, Record, Fail
  <1>3. QED
    BY <1>1, <1>2 DEF Next, vars

(* An account is changed only after the audit log has announced it, so a     *)
(* crash between the two systems leaves a trace (users.go:76).               *)
THEOREM ChangesLogged == ApartSpec => ChangesAnnounced
  <1>. DEFINE A == \A m \in Manager : account'[m] # account[m] => entry[m] = "REQUESTED"
  <1>1. ASSUME IInv, [Next]_vars
        PROVE  [A]_account
    <2>. SUFFICES ASSUME account' # account
                  PROVE  A
      OBVIOUS
    <2>1. PICK a \in Admin : Put(a) \/ Grant(a) \/ ListRoles(a) \/ Remove(a) \/ Delete(a)
      BY <1>1, AccountSteps
    <2>2. change[a] # None
      BY <2>1 DEF Put, Grant, ListRoles, Remove, Delete, At
    <2>3. PICK m \in Manager : m = change[a].account
      BY <1>1, <2>2, ChangeTyping DEF IInv
    <2>4. Common(a, m)
      BY <1>1, <2>1, <2>3, Effects DEF IInv
    <2>5. entry[m] = "REQUESTED"
      BY <1>1, <2>2, <2>3 DEF IInv, ChangeInv
    <2>6. QED
      BY <2>4, <2>5 DEF Common
  <1>2. QED
    BY Invariance, <1>1, PTL DEF ApartSpec, ChangesAnnounced

(* An account that has a platform role keeps one through the whole exchange: *)
(* the new role is granted before the others are removed (auth/users.go:148). *)
THEOREM RoleKept == ApartSpec => NeverWithoutRole
  <1>. DEFINE A == \A m \in Manager : account[m].roles # {} /\ account'[m].state = "live"
                                         => account'[m].roles # {}
  <1>1. ASSUME IInv, [Next]_vars
        PROVE  [A]_account
    <2>. SUFFICES ASSUME account' # account
                  PROVE  A
      OBVIOUS
    <2>1. PICK a \in Admin : Put(a) \/ Grant(a) \/ ListRoles(a) \/ Remove(a) \/ Delete(a)
      BY <1>1, AccountSteps
    <2>2. change[a] # None
      BY <2>1 DEF Put, Grant, ListRoles, Remove, Delete, At
    <2>3. PICK m \in Manager : m = change[a].account
      BY <1>1, <2>2, ChangeTyping DEF IInv
    <2>4. \A n \in Manager : n # m => account'[n] = account[n]
      BY <1>1, <2>1, <2>3, Effects DEF IInv, Common
    <2>5. Progress(a, account[m])
      BY <1>1, <2>2, <2>3 DEF IInv, ChangeInv
    <2>6. account[m].roles # {} /\ account'[m].state = "live" => account'[m].roles # {}
      <3>1. CASE Put(a)
        <4>1. account'[m] = [state |-> "live", enabled |-> change[a].enabled,
                             cinema |-> change[a].cinema, roles |-> account[m].roles]
          BY <1>1, <2>3, <3>1, Effects DEF IInv
        <4>2. QED
          BY <4>1
      <3>2. CASE Grant(a)
        <4>1. account'[m] = [state |-> "live", enabled |-> account[m].enabled,
                             cinema |-> account[m].cinema,
                             roles |-> account[m].roles \cup {change[a].role}]
          BY <1>1, <2>3, <3>2, Effects DEF IInv
        <4>2. QED
          BY <4>1
      <3>3. CASE ListRoles(a)
        <4>1. account'[m] = account[m]
          BY <1>1, <2>3, <3>3, Effects DEF IInv
        <4>2. QED
          BY <4>1
      <3>4. CASE Remove(a)
        <4>1. /\ change[a].phase = "remove"
              /\ account'[m] = [state |-> "live", enabled |-> account[m].enabled,
                                cinema |-> account[m].cinema,
                                roles |-> account[m].roles \ change[a].doomed]
          BY <1>1, <2>3, <3>4, Effects DEF IInv
        <4>2. /\ change[a].role \in account[m].roles
              /\ change[a].doomed = account[m].roles \ {change[a].role}
          BY <2>5, <4>1 DEF Progress
        <4>3. QED
          BY <4>1, <4>2
      <3>5. CASE Delete(a)
        <4>1. account'[m] = [state |-> "gone", enabled |-> FALSE, cinema |-> NoCinema,
                             roles |-> {}]
          BY <1>1, <2>3, <3>5, Effects DEF IInv
        <4>2. QED
          BY <4>1
      <3>6. QED
        BY <2>1, <3>1, <3>2, <3>3, <3>4, <3>5
    <2>7. QED
      BY <2>4, <2>6
  <1>2. QED
    BY Invariance, <1>1, PTL DEF ApartSpec, NeverWithoutRole

(* Clearing takes no link from a manager who is eligible for it: a link that *)
(* disappears was stale, unless a save of that staff member removed it.      *)
THEOREM EligibleLinksStay == ApartSpec => OnlyStaleCleared
  <1>. DEFINE A == \A s \in Staff :
         staff'[s].manager = NoManager /\ staff[s].manager # NoManager =>
           \/ Stale(s)
           \/ \E e \in Editor : save[e] # None /\ save'[e] = None /\ save[e].staff = s
  <1>1. ASSUME IInv, [Next]_vars
        PROVE  [A]_staff
    <2>. SUFFICES ASSUME staff' # staff
                  PROVE  A
      OBVIOUS
    <2>1. ASSUME NEW e \in Editor, Write(e)
          PROVE  A
      <3>1. save[e] # None /\ save'[e] = None
        BY <1>1, <2>1 DEF Write, IInv, TypeOK
      <3>2. \A s \in Staff : s # save[e].staff => staff'[s] = staff[s]
        BY <1>1, <2>1 DEF Write, IInv, TypeOK
      <3>3. QED
        BY <3>1, <3>2
    <2>2. ASSUME NEW a \in Admin, Detach(a)
          PROVE  A
      <3>1. change[a] # None /\ change[a].phase = "settled"
        BY <2>2 DEF Detach, At
      <3>2. \A s \in Staff : staff[s].cinema \in Cinema
        BY <1>1 DEF IInv, TypeOK, StaffDoc
      <3>3. \A s \in Staff : staff'[s] # staff[s] =>
              staff[s].manager = change[a].account /\ staff[s].cinema \notin Keeps(a)
        BY <2>2 DEF Detach
      <3>4. \A s \in Staff : staff'[s] # staff[s] =>
              ~Eligible(staff[s].manager, staff[s].cinema)
        BY <1>1, <3>1, <3>2, <3>3, SettledLinks
      <3>5. QED
        BY <3>4 DEF Stale
    <2>3. \/ \E e \in Editor : Write(e)
          \/ \E a \in Admin : Detach(a)
      BY <1>1 DEF Next, vars, EditorStep, BeginSave, ReadUser, ReadRoles, AbandonSave, AdminStep,
         BeginChange, Put, Grant, ListRoles, Remove, Delete, Record, Fail
    <2>4. QED
      BY <2>1, <2>2, <2>3
  <1>2. QED
    BY Invariance, <1>1, PTL DEF ApartSpec, OnlyStaleCleared

-------------------------------------------------------------------------------
(* When nothing fails, a stale link that no overtaken save wrote is one that *)
(* an account request under way is about to clear.  An account that is gone  *)
(* has its deletion past the last request to Keycloak, so no "not found" can *)
(* cut it short.                                                             *)
PendingInv ==
  \A s \in Staff : Stale(s) /\ s \notin raced =>
    \E a \in Admin :
      /\ change[a] # None /\ change[a].account = staff[s].manager
      /\ change[a].phase # "record"
      /\ account[staff[s].manager].state = "gone" => change[a].phase = "settled"

LEMMA EditorPending ==
  ASSUME IInv, PendingInv, NEW e \in Editor, EditorStep(e)
  PROVE  PendingInv'
  <1>1. UNCHANGED <<account, change>>
    BY DEF EditorStep, BeginSave, ReadUser, ReadRoles, Write, AbandonSave
  <1>2. CASE Write(e)
    BY <1>1, <1>2, WriteKeeps DEF PendingInv
  <1>3. CASE ~Write(e)
    <2>1. UNCHANGED <<staff, raced>>
      BY <1>3 DEF EditorStep, BeginSave, ReadUser, ReadRoles, AbandonSave
    <2>2. QED
      BY <1>1, <2>1 DEF PendingInv, Stale, Eligible
  <1>4. QED
    BY <1>2, <1>3

(* A request's step leaves the links of other accounts to the others.        *)
LEMMA OthersPending ==
  ASSUME TypeOK, PendingInv, NEW a \in Admin, NEW s \in Staff,
         Stale(s)', s \notin raced', UNCHANGED raced, staff'[s] = staff[s],
         account'[staff[s].manager] = account[staff[s].manager],
         \A b \in Admin : b # a => change'[b] = change[b],
         \A b \in Admin :
           /\ change[b] # None /\ change[b].account = staff[s].manager
           /\ change[b].phase # "record"
           /\ account[staff[s].manager].state = "gone" => change[b].phase = "settled"
           => b # a
  PROVE  \E b \in Admin :
           /\ change'[b] # None /\ change'[b].account = staff'[s].manager
           /\ change'[b].phase # "record"
           /\ account'[staff'[s].manager].state = "gone" => change'[b].phase = "settled"
  <1>1. Stale(s) /\ s \notin raced
    BY DEF Stale, Eligible
  <1>2. PICK b \in Admin :
           /\ change[b] # None /\ change[b].account = staff[s].manager
           /\ change[b].phase # "record"
           /\ account[staff[s].manager].state = "gone" => change[b].phase = "settled"
    BY <1>1 DEF PendingInv
  <1>3. b # a /\ change'[b] = change[b]
    BY <1>2
  <1>4. QED
    BY <1>2, <1>3

LEMMA AdminPending ==
  ASSUME ~Faulty, IInv, PendingInv, NEW a \in Admin, AdminStep(a)
  PROVE  PendingInv'
  <1>1. TypeOK /\ RoleInv
    BY DEF IInv
  <1>2. ASSUME NEW s \in Staff, Stale(s)', s \notin raced'
        PROVE  \E b \in Admin :
                 /\ change'[b] # None /\ change'[b].account = staff'[s].manager
                 /\ change'[b].phase # "record"
                 /\ account'[staff'[s].manager].state = "gone" => change'[b].phase = "settled"
    <2>. DEFINE n == staff[s].manager
    <2>1. CASE Put(a) \/ Grant(a) \/ ListRoles(a) \/ Remove(a) \/ Delete(a)
      <3>1. change[a] # None
        BY <2>1 DEF Put, Grant, ListRoles, Remove, Delete, At
      <3>2. PICK m \in Manager : m = change[a].account
        BY <1>1, <3>1, ChangeTyping
      <3>3. Common(a, m)
        BY <1>1, <2>1, <3>2, Effects
      <3>4. CASE n = m
        <4>1. change'[a].phase # "record"
          BY <1>1, <2>1, <3>2, Effects
        <4>2. ListRoles(a) => account'[m].state = "live"
          BY <3>2 DEF ListRoles
        <4>3. account'[m].state = "gone" => change'[a].phase = "settled"
          <5>1. ASSUME Put(a) \/ Grant(a) \/ Remove(a)
                PROVE  account'[m].state = "live"
            <6>1. \/ account'[m] = [state |-> "live", enabled |-> change[a].enabled,
                                    cinema |-> change[a].cinema, roles |-> account[m].roles]
                  \/ account'[m] = [state |-> "live", enabled |-> account[m].enabled,
                                    cinema |-> account[m].cinema,
                                    roles |-> account[m].roles \cup {change[a].role}]
                  \/ account'[m] = [state |-> "live", enabled |-> account[m].enabled,
                                    cinema |-> account[m].cinema,
                                    roles |-> account[m].roles \ change[a].doomed]
              BY <1>1, <3>2, <5>1, Effects
            <6>2. QED
              BY <6>1
          <5>2. Delete(a) => change'[a].phase = "settled"
            BY <1>1, <3>2, Effects
          <5>3. QED
            BY <2>1, <4>2, <5>1, <5>2
        <4>4. QED
          BY <3>3, <3>4, <4>1, <4>3 DEF Common
      <3>5. CASE n # m
        <4>1. n \in Manager
          BY <1>1, <1>2, <3>3 DEF Common, Stale, TypeOK, StaffDoc
        <4>2. QED
          BY <1>1, <1>2, <3>2, <3>3, <3>5, <4>1, OthersPending DEF Common
      <3>6. QED
        BY <3>4, <3>5
    <2>2. ASSUME NEW m \in Manager, NEW role \in Role \cup {"NONE"},
                 NEW k \in Cinema \cup {NoCinema}, NEW enabled \in BOOLEAN,
                 BeginChange(a, m, role, k, enabled)
          PROVE  \E b \in Admin :
                   /\ change'[b] # None /\ change'[b].account = staff'[s].manager
                   /\ change'[b].phase # "record"
                   /\ account'[staff'[s].manager].state = "gone" => change'[b].phase = "settled"
      <3>1. /\ change[a] = None /\ UNCHANGED <<staff, account, raced>>
            /\ \A b \in Admin : b # a => change'[b] = change[b]
        BY <1>1, <2>2 DEF BeginChange, TypeOK
      <3>2. QED
        BY <1>1, <1>2, <3>1, OthersPending
    <2>3. CASE Detach(a)
      <3>1. /\ change[a] # None /\ change[a].phase = "settled"
            /\ UNCHANGED <<account, raced>>
            /\ \A b \in Admin : b # a => change'[b] = change[b]
        BY <1>1, <2>3 DEF Detach, At, Goto, TypeOK
      <3>2. PICK m \in Manager : m = change[a].account
        BY <1>1, <3>1, ChangeTyping
      <3>3. staff' = [t \in Staff |->
               IF staff[t].manager = m /\ staff[t].cinema \notin Keeps(a)
               THEN [cinema |-> staff[t].cinema, manager |-> NoManager] ELSE staff[t]]
        BY <2>3, <3>2 DEF Detach
      <3>4. staff'[s] = staff[s] /\ ~(n = m /\ staff[s].cinema \notin Keeps(a))
        BY <1>2, <3>3 DEF Stale
      <3>5. n # m
        <4>1. ~Eligible(n, staff[s].cinema) /\ staff[s].cinema \in Cinema
          BY <1>1, <1>2, <3>1, <3>4 DEF Stale, Eligible, TypeOK, StaffDoc
        <4>2. QED
          BY <3>1, <3>2, <3>4, <4>1, SettledLinks
      <3>6. QED
        BY <1>1, <1>2, <3>1, <3>2, <3>4, <3>5, OthersPending
    <2>4. CASE Record(a)
      <3>1. /\ change[a].phase = "record" /\ UNCHANGED <<staff, account, raced>>
            /\ \A b \in Admin : b # a => change'[b] = change[b]
        BY <1>1, <2>4 DEF Record, At, TypeOK
      <3>2. QED
        BY <1>1, <1>2, <3>1, OthersPending
    <2>5. CASE Fail(a)
      <3>1. /\ NotFound(a) /\ UNCHANGED <<staff, account, raced>>
            /\ \A b \in Admin : b # a => change'[b] = change[b]
        BY <1>1, <2>5 DEF Fail, TypeOK
      <3>2. /\ change[a].phase # "settled"
            /\ account[change[a].account].state = "gone"
        BY <3>1 DEF NotFound
      <3>3. QED
        BY <1>1, <1>2, <3>1, <3>2, OthersPending
    <2>6. QED
      BY <2>1, <2>2, <2>3, <2>4, <2>5 DEF AdminStep
  <1>3. QED
    BY <1>2 DEF PendingInv

(* The promise of docs/manager-feedback-notifications.md:3 in full, but for  *)
(* the race that breaks it: when no request fails and administrators change  *)
(* different accounts, the links left stale at rest are those that a save    *)
(* wrote which an account change had overtaken.                              *)
THEOREM OvertakingAlone == ~Faulty /\ ApartSpec => []OnlyOvertakenStale
  <1>1. Init => PendingInv
    BY DEF Init, PendingInv, Stale
  <1>2. ASSUME ~Faulty, IInv, PendingInv, [Next /\ Apart']_vars
        PROVE  PendingInv'
    <2>1. CASE UNCHANGED vars
      BY <1>2, <2>1 DEF vars, PendingInv, Stale, Eligible
    <2>2. QED
      BY <1>2, <2>1, EditorPending, AdminPending DEF Next
  <1>3. PendingInv => OnlyOvertakenStale
    BY DEF PendingInv, OnlyOvertakenStale, Quiet
  <1>4. ASSUME ~Faulty
        PROVE  ApartSpec => []OnlyOvertakenStale
    <2>1. IInv /\ PendingInv /\ [Next /\ Apart']_vars => PendingInv'
      BY <1>2, <1>4
    <2>2. QED
      BY <1>1, <1>3, <2>1, Invariance, PTL DEF ApartSpec
  <1>5. QED
    BY <1>4
===============================================================================
