---------------------------- MODULE FeedbackLedger ----------------------------
(***************************************************************************)
(* What the public feedback endpoint promises, with no transactions and no *)
(* concurrency: feedback enters one ledger, one entry at a time.  An entry *)
(* is accepted only while its QR token is the live token of its staff      *)
(* member, and it is flagged exactly when the ledger already holds a       *)
(* recent entry with the same staff and phone, or with the same cinema and *)
(* transaction id.  FeedbackIntake is shown to implement this module.      *)
(***************************************************************************)
EXTENDS Naturals, Sequences, TLAPS

CONSTANTS
  Staff,      \* staff members, each with at most one QR document
  Cinema,     \* cinemas
  Phone,      \* normalised phone numbers
  Ticket,     \* normalised transaction ids
  NoTicket,   \* the empty transaction id of a submission without one
  Window      \* the repeat window (ten minutes in the code)

VARIABLES
  ledger,     \* accepted feedback, in the order it was committed
  issued,     \* issued[s]: how many tokens staff s has had
  live,       \* live[s]: the token that is accepted for s, 0 if none is
  clock

vars == <<ledger, issued, live, clock>>

\* Mutant: only a transaction id that comes again counts as a repeat.
SameTicketOnly(f, g) ==
  f.ticket # NoTicket /\ g.cinema = f.cinema /\ g.ticket = f.ticket

(* A new entry f repeats an older one g. *)
Repeats(f, g) ==
  \/ g.staff = f.staff /\ g.phone = f.phone
  \/ f.ticket # NoTicket /\ g.cinema = f.cinema /\ g.ticket = f.ticket

(* g is inside the window that closes at time t. *)
Recent(g, t) == g.at + Window >= t

(* Among the first n entries of the ledger, some recent one is repeated by f. *)
RepeatsOneOf(f, entries, n) ==
  \E i \in 1..n : Recent(entries[i], f.at) /\ Repeats(f, entries[i])

Init ==
  /\ ledger = <<>>
  /\ issued \in [Staff -> {0, 1}]
  /\ live = issued
  /\ clock = 0

(* The entry that the live token of s gives at time t. *)
EntryOf(s, k, p, tk, t) ==
  LET f == [staff |-> s, cinema |-> k, phone |-> p, ticket |-> tk,
            token |-> live[s], at |-> t, suspicious |-> FALSE]
  IN  [f EXCEPT !.suspicious = RepeatsOneOf(f, ledger, Len(ledger))]

Accept(s, k, p, tk, t) ==
  /\ live[s] # 0
  /\ \A i \in DOMAIN ledger : ledger[i].staff = s => ledger[i].at <= t
  /\ ledger' = Append(ledger, EntryOf(s, k, p, tk, t))
  /\ UNCHANGED <<issued, live, clock>>

(* New tokens for the staff in S: the tokens they had are never live again. *)
Issue(S) ==
  /\ issued' = [s \in Staff |-> IF s \in S THEN issued[s] + 1 ELSE issued[s]]
  /\ live' = [s \in Staff |-> IF s \in S THEN issued[s] + 1 ELSE live[s]]
  /\ UNCHANGED <<ledger, clock>>

Revoke(S) ==
  /\ live' = [s \in Staff |-> IF s \in S THEN 0 ELSE live[s]]
  /\ UNCHANGED <<ledger, issued, clock>>

Tick ==
  /\ clock' = clock + 1
  /\ UNCHANGED <<ledger, issued, live>>

Next ==
  \/ \E s \in Staff, k \in Cinema, p \in Phone, tk \in Ticket \cup {NoTicket},
        t \in 0..clock : Accept(s, k, p, tk, t)
  \/ \E S \in SUBSET Staff : Issue(S) \/ Revoke(S)
  \/ Tick

Spec == Init /\ [][Next]_vars

-------------------------------------------------------------------------------
(* What the ledger is good for, whoever implements it.                       *)

(* Entries that are not flagged, the only ones lists and ratings show unless *)
(* asked for more, repeat nothing recent: a customer counts once in a window *)
(* for a staff member, and so does a transaction id in a cinema.             *)
CountedOnce ==
  \A i, j \in DOMAIN ledger :
    i < j /\ ~ledger[j].suspicious /\ Repeats(ledger[j], ledger[i])
      => ~Recent(ledger[i], ledger[j].at)

(* Behind an entry made with a new code of a staff member, none is made with *)
(* an older code.                                                            *)
CodesInOrder ==
  \A i, j \in DOMAIN ledger :
    i < j /\ ledger[i].staff = ledger[j].staff => ledger[i].token <= ledger[j].token

Entry == [staff : Staff, cinema : Cinema, phone : Phone, ticket : Ticket \cup {NoTicket},
          token : Nat, at : Nat, suspicious : BOOLEAN]

(* The live token is the newest one issued, so no entry has a newer one. *)
LedgerInv ==
  /\ ledger \in Seq(Entry) /\ clock \in Nat
  /\ issued \in [Staff -> Nat] /\ live \in [Staff -> Nat]
  /\ \A s \in Staff : live[s] \in {0, issued[s]}
  /\ \A i \in DOMAIN ledger : ledger[i].token <= issued[ledger[i].staff]
  /\ CountedOnce /\ CodesInOrder

LEMMA AcceptKeeps ==
  ASSUME LedgerInv, NEW s \in Staff, NEW k \in Cinema, NEW p \in Phone,
         NEW tk \in Ticket \cup {NoTicket}, NEW t \in 0..clock, Accept(s, k, p, tk, t)
  PROVE  LedgerInv'
  <1>. DEFINE e == EntryOf(s, k, p, tk, t)
              n == Len(ledger)
  <1>1. ledger \in Seq(Entry) /\ n \in Nat /\ DOMAIN ledger = 1..n /\ t \in Nat
    BY DEF LedgerInv
  <1>2. /\ e.staff = s /\ e.cinema = k /\ e.phone = p /\ e.ticket = tk
        /\ e.token = live[s] /\ e.at = t
        /\ e.suspicious = RepeatsOneOf(e, ledger, n)
    <2>. DEFINE f == [staff |-> s, cinema |-> k, phone |-> p, ticket |-> tk,
                      token |-> live[s], at |-> t, suspicious |-> FALSE]
    <2>1. e = [f EXCEPT !.suspicious = RepeatsOneOf(f, ledger, n)]
      BY DEF EntryOf
    <2>2. RepeatsOneOf(e, ledger, n) = RepeatsOneOf(f, ledger, n)
      BY <2>1 DEF RepeatsOneOf, Repeats, Recent
    <2>3. QED
      BY <2>1, <2>2
  <1>3. e \in Entry
    BY <1>1 DEF EntryOf, Entry, RepeatsOneOf, LedgerInv
  <1>4. ledger' = Append(ledger, e) /\ UNCHANGED <<issued, live, clock>>
    BY DEF Accept
  <1>. HIDE DEF e
  <1>5. /\ ledger' \in Seq(Entry) /\ DOMAIN ledger' = 1..(n + 1)
        /\ ledger'[n + 1] = e /\ \A i \in 1..n : ledger'[i] = ledger[i]
    BY <1>1, <1>3, <1>4
  <1>6. live[s] \in Nat /\ live[s] = issued[s]
    BY DEF LedgerInv, Accept
  <1>7. \A i \in DOMAIN ledger' : ledger'[i].token <= issued'[ledger'[i].staff]
    BY <1>1, <1>2, <1>4, <1>5, <1>6 DEF LedgerInv
  <1>8. CountedOnce'
    <2>1. ASSUME NEW i \in 1..n, ~e.suspicious, Repeats(e, ledger[i])
          PROVE  ~Recent(ledger[i], t)
      BY <1>2, <2>1 DEF RepeatsOneOf
    <2>2. ASSUME NEW i \in DOMAIN ledger', NEW j \in DOMAIN ledger', i < j,
                 ~ledger'[j].suspicious, Repeats(ledger'[j], ledger'[i])
          PROVE  ~Recent(ledger'[i], ledger'[j].at)
      <3>1. CASE j = n + 1
        BY <1>1, <1>2, <1>5, <2>1, <2>2, <3>1
      <3>2. CASE j # n + 1
        BY <1>1, <1>5, <2>2, <3>2 DEF LedgerInv, CountedOnce
      <3>3. QED
        BY <3>1, <3>2
    <2>3. QED
      BY <2>2 DEF CountedOnce, Recent, Repeats
  <1>9. CodesInOrder'
    <2>1. ASSUME NEW i \in DOMAIN ledger', NEW j \in DOMAIN ledger', i < j,
                 ledger'[i].staff = ledger'[j].staff
          PROVE  ledger'[i].token <= ledger'[j].token
      <3>1. i \in 1..n /\ ledger'[i] = ledger[i]
        BY <1>1, <1>5, <2>1
      <3>2. CASE j = n + 1
        BY <1>1, <1>2, <1>5, <1>6, <2>1, <3>1, <3>2 DEF LedgerInv
      <3>3. CASE j # n + 1
        BY <1>1, <1>5, <2>1, <3>1, <3>3 DEF LedgerInv, CodesInOrder
      <3>4. QED
        BY <3>2, <3>3
    <2>2. QED
      BY <2>1 DEF CodesInOrder
  <1>10. QED
    BY <1>4, <1>5, <1>7, <1>8, <1>9 DEF LedgerInv

(* Whatever implements the ledger counts no repeat and takes no old code. *)
THEOREM LedgerCounts == Spec => [](CountedOnce /\ CodesInOrder)
  <1>1. Init => LedgerInv
    BY DEF Init, LedgerInv, CountedOnce, CodesInOrder
  <1>2. ASSUME LedgerInv, [Next]_vars PROVE LedgerInv'
    <2>1. ASSUME UNCHANGED ledger, clock' \in Nat,
                 issued' \in [Staff -> Nat], live' \in [Staff -> Nat],
                 \A s \in Staff : live'[s] \in {0, issued'[s]} /\ issued[s] <= issued'[s]
          PROVE  LedgerInv'
      <3>1. \A i \in DOMAIN ledger : ledger[i].token \in Nat /\ ledger[i].staff \in Staff
        <4>1. \A i \in DOMAIN ledger : ledger[i] \in Entry
          BY <1>2 DEF LedgerInv
        <4>2. QED
          BY <4>1 DEF Entry
      <3>2. \A i \in DOMAIN ledger' : ledger'[i].token <= issued'[ledger'[i].staff]
        BY <1>2, <2>1, <3>1 DEF LedgerInv
      <3>3. CountedOnce' /\ CodesInOrder'
        BY <1>2, <2>1 DEF LedgerInv, CountedOnce, CodesInOrder, Recent, Repeats
      <3>4. QED
        BY <1>2, <2>1, <3>2, <3>3 DEF LedgerInv
    <2>2. /\ issued \in [Staff -> Nat] /\ live \in [Staff -> Nat] /\ clock \in Nat
          /\ \A s \in Staff : live[s] \in {0, issued[s]}
      BY <1>2 DEF LedgerInv
    <2>3. ASSUME NEW S \in SUBSET Staff, Issue(S) PROVE LedgerInv'
      BY <2>1, <2>2, <2>3 DEF Issue
    <2>4. ASSUME NEW S \in SUBSET Staff, Revoke(S) PROVE LedgerInv'
      BY <2>1, <2>2, <2>4 DEF Revoke
    <2>5. CASE Tick \/ UNCHANGED vars
      BY <2>1, <2>2, <2>5 DEF Tick, vars
    <2>6. QED
      BY <1>2, <2>3, <2>4, <2>5, AcceptKeeps DEF Next
  <1>3. LedgerInv => CountedOnce /\ CodesInOrder
    BY DEF LedgerInv
  <1>4. QED
    BY <1>1, <1>2, <1>3, PTL DEF Spec
===============================================================================
