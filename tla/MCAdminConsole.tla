---------------------------- MODULE MCAdminConsole ----------------------------
(* A small instance of AdminConsole: two runs at once; an inbox of one old   *)
(* and one new notification, one to a page; two cinemas with a manager each; *)
(* two members with codes; two files that share a staff code and a third one *)
(* that is too big, and two imports.                                         *)
EXTENDS AdminConsole

CONSTANTS east, west, me, mw, f1, f2, big, x, y

OneManagerEach == [c \in Cinema |-> IF c = east THEN {me} ELSE {mw}]

SharedCode == [f \in File |-> CASE f = f1 -> {x, y} [] f = f2 -> {y} [] OTHER -> {x}]
===============================================================================
