---------------------------- MODULE MCManagerLinks ----------------------------
(* Small instances of ManagerLinks: MCLinksExplained.cfg with failures and   *)
(* crashes anywhere, MCLinksOvertaken.cfg without any.                       *)
EXTENDS ManagerLinks, TLC

Symmetry ==
  Permutations(Staff) \cup Permutations(Cinema) \cup Permutations(Editor)
===============================================================================
