--------------------------- MODULE MCCoachingCases ----------------------------
(* Small instances of CoachingCases.  MCCoachingOverlap.cfg lets two saves   *)
(* and a move overlap; MCCoachingReopen.cfg asks whether a closed case can   *)
(* be reopened.                                                              *)
EXTENDS CoachingCases, TLC

Symmetry == Permutations(Editor) \cup Permutations(Cinema) \cup Permutations(Staff)
===============================================================================
