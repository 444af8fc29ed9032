--------------------------- MODULE MCFeedbackIntake ---------------------------
(* Small instances of FeedbackIntake: MCIntakeRepeats.cfg lets submissions   *)
(* overlap each other, MCIntakeRevocation.cfg lets them overlap QR           *)
(* administration and the saves.                                             *)
EXTENDS FeedbackIntake, TLC

Symmetry ==
  Permutations(Customer) \cup Permutations(Admin) \cup
    Permutations(Phone) \cup Permutations(Staff)
===============================================================================
