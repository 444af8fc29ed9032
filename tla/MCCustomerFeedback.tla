-------------------------- MODULE MCCustomerFeedback --------------------------
(* Small instances of CustomerFeedback.  MCCustomerScanner.cfg: two ids, two *)
(* scans at once and one submission.  MCCustomerResend.cfg: no scanner, two  *)
(* submissions, and configurations of which the second has a new consent     *)
(* version and withdraws a rating and the reason required for it.            *)
EXTENDS CustomerFeedback

CONSTANTS low, high, why, v1, v2

OneTerms ==
  {[version |-> v1, enabled |-> {high}, ratings |-> [q \in {} |-> {}], required |-> {}]}

TwoTerms ==
  { [version |-> v1, enabled |-> {low, high},
     ratings |-> [q \in {why} |-> {low}], required |-> {why}],
    [version |-> v2, enabled |-> {high},
     ratings |-> [q \in {why} |-> {}], required |-> {why}] }
===============================================================================
