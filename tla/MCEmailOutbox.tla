---------------------------- MODULE MCEmailOutbox -----------------------------
(* A small instance of EmailOutbox: one job between two workers.             *)
EXTENDS EmailOutbox, TLC

Symmetry == Permutations(Worker)
===============================================================================
