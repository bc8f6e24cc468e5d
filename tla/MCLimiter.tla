----------------------------- MODULE MCLimiter ------------------------------
(* LimiterAccounting for TLC: goroutines of one kind are interchangeable. *)
EXTENDS LimiterAccounting, TLC

Symmetry == Permutations(Requests) \cup Permutations(Renewers)
=============================================================================
