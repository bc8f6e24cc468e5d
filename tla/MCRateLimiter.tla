--------------------------- MODULE MCRateLimiter ----------------------------
(* RateLimiter for TLC: one rate for every tenant, processes and goroutines *)
(* of one kind interchangeable.                                            *)
EXTENDS RateLimiter, TLC

MCRate == [t \in Tenants |-> 2]

Symmetry == Permutations(Workers) \cup Permutations(Requests)
              \cup Permutations(Renewers) \cup Permutations(Handlers)
=============================================================================
