--------------------------- MODULE MCCoordinator ----------------------------
(* Scrape, and with it Coordinator, for TLC: rates as a definition, handlers *)
(* interchangeable. *)
EXTENDS Scrape, TLC

\* One tenant of three fractions a tick: a burst of three whole tokens.
MCRate == [t \in Tenants |-> 3]

\* A tenant slower than one token per second, which Load accepts.
MCSlowRate == [t \in Tenants |-> 1]

Symmetry == Permutations(Handlers)
=============================================================================
