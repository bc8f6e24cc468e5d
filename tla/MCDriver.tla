------------------------------ MODULE MCDriver ------------------------------
(* Driver for TLC: two loads that share a tenant, as the cost-1 and cost-5 *)
(* loads of the baseline scenario do.                                     *)
EXTENDS Driver

CONSTANTS l1, a

MCTenant == [l \in Loads |-> a]
MCOne    == [l \in Loads |-> 1]
MCCost   == [l \in Loads |-> IF l = l1 THEN 0 ELSE 2]
MCRPS    == [l \in Loads |-> IF l = l1 THEN 2 ELSE 1]
=============================================================================
