------------------------------ MODULE MCReport ------------------------------
(* Report for TLC: the tenants of the deployed configuration. *)
EXTENDS Report

CONSTANTS a, b, c

MCLimit == (a :> 100) @@ (b :> 50) @@ (c :> 20)
=============================================================================
