----------------------------- MODULE MCStartup -----------------------------
(* An instance of Startup for TLC: two of three accounts have one name.    *)
EXTENDS Startup

CONSTANTS n1, n2, n3

Names == [n \in Numbers |-> IF n = n3 THEN "other" ELSE "620"]
Balances == [n \in Numbers |-> CASE n = n1 -> 1 [] n = n2 -> 2 [] n = n3 -> 3]

=============================================================================
