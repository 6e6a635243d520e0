--------------------------- MODULE MCTokenManager ---------------------------
(* An instance of TokenManager for TLC.  In one deployment a thread of a     *)
(* service forces refreshes while another waits; in the other the            *)
(* auth_refresh job, with a manager of its own, runs beside the first.       *)
EXTENDS TokenManager

CONSTANTS m1, job, c1, c2, c3

OneHome == [c \in Callers |-> IF c = c3 THEN job ELSE m1]
TwoDeployments == {{c1, c2}, {c2, c3}}

=============================================================================
