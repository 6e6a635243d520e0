----------------------------- MODULE LeasePool -----------------------------
(***************************************************************************)
(* What a bounded resource pool promises its clients, with no deque, no    *)
(* health checks and no condition variable: at most Limit leases at a      *)
(* time, none granted once the pool is shut.                               *)
(***************************************************************************)
EXTENDS Naturals, FiniteSets

CONSTANTS Clients, Limit

VARIABLES leased, open

leaseVars == <<leased, open>>

Init == leased = {} /\ open = TRUE

Grant(c) ==
    /\ open
    /\ c \in Clients \ leased
    /\ Cardinality(leased) < Limit
    /\ leased' = leased \cup {c}
    /\ UNCHANGED open

Return(c) ==
    /\ c \in leased
    /\ leased' = leased \ {c}
    /\ UNCHANGED open

Shut == open /\ open' = FALSE /\ UNCHANGED leased

Next == (\E c \in Clients : Grant(c) \/ Return(c)) \/ Shut

Spec == Init /\ [][Next]_leaseVars

=============================================================================
