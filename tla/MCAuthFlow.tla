----------------------------- MODULE MCAuthFlow -----------------------------
(* An instance of AuthFlow for TLC: every caller, the status page, uses the  *)
(* manager of the server's own process.                                      *)
EXTENDS AuthFlow

CONSTANT Server

ServersOwn == [c \in Callers |-> Server]

=============================================================================
