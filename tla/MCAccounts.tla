------------------------------ MODULE MCAccounts ------------------------------
(***************************************************************************)
(* Accounts with two processes, a notification and a token, and a blob of  *)
(* two skills and a goal.                                                  *)
(***************************************************************************)
EXTENDS Accounts

MCPaths   == {"skills.badminton", "skills.squash", "goals"}
MCGroupOf == [p \in MCPaths |-> IF p = "goals" THEN "goals" ELSE "skills"]
=============================================================================
