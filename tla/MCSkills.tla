------------------------------- MODULE MCSkills -------------------------------
(* An instance of Skills for TLC: one operation at a time.                 *)
EXTENDS Skills

OpsVia(h) == IF h = "agent" THEN {"save", "delete", "copy"} ELSE {"delete", "grant", "revoke"}
=============================================================================
