----------------------------- MODULE MCInstall ------------------------------
(* Small thresholds with a minimum that binds for one tier and not for the *)
(* other, and arguments on both sides of every bound.                      *)
EXTENDS Install

MCPoll == [t \in Tiers |-> IF t = "tier1" THEN 2 ELSE 0]
MCNumbers == {-2, -1, 0, 1, 2}
=============================================================================
