------------------------------ MODULE MCRaces ------------------------------
(* Small instances of the P41 runtime with its read-commit windows open. *)
EXTENDS MCAutomation, AutomationRaces
=============================================================================
