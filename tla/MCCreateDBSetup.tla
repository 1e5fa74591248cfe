---------------------------- MODULE MCCreateDBSetup ----------------------------
(* The create_db hooks with their proof module, so that TLC evaluates   *)
(* the proof module's definitions and the refinement to AbstractCreateDB. *)
EXTENDS CreateDBSetupProofs
=============================================================================
