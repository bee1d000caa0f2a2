-------------------------------- MODULE MCBrain --------------------------------
(***************************************************************************)
(* Brain for TLC.  The clock of v1's PoP leads by an amount the brain       *)
(* tolerates (FutureMax = 1), that of v2's by one it corrects.              *)
(***************************************************************************)
EXTENDS Brain

CONSTANTS v1, v2

MCLead == (v1 :> 1) @@ (v2 :> 3)

=============================================================================
