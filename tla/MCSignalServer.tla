--------------------------- MODULE MCSignalServer ---------------------------
(***************************************************************************)
(* SignalServer for TLC.  Nothing tells the clients apart.                  *)
(***************************************************************************)
EXTENDS SignalServer, TLC

ClientSymmetry == Permutations(Clients)

=============================================================================
