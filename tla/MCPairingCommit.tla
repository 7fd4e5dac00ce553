--------------------------- MODULE MCPairingCommit ---------------------------
(* The instances of PairingCommit that TLC checks. *)
EXTENDS PairingCommit
=============================================================================
