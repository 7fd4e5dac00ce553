-------------------------- MODULE MCPairedUpdates --------------------------
(* Instances of PairedUpdates for TLC.                                      *)
EXTENDS PairedUpdates
=============================================================================
