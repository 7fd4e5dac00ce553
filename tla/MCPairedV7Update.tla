-------------------------- MODULE MCPairedV7Update --------------------------
(* Instances of PairedV7Update for TLC.                                      *)
EXTENDS PairedV7Update
=============================================================================
