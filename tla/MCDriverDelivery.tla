-------------------------- MODULE MCDriverDelivery --------------------------
(* The delivery of the diagnostic driver for TLC.                            *)
EXTENDS DriverDelivery
=============================================================================
