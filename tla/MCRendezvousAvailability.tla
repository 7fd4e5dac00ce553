----------------------- MODULE MCRendezvousAvailability -----------------------
(* Instances of RendezvousAvailability for TLC. *)
EXTENDS RendezvousAvailability, TLC

SocketSymmetry == Permutations(Sockets)
=============================================================================
