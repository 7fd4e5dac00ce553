------------------------ MODULE MCRendezvousInvitation ------------------------
(* Instances of RendezvousInvitation for TLC. *)
EXTENDS RendezvousInvitation, TLC

SocketSymmetry == Permutations(Sockets)
=============================================================================
