--------------------------- MODULE OneUseInvitation ---------------------------
(***************************************************************************)
(* What an invitation channel promises: invitations are issued one after   *)
(* another, each is used at most once, by one exchange, and only while it  *)
(* is open; a used one is never opened again.  It is the abstract          *)
(* specification RendezvousInvitation is shown to implement.               *)
(***************************************************************************)
EXTENDS Naturals

VARIABLES phase,   \* of the latest invitation: "absent", "open" or "used"
          issued,  \* how many were issued
          usedBy   \* the exchange that used the latest one, 0 if none

vars == <<phase, issued, usedBy>>

Init == phase = "absent" /\ issued = 0 /\ usedBy = 0

\* Issuing replaces an open invitation that has expired, never a used one.
Issue ==
  /\ phase # "used"
  /\ phase' = "open" /\ issued' = issued + 1 /\ usedBy' = 0

Use ==
  /\ phase = "open" /\ usedBy = 0
  /\ phase' = "used" /\ usedBy' \in Nat \ {0}
  /\ UNCHANGED issued

Expire ==
  /\ phase = "open" /\ phase' = "absent"
  /\ UNCHANGED <<issued, usedBy>>

\* The tombstone of a used invitation is dropped.
Retire ==
  /\ phase = "used" /\ phase' = "absent"
  /\ UNCHANGED <<issued, usedBy>>

Next == Issue \/ Use \/ Expire \/ Retire

Spec == Init /\ [][Next]_vars
=============================================================================
