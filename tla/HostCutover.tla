---------------------------- MODULE HostCutover ----------------------------
(* What the host migration promises: one decision between two hosts.  While *)
(* the decision is open the legacy label and the new LaunchAgent move, but  *)
(* the new agent is in place only while the legacy label is disabled; once  *)
(* the decision is taken neither ever changes again.                        *)
VARIABLES
    outcome,        \* "open", "committed", "rolledBack" or "critical"
    legacyEnabled,  \* the legacy label may be loaded at login
    newInstalled    \* the new LaunchAgent may be loaded at login

cutoverVars == <<outcome, legacyEnabled, newInstalled>>

Init == outcome = "open" /\ legacyEnabled = TRUE /\ newInstalled = FALSE

Disable == /\ outcome = "open" /\ newInstalled = FALSE
           /\ legacyEnabled' = FALSE /\ UNCHANGED <<outcome, newInstalled>>

Enable == /\ outcome = "open" /\ newInstalled = FALSE
          /\ legacyEnabled' = TRUE /\ UNCHANGED <<outcome, newInstalled>>

Install == /\ outcome = "open" /\ legacyEnabled = FALSE
           /\ newInstalled' = TRUE /\ UNCHANGED <<outcome, legacyEnabled>>

Remove == /\ outcome = "open"
          /\ newInstalled' = FALSE /\ UNCHANGED <<outcome, legacyEnabled>>

Commit == /\ outcome = "open" /\ newInstalled = TRUE
          /\ outcome' = "committed" /\ UNCHANGED <<legacyEnabled, newInstalled>>

RollBack == /\ outcome = "open" /\ legacyEnabled = TRUE
            /\ outcome' = "rolledBack" /\ UNCHANGED <<legacyEnabled, newInstalled>>

\* A rollback that failed and says so; a last effect may have acted with it.
GiveUp == /\ outcome = "open" /\ outcome' = "critical"
          /\ legacyEnabled' \in BOOLEAN /\ newInstalled' \in BOOLEAN
          /\ ~(legacyEnabled' /\ newInstalled')

Next == Disable \/ Enable \/ Install \/ Remove \/ Commit \/ RollBack \/ GiveUp

Spec == Init /\ [][Next]_cutoverVars
=============================================================================
