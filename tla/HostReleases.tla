---------------------------- MODULE HostReleases ----------------------------
(* What the chain of host update controllers promises: the installed host   *)
(* release changes only by one version at a time, and only through an open  *)
(* transaction for the newer of the two versions.                           *)
EXTENDS Integers

CONSTANT Versions

VARIABLES installed, open

chain == <<installed, open>>

\* A transaction is opened for the next release, or to revert the newest one.
Opens(v) ==
    /\ open = 0 /\ open' = v
    /\ installed \in {v - 1, v} /\ installed' = v - 1

\* It ends with the new release committed, or with the previous one restored.
Closes(v) == open = v /\ open' = 0 /\ installed' \in {v - 1, v}

Init == installed \in 0..8 /\ open = 0

Next == \E v \in Versions : Opens(v) \/ Closes(v)

Spec == Init /\ [][Next]_chain
=============================================================================
