----------------------------- MODULE PairedBase -----------------------------
(* What the host update controllers v1 (post-v20), v2 ... v8 share: the     *)
(* installed host, its LaunchAgent, each version's private evidence         *)
(* directory and the running controller.                                    *)
(*                                                                          *)
(* Data abstraction: a host build is its version number, 0 for the migrated *)
(* v20 host; an evidence directory is a record; a journal is its last       *)
(* complete record and the record, if any, of which only a prefix follows.  *)
(* The command vocabulary of the plans is documented in PairedUpdates.      *)
EXTENDS Integers, Sequences, FiniteSets

CONSTANTS
    Versions,     \* versions whose controllers are run; lower ones committed
    MaxCrashes,   \* controller deaths and reboots explored
    MaxFaults,    \* failing commands, timeouts, failing appends, host crashes
    AppendFaults, \* ways an append may fail: "restored", "lost", "torn", "kept"
    Requests      \* rollbacks asked for: "interrupted", "latest", "any"

ASSUME PairedAssumption ==
    /\ Versions \subseteq 1..8 /\ Versions # {}
    /\ MaxCrashes \in Nat /\ MaxFaults \in Nat
    /\ AppendFaults \subseteq {"restored", "lost", "torn", "kept"}
    /\ Requests \in {"interrupted", "latest", "any"}

VARIABLES
    app,      \* version of the canonical app, Nothing when the path is free
    job,      \* the LaunchAgent is loaded
    proc,     \* version of the running host, Nothing when there is none
    seen,     \* the running host is the generation the controller observed
    marked,   \* the running host has logged its availability markers
    child,    \* the staged host v1 runs for pairing
    pairing,  \* the isolated pairing items exist
    repo,     \* whether the repository is still at the authorised commit
    ev,       \* evidence directory of the latest attempt of each version
    ctl,      \* the running controller
    crashes, faults

vars == <<app, job, proc, seen, marked, child, pairing, repo, ev, ctl, crashes, faults>>

Nothing == -1
All == 1..8

UpdateState == <<
    "BEGUN", "SOURCE_EXPORTED", "BUILD_VERIFIED", "STOP_INITIATED",
    "INSTALL_HOLD_VERIFIED", "V20_STOPPED", "INTERACTIVE_READY",
    "PAIRING_COMMITTED", "INTERACTIVE_STOPPED", "V20_HELD", "CURRENT_STOPPED",
    "CURRENT_HELD", "NEW_PUBLISHED", "PERSISTENT_BOOTSTRAPPED",
    "READY_VERIFIED", "COMMITTED", "ROLLBACK_STARTED", "FAILED_NEW_ARCHIVED",
    "V20_RESTORED", "V20_BOOTSTRAPPED", "CURRENT_RESTORED",
    "CURRENT_BOOTSTRAPPED", "ROLLED_BACK", "CRITICAL_FAILURE">>

States == {UpdateState[i] : i \in DOMAIN UpdateState}

\* The order the state enumerations derive.
Rank(s) == CHOOSE i \in DOMAIN UpdateState : UpdateState[i] = s

FromStopToCommit == {s \in States : Rank(s) \in Rank("STOP_INITIATED")..Rank("COMMITTED")}
Rolling == {s \in States : Rank(s) \in Rank("ROLLBACK_STARTED")..(Rank("ROLLED_BACK") - 1)}

\* Consecutive pairs of a sequence of states.
Steps(seq) == {<<seq[i], seq[i + 1]>> : i \in 1..(Len(seq) - 1)}

----------------------------------------------------------------------------
(* Evidence directories                                                     *)

NoEvidence == [state |-> "BEGUN", tail |-> "clean", ptr |-> "none", root |-> FALSE,
               stage |-> "none", hold |-> "absent", kept |-> Nothing,
               failed |-> Nothing, quarantine |-> FALSE, reserve |-> "none",
               result |-> "none"]

FreshEvidence == [NoEvidence EXCEPT !.root = TRUE]

CommittedEvidence(u) ==
    [FreshEvidence EXCEPT !.state = "COMMITTED", !.ptr = "active",
        !.stage = "reference", !.kept = u - 1, !.reserve = "released",
        !.result = "success"]

\* Pointer, journal, result and reference bundle are the pinned ones.
Pinned(u) == /\ ev[u].ptr = "active" /\ ev[u].state = "COMMITTED"
             /\ ev[u].tail = "clean" /\ ev[u].result = "success"
             /\ ev[u].stage = "reference"

\* The previous host is still in the rollback directory.
Retained(u) == ev[u].kept = u - 1

\* Sole attempt, no install hold, released reserve, nothing in failed-new.
Settled(u) == /\ ev[u].root /\ ev[u].hold = "absent" /\ ev[u].reserve = "released"
              /\ ev[u].failed = Nothing /\ ~ev[u].quarantine

verify_update_pointer_at(u) == ev[u].ptr = "active"

\* write_result replaces the record atomically; the controllers differ only in
\* what they ignore when it fails.
write_result(e, u, r) == [e EXCEPT ![u].result = r]

ensure_rolled_back_result(e, u) ==
    IF e[u].result = "rolledBack" THEN e ELSE write_result(e, u, "rolledBack")

retire_update_pointer_at(e, u) == [e EXCEPT ![u].ptr = "retired"]

allocate_rollback_reserve(e, u) == [e EXCEPT ![u].reserve = "full"]

release_rollback_reserve(e, u) ==
    [e EXCEPT ![u].reserve = IF @ = "none" THEN "none" ELSE "released"]

----------------------------------------------------------------------------
(* What can be proved of the running system                                 *)

capture_server_processes ==
    {p \in {"canonical"} : proc # Nothing} \cup {p \in {"staged"} : child # "none"}

require_no_capture_servers == capture_server_processes = {}

require_solo_capture_server == capture_server_processes = {"canonical"}

require_service_absent == ~job

\* One loaded job, one process of it, and that process holds the host lock.
read_loaded_launch_state == job /\ require_solo_capture_server

\* The lock can be taken only when no host holds it.
acquire_unowned_shared_lock == require_no_capture_servers

\* The deployment verifier: the observed generation of that build runs and has
\* logged its marker after the checkpoint.
verify_deployment(u) == proc = u /\ job /\ seen /\ marked

Canonical(u) == app = u

Idle == [v |-> 0, run |-> "none", why |-> "none", at |-> 0, locked |-> FALSE,
         state |-> "BEGUN", healthy |-> TRUE]
=============================================================================
