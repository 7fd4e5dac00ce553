----------------------------- MODULE DriverRoot -----------------------------
(* The privileged half of the v2 diagnostic-driver update                    *)
(* (macOS/scripts/opensteamer-diagnostic-driver-v2-update-controller.rs): a  *)
(* journaled transaction that stops the v8 host, replaces the v7 driver by   *)
(* the candidate, restarts Core Audio and the host, and commits or rolls     *)
(* back; and the sealed recovery that completes what an earlier process left. *)
(*                                                                           *)
(* Every function that takes several durable steps is a plan, a sequence of  *)
(* operations; the root process rp executes one operation at a time.  The    *)
(* journal and the state file are separate: a "mark" records the journal and *)
(* then writes the state file.                                               *)
EXTENDS DriverWorld

----------------------------------------------------------------------------
(* What the process can prove of the world                                   *)

verify_driver_bundle(path, which) == drv[path] = which
verify_installed_v7_driver == verify_driver_bundle("canonical", "v7")
path_is_exact_candidate(path) == verify_driver_bundle(path, "candidate")
path_is_exact_v7(path) == verify_driver_bundle(path, "v7")

verify_installed_v8_runtime_bytes == "host bytes" \in intact
verify_uid501_host_bundle_manifest == "host bytes" \in intact
require_legacy_disabled_and_absent == "legacy" \in intact
verify_pairing_metadata_only == "pairing" \in intact

capture_server_processes == {host.gen} \ {0}
require_service_absent == ~host.loaded
read_host_launch_state == host.loaded /\ host.gen # 0
prove_lock_held_by(g) == host.gen = g
prove_lock_free == host.gen = 0

verify_live_v8_host ==
    /\ verify_installed_v8_runtime_bytes /\ verify_uid501_host_bundle_manifest
    /\ require_legacy_disabled_and_absent
    /\ read_host_launch_state /\ prove_lock_held_by(host.gen)

wait_host_absent == require_service_absent /\ capture_server_processes = {} /\ prove_lock_free

stable_coreaudio_generation == audio.gen
stable_route_snapshot == routes

----------------------------------------------------------------------------
(* The journal: a snapshot is written beside it and renamed over it           *)

Cutover == <<"AUTHENTICATED", "HOST_STOP_INITIATED", "HOST_STOPPED", "PRIOR_DRIVER_RETAINED",
             "CANDIDATE_PUBLISHED", "COREAUDIO_RELOADED", "DRIVER_VALIDATED",
             "HOST_BOOTSTRAPPED", "READY_VERIFIED", "COMMITTED">>
Undo == <<"ROLLBACK_STARTED", "FAILED_DRIVER_ARCHIVED", "PRIOR_DRIVER_RESTORED",
          "ROLLBACK_COREAUDIO_RELOAD_INITIATED", "ROLLBACK_COREAUDIO_RELOADED",
          "HOST_REBOOTSTRAPPED", "ROLLED_BACK">>
Crossed == {Cutover[i] : i \in 2..9}     \* the stop may have begun, no commit
Undoing == {Undo[i] : i \in 1..6}
Terminal == {"COMMITTED", "ROLLED_BACK", "PRESTOP_ABORTED"}

Follows(chain, from, to) == \E i \in 1..Len(chain) - 1 : from = chain[i] /\ to = chain[i + 1]

valid_transition(from, to) ==
    \/ from = "BEGUN" /\ to \in {"AUTHENTICATED", "PRESTOP_ABORTED"}
    \/ from = "AUTHENTICATED" /\ to = "PRESTOP_ABORTED"
    \/ Follows(Cutover, from, to) \/ Follows(Undo, from, to)
    \/ from = "ROLLBACK_STARTED" /\ to = "PRIOR_DRIVER_RESTORED"
    \/ from \in Crossed \cup {"CRITICAL_FAILURE"} /\ to = "ROLLBACK_STARTED"
    \/ from \in Crossed \cup Undoing \cup {"AUTHENTICATED"} /\ to = "CRITICAL_FAILURE"

\* The journal with one more record.  The reload record carries the Core Audio
\* generation it is about; none, one or several of it are told apart.
Appended(j, s, g) ==
    [at |-> s, pend |-> "none",
     inits |-> IF s = "ROLLBACK_COREAUDIO_RELOAD_INITIATED" /\ j.inits < 2 THEN j.inits + 1 ELSE j.inits,
     old |-> IF s = "ROLLBACK_COREAUDIO_RELOAD_INITIATED" THEN g ELSE j.old]

\* A complete next record is adopted and an incomplete one dropped; a snapshot
\* cut off exactly behind an earlier record is a shorter history, and an error.
classify_pending_journal_snapshot(j) ==
    CASE j.pend \in UpdateState /\ valid_transition(j.at, j.pend) -> "promote"
      [] j.pend = "earlier" -> "diverges"
      [] OTHER -> "discard"

Diverged(j) == classify_pending_journal_snapshot(j) = "diverges"

reconcile(j) ==
    CASE classify_pending_journal_snapshot(j) = "promote" -> Appended(j, j.pend, j.old)
      [] Diverged(j) -> j
      [] OTHER -> [j EXCEPT !.pend = "none"]

effective_state_with_pending ==
    CASE classify_pending_journal_snapshot(jnl) = "promote" -> jnl.pend
      [] Diverged(jnl) -> "diverged"
      [] OTHER -> jnl.at

record_admissible(j, s) == ~Diverged(j) /\ valid_transition(reconcile(j).at, s)

record(j, s) == Appended(reconcile(j), s, audio.gen)

\* A failing record: nothing written, an incomplete or a complete snapshot
\* beside the journal, or the journal replaced and a later check failing.
record_failures(j, s) ==
    LET r == reconcile(j)
        o == IF s = "ROLLBACK_COREAUDIO_RELOAD_INITIATED" THEN audio.gen ELSE r.old
    IN  {r, [r EXCEPT !.pend = "torn"], [r EXCEPT !.pend = s, !.old = o], record(j, s)}
          \cup (IF r.at = "BEGUN" THEN {} ELSE {[r EXCEPT !.pend = "earlier"]})

\* A second record of the same state is refused.
exact_fields_for_state == jnl.inits = 1

----------------------------------------------------------------------------
(* The state file and the reserve                                            *)

\* A reserve that is neither whole nor empty cannot be described.
rollback_reserve_released == tx.reserve # "partial"

write_root_state(s) ==
    [at |-> s, init |-> rp.init, routes |-> rp.routes, reserve |-> tx.reserve # "absent"]

\* The publication is durable once the directory is synced.
StopIntentDurable(how) == how = "kept"

\* The pairs of journal and state file that a crash between their two updates
\* can leave.
journal_and_root_state_are_crash_coherent(j, s) ==
    \/ j = s /\ j \notin {"BEGUN", "PRIOR_DRIVER_RETAINED"}
    \/ j = "AUTHENTICATED" /\ s = "HOST_STOP_INITIATED"
    \/ j = "PRIOR_DRIVER_RETAINED" /\ s = "HOST_STOPPED"
    \/ j = "CANDIDATE_PUBLISHED" /\ s = "HOST_STOPPED"
    \/ /\ Follows(Cutover, s, j)
       /\ s \notin {"AUTHENTICATED", "PRIOR_DRIVER_RETAINED"} /\ j # "PRIOR_DRIVER_RETAINED"
    \/ Follows(Undo, s, j)
    \/ j = "ROLLBACK_STARTED"
       /\ s \in (Crossed \ {"PRIOR_DRIVER_RETAINED"}) \cup {"CRITICAL_FAILURE"}
    \/ j = "PRIOR_DRIVER_RESTORED" /\ s = "ROLLBACK_STARTED"
    \/ j = "ROLLBACK_COREAUDIO_RELOADED" /\ s = "PRIOR_DRIVER_RESTORED"
    \/ j = "CRITICAL_FAILURE" /\ s \in (Crossed \cup Undoing) \ {"PRIOR_DRIVER_RETAINED"}

rollback_resume_action(j) ==
    CASE j = "HOST_REBOOTSTRAPPED" -> "FinalizePreservingHost"
      [] j = "ROLLED_BACK" -> "AlreadyComplete"
      [] j \in {"BEGUN", "AUTHENTICATED", "PRESTOP_ABORTED", "COMMITTED"} -> "Refuse"
      [] OTHER -> "ContinueRecovery"

root_recovery_plan(j, s) ==
    CASE <<j, s>> \in {<<"BEGUN", "none">>, <<"AUTHENTICATED", "none">>,
                       <<"AUTHENTICATED", "AUTHENTICATED">>, <<"PRESTOP_ABORTED", "none">>,
                       <<"PRESTOP_ABORTED", "AUTHENTICATED">>} -> "prestop"
      [] j = "AUTHENTICATED" /\ s = "HOST_STOP_INITIATED" -> "rollback"
      [] j = "COMMITTED" /\ s \in {"READY_VERIFIED", "COMMITTED"} -> "committed"
      [] j = "ROLLED_BACK" /\ s \in {"HOST_REBOOTSTRAPPED", "ROLLED_BACK"} -> "rolledBack"
      [] j = "PRESTOP_ABORTED" /\ s = "PRESTOP_ABORTED" -> "report"
      [] OTHER -> IF /\ journal_and_root_state_are_crash_coherent(j, s)
                     /\ rollback_resume_action(j) # "Refuse"
                  THEN "rollback" ELSE "reject"

----------------------------------------------------------------------------
(* The plans.  "from" holds the journal states that an operation applies to.  *)

Do(x) == [do |-> x, s |-> "none", from |-> UpdateState]
DoFrom(x, F) == [do |-> x, s |-> "none", from |-> F]
Note(s, F) == [do |-> "note", s |-> s, from |-> F]
Put(s) == [do |-> "put", s |-> s, from |-> UpdateState]
Mark(s, F) == [do |-> "mark", s |-> s, from |-> F]

\* Mutant: the host is stopped before the intent to stop it is durable.
perform_root_transaction_StopFirst ==
    <<Do("admit"), Do("layout"), Do("create"), Do("pointer"), Do("artifacts"),
      Mark("AUTHENTICATED", UpdateState), Do("recheck"), Do("reserve"), Put("AUTHENTICATED"),
      Do("revalidate"), Do("stop"), Do("stopIntent"), Note("HOST_STOP_INITIATED", UpdateState),
      Mark("HOST_STOPPED", UpdateState), Do("retain"),
      Note("PRIOR_DRIVER_RETAINED", UpdateState), Do("publish"),
      Mark("CANDIDATE_PUBLISHED", UpdateState), Do("reload"),
      Mark("COREAUDIO_RELOADED", UpdateState), Do("validate"),
      Mark("DRIVER_VALIDATED", UpdateState), Do("restart"),
      Mark("HOST_BOOTSTRAPPED", UpdateState), Do("ready"),
      Mark("READY_VERIFIED", UpdateState), Do("release"), Mark("COMMITTED", UpdateState),
      Do("result")>>

perform_root_transaction ==
    <<Do("admit"), Do("layout"), Do("create"), Do("pointer"), Do("artifacts"),
      Mark("AUTHENTICATED", UpdateState), Do("recheck"), Do("reserve"), Put("AUTHENTICATED"),
      Do("revalidate"), Do("stopIntent"), Note("HOST_STOP_INITIATED", UpdateState),
      Do("stop"), Mark("HOST_STOPPED", UpdateState), Do("retain"),
      Note("PRIOR_DRIVER_RETAINED", UpdateState), Do("publish"),
      Mark("CANDIDATE_PUBLISHED", UpdateState), Do("reload"),
      Mark("COREAUDIO_RELOADED", UpdateState), Do("validate"),
      Mark("DRIVER_VALIDATED", UpdateState), Do("restart"),
      Mark("HOST_BOOTSTRAPPED", UpdateState), Do("ready"),
      Mark("READY_VERIFIED", UpdateState), Do("release"), Mark("COMMITTED", UpdateState),
      Do("result")>>

Reverting == Undoing \ {"HOST_REBOOTSTRAPPED"}

rollback_root_transaction ==
    <<Do("resume"), Mark("CRITICAL_FAILURE", {"AUTHENTICATED"}), Do("scope"),
      Mark("ROLLBACK_STARTED", Crossed \cup {"CRITICAL_FAILURE"}),
      DoFrom("stopAny", Reverting), DoFrom("archive", Reverting),
      Mark("FAILED_DRIVER_ARCHIVED", {"ROLLBACK_STARTED"}), DoFrom("restore", Reverting),
      Mark("PRIOR_DRIVER_RESTORED", {"ROLLBACK_STARTED", "FAILED_DRIVER_ARCHIVED"}),
      Mark("ROLLBACK_COREAUDIO_RELOAD_INITIATED", {"PRIOR_DRIVER_RESTORED"}),
      DoFrom("reloadPrior", {"ROLLBACK_COREAUDIO_RELOAD_INITIATED"}),
      Mark("ROLLBACK_COREAUDIO_RELOADED", {"ROLLBACK_COREAUDIO_RELOAD_INITIATED"}),
      DoFrom("restart", {"ROLLBACK_COREAUDIO_RELOADED"}),
      Mark("HOST_REBOOTSTRAPPED", {"ROLLBACK_COREAUDIO_RELOADED"}),
      DoFrom("pairing", {"HOST_REBOOTSTRAPPED"}),
      Mark("ROLLED_BACK", {"HOST_REBOOTSTRAPPED"}), Do("result")>>

journal_rollback_failure ==
    <<Mark("CRITICAL_FAILURE", Crossed \cup Undoing \cup {"AUTHENTICATED", "CRITICAL_FAILURE"})>>

\* Mutant: the journal does not record the abort.
finalize_prestop_preserving_host_Unrecorded ==
    <<Do("discover"), Put("PRESTOP_ABORTED"), Do("result")>>

finalize_prestop_preserving_host ==
    <<Do("discover"), Note("PRESTOP_ABORTED", {"BEGUN", "AUTHENTICATED"}),
      Put("PRESTOP_ABORTED"), Do("result")>>

abort_prestop_after_reserve ==
    <<Do("unreserve"), Put("AUTHENTICATED"), Note("PRESTOP_ABORTED", {"AUTHENTICATED"}),
      Put("PRESTOP_ABORTED"), Do("result")>>

repair_committed_terminal_state == <<Do("repairCommitted"), Put("COMMITTED"), Do("result")>>
repair_rolled_back_terminal_state == <<Do("repairRolledBack"), Put("ROLLED_BACK"), Do("result")>>
report_prestop_aborted_terminal == <<Do("reportPrestop"), Do("result")>>

finalize_sealed_bootstrap_without_root_pointer ==
    <<Do("examine"), Do("settle"), Put("PRESTOP_ABORTED"), Do("recoveryResult"), Do("abortResult")>>

PlanOf ==
    [none |-> <<>>, over |-> <<>>,
     forward |-> perform_root_transaction, rollback |-> rollback_root_transaction,
     failure |-> journal_rollback_failure, prestop |-> finalize_prestop_preserving_host,
     abort |-> abort_prestop_after_reserve, committed |-> repair_committed_terminal_state,
     rolledBack |-> repair_rolled_back_terminal_state, report |-> report_prestop_aborted_terminal,
     pointerless |-> finalize_sealed_bootstrap_without_root_pointer,
     tail |-> <<Do("recoveryResult")>>]

\* The outcome that a recovery by this plan reports.
Outcome(op) == CASE op = "committed" -> "committed"
                 [] op \in {"rolledBack", "rollback"} -> "rolled-back"
                 [] OTHER -> "prestop-aborted"
=============================================================================
