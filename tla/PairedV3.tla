------------------------------ MODULE PairedV3 ------------------------------
(* macOS/scripts/opensteamer-host-paired-v3-update-controller.rs: replaces  *)
(* the committed v2 host by v3, or restores v2.                             *)
EXTENDS PairedBase

----------------------------------------------------------------------------
(* The chain of committed versions this controller insists on               *)

verify_committed_v1_baseline == Pinned(1)

verify_committed_v2_baseline == verify_committed_v1_baseline /\ Pinned(2) /\ Retained(2)

verify_current_baseline_app_at(a) == a = 2

verify_paired_v3_runtime ==
    /\ verify_committed_v2_baseline
    /\ verify_current_baseline_app_at(app)
    /\ read_loaded_launch_state /\ proc = app

verify_isolated_pairing_items_present == pairing

verify_paired_v3_git_provenance == repo = "authorized"

require_v3_update_root_unused == ~ev[3].root

----------------------------------------------------------------------------
(* Staging, install hold and installed app                                  *)

export_v3_source(r) == [r EXCEPT !.stage = "exported"]

build_and_verify_v3_staged_app(r) == [r EXCEPT !.stage = "built"]

prepare_v3_deployment_reference(r) == [r EXCEPT !.stage = "reference"]

verify_v3_deployment_reference == ev[3].stage = "reference"

prepare_v3_install_hold(r) == [r EXCEPT !.hold = "exact"]

\* A complete app in the hold is kept as evidence, then the root is removed.
archive_v3_install_hold_if_present(r) ==
    [r EXCEPT !.hold = "absent", !.quarantine = @ \/ r.hold = "exact"]

\* verify_bundle refuses an app that ditto left half copied.
install_hold_archivable ==
    /\ ev[3].hold # "partial"
    /\ ev[3].hold = "exact" => ~ev[3].quarantine

verify_v3_installed_matches_reference == Canonical(3) /\ verify_v3_deployment_reference

verify_generation_bound_paired_marker == seen /\ marked

verify_paired_v3_deployment == verify_deployment(3) /\ verify_generation_bound_paired_marker

----------------------------------------------------------------------------
(* Journal                                                                  *)

validate_v3_transition(p, n) ==
    \/ <<p, n>> \in Steps(<<"BEGUN", "SOURCE_EXPORTED", "BUILD_VERIFIED",
           "STOP_INITIATED", "INSTALL_HOLD_VERIFIED", "CURRENT_STOPPED",
           "CURRENT_HELD", "NEW_PUBLISHED", "PERSISTENT_BOOTSTRAPPED",
           "READY_VERIFIED", "COMMITTED">>)
    \/ n = "ROLLBACK_STARTED" /\ p \in FromStopToCommit \cup {"CRITICAL_FAILURE"}
    \/ <<p, n>> \in Steps(<<"ROLLBACK_STARTED", "FAILED_NEW_ARCHIVED",
           "CURRENT_RESTORED", "CURRENT_BOOTSTRAPPED", "ROLLED_BACK">>)
    \/ <<p, n>> = <<"ROLLBACK_STARTED", "CURRENT_RESTORED">>
    \/ n = "CRITICAL_FAILURE" /\ p \in Rolling

\* Only a prefix of a record that may follow is cut off.
is_plausible_v3_torn_tail ==
    ev[3].tail = "clean" \/ validate_v3_transition(ev[3].state, ev[3].tail)

\* The state of an opened journal is that of its last complete record.
parse_v3_journal(r) == r.state

\* open cuts an incomplete last record off.
V3Journal_open(r) == [r EXCEPT !.tail = "clean"]

\* record appends a state and syncs it.
V3Journal_record(r, s) == [r EXCEPT !.state = s]

----------------------------------------------------------------------------
(* Entry points and plans                                                   *)

execute_paired_v3_update ==
    /\ verify_committed_v2_baseline /\ verify_paired_v3_runtime
    /\ verify_isolated_pairing_items_present /\ verify_paired_v3_git_provenance
    /\ ev[3].ptr # "active" /\ require_v3_update_root_unused

\* After an error: whether the host may already have been stopped.
crossed_stop(s, e) ==
    /\ s \in FromStopToCommit \ {"COMMITTED"}
    /\ ~(s = "STOP_INITIATED" /\ e[3].ptr = "none")

perform_paired_v3_update == <<
    "export", "SOURCE_EXPORTED", "build", "reference", "BUILD_VERIFIED",
    "headroom", "referenceIntact", "pairing", "baseline", "sameGeneration",
    "provenance", "reserve", "STOP_INITIATED", "publishPointer",
    "prepareHold", "INSTALL_HOLD_VERIFIED",
    "pointer", "referenceIntact", "pairing", "baseline", "sameGeneration",
    "bootout", "drained", "takeLock", "pointer", "baseline", "pairing",
    "referenceIntact", "currentApp", "CURRENT_STOPPED",
    "holdCurrent", "currentHeld", "CURRENT_HELD",
    "publishNew", "removeHoldRoot", "installed", "pairing", "baseline",
    "NEW_PUBLISHED", "dropLock", "bootstrap", "PERSISTENT_BOOTSTRAPPED",
    "observe", "deployment", "pairing", "baseline", "READY_VERIFIED",
    "releaseReserve", "COMMITTED", "resultSuccess">>

rollback_to_current_baseline == <<
    "healthy", "pointer", "baseline", "pairing", "ROLLBACK_STARTED",
    "releaseReserve", "bootoutIfLoaded", "drained", "takeLock", "pairing",
    "baseline", "archiveHold", "topology", "archiveNew", "FAILED_NEW_ARCHIVED", "restoreCurrent",
    "currentApp", "CURRENT_RESTORED", "resumable", "pairing", "baseline",
    "dropLock", "currentApp", "bootstrap", "CURRENT_BOOTSTRAPPED", "observe",
    "baselineDeployment", "pairing", "baseline", "ROLLED_BACK", "runtime">>

\* Which of the rollback's records is still to be made.
due(s) ==
    CASE s = "ROLLBACK_STARTED" -> ctl.state \notin Rolling
      [] s = "FAILED_NEW_ARCHIVED" ->
           ctl.state = "ROLLBACK_STARTED" /\ ev[3].kept # Nothing /\ ev[3].failed # Nothing
      [] s = "CURRENT_RESTORED" -> ctl.state \in {"ROLLBACK_STARTED", "FAILED_NEW_ARCHIVED"}
      [] s = "CURRENT_BOOTSTRAPPED" -> ctl.state = "CURRENT_RESTORED"
      [] OTHER -> TRUE

\* The places v2 and v3 may be in when the rollback moves them.
rollback_topology ==
    IF ev[3].kept # Nothing
    THEN /\ verify_current_baseline_app_at(ev[3].kept)
         /\ app # Nothing =>
              /\ ~verify_current_baseline_app_at(app) /\ ev[3].failed = Nothing
              /\ verify_v3_installed_matches_reference
    ELSE verify_current_baseline_app_at(app)

\* The running host must be v2 or this transaction's v3.
bootout_paired_v3_job_if_loaded ==
    job => IF proc # Nothing
           THEN /\ require_solo_capture_server
                /\ \/ verify_current_baseline_app_at(app)
                   \/ verify_v3_installed_matches_reference
           ELSE require_no_capture_servers

rollback_existing_paired_v3_update ==
    verify_committed_v2_baseline /\ ev[3].ptr = "active" /\ is_plausible_v3_torn_tail

already_rolled_back == <<"runtime", "pairing", "ensureResult", "retirePointer">>

\* What a staging, journal or hold step leaves in the evidence directory.
After(e, r) ==
    CASE e = "export" -> export_v3_source(r)
      [] e = "build" -> build_and_verify_v3_staged_app(r)
      [] e = "reference" -> prepare_v3_deployment_reference(r)
      [] e = "open" -> V3Journal_open(r)
      [] e = "prepareHold" -> prepare_v3_install_hold(r)
      [] e = "archiveHold" -> archive_v3_install_hold_if_present(r)

\* The file after an append, and the state read back from it.
Appended(r, s) == V3Journal_record(r, s)
Reread(r) == parse_v3_journal(r)

\* What a step of a plan, or an entry point, requires.
Holds(g) ==
    CASE g = "begin" -> execute_paired_v3_update
      [] g = "request" -> rollback_existing_paired_v3_update
      [] g = "baseline" -> verify_committed_v2_baseline
      [] g = "pairing" -> verify_isolated_pairing_items_present
      [] g = "provenance" -> verify_paired_v3_git_provenance
      [] g = "referenceIntact" -> verify_v3_deployment_reference
      [] g = "sameGeneration" -> verify_paired_v3_runtime /\ seen
      [] g = "runtime" -> verify_paired_v3_runtime
      [] g = "currentApp" -> verify_current_baseline_app_at(app)
      [] g = "currentHeld" -> verify_current_baseline_app_at(ev[3].kept)
      [] g = "installed" -> verify_v3_installed_matches_reference
      [] g = "deployment" -> verify_paired_v3_deployment
      [] g = "baselineDeployment" -> verify_deployment(2)
      [] g = "archiveHold" -> install_hold_archivable
      [] g = "bootoutIfLoaded" -> bootout_paired_v3_job_if_loaded
      [] g = "topology" -> rollback_topology
      [] g = "resumable" -> ctl.state \in {"CURRENT_RESTORED", "CURRENT_BOOTSTRAPPED"}
=============================================================================
