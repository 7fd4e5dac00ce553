------------------------------ MODULE PairedV1 ------------------------------
(* macOS/scripts/opensteamer-host-post-v20-update-controller.rs: replaces   *)
(* the migrated v20 host by v1 after pairing with the staged host, or       *)
(* restores v20.                                                            *)
EXTENDS PairedBase

verify_exact_v20_app_at(a) == a = 0

\* Nothing here changes the evidence of the migration.
verify_v20_runtime ==
    verify_exact_v20_app_at(app) /\ read_loaded_launch_state /\ proc = app

verify_git_provenance == repo = "authorized"

----------------------------------------------------------------------------
(* Staging, the interactive host and the installed app                      *)

export_source(r) == [r EXCEPT !.stage = "exported"]

build_and_verify_staged_app(r) == [r EXCEPT !.stage = "built"]

prepare_deployment_reference(r) == [r EXCEPT !.stage = "reference"]

verify_deployment_reference == ev[1].stage = "reference"

prepare_install_hold(r) == [r EXCEPT !.hold = "exact"]

archive_install_hold_if_present(r) ==
    IF r.hold = "absent" \/ ctl.state # "ROLLBACK_STARTED" THEN r
    ELSE [r EXCEPT !.hold = "absent", !.quarantine = TRUE]

install_hold_archivable ==
    ctl.state = "ROLLBACK_STARTED" => ~(ev[1].hold # "absent" /\ ev[1].quarantine)

\* The staged host alone runs, no job is loaded and it holds the host lock.
verify_interactive_generation == ~job /\ capture_server_processes = {"staged"}

\* The invitation is shown once that host is proved; the wait then ends with
\* the pairing's commit line from the same generation.
invitation_presented == child # "none" /\ verify_interactive_generation

wait_for_interactive_pairing == child = "paired" /\ verify_interactive_generation

\* Rollback ends the staged host of a controller that died.
terminate_staged_host_if_present == capture_server_processes \in {{}, {"staged"}}

verify_installed_matches_reference == Canonical(1) /\ verify_deployment_reference

----------------------------------------------------------------------------
(* Journal                                                                  *)

validate_transition(p, n) ==
    \/ <<p, n>> \in Steps(<<"BEGUN", "SOURCE_EXPORTED", "BUILD_VERIFIED",
           "STOP_INITIATED", "INSTALL_HOLD_VERIFIED", "V20_STOPPED",
           "INTERACTIVE_READY", "PAIRING_COMMITTED", "INTERACTIVE_STOPPED",
           "V20_HELD", "NEW_PUBLISHED", "PERSISTENT_BOOTSTRAPPED",
           "READY_VERIFIED", "COMMITTED">>)
    \/ n = "ROLLBACK_STARTED" /\ p \in FromStopToCommit \cup {"CRITICAL_FAILURE"}
    \/ <<p, n>> \in Steps(<<"ROLLBACK_STARTED", "FAILED_NEW_ARCHIVED",
           "V20_RESTORED", "V20_BOOTSTRAPPED", "ROLLED_BACK">>)
    \/ <<p, n>> = <<"ROLLBACK_STARTED", "V20_RESTORED">>
    \/ n = "CRITICAL_FAILURE" /\ p \in Rolling

\* Only a prefix of a record that may follow is cut off.
is_plausible_torn_journal_tail ==
    ev[1].tail = "clean" \/ validate_transition(ev[1].state, ev[1].tail)

\* The state of an opened journal is that of its last complete record.
parse_journal(r) == r.state

\* open cuts an incomplete last record off.
Journal_open(r) == [r EXCEPT !.tail = "clean"]

\* record appends a state and syncs it.
Journal_record(r, s) == [r EXCEPT !.state = s]

----------------------------------------------------------------------------
(* Entry points and plans                                                   *)

execute_update == verify_v20_runtime /\ verify_git_provenance /\ ev[1].ptr # "active"

crossed_stop(s, e) ==
    /\ s \in FromStopToCommit \ {"COMMITTED"}
    /\ ~(s = "STOP_INITIATED" /\ e[1].ptr = "none")

perform_update == <<
    "export", "SOURCE_EXPORTED", "build", "reference", "BUILD_VERIFIED",
    "headroom", "referenceIntact", "sameGeneration", "reserve",
    "STOP_INITIATED", "publishPointer", "prepareHold", "INSTALL_HOLD_VERIFIED",
    "pointer", "referenceIntact", "bootout", "drained", "takeLock",
    "V20_STOPPED", "dropLock", "spawnChild", "invitation", "INTERACTIVE_READY",
    "pairingCommit", "PAIRING_COMMITTED", "terminateChild", "drained",
    "takeLock", "INTERACTIVE_STOPPED", "currentApp", "holdCurrent",
    "currentHeld", "V20_HELD", "publishNew", "removeHoldRoot", "installed",
    "NEW_PUBLISHED", "dropLock", "bootstrap", "PERSISTENT_BOOTSTRAPPED",
    "observe", "deployment", "READY_VERIFIED", "releaseReserve", "COMMITTED",
    "resultSuccess">>

rollback_to_v20 == <<
    "healthy", "pointer", "ROLLBACK_STARTED", "releaseReserve",
    "bootoutIfLoaded", "terminateStaged", "drained", "takeLock",
    "archiveHold", "topology", "archiveNew", "FAILED_NEW_ARCHIVED",
    "restoreCurrent", "V20_RESTORED", "resumable", "dropLock", "currentApp",
    "bootstrap", "V20_BOOTSTRAPPED", "observe", "baselineDeployment",
    "ROLLED_BACK", "runtime">>

due(s) ==
    CASE s = "ROLLBACK_STARTED" -> ctl.state \notin Rolling
      [] s = "FAILED_NEW_ARCHIVED" ->
           ctl.state = "ROLLBACK_STARTED" /\ ev[1].kept # Nothing /\ ev[1].failed # Nothing
      [] s = "V20_RESTORED" -> ctl.state \in {"ROLLBACK_STARTED", "FAILED_NEW_ARCHIVED"}
      [] s = "V20_BOOTSTRAPPED" -> ctl.state = "V20_RESTORED"
      [] OTHER -> TRUE

\* Whatever is at the canonical path is taken for the failed host.
rollback_topology ==
    CASE ctl.state = "ROLLBACK_STARTED" ->
           IF ev[1].kept # Nothing
           THEN /\ verify_exact_v20_app_at(ev[1].kept)
                /\ app # Nothing => ev[1].failed = Nothing
           ELSE verify_exact_v20_app_at(app)
      [] ctl.state = "FAILED_NEW_ARCHIVED" ->
           IF ev[1].kept # Nothing
           THEN verify_exact_v20_app_at(ev[1].kept) /\ app = Nothing
           ELSE verify_exact_v20_app_at(app)
      [] OTHER -> TRUE

\* The running host must be what is installed, whichever version that is.
bootout_new_job_if_loaded ==
    job => IF proc # Nothing THEN require_solo_capture_server
                             ELSE require_no_capture_servers

rollback_existing_update == ev[1].ptr = "active" /\ is_plausible_torn_journal_tail

already_rolled_back == <<"runtime", "ensureResult", "retirePointer">>

\* What a staging, journal or hold step leaves in the evidence directory.
After(e, r) ==
    CASE e = "export" -> export_source(r)
      [] e = "build" -> build_and_verify_staged_app(r)
      [] e = "reference" -> prepare_deployment_reference(r)
      [] e = "open" -> Journal_open(r)
      [] e = "prepareHold" -> prepare_install_hold(r)
      [] e = "archiveHold" -> archive_install_hold_if_present(r)

\* The file after an append, and the state read back from it.
Appended(r, s) == Journal_record(r, s)
Reread(r) == parse_journal(r)

\* What a step of a plan, or an entry point, requires.
Holds(g) ==
    CASE g = "begin" -> execute_update
      [] g = "request" -> rollback_existing_update
      [] g = "referenceIntact" -> verify_deployment_reference
      [] g = "sameGeneration" -> verify_v20_runtime /\ seen
      [] g = "runtime" -> verify_v20_runtime
      [] g = "currentApp" -> verify_exact_v20_app_at(app)
      [] g = "currentHeld" -> verify_exact_v20_app_at(ev[1].kept)
      [] g = "installed" -> verify_installed_matches_reference
      [] g = "invitation" -> invitation_presented
      [] g = "pairingCommit" -> wait_for_interactive_pairing
      [] g = "deployment" -> verify_deployment(1)
      [] g = "baselineDeployment" -> verify_deployment(0)
      [] g = "archiveHold" -> install_hold_archivable
      [] g = "bootoutIfLoaded" -> bootout_new_job_if_loaded
      [] g = "terminateStaged" -> terminate_staged_host_if_present
      [] g = "topology" -> rollback_topology
      [] g = "resumable" -> ctl.state \in {"V20_RESTORED", "V20_BOOTSTRAPPED"}
=============================================================================
