------------------------------ MODULE PairedV7 ------------------------------
(* macOS/scripts/opensteamer-host-paired-v7-update-controller.rs: replaces   *)
(* the committed v6 host by v7 together with the product audio driver, or    *)
(* restores both. This module holds what the controller checks, how it       *)
(* journals and which steps its plans take; DriverBroker holds the driver    *)
(* and the privileged processes, PairedV7Update runs them together.          *)
(*                                                                           *)
(* The product driver did not exist before v7: every root operation before   *)
(* the publication requires the canonical path to be free, so the "prior     *)
(* driver" the code restores is its absence.                                 *)
EXTENDS PairedBase

VARIABLES
    kit,     \* how far the root-owned copy of the controller is installed
    intact,  \* evidence of earlier attempts that is still exactly as left
    drv,     \* where the new driver bundle is
    audio    \* what Core Audio has loaded: "none" or "product"

----------------------------------------------------------------------------
(* Retained evidence of the four earlier attempts and root installations     *)

Attempts == {"first", "retry1", "retry2", "retry3"}
RootTombstones == {"retry2Root", "retry3Root"}
RootControllers == {"normal1", "normal2", "recovery1", "recovery2"}
Retentions == Attempts \cup RootTombstones \cup RootControllers

require_exact_retained_v7_evidence == "first" \in intact

require_exact_retained_retry_1_v7_evidence == "retry1" \in intact

require_exact_recovered_retry_2_evidence == "retry2" \in intact

require_exact_terminal_retry_3_evidence == "retry3" \in intact

require_retained_retry_2_root_tombstone(absent) ==
    "retry2Root" \in intact /\ (absent => drv # "canonical")

require_retained_retry_3_root_tombstone(absent) ==
    "retry3Root" \in intact /\ (absent => drv # "canonical")

require_retained_root_recovery_v1 == "recovery1" \in intact

require_retained_root_controller_set == {"normal1", "normal2", "recovery2"} \subseteq intact

\* The user's proof of the same root files, through sudo.
require_retained_root_recovery_v1_via_sudo == "recovery1" \in intact

require_retained_root_controller_set_via_sudo ==
    {"normal1", "normal2", "recovery2"} \subseteq intact

require_retained_retry_2_root_tombstone_via_sudo == "retry2Root" \in intact

require_retry_3_restored_root_via_sudo == "retry3Root" \in intact

\* No pointer under its temporary name.
require_no_v7_pending_pointers == ev[7].ptr # "pending"

require_retry_v7_pointer_expectation(x) ==
    require_no_v7_pending_pointers /\ (x = "present" <=> ev[7].ptr = "active")

retained_evidence ==
    /\ require_exact_retained_v7_evidence /\ require_exact_retained_retry_1_v7_evidence
    /\ require_exact_recovered_retry_2_evidence /\ require_exact_terminal_retry_3_evidence

\* Before the attempt exists: the four retained leaves and nothing else.
require_v7_retry_admission_ready ==
    ~ev[7].root /\ require_retry_v7_pointer_expectation("absent") /\ retained_evidence

\* Once it exists: five leaves, and the pointer as this step expects it.
require_current_retry_v7_layout(x) ==
    ev[7].root /\ retained_evidence /\ require_retry_v7_pointer_expectation(x)

----------------------------------------------------------------------------
(* The root-owned controller                                                 *)

Retry4RootV3Stage == <<"absent", "empty", "pending", "controller", "pinPrefix",
                       "recordsPrefix", "sealed">>

\* Any prefix of the installation is a legal place to resume from.
require_retry_4_root_v3_stage_via_sudo == kit \in {Retry4RootV3Stage[i] : i \in 1..7}

require_retry_4_root_admission_via_sudo ==
    /\ require_retained_root_recovery_v1_via_sudo
    /\ require_retained_root_controller_set_via_sudo
    /\ require_retained_retry_2_root_tombstone_via_sudo
    /\ require_retry_3_restored_root_via_sudo
    /\ require_retry_4_root_v3_stage_via_sudo

\* bootstrap_root_controller_identity writes pin and records; both are resumed
\* from the prefix an interruption left.
bootstrap_root_controller_identity ==
    CASE kit = "controller" -> "pinPrefix"
      [] kit = "pinPrefix" -> "recordsPrefix"
      [] kit = "recordsPrefix" -> "sealed"

publish_root_controller == "controller"

bootstrap_root_owned_v7_controller_for_prepare ==
    CASE kit = "absent" -> "empty"
      [] kit = "empty" -> "pending"
      [] kit = "pending" -> publish_root_controller
      [] OTHER -> bootstrap_root_controller_identity

verify_root_controller_identity ==
    /\ kit = "sealed"
    /\ require_retained_root_recovery_v1 /\ require_retained_root_controller_set
    /\ require_retained_retry_2_root_tombstone(FALSE)
    /\ require_retained_retry_3_root_tombstone(FALSE)

verify_root_owned_v7_controller_for_restore ==
    kit = "sealed" /\ require_retry_4_root_admission_via_sudo

require_retry_4_root_operation_trust(absent) ==
    /\ verify_root_controller_identity
    /\ require_retained_retry_2_root_tombstone(absent)
    /\ require_retained_retry_3_root_tombstone(absent)

----------------------------------------------------------------------------
(* The chain of committed versions this controller insists on                *)

verify_committed_v1_baseline == Pinned(1)

verify_committed_v2_baseline == verify_committed_v1_baseline /\ Pinned(2) /\ Retained(2)

verify_committed_v3_baseline == verify_committed_v2_baseline /\ Pinned(3) /\ Retained(3)

verify_committed_v4_baseline == verify_committed_v3_baseline /\ Pinned(4) /\ Retained(4)

verify_committed_v5_baseline ==
    verify_committed_v4_baseline /\ Pinned(5) /\ Retained(5) /\ Settled(5)

verify_committed_v6_baseline ==
    verify_committed_v5_baseline /\ Pinned(6) /\ Retained(6) /\ Settled(6)

verify_current_baseline_app_at(a) == a = 6

verify_paired_v7_runtime ==
    /\ verify_committed_v6_baseline /\ verify_current_baseline_app_at(app)
    /\ read_loaded_launch_state /\ proc = app

verify_isolated_pairing_items_present == pairing

verify_paired_v7_git_provenance == repo = "authorized"

\* The reviewed candidate and its functional inputs still belong to the release.
verify_reviewed_production_candidate_preflight == repo = "authorized"

----------------------------------------------------------------------------
(* Staging, install hold and installed app                                   *)

export_v7_source(r) == [r EXCEPT !.stage = "exported"]

build_and_verify_v7_staged_app(r) == [r EXCEPT !.stage = "built"]

prepare_v7_deployment_reference(r) == [r EXCEPT !.stage = "reference"]

\* The driver's package and the probe binaries are added to the reference.
materialize_reviewed_production_driver(r) == [r EXCEPT !.stage = "driver"]

build_and_verify_v7_probe_binaries(r) == [r EXCEPT !.stage = "probes"]

verify_v7_deployment_reference == ev[7].stage = "probes"

require_exact_staged_driver_artifacts == ev[7].stage = "probes"

prepare_v7_install_hold(r) == [r EXCEPT !.hold = "exact"]

archive_v7_install_hold_root(r) ==
    IF r.hold = "absent" THEN r ELSE [r EXCEPT !.hold = "absent", !.quarantine = TRUE]

install_hold_archivable == ~(ev[7].hold # "absent" /\ ev[7].quarantine)

verify_v7_installed_matches_reference == Canonical(7) /\ verify_v7_deployment_reference

verify_generation_bound_paired_marker == seen /\ marked

verify_paired_v7_deployment == verify_deployment(7) /\ verify_generation_bound_paired_marker

\* The running host must be v6 or this transaction's v7.
bootout_paired_v7_job_if_loaded ==
    job => IF proc # Nothing
           THEN /\ require_solo_capture_server
                /\ \/ verify_current_baseline_app_at(app)
                   \/ verify_v7_installed_matches_reference
           ELSE require_no_capture_servers

----------------------------------------------------------------------------
(* Journal                                                                   *)

V7State == <<
    "BEGUN", "SOURCE_EXPORTED", "BUILD_VERIFIED", "INSTALL_HOLD_VERIFIED",
    "DRIVER_PREPARED", "STOP_INITIATED", "CURRENT_STOPPED", "CURRENT_HELD",
    "DRIVER_PUBLISHED", "PROBES_VERIFIED", "NEW_PUBLISHED",
    "PERSISTENT_BOOTSTRAPPED", "READY_VERIFIED", "COMMITTED",
    "ROLLBACK_STARTED", "DRIVER_RESTORED", "FAILED_NEW_ARCHIVED",
    "CURRENT_RESTORED", "CURRENT_BOOTSTRAPPED", "ROLLED_BACK", "CRITICAL_FAILURE">>

V7States == {V7State[i] : i \in DOMAIN V7State}
V7Rank(s) == CHOOSE i \in DOMAIN V7State : V7State[i] = s
Before(s, t) == V7Rank(s) < V7Rank(t)

validate_v7_transition(p, n) ==
    \/ <<p, n>> \in Steps(SubSeq(V7State, 1, V7Rank("COMMITTED")))
    \/ /\ n = "ROLLBACK_STARTED"
       /\ \/ ~Before(p, "STOP_INITIATED") /\ ~Before("COMMITTED", p)
          \/ p = "CRITICAL_FAILURE"
    \/ <<p, n>> \in Steps(SubSeq(V7State, V7Rank("ROLLBACK_STARTED"), V7Rank("ROLLED_BACK")))
    \/ p = "DRIVER_RESTORED" /\ n \in {"CURRENT_RESTORED", "ROLLED_BACK"}
    \/ n = "CRITICAL_FAILURE" /\ ~Before(p, "ROLLBACK_STARTED") /\ Before(p, "ROLLED_BACK")

\* Two processes append to this file: a record that may not follow the last
\* one makes every later parse fail.
V7Journal_record(r, s) ==
    [r EXCEPT !.state = s,
              !.tail = IF @ = "clean" /\ validate_v7_transition(r.state, s) THEN @ ELSE "corrupt"]

is_plausible_v7_torn_tail == ev[7].tail = "clean" \/
    (ev[7].tail \in V7States /\ validate_v7_transition(ev[7].state, ev[7].tail))

\* open parses every complete record and cuts an incomplete last one off.
parse_v7_journal == ev[7].tail # "corrupt" /\ is_plausible_v7_torn_tail

V7Journal_open(r) == [r EXCEPT !.tail = "clean"]

v7_crossed_stop_without_durable_commit(s) ==
    ~Before(s, "STOP_INITIATED") /\ s \notin {"COMMITTED", "ROLLED_BACK"}

DriverRestored == {"DRIVER_RESTORED", "FAILED_NEW_ARCHIVED", "CURRENT_RESTORED",
                   "CURRENT_BOOTSTRAPPED", "ROLLED_BACK"}

----------------------------------------------------------------------------
(* Entry points and plans                                                    *)

\* Before the root-owned controller is completed and the evidence created.
execute_paired_v7_update ==
    /\ verify_paired_v7_git_provenance /\ verify_reviewed_production_candidate_preflight
    /\ verify_committed_v6_baseline /\ verify_paired_v7_runtime
    /\ verify_isolated_pairing_items_present /\ require_v7_retry_admission_ready
    /\ require_retry_4_root_admission_via_sudo

\* perform_paired_v7_update up to the client's first command; the upper-case
\* names of client commands are those the broker receives.
Preparation == <<
    "export", "SOURCE_EXPORTED", "build", "reference", "driver", "probeBinaries",
    "BUILD_VERIFIED", "prepareHold", "INSTALL_HOLD_VERIFIED", "boundary",
    "startBroker", "DRIVER_PREPARED", "preStop">>

Transaction == <<
    "PING", "reserve", "STOP_INITIATED", "pendingPointer", "activePointer",
    "pointed", "bootout", "drained", "takeLock", "stopped", "CURRENT_STOPPED",
    "holdCurrent", "currentHeld", "CURRENT_HELD", "PUBLISH", "DRIVER_PUBLISHED",
    "PING", "probes", "PING", "PROBES_VERIFIED", "publishNew", "removeHoldRoot", "installed",
    "NEW_PUBLISHED", "dropLock", "PING", "bootstrap", "PERSISTENT_BOOTSTRAPPED",
    "observe", "PING", "deployment", "ready", "READY_VERIFIED", "releaseReserve">>

Commitment == <<"PREPARE_COMMIT", "committable", "COMMITTED", "COMMIT", "resultSuccess">>

perform_paired_v7_update == Preparation \o Transaction \o Commitment

InTransaction(i) == i \in (Len(Preparation) + 1)..Len(Preparation \o Transaction)

\* The failing transaction: intent, host, driver, proof, in this order.
unwind_transaction == <<"reopen", "ROLLBACK_STARTED", "tryBootout", "tryDrain", "undo",
                        "reopen", "DRIVER_RESTORED", "undone">>

rollback_ready_commit_failure == <<"ROLLBACK_STARTED", "bootoutIfLoaded", "drained",
                                   "undo", "DRIVER_RESTORED">>

\* Mutant: the restored host is not bootstrapped.
rollback_to_current_baseline_NoBootstrap == <<
    "resumed", "startRestore", "PING", "ROLLBACK_STARTED", "releaseReserve", "guarded",
    "bootoutIfLoaded", "drained", "takeLock", "held", "RESTORE", "driverRestored",
    "archiveHold", "topology", "archiveNew", "FAILED_NEW_ARCHIVED", "restoreCurrent",
    "currentApp", "CURRENT_RESTORED", "resumable", "dropLock", "currentApp",
    "CURRENT_BOOTSTRAPPED", "observe", "baselineDeployment", "pairing",
    "ROLLED_BACK", "runtime", "resultRolledBack", "retirePointer">>

rollback_to_current_baseline == <<
    "resumed", "startRestore", "PING", "ROLLBACK_STARTED", "releaseReserve", "guarded",
    "bootoutIfLoaded", "drained", "takeLock", "held", "RESTORE", "driverRestored",
    "archiveHold", "topology", "archiveNew", "FAILED_NEW_ARCHIVED", "restoreCurrent",
    "currentApp", "CURRENT_RESTORED", "resumable", "dropLock", "currentApp",
    "bootstrap", "CURRENT_BOOTSTRAPPED", "observe", "baselineDeployment", "pairing",
    "ROLLED_BACK", "runtime", "resultRolledBack", "retirePointer">>

already_rolled_back == <<"runtime", "pairing", "ensureResult", "retirePointer">>

rollback_existing_paired_v7_update ==
    /\ verify_committed_v6_baseline /\ ev[7].ptr = "active"
    /\ require_current_retry_v7_layout("present") /\ parse_v7_journal

\* Whether this error, at this in-memory state, makes the controller roll back.
crossed_stop(s, e) ==
    /\ v7_crossed_stop_without_durable_commit(s)
    /\ ~(e[7].ptr # "active" /\ s \in {"STOP_INITIATED", "ROLLED_BACK"})

\* Which steps of a plan the in-memory state still calls for.
due(s) ==
    CASE s \in {"startRestore", "PING"} -> ctl.state \notin DriverRestored
      [] s = "RESTORE" -> ctl.state = "ROLLBACK_STARTED"
      [] s = "ROLLBACK_STARTED" ->
           IF ctl.run = "rollback" THEN ctl.state \notin DriverRestored \cup {"ROLLBACK_STARTED"}
           ELSE /\ ctl.run = "unwind" => v7_crossed_stop_without_durable_commit(ctl.state)
                /\ Before(ctl.state, "ROLLBACK_STARTED")
      [] s \in {"tryBootout", "tryDrain"} -> v7_crossed_stop_without_durable_commit(ctl.state)
      [] s = "undo" -> ctl.run = "unwind" => ctl.state \notin DriverRestored
      [] s = "DRIVER_RESTORED" -> ctl.run = "unwind" => ctl.state = "ROLLBACK_STARTED"
      [] s = "FAILED_NEW_ARCHIVED" ->
           ctl.state = "DRIVER_RESTORED" /\ ev[7].kept # Nothing /\ ev[7].failed # Nothing
      [] s = "CURRENT_RESTORED" -> ctl.state \in {"DRIVER_RESTORED", "FAILED_NEW_ARCHIVED"}
      [] s = "CURRENT_BOOTSTRAPPED" -> ctl.state = "CURRENT_RESTORED"
      [] OTHER -> TRUE

\* The places v6 and v7 may be in when the rollback moves them.
rollback_topology ==
    IF ev[7].kept # Nothing
    THEN /\ verify_current_baseline_app_at(ev[7].kept)
         /\ app # Nothing =>
              /\ ~verify_current_baseline_app_at(app) /\ ev[7].failed = Nothing
              /\ verify_v7_installed_matches_reference
    ELSE verify_current_baseline_app_at(app)

\* The running host is still the one of the controller's start.
SameGeneration == verify_paired_v7_runtime /\ seen

\* What a step of a plan requires.
Holds(g) ==
    CASE g = "boundary" ->
           /\ verify_v7_deployment_reference /\ verify_isolated_pairing_items_present
           /\ verify_committed_v6_baseline /\ SameGeneration
           /\ require_current_retry_v7_layout("absent") /\ verify_paired_v7_git_provenance
           /\ verify_reviewed_production_candidate_preflight
      [] g = "preStop" ->
           /\ require_current_retry_v7_layout("absent") /\ verify_v7_deployment_reference
           /\ verify_isolated_pairing_items_present /\ verify_committed_v6_baseline
           /\ SameGeneration
      [] g \in {"pointed", "stopped"} ->
           /\ require_current_retry_v7_layout("present") /\ verify_v7_deployment_reference
           /\ verify_isolated_pairing_items_present /\ verify_committed_v6_baseline
           /\ g = "stopped" => verify_current_baseline_app_at(app)
      [] g = "currentHeld" -> verify_current_baseline_app_at(ev[7].kept)
      [] g = "probes" -> require_no_capture_servers /\ require_service_absent /\ audio = "product"
      [] g = "installed" ->
           /\ verify_v7_installed_matches_reference /\ verify_isolated_pairing_items_present
           /\ verify_committed_v6_baseline
      [] g = "ready" -> verify_isolated_pairing_items_present /\ verify_committed_v6_baseline
      [] g = "committable" -> require_current_retry_v7_layout("present")
      [] g = "resumed" ->
           /\ ctl.healthy /\ require_current_retry_v7_layout(ctl.exp)
           /\ verify_committed_v6_baseline /\ verify_isolated_pairing_items_present
      [] g = "guarded" ->
           /\ require_current_retry_v7_layout(ctl.exp)
           /\ verify_committed_v6_baseline /\ verify_isolated_pairing_items_present
      [] g \in {"held", "pairing"} ->
           verify_isolated_pairing_items_present /\ verify_committed_v6_baseline
      [] g = "undone" ->
           v7_crossed_stop_without_durable_commit(ctl.state) => ctl.state = "DRIVER_RESTORED"
      [] g = "driverRestored" -> ctl.state \in DriverRestored \ {"ROLLED_BACK"}
      [] g = "resumable" ->
           /\ ctl.state \in {"CURRENT_RESTORED", "CURRENT_BOOTSTRAPPED"}
           /\ verify_isolated_pairing_items_present /\ verify_committed_v6_baseline
      [] g = "topology" -> rollback_topology
      [] g = "currentApp" -> verify_current_baseline_app_at(app)
      [] g = "runtime" -> verify_paired_v7_runtime
      [] g = "deployment" -> verify_paired_v7_deployment
      [] g = "baselineDeployment" -> verify_deployment(6)
=============================================================================
