--------------------------- MODULE HostMigration ---------------------------
(* The version-20 host migration controller                                *)
(* (macOS/scripts/opensteamer-host-migration-controller.rs): one journaled *)
(* transaction that stops the legacy host, installs and starts the new one *)
(* and either commits or restores the legacy host.  The controller process *)
(* may die at any point, the machine may reboot, any external command may  *)
(* fail before or after it acted, and launchd restarts a loaded host       *)
(* (KeepAlive) behind the controller's back.                                *)
(*                                                                          *)
(* Data abstraction: a host is "legacy" or "new"; a launch generation (pid, *)
(* start time, nonce, lock identity) is a number; a file is absent, partly  *)
(* copied or exact; a journal is the last state it records, the set of      *)
(* states recorded so far (its fields follow from that set) and the state   *)
(* of its tail.                                                             *)
EXTENDS Integers, Sequences, FiniteSets

CONSTANTS
    MaxGen,       \* launches of the new host explored
    MaxCrashes,   \* controller deaths and reboots explored
    MaxFaults,    \* failing commands, timeouts and failing journal appends
    AppendFaults, \* ways a journal append may fail: "lost", "torn", "kept"
    Substitution  \* whether a destination directory may be replaced

ASSUME MigrationAssumption ==
    /\ MaxGen \in Nat /\ MaxCrashes \in Nat /\ MaxFaults \in Nat
    /\ AppendFaults \subseteq {"lost", "torn", "kept"}
    /\ Substitution \in BOOLEAN

VARIABLES
    loaded,    \* launchd services that are loaded
    disabled,  \* the durable launchd override of the legacy label
    proc,      \* running generation of each host, 0 when it is not running
    lock,      \* owner of the host lock, a host or "none"
    gen,       \* number of new-host generations launched so far
    marker,    \* generations whose online marker is in the log
    fs,        \* the transaction's paths and what each one holds
    parents,   \* identity of the destination directories
    reserve,   \* the rollback reserve file
    ptr,       \* the active-transaction pointer
    jnl,       \* the durable journal
    mem,       \* the running controller's view of the journal
    run,       \* what the controller process is executing, "none" if absent
    origin,    \* whether a rollback follows a failure or a rerun
    mode,      \* rollback mode
    at,        \* index of the current operation of the plan
    fx,        \* index of the current effect of that operation
    obs,       \* generation the controller observed, 0 if none
    chk,       \* log checkpoint: generations launched before it
    crashes, faults

host == <<loaded, disabled, proc, lock, gen, marker>>
disk == <<fs, parents, reserve, ptr>>
ctrl == <<run, origin, mode, at, fx, obs, chk>>
vars == <<host, disk, jnl, mem, ctrl, crashes, faults>>

Hosts == {"legacy", "new"}
Paths == {"appHold", "app", "appOff", "plistHold", "plist", "plistOff"}

----------------------------------------------------------------------------
(* Journal states                                                           *)

State == {"BEGUN", "PROVENANCE_VERIFIED", "LEGACY_SNAPSHOTTED", "NEW_STAGED",
          "PRECUTOVER_VERIFIED", "LEGACY_DISABLED", "LEGACY_STOPPED",
          "LOCK_HANDED_OFF", "NEW_INSTALLED", "NEW_BOOTSTRAPPED",
          "NEW_PID_OBSERVED", "READY_VERIFIED", "COMMITTED",
          "COMMITTED_RECOVERY_STARTED", "COMMITTED_RECOVERY_BOOTSTRAPPED",
          "COMMITTED_RECOVERY_READY", "ROLLBACK_STARTED", "NEW_STOPPED",
          "NEW_DESTINATIONS_CLEARED", "LEGACY_REENABLED",
          "LEGACY_BOOTSTRAPPED", "LEGACY_RECOVERED", "ROLLED_BACK",
          "CRITICAL_FAILURE"}

is_committed_family(s) ==
    s \in {"COMMITTED", "COMMITTED_RECOVERY_STARTED",
           "COMMITTED_RECOVERY_BOOTSTRAPPED", "COMMITTED_RECOVERY_READY"}

\* Mutant: a stopped legacy host is taken for a finished attempt.
requires_rollback_NotHandedOff(s) ==
    ~is_committed_family(s)
    /\ s \notin {"ROLLED_BACK", "CRITICAL_FAILURE", "LOCK_HANDED_OFF"}

requires_rollback(s) ==
    ~is_committed_family(s) /\ s \notin {"ROLLED_BACK", "CRITICAL_FAILURE"}

\* A journal with one of these states is taken to have stopped the legacy host.
saw_legacy_stopped(seen) ==
    seen \cap {"LEGACY_STOPPED", "LOCK_HANDED_OFF", "NEW_INSTALLED",
               "NEW_BOOTSTRAPPED", "NEW_PID_OBSERVED", "READY_VERIFIED",
               "COMMITTED", "COMMITTED_RECOVERY_STARTED",
               "COMMITTED_RECOVERY_BOOTSTRAPPED", "COMMITTED_RECOVERY_READY",
               "ROLLBACK_STARTED", "NEW_STOPPED", "NEW_DESTINATIONS_CLEARED",
               "LEGACY_REENABLED", "LEGACY_BOOTSTRAPPED", "LEGACY_RECOVERED",
               "ROLLED_BACK"} # {}

\* The parent-directory and reserve identities are fields of this one record.
has_cutover_fields(seen) == "PRECUTOVER_VERIFIED" \in seen

NoJournal == [present |-> FALSE, last |-> "BEGUN", seen |-> {}, gen |-> 0,
              tail |-> "clean"]

Recorded(j, s, g) ==
    [j EXCEPT !.last = s, !.seen = @ \cup {s}, !.gen = g]

\* Appending after the unterminated fragment of a failed append glues the new
\* record to it: no later open can parse that line.
AppendTo(j, s, g) ==
    IF j.tail = "clean" THEN Recorded(j, s, g) ELSE [j EXCEPT !.tail = "corrupt"]

\* What a failing append may leave behind: nothing, an unterminated fragment,
\* or the whole record (the write succeeded and a later sync failed).
FailedAppend(j, s, g, kind) ==
    CASE kind = "lost" -> j
      [] kind = "torn" -> [j EXCEPT !.tail = IF @ = "clean" THEN "torn" ELSE "corrupt"]
      [] kind = "kept" -> AppendTo(j, s, g)

\* Journal::open cuts the file at its last newline and parses what is left.
Opened(j) == [j EXCEPT !.tail = IF @ = "torn" THEN "clean" ELSE @]

----------------------------------------------------------------------------
(* What the controller can prove of the host at one moment                  *)

service_state(h) == IF h \in loaded THEN "Loaded" ELSE "Absent"

exact_process_absent(h) == proc[h] = 0

require_no_capture_server_processes == \A h \in Hosts : exact_process_absent(h)

\* Nobody has the lock file open and it can be taken and released.
prove_lock_acquirable == lock = "none"

prove_lock_held_only_by(h) == lock = h /\ proc[h] # 0

require_new_runtime_absent ==
    service_state("new") = "Absent" /\ exact_process_absent("new")

require_new_absent ==
    /\ fs["app"] = "absent" /\ fs["plist"] = "absent"
    /\ require_new_runtime_absent

verify_legacy_running ==
    /\ service_state("legacy") = "Loaded"
    /\ proc["legacy"] # 0 /\ proc["new"] = 0
    /\ prove_lock_held_only_by("legacy")

verify_legacy_disabled(b) == disabled = b

\* The loop of probes ends with the whole legacy runtime proved at once.
wait_for_exact_legacy_readiness ==
    /\ verify_legacy_disabled(FALSE)
    /\ require_new_absent
    /\ verify_legacy_running

verify_recovered_legacy ==
    /\ verify_legacy_disabled(FALSE)
    /\ service_state("new") = "Absent"
    /\ fs["app"] = "absent" /\ fs["plist"] = "absent"
    /\ wait_for_exact_legacy_readiness

legacy_gone == service_state("legacy") = "Absent" /\ exact_process_absent("legacy")

verify_committed_destinations == fs["app"] = "exact" /\ fs["plist"] = "exact"

require_cutover_hidden_paths_absent ==
    \A p \in {"appOff", "plistOff", "appHold", "plistHold"} : fs[p] = "absent"

\* PinnedDirectory::revalidate of both destination parents and the reserve.
cutover_revalidate == parents = "pinned" /\ reserve = "full"

verify_launch_generation(g) ==
    /\ g # 0 /\ service_state("new") = "Loaded"
    /\ proc["new"] = g /\ prove_lock_held_only_by("new")

\* Mutant: any marker in the log counts, whoever wrote it and when.
require_marker_of_any_generation(g) == marker # {}

require_marker_after_checkpoint(g) == g \in marker /\ g > chk

\* Generation, marker and absent legacy host, as proved around COMMIT.
generation_proof(g) ==
    /\ verify_launch_generation(g)
    /\ require_marker_after_checkpoint(g)
    /\ verify_legacy_disabled(TRUE)
    /\ legacy_gone

prebootstrap_proof ==
    /\ verify_committed_destinations
    /\ verify_legacy_disabled(TRUE)
    /\ legacy_gone
    /\ require_new_runtime_absent
    /\ require_no_capture_server_processes
    /\ prove_lock_acquirable

----------------------------------------------------------------------------
(* Plans                                                                    *)

FORWARD_PLAN == <<
    <<"VerifyProvenance", "PROVENANCE_VERIFIED">>,
    <<"SnapshotLegacy", "LEGACY_SNAPSHOTTED">>,
    <<"BuildAndStage", "NEW_STAGED">>,
    <<"VerifyPrecutover", "PRECUTOVER_VERIFIED">>,
    <<"DisableLegacy", "LEGACY_DISABLED">>,
    <<"StopLegacy", "LEGACY_STOPPED">>,
    <<"VerifyLockHandoff", "LOCK_HANDED_OFF">>,
    <<"InstallNew", "NEW_INSTALLED">>,
    <<"BootstrapNew", "NEW_BOOTSTRAPPED">>,
    <<"ObserveNewPid", "NEW_PID_OBSERVED">>,
    <<"VerifyReadiness", "READY_VERIFIED">>,
    <<"Commit", "COMMITTED">> >>

forward_effects(op) ==
    CASE op = "DisableLegacy" -> <<"DisableLegacy", "VerifyLegacyDisabled">>
      [] op = "StopLegacy" -> <<"BootoutLegacy", "WaitLegacyAbsent">>
      [] op = "InstallNew" -> <<"PrepareLogs", "CopyAppInstallHold", "PublishApp",
             "CopyPlistInstallHold", "PublishPlist", "VerifyInstalledDestinations">>
      [] op = "ObserveNewPid" -> <<"ObserveNewPid", "CheckpointGenerationLog">>
      [] op = "VerifyReadiness" -> <<"ObserveFreshMarker", "VerifyStableDeployment">>
      [] op = "Commit" -> <<"VerifyCommitState", "RevalidateCommitFields">>
      [] OTHER -> <<op>>

rollback_state(op) ==
    CASE op = "Begin" -> "ROLLBACK_STARTED"
      [] op = "StopNew" -> "NEW_STOPPED"
      [] op = "ClearNewDestinations" -> "NEW_DESTINATIONS_CLEARED"
      [] op = "EnableLegacy" -> "LEGACY_REENABLED"
      [] op = "BootstrapLegacy" -> "LEGACY_BOOTSTRAPPED"
      [] op = "VerifyLegacy" -> "LEGACY_RECOVERED"
      [] op = "Finish" -> "ROLLED_BACK"
      [] OTHER -> "none"

\* Mutant: the legacy host is enabled before the new destinations are cleared.
rollback_plan_EnableFirst(m) ==
    CASE m = "BeforeLegacyStop" -> <<"Begin", "VerifyBeforeStop", "EnableLegacy",
                                     "VerifyLegacy", "ArchiveEvidence", "Finish">>
      [] m = "Provisional" -> <<"Begin", "StopNew">>
      [] m = "LegacyStillRunning" -> <<"EnableLegacy", "VerifyLegacy",
                                       "ArchiveEvidence", "Finish">>
      [] m = "FullRestore" -> <<"EnableLegacy", "ClearNewDestinations", "BootstrapLegacy",
                                "VerifyLegacy", "ArchiveEvidence", "Finish">>

\* Mutant: before the stop there is taken to be nothing to restore.
rollback_plan_NothingToRestore(m) ==
    CASE m = "BeforeLegacyStop" -> <<"Begin", "VerifyBeforeStop", "ArchiveEvidence", "Finish">>
      [] m = "Provisional" -> <<"Begin", "StopNew">>
      [] m = "LegacyStillRunning" -> <<"EnableLegacy", "VerifyLegacy",
                                       "ArchiveEvidence", "Finish">>
      [] m = "FullRestore" -> <<"ClearNewDestinations", "EnableLegacy", "BootstrapLegacy",
                                "VerifyLegacy", "ArchiveEvidence", "Finish">>

\* drive_rollback: the sequence each mode runs.
rollback_plan(m) ==
    CASE m = "BeforeLegacyStop" -> <<"Begin", "VerifyBeforeStop", "EnableLegacy",
                                     "VerifyLegacy", "ArchiveEvidence", "Finish">>
      [] m = "Provisional" -> <<"Begin", "StopNew">>
      [] m = "LegacyStillRunning" -> <<"EnableLegacy", "VerifyLegacy",
                                       "ArchiveEvidence", "Finish">>
      [] m = "FullRestore" -> <<"ClearNewDestinations", "EnableLegacy", "BootstrapLegacy",
                                "VerifyLegacy", "ArchiveEvidence", "Finish">>

rollback_effects(op) ==
    CASE op = "StopNew" -> <<"BootoutNew", "WaitNewAbsent">>
      [] op = "ClearNewDestinations" -> <<"ClearApp", "ClearPlist">>
      [] OTHER -> <<op>>

committed_recovery_state(op) ==
    CASE op = "BootstrapNew" -> "COMMITTED_RECOVERY_STARTED"
      [] op = "ObserveCurrentGeneration" -> "COMMITTED_RECOVERY_BOOTSTRAPPED"
      [] op = "VerifyStableCurrentGeneration" -> "COMMITTED_RECOVERY_READY"
      [] OTHER -> "none"

committed_recovery_plan == <<
    "VerifyCommittedDestinations", "StopCurrentNew", "BootstrapNew",
    "ObserveCurrentGeneration", "CheckpointCurrentGeneration",
    "ObserveFreshMarker", "VerifyStableCurrentGeneration">>

Op == CASE run = "forward" -> FORWARD_PLAN[at][1]
        [] run = "rollback" /\ mode # "Decide" -> rollback_plan(mode)[at]
        [] run = "recover" -> committed_recovery_plan[at]
        [] OTHER -> "none"

Effects == CASE run = "forward" -> forward_effects(Op)
             [] run = "rollback" /\ mode # "Decide" -> rollback_effects(Op)
             [] run = "recover" -> IF Op = "StopCurrentNew"
                                   THEN <<"BootoutNew", "WaitNewAbsent">> ELSE <<Op>>
             [] OTHER -> <<>>

RecordOf == CASE run = "forward" -> FORWARD_PLAN[at][2]
              [] run = "rollback" /\ mode # "Decide" -> rollback_state(Op)
              [] run = "recover" -> committed_recovery_state(Op)
              [] OTHER -> "none"

PlanLength == CASE run = "forward" -> Len(FORWARD_PLAN)
                [] run = "rollback" /\ mode # "Decide" -> Len(rollback_plan(mode))
                [] run = "recover" -> Len(committed_recovery_plan)
                [] OTHER -> 0

\* The effect the controller is about to perform ("record": the journal append).
Doing == IF fx <= Len(Effects) THEN Effects[fx]
         ELSE IF RecordOf = "none" THEN "skip" ELSE "record"

EffectRuns == {"forward", "rollback", "recover"}
InPlan == run \in EffectRuns /\ mode # "Decide"

----------------------------------------------------------------------------
(* The proofs each effect makes before it acts                              *)

ForwardRequires(e) ==
    CASE e = "VerifyPrecutover" ->
           /\ reserve = "none" /\ parents = "pinned"
           /\ require_cutover_hidden_paths_absent
           /\ verify_legacy_disabled(FALSE) /\ verify_legacy_running /\ require_new_absent
      [] e = "DisableLegacy" ->
           /\ cutover_revalidate /\ require_cutover_hidden_paths_absent
           /\ verify_legacy_running /\ require_new_absent
      [] e = "VerifyLegacyDisabled" -> verify_legacy_disabled(TRUE)
      [] e = "BootoutLegacy" ->
           /\ cutover_revalidate /\ require_cutover_hidden_paths_absent
           /\ verify_legacy_disabled(TRUE) /\ verify_legacy_running /\ require_new_absent
      [] e = "WaitLegacyAbsent" -> legacy_gone /\ require_no_capture_server_processes
      [] e = "VerifyLockHandoff" -> prove_lock_acquirable
      [] e = "PrepareLogs" -> require_new_absent /\ cutover_revalidate
      [] e = "CopyAppInstallHold" ->
           parents = "pinned" /\ require_new_absent /\ fs["appHold"] = "absent"
      [] e = "PublishApp" ->
           parents = "pinned" /\ fs["appHold"] # "absent" /\ fs["app"] = "absent"
      [] e = "CopyPlistInstallHold" -> parents = "pinned" /\ fs["plistHold"] = "absent"
      [] e = "PublishPlist" ->
           parents = "pinned" /\ fs["plistHold"] # "absent" /\ fs["plist"] = "absent"
      [] e = "VerifyInstalledDestinations" -> verify_committed_destinations
      [] e = "BootstrapNew" -> prebootstrap_proof
      [] e = "ObserveNewPid" -> verify_launch_generation(proc["new"])
      [] e = "CheckpointGenerationLog" -> verify_launch_generation(obs)
      [] e = "ObserveFreshMarker" ->
           verify_launch_generation(obs) /\ require_marker_after_checkpoint(obs)
      [] e = "VerifyStableDeployment" ->
           /\ verify_launch_generation(obs) /\ require_marker_after_checkpoint(obs)
           /\ verify_legacy_disabled(TRUE)
      [] e \in {"VerifyCommitState", "RevalidateCommitFields"} -> generation_proof(obs)
      [] OTHER -> TRUE

RollbackRequires(e) ==
    CASE e = "VerifyBeforeStop" -> require_new_absent
      [] e = "WaitNewAbsent" -> require_new_runtime_absent
      [] e = "ClearApp" ->
           /\ require_no_capture_server_processes /\ prove_lock_acquirable
           /\ parents = "pinned" /\ ~(fs["app"] # "absent" /\ fs["appOff"] # "absent")
      [] e = "ClearPlist" ->
           parents = "pinned" /\ ~(fs["plist"] # "absent" /\ fs["plistOff"] # "absent")
      [] e = "EnableLegacy" ->
           IF mode = "FullRestore" THEN prove_lock_acquirable ELSE require_new_absent
      [] e = "BootstrapLegacy" ->
           \/ service_state("legacy") = "Loaded"
           \/ /\ require_new_absent /\ require_no_capture_server_processes
              /\ prove_lock_acquirable
      [] e = "VerifyLegacy" ->
           IF mode = "FullRestore" THEN verify_recovered_legacy
           ELSE wait_for_exact_legacy_readiness
      [] OTHER -> TRUE

RecoveryRequires(e) ==
    CASE e = "VerifyCommittedDestinations" ->
           verify_committed_destinations /\ verify_legacy_disabled(TRUE) /\ legacy_gone
      [] e = "WaitNewAbsent" ->
           /\ require_new_runtime_absent /\ require_no_capture_server_processes
           /\ prove_lock_acquirable
      [] e = "BootstrapNew" -> prebootstrap_proof
      [] e = "ObserveCurrentGeneration" ->
           verify_launch_generation(proc["new"]) /\ proc["new"] # mem.gen
      [] e = "CheckpointCurrentGeneration" -> verify_launch_generation(obs)
      [] e = "ObserveFreshMarker" ->
           verify_launch_generation(obs) /\ require_marker_after_checkpoint(obs)
      [] e = "VerifyStableCurrentGeneration" -> generation_proof(obs)
      [] OTHER -> TRUE

Requires(e) == CASE run = "forward" -> ForwardRequires(e)
                 [] run = "rollback" -> RollbackRequires(e)
                 [] run = "recover" -> RecoveryRequires(e)

----------------------------------------------------------------------------
(* Control                                                                  *)

Quit == /\ run' = "none" /\ origin' = "none" /\ mode' = "none"
        /\ at' = 0 /\ fx' = 0 /\ obs' = 0 /\ chk' = 0

\* The process returns an error to its caller and the operator sees the result.
Exit == Quit /\ mem' = NoJournal

Enter(r, o, m) == /\ run' = r /\ origin' = o /\ mode' = m
                  /\ at' = 1 /\ fx' = 1

\* drive_* moves to the next effect, or to the next operation after the last.
NextEffect == fx' = fx + 1 /\ UNCHANGED <<run, origin, mode, at>>

\* After the last operation: finalise the commit, choose the rollback mode
\* once the new host is proved stopped, or finish.
NextOperation ==
    IF at < PlanLength
    THEN at' = at + 1 /\ fx' = 1 /\ UNCHANGED <<run, origin, mode>>
    ELSE CASE run = "forward" -> Enter("release", origin, "none")
           [] run = "recover" -> Enter("retain", origin, "none")
           [] mode = "Provisional" ->
                Enter("rollback", origin,
                      IF service_state("legacy") = "Loaded" THEN "LegacyStillRunning"
                                                            ELSE "FullRestore")
           [] OTHER -> /\ run' = "none" /\ origin' = "none" /\ mode' = "none"
                       /\ at' = 0 /\ fx' = 0

\* Every error returned to start_new or recover_active.  A failed attempt rolls
\* back; a failed rollback of this attempt is recorded as CRITICAL_FAILURE; a
\* failed rerun only reports.
Fail ==
    IF run \in {"forward", "pointer"} /\ requires_rollback(mem.last)
    THEN /\ Enter("rollback", "start", "Decide")
         /\ UNCHANGED <<mem, jnl, obs, chk>>
    ELSE /\ Exit
         /\ jnl' = IF run = "rollback" /\ origin = "start"
                   THEN AppendTo(jnl, "CRITICAL_FAILURE", mem.gen) ELSE jnl

Spend == faults < MaxFaults /\ faults' = faults + 1

\* An effect that acted, and then succeeded or reported an error after acting.
Acted == \/ NextEffect /\ UNCHANGED <<mem, jnl, obs, chk, faults>>
         \/ Spend /\ Fail

----------------------------------------------------------------------------
(* Effects                                                                  *)

\* An effect that changes nothing: a proof, a wait, a build, a record file.
Inert == {"VerifyProvenance", "SnapshotLegacy", "BuildAndStage",
          "VerifyLegacyDisabled", "WaitLegacyAbsent", "VerifyLockHandoff",
          "PrepareLogs", "VerifyInstalledDestinations", "CheckpointGenerationLog",
          "ObserveFreshMarker", "VerifyStableDeployment", "VerifyCommitState",
          "RevalidateCommitFields", "Begin", "VerifyBeforeStop", "WaitNewAbsent",
          "VerifyLegacy", "Finish", "VerifyCommittedDestinations",
          "CheckpointCurrentGeneration", "VerifyStableCurrentGeneration"}

Prove ==
    /\ InPlan /\ Doing \in Inert /\ Requires(Doing)
    /\ NextEffect
    /\ UNCHANGED <<host, disk, jnl, mem, obs, chk, crashes, faults>>

\* A proof that does not hold, a command that fails before it acts, a timeout.
EffectFails ==
    /\ InPlan /\ Doing \notin {"record", "skip", "ArchiveEvidence"}
    /\ \/ ~Requires(Doing) /\ UNCHANGED faults
       \/ Requires(Doing) /\ Spend
    /\ Fail
    /\ UNCHANGED <<host, disk, crashes>>

\* The reserve is created, filled, synced and pinned by its identity.
RollbackReserve_create == reserve' = "full"

\* CutoverPreflight::open allocates the reserve, then everything is proved; an
\* error after the allocation leaves an unjournaled reserve.
VerifyPrecutover ==
    /\ InPlan /\ Doing = "VerifyPrecutover" /\ Requires("VerifyPrecutover")
    /\ RollbackReserve_create
    /\ Acted
    /\ UNCHANGED <<host, fs, parents, ptr, crashes>>

set_legacy_disabled(b) == disabled' = b

DisableLegacy ==
    /\ InPlan /\ Doing = "DisableLegacy" /\ Requires("DisableLegacy")
    /\ set_legacy_disabled(TRUE)
    /\ Acted
    /\ UNCHANGED <<loaded, proc, lock, gen, marker, disk, crashes>>

\* launchctl bootout returns before the process is gone.
bootout_exact_service(h) == loaded' = loaded \ {h}

BootoutLegacy ==
    /\ InPlan /\ Doing = "BootoutLegacy" /\ Requires("BootoutLegacy")
    /\ bootout_exact_service("legacy")
    /\ Acted
    /\ UNCHANGED <<disabled, proc, lock, gen, marker, disk, crashes>>

\* ditto and copy_exact_file may stop half way.
CopyInstallHold(e, p) ==
    /\ InPlan /\ Doing = e /\ Requires(e)
    /\ \/ fs' = [fs EXCEPT ![p] = "exact"] /\ Acted
       \/ fs' = [fs EXCEPT ![p] = "partial"] /\ Spend /\ Fail
    /\ UNCHANGED <<host, parents, reserve, ptr, crashes>>

rename_exclusive(p, q) == fs' = [fs EXCEPT ![q] = fs[p], ![p] = "absent"]

Publish(e, p, q) ==
    /\ InPlan /\ Doing = e /\ Requires(e)
    /\ rename_exclusive(p, q)
    /\ Acted
    /\ UNCHANGED <<host, parents, reserve, ptr, crashes>>

\* Forward and committed-recovery bootstrap: checkpoint the log, then load.
BootstrapNew ==
    /\ InPlan /\ Doing = "BootstrapNew" /\ Requires("BootstrapNew")
    /\ loaded' = loaded \cup {"new"}
    /\ \/ NextEffect /\ chk' = gen /\ UNCHANGED <<mem, jnl, obs, faults>>
       \/ Spend /\ Fail
    /\ UNCHANGED <<disabled, proc, lock, gen, marker, disk, crashes>>

observe_launch_generation ==
    /\ InPlan /\ Doing \in {"ObserveNewPid", "ObserveCurrentGeneration"}
    /\ Requires(Doing)
    /\ obs' = proc["new"]
    /\ NextEffect
    /\ UNCHANGED <<host, disk, jnl, mem, chk, crashes, faults>>

BootoutNew ==
    /\ InPlan /\ Doing = "BootoutNew"
    /\ bootout_exact_service("new")
    /\ Acted
    /\ UNCHANGED <<disabled, proc, lock, gen, marker, disk, crashes>>

\* clear_new_live_destinations: one rename per destination that is present.
ClearDestination(e, p, q) ==
    /\ InPlan /\ Doing = e /\ Requires(e)
    /\ IF fs[p] = "absent" THEN UNCHANGED fs ELSE rename_exclusive(p, q)
    /\ Acted
    /\ UNCHANGED <<host, parents, reserve, ptr, crashes>>

EnableLegacy ==
    /\ InPlan /\ Doing = "EnableLegacy" /\ Requires("EnableLegacy")
    /\ set_legacy_disabled(FALSE)
    /\ Acted
    /\ UNCHANGED <<loaded, proc, lock, gen, marker, disk, crashes>>

bootstrap_exact_plist(h) == loaded' = loaded \cup {h}

BootstrapLegacy ==
    /\ InPlan /\ Doing = "BootstrapLegacy" /\ Requires("BootstrapLegacy")
    /\ bootstrap_exact_plist("legacy")
    /\ Acted
    /\ UNCHANGED <<disabled, proc, lock, gen, marker, disk, crashes>>

\* archive_failed_new_best_effort: each hidden copy is preserved or left.
archive_failed_new_best_effort ==
    /\ InPlan /\ Doing = "ArchiveEvidence"
    /\ \E done \in SUBSET {"appOff", "plistOff", "appHold", "plistHold"} :
         fs' = [p \in Paths |-> IF p \in done THEN "absent" ELSE fs[p]]
    /\ NextEffect
    /\ UNCHANGED <<host, parents, reserve, ptr, jnl, mem, obs, chk, crashes, faults>>

----------------------------------------------------------------------------
(* Journal records                                                          *)

\* The fields of a record: the generation from NEW_PID_OBSERVED on; a committed
\* recovery journals its own generation under other names.
GenField(s) == IF s \in {"NEW_PID_OBSERVED", "READY_VERIFIED", "COMMITTED"}
               THEN obs ELSE mem.gen

SkipRecord ==
    /\ InPlan /\ Doing = "skip"
    /\ NextOperation
    /\ UNCHANGED <<host, disk, jnl, mem, obs, chk, crashes, faults>>

transition ==
    /\ InPlan /\ Doing = "record"
    /\ jnl' = AppendTo(jnl, RecordOf, GenField(RecordOf))
    /\ NextOperation
    /\ mem' = IF run' = "none" THEN NoJournal ELSE Recorded(mem, RecordOf, GenField(RecordOf))
    /\ IF run' = "none" THEN obs' = 0 /\ chk' = 0 ELSE UNCHANGED <<obs, chk>>
    /\ UNCHANGED <<host, disk, crashes, faults>>

\* The append returns an error: the running controller still believes the
\* previous state, whatever the file now holds.
TransitionFails(kind) ==
    /\ InPlan /\ Doing = "record" /\ Spend
    /\ LET left == FailedAppend(jnl, RecordOf, GenField(RecordOf), kind)
       IN  IF run = "forward" /\ requires_rollback(mem.last)
           THEN /\ Enter("rollback", "start", "Decide")
                /\ jnl' = left /\ UNCHANGED <<mem, obs, chk>>
           ELSE /\ Exit
                /\ jnl' = IF run = "rollback" /\ origin = "start"
                          THEN AppendTo(left, "CRITICAL_FAILURE", mem.gen) ELSE left
    /\ UNCHANGED <<host, disk, crashes>>

----------------------------------------------------------------------------
(* Entry points                                                             *)

\* execute with no active pointer: every earlier tombstone and the ready legacy
\* host are proved, then start_new creates the one evidence directory of this
\* version and its journal.  A second fresh attempt cannot create it again.
start_new ==
    /\ run = "none" /\ ptr = "none"
    /\ wait_for_exact_legacy_readiness
    /\ ~jnl.present
    /\ jnl' = [NoJournal EXCEPT !.present = TRUE, !.seen = {"BEGUN"}]
    /\ mem' = jnl'
    /\ Enter("pointer", "start", "none")
    /\ UNCHANGED <<host, disk, obs, chk, crashes, faults>>

\* write_active: create, write and publish the pointer.
drive_active_pointer ==
    /\ run = "pointer"
    /\ ptr' = CASE ptr = "none" -> "empty" [] ptr = "empty" -> "pending"
                [] ptr = "pending" -> "active"
    /\ IF ptr = "pending" THEN Enter("forward", "start", "none")
                          ELSE UNCHANGED <<run, origin, mode, at, fx>>
    /\ UNCHANGED <<host, fs, parents, reserve, jnl, mem, obs, chk, crashes, faults>>

PointerFails ==
    /\ run = "pointer" /\ Spend
    /\ Fail
    /\ UNCHANGED <<host, disk, crashes>>

\* A written pending pointer is published, an empty one is refused.
recover_active_pointer == ptr \in {"pending", "active"} /\ ptr' = "active"

\* execute with a pointer: recover_active dispatches on the reopened journal.
recover_active ==
    /\ run = "none" /\ recover_active_pointer
    /\ Opened(jnl).tail = "clean"
    /\ jnl' = Opened(jnl)
    /\ mem' = Opened(jnl)
    /\ \/ /\ is_committed_family(jnl.last)
          /\ gen < MaxGen /\ ("new" \in loaded => proc["new"] # 0)  \* bound
          /\ Enter("commitRelease", "rerun", "none")
       \/ requires_rollback(jnl.last) /\ Enter("rollback", "rerun", "Decide")
    /\ UNCHANGED <<host, fs, parents, reserve, obs, chk, crashes, faults>>

\* rollback: release the reserve (a failure is only reported), decide whether the
\* legacy stop boundary was crossed, and require the identities a post-stop
\* rollback needs.
release_rollback_reserve ==
    reserve' = IF reserve = "none" THEN "none" ELSE "released"

rollback ==
    /\ run = "rollback" /\ mode = "Decide"
    /\ release_rollback_reserve
    /\ LET crossed == saw_legacy_stopped(mem.seen) \/ service_state("legacy") = "Absent"
       IN  IF crossed /\ ~has_cutover_fields(mem.seen)
           THEN Fail
           ELSE /\ Enter("rollback", origin, IF crossed THEN "Provisional"
                                                        ELSE "BeforeLegacyStop")
                /\ UNCHANGED <<mem, jnl, obs, chk>>
    /\ UNCHANGED <<host, fs, parents, ptr, crashes, faults>>

\* run_transaction after the plan: release the reserve, write the result, then
\* prove the retained pointer around one more generation proof.
release_after_commit ==
    /\ run = "release"
    /\ \/ /\ generation_proof(obs)
          /\ release_rollback_reserve
          /\ Enter("retain", origin, "none")
          /\ UNCHANGED <<mem, jnl, obs, chk>>
       \/ Fail /\ UNCHANGED reserve
    /\ UNCHANGED <<host, fs, parents, ptr, crashes, faults>>

\* verify_committed_runtime starts by releasing the journaled reserve.
verify_committed_runtime ==
    /\ run = "commitRelease"
    /\ release_rollback_reserve
    /\ Enter("recover", origin, "none")
    /\ UNCHANGED <<host, fs, parents, ptr, jnl, mem, obs, chk, crashes, faults>>

verify_retained_active_pointer_after_commit ==
    /\ run = "retain"
    /\ \/ ptr = "active" /\ generation_proof(obs)
       \/ ~generation_proof(obs)
    /\ Exit
    /\ UNCHANGED <<host, disk, jnl, crashes, faults>>

----------------------------------------------------------------------------
(* Environment                                                              *)

\* launchd starts a loaded host; a host that cannot take the lock exits again.
HostStarts(h) ==
    /\ h \in loaded /\ proc[h] = 0 /\ lock = "none"
    /\ h = "new" => fs["app"] = "exact" /\ gen < MaxGen
    /\ gen' = IF h = "new" THEN gen + 1 ELSE gen
    /\ proc' = [proc EXCEPT ![h] = IF h = "new" THEN gen + 1 ELSE 1]
    /\ lock' = h
    /\ UNCHANGED <<loaded, disabled, marker, disk, jnl, mem, ctrl, crashes, faults>>

\* A booted-out host exits; a loaded new host may also crash (KeepAlive).
HostExits(h) ==
    /\ proc[h] # 0
    /\ h \in loaded => (h = "new" /\ gen < MaxGen - 1)
    /\ proc' = [proc EXCEPT ![h] = 0]
    /\ lock' = IF lock = h THEN "none" ELSE lock
    /\ UNCHANGED <<loaded, disabled, gen, marker, disk, jnl, mem, ctrl, crashes, faults>>

HostLogsMarker ==
    /\ proc["new"] # 0 /\ proc["new"] \notin marker
    /\ marker' = marker \cup {proc["new"]}
    /\ UNCHANGED <<loaded, disabled, proc, lock, gen, disk, jnl, mem, ctrl, crashes, faults>>

\* A directory the transaction pinned is replaced by another one.
ParentReplaced ==
    /\ Substitution /\ parents = "pinned" /\ jnl.present
    /\ parents' = "replaced"
    /\ UNCHANGED <<host, fs, reserve, ptr, jnl, mem, ctrl, crashes, faults>>

\* The controller dies.  An append or copy under way may be left half done.
ControllerDies ==
    /\ run # "none" /\ crashes < MaxCrashes /\ crashes' = crashes + 1
    /\ Exit
    /\ jnl' \in {jnl} \cup (IF InPlan /\ Doing = "record" /\ jnl.tail = "clean"
                            THEN {[jnl EXCEPT !.tail = "torn"]} ELSE {})
    /\ fs' \in {fs} \cup (IF InPlan /\ Doing = "CopyAppInstallHold" /\ fs["appHold"] = "absent"
                          THEN {[fs EXCEPT !["appHold"] = "partial"]} ELSE {})
    /\ UNCHANGED <<host, parents, reserve, ptr, faults>>

\* A reboot ends every process; at login launchd loads every plist that is in
\* place and whose label is not disabled.
Reboot ==
    /\ fs["plist"] # "absent" => gen < MaxGen  \* bound
    /\ crashes < MaxCrashes /\ crashes' = crashes + 1
    /\ Exit
    /\ loaded' = (IF disabled THEN {} ELSE {"legacy"})
                 \cup (IF fs["plist"] = "absent" THEN {} ELSE {"new"})
    /\ proc' = [h \in Hosts |-> 0] /\ lock' = "none"
    /\ UNCHANGED <<disabled, gen, marker, disk, jnl, faults>>

Init ==
    /\ loaded = {"legacy"} /\ disabled = FALSE
    /\ proc = [h \in Hosts |-> IF h = "legacy" THEN 1 ELSE 0]
    /\ lock = "legacy" /\ gen = 0 /\ marker = {}
    /\ fs = [p \in Paths |-> "absent"] /\ parents = "pinned"
    /\ reserve = "none" /\ ptr = "none"
    /\ jnl = NoJournal /\ mem = NoJournal
    /\ run = "none" /\ origin = "none" /\ mode = "none" /\ at = 0 /\ fx = 0
    /\ obs = 0 /\ chk = 0 /\ crashes = 0 /\ faults = 0

Controller ==
    \/ start_new \/ drive_active_pointer \/ recover_active \/ rollback
    \/ Prove \/ VerifyPrecutover \/ DisableLegacy \/ BootoutLegacy
    \/ CopyInstallHold("CopyAppInstallHold", "appHold")
    \/ CopyInstallHold("CopyPlistInstallHold", "plistHold")
    \/ Publish("PublishApp", "appHold", "app")
    \/ Publish("PublishPlist", "plistHold", "plist")
    \/ BootstrapNew \/ observe_launch_generation
    \/ BootoutNew \/ EnableLegacy \/ BootstrapLegacy
    \/ ClearDestination("ClearApp", "app", "appOff")
    \/ ClearDestination("ClearPlist", "plist", "plistOff")
    \/ archive_failed_new_best_effort
    \/ SkipRecord \/ transition
    \/ release_after_commit \/ verify_committed_runtime
    \/ verify_retained_active_pointer_after_commit

Failures == EffectFails \/ PointerFails \/ \E kind \in AppendFaults : TransitionFails(kind)

Environment ==
    \/ \E h \in Hosts : HostStarts(h) \/ HostExits(h)
    \/ HostLogsMarker \/ ParentReplaced

Next == Controller \/ Failures \/ Environment \/ ControllerDies \/ Reboot

Spec == Init /\ [][Next]_vars

----------------------------------------------------------------------------
(* Properties                                                               *)

JournalType == [present : BOOLEAN, last : State, seen : SUBSET State,
                gen : 0..MaxGen, tail : {"clean", "torn", "corrupt"}]

\* Every variable keeps its type.
TypeOK ==
    /\ loaded \subseteq Hosts /\ disabled \in BOOLEAN
    /\ proc \in [Hosts -> 0..(MaxGen + 1)] /\ lock \in Hosts \cup {"none"}
    /\ gen \in 0..MaxGen /\ marker \subseteq 1..MaxGen
    /\ fs \in [Paths -> {"absent", "partial", "exact"}]
    /\ parents \in {"pinned", "replaced"}
    /\ reserve \in {"none", "full", "released"}
    /\ ptr \in {"none", "empty", "pending", "active"}
    /\ jnl \in JournalType /\ mem \in JournalType
    /\ run \in EffectRuns \cup {"none", "pointer", "release", "commitRelease", "retain"}
    /\ origin \in {"none", "start", "rerun"}
    /\ mode \in {"none", "Decide", "BeforeLegacyStop", "Provisional",
                 "LegacyStillRunning", "FullRestore"}
    /\ at \in 0..12 /\ fx \in 0..7
    /\ obs \in 0..MaxGen /\ chk \in 0..MaxGen
    /\ crashes \in 0..MaxCrashes /\ faults \in 0..MaxFaults

\* Legacy and new host are never loaded together, and no reboot can load them
\* together either: while the new plist is in place the legacy label is
\* disabled, at every interruption point of install and rollback.
NeverBothHosts ==
    /\ ~(Hosts \subseteq loaded)
    /\ fs["plist"] # "absent" => disabled

\* Whenever the legacy host was taken out of service, the durable journal
\* already holds the directory identities a post-stop rollback requires, so no
\* interruption leaves a rollback without them.
RollbackIdentitiesJournaled ==
    disabled \/ "legacy" \notin loaded => has_cutover_fields(jnl.seen)

\* A durable ROLLED_BACK means the legacy host is enabled and loaded and nothing
\* of the new one is live, then and after any reboot.
RolledBackRestores ==
    jnl.last = "ROLLED_BACK" =>
        /\ ~disabled /\ loaded = {"legacy"}
        /\ fs["app"] = "absent" /\ fs["plist"] = "absent"

\* A durable COMMITTED means the new host is installed complete and the legacy
\* host is disabled and unloaded, through every later recovery.
CommittedStands ==
    is_committed_family(jnl.last) =>
        /\ disabled /\ "legacy" \notin loaded
        /\ verify_committed_destinations
        /\ reserve # "none"

\* At every interruption point the durable journal describes the machine: it can
\* be rolled back whenever the legacy host is out of service, and what it says
\* of a finished transaction is true of both hosts.
JournalTruthful ==
    /\ TypeOK
    /\ RollbackIdentitiesJournaled
    /\ RolledBackRestores
    /\ CommittedStands

\* COMMITTED names a generation whose online marker appeared after the
\* prelaunch checkpoint while the legacy host was gone, although launchd may
\* restart the new host between any two proofs.
CommitProved ==
    [][jnl'.last = "COMMITTED" /\ jnl.last # "COMMITTED" =>
         /\ jnl'.gen \in marker /\ jnl'.gen > chk
         /\ "legacy" \notin loaded /\ disabled]_vars

\* A committed recovery is ready only for a generation launched after the one
\* COMMITTED names.
RecoveryIsFresh ==
    [][jnl'.last = "COMMITTED_RECOVERY_READY" /\ jnl.last # jnl'.last =>
         obs \in marker /\ obs > jnl.gen]_vars

\* The commit and a committed recovery each rest on a marker of the generation
\* they name, never on one an earlier generation left in the log.
ReadinessFresh == CommitProved /\ RecoveryIsFresh

\* A durable commit is never rolled back (HOST_MIGRATION.md, "the durable COMMIT
\* journal record is the sole commit point").
CommitIsFinal ==
    [][is_committed_family(jnl.last) => is_committed_family(jnl'.last)]_vars

\* The rollback reserve is given up only by a rollback or after the retained
\* pointer was proved (HOST_MIGRATION.md, "truncated only after rollback or
\* after a durable commit and retained-pointer proof").
ReserveKeptForProof ==
    [][reserve = "full" /\ reserve' = "released" => run \in {"rollback", "retain"}]_vars

\* An interrupted journal can always be reopened (the controller cuts a partial
\* final record off at the last newline).
JournalReopens == jnl.tail # "corrupt"

\* A rollback that was durably started is finished, by a rerun if it is
\* interrupted (self_test_rollback: recovery from every rollback boundary).
RollbackFinishes ==
    jnl.last = "ROLLBACK_STARTED" /\ ptr = "active"
        ~> jnl.last \in {"ROLLED_BACK", "CRITICAL_FAILURE"}

Served == \/ ~disabled /\ proc["legacy"] # 0
          \/ disabled /\ proc["new"] # 0

\* If the controller is interrupted with the legacy host out of service, reruns
\* bring one of the two hosts back, unless a rollback failed and was recorded
\* as critical or a directory the rollback is pinned to was replaced.
ServiceReturns ==
    ~Served ~> (Served \/ jnl.last = "CRITICAL_FAILURE" \/ parents # "pinned")

\* The scheduling liveness needs: the controller runs and an interrupted
\* transaction is rerun; launchd starts loaded hosts and ends booted-out ones;
\* a running host logs its marker.
Fairness ==
    /\ WF_vars(Controller)
    /\ WF_vars(EffectFails /\ UNCHANGED faults)
    /\ \A h \in Hosts : SF_vars(HostStarts(h)) /\ WF_vars(h \notin loaded /\ HostExits(h))
    /\ SF_vars(HostLogsMarker)

FairSpec == Spec /\ Fairness

Cutover == INSTANCE HostCutover WITH
    outcome <- IF is_committed_family(jnl.last) THEN "committed"
               ELSE IF jnl.last = "ROLLED_BACK" THEN "rolledBack"
               ELSE IF jnl.last = "CRITICAL_FAILURE" THEN "critical" ELSE "open",
    legacyEnabled <- ~disabled,
    newInstalled <- fs["plist"] # "absent"

\* The journaled, crash-tolerant transaction implements the atomic decision
\* HostCutover describes.
ImplementsCutover == Cutover!Spec
=============================================================================
