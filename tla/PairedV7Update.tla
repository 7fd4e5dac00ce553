--------------------------- MODULE PairedV7Update ---------------------------
(* The v7 update at work: the controller interprets its plan command by      *)
(* command and drives the driver brokers, their proxies act on their own     *)
(* when its pipe closes, launchd and the host run beside them, and any of    *)
(* the user's processes, or the Mac, may die.                                *)
(*                                                                           *)
(* ctl is the process that holds the update transaction lock: the controller *)
(* or, after it is lost, the proxy that completes the rollback.              *)
EXTENDS DriverBroker

CONSTANTS
    Killed,   \* what may die: "main", "broker", "restore", "machine"
    Operator, \* asks for a rollback "early", before the proxies have finished,
              \* only "late", or "never"
    Disturbed \* retained evidence of which some may be disturbed

ASSUME UpdateAssumption ==
    /\ Killed \subseteq {"main", "broker", "restore", "machine"}
    /\ Operator \in {"early", "late", "never"} /\ Disturbed \subseteq Retentions

allVars == <<vars, brokers>>

Running == ctl.who # "none"

Plan == CASE ctl.run = "forward" -> perform_paired_v7_update
          [] ctl.run = "unwind" -> unwind_transaction
          [] ctl.run = "undoCommit" -> rollback_ready_commit_failure
          [] ctl.run = "rollback" -> rollback_to_current_baseline
          [] ctl.run = "retire" -> already_rolled_back

Cmd == IF Running /\ ctl.run # "install" THEN Plan[ctl.at] ELSE "none"

Skips == ctl.run \in {"rollback", "unwind", "undoCommit"} /\ ~due(Cmd)

Gates == {"boundary", "preStop", "pointed", "stopped", "currentHeld", "probes",
          "installed", "ready", "committable", "resumed", "guarded", "held", "undone",
          "driverRestored", "resumable", "topology", "currentApp", "runtime", "pairing"}

----------------------------------------------------------------------------
(* How a plan goes on, ends and fails                                        *)

\* The end of a process closes its pipes and releases its locks.
Leaves(code) ==
    /\ ctl' = Idled
    /\ IF ctl.who = "main"
       THEN /\ cli' = [p \in Sides |-> IF cli[p].at = "none" THEN cli[p]
                                       ELSE [cli[p] EXCEPT !.at = "gone"]]
            /\ UNCHANGED px
       ELSE UNCHANGED cli /\ px' = [px EXCEPT ![ctl.who] = Exit(@, code)]

Dropped(k, p) == [k EXCEPT ![p].at = IF @ \in {"open", "closed"} THEN "dropped" ELSE @]

\* The error path of execute_paired_v7_update.
Outer(c, e) ==
    CASE c.state = "COMMITTED" -> ev' = write_result(e, 7, "warning") /\ Leaves("err")
      [] c.state # "COMMITTED" /\ crossed_stop(c.state, e) ->
           /\ ev' = IF e[7].ptr = "active" THEN e
                    ELSE retire_exact_retry_v7_pending_pointer_after_parent_crash(e)
           /\ ctl' = [c EXCEPT !.run = "rollback", !.why = "failure", !.at = 1, !.sent = FALSE,
                               !.locked = FALSE,
                               !.exp = IF e[7].ptr = "active" THEN "present" ELSE "absent"]
           /\ cli' = Dropped(cli, "broker") /\ UNCHANGED px
      [] OTHER ->
           /\ ev' = write_result([release_rollback_reserve(e, 7)
                                    EXCEPT ![7] = IF install_hold_archivable
                                                  THEN archive_v7_install_hold_root(@) ELSE @],
                                 7, "failed")
           /\ Leaves("err")

\* A command fails: the transaction is unwound with its broker, a commit is
\* undone, a failed rollback is journaled as critical.
Fails(c, e) ==
    LET critical == c.healthy /\ validate_v7_transition(c.state, "CRITICAL_FAILURE")
    IN CASE ctl.run = "forward" /\ InTransaction(ctl.at) ->
              /\ ctl' = [c EXCEPT !.run = "unwind", !.at = 1, !.sent = FALSE, !.locked = FALSE]
              /\ ev' = e /\ UNCHANGED <<cli, px>>
         [] ctl.run = "forward" /\ Cmd \in {"PREPARE_COMMIT", "committable", "COMMITTED"} ->
              /\ ctl' = [c EXCEPT !.run = "undoCommit", !.at = 1, !.sent = FALSE]
              /\ ev' = e /\ UNCHANGED <<cli, px>>
         [] ctl.run = "forward" /\ Cmd = "COMMIT" /\ c.stopped ->
              /\ ctl' = [c EXCEPT !.stopped = FALSE] /\ ev' = e /\ UNCHANGED px
              /\ cli' = [cli EXCEPT !["broker"].at = "closed"]
         [] ctl.run = "rollback" /\ ctl.why = "failure"
            /\ Cmd \notin {"resultRolledBack", "retirePointer"} ->
              /\ ev' = write_result(IF critical
                                    THEN [e EXCEPT ![7] = V7Journal_record(@, "CRITICAL_FAILURE")]
                                    ELSE e, 7, "critical")
              /\ Leaves("err")
         [] ctl.run \in {"rollback", "retire"}
            /\ ~(ctl.why = "failure" /\ Cmd \notin {"resultRolledBack", "retirePointer"}) ->
              ev' = e /\ Leaves("err")
         [] OTHER -> Outer(c, e)

Fail(e) == Fails(ctl, e)

\* On to the next command; an unwound transaction ends in the error path.
Goes(c, e) ==
    IF c.at < Len(Plan)
    THEN ctl' = [c EXCEPT !.at = @ + 1, !.sent = FALSE] /\ ev' = e /\ UNCHANGED <<cli, px>>
    ELSE IF ctl.run \in {"unwind", "undoCommit"} THEN Outer(c, e)
    ELSE ev' = e /\ Leaves("ok")

Advance(e) == Goes(ctl, e) /\ UNCHANGED faults

Acted(e) == \/ Advance(e)
            \/ Spend /\ \E f \in {ev, e} : Fail(f)

----------------------------------------------------------------------------
(* Entry points                                                              *)

Begin ==
    /\ ~Running /\ execute_paired_v7_update
    /\ ctl' = [Idled EXCEPT !.who = "main", !.run = "install"] /\ seen' = TRUE
    /\ UNCHANGED <<app, job, proc, marked, child, pairing, repo, ev, crashes, faults, brokers>>

\* The root-owned controller is completed from wherever an earlier run left it,
\* then the evidence directory and its journal are created.
Install ==
    /\ ctl.who = "main" /\ ctl.run = "install"
    /\ IF kit # "sealed"
       THEN /\ kit' = bootstrap_root_owned_v7_controller_for_prepare
            /\ UNCHANGED <<ctl, ev, cli, px, faults>>
       ELSE /\ UNCHANGED kit
            /\ \/ /\ require_v7_retry_admission_ready
                  /\ ev' = [ev EXCEPT ![7] = FreshEvidence]
                  /\ ctl' = [ctl EXCEPT !.run = "forward", !.at = 1] /\ UNCHANGED <<cli, px, faults>>
               \/ /\ IF require_v7_retry_admission_ready THEN Spend ELSE UNCHANGED faults
                  /\ UNCHANGED ev /\ Leaves("err")
    /\ UNCHANGED <<app, job, proc, seen, marked, child, pairing, repo, crashes, intact, drv, audio, rt>>

Quiet == \A p \in Sides : px[p].at = "off" /\ rt[p].at = "off"

\* The operator's rollback of an interrupted or committed update.
Request ==
    /\ ~Running /\ Operator # "never" /\ (Operator = "late" => Quiet)
    /\ rollback_existing_paired_v7_update
    /\ ev' = [ev EXCEPT ![7] = V7Journal_open(@)]
    /\ ctl' = [Idled EXCEPT !.who = "main", !.why = "explicit", !.at = 1, !.exp = "present",
                            !.state = ev[7].state,
                            !.run = IF ev[7].state = "ROLLED_BACK" THEN "retire" ELSE "rollback"]
    /\ seen' = FALSE
    /\ UNCHANGED <<app, job, proc, marked, child, pairing, repo, crashes, faults, brokers>>

----------------------------------------------------------------------------
(* Commands                                                                  *)

host == <<app, job, proc, seen, marked, child, pairing, repo, crashes>>
root == <<kit, intact, drv, audio, rt>>

Skip == /\ Running /\ Skips /\ Advance(ev) /\ UNCHANGED <<host, root>>

CanAppend == ctl.healthy /\ validate_v7_transition(ctl.state, Cmd)

Record ==
    /\ Cmd \in V7States /\ ~Skips
    /\ \/ /\ CanAppend
          /\ Goes([ctl EXCEPT !.state = Cmd], [ev EXCEPT ![7] = V7Journal_record(@, Cmd)])
          /\ UNCHANGED faults
       \/ \E w \in (IF CanAppend THEN AppendFaults ELSE {"refused"}) :
            /\ IF w = "refused" THEN UNCHANGED faults ELSE Spend
            /\ LET e == CASE w = "torn" -> [ev EXCEPT ![7].tail = Cmd]
                          [] w = "kept" -> [ev EXCEPT ![7] = V7Journal_record(@, Cmd)]
                          [] OTHER -> ev
               IN Fails([ctl EXCEPT !.healthy = @ /\ w \in {"refused", "restored"}], e)
    /\ UNCHANGED <<host, root>>

\* The failing transaction reads back what its proxy may have journaled.
Reopen ==
    /\ Cmd = "reopen"
    /\ IF parse_v7_journal
       THEN Goes([ctl EXCEPT !.state = ev[7].state, !.healthy = TRUE],
                 [ev EXCEPT ![7] = V7Journal_open(@)])
       ELSE Fail(ev)
    /\ UNCHANGED <<host, root, faults>>

Check ==
    /\ Cmd \in Gates
    /\ \/ Holds(Cmd) /\ Advance(ev)
       \/ IF Holds(Cmd) THEN Spend /\ Fail(ev) ELSE UNCHANGED faults /\ Fail(ev)
    /\ UNCHANGED <<host, root>>

Waits == {"drained", "deployment", "baselineDeployment"}
Awaited(g) == IF g = "drained" THEN require_no_capture_servers /\ require_service_absent ELSE Holds(g)

\* What the wait is for cannot come about any more.
Hopeless(g) == IF g = "drained" THEN job ELSE ~seen

Wait ==
    /\ Cmd \in Waits
    /\ \/ Awaited(Cmd) /\ Advance(ev)
       \/ IF Hopeless(Cmd) THEN UNCHANGED faults /\ Fail(ev) ELSE Spend /\ Fail(ev)
    /\ UNCHANGED <<host, root>>

Observe ==
    /\ Cmd = "observe"
    /\ \/ job /\ proc = app /\ proc # Nothing /\ seen' = TRUE /\ Advance(ev)
       \/ /\ IF job THEN Spend ELSE UNCHANGED faults
          /\ Fail(ev) /\ UNCHANGED seen
    /\ UNCHANGED <<app, job, proc, marked, child, pairing, repo, crashes, root>>

Written(c) ==
    CASE c = "export" -> [ev EXCEPT ![7] = export_v7_source(@)]
      [] c = "build" -> [ev EXCEPT ![7] = build_and_verify_v7_staged_app(@)]
      [] c = "reference" -> [ev EXCEPT ![7] = prepare_v7_deployment_reference(@)]
      [] c = "driver" -> [ev EXCEPT ![7] = materialize_reviewed_production_driver(@)]
      [] c = "probeBinaries" -> [ev EXCEPT ![7] = build_and_verify_v7_probe_binaries(@)]
      [] c = "prepareHold" -> [ev EXCEPT ![7] = prepare_v7_install_hold(@)]
      [] c = "reserve" -> allocate_rollback_reserve(ev, 7)
      [] c = "pendingPointer" -> [ev EXCEPT ![7].ptr = "pending"]
      [] c = "activePointer" -> [ev EXCEPT ![7].ptr = "active"]
      [] c = "removeHoldRoot" -> [ev EXCEPT ![7].hold = "absent"]
      [] c = "releaseReserve" -> release_rollback_reserve(ev, 7)
      [] c = "archiveHold" -> [ev EXCEPT ![7] = archive_v7_install_hold_root(@)]
      [] c = "resultSuccess" -> write_result(ev, 7, "success")
      [] c = "resultRolledBack" -> write_result(ev, 7, "rolledBack")
      [] c = "ensureResult" -> ensure_rolled_back_result(ev, 7)
      [] c = "retirePointer" ->
           IF ctl.exp = "present" THEN retire_update_pointer_at(ev, 7) ELSE ev

Writes == {"export", "build", "reference", "driver", "probeBinaries", "prepareHold",
           "reserve", "pendingPointer", "activePointer", "removeHoldRoot", "releaseReserve",
           "archiveHold", "resultSuccess", "resultRolledBack", "ensureResult", "retirePointer"}

\* publish_v7_active_pointer wants no pointer before and its own after.
Guarded(c) ==
    CASE c = "pendingPointer" -> require_current_retry_v7_layout("absent")
      [] c = "archiveHold" -> install_hold_archivable
      [] c = "retirePointer" -> ctl.exp = "present" => require_current_retry_v7_layout("present")
      [] OTHER -> TRUE

Write ==
    /\ Cmd \in Writes
    /\ CASE Cmd = "resultSuccess" -> Advance(Written(Cmd)) \/ (Spend /\ Goes(ctl, ev))
         [] ~Guarded(Cmd) -> Fail(ev) /\ UNCHANGED faults
         [] OTHER -> Acted(Written(Cmd))
    /\ UNCHANGED <<host, root>>

Move(needed, a, e) ==
    IF needed
    THEN \/ app' = a /\ Advance(e)
         \/ Spend /\ \/ app' = a /\ Fail(e)
                     \/ app' = app /\ Fail(ev)
    ELSE UNCHANGED app /\ Advance(ev)

MoveApp ==
    /\ \/ Cmd = "holdCurrent" /\ Move(TRUE, Nothing, [ev EXCEPT ![7].kept = app])
       \/ Cmd = "publishNew" /\ Move(TRUE, 7, [ev EXCEPT ![7].hold = "empty"])
       \/ /\ Cmd = "archiveNew"
          /\ Move(ev[7].kept # Nothing /\ app # Nothing, Nothing, [ev EXCEPT ![7].failed = app])
       \/ /\ Cmd = "restoreCurrent"
          /\ Move(ev[7].kept # Nothing, ev[7].kept, [ev EXCEPT ![7].kept = Nothing])
    /\ UNCHANGED <<job, proc, seen, marked, child, pairing, repo, crashes, root>>

Launchctl ==
    /\ LET Loads(b) == \/ job' = b /\ Advance(ev)
                       \/ Spend /\ job' \in {job, b} /\ Fail(ev)
       IN \/ Cmd = "bootout" /\ Loads(FALSE)
          \/ Cmd = "bootstrap" /\ Loads(TRUE)
          \/ /\ Cmd = "bootoutIfLoaded"
             /\ IF bootout_paired_v7_job_if_loaded THEN Loads(FALSE)
                ELSE UNCHANGED <<job, faults>> /\ Fail(ev)
    /\ UNCHANGED <<app, proc, seen, marked, child, pairing, repo, crashes, root>>

\* While unwinding, a host that will not stop is only remembered.
TryStop ==
    /\ ~Skips
    /\ \/ /\ Cmd = "tryBootout"
          /\ \/ /\ bootout_paired_v7_job_if_loaded /\ job' = FALSE /\ Advance(ev)
             \/ /\ IF bootout_paired_v7_job_if_loaded THEN Spend ELSE UNCHANGED faults
                /\ UNCHANGED job /\ Goes([ctl EXCEPT !.stopped = FALSE], ev)
       \/ /\ Cmd = "tryDrain" /\ UNCHANGED job
          /\ \/ (require_no_capture_servers \/ ~ctl.stopped) /\ Advance(ev)
             \/ /\ ctl.stopped /\ IF job THEN UNCHANGED faults ELSE Spend
                /\ Goes([ctl EXCEPT !.stopped = FALSE], ev)
    /\ UNCHANGED <<app, proc, seen, marked, child, pairing, repo, crashes, root>>

HostLock ==
    /\ \/ /\ Cmd = "takeLock"
          /\ \/ /\ acquire_unowned_shared_lock
                /\ Goes([ctl EXCEPT !.locked = TRUE], ev) /\ UNCHANGED faults
             \/ /\ IF acquire_unowned_shared_lock THEN Spend ELSE UNCHANGED faults
                /\ Fail(ev)
       \/ Cmd = "dropLock" /\ Goes([ctl EXCEPT !.locked = FALSE], ev) /\ UNCHANGED faults
    /\ UNCHANGED <<host, root>>

----------------------------------------------------------------------------
(* Commands to the broker                                                    *)

Side == IF ctl.run = "rollback" THEN "restore" ELSE "broker"

Requests7 == {"PING", "PUBLISH", "PREPARE_COMMIT", "COMMIT", "undo", "RESTORE"}

\* restore_or_abandon goes by what this client has seen published.
Request7 == CASE Cmd = "undo" -> IF cli["broker"].pub THEN "ROLLBACK" ELSE "ABANDON"
              [] OTHER -> Cmd

Marker == IF Cmd = "RESTORE" THEN "RESTORED" ELSE Request7

\* Starting a client spawns its proxy, which starts root's half.
StartClient ==
    /\ Cmd \in {"startBroker", "startRestore"} /\ ~Skips /\ ~ctl.sent
    /\ px[Side].at = "off" /\ rt[Side].at = "off"
    /\ IF verify_root_owned_v7_controller_for_restore
       THEN LET c == IF Side = "broker" THEN "PREPARE" ELSE "VERIFY"
            IN /\ cli' = [cli EXCEPT ![Side] = [NoClient EXCEPT !.at = "open"]]
               /\ px' = [px EXCEPT ![Side] = [NoProxy EXCEPT !.at = "await", !.want = c]]
               /\ rt' = [rt EXCEPT ![Side] = [NoRoot EXCEPT !.at = "ready", !.cmd = c]]
               /\ ctl' = [ctl EXCEPT !.sent = TRUE] /\ UNCHANGED <<ev, faults>>
       ELSE Fail(ev) /\ UNCHANGED <<rt, faults>>
    /\ UNCHANGED <<host, kit, intact, drv, audio>>

\* request writes one line to the proxy.
Send ==
    /\ Cmd \in Requests7 /\ ~Skips /\ ~ctl.sent /\ (Cmd = "undo" => ctl.stopped)
    /\ IF cli[Side].at = "open" /\ px[Side].at # "off"
       THEN /\ cli' = [cli EXCEPT ![Side].q = Append(@, Request7), ![Side].r = @ \ {Marker}]
            /\ ctl' = [ctl EXCEPT !.sent = TRUE] /\ UNCHANGED <<ev, px>>
       ELSE Fail(ev)
    /\ UNCHANGED <<host, root, faults>>

\* require_proxy_crash_cleanup: the pipe is closed instead of a command.
ClosePipe ==
    /\ Cmd = "undo" /\ ~Skips /\ ~ctl.sent /\ ~ctl.stopped
    /\ cli' = [cli EXCEPT !["broker"].at = "closed", !["broker"].r = @ \ {Marker}]
    /\ ctl' = [ctl EXCEPT !.sent = TRUE]
    /\ UNCHANGED <<host, root, ev, px, faults>>

Started == IF Side = "broker" THEN "PREPARE" ELSE "VERIFY"

\* await_marker, and for the last command the proxy's successful exit.
Answered7 ==
    LET m == IF Cmd \in {"startBroker", "startRestore"} THEN Started ELSE Marker
        last == Cmd \in {"COMMIT", "undo", "RESTORE"}
        good == m \in cli[Side].r /\ (last => px[Side].at = "off" /\ px[Side].code = "ok")
    IN /\ Cmd \in Requests7 \cup {"startBroker", "startRestore"} /\ ctl.sent
       /\ \/ /\ good /\ UNCHANGED <<ev, px, faults>>
             /\ cli' = [cli EXCEPT ![Side].pub = @ \/ Cmd = "PUBLISH", ![Side].r = @ \ {m}]
             /\ ctl' = [ctl EXCEPT !.at = @ + 1, !.sent = FALSE, !.stopped = TRUE,
                                   !.state = IF Cmd = "RESTORE" THEN ev[7].state ELSE @]
          \/ /\ ~good
             /\ IF px[Side].at = "off" THEN UNCHANGED faults ELSE "root" \in Slow /\ Spend
             /\ Fail(ev)
    /\ UNCHANGED <<host, root>>

Command == \/ Skip \/ Record \/ Reopen \/ Check \/ Wait \/ Observe \/ Write \/ MoveApp
           \/ Launchctl \/ TryStop \/ HostLock \/ StartClient \/ Send \/ ClosePipe \/ Answered7

----------------------------------------------------------------------------
(* launchd, the host, Core Audio, deaths                                     *)

HostStarts ==
    /\ job /\ proc = Nothing /\ app # Nothing /\ ~ctl.locked
    /\ proc' = app /\ seen' = FALSE /\ marked' = FALSE
    /\ UNCHANGED <<app, job, child, pairing, repo, ev, ctl, crashes, faults, brokers>>

HostLogsMarker ==
    /\ proc # Nothing /\ ~marked /\ marked' = TRUE
    /\ UNCHANGED <<app, job, proc, seen, child, pairing, repo, ev, ctl, crashes, faults, brokers>>

HostExits ==
    /\ proc # Nothing
    /\ IF job THEN Spend ELSE UNCHANGED faults
    /\ proc' = Nothing /\ seen' = FALSE /\ marked' = FALSE
    /\ UNCHANGED <<app, job, child, pairing, repo, ev, ctl, crashes, brokers>>

CoreAudioRestarts ==
    /\ audio # reload_core_audio_root(drv) /\ audio' = reload_core_audio_root(drv)
    /\ UNCHANGED <<vars, kit, intact, drv, cli, px, rt>>

EvidenceDisturbed ==
    /\ intact = Retentions /\ Spend /\ \E r \in Disturbed : intact' = intact \ {r}
    /\ UNCHANGED <<host, ev, ctl, kit, drv, audio, cli, px, rt>>

\* Provenance is last read before the stop.
RepositoryMoves ==
    /\ repo = "authorized" /\ Before(ev[7].state, "DRIVER_PREPARED")
    /\ repo' = "moved" /\ Spend
    /\ UNCHANGED <<app, job, proc, seen, marked, child, pairing, crashes, ev, ctl, brokers>>

\* A death is a fault too: MaxFaults bounds the two together.
Crash(x) == x \in Killed /\ crashes < MaxCrashes /\ crashes' = crashes + 1 /\ Spend

Torn == {ev} \cup (IF Cmd \in V7States /\ ~Skips /\ CanAppend THEN {[ev EXCEPT ![7].tail = Cmd]} ELSE {})

MainDies ==
    /\ ctl.who = "main" /\ Crash("main") /\ ev' \in Torn /\ Leaves("err")
    /\ UNCHANGED <<app, job, proc, seen, marked, child, pairing, repo, root>>

ProxyDies(p) ==
    /\ px[p].at # "off" /\ Crash(p) /\ px' = [px EXCEPT ![p] = Exit(@, "err")]
    /\ ctl' = IF ctl.who = p THEN Idled ELSE ctl
    /\ UNCHANGED <<app, job, proc, seen, marked, child, pairing, repo, ev, cli, root>>

\* The Mac restarts: the LaunchAgent is loaded at login.
MachineDies ==
    /\ Crash("machine") /\ ctl' = Idled
    /\ ev' \in (IF Running THEN Torn ELSE {ev})
    /\ job' = TRUE /\ proc' = Nothing /\ seen' = FALSE /\ marked' = FALSE
    /\ audio' = reload_core_audio_root(drv) /\ px' = [p \in Sides |-> [px[p] EXCEPT !.at = "off"]]
    /\ rt' = [p \in Sides |-> NoRoot]
    /\ cli' = [p \in Sides |-> NoClient]
    /\ UNCHANGED <<app, child, pairing, repo, kit, intact, drv>>

Environment == \/ HostStarts \/ HostLogsMarker \/ HostExits \/ CoreAudioRestarts
               \/ EvidenceDisturbed \/ RepositoryMoves \/ MainDies \/ MachineDies
               \/ \E p \in Sides : ProxyDies(p)

----------------------------------------------------------------------------

Init ==
    /\ app = 6 /\ job = TRUE /\ proc = 6 /\ seen = FALSE /\ marked = TRUE
    /\ child = "none" /\ pairing = TRUE /\ repo = "authorized"
    /\ ev = [u \in All |-> IF u <= 6 THEN CommittedEvidence(u) ELSE NoEvidence]
    /\ ctl = Idled /\ crashes = 0 /\ faults = 0
    /\ kit = "absent" /\ intact = Retentions /\ drv = "staged" /\ audio = "none"
    /\ cli = [p \in Sides |-> NoClient] /\ px = [p \in Sides |-> NoProxy]
    /\ rt = [p \in Sides |-> NoRoot]

Next == Begin \/ Install \/ Request \/ Command \/ Proxies \/ Root \/ Environment

Spec == Init /\ [][Next]_allVars

\* Every process that is not killed runs on, launchd keeps the job alive, a
\* booted-out host exits, and the operator repeats the rollback.  The actions
\* of one process exclude each other.
FairSpec ==
    /\ Spec /\ WF_allVars(Command \/ Install \/ Request)
    /\ WF_allVars(uid501_driver_broker_proxy("broker"))
    /\ WF_allVars(uid501_driver_broker_proxy("restore") \/ uid501_driver_restore_proxy)
    /\ WF_allVars(root_driver_broker \/ RootLosesProxy("broker") \/ RootCleansUp)
    /\ WF_allVars(root_driver_restore_broker \/ RootLosesProxy("restore"))
    /\ WF_allVars(HostStarts) /\ WF_allVars(HostLogsMarker) /\ WF_allVars(~job /\ HostExits)

----------------------------------------------------------------------------
(* Properties                                                                *)

Lines == {"PREPARE", "VERIFY", "PING", "PUBLISH", "PREPARE_COMMIT", "COMMIT", "ABANDON",
          "ROLLBACK", "RESTORE", "RESTORED", "ABORT"}

\* Types of the state.
TypeOK ==
    /\ app \in {-1, 6, 7} /\ proc \in {-1, 6, 7}
    /\ {job, seen, marked, pairing} \subseteq BOOLEAN
    /\ ev[7].state \in V7States /\ ev[7].tail \in V7States \cup {"clean", "corrupt"}
    /\ ev[7].ptr \in {"none", "pending", "active", "retired"}
    /\ drv \in {"staged", "partial", "hold", "canonical", "failed", "abandoned"}
    /\ audio \in {"none", "product"} /\ intact \subseteq Retentions
    /\ kit \in {Retry4RootV3Stage[i] : i \in 1..7}
    /\ ctl.who \in Sides \cup {"none", "main"} /\ ctl.state \in V7States
    /\ \A p \in Sides :
         /\ cli[p].at \in {"none", "open", "closed", "dropped", "deaf", "gone"}
         /\ cli[p].q \in Seq(Lines) /\ cli[p].r \subseteq Lines
         /\ px[p].at \in {"off", "await", "loop", "begin", "bootout", "drain", "undo",
                          "endpoints", "finish", "report", "lock", "rollback"}
         /\ rt[p].at \in {"off", "ready", "cleanup"}
    /\ crashes \in 0..MaxCrashes /\ faults \in 0..MaxFaults

\* The previous host never runs with the product driver loaded: Core Audio is
\* reloaded without it before v6 is bootstrapped, on every path of recovery.
OldHostOldDriver == proc = 6 => audio = "none"

\* A journal that says the driver was restored is true: nothing that may come
\* after DRIVER_RESTORED finds the new driver in place or still loaded.
RestoredMeansRestored ==
    ev[7].state \in DriverRestored => drv \in {"failed", "abandoned"} /\ audio = "none"

\* The rollback's two halves agree: the previous host runs only without the
\* product driver, and only a driver really undone is recorded as restored.
RollbackRestoresDriver == OldHostOldDriver /\ RestoredMeansRestored

\* A durable COMMITTED keeps the new host and its driver.
CommitKeepsDriver == ev[7].state = "COMMITTED" => drv = "canonical" /\ app = 7

\* No interleaving of the controller and the proxies, which append to one
\* journal without a common lock, leaves it unreadable for later rollbacks.
JournalReadable == parse_v7_journal

\* The host being replaced is in exactly one place from the pointer's
\* publication on.
BaselineInOnePlace == (app = 6) # (ev[7].kept = 6)

\* What a later rollback reads is usable at any interleaving of the controller
\* and its proxies: a journal that parses and one copy of the previous host.
RollbackPossible == TypeOK /\ JournalReadable /\ BaselineInOnePlace

\* The running host is never moved, and apps move only under its lock.
MovesUnderLock == [][app' # app => ctl.locked /\ proc = Nothing]_allVars

\* Root moves the published driver only while no host runs.
DriverMovesHostless ==
    [][drv # drv' /\ "canonical" \in {drv, drv'} => proc = Nothing]_allVars

\* Neither the host's app nor the published driver is exchanged under a running
\* host, by whichever process.
MovesHostless == MovesUnderLock /\ DriverMovesHostless

Unsettled == Running \/ ~Quiet \/
             (ev[7].ptr = "active" /\ ev[7].state \notin {"COMMITTED", "ROLLED_BACK"})

\* What leaves the restored host stopped with nothing an operator can repeat: an
\* unwinding controller that is lost before its pointer was published, or a
\* broker proxy that goes on by itself beside the rollback, when one boots out
\* the host the other has just put back.
Stranded ==
    /\ ~job /\ app = 6
    /\ \/ ev[7].ptr \in {"none", "pending", "retired"}
       \/ ev[7].state = "ROLLED_BACK" /\ px["broker"].goal # "none"

\* An update that is past the stop is settled in the end and a host runs, as
\* long as the retained evidence stays as it is.
Lost == intact # Retentions \/ Stranded
Settles == []<>(Lost \/ ~Unsettled) /\ []<>(Lost \/ proc # Nothing)

\* A lost controller's proxy restores the driver, then the previous host, and
\* proves it ready, without the operator.
DetachedRecovery ==
    [](cli["broker"].at = "gone" /\ v7_crossed_stop_without_durable_commit(ev[7].state)
        => <>(ev[7].state = "ROLLED_BACK"))
=============================================================================
