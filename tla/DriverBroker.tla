---------------------------- MODULE DriverBroker ----------------------------
(* The privileged half of the v7 update: the product driver, the root broker *)
(* and root restore broker that move it, and the detached user processes     *)
(* (proxies) that relay the controller's commands to them and take over when *)
(* the controller is lost.                                                   *)
(*                                                                           *)
(* Each side, "broker" for an update and "restore" for a rollback, is a chain *)
(* of three: the controller's client (cli), its proxy (px), root (rt). The   *)
(* marker that answers a command is written here as the command itself.      *)
EXTENDS PairedV7

CONSTANTS
    Relay,      \* what println! to a pipe nobody reads does to a proxy: Rust's
                \* panics; "survives" is what the recovery after it is for
    Slow        \* who may miss a deadline though alive: the "controller" its
                \* heartbeat, a "proxy" root's deadman, "root" its answer

ASSUME BrokerAssumption ==
    Relay \subseteq {"panics", "survives"} /\ Relay # {} /\ Slow \subseteq {"controller", "proxy", "root"}

VARIABLES cli, px, rt

brokers == <<kit, intact, drv, audio, cli, px, rt>>

Sides == {"broker", "restore"}

\* A client is open, listening with its command pipe closed, dropped by a live
\* controller (whose reader thread takes one more line), deaf, or gone.
NoClient == [at |-> "none", pub |-> FALSE, q |-> <<>>, r |-> {}]
NoProxy == [at |-> "off", pub |-> FALSE, rdy |-> FALSE, begun |-> "no", dead |-> FALSE,
            want |-> "none", goal |-> "none", code |-> "none"]
NoRoot == [at |-> "off", pub |-> FALSE, rdy |-> FALSE, cmd |-> "none", reply |-> "none"]

Spend == faults < MaxFaults /\ faults' = faults + 1
Idled == [who |-> "none", run |-> "none", why |-> "none", at |-> 0, sent |-> FALSE,
          locked |-> FALSE, stopped |-> TRUE, state |-> "BEGUN", healthy |-> TRUE,
          exp |-> "absent"]

----------------------------------------------------------------------------
(* What root does to the driver: the outcomes of an operation                *)

Did(d, a) == [drv |-> d, audio |-> a, ok |-> TRUE, spent |-> FALSE]
Refused == [drv |-> drv, audio |-> audio, ok |-> FALSE, spent |-> FALSE]
Broke(d, a) == [drv |-> d, audio |-> a, ok |-> FALSE, spent |-> TRUE]

require_no_host_process_for_root_driver_mutation == proc = Nothing

\* The complete, exact driver bundle, wherever it is.
verify_root_production_driver(d) == d \in {"hold", "canonical", "failed", "abandoned"}

\* The identities of the held driver are recorded when the hold is complete;
\* without that record no later operation does anything.
read_root_driver_state == drv \in {"hold", "canonical", "failed", "abandoned"}

\* Core Audio restarts and loads what is at the canonical path.
reload_core_audio_root(d) == IF d = "canonical" THEN "product" ELSE "none"

root_driver_prepare ==
    IF /\ require_retry_4_root_operation_trust(TRUE) /\ require_exact_staged_driver_artifacts
       /\ require_current_retry_v7_layout("absent") /\ drv = "staged"
    THEN {Broke(drv, audio)} \cup
         {IF verify_root_production_driver(d) THEN Did(d, audio) ELSE Broke(d, audio) :
            d \in {"hold", "partial"}}
    ELSE {Refused}

\* The late failure moves the driver to failed and reloads again, best effort.
root_driver_publish_reload ==
    IF /\ require_retry_4_root_operation_trust(TRUE)
       /\ require_no_host_process_for_root_driver_mutation
       /\ read_root_driver_state /\ drv = "hold"
    THEN {Did("canonical", reload_core_audio_root("canonical")), Broke(drv, audio),
          Broke("canonical", audio), Broke("failed", reload_core_audio_root("failed")),
          Broke("failed", reload_core_audio_root("canonical"))}
    ELSE {Refused}

\* Mutant: Core Audio is not reloaded.
root_driver_rollback_reload_NoReload ==
    IF /\ require_retry_4_root_operation_trust(FALSE)
       /\ require_no_host_process_for_root_driver_mutation
       /\ read_root_driver_state /\ drv \in {"canonical", "failed"}
    THEN {Did("failed", audio), Broke(drv, audio), Broke("failed", audio)}
    ELSE {Refused}

\* Mutant: the driver is moved under a running host.
root_driver_rollback_reload_HostRunning ==
    IF /\ require_retry_4_root_operation_trust(FALSE)
       /\ read_root_driver_state /\ drv \in {"canonical", "failed"}
    THEN {Did("failed", "none"), Broke(drv, audio), Broke("failed", audio)}
    ELSE {Refused}

root_driver_rollback_reload ==
    IF /\ require_retry_4_root_operation_trust(FALSE)
       /\ require_no_host_process_for_root_driver_mutation
       /\ read_root_driver_state /\ drv \in {"canonical", "failed"}
    THEN {Did("failed", reload_core_audio_root("failed")), Broke(drv, audio),
          Broke("failed", audio)}
    ELSE {Refused}

root_driver_abandon_prepare ==
    IF require_retry_4_root_operation_trust(TRUE) /\ read_root_driver_state /\ drv = "hold"
    THEN {Did("abandoned", audio), Broke(drv, audio), Broke("abandoned", audio)}
    ELSE {Refused}

root_driver_restore_or_abandon_existing ==
    CASE drv = "hold" -> root_driver_abandon_prepare
      [] drv = "abandoned" ->
           IF require_retry_4_root_operation_trust(TRUE) THEN {Did(drv, audio)} ELSE {Refused}
      [] OTHER -> root_driver_rollback_reload

root_driver_verify_existing_restore_ready ==
    IF /\ require_retry_4_root_operation_trust(FALSE) /\ read_root_driver_state
       /\ verify_root_production_driver(drv)
    THEN {Did(drv, audio), Broke(drv, audio)} ELSE {Refused}

root_driver_verify_commit_ready ==
    IF /\ require_retry_4_root_operation_trust(FALSE) /\ read_root_driver_state
       /\ drv = "canonical"
    THEN {Did(drv, audio), Broke(drv, audio)} ELSE {Refused}

root_broker_cleanup_after_failure == root_driver_restore_or_abandon_existing

Takes(o) == /\ drv' = o.drv /\ audio' = o.audio
            /\ IF o.spent THEN Spend ELSE UNCHANGED faults

----------------------------------------------------------------------------
(* Root processes                                                            *)

\* An answer nobody reads any more ends the process.
Answer(p, r, at) ==
    IF px[p].at = "off" THEN NoRoot
    ELSE [r EXCEPT !.at = at, !.reply = rt[p].cmd, !.cmd = "none"]

\* root_driver_broker: what it serves, by what it has served before.
InSequence(x, c) ==
    \/ c = "PING"
    \/ c \in {"PUBLISH", "ABANDON"} /\ ~x.pub /\ ~x.rdy
    \/ c = "ROLLBACK" /\ x.pub
    \/ c = "PREPARE_COMMIT" /\ x.pub /\ ~x.rdy
    \/ c = "COMMIT" /\ x.pub /\ x.rdy

Operation(c) ==
    CASE c = "PREPARE" -> root_driver_prepare
      [] c \in {"VERIFY", "ABORT"} -> root_driver_verify_existing_restore_ready
      [] c = "PUBLISH" -> root_driver_publish_reload
      [] c = "ABANDON" -> root_driver_abandon_prepare
      [] c = "ROLLBACK" -> root_driver_rollback_reload
      [] c \in {"PREPARE_COMMIT", "COMMIT"} -> root_driver_verify_commit_ready
      [] c = "RESTORE" -> root_driver_restore_or_abandon_existing
      [] OTHER -> {Did(drv, audio)}

Terminal == {"ABANDON", "ROLLBACK", "COMMIT", "RESTORE", "ABORT"}

world == <<app, proc, seen, marked, child, pairing, repo, crashes, kit, intact>>

\* One command: an operation that fails ends the broker, a failing publication
\* and a command out of sequence do so after restoring the driver.
root_driver_broker ==
    LET p == "broker"
        c == rt[p].cmd
        served == [rt[p] EXCEPT !.pub = @ \/ c = "PUBLISH", !.rdy = @ \/ c = "PREPARE_COMMIT"]
        failed == [rt[p] EXCEPT !.cmd = "none",
                                !.at = IF c = "PUBLISH" THEN "cleanup" ELSE "off"]
    IN /\ rt[p].at = "ready" /\ c # "none"
       /\ IF c = "PREPARE" \/ InSequence(rt[p], c)
          THEN \E o \in Operation(c) :
                 /\ Takes(o)
                 /\ rt' = [rt EXCEPT ![p] =
                      IF o.ok THEN Answer(p, served, IF c \in Terminal THEN "off" ELSE "ready")
                      ELSE failed]
          ELSE /\ rt' = [rt EXCEPT ![p].at = "cleanup", ![p].cmd = "none"]
               /\ UNCHANGED <<drv, audio, faults>>
       /\ UNCHANGED <<world, job, ev, ctl, cli, px>>

root_driver_restore_broker ==
    LET p == "restore"
        c == rt[p].cmd
    IN /\ rt[p].at = "ready" /\ c # "none"
       /\ \E o \in Operation(c) :
            /\ Takes(o)
            /\ rt' = [rt EXCEPT ![p] =
                 IF o.ok THEN Answer(p, @, IF c \in Terminal THEN "off" ELSE "ready")
                 ELSE [@ EXCEPT !.cmd = "none", !.at = "off"]]
       /\ UNCHANGED <<world, job, ev, ctl, cli, px>>

\* The proxy is gone, or was silent for ROOT_BROKER_DEADMAN_SECONDS: the broker
\* restores the driver, the restore broker leaves it.
RootLosesProxy(p) ==
    /\ rt[p].at = "ready" /\ rt[p].cmd = "none"
    /\ IF px[p].at = "off" THEN UNCHANGED faults ELSE "proxy" \in Slow /\ Spend
    /\ rt' = [rt EXCEPT ![p].at = IF p = "broker" THEN "cleanup" ELSE "off"]
    /\ UNCHANGED <<world, job, ev, ctl, drv, audio, cli, px>>

RootCleansUp ==
    /\ rt["broker"].at = "cleanup"
    /\ \E o \in root_broker_cleanup_after_failure : Takes(o)
    /\ rt' = [rt EXCEPT !["broker"].at = "off"]
    /\ UNCHANGED <<world, job, ev, ctl, cli, px>>

Root == root_driver_broker \/ root_driver_restore_broker \/ RootCleansUp
        \/ \E p \in Sides : RootLosesProxy(p)

----------------------------------------------------------------------------
(* Proxies                                                                   *)

ParentAlive(p) == cli[p].at \notin {"none", "gone"}
Listening(p) == cli[p].at \in {"open", "closed"}

Exit(x, code) == [x EXCEPT !.at = "off", !.code = code]

\* proxy_root_request writes the command and waits for its marker.
Ask(p, x, c) == /\ px' = [px EXCEPT ![p] = [x EXCEPT !.at = "await", !.want = c]]
                /\ rt' = [rt EXCEPT ![p].cmd = IF rt[p].at = "ready" THEN c ELSE "none",
                                    ![p].reply = "none"]

\* println!: the controller reads the line, its abandoned reader thread takes
\* one more, or nobody does.
Relayed(p, line, x) ==
    \/ /\ Listening(p)
       /\ cli' = [cli EXCEPT ![p].r = @ \cup {line}] /\ px' = [px EXCEPT ![p] = x]
    \/ /\ cli[p].at = "dropped"
       /\ cli' = [cli EXCEPT ![p].at = "deaf"] /\ px' = [px EXCEPT ![p] = x]
    \/ /\ cli[p].at \in {"deaf", "gone"} /\ UNCHANGED cli
       /\ \/ "panics" \in Relay /\ px' = [px EXCEPT ![p] = Exit(@, "err")]
          \/ "survives" \in Relay /\ px' = [px EXCEPT ![p] = x]

\* Mutant: an orphaned proxy does not ask whether the update committed.
uid_proxy_journal_committed_Never == FALSE

uid_proxy_journal_committed == parse_v7_journal /\ ev[7].state = "COMMITTED"

\* Where a proxy goes when root has answered: back to its loop, on with the
\* cleanup, or, the last command served, out.
Answered(p) ==
    LET x == px[p]
        c == x.want
        y == [x EXCEPT !.pub = @ \/ c = "PUBLISH", !.rdy = @ \/ c = "PREPARE_COMMIT"]
    IN IF x.goal = "none"
       THEN IF c \in Terminal THEN Exit(y, "ok") ELSE [y EXCEPT !.at = "loop"]
       ELSE CASE c \in {"COMMIT", "ABORT"} -> Exit(y, "ok")
              [] c = "PING" /\ p = "broker" -> [y EXCEPT !.at = IF y.pub THEN "bootout" ELSE "undo"]
              [] c = "RESTORE" -> [y EXCEPT !.at = "endpoints"]
              [] OTHER -> [y EXCEPT !.at = "finish"]

\* proxy_root_request: the answer is relayed; no answer ends the proxy.
proxy_root_request(p) ==
    /\ px[p].at = "await"
    /\ \/ rt[p].reply = px[p].want /\ Relayed(p, px[p].want, Answered(p)) /\ UNCHANGED faults
       \/ /\ rt[p].reply # px[p].want
          /\ IF rt[p].at = "off" THEN UNCHANGED faults ELSE "root" \in Slow /\ Spend
          /\ px' = [px EXCEPT ![p] = Exit(@, "err")] /\ UNCHANGED cli
    /\ UNCHANGED <<world, job, ev, ctl, drv, audio, rt>>

\* A command of the live controller. A broker proxy cleans up after one that is
\* out of sequence.
ProxyServes(p) ==
    LET c == Head(cli[p].q)
        x == px[p]
    IN /\ x.at = "loop" /\ cli[p].q # <<>>
       /\ cli' = [cli EXCEPT ![p].q = Tail(@)]
       /\ CASE p = "broker" /\ InSequence(x, c) -> Ask(p, x, c)
            [] p = "broker" /\ ~InSequence(x, c) -> Ask(p, [x EXCEPT !.goal = "reject"], "PING")
            [] c = "PING" -> Ask(p, x, c)
            [] OTHER -> px' = [px EXCEPT ![p] = [x EXCEPT !.goal = "serve", !.at = "begin"]]
                        /\ UNCHANGED rt
       /\ UNCHANGED <<world, job, ev, ctl, drv, audio, faults>>

\* The command pipe was closed, or nothing came for a minute.
ProxyOrphaned(p) ==
    LET x == [px[p] EXCEPT !.goal = "orphan", !.dead = ~ParentAlive(p)]
    IN /\ px[p].at = "loop" /\ cli[p].q = <<>>
       /\ IF cli[p].at = "open" THEN "controller" \in Slow /\ Spend ELSE UNCHANGED faults
       /\ IF uid_proxy_journal_committed
          THEN IF p = "restore" \/ (x.pub /\ x.rdy)
               THEN Ask(p, x, IF p = "broker" THEN "COMMIT" ELSE "ABORT")
               ELSE px' = [px EXCEPT ![p] = Exit(@, "err")] /\ UNCHANGED rt
          ELSE px' = [px EXCEPT ![p] = [x EXCEPT !.at = "begin"]] /\ UNCHANGED rt
       /\ UNCHANGED <<world, job, ev, ctl, drv, audio, cli>>

\* Mutant: the intent is journaled though it, or what follows it, already is.
BeginsRollback_Again == ~Before(ev[7].state, "STOP_INITIATED") /\ ev[7].state # "COMMITTED"

BeginsRollback == ~Before(ev[7].state, "STOP_INITIATED") /\ Before(ev[7].state, "ROLLBACK_STARTED")
                  /\ ev[7].state # "COMMITTED"

\* The intent is journaled before the driver is touched. The broker proxy goes
\* on without it, the restore proxy does not.
uid_proxy_begin_driver_rollback(p) ==
    LET opened == V7Journal_open(ev[7])
        Then(b) == IF p = "broker" THEN Ask(p, [px[p] EXCEPT !.begun = b], "PING")
                   ELSE /\ px' = [px EXCEPT ![p] = IF b = "yes" THEN [@ EXCEPT !.begun = b, !.at = "bootout"]
                                                   ELSE Exit(@, "err")]
                        /\ UNCHANGED rt
    IN /\ px[p].at = "begin"
       /\ CASE ~parse_v7_journal -> Then("error") /\ UNCHANGED <<ev, faults>>
            [] parse_v7_journal /\ BeginsRollback ->
                 \/ /\ ev' = [ev EXCEPT ![7] = V7Journal_record(opened, "ROLLBACK_STARTED")]
                    /\ Then("yes") /\ UNCHANGED faults
                 \/ ev' = [ev EXCEPT ![7] = opened] /\ Spend /\ Then("error")
            [] OTHER -> /\ ev' = [ev EXCEPT ![7] = opened] /\ UNCHANGED faults
                        /\ Then(IF ev[7].state = "ROLLBACK_STARTED" THEN "yes" ELSE "no")
       /\ UNCHANGED <<world, job, ctl, drv, audio, cli>>

\* uid_proxy_cleanup and uid_restore_proxy_restore: the host is stopped before
\* root is asked to restore the driver. The wait for it expires after 30 s: a
\* booted-out host exits before unless the time is too short, a host launchd
\* keeps (the other side loaded it again) does not.
ProxyStopsHost(p) ==
    /\ \/ /\ px[p].at = "bootout"
          /\ IF bootout_paired_v7_job_if_loaded
             THEN \/ /\ job' = FALSE /\ px' = [px EXCEPT ![p].at = "drain"] /\ UNCHANGED faults
                  \/ /\ Spend /\ job' \in {job, FALSE} /\ px' = [px EXCEPT ![p] = Exit(@, "err")]
             ELSE UNCHANGED <<job, faults>> /\ px' = [px EXCEPT ![p] = Exit(@, "err")]
       \/ /\ px[p].at = "drain" /\ UNCHANGED job
          /\ \/ /\ require_no_capture_servers
                /\ px' = [px EXCEPT ![p].at = "undo"] /\ UNCHANGED faults
             \/ /\ IF job THEN UNCHANGED faults ELSE Spend
                /\ px' = [px EXCEPT ![p] = Exit(@, "err")]
    /\ UNCHANGED <<world, ev, ctl, drv, audio, cli, rt>>

ProxyRestoresDriver(p) ==
    /\ px[p].at = "undo"
    /\ Ask(p, px[p], CASE p = "restore" -> "RESTORE"
                       [] p = "broker" /\ px[p].pub -> "ROLLBACK"
                       [] p = "broker" /\ ~px[p].pub -> "ABANDON")
    /\ UNCHANGED <<world, job, ev, ctl, drv, audio, cli, faults>>

verify_product_endpoints_absent(p) ==
    /\ px[p].at = "endpoints"
    /\ \/ audio = "none" /\ px' = [px EXCEPT ![p].at = "finish"] /\ UNCHANGED faults
       \/ /\ IF audio = "none" THEN Spend ELSE UNCHANGED faults
          /\ px' = [px EXCEPT ![p] = Exit(@, "err")]
    /\ UNCHANGED <<world, job, ev, ctl, drv, audio, cli, rt>>

\* Where a proxy goes with the driver restored and journaled.
Finished(p) ==
    CASE px[p].goal = "serve" -> [px[p] EXCEPT !.at = "report"]
      [] px[p].goal = "orphan" /\ px[p].begun = "yes" /\ px[p].dead -> [px[p] EXCEPT !.at = "lock"]
      [] OTHER -> Exit(px[p], "err")

uid_proxy_finish_driver_rollback(p) ==
    LET opened == V7Journal_open(ev[7])
    IN /\ px[p].at = "finish"
       /\ CASE px[p].goal = "reject" \/ px[p].begun # "yes" ->
                 px' = [px EXCEPT ![p] = Exit(@, "err")] /\ UNCHANGED <<ev, faults>>
            [] /\ px[p].goal # "reject" /\ px[p].begun = "yes"
               /\ parse_v7_journal /\ ev[7].state = "ROLLBACK_STARTED" ->
                 \/ /\ ev' = [ev EXCEPT ![7] = V7Journal_record(opened, "DRIVER_RESTORED")]
                    /\ px' = [px EXCEPT ![p] = Finished(p)] /\ UNCHANGED faults
                 \/ /\ ev' = [ev EXCEPT ![7] = opened] /\ Spend
                    /\ px' = [px EXCEPT ![p] = Exit(@, "err")]
            [] OTHER -> /\ px' = [px EXCEPT ![p] = IF parse_v7_journal /\ ev[7].state = "DRIVER_RESTORED"
                                                   THEN Finished(p) ELSE Exit(@, "err")]
                        /\ UNCHANGED <<ev, faults>>
       /\ UNCHANGED <<world, job, ctl, drv, audio, cli, rt>>

\* UID_V7_RESTORE_PROXY_RESTORED.
ProxyReports ==
    LET p == "restore" IN
    /\ px[p].at = "report" /\ Relayed(p, "RESTORED", Exit(px[p], "ok"))
    /\ UNCHANGED <<world, job, ev, ctl, drv, audio, rt, faults>>

retire_exact_retry_v7_pending_pointer_after_parent_crash(e) ==
    [e EXCEPT ![7].ptr = IF @ = "pending" THEN "retired" ELSE @]

acquire_crash_recovery_transaction_lock == ctl.who = "none"

\* The proxy of a lost controller rolls the host back itself, under the
\* transaction lock it must get within five seconds.
uid_proxy_complete_host_crash_rollback(p) ==
    LET e == IF ev[7].ptr = "active" THEN ev
             ELSE retire_exact_retry_v7_pending_pointer_after_parent_crash(ev)
        x == IF ev[7].ptr = "active" THEN "present" ELSE "absent"
        mayRecover == /\ verify_committed_v6_baseline /\ verify_isolated_pairing_items_present
                      /\ acquire_crash_recovery_transaction_lock
                      /\ parse_v7_journal /\ ev[7].state = "DRIVER_RESTORED"
    IN /\ px[p].at = "lock"
       /\ \/ /\ mayRecover
             /\ ev' = [e EXCEPT ![7] = V7Journal_open(@)]
             /\ ctl' = [Idled EXCEPT !.who = p, !.run = "rollback", !.why = "proxy", !.at = 1,
                                     !.state = "DRIVER_RESTORED", !.exp = x]
             /\ px' = [px EXCEPT ![p].at = "rollback"] /\ UNCHANGED faults
          \/ /\ IF mayRecover THEN Spend ELSE UNCHANGED faults
             /\ px' = [px EXCEPT ![p] = Exit(@, "err")] /\ UNCHANGED ctl /\ ev' \in {ev, e}
    /\ UNCHANGED <<world, job, drv, audio, cli, rt>>

uid501_driver_broker_proxy(p) ==
    \/ proxy_root_request(p) \/ ProxyServes(p) \/ ProxyOrphaned(p)
    \/ uid_proxy_begin_driver_rollback(p) \/ ProxyStopsHost(p) \/ ProxyRestoresDriver(p)
    \/ uid_proxy_finish_driver_rollback(p) \/ uid_proxy_complete_host_crash_rollback(p)

uid501_driver_restore_proxy == verify_product_endpoints_absent("restore") \/ ProxyReports

Proxies == uid501_driver_restore_proxy \/ \E p \in Sides : uid501_driver_broker_proxy(p)
=============================================================================
