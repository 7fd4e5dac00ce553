------------------------- MODULE DriverTransaction -------------------------
(* The root process of the v2 diagnostic-driver update at work: it executes  *)
(* the plans of DriverRoot one operation at a time.  Every operation that    *)
(* changes something may fail before or after it has, every check may fail,  *)
(* and the process may die between any two operations.                       *)
EXTENDS DriverRoot

----------------------------------------------------------------------------
(* How a plan goes on, fails and ends                                        *)

\* What the abort of a prestop failure still attempts depends on what it has
\* proved; the archive record is written only by the process that archived, and
\* only the process that started the host looks at the pairing after it.
DueIn(r, o) ==
    /\ r.mem \in o.from
    /\ o.s = "FAILED_DRIVER_ARCHIVED" => "archived" \in r.done
    /\ o.do = "pairing" => "restarted" \in r.done
    /\ r.op = "abort" =>
         CASE o.do = "note" -> "put" \in r.done
           [] o.do = "put" /\ o.s = "PRESTOP_ABORTED" -> {"released", "aborted"} \subseteq r.done
           [] o.do = "result" -> "terminal" \in r.done
           [] OTHER -> TRUE

NextDue(r, plan) ==
    LET due == {i \in r.at + 1..Len(plan) : DueIn(r, plan[i])}
    IN  IF due = {} THEN Len(plan) + 1 ELSE CHOOSE i \in due : \A j \in due : i <= j

Advance(r) == [r EXCEPT !.half = FALSE, !.at = NextDue(r, PlanOf[r.op])]

Enter(r, op) == Advance([r EXCEPT !.op = op, !.at = 0])

Over(r) == [r EXCEPT !.op = "over", !.at = 1]

\* A failing rollback first records CRITICAL_FAILURE, unless the transaction
\* is over by the process's own view of the journal.
RollbackFails(r) == IF r.at < 3 \/ r.mem \in Terminal THEN "over" ELSE "failure"

\* Where a failing operation leads: a failure up to the recheck simply ends
\* the process, one before the stop boundary aborts, one after it rolls back;
\* an abort goes on with what is left of it.
ErrorPath(r) ==
    CASE r.op = "forward" -> CASE r.at <= 7 -> "over"
                               [] r.at = 8 -> "prestop"
                               [] r.at \in 9..10 -> "abort"
                               [] OTHER -> "rollback"
      [] r.op = "rollback" -> RollbackFails(r)
      [] r.op = "abort" -> "abort"
      [] OTHER -> "over"

Unwound(r) ==
    LET critical == r.op = "rollback" /\ r.kind = "forward"
        q == [r EXCEPT !.op = ErrorPath(r), !.at = IF r.op = "abort" THEN @ ELSE 0,
                       !.done = IF critical THEN @ \cup {"critical"} ELSE @]
    IN  [Advance(q) EXCEPT !.half = q.op = "failure" /\ r.mem = "CRITICAL_FAILURE"]

Working == rp.at \in 1..Len(PlanOf[rp.op])
Op == PlanOf[rp.op][rp.at]
At(x) == Op.do = x

\* What an operation leaves alone.
Keeps(h, a, d, t, j, s) ==
    /\ h \/ UNCHANGED <<host, births>>
    /\ a \/ UNCHANGED audio
    /\ d \/ UNCHANGED drv
    /\ t \/ UNCHANGED tx
    /\ j \/ UNCHANGED jnl
    /\ s \/ UNCHANGED st
    /\ UNCHANGED <<routes, intact, tries, pin, usr, waiting, out>>

Only(what) == Keeps("host" \in what, "audio" \in what, "drv" \in what, "tx" \in what,
                    "jnl" \in what, "st" \in what)
Same == UNCHANGED <<stage, cut>>

Succeeds(r) == rp' = Advance(r) /\ UNCHANGED troubles
Refuses(r) == rp' = Unwound(r) /\ UNCHANGED troubles
Breaks(r) == rp' = Unwound(r) /\ Spend

----------------------------------------------------------------------------
(* The journal and the state file                                            *)

\* The abort reconciles once more after its record, and so sees a record that
\* was published by a call that failed.
Noticed(r, j) ==
    IF r.op = "abort" /\ j.at = "PRESTOP_ABORTED" THEN [r EXCEPT !.done = @ \cup {"aborted"}] ELSE r

RootRecord ==
    /\ At("note") \/ (At("mark") /\ ~rp.half)
    /\ Only({"jnl"}) /\ Same
    /\ \/ /\ record_admissible(jnl, Op.s) /\ jnl' = record(jnl, Op.s) /\ UNCHANGED troubles
          /\ LET r == Noticed([rp EXCEPT !.mem = Op.s], jnl')
             IN  rp' = IF Op.do = "mark" THEN [r EXCEPT !.half = TRUE] ELSE Advance(r)
       \/ /\ ~record_admissible(jnl, Op.s) /\ jnl' = reconcile(jnl)
          /\ Refuses(Noticed([rp EXCEPT !.mem = jnl'.at], jnl'))
       \/ /\ record_admissible(jnl, Op.s)
          /\ \E j \in record_failures(jnl, Op.s) :
               /\ jnl' = IF rp.op = "abort" THEN reconcile(j) ELSE j
               /\ Breaks(Noticed([rp EXCEPT !.mem = IF rp.op = "abort" THEN jnl'.at
                                                    ELSE reconcile(jnl).at], jnl'))

Written(r) ==
    IF r.op # "abort" THEN r
    ELSE [r EXCEPT !.done = @ \cup {IF Op.s = "AUTHENTICATED" THEN "put" ELSE "terminal"}]

RootWrite ==
    /\ At("put") \/ (At("mark") /\ rp.half)
    /\ Only({"st"}) /\ Same
    /\ \/ /\ rollback_reserve_released /\ st' = write_root_state(Op.s) /\ Succeeds(Written(rp))
       \/ ~rollback_reserve_released /\ UNCHANGED st /\ Refuses(rp)
       \/ /\ rollback_reserve_released /\ st' \in {st, write_root_state(Op.s)} /\ Breaks(rp)

----------------------------------------------------------------------------
(* The transaction up to the stop boundary                                   *)

\* The support directory holds the sealed set and nothing else.
verify_root_controller_identity ==
    {"tx", "txPin", "txId", "boot"} \subseteq stage /\ "abort" \notin stage \cup cut

verify_retained_v1_root_prestop_attempt ==
    "retained" \in intact /\ tries.v1 = "authenticated" /\ "locator0" \in stage

verify_root_bootstrap_locator == "locator" \in stage

RootAdmit ==
    /\ At("admit") /\ Only({}) /\ Same
    /\ IF /\ verify_root_controller_identity /\ verify_installed_v7_driver
          /\ require_legacy_disabled_and_absent /\ verify_pairing_metadata_only
          /\ verify_retained_v1_root_prestop_attempt /\ verify_live_v8_host
       THEN \/ Succeeds([rp EXCEPT !.init = host.gen, !.routes = stable_route_snapshot,
                                   !.audio = stable_coreaudio_generation])
            \/ Breaks(rp)
       ELSE Refuses(rp)

ensure_root_update_layout == ~tx.dir

RootLayout ==
    /\ At("layout") /\ Only({"tx"}) /\ Same
    /\ \/ ensure_root_update_layout /\ tx' = [tx EXCEPT !.dir = TRUE] /\ Succeeds(rp)
       \/ ~ensure_root_update_layout /\ UNCHANGED tx /\ Refuses(rp)
       \/ /\ ensure_root_update_layout /\ tx' \in {tx, [tx EXCEPT !.dir = TRUE]} /\ Breaks(rp)

\* The sealed request and the journal; the journal is not written atomically.
RootCreate ==
    /\ At("create") /\ Only({"jnl"}) /\ Same
    /\ \/ jnl' = [jnl EXCEPT !.at = "BEGUN"] /\ Succeeds([rp EXCEPT !.mem = "BEGUN"])
       \/ (\E s \in {"absent", "partial", "BEGUN"} : jnl' = [jnl EXCEPT !.at = s]) /\ Breaks(rp)

write_root_pointer ==
    /\ At("pointer") /\ Only({"tx"}) /\ Same
    /\ \/ tx' = [tx EXCEPT !.ptr = "published"] /\ Succeeds(rp)
       \/ \E p \in {"absent", "torn", "pending", "published"} :
            tx' = [tx EXCEPT !.ptr = p] /\ Breaks(rp)

\* The candidate, and the reader and probe, are read through descriptors held
\* by a helper without root's rights.
read_uid501_openat_bytes == {"candidate", "reader"} \subseteq intact

stage_root_artifacts ==
    /\ At("artifacts") /\ Only({"drv"}) /\ Same
    /\ IF read_uid501_openat_bytes /\ verify_root_bootstrap_locator
       THEN \/ drv' = [drv EXCEPT !.stage = "candidate"] /\ Succeeds(rp)
            \/ (\E d \in {"none", "partial", "candidate"} : drv' = [drv EXCEPT !.stage = d]) /\ Breaks(rp)
       ELSE UNCHANGED drv /\ Refuses(rp)

GenerationsPreserved ==
    /\ verify_live_v8_host /\ host.gen = rp.init
    /\ stable_coreaudio_generation = rp.audio /\ stable_route_snapshot = rp.routes

RootRecheck ==
    /\ At("recheck") /\ Only({}) /\ Same
    /\ \/ GenerationsPreserved /\ Succeeds(rp)
       \/ ~GenerationsPreserved /\ Refuses(rp)
       \/ Breaks(rp)

\* An allocation that fails empties the file again, if it can.
allocate_rollback_reserve ==
    /\ At("reserve") /\ Only({"tx"}) /\ Same
    /\ \/ tx' = [tx EXCEPT !.reserve = "allocated"] /\ Succeeds(rp)
       \/ \E x \in {"absent", "released", "partial"} :
            tx' = [tx EXCEPT !.reserve = x] /\ Breaks(rp)

\* Headroom, generations, ancestry, locator, retained attempt and reserve.
RootRevalidate ==
    /\ At("revalidate") /\ Only({}) /\ Same
    /\ \/ /\ GenerationsPreserved /\ verify_root_bootstrap_locator
          /\ verify_retained_v1_root_prestop_attempt /\ Succeeds(rp)
       \/ /\ ~(GenerationsPreserved /\ verify_root_bootstrap_locator
               /\ verify_retained_v1_root_prestop_attempt) /\ Refuses(rp)
       \/ Breaks(rp)

\* The stop intent: a failure that may not have published it aborts, one
\* after it is durable rolls back.
write_root_state_tracked ==
    /\ At("stopIntent") /\ Only({"st"}) /\ Same
    /\ \/ st' = write_root_state("HOST_STOP_INITIATED") /\ Succeeds(rp)
       \/ \E how \in {"lost", "renamed", "kept"} :
            /\ st' = IF how = "lost" THEN st ELSE write_root_state("HOST_STOP_INITIATED")
            /\ rp' = Enter(rp, IF StopIntentDurable(how) THEN "rollback" ELSE "abort") /\ Spend

----------------------------------------------------------------------------
(* The host, the driver and Core Audio                                       *)

Stopped == [loaded |-> FALSE, gen |-> 0, first |-> FALSE]
Lingering == [host EXCEPT !.loaded = FALSE]

\* Mutant: a job that is gone counts as a host that is gone.
Bootout_NoWait == \/ host' \in {Stopped, Lingering} /\ Succeeds(rp)
                  \/ host' \in {host, Stopped, Lingering} /\ Breaks(rp)

Bootout == \/ host' = Stopped /\ Succeeds(rp)
           \/ host' \in {host, Stopped, Lingering} /\ Breaks(rp)

stop_exact_v8_host ==
    /\ At("stop") /\ Only({"host"}) /\ Same /\ UNCHANGED births
    /\ IF verify_live_v8_host /\ host.gen = rp.init THEN Bootout ELSE UNCHANGED host /\ Refuses(rp)

\* Mutant: a rollback expects to find the host running.
stop_v8_host_for_rollback_Live ==
    /\ At("stopAny") /\ Only({"host"}) /\ Same /\ UNCHANGED births
    /\ IF verify_live_v8_host THEN Bootout ELSE UNCHANGED host /\ Refuses(rp)

\* A host whose job is gone but which still runs cannot be proved exact.
stop_v8_host_for_rollback ==
    /\ At("stopAny") /\ Only({"host"}) /\ Same /\ UNCHANGED births
    /\ IF verify_live_v8_host \/ capture_server_processes = {}
       THEN Bootout ELSE UNCHANGED host /\ Refuses(rp)

Moved(from, to) == [drv EXCEPT ![to] = drv[from], ![from] = "none"]

rename_exclusive(from, to, r) ==
    \/ drv' = Moved(from, to) /\ Succeeds(r)
    \/ drv' \in {drv, Moved(from, to)} /\ Breaks(rp)

RootRetain ==
    /\ At("retain") /\ Only({"drv"}) /\ Same
    /\ IF capture_server_processes = {} /\ verify_installed_v7_driver /\ drv.prior = "none"
       THEN rename_exclusive("canonical", "prior", rp) ELSE UNCHANGED drv /\ Refuses(rp)

publish_candidate_driver ==
    /\ At("publish") /\ Only({"drv"}) /\ Same
    /\ IF drv.canonical = "none" THEN rename_exclusive("stage", "canonical", rp)
       ELSE UNCHANGED drv /\ Refuses(rp)

Restarted == [gen |-> audio.gen + 1, drv |-> drv.canonical]

reload_coreaudio_exact(expected, ok) ==
    IF capture_server_processes = {} /\ stable_coreaudio_generation = expected
    THEN \/ audio' = Restarted /\ (IF ok THEN Succeeds(rp) ELSE Refuses(rp))
         \/ audio' \in {audio, Restarted} /\ Breaks(rp)
    ELSE UNCHANGED audio /\ Refuses(rp)

RootReload ==
    /\ At("reload") /\ Only({"audio"}) /\ Same
    /\ reload_coreaudio_exact(rp.audio, stable_route_snapshot = rp.routes)

\* The candidate answers the reader and the probe, in both orders, with one
\* driver instance.
run_passive_driver_validation ==
    /\ At("validate") /\ Only({}) /\ Same
    /\ \/ audio.drv = "candidate" /\ stable_route_snapshot = rp.routes /\ Succeeds(rp)
       \/ stable_route_snapshot # rp.routes /\ Refuses(rp)
       \/ Breaks(rp)

Launched == [loaded |-> TRUE, gen |-> births + 1, first |-> TRUE]

restart_exact_v8_host ==
    /\ At("restart") /\ Only({"host"}) /\ Same
    /\ IF /\ require_service_absent /\ capture_server_processes = {} /\ prove_lock_free
          /\ verify_installed_v8_runtime_bytes /\ require_legacy_disabled_and_absent
          /\ verify_pairing_metadata_only
       THEN \/ /\ host' = Launched /\ births' = births + 1
               /\ Succeeds([rp EXCEPT !.seen = births + 1, !.first = TRUE,
                                      !.done = IF rp.op = "rollback" THEN @ \cup {"restarted"} ELSE @])
            \/ /\ \/ UNCHANGED <<host, births>>
                  \/ host' = Launched /\ births' = births + 1
               /\ Breaks(rp)
       ELSE UNCHANGED <<host, births>> /\ Refuses(rp)

RootReady ==
    /\ At("ready") /\ Only({}) /\ Same
    /\ IF stable_route_snapshot = rp.routes /\ verify_pairing_metadata_only
       THEN Succeeds(rp) ELSE Refuses(rp)

RootPairing ==
    /\ At("pairing") /\ Only({}) /\ Same
    /\ IF verify_pairing_metadata_only THEN Succeeds(rp) ELSE Refuses(rp)

Released == [tx EXCEPT !.reserve = "released"]

release_rollback_reserve_descriptor ==
    /\ At("release") /\ Only({"tx"}) /\ Same
    /\ \/ tx' = Released /\ Succeeds(rp)
       \/ tx' \in {tx, Released} /\ Breaks(rp)

----------------------------------------------------------------------------
(* The rollback                                                              *)

RootResume ==
    /\ At("resume") /\ Only({"tx", "jnl"}) /\ Same
    /\ IF st.at # "none" /\ st.init = rp.init /\ st.reserve
       THEN \/ /\ tx' = Released /\ jnl' = reconcile(jnl)
               /\ IF Diverged(jnl) \/ (jnl'.at = "AUTHENTICATED" /\ st.at # "HOST_STOP_INITIATED")
                  THEN Refuses([rp EXCEPT !.mem = jnl'.at])
                  ELSE Succeeds([rp EXCEPT !.mem = jnl'.at])
            \/ tx' \in {tx, Released} /\ UNCHANGED jnl /\ Breaks(rp)
       ELSE UNCHANGED <<tx, jnl>> /\ Refuses(rp)

Proved(r) == [r EXCEPT !.seen = host.gen, !.first = host.first]

RootScope ==
    /\ At("scope") /\ Only({}) /\ Same
    /\ CASE rollback_resume_action(rp.mem) = "Refuse" -> Refuses(rp)
         [] rollback_resume_action(rp.mem) = "ContinueRecovery" -> Succeeds(rp)
         [] OTHER ->
              IF verify_installed_v7_driver /\ verify_live_v8_host /\ verify_pairing_metadata_only
              THEN Succeeds(Proved(rp)) \/ Breaks(rp) ELSE Refuses(rp)

RootArchive ==
    /\ At("archive") /\ Only({"drv"}) /\ Same
    /\ CASE path_is_exact_candidate("canonical") /\ drv.failed = "none" ->
              rename_exclusive("canonical", "failed", [rp EXCEPT !.done = @ \cup {"archived"}])
         [] path_is_exact_candidate("canonical") /\ drv.failed # "none" ->
              UNCHANGED drv /\ Refuses(rp)
         [] OTHER -> UNCHANGED drv /\ Succeeds(rp)

\* Mutant: the retained driver is copied back, not moved.
RootRestore_Copy ==
    /\ At("restore") /\ Only({"drv"}) /\ Same
    /\ CASE path_is_exact_v7("canonical") -> UNCHANGED drv /\ Succeeds(rp)
         [] drv.canonical = "none" /\ path_is_exact_v7("prior") ->
              drv' = [drv EXCEPT !.canonical = "v7"] /\ Succeeds(rp)
         [] OTHER -> UNCHANGED drv /\ Refuses(rp)

RootRestore ==
    /\ At("restore") /\ Only({"drv"}) /\ Same
    /\ CASE path_is_exact_v7("canonical") -> UNCHANGED drv /\ Succeeds(rp)
         [] drv.canonical = "none" /\ path_is_exact_v7("prior") ->
              rename_exclusive("prior", "canonical", rp)
         [] OTHER -> UNCHANGED drv /\ Refuses(rp)

\* Core Audio is the one of the record, or its successor: another process had
\* already restarted it.
RootReloadPrior ==
    /\ At("reloadPrior") /\ Only({"audio"}) /\ Same
    /\ IF ~exact_fields_for_state THEN UNCHANGED audio /\ Refuses(rp)
       ELSE IF audio.gen = jnl.old + 1 THEN UNCHANGED audio /\ Succeeds(rp)
       ELSE reload_coreaudio_exact(jnl.old, TRUE)

----------------------------------------------------------------------------
(* Before the stop: preserving the host; and the reports of a settled one    *)

release_discovered_prestop_reserve == IF tx.reserve = "absent" THEN tx ELSE Released

RootDiscover ==
    /\ At("discover") /\ Only({"tx", "jnl"}) /\ Same
    /\ LET j == reconcile(jnl)
           preserved == /\ verify_installed_v7_driver /\ drv.prior = "none" /\ drv.failed = "none"
                        /\ verify_live_v8_host /\ verify_pairing_metadata_only
                        /\ st.at = "none" \/ (st.at = "AUTHENTICATED" /\ st.init = host.gen)
                        /\ st.reserve => tx.reserve # "absent"
           r == [Proved(rp) EXCEPT !.mem = j.at, !.init = host.gen,
                                   !.routes = IF st.at = "none" THEN routes ELSE st.routes]
       IN \/ /\ tx' = release_discovered_prestop_reserve
             /\ IF preserved
                THEN /\ jnl' = j
                     /\ IF ~Diverged(jnl) /\ j.at \in {"BEGUN", "AUTHENTICATED", "PRESTOP_ABORTED"}
                        THEN Succeeds(r) ELSE Refuses(r)
                ELSE UNCHANGED jnl /\ Refuses(rp)
          \/ UNCHANGED <<tx, jnl>> /\ Breaks(rp)

RootUnreserve ==
    /\ At("unreserve") /\ Only({"tx"}) /\ Same
    /\ \/ tx' = Released /\ Succeeds([rp EXCEPT !.done = @ \cup {"released"}])
       \/ UNCHANGED tx /\ Breaks(rp)

\* A settled transaction is verified again, and its reserve released again.
RootVerifySettled ==
    /\ At("repairCommitted") \/ At("repairRolledBack") \/ At("reportPrestop")
    /\ Only({"tx", "jnl"}) /\ Same
    /\ LET want == CASE Op.do = "repairCommitted" -> "COMMITTED"
                     [] Op.do = "repairRolledBack" -> "ROLLED_BACK"
                     [] OTHER -> "PRESTOP_ABORTED"
           j == IF want = "PRESTOP_ABORTED" THEN jnl ELSE reconcile(jnl)
           ok == /\ want # "PRESTOP_ABORTED" => st.reserve /\ ~Diverged(jnl) /\ j.at = want
                 /\ verify_driver_bundle("canonical", IF want = "COMMITTED" THEN "candidate" ELSE "v7")
                 /\ verify_live_v8_host /\ verify_pairing_metadata_only
                 /\ want = "PRESTOP_ABORTED" => host.gen = st.init
       IN \/ /\ tx' = IF st.reserve THEN Released ELSE tx
             /\ jnl' = j /\ (IF ok THEN Succeeds([Proved(rp) EXCEPT !.mem = j.at]) ELSE Refuses(rp))
          \/ UNCHANGED <<tx, jnl>> /\ Breaks(rp)

----------------------------------------------------------------------------
(* Results                                                                   *)

Said(r) == IF r.op \in {"forward", "committed"} THEN "success" ELSE "rolled-back"

\* The transaction's own result is written best effort, a recovery's must be,
\* unless one is there; an abort reports only preserved generations.
write_root_result ==
    /\ At("result") /\ Only({"tx"}) /\ Same
    /\ LET r == [rp EXCEPT !.calm = stable_route_snapshot = rp.routes]
           new == [tx EXCEPT !.result = Said(rp)]
       IN IF tx.result # "none" \/ (rp.op = "abort" /\ ~GenerationsPreserved)
          THEN UNCHANGED tx /\ Succeeds(r)
          ELSE \/ tx' = new /\ Succeeds(r)
               \/ /\ tx' \in {tx, new} /\ Spend
                  /\ rp' = IF rp.op \in {"forward", "abort"} \/ (rp.op = "rollback" /\ rp.kind = "forward")
                           THEN Advance(r) ELSE Over(r)

\* The outcome of a recovery is written once and only ever confirmed.
write_root_recovery_result ==
    /\ At("recoveryResult") /\ Only({"tx"}) /\ Same
    /\ CASE tx.recovery = "none" ->
              \/ tx' = [tx EXCEPT !.recovery = rp.what] /\ Succeeds(rp)
              \/ tx' \in {tx, [tx EXCEPT !.recovery = "torn"]} /\ Breaks(rp)
         [] tx.recovery = rp.what -> UNCHANGED tx /\ Succeeds(rp)
         [] OTHER -> UNCHANGED tx /\ Refuses(rp)

----------------------------------------------------------------------------
(* A bootstrap that never published its pointer                              *)

require_pointerless_partial_root_layout ==
    /\ tx.reserve = "absent" /\ tx.result = "none"
    /\ drv.prior = "none" /\ drv.failed = "none" /\ drv.stage = "none"

RootExamine ==
    /\ At("examine") /\ Only({}) /\ Same
    /\ IF /\ {"locator", "parent", "support"} \subseteq stage /\ verify_installed_v7_driver
          /\ require_legacy_disabled_and_absent /\ verify_live_v8_host /\ verify_pairing_metadata_only
          /\ tx.dir => require_pointerless_partial_root_layout
       THEN \/ LET r == [Proved(rp) EXCEPT !.init = host.gen, !.routes = routes]
               IN  IF tx.dir THEN Succeeds(r) ELSE Succeeds([r EXCEPT !.at = 4])
            \/ Breaks(rp)
       ELSE Refuses(rp)

\* The journal is created if need be and records the abort; a journal cut off
\* in its creation is left, with a witness beside it.
RootSettle ==
    /\ At("settle") /\ Only({"jnl"}) /\ Same
    /\ CASE jnl.at = "absent" ->
              \/ jnl' = [jnl EXCEPT !.at = "BEGUN"] /\ UNCHANGED <<rp, troubles>>
              \/ (\E s \in {"absent", "partial"} : jnl' = [jnl EXCEPT !.at = s]) /\ Breaks(rp)
         [] jnl.at = "BEGUN" /\ record_admissible(jnl, "PRESTOP_ABORTED") ->
              \/ jnl' = record(jnl, "PRESTOP_ABORTED") /\ Succeeds(rp)
              \/ jnl' \in record_failures(jnl, "PRESTOP_ABORTED") /\ Breaks(rp)
         [] jnl.at = "BEGUN" /\ ~record_admissible(jnl, "PRESTOP_ABORTED") ->
              jnl' = reconcile(jnl) /\ Refuses(rp)
         [] jnl.at \in {"partial", "PRESTOP_ABORTED"} -> UNCHANGED jnl /\ Succeeds(rp)
         [] OTHER -> UNCHANGED jnl /\ Refuses(rp)

\* The abort result names the host that was preserved.
RootAbortResult ==
    /\ At("abortResult") /\ Only({"tx"})
    /\ CASE "abort" \notin stage \cup cut ->
              \/ /\ stage' = stage \cup {"abort"} /\ tx' = [tx EXCEPT !.aborted = rp.init]
                 /\ UNCHANGED cut /\ Succeeds(rp)
              \/ cut' = cut \cup {"abort"} /\ UNCHANGED <<stage, tx>> /\ Breaks(rp)
         [] "abort" \in stage /\ tx.aborted = rp.init -> UNCHANGED tx /\ Same /\ Succeeds(rp)
         [] OTHER -> UNCHANGED tx /\ Same /\ Refuses(rp)

----------------------------------------------------------------------------
(* The process starts and ends                                               *)

Answer(a) == out' = IF rp.own THEN a ELSE out
Said_failed == [NoAnswer EXCEPT !.is = "failed"]
\* Only the marker of a recovery with a pointer tells whether the routes are
\* still those of the transaction.
Marker(r) ==
    [is |-> "ok", host |-> r.seen, first |-> r.first,
     what |-> CASE r.op = "forward" -> "committed"
                [] r.op = "pointerless" -> "pointerless" [] OTHER -> r.what,
     calm |-> r.op \in {"forward", "pointerless"} \/ r.calm]

RootEnds ==
    /\ rp.op # "none" /\ ~Working
    /\ IF rp.kind = "recovery" /\ rp.op \notin {"over", "failure", "tail", "pointerless"}
       THEN rp' = Enter(rp, "tail") /\ UNCHANGED <<tx, out>>
       ELSE /\ rp' = NoRoot
            /\ Answer(IF rp.op \in {"forward", "tail", "pointerless"} THEN Marker(rp) ELSE Said_failed)
            /\ tx' = IF "critical" \in rp.done /\ tx.result = "none"
                     THEN [tx EXCEPT !.result = "critical-failure"] ELSE tx
    /\ UNCHANGED <<world, tries, pin, stage, cut, jnl, st, usr, waiting, troubles>>

verify_fixed_root_recovery_controller == {"parent", "rec", "recPin"} \subseteq stage
verify_sealed_transaction_controller == {"support", "tx", "txPin", "txId"} \subseteq stage

reconcile_root_pointer_for_recovery ==
    IF tx.ptr \in {"published", "pending"} THEN "published" ELSE tx.ptr

complete_root_recovery(r) ==
    LET plan == root_recovery_plan(effective_state_with_pending, st.at)
        q == [r EXCEPT !.mem = jnl.at, !.init = st.init, !.routes = st.routes,
                       !.what = Outcome(plan)]
    IN  IF plan = "reject" \/ (plan = "rollback" /\ ~st.reserve) THEN Over(r) ELSE Enter(q, plan)

root_sealed_rollback_authorized_update(r) ==
    IF ~(verify_fixed_root_recovery_controller /\ verify_root_bootstrap_locator) THEN Over(r)
    ELSE IF reconcile_root_pointer_for_recovery # "published"
    THEN Enter([r EXCEPT !.what = "prestop-aborted"], "pointerless")
    ELSE IF verify_sealed_transaction_controller THEN complete_root_recovery(r) ELSE Over(r)

acquire_root_update_lock == rp.op = "none"

RootStarts ==
    \E p \in waiting :
      /\ waiting' = waiting \ {p}
      /\ IF acquire_root_update_lock
         THEN LET r == [NoRoot EXCEPT !.kind = p.kind, !.own = p.own] IN
              /\ rp' = IF p.kind = "forward" THEN Enter(r, "forward")
                       ELSE root_sealed_rollback_authorized_update(r)
              /\ tx' = [tx EXCEPT !.lock = TRUE,
                          !.ptr = IF p.kind = "recovery" /\ verify_fixed_root_recovery_controller
                                  THEN reconcile_root_pointer_for_recovery ELSE @]
              /\ UNCHANGED out
         ELSE /\ UNCHANGED <<rp, tx>>
              /\ out' = IF p.own THEN [NoAnswer EXCEPT !.is = "busy"] ELSE out
      /\ UNCHANGED <<world, tries, pin, stage, cut, jnl, st, usr, troubles>>

RootDies ==
    /\ rp.op # "none" /\ Spend
    /\ rp' = NoRoot /\ Answer(Said_failed)
    /\ UNCHANGED <<world, disk, usr, waiting>>

RootWorks ==
    \/ RootRecord \/ RootWrite \/ RootAdmit \/ RootLayout \/ RootCreate \/ write_root_pointer
    \/ stage_root_artifacts \/ RootRecheck \/ allocate_rollback_reserve \/ RootRevalidate
    \/ write_root_state_tracked \/ stop_exact_v8_host \/ stop_v8_host_for_rollback
    \/ RootRetain \/ publish_candidate_driver \/ RootReload \/ run_passive_driver_validation
    \/ restart_exact_v8_host \/ RootReady \/ RootPairing \/ release_rollback_reserve_descriptor
    \/ RootResume \/ RootScope \/ RootArchive \/ RootRestore \/ RootReloadPrior
    \/ RootDiscover \/ RootUnreserve \/ RootVerifySettled \/ write_root_result
    \/ write_root_recovery_result \/ RootExamine \/ RootSettle \/ RootAbortResult

RootStep == (Working /\ RootWorks) \/ RootEnds
=============================================================================
