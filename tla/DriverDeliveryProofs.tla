------------------------ MODULE DriverDeliveryProofs ------------------------
(* Theorems about DriverDelivery, for every bound on troubles, every set of  *)
(* events and every set of things that may be disturbed.                     *)
EXTENDS DriverDelivery, FiniteSetTheorems, WellFoundedInduction, TLAPS

----------------------------------------------------------------------------
(* Records                                                                   *)

Done == {"put", "aborted", "released", "terminal", "critical", "archived", "restarted"}
Told == {"none", "committed", "rolled-back", "prestop-aborted"}
Ops == DOMAIN PlanOf
JournalAt == UpdateState \cup {"absent", "partial"}

RootType ==
    [kind : {"none", "forward", "recovery"}, op : Ops, at : Nat, half : BOOLEAN, mem : JournalAt,
     init : Nat, audio : Nat, routes : {"base", "drifted"}, own : BOOLEAN, done : SUBSET Done,
     seen : Nat, first : BOOLEAN, calm : BOOLEAN, what : Told]
TxType ==
    [dir : BOOLEAN, lock : BOOLEAN, ptr : {"absent", "torn", "pending", "published"},
     reserve : {"absent", "partial", "allocated", "released"},
     result : {"none", "success", "rolled-back", "critical-failure"},
     recovery : {"none", "torn", "committed", "rolled-back", "prestop-aborted"}, aborted : Nat]
JournalType ==
    [at : JournalAt, pend : UpdateState \cup {"none", "torn", "earlier"}, inits : 0..2, old : Nat]
StateFileType ==
    [at : UpdateState \cup {"none"}, init : Nat, routes : {"base", "drifted"}, reserve : BOOLEAN]
AnswerType ==
    [is : {"none", "ok", "failed", "busy"}, what : Told \cup {"pointerless"}, host : Nat,
     first : BOOLEAN, calm : BOOLEAN]

\* Every variable holds a value of its kind, records field by field, and the
\* bundle in the stage is never the v7 driver.
Typed ==
    /\ TypeOK /\ rp \in RootType /\ tx \in TxType /\ jnl \in JournalType
    /\ st \in StateFileType /\ out \in AnswerType
    /\ drv.stage # "v7"

Kept == Typed /\ PriorDriverKept

----------------------------------------------------------------------------
(* Where a root process can be, given the host, the audio, the driver, the   *)
(* transaction, the journal and the sealed files                             *)

Effective(j) == IF classify_pending_journal_snapshot(j) = "promote" THEN j.pend ELSE j.at

Synced(a, d) == a.drv = d.canonical
Down(h) == ~h.loaded /\ h.gen = 0
Untouched(d) == d.canonical = "v7" /\ d.prior = "none" /\ d.failed = "none"
NoJournal(j) == j.at = "absent" /\ j.pend = "none"
Clean(r, j) == j.pend = "none" /\ r.mem = j.at /\ j.at \in UpdateState
Aborted(j) == j.at \in {"PRESTOP_ABORTED", "partial"}

\* A process waits at an operation of its plan that applies to the journal state
\* it knows; between a record and its state file it knows the record.  An abort
\* writes its last state file only when it has seen its record.
DueHere(r) ==
    r.at \in 1..Len(PlanOf[r.op]) =>
        IF r.half THEN PlanOf[r.op][r.at].do = "mark" /\ r.mem = PlanOf[r.op][r.at].s
                  ELSE /\ r.mem \in PlanOf[r.op][r.at].from
                       /\ r.op = "abort" /\ r.at = 4 => "aborted" \in r.done

CutoverStates == {Cutover[i] : i \in 1..10}

ForwardAt(r, h, a, d, t, j, g) ==
    /\ r.mem \in UpdateState
    /\ r.at >= 2 => "abort" \notin g
    /\ r.at >= 3 => t.dir
    /\ r.at = 3 => NoJournal(j)
    /\ r.at >= 4 => Clean(r, j) /\ j.at \in CutoverStates \cup {"BEGUN"}
    /\ r.at \in 4..27 => j.at # "COMMITTED"
    /\ r.at >= 29 => j.at = "COMMITTED"
    /\ r.at \in 3..15 => Untouched(d)
    /\ r.at \in 6..17 => d.stage = "candidate"
    /\ r.at \in 16..17 => d.canonical = "none" /\ d.prior = "v7"
    /\ r.at >= 18 => d.canonical = "candidate" /\ d.prior = "v7"
    /\ r.at \in 14..23 => Down(h)
    /\ r.at \in 20..23 => Synced(a, d)

RollbackAt(r, h, a, d, t, j, g) ==
    /\ "abort" \notin g /\ r.mem \in UpdateState /\ j.at \in UpdateState
    /\ r.at >= 2 => Clean(r, j)
    /\ r.at \in 6..13 => Down(h)
    /\ r.at \in 9..14 => d.canonical = "v7"
    /\ r.at = 12 => Synced(a, d)
    /\ r.at >= 17 => r.mem = "ROLLED_BACK"

\* The host is preserved before the stop, by the transaction or by a recovery.
PrestopAt(r, d, j) ==
    /\ r.mem \in UpdateState
    /\ r.at >= 2 => Untouched(d) /\ Clean(r, j)
    /\ r.at >= 3 => j.at = "PRESTOP_ABORTED"

SettledAt(r, j) ==
    /\ r.mem \in UpdateState
    /\ r.op = "committed" /\ r.at >= 2 => j.at = "COMMITTED"
    /\ r.op = "rolledBack" /\ r.at >= 2 => j.at = "ROLLED_BACK"
    /\ r.op = "report" => j.at = "PRESTOP_ABORTED"

PointerlessAt(r, d, t, j, g) ==
    /\ r.mem \in UpdateState /\ t.ptr \notin {"published", "pending"}
    /\ r.at >= 2 => Untouched(d)
    /\ r.at \in 2..4 => t.dir
    /\ r.at \in 3..4 => Aborted(j)
    /\ r.at >= 6 => "abort" \in g

\* What a recovery is about to report is in the journal when it does.
Reports(w, j) ==
    CASE w = "committed" -> j.at = "COMMITTED"
      [] w = "rolled-back" -> j.at = "ROLLED_BACK"
      [] w = "prestop-aborted" -> j.at = "PRESTOP_ABORTED"
      [] OTHER -> FALSE

Purpose(r) ==
    /\ r.op = "committed" => r.what = "committed"
    /\ r.op = "rolledBack" \/ (r.op = "rollback" /\ r.kind = "recovery") => r.what = "rolled-back"
    /\ r.op \in {"report", "pointerless"} \/ (r.op = "prestop" /\ r.kind = "recovery")
         => r.what = "prestop-aborted"
    /\ r.op \in {"forward", "abort"} => r.kind = "forward"
    /\ r.op \in {"committed", "rolledBack", "report", "pointerless", "tail"} => r.kind = "recovery"

Placed(r, h, a, d, t, j, g) ==
    /\ r.op # "none" => r.at >= 1 /\ r.kind # "none"
    /\ DueHere(r) /\ Purpose(r)
    /\ "aborted" \in r.done => j.at = "PRESTOP_ABORTED"
    /\ r.op = "forward" => ForwardAt(r, h, a, d, t, j, g)
    /\ r.op = "rollback" => RollbackAt(r, h, a, d, t, j, g)
    /\ r.op = "abort" => Untouched(d)
    /\ r.op = "prestop" => PrestopAt(r, d, j)
    /\ r.op \in {"committed", "rolledBack", "report"} => SettledAt(r, j)
    /\ r.op = "pointerless" => PointerlessAt(r, d, t, j, g)
    /\ r.op = "tail" => Reports(r.what, j)

RootPlaced == Placed(rp, host, audio, drv, tx, jnl, stage)

----------------------------------------------------------------------------
(* What is true of the machine                                               *)

Back == {"PRIOR_DRIVER_RESTORED", "ROLLBACK_COREAUDIO_RELOAD_INITIATED",
         "ROLLBACK_COREAUDIO_RELOADED"}

Truth(e, a, d, j) ==
    /\ e \in Back \cup {"HOST_REBOOTSTRAPPED", "ROLLED_BACK", "PRESTOP_ABORTED"} => d.canonical = "v7"
    /\ e = "PRESTOP_ABORTED" => d.prior = "none" /\ d.failed = "none"
    /\ e = "COMMITTED" => d.canonical = "candidate" /\ d.prior = "v7"
    /\ e = "ROLLBACK_COREAUDIO_RELOADED" => Synced(a, d)
    /\ e = "ROLLBACK_COREAUDIO_RELOAD_INITIATED" =>
         a.gen >= j.old /\ (a.gen > j.old => Synced(a, d))

JournalTrue == Truth(Effective(jnl), audio, drv, jnl)

\* A host runs, or will be started by launchd, only over the driver that Core
\* Audio has loaded.
HostKnowing == host.loaded \/ host.gen # 0 => Synced(audio, drv)

Begun ==
    /\ ~tx.dir => NoJournal(jnl) /\ Untouched(drv)
    /\ ~tx.lock => rp.op = "none" /\ ~tx.dir
    /\ "abort" \in stage => /\ tx.ptr \notin {"published", "pending"}
                            /\ drv.prior = "none" /\ drv.failed = "none"

ResultsTrue ==
    /\ tx.result = "success" \/ tx.recovery = "committed" => jnl.at = "COMMITTED"
    /\ tx.recovery = "rolled-back" => jnl.at = "ROLLED_BACK"
    /\ tx.recovery = "prestop-aborted" \/ st.at = "PRESTOP_ABORTED" => Aborted(jnl)

AnswerTrue ==
    out.is = "ok" =>
      CASE out.what = "pointerless" -> "abort" \in stage
        [] OTHER -> Reports(out.what, jnl)

Machine == JournalTrue /\ HostKnowing /\ Begun /\ ResultsTrue /\ AnswerTrue

----------------------------------------------------------------------------
(* Where a program of the user can be                                        *)

Recovery == {"rec", "recPin"}

Places == {"none", "layout", "authenticate", "stage", "final", "await", "compare", "intent",
           "dispatch", "forward", "recover", "recovery", "report"}
UserType ==
    [who : {"none", "v1", "v2", "rollback", "resume"}, at : Places, host : Int, audio : Nat,
     routes : {"base", "drifted", "none"}, driver : Bundle, fresh : BOOLEAN, sub : Told]

Programmed ==
    /\ usr \in UserType
    /\ waiting # {} \/ tx.lock => Recovery \subseteq stage
    /\ "rec" \in stage => "parent" \in stage
    /\ usr.who = "v2" /\ usr.at \in {"layout", "authenticate", "stage", "final"} =>
         waiting = {} /\ ~tx.lock
    /\ usr.who = "v2" /\ usr.at = "final" => Recovery \subseteq stage
    /\ usr.who = "resume" /\ usr.at = "dispatch" => Recovery \subseteq stage
    /\ ReportTrue

----------------------------------------------------------------------------
(* The plans                                                                 *)

\* The names of the plans.
LEMMA OpsAre ==
    Ops = {"none", "over", "forward", "rollback", "failure", "prestop", "abort", "committed",
           "rolledBack", "report", "pointerless", "tail"}
  BY DEF Ops, PlanOf

\* Each plan is the sequence of operations of one function of the controller.
LEMMA PlansAre ==
    /\ PlanOf["none"] = <<>> /\ PlanOf["over"] = <<>>
    /\ PlanOf["forward"] = perform_root_transaction
    /\ PlanOf["rollback"] = rollback_root_transaction
    /\ PlanOf["failure"] = journal_rollback_failure
    /\ PlanOf["prestop"] = finalize_prestop_preserving_host
    /\ PlanOf["abort"] = abort_prestop_after_reserve
    /\ PlanOf["committed"] = repair_committed_terminal_state
    /\ PlanOf["rolledBack"] = repair_rolled_back_terminal_state
    /\ PlanOf["report"] = report_prestop_aborted_terminal
    /\ PlanOf["pointerless"] = finalize_sealed_bootstrap_without_root_pointer
    /\ PlanOf["tail"] = <<Do("recoveryResult")>>
  BY DEF PlanOf

\* How many operations each plan has.
LEMMA PlanLengths ==
    /\ Len(PlanOf["none"]) = 0 /\ Len(PlanOf["over"]) = 0 /\ Len(PlanOf["forward"]) = 29
    /\ Len(PlanOf["rollback"]) = 17 /\ Len(PlanOf["failure"]) = 1 /\ Len(PlanOf["prestop"]) = 4
    /\ Len(PlanOf["abort"]) = 5 /\ Len(PlanOf["committed"]) = 3 /\ Len(PlanOf["rolledBack"]) = 3
    /\ Len(PlanOf["report"]) = 2 /\ Len(PlanOf["pointerless"]) = 5 /\ Len(PlanOf["tail"]) = 1
  BY PlansAre DEF perform_root_transaction, rollback_root_transaction, journal_rollback_failure,
       finalize_prestop_preserving_host, abort_prestop_after_reserve,
       repair_committed_terminal_state, repair_rolled_back_terminal_state,
       report_prestop_aborted_terminal, finalize_sealed_bootstrap_without_root_pointer

\* Every plan is finite, and none is longer than the transaction.
LEMMA LengthNat == ASSUME NEW q \in Ops PROVE Len(PlanOf[q]) \in 0..29
  BY OpsAre, PlanLengths

\* What an operation of a plan is, by its place.
OpTyped(o) ==
    /\ o.from \subseteq UpdateState
    /\ o.do \in {"note", "put", "mark"} <=> o.s # "none"
    /\ o.s # "none" => o.s \in UpdateState

OpPlaced(q, i, o) ==
    /\ o.do = "admit" => q = "forward" /\ i = 1
    /\ o.do = "layout" => q = "forward" /\ i = 2
    /\ o.do = "create" => q = "forward" /\ i = 3
    /\ o.do = "pointer" => q = "forward" /\ i = 4
    /\ o.do = "artifacts" => q = "forward" /\ i = 5
    /\ o.do = "recheck" => q = "forward" /\ i = 7
    /\ o.do = "reserve" => q = "forward" /\ i = 8
    /\ o.do = "revalidate" => q = "forward" /\ i = 10
    /\ o.do = "stopIntent" => q = "forward" /\ i = 11
    /\ o.do = "stop" => q = "forward" /\ i = 13
    /\ o.do = "retain" => q = "forward" /\ i = 15
    /\ o.do = "publish" => q = "forward" /\ i = 17
    /\ o.do = "reload" => q = "forward" /\ i = 19
    /\ o.do = "validate" => q = "forward" /\ i = 21
    /\ o.do = "restart" => (q = "forward" /\ i = 23) \/ (q = "rollback" /\ i = 13)
    /\ o.do = "ready" => q = "forward" /\ i = 25
    /\ o.do = "release" => q = "forward" /\ i = 27
    /\ o.do = "resume" => q = "rollback" /\ i = 1
    /\ o.do = "scope" => q = "rollback" /\ i = 3
    /\ o.do = "stopAny" => q = "rollback" /\ i = 5
    /\ o.do = "archive" => q = "rollback" /\ i = 6
    /\ o.do = "restore" => q = "rollback" /\ i = 8
    /\ o.do = "reloadPrior" => q = "rollback" /\ i = 11
    /\ o.do = "pairing" => q = "rollback" /\ i = 15
    /\ o.do = "discover" => q = "prestop" /\ i = 1
    /\ o.do = "unreserve" => q = "abort" /\ i = 1
    /\ o.do = "repairCommitted" => q = "committed" /\ i = 1
    /\ o.do = "repairRolledBack" => q = "rolledBack" /\ i = 1
    /\ o.do = "reportPrestop" => q = "report" /\ i = 1
    /\ o.do = "examine" => q = "pointerless" /\ i = 1
    /\ o.do = "settle" => q = "pointerless" /\ i = 2
    /\ o.do = "abortResult" => q = "pointerless" /\ i = 5
    /\ o.do = "recoveryResult" => (q = "pointerless" /\ i = 4) \/ (q = "tail" /\ i = 1)
    /\ o.do = "result" => \/ q = "forward" /\ i = 29
                          \/ q = "rollback" /\ i = 17
                          \/ q = "prestop" /\ i = 4
                          \/ q = "abort" /\ i = 5
                          \/ q \in {"committed", "rolledBack"} /\ i = 3
                          \/ q = "report" /\ i = 2

OpRecords(q, i, o) ==
    /\ o.do = "put" => \/ q = "forward" /\ i = 9 /\ o.s = "AUTHENTICATED"
                       \/ q = "prestop" /\ i = 3 /\ o.s = "PRESTOP_ABORTED"
                       \/ q = "abort" /\ i = 2 /\ o.s = "AUTHENTICATED"
                       \/ q = "abort" /\ i = 4 /\ o.s = "PRESTOP_ABORTED"
                       \/ q = "committed" /\ i = 2 /\ o.s = "COMMITTED"
                       \/ q = "rolledBack" /\ i = 2 /\ o.s = "ROLLED_BACK"
                       \/ q = "pointerless" /\ i = 3 /\ o.s = "PRESTOP_ABORTED"
    /\ o.do = "note" => \/ q = "forward" /\ i \in {12, 16} /\ o.s \in CutoverStates \ {"COMMITTED"}
                        \/ q = "prestop" /\ i = 2 /\ o.s = "PRESTOP_ABORTED"
                        \/ q = "abort" /\ i = 3 /\ o.s = "PRESTOP_ABORTED"
    /\ o.do = "mark" => \/ q = "forward" /\ i \in {6, 14, 18, 20, 22, 24, 26}
                                         /\ o.s \in CutoverStates \ {"COMMITTED"}
                        \/ q = "forward" /\ i = 28 /\ o.s = "COMMITTED"
                        \/ q = "rollback" /\ <<i, o.s>> \in
                             {<<2, "CRITICAL_FAILURE">>, <<4, "ROLLBACK_STARTED">>,
                              <<7, "FAILED_DRIVER_ARCHIVED">>, <<9, "PRIOR_DRIVER_RESTORED">>,
                              <<10, "ROLLBACK_COREAUDIO_RELOAD_INITIATED">>,
                              <<12, "ROLLBACK_COREAUDIO_RELOADED">>, <<14, "HOST_REBOOTSTRAPPED">>,
                              <<16, "ROLLED_BACK">>}
                        \/ q = "failure" /\ i = 1 /\ o.s = "CRITICAL_FAILURE"

OpSound(q, i, o) == OpTyped(o) /\ OpPlaced(q, i, o) /\ OpRecords(q, i, o)

\* The states of a transaction in the order it passes them, as a set.
LEMMA CutoverIs ==
    CutoverStates = {"AUTHENTICATED", "HOST_STOP_INITIATED", "HOST_STOPPED",
                     "PRIOR_DRIVER_RETAINED", "CANDIDATE_PUBLISHED", "COREAUDIO_RELOADED",
                     "DRIVER_VALIDATED", "HOST_BOOTSTRAPPED", "READY_VERIFIED", "COMMITTED"}
<1>1. \A i \in 1..10 : i \in {1, 2, 3, 4, 5, 6, 7, 8, 9, 10}
  OBVIOUS
<1>2. QED
  BY <1>1 DEF CutoverStates, Cutover

\* The states after the stop, those of a rollback, and those a rollback resumes
\* from.
LEMMA StatesAre ==
    /\ Crossed = {"HOST_STOP_INITIATED", "HOST_STOPPED", "PRIOR_DRIVER_RETAINED",
                  "CANDIDATE_PUBLISHED", "COREAUDIO_RELOADED", "DRIVER_VALIDATED",
                  "HOST_BOOTSTRAPPED", "READY_VERIFIED"}
    /\ Undoing = {"ROLLBACK_STARTED", "FAILED_DRIVER_ARCHIVED", "PRIOR_DRIVER_RESTORED",
                  "ROLLBACK_COREAUDIO_RELOAD_INITIATED", "ROLLBACK_COREAUDIO_RELOADED",
                  "HOST_REBOOTSTRAPPED"}
    /\ Reverting = {"ROLLBACK_STARTED", "FAILED_DRIVER_ARCHIVED", "PRIOR_DRIVER_RESTORED",
                    "ROLLBACK_COREAUDIO_RELOAD_INITIATED", "ROLLBACK_COREAUDIO_RELOADED"}
<1>1. \A i \in 1..6 : i \in {1, 2, 3, 4, 5, 6}
  OBVIOUS
<1>2. \A i \in 2..9 : i \in {2, 3, 4, 5, 6, 7, 8, 9}
  OBVIOUS
<1>3. Undoing = {"ROLLBACK_STARTED", "FAILED_DRIVER_ARCHIVED", "PRIOR_DRIVER_RESTORED",
                  "ROLLBACK_COREAUDIO_RELOAD_INITIATED", "ROLLBACK_COREAUDIO_RELOADED",
                  "HOST_REBOOTSTRAPPED"}
  BY <1>1 DEF Undoing, Undo
<1>4. Crossed = {"HOST_STOP_INITIATED", "HOST_STOPPED", "PRIOR_DRIVER_RETAINED",
                  "CANDIDATE_PUBLISHED", "COREAUDIO_RELOADED", "DRIVER_VALIDATED",
                  "HOST_BOOTSTRAPPED", "READY_VERIFIED"}
  BY <1>2 DEF Crossed, Cutover
<1>5. QED
  BY <1>3, <1>4 DEF Reverting

\* The transaction's plan marks, looks at and changes what its places say.
LEMMA ForwardSound ==
  ASSUME NEW i \in 1..29 PROVE OpSound("forward", i, perform_root_transaction[i])
<1>1. OpTyped(perform_root_transaction[i])
  BY SMTT(30) DEF OpTyped, perform_root_transaction, Do, Mark, Note, Put, UpdateState
<1>2. OpPlaced("forward", i, perform_root_transaction[i])
  BY DEF OpPlaced, perform_root_transaction, Do, Mark, Note, Put
<1>3. OpRecords("forward", i, perform_root_transaction[i])
  BY CutoverIs DEF OpRecords, perform_root_transaction, Do, Mark, Note, Put
<1>4. QED
  BY <1>1, <1>2, <1>3 DEF OpSound

\* The same of the rollback's plan.
LEMMA RollbackSound ==
  ASSUME NEW i \in 1..17 PROVE OpSound("rollback", i, rollback_root_transaction[i])
<1>1. OpTyped(rollback_root_transaction[i])
  BY StatesAre DEF OpTyped, rollback_root_transaction, Do, DoFrom, Mark, UpdateState
<1>2. OpPlaced("rollback", i, rollback_root_transaction[i])
  BY DEF OpPlaced, rollback_root_transaction, Do, DoFrom, Mark
<1>3. OpRecords("rollback", i, rollback_root_transaction[i])
  BY StatesAre DEF OpRecords, rollback_root_transaction, Do, DoFrom, Mark
<1>4. QED
  BY <1>1, <1>2, <1>3 DEF OpSound

\* The same of the record of a failed rollback.
LEMMA FailureSound ==
  ASSUME NEW i \in 1..1 PROVE OpSound("failure", i, journal_rollback_failure[i])
<1>1. OpTyped(journal_rollback_failure[i])
  BY StatesAre DEF OpTyped, journal_rollback_failure, Mark, UpdateState
<1>2. OpPlaced("failure", i, journal_rollback_failure[i])
  BY DEF OpPlaced, journal_rollback_failure, Mark
<1>3. OpRecords("failure", i, journal_rollback_failure[i])
  BY StatesAre DEF OpRecords, journal_rollback_failure, Mark
<1>4. QED
  BY <1>1, <1>2, <1>3 DEF OpSound

\* The same of the plan that ends before the stop.
LEMMA PrestopSound ==
  ASSUME NEW i \in 1..4 PROVE OpSound("prestop", i, finalize_prestop_preserving_host[i])
<1>1. OpTyped(finalize_prestop_preserving_host[i])
  BY DEF OpTyped, finalize_prestop_preserving_host, Do, Note, Put, UpdateState
<1>2. OpPlaced("prestop", i, finalize_prestop_preserving_host[i])
  BY DEF OpPlaced, finalize_prestop_preserving_host, Do, Note, Put
<1>3. OpRecords("prestop", i, finalize_prestop_preserving_host[i])
  BY DEF OpRecords, finalize_prestop_preserving_host, Do, Note, Put
<1>4. QED
  BY <1>1, <1>2, <1>3 DEF OpSound

\* The same of the plan that aborts a transaction with its reserve.
LEMMA AbortSound ==
  ASSUME NEW i \in 1..5 PROVE OpSound("abort", i, abort_prestop_after_reserve[i])
<1>1. OpTyped(abort_prestop_after_reserve[i])
  BY DEF OpTyped, abort_prestop_after_reserve, Do, Note, Put, UpdateState
<1>2. OpPlaced("abort", i, abort_prestop_after_reserve[i])
  BY DEF OpPlaced, abort_prestop_after_reserve, Do, Note, Put
<1>3. OpRecords("abort", i, abort_prestop_after_reserve[i])
  BY DEF OpRecords, abort_prestop_after_reserve, Do, Note, Put
<1>4. QED
  BY <1>1, <1>2, <1>3 DEF OpSound

\* The same of the repair of a committed transaction.
LEMMA CommittedSound ==
  ASSUME NEW i \in 1..3 PROVE OpSound("committed", i, repair_committed_terminal_state[i])
<1>1. OpTyped(repair_committed_terminal_state[i])
  BY DEF OpTyped, repair_committed_terminal_state, Do, Put, UpdateState
<1>2. OpPlaced("committed", i, repair_committed_terminal_state[i])
  BY DEF OpPlaced, repair_committed_terminal_state, Do, Put
<1>3. OpRecords("committed", i, repair_committed_terminal_state[i])
  BY DEF OpRecords, repair_committed_terminal_state, Do, Put
<1>4. QED
  BY <1>1, <1>2, <1>3 DEF OpSound

\* The same of the repair of a transaction that was rolled back.
LEMMA RolledBackSound ==
  ASSUME NEW i \in 1..3 PROVE OpSound("rolledBack", i, repair_rolled_back_terminal_state[i])
<1>1. OpTyped(repair_rolled_back_terminal_state[i])
  BY DEF OpTyped, repair_rolled_back_terminal_state, Do, Put, UpdateState
<1>2. OpPlaced("rolledBack", i, repair_rolled_back_terminal_state[i])
  BY DEF OpPlaced, repair_rolled_back_terminal_state, Do, Put
<1>3. OpRecords("rolledBack", i, repair_rolled_back_terminal_state[i])
  BY DEF OpRecords, repair_rolled_back_terminal_state, Do, Put
<1>4. QED
  BY <1>1, <1>2, <1>3 DEF OpSound

\* The same of the report of an abort.
LEMMA ReportSound ==
  ASSUME NEW i \in 1..2 PROVE OpSound("report", i, report_prestop_aborted_terminal[i])
<1>1. OpTyped(report_prestop_aborted_terminal[i])
  BY DEF OpTyped, report_prestop_aborted_terminal, Do, UpdateState
<1>2. OpPlaced("report", i, report_prestop_aborted_terminal[i])
  BY DEF OpPlaced, report_prestop_aborted_terminal, Do
<1>3. OpRecords("report", i, report_prestop_aborted_terminal[i])
  BY DEF OpRecords, report_prestop_aborted_terminal, Do
<1>4. QED
  BY <1>1, <1>2, <1>3 DEF OpSound

\* The same of the end of a transaction that published no pointer.
LEMMA PointerlessSound ==
  ASSUME NEW i \in 1..5 PROVE OpSound("pointerless", i, finalize_sealed_bootstrap_without_root_pointer[i])
<1>1. OpTyped(finalize_sealed_bootstrap_without_root_pointer[i])
  BY DEF OpTyped, finalize_sealed_bootstrap_without_root_pointer, Do, Put, UpdateState
<1>2. OpPlaced("pointerless", i, finalize_sealed_bootstrap_without_root_pointer[i])
  BY DEF OpPlaced, finalize_sealed_bootstrap_without_root_pointer, Do, Put
<1>3. OpRecords("pointerless", i, finalize_sealed_bootstrap_without_root_pointer[i])
  BY DEF OpRecords, finalize_sealed_bootstrap_without_root_pointer, Do, Put
<1>4. QED
  BY <1>1, <1>2, <1>3 DEF OpSound

\* Every operation of every plan is one its place allows.
LEMMA PlansSound ==
  ASSUME NEW q \in Ops, NEW i \in 1..Len(PlanOf[q])
  PROVE  OpSound(q, i, PlanOf[q][i])
<1>1. CASE q = "forward"
  BY <1>1, PlansAre, PlanLengths, ForwardSound
<1>2. CASE q = "rollback"
  BY <1>2, PlansAre, PlanLengths, RollbackSound
<1>3. CASE q = "failure"
  BY <1>3, PlansAre, PlanLengths, FailureSound
<1>4. CASE q = "prestop"
  BY <1>4, PlansAre, PlanLengths, PrestopSound
<1>5. CASE q = "abort"
  BY <1>5, PlansAre, PlanLengths, AbortSound
<1>6. CASE q = "committed"
  BY <1>6, PlansAre, PlanLengths, CommittedSound
<1>7. CASE q = "rolledBack"
  BY <1>7, PlansAre, PlanLengths, RolledBackSound
<1>8. CASE q = "report"
  BY <1>8, PlansAre, PlanLengths, ReportSound
<1>9. CASE q = "pointerless"
  BY <1>9, PlansAre, PlanLengths, PointerlessSound
<1>10. CASE q = "tail"
  BY <1>10, PlansAre, PlanLengths
     DEF OpSound, OpTyped, OpPlaced, OpRecords, Do
<1>11. CASE q \in {"none", "over"}
  BY <1>11, PlanLengths
<1>12. QED
  BY <1>1, <1>2, <1>3, <1>4, <1>5, <1>6, <1>7, <1>8, <1>9, <1>10, <1>11, OpsAre
----------------------------------------------------------------------------
(* How a plan goes on                                                        *)

\* A set of numbers that is not empty has a smallest one.
LEMMA Smallest ==
  ASSUME NEW S \in SUBSET Nat, S # {}
  PROVE  \E i \in S : \A j \in S : i <= j
<1>1. PICK i \in S : \A j \in S : <<j, i>> \notin OpToRel(<, Nat)
  BY WFMin, NatLessThanWellFounded, Zenon
<1>2. \A j \in S : ~(j < i)
  BY <1>1, Zenon DEF OpToRel
<1>3. QED
  BY <1>2

\* The next operation of a plan is the first after this one that applies.
LEMMA NextIs ==
  ASSUME NEW r, r.at \in Nat, NEW plan, Len(plan) \in Nat,
         NEW n, n = NextDue(r, plan)
  PROVE  /\ n \in Nat /\ n >= 1 /\ n <= Len(plan) + 1
         /\ n <= Len(plan) => n > r.at /\ DueIn(r, plan[n])
         /\ \A j \in Nat : j > r.at /\ j < n /\ j <= Len(plan) => ~DueIn(r, plan[j])
<1> DEFINE due == {i \in r.at + 1..Len(plan) : DueIn(r, plan[i])}
<1>1. n = IF due = {} THEN Len(plan) + 1 ELSE CHOOSE i \in due : \A j \in due : i <= j
  BY Zenon DEF NextDue
<1>2. due \in SUBSET Nat
  OBVIOUS
<1>3. \A j \in Nat : j \in due <=> j > r.at /\ j <= Len(plan) /\ DueIn(r, plan[j])
  OBVIOUS
<1> HIDE DEF due
<1>4. CASE due = {}
  BY <1>1, <1>3, <1>4
<1>5. CASE due # {}
  <2>1. n \in due /\ \A j \in due : n <= j
    BY <1>1, <1>2, <1>5, Smallest, Zenon
  <2>2. QED
    BY <1>2, <1>3, <2>1
<1>6. QED
  BY <1>4, <1>5

\* A process that goes on keeps all but its place.
LEMMA AdvanceIs ==
  ASSUME NEW r \in RootType, NEW q, q = Advance(r)
  PROVE  /\ q \in RootType /\ q.half = FALSE /\ q.at = NextDue(r, PlanOf[r.op])
         /\ q.op = r.op /\ q.mem = r.mem /\ q.kind = r.kind /\ q.what = r.what /\ q.done = r.done
         /\ q.at >= 1 /\ q.at <= Len(PlanOf[r.op]) + 1
         /\ q.at <= Len(PlanOf[r.op]) => q.at > r.at /\ DueIn(r, PlanOf[r.op][q.at])
         /\ \A j \in Nat : j > r.at /\ j < q.at /\ j <= Len(PlanOf[r.op])
              => ~DueIn(r, PlanOf[r.op][j])
<1> DEFINE n == NextDue(r, PlanOf[r.op])
<1>1. r.at \in Nat /\ r.op \in Ops
  BY DEF RootType
<1>2. Len(PlanOf[r.op]) \in Nat
  BY <1>1, LengthNat
<1>3. /\ n \in Nat /\ n >= 1 /\ n <= Len(PlanOf[r.op]) + 1
      /\ n <= Len(PlanOf[r.op]) => n > r.at /\ DueIn(r, PlanOf[r.op][n])
      /\ \A j \in Nat : j > r.at /\ j < n /\ j <= Len(PlanOf[r.op]) => ~DueIn(r, PlanOf[r.op][j])
  BY <1>1, <1>2, NextIs
<1>4. q = [r EXCEPT !.half = FALSE, !.at = n]
  BY DEF Advance
<1> HIDE DEF n
<1>5. q \in RootType /\ q.half = FALSE /\ q.at = n
  BY <1>3, <1>4 DEF RootType
<1>6. /\ q.op = r.op /\ q.mem = r.mem /\ q.kind = r.kind /\ q.what = r.what /\ q.done = r.done
  BY <1>4 DEF RootType
<1>7. QED
  BY <1>3, <1>5, <1>6 DEF n

\* A process that goes on waits at an operation that applies.
LEMMA AdvanceDue ==
  ASSUME NEW r \in RootType PROVE DueHere(Advance(r))
<1> DEFINE q == Advance(r)
<1>1. /\ q.half = FALSE /\ q.op = r.op /\ q.mem = r.mem /\ q.done = r.done
      /\ q.at <= Len(PlanOf[r.op]) => DueIn(r, PlanOf[r.op][q.at])
  BY AdvanceIs
<1> HIDE DEF q
<1>2. r.op \in Ops
  BY DEF RootType
<1>3. PlanOf["abort"][4].do = "put" /\ PlanOf["abort"][4].s = "PRESTOP_ABORTED"
  BY PlansAre DEF abort_prestop_after_reserve, Put
<1>4. r.op = "abort" /\ q.at = 4 => "aborted" \in q.done
  BY <1>1, <1>3, PlanLengths DEF DueIn
<1>5. QED
  BY <1>1, <1>2, <1>4, LengthNat DEF DueHere, DueIn, q

\* The first operation of a plan applies to every journal state.
Starting == {"forward", "rollback", "prestop", "committed", "rolledBack", "report",
             "pointerless", "tail"}

\* The first operation of a plan applies in every journal state.
LEMMA FirstOps ==
  ASSUME NEW op \in {"forward", "rollback", "prestop", "committed", "rolledBack", "report",
                     "pointerless", "tail"}
  PROVE  /\ PlanOf[op][1].from = UpdateState /\ PlanOf[op][1].s = "none"
         /\ PlanOf[op][1].do # "pairing" /\ Len(PlanOf[op]) >= 1
<1>1. CASE op = "forward"
  BY <1>1, PlansAre, PlanLengths DEF Do, perform_root_transaction
<1>2. CASE op = "rollback"
  BY <1>2, PlansAre, PlanLengths DEF Do, rollback_root_transaction
<1>3. CASE op = "prestop"
  BY <1>3, PlansAre, PlanLengths DEF Do, finalize_prestop_preserving_host
<1>4. CASE op = "committed"
  BY <1>4, PlansAre, PlanLengths DEF Do, repair_committed_terminal_state
<1>5. CASE op = "rolledBack"
  BY <1>5, PlansAre, PlanLengths DEF Do, repair_rolled_back_terminal_state
<1>6. CASE op = "report"
  BY <1>6, PlansAre, PlanLengths DEF Do, report_prestop_aborted_terminal
<1>7. CASE op = "pointerless"
  BY <1>7, PlansAre, PlanLengths DEF Do, finalize_sealed_bootstrap_without_root_pointer
<1>8. CASE op = "tail"
  BY <1>8, PlansAre, PlanLengths DEF Do
<1>9. QED
  BY <1>1, <1>2, <1>3, <1>4, <1>5, <1>6, <1>7, <1>8

\* A process that enters a plan keeps what it knows.
LEMMA EnterIs ==
  ASSUME NEW r \in RootType, NEW op \in Ops, NEW q, q = Enter(r, op)
  PROVE  /\ q \in RootType /\ q.op = op /\ q.mem = r.mem /\ q.kind = r.kind
         /\ q.what = r.what /\ q.done = r.done /\ DueHere(q) /\ q.at >= 1
<1> DEFINE e == [r EXCEPT !.op = op, !.at = 0]
<1>1. e \in RootType /\ e.op = op /\ e.at = 0 /\ e.mem = r.mem /\ e.kind = r.kind
      /\ e.what = r.what /\ e.done = r.done
  BY DEF RootType
<1>2. q = Advance(e)
  BY DEF Enter
<1> HIDE DEF e
<1>3. /\ q \in RootType /\ q.half = FALSE /\ q.op = e.op /\ q.mem = e.mem /\ q.kind = e.kind
      /\ q.what = e.what /\ q.done = e.done /\ DueHere(q) /\ q.at >= 1
  BY <1>1, <1>2, AdvanceIs, AdvanceDue
<1>4. QED
  BY <1>1, <1>3

\* It starts a plan with the plan's first operation.
LEMMA EnterFirst ==
  ASSUME NEW r \in RootType, r.mem \in UpdateState, NEW op \in Starting
  PROVE  Enter(r, op).at = 1
<1> DEFINE e == [r EXCEPT !.op = op, !.at = 0]
           q == Advance(e)
           o == PlanOf[op][1]
<1>0. op \in Ops
  BY OpsAre DEF Starting
<1>1. e \in RootType /\ e.op = op /\ e.at = 0 /\ e.mem = r.mem
  BY <1>0 DEF RootType
<1>2. Enter(r, op) = q
  BY DEF Enter
<1> HIDE DEF e
<1>3. /\ q \in RootType /\ q.at >= 1
      /\ \A j \in Nat : j > e.at /\ j < q.at /\ j <= Len(PlanOf[op]) => ~DueIn(e, PlanOf[op][j])
  BY <1>1, AdvanceIs
<1>4. o.from = UpdateState /\ o.s = "none" /\ o.do # "pairing" /\ Len(PlanOf[op]) >= 1
  BY FirstOps DEF Starting
<1> HIDE DEF o, q
<1>5. DueIn(e, o)
  BY <1>1, <1>4 DEF DueIn, Starting
<1>6. q.at \in Nat
  BY <1>3 DEF RootType
<1>7. q.at = 1
  BY <1>0, <1>1, <1>3, <1>4, <1>5, <1>6, LengthNat DEF o
<1>8. QED
  BY <1>2, <1>7

\* Where a failing operation leads, and what the process still knows.
LEMMA UnwoundIs ==
  ASSUME NEW r \in RootType, r.op # "none", NEW q, q = Unwound(r)
  PROVE  /\ q \in RootType /\ q.op = ErrorPath(r) /\ q.mem = r.mem /\ q.kind = r.kind
         /\ q.what = r.what /\ DueHere(q)
         /\ \A x \in Done : x # "critical" => (x \in q.done <=> x \in r.done)
         /\ q.at >= 1
         /\ r.mem \in UpdateState /\ ErrorPath(r) \in {"rollback", "prestop"} => q.at = 1
<1> DEFINE op == ErrorPath(r)
           p == [r EXCEPT !.op = ErrorPath(r), !.at = IF r.op = "abort" THEN @ ELSE 0,
                          !.done = IF r.op = "rollback" /\ r.kind = "forward" THEN @ \cup {"critical"} ELSE @]
           a == Advance(p)
           h == p.op = "failure" /\ r.mem = "CRITICAL_FAILURE"
<1>1. op \in {"over", "prestop", "abort", "rollback", "failure"}
  BY DEF ErrorPath, RollbackFails
<1>2. op \in Ops
  BY <1>1, OpsAre
<1>3. (op = "abort" /\ r.op = "abort") \/ p.at = 0
  BY DEF ErrorPath, RootType
<1>4. p \in RootType /\ p.op = op /\ p.mem = r.mem /\ p.kind = r.kind /\ p.what = r.what
  BY <1>2 DEF RootType, Done
<1>5. \A x \in Done : x # "critical" => (x \in p.done <=> x \in r.done)
  BY DEF RootType
<1>6. q = [a EXCEPT !.half = h]
  BY DEF Unwound
<1> HIDE DEF p, op
<1>7. /\ a \in RootType /\ a.half = FALSE /\ a.op = op /\ a.mem = r.mem /\ a.kind = r.kind
      /\ a.what = r.what /\ a.done = p.done /\ a.at >= 1 /\ a.at <= Len(PlanOf[op]) + 1
      /\ \A j \in Nat : j > p.at /\ j < a.at /\ j <= Len(PlanOf[op]) => ~DueIn(p, PlanOf[op][j])
  BY ZenonT(60), <1>4, AdvanceIs
<1>8. DueHere(a)
  BY <1>4, AdvanceDue
<1> HIDE DEF a
<1>9. h \in BOOLEAN
  OBVIOUS
<1> HIDE DEF h
<1>10. /\ q \in RootType /\ q.op = op /\ q.mem = r.mem /\ q.kind = r.kind /\ q.what = r.what
       /\ q.done = p.done /\ q.at = a.at /\ q.half = h
  BY <1>6, <1>7, <1>9 DEF RootType
<1>11. DueHere(q)
  <2>1. CASE h
    <3>1. op = "failure" /\ r.mem = "CRITICAL_FAILURE"
      BY <1>4, <2>1 DEF h
    <3>2. PlanOf["failure"][1].do = "mark" /\ PlanOf["failure"][1].s = "CRITICAL_FAILURE"
      BY PlansAre DEF journal_rollback_failure, Mark
    <3>3. a.at \in Nat
      BY <1>7 DEF RootType
    <3>4. QED
      BY <1>7, <1>10, <2>1, <3>1, <3>2, <3>3, PlanLengths DEF DueHere
  <2>2. CASE ~h
    BY <1>7, <1>8, <1>10, <2>2 DEF DueHere
  <2>3. QED
    BY <2>1, <2>2
<1>12. ASSUME r.mem \in UpdateState, op \in {"rollback", "prestop"}
       PROVE  a.at = 1
  <2> DEFINE o == PlanOf[op][1]
  <2>1. o.from = UpdateState /\ o.s = "none" /\ o.do # "pairing"
    BY <1>12, FirstOps
  <2> HIDE DEF o
  <2>2. DueIn(p, o)
    BY <1>4, <1>12, <2>1 DEF DueIn
  <2>3. Len(PlanOf[op]) >= 1 /\ a.at \in Nat /\ p.at = 0
    BY <1>3, <1>7, <1>12, FirstOps DEF RootType
  <2>4. QED
    BY <1>2, <1>7, <2>2, <2>3, LengthNat DEF o
<1>13. QED
  BY <1>5, <1>7, <1>10, <1>11, <1>12 DEF op
----------------------------------------------------------------------------
(* The places a plan leads to                                                *)

Straight == {"forward", "committed", "rolledBack", "report", "pointerless"}

\* Every operation of the transaction applies in every journal state.
LEMMA ForwardFrom == ASSUME NEW i \in 1..29 PROVE perform_root_transaction[i].from = UpdateState
  BY DEF perform_root_transaction, Do, Mark, Note, Put

\* The same of the plans that depend on no journal state.
LEMMA StraightFrom ==
  ASSUME NEW op \in Straight, NEW i \in 1..Len(PlanOf[op])
  PROVE  /\ PlanOf[op][i].from = UpdateState /\ PlanOf[op][i].s # "FAILED_DRIVER_ARCHIVED"
         /\ PlanOf[op][i].do # "pairing"
<1>1. CASE op = "forward"
  <2>1. i \in 1..29
    BY <1>1, PlanLengths
  <2>2. perform_root_transaction[i].from = UpdateState
    BY <2>1, ForwardFrom
  <2>3. /\ perform_root_transaction[i].s # "FAILED_DRIVER_ARCHIVED"
        /\ perform_root_transaction[i].do # "pairing"
    BY <2>1, ForwardSound, CutoverIs DEF OpSound, OpTyped, OpPlaced, OpRecords
  <2>4. QED
    BY <1>1, <2>2, <2>3, PlansAre
<1>2. CASE op = "committed"
  <2>1. i \in 1..3
    BY <1>2, PlanLengths
  <2>2. repair_committed_terminal_state[i].from = UpdateState
    BY <2>1 DEF repair_committed_terminal_state, Do, Put
  <2>3. repair_committed_terminal_state[i].s # "FAILED_DRIVER_ARCHIVED" /\ repair_committed_terminal_state[i].do # "pairing"
    BY <2>1 DEF repair_committed_terminal_state, Do, Put
  <2>4. QED
    BY <1>2, <2>2, <2>3, PlansAre
<1>3. CASE op = "rolledBack"
  <2>1. i \in 1..3
    BY <1>3, PlanLengths
  <2>2. repair_rolled_back_terminal_state[i].from = UpdateState
    BY <2>1 DEF repair_rolled_back_terminal_state, Do, Put
  <2>3. repair_rolled_back_terminal_state[i].s # "FAILED_DRIVER_ARCHIVED" /\ repair_rolled_back_terminal_state[i].do # "pairing"
    BY <2>1 DEF repair_rolled_back_terminal_state, Do, Put
  <2>4. QED
    BY <1>3, <2>2, <2>3, PlansAre
<1>4. CASE op = "report"
  <2>1. i \in 1..2
    BY <1>4, PlanLengths
  <2>2. report_prestop_aborted_terminal[i].from = UpdateState
    BY <2>1 DEF report_prestop_aborted_terminal, Do
  <2>3. report_prestop_aborted_terminal[i].s # "FAILED_DRIVER_ARCHIVED" /\ report_prestop_aborted_terminal[i].do # "pairing"
    BY <2>1 DEF report_prestop_aborted_terminal, Do
  <2>4. QED
    BY <1>4, <2>2, <2>3, PlansAre
<1>5. CASE op = "pointerless"
  <2>1. i \in 1..5
    BY <1>5, PlanLengths
  <2>2. finalize_sealed_bootstrap_without_root_pointer[i].from = UpdateState
    BY <2>1 DEF finalize_sealed_bootstrap_without_root_pointer, Do, Put
  <2>3. finalize_sealed_bootstrap_without_root_pointer[i].s # "FAILED_DRIVER_ARCHIVED" /\ finalize_sealed_bootstrap_without_root_pointer[i].do # "pairing"
    BY <2>1 DEF finalize_sealed_bootstrap_without_root_pointer, Do, Put
  <2>4. QED
    BY <1>5, <2>2, <2>3, PlansAre
<1>6. QED
  BY <1>1, <1>2, <1>3, <1>4, <1>5 DEF Straight

\* These plans go from each operation to the next.
LEMMA AdvanceStraight ==
  ASSUME NEW r \in RootType, r.op \in Straight, r.mem \in UpdateState,
         r.at \in 0..Len(PlanOf[r.op])
  PROVE  Advance(r).at = r.at + 1
<1> DEFINE q == Advance(r)
<1>1. /\ q.at >= 1 /\ q.at <= Len(PlanOf[r.op]) + 1 /\ q.at \in Nat
      /\ q.at <= Len(PlanOf[r.op]) => q.at > r.at
      /\ \A j \in Nat : j > r.at /\ j < q.at /\ j <= Len(PlanOf[r.op])
           => ~DueIn(r, PlanOf[r.op][j])
  <2>1. /\ q \in RootType /\ q.at >= 1 /\ q.at <= Len(PlanOf[r.op]) + 1
        /\ q.at <= Len(PlanOf[r.op]) => q.at > r.at
        /\ \A j \in Nat : j > r.at /\ j < q.at /\ j <= Len(PlanOf[r.op])
             => ~DueIn(r, PlanOf[r.op][j])
    BY AdvanceIs
  <2> HIDE DEF q
  <2>2. q.at \in Nat
    BY <2>1 DEF RootType
  <2>3. QED BY <2>1, <2>2
<1> HIDE DEF q
<1>2. Len(PlanOf[r.op]) \in Nat /\ r.at \in Nat
  BY LengthNat DEF RootType
<1>3. ASSUME r.at + 1 <= Len(PlanOf[r.op])
      PROVE  DueIn(r, PlanOf[r.op][r.at + 1])
  <2> DEFINE i == r.at + 1
             o == PlanOf[r.op][i]
  <2>1. i \in 1..Len(PlanOf[r.op])
    BY <1>2, <1>3
  <2> HIDE DEF i
  <2>2. o.from = UpdateState /\ o.s # "FAILED_DRIVER_ARCHIVED" /\ o.do # "pairing"
    BY <2>1, StraightFrom
  <2> HIDE DEF o
  <2>3. DueIn(r, o)
    BY <2>2 DEF DueIn, Straight
  <2>4. QED
    BY <2>3 DEF o, i
<1>4. QED
  BY <1>1, <1>2, <1>3 DEF q

\* The plan that ends before the stop goes on without skipping its record.
LEMMA AdvancePrestop ==
  ASSUME NEW r \in RootType, r.op = "prestop", r.mem \in UpdateState, r.at \in 1..4
  PROVE  /\ Advance(r).at >= 2
         /\ r.at = 1 /\ Advance(r).at >= 3 => r.mem \notin {"BEGUN", "AUTHENTICATED"}
         /\ r.at >= 2 => Advance(r).at >= 3
<1> DEFINE q == Advance(r)
<1>1. /\ q.at >= 1 /\ q.at <= 5 /\ q.at \in Nat
      /\ q.at <= 4 => q.at > r.at
      /\ \A j \in Nat : j > r.at /\ j < q.at /\ j <= 4 => ~DueIn(r, PlanOf["prestop"][j])
  <2>1. /\ q.at >= 1 /\ q.at <= Len(PlanOf[r.op]) + 1 /\ q \in RootType
        /\ q.at <= Len(PlanOf[r.op]) => q.at > r.at
        /\ \A j \in Nat : j > r.at /\ j < q.at /\ j <= Len(PlanOf[r.op])
             => ~DueIn(r, PlanOf[r.op][j])
    BY AdvanceIs
  <2> HIDE DEF q
  <2>2. Len(PlanOf[r.op]) = 4 /\ q.at \in Nat
    BY <2>1, PlanLengths DEF RootType
  <2>3. QED
    BY <2>1, <2>2
<1>2. r.mem \in {"BEGUN", "AUTHENTICATED"} => DueIn(r, PlanOf["prestop"][2])
  BY PlansAre DEF DueIn, finalize_prestop_preserving_host, Note
<1> HIDE DEF q
<1>3. QED
  BY <1>1, <1>2 DEF q

\* The journal states that the operations of a rollback apply to.
LEMMA RollbackDue ==
  ASSUME NEW r \in RootType, r.op = "rollback"
  PROVE  /\ DueIn(r, PlanOf["rollback"][2]) <=> r.mem = "AUTHENTICATED"
         /\ DueIn(r, PlanOf["rollback"][3]) <=> r.mem \in UpdateState
         /\ DueIn(r, PlanOf["rollback"][4]) <=> r.mem \in Crossed \cup {"CRITICAL_FAILURE"}
         /\ DueIn(r, PlanOf["rollback"][5]) <=> r.mem \in Reverting
         /\ DueIn(r, PlanOf["rollback"][6]) <=> r.mem \in Reverting
         /\ DueIn(r, PlanOf["rollback"][7]) <=> r.mem = "ROLLBACK_STARTED" /\ "archived" \in r.done
         /\ DueIn(r, PlanOf["rollback"][8]) <=> r.mem \in Reverting
         /\ DueIn(r, PlanOf["rollback"][9]) <=>
              r.mem \in {"ROLLBACK_STARTED", "FAILED_DRIVER_ARCHIVED"}
         /\ DueIn(r, PlanOf["rollback"][10]) <=> r.mem = "PRIOR_DRIVER_RESTORED"
         /\ DueIn(r, PlanOf["rollback"][11]) <=> r.mem = "ROLLBACK_COREAUDIO_RELOAD_INITIATED"
         /\ DueIn(r, PlanOf["rollback"][12]) <=> r.mem = "ROLLBACK_COREAUDIO_RELOAD_INITIATED"
         /\ DueIn(r, PlanOf["rollback"][13]) <=> r.mem = "ROLLBACK_COREAUDIO_RELOADED"
         /\ DueIn(r, PlanOf["rollback"][14]) <=> r.mem = "ROLLBACK_COREAUDIO_RELOADED"
         /\ DueIn(r, PlanOf["rollback"][15]) <=>
              r.mem = "HOST_REBOOTSTRAPPED" /\ "restarted" \in r.done
         /\ DueIn(r, PlanOf["rollback"][16]) <=> r.mem = "HOST_REBOOTSTRAPPED"
         /\ DueIn(r, PlanOf["rollback"][17]) <=> r.mem \in UpdateState
  BY PlansAre DEF DueIn, rollback_root_transaction, Do, DoFrom, Mark

\* The journal states in which the operations of a rollback apply.
LEMMA RollbackFrom ==
    /\ PlanOf["rollback"][5].from = Reverting /\ PlanOf["rollback"][5].do # "mark"
    /\ PlanOf["rollback"][6].from = Reverting /\ PlanOf["rollback"][6].do # "mark"
    /\ PlanOf["rollback"][8].from = Reverting /\ PlanOf["rollback"][8].do # "mark"
    /\ PlanOf["rollback"][11].from = {"ROLLBACK_COREAUDIO_RELOAD_INITIATED"}
    /\ PlanOf["rollback"][11].do # "mark"
    /\ PlanOf["rollback"][13].from = {"ROLLBACK_COREAUDIO_RELOADED"}
    /\ PlanOf["rollback"][13].do # "mark"
    /\ PlanOf["rollback"][15].from = {"HOST_REBOOTSTRAPPED"} /\ PlanOf["rollback"][15].do # "mark"
  BY PlansAre DEF rollback_root_transaction, DoFrom, Mark, Do

\* The journal state that a rollback knows when it leaves an operation.
Fits(r) ==
    /\ r.at = 2 => r.mem = "CRITICAL_FAILURE"
    /\ r.at = 3 => rollback_resume_action(r.mem) # "Refuse"
    /\ r.at = 4 => r.mem = "ROLLBACK_STARTED"
    /\ r.at \in {5, 6, 8} => r.mem \in Reverting
    /\ r.at = 7 => r.mem = "FAILED_DRIVER_ARCHIVED"
    /\ r.at = 9 => r.mem = "PRIOR_DRIVER_RESTORED"
    /\ r.at \in {10, 11} => r.mem = "ROLLBACK_COREAUDIO_RELOAD_INITIATED"
    /\ r.at \in {12, 13} => r.mem = "ROLLBACK_COREAUDIO_RELOADED"
    /\ r.at \in {14, 15} => r.mem = "HOST_REBOOTSTRAPPED"
    /\ r.at \in {16, 17} => r.mem = "ROLLED_BACK"

\* The driver is put back, Core Audio reloaded and the host started only after
\* the host was stopped and each operation before succeeded.
LEMMA AdvanceRollback ==
  ASSUME NEW r \in RootType, r.op = "rollback", r.mem \in UpdateState, r.at \in 1..17,
         Fits(r), NEW n, n = Advance(r).at
  PROVE  /\ n \in Nat /\ n >= 2
         /\ n \in 6..13 => r.at \in 5..12
         /\ n \in 9..14 => r.at \in 8..13
         /\ n = 12 => r.at = 11
         /\ n >= 17 => r.mem = "ROLLED_BACK"
<1>1. /\ n >= 1 /\ n <= 18 /\ n \in Nat
      /\ n <= 17 => n > r.at /\ DueIn(r, PlanOf["rollback"][n])
      /\ \A j \in Nat : j > r.at /\ j < n /\ j <= 17 => ~DueIn(r, PlanOf["rollback"][j])
  <2>1. /\ n >= 1 /\ n <= Len(PlanOf[r.op]) + 1 /\ Advance(r) \in RootType
        /\ n <= Len(PlanOf[r.op]) => n > r.at /\ DueIn(r, PlanOf[r.op][n])
        /\ \A j \in Nat : j > r.at /\ j < n /\ j <= Len(PlanOf[r.op])
             => ~DueIn(r, PlanOf[r.op][j])
    BY AdvanceIs
  <2>2. Len(PlanOf[r.op]) = 17 /\ n \in Nat
    BY <2>1, PlanLengths DEF RootType
  <2>3. QED
    BY <2>1, <2>2
<1>2. n >= 2
  BY <1>1
<1>3. ASSUME n \in 6..13, r.at < 5
      PROVE  FALSE
  <2>1. r.mem \in Reverting
    BY <1>1, <1>3, RollbackDue, StatesAre
  <2>2. QED
    BY <1>1, <1>3, <2>1, RollbackDue
<1>4. ASSUME n \in 9..14, r.at < 8
      PROVE  FALSE
  <2>1. r.mem \in Reverting
    BY <1>1, <1>4, RollbackDue, StatesAre
  <2>2. QED
    BY <1>1, <1>4, <2>1, RollbackDue
<1>5. ASSUME n = 12, r.at # 11
      PROVE  FALSE
  BY <1>1, <1>5, RollbackDue
<1>6. ASSUME n >= 17
      PROVE  r.mem = "ROLLED_BACK"
  <2>1. \A j \in 2..16 : j > r.at => ~DueIn(r, PlanOf["rollback"][j])
    BY <1>1, <1>6
  <2>2. r.at # 1 /\ r.at # 2
    BY <2>1, RollbackDue
  <2>3. CASE r.at = 3
    <3>1. r.mem \notin {"BEGUN", "AUTHENTICATED", "PRESTOP_ABORTED", "COMMITTED"}
      BY <2>3 DEF Fits, rollback_resume_action
    <3>2. r.mem \notin Crossed \cup {"CRITICAL_FAILURE"} /\ r.mem \notin Reverting
          /\ r.mem # "HOST_REBOOTSTRAPPED"
      BY <2>1, <2>3, RollbackDue
    <3>3. QED
      BY <3>1, <3>2, StatesAre DEF UpdateState
  <2>4. CASE r.at \in {4, 5, 6, 7}
    <3>1. ~DueIn(r, PlanOf["rollback"][8])
      BY <2>1, <2>4
    <3>2. r.mem \in Reverting
      BY <2>4, StatesAre DEF Fits
    <3>3. QED
      BY <3>1, <3>2, RollbackDue
  <2>5. CASE r.at = 8
    <3>1. r.mem \in Reverting
      BY <2>5 DEF Fits
    <3>2. QED
      BY <2>1, <2>5, <3>1, RollbackDue, StatesAre
  <2>6. CASE r.at \in {9, 10, 11, 12, 13}
    BY <2>1, <2>6, RollbackDue DEF Fits
  <2>7. CASE r.at \in {14, 15}
    BY <2>1, <2>7, RollbackDue DEF Fits
  <2>8. CASE r.at \in {16, 17}
    BY <2>8 DEF Fits
  <2>9. QED
    BY <2>2, <2>3, <2>4, <2>5, <2>6, <2>7, <2>8
<1>7. QED
  BY <1>1, <1>2, <1>3, <1>4, <1>5, <1>6
----------------------------------------------------------------------------
(* The journal                                                               *)

\* A state follows another of a transaction only before the commit.
LEMMA CutoverFollows ==
  ASSUME NEW f, NEW s, Follows(Cutover, f, s)
  PROVE  /\ f \in CutoverStates \ {"COMMITTED"} /\ s \in CutoverStates
<1>1. Len(Cutover) = 10
  BY DEF Cutover
<1>2. PICK i \in 1..9 : f = Cutover[i] /\ s = Cutover[i + 1]
  BY <1>1 DEF Follows
<1>3. f \in CutoverStates /\ s \in CutoverStates
  BY <1>2 DEF CutoverStates
<1>4. i \in {1, 2, 3, 4, 5, 6, 7, 8, 9}
  BY <1>2
<1>5. f # "COMMITTED"
  BY <1>2, <1>4 DEF Cutover
<1>6. QED
  BY <1>3, <1>5

\* The same of a rollback.
LEMMA UndoFollows ==
  ASSUME NEW f, NEW s, Follows(Undo, f, s)
  PROVE  f \in Undoing /\ s \in Undoing \cup {"ROLLED_BACK"}
<1>1. Len(Undo) = 7
  BY DEF Undo
<1>2. PICK i \in 1..6 : f = Undo[i] /\ s = Undo[i + 1]
  BY <1>1 DEF Follows
<1>3. i \in {1, 2, 3, 4, 5, 6}
  BY <1>2
<1>4. QED
  BY <1>2, <1>3, StatesAre DEF Undo

\* No record follows the one that settles a transaction.
LEMMA ValidFrom ==
  ASSUME NEW f, NEW s, valid_transition(f, s)
  PROVE  f \in UpdateState /\ f \notin Terminal
<1>1. \/ f \in {"BEGUN", "AUTHENTICATED", "ROLLBACK_STARTED", "CRITICAL_FAILURE"} \cup Crossed \cup Undoing
      \/ Follows(Cutover, f, s) \/ Follows(Undo, f, s)
  BY DEF valid_transition
<1>2. f \in {"BEGUN", "AUTHENTICATED", "ROLLBACK_STARTED", "CRITICAL_FAILURE"} \cup Crossed \cup Undoing
            \cup (CutoverStates \ {"COMMITTED"})
  BY <1>1, CutoverFollows, UndoFollows
<1>3. QED
  BY <1>2, StatesAre, CutoverIs DEF UpdateState, Terminal

\* A pending record is adopted if it may follow, and only a snapshot cut off behind
\* an earlier record is an error.
LEMMA ClassifyIs ==
  ASSUME NEW j
  PROVE  /\ classify_pending_journal_snapshot(j) = "promote"
              <=> j.pend \in UpdateState /\ valid_transition(j.at, j.pend)
         /\ Diverged(j) <=> j.pend = "earlier"
<1>1. "earlier" \notin UpdateState
  BY DEF UpdateState
<1>2. QED
  BY <1>1 DEF classify_pending_journal_snapshot, Diverged

\* What the journal says, with a pending record it would promote, is a journal
\* state; a settled journal has nothing to promote.
LEMMA EffectiveIs ==
  ASSUME NEW j \in JournalType
  PROVE  /\ Effective(j) \in JournalAt
         /\ j.at \in Terminal \cup {"absent", "partial"} => Effective(j) = j.at
         /\ j.pend = "none" => Effective(j) = j.at
         /\ Effective(j) \in UpdateState <=> j.at \in UpdateState
<1>1. CASE classify_pending_journal_snapshot(j) = "promote"
  <2>1. j.pend \in UpdateState /\ valid_transition(j.at, j.pend)
    BY <1>1, ClassifyIs
  <2>2. j.at \in UpdateState /\ j.at \notin Terminal
    BY <2>1, ValidFrom
  <2>3. "none" \notin UpdateState /\ "absent" \notin UpdateState /\ "partial" \notin UpdateState
    BY DEF UpdateState
  <2>4. QED
    BY <1>1, <2>1, <2>2, <2>3 DEF Effective, JournalAt
<1>2. CASE classify_pending_journal_snapshot(j) # "promote"
  BY <1>2 DEF Effective, JournalType, JournalAt
<1>3. QED
  BY <1>1, <1>2

\* A record that was appended is what the journal says.
LEMMA AppendedIs ==
  ASSUME NEW j \in JournalType, NEW s \in UpdateState, NEW g \in Nat, NEW k, k = Appended(j, s, g)
  PROVE  /\ k \in JournalType /\ k.at = s /\ k.pend = "none" /\ Effective(k) = s
         /\ k.old = IF s = "ROLLBACK_COREAUDIO_RELOAD_INITIATED" THEN g ELSE j.old
<1>1. /\ k.at = s /\ k.pend = "none"
      /\ k.old = IF s = "ROLLBACK_COREAUDIO_RELOAD_INITIATED" THEN g ELSE j.old
  BY DEF Appended
<1>2. (IF s = "ROLLBACK_COREAUDIO_RELOAD_INITIATED" /\ j.inits < 2 THEN j.inits + 1 ELSE j.inits) \in 0..2
  BY DEF JournalType
<1>3. k \in JournalType
  BY <1>1, <1>2 DEF Appended, JournalType, JournalAt
<1>4. QED
  BY <1>1, <1>3, EffectiveIs

\* The reconciliation of a pending record leaves what the journal says, and takes
\* the snapshot away if it can be told from another history.
LEMMA ReconcileIs ==
  ASSUME NEW j \in JournalType, NEW k, k = reconcile(j)
  PROVE  /\ k \in JournalType /\ k.at = Effective(j) /\ k.old = j.old
         /\ Effective(k) = Effective(j) /\ (~Diverged(j) => k.pend = "none")
<1>1. CASE classify_pending_journal_snapshot(j) = "promote"
  <2>1. j.pend \in UpdateState
    BY <1>1, ClassifyIs
  <2>2. k = Appended(j, j.pend, j.old) /\ j.old \in Nat /\ Effective(j) = j.pend
    BY <1>1 DEF reconcile, Diverged, JournalType, Effective
  <2>3. QED
    BY <2>1, <2>2, AppendedIs
<1>2. CASE classify_pending_journal_snapshot(j) # "promote" /\ ~Diverged(j)
  <2>1. k = [j EXCEPT !.pend = "none"] /\ Effective(j) = j.at
    BY <1>2 DEF reconcile, Effective
  <2>2. k \in JournalType /\ k.pend = "none" /\ k.at = j.at /\ k.old = j.old
    BY <2>1 DEF JournalType
  <2>3. QED
    BY <2>1, <2>2, EffectiveIs
<1>3. CASE classify_pending_journal_snapshot(j) # "promote" /\ Diverged(j)
  BY <1>3 DEF reconcile, Effective
<1>4. QED
  BY <1>1, <1>2, <1>3

\* A record is appended after the reconciliation of a pending one.
LEMMA RecordIs ==
  ASSUME NEW j \in JournalType, NEW s \in UpdateState, audio.gen \in Nat, NEW k, k = record(j, s)
  PROVE  /\ k \in JournalType /\ k.at = s /\ k.pend = "none" /\ Effective(k) = s
         /\ k.old = IF s = "ROLLBACK_COREAUDIO_RELOAD_INITIATED" THEN audio.gen ELSE j.old
<1>1. reconcile(j) \in JournalType /\ reconcile(j).old = j.old
  BY ReconcileIs
<1>2. QED
  BY <1>1, AppendedIs DEF record

\* A record that fails leaves the journal as it was or with the record in force.
LEMMA FailedRecordIs ==
  ASSUME NEW j \in JournalType, NEW s \in UpdateState, audio.gen \in Nat,
         record_admissible(j, s), NEW k \in record_failures(j, s)
  PROVE  /\ k \in JournalType /\ k.at \in {Effective(j), s}
         /\ \/ Effective(k) = Effective(j) /\ k.old = j.old
            \/ Effective(k) = s
               /\ k.old = IF s = "ROLLBACK_COREAUDIO_RELOAD_INITIATED" THEN audio.gen ELSE j.old
<1> DEFINE r == reconcile(j)
           o == IF s = "ROLLBACK_COREAUDIO_RELOAD_INITIATED" THEN audio.gen ELSE r.old
           p == [r EXCEPT !.pend = "torn"]
           q == [r EXCEPT !.pend = s, !.old = o]
           c == [r EXCEPT !.pend = "earlier"]
<1>1. /\ r \in JournalType /\ r.at = Effective(j) /\ r.old = j.old
      /\ Effective(r) = Effective(j)
  BY ReconcileIs
<1>2. k = r \/ k = p \/ k = q \/ k = c \/ k = record(j, s)
  BY DEF record_failures
<1>3. valid_transition(r.at, s)
  BY DEF record_admissible
<1> HIDE DEF r
<1>4. p \in JournalType /\ p.at = r.at /\ p.pend = "torn" /\ p.old = r.old
  BY <1>1 DEF JournalType
<1>5. q \in JournalType /\ q.at = r.at /\ q.pend = s /\ q.old = o
  BY <1>1 DEF JournalType
<1>6. c \in JournalType /\ c.at = r.at /\ c.pend = "earlier" /\ c.old = r.old
  BY <1>1 DEF JournalType
<1> HIDE DEF p, q, c
<1>7. Effective(p) = p.at /\ Effective(c) = c.at /\ Effective(q) = s
  <2>1. "torn" \notin UpdateState /\ "earlier" \notin UpdateState
    BY DEF UpdateState
  <2>2. QED
    BY <1>3, <1>4, <1>5, <1>6, <2>1, ClassifyIs DEF Effective
<1>8. CASE k = r
  BY <1>1, <1>8
<1>9. CASE k = p \/ k = c
  BY <1>1, <1>4, <1>6, <1>7, <1>9
<1>10. CASE k = q
  BY <1>1, <1>5, <1>7, <1>10
<1>11. CASE k = record(j, s)
  BY <1>11, RecordIs
<1>12. QED
  BY <1>2, <1>8, <1>9, <1>10, <1>11

----------------------------------------------------------------------------
(* The place of a process after an operation                                 *)

\* What the place of a working process says of its operation.
LEMMA Here ==
  ASSUME Typed, RootPlaced, Working
  PROVE  /\ rp \in RootType /\ rp.op \in Ops /\ rp.op # "none" /\ rp.kind # "none"
         /\ rp.at \in 1..Len(PlanOf[rp.op]) /\ OpSound(rp.op, rp.at, Op)
         /\ Purpose(rp) /\ DueHere(rp) /\ ("aborted" \in rp.done => jnl.at = "PRESTOP_ABORTED")
<1>1. rp \in RootType /\ rp.at \in 1..Len(PlanOf[rp.op])
  BY DEF Typed, Working
<1>2. rp.op \in Ops
  BY <1>1 DEF RootType
<1>3. OpSound(rp.op, rp.at, Op)
  BY <1>1, <1>2, PlansSound DEF Op
<1>4. rp.op # "none"
  BY <1>1, PlanLengths
<1>5. QED
  BY <1>1, <1>2, <1>3, <1>4 DEF RootPlaced, Placed

\* What is to be shown of a process that goes on.
Fares(q, h, a, d, t, j, g) ==
    /\ q.op = "forward" => ForwardAt(q, h, a, d, t, j, g)
    /\ q.op = "rollback" => RollbackAt(q, h, a, d, t, j, g)
    /\ q.op = "abort" => Untouched(d)
    /\ q.op = "prestop" => PrestopAt(q, d, j)
    /\ q.op \in {"committed", "rolledBack", "report"} => SettledAt(q, j)
    /\ q.op = "pointerless" => PointerlessAt(q, d, t, j, g)
    /\ q.op = "tail" => Reports(q.what, j)

\* A process that goes on is well placed where its next operation is.
LEMMA PlaceAdvance ==
  ASSUME NEW r \in RootType, r.op # "none", r.kind # "none", Purpose(r), NEW q, q = Advance(r),
         NEW h, NEW a, NEW d, NEW t, NEW j, NEW g,
         "aborted" \in r.done => j.at = "PRESTOP_ABORTED",
         Fares(q, h, a, d, t, j, g)
  PROVE  q \in RootType /\ Placed(q, h, a, d, t, j, g)
<1>1. /\ q \in RootType /\ q.op = r.op /\ q.kind = r.kind /\ q.what = r.what /\ q.done = r.done
      /\ q.at >= 1
  BY AdvanceIs
<1>2. DueHere(q)
  BY AdvanceDue
<1>3. Purpose(q)
  BY <1>1 DEF Purpose
<1>4. QED
  BY <1>1, <1>2, <1>3 DEF Placed, Fares

\* A process that fails is well placed in the plan it falls back to.
LEMMA PlaceUnwound ==
  ASSUME NEW r \in RootType, r.op # "none", r.kind # "none", Purpose(r), NEW q, q = Unwound(r),
         NEW h, NEW a, NEW d, NEW t, NEW j, NEW g,
         "aborted" \in r.done => j.at = "PRESTOP_ABORTED",
         r.op = "forward" /\ r.at >= 8 => r.mem \in UpdateState,
         r.op = "forward" /\ r.at \in 9..10 => Untouched(d),
         r.op = "forward" /\ r.at >= 11 => "abort" \notin g /\ j.at \in UpdateState,
         r.op = "abort" => Untouched(d)
  PROVE  q \in RootType /\ Placed(q, h, a, d, t, j, g)
<1>1. /\ q \in RootType /\ q.op = ErrorPath(r) /\ q.mem = r.mem /\ q.kind = r.kind
      /\ q.what = r.what /\ DueHere(q) /\ q.at >= 1
      /\ r.mem \in UpdateState /\ ErrorPath(r) \in {"rollback", "prestop"} => q.at = 1
      /\ \A x \in Done : x # "critical" => (x \in q.done <=> x \in r.done)
  BY UnwoundIs
<1>0. "aborted" \in q.done <=> "aborted" \in r.done
  BY <1>1 DEF Done
<1>2. r.at \in Nat
  BY DEF RootType
<1>3. /\ q.op \in {"over", "failure", "prestop", "abort", "rollback"}
      /\ q.op = "prestop" => r.op = "forward" /\ r.at = 8
      /\ q.op = "abort" => r.op = "abort" \/ (r.op = "forward" /\ r.at \in 9..10)
      /\ q.op = "rollback" => r.op = "forward" /\ r.at >= 11
  <2>1. CASE r.op = "forward"
    BY <1>1, <1>2, <2>1 DEF ErrorPath
  <2>2. CASE r.op = "rollback"
    BY <1>1, <2>2 DEF ErrorPath, RollbackFails
  <2>3. CASE r.op = "abort"
    BY <1>1, <2>3 DEF ErrorPath
  <2>4. CASE r.op \notin {"forward", "rollback", "abort"}
    BY <1>1, <2>4 DEF ErrorPath
  <2>5. QED
    BY <2>1, <2>2, <2>3, <2>4
<1>4. Purpose(q)
  BY <1>1, <1>3 DEF Purpose
<1>5. q.op = "rollback" => RollbackAt(q, h, a, d, t, j, g)
  <2>1. SUFFICES ASSUME q.op = "rollback" PROVE RollbackAt(q, h, a, d, t, j, g)
    OBVIOUS
  <2>2. r.op = "forward" /\ r.at >= 11 /\ r.at >= 8
    BY <1>2, <1>3, <2>1
  <2>3. q.at = 1 /\ q.mem \in UpdateState
    BY <1>1, <2>1, <2>2
  <2>4. "abort" \notin g /\ j.at \in UpdateState
    BY <2>2
  <2>5. QED
    BY <2>3, <2>4 DEF RollbackAt
<1>6. q.op = "prestop" => PrestopAt(q, d, j)
  BY <1>1, <1>2, <1>3 DEF PrestopAt
<1>7. q.op = "abort" => Untouched(d)
  BY <1>1, <1>3
<1>8. QED
  BY <1>0, <1>1, <1>3, <1>4, <1>5, <1>6, <1>7 DEF Placed
----------------------------------------------------------------------------
(* The operations that only look                                             *)

RootSound == Kept /\ RootPlaced /\ JournalTrue /\ HostKnowing /\ Begun /\ ResultsTrue

\* What a root process never undoes.
Lasts(j, k) == (\A s \in Terminal : j.at = s => k.at = s) /\ (Aborted(j) => Aborted(k))
Sealed == stage \subseteq stage' /\ stage' \subseteq stage \cup {"abort"} /\ tx'.lock = tx.lock
Steady == Settled => drv' = drv /\ host'.loaded = host.loaded
RootStays == RootSound' /\ Lasts(jnl, jnl') /\ Sealed /\ Steady

Alike(r) ==
    /\ r \in RootType /\ r.op = rp.op /\ r.at = rp.at /\ r.kind = rp.kind /\ r.what = rp.what
    /\ r.done = rp.done /\ r.mem = rp.mem

\* The place of the transaction's process.
LEMMA ForwardHere ==
  ASSUME RootSound, rp.op = "forward"
  PROVE  ForwardAt(rp, host, audio, drv, tx, jnl, stage)
  BY DEF RootSound, RootPlaced, Placed

\* The place of the rollback's process.
LEMMA RollbackHere ==
  ASSUME RootSound, rp.op = "rollback"
  PROVE  RollbackAt(rp, host, audio, drv, tx, jnl, stage)
  BY DEF RootSound, RootPlaced, Placed

\* An operation that fails leaves its process well placed.
LEMMA Fails ==
  ASSUME RootSound, Working, NEW r, Alike(r), rp' = Unwound(r),
         rp.op = "forward" /\ rp.at \in 9..10 => Untouched(drv'),
         rp.op = "abort" => Untouched(drv'),
         rp.op = "forward" /\ rp.at >= 11 => "abort" \notin stage' /\ jnl'.at \in UpdateState,
         "aborted" \in rp.done => jnl'.at = "PRESTOP_ABORTED"
  PROVE  rp' \in RootType /\ RootPlaced'
<1>1. /\ rp.op # "none" /\ rp.kind # "none" /\ Purpose(rp)
  BY Here DEF RootSound, Kept
<1>2. /\ r \in RootType /\ r.op # "none" /\ r.kind # "none" /\ Purpose(r)
  BY <1>1 DEF Alike, Purpose
<1>3. /\ "aborted" \in r.done => jnl'.at = "PRESTOP_ABORTED"
      /\ r.op = "forward" /\ r.at \in 9..10 => Untouched(drv')
      /\ r.op = "abort" => Untouched(drv')
      /\ r.op = "forward" /\ r.at >= 11 => "abort" \notin stage' /\ jnl'.at \in UpdateState
  BY DEF Alike
<1>4. r.op = "forward" => r.mem \in UpdateState
  BY ForwardHere DEF Alike, ForwardAt
<1>5. rp' \in RootType /\ Placed(rp', host', audio', drv', tx', jnl', stage')
  BY <1>2, <1>3, <1>4, PlaceUnwound
<1>6. QED
  BY <1>5 DEF RootPlaced

\* The same when it has changed neither driver, journal nor stage.
LEMMA FailsHere ==
  ASSUME RootSound, Working, NEW r, Alike(r), rp' = Unwound(r), UNCHANGED <<drv, jnl, stage>>
  PROVE  rp' \in RootType /\ RootPlaced'
<1>1. "aborted" \in rp.done => jnl'.at = "PRESTOP_ABORTED"
  BY Here DEF RootSound, Kept
<1>2. rp.op = "abort" => Untouched(drv')
  BY DEF RootSound, RootPlaced, Placed
<1>3. ASSUME rp.op = "forward"
      PROVE  /\ rp.at \in 9..10 => Untouched(drv')
             /\ rp.at >= 11 => "abort" \notin stage' /\ jnl'.at \in UpdateState
  <2>1. ForwardAt(rp, host, audio, drv, tx, jnl, stage) /\ rp.at \in Nat
    BY <1>3, ForwardHere DEF RootSound, Kept, Typed, RootType
  <2>2. QED
    BY <2>1 DEF ForwardAt, Clean
<1>4. QED
  BY <1>1, <1>2, <1>3, Fails

\* A process is like itself.
LEMMA AlikeSelf == ASSUME RootSound PROVE Alike(rp)
  BY DEF Alike, RootSound, Kept, Typed

\* A process goes on over unchanged things.
LEMMA Goes ==
  ASSUME RootSound, Working, NEW r \in RootType, r.op = rp.op, r.kind = rp.kind,
         r.what = rp.what, rp' = Advance(r),
         "aborted" \in r.done => jnl'.at = "PRESTOP_ABORTED",
         Fares(rp', host', audio', drv', tx', jnl', stage')
  PROVE  rp' \in RootType /\ RootPlaced'
<1>1. /\ rp.op # "none" /\ rp.kind # "none" /\ Purpose(rp)
  BY Here DEF RootSound, Kept
<1>2. r.op # "none" /\ r.kind # "none" /\ Purpose(r)
  BY <1>1 DEF Purpose
<1>3. rp' \in RootType /\ Placed(rp', host', audio', drv', tx', jnl', stage')
  BY <1>2, PlaceAdvance
<1>4. QED
  BY <1>3 DEF RootPlaced

\* An operation that changes nothing but its process.
LEMMA StillSound ==
  ASSUME RootSound, Working, UNCHANGED <<world, disk, out>>, waiting' = waiting,
         rp' \in RootType, RootPlaced'
  PROVE  RootStays
<1>1. UNCHANGED <<host, births, audio, routes, drv, intact, tries, pin, stage, cut, tx, jnl, st>>
  BY DEF world, disk
<1>2. rp.op # "none"
  BY Here DEF RootSound, Kept
<1>3. Kept'
  BY <1>1 DEF RootSound, Kept, Typed, TypeOK, PriorDriverKept
<1>4. JournalTrue'
  BY <1>1 DEF RootSound, JournalTrue
<1>5. HostKnowing'
  BY <1>1 DEF RootSound, HostKnowing
<1>6. Begun'
  BY <1>1, <1>2 DEF RootSound, Begun
<1>7. ResultsTrue'
  BY <1>1 DEF RootSound, ResultsTrue
<1>8. Lasts(jnl, jnl') /\ Sealed /\ Steady
  BY <1>1 DEF Lasts, Sealed, Steady
<1>9. QED
  BY <1>3, <1>4, <1>5, <1>6, <1>7, <1>8 DEF RootStays, RootSound
\* The transaction's operations all apply, so its process goes on to the next.
LEMMA ForwardOn ==
  ASSUME RootSound, rp.op = "forward", Working, NEW r \in RootType, r.op = "forward", r.at = rp.at,
         r.mem \in UpdateState, rp' = Advance(r)
  PROVE  rp'.op = "forward" /\ rp'.at = rp.at + 1 /\ rp'.mem = r.mem
<1>1. rp.at \in 1..Len(PlanOf[rp.op])
  BY DEF Working
<1>2. r.op \in Straight /\ r.at \in 0..Len(PlanOf[r.op])
  BY <1>1, PlanLengths DEF Straight
<1>3. QED
  BY <1>2, AdvanceStraight, AdvanceIs

\* The world of an operation that only looks.
Looks == UNCHANGED <<host, births, audio, drv, tx, jnl, st, routes, intact, tries, pin, usr,
                     waiting, out, stage, cut>>

\* An operation that only reads changes nothing but its process.
LEMMA LooksIs == ASSUME Only({}), Same PROVE Looks
  BY DEF Only, Keeps, Same, Looks

\* A transaction goes on to the next operation with the journal it knows.
LEMMA ForwardLooks ==
  ASSUME RootSound, Working, rp.op = "forward", rp.at \notin {2, 3, 5, 6, 13, 15, 17, 19, 28}, Looks,
         NEW r, Alike(r), rp.at = 1 => "abort" \notin stage, rp' = Advance(r)
  PROVE  RootStays
<1>1. /\ rp'.op = "forward" /\ rp'.at = rp.at + 1 /\ rp'.mem = rp.mem
  <2>1. r.mem \in UpdateState
    BY ForwardHere DEF Alike, ForwardAt
  <2>2. QED
    BY <2>1, ForwardOn DEF Alike
<1>2. ForwardAt(rp, host, audio, drv, tx, jnl, stage) /\ rp.at \in Nat
  BY ForwardHere DEF RootSound, Kept, Typed, RootType
<1>3. ForwardAt(rp', host', audio', drv', tx', jnl', stage')
  <2>1. rp.at = 1 \/ rp.at = 4 \/ rp.at \in 7..12 \/ rp.at = 14 \/ rp.at = 16 \/ rp.at = 18
        \/ rp.at \in 20..27 \/ rp.at >= 29
    BY <1>2, Here, PlanLengths DEF RootSound, Kept
  <2>2. UNCHANGED <<host, audio, drv, tx, jnl, stage>>
    BY DEF Looks
  <2>3. QED
    BY <1>1, <1>2, <2>1, <2>2 DEF ForwardAt, Clean
<1>4. rp' \in RootType /\ RootPlaced'
  <2>1. /\ r \in RootType /\ r.op = rp.op /\ r.kind = rp.kind /\ r.what = rp.what
        /\ r.done = rp.done
    BY DEF Alike
  <2>2. "aborted" \in r.done => jnl'.at = "PRESTOP_ABORTED"
    BY <2>1, Here DEF RootSound, Kept, Looks
  <2>3. Fares(rp', host', audio', drv', tx', jnl', stage')
    BY <1>1, <1>3 DEF Fares
  <2>4. QED
    BY <2>1, <2>2, <2>3, Goes
<1>5. QED
  BY <1>4, StillSound DEF Looks, world, disk

\* An operation that only reads and fails.
LEMMA FailingLook ==
  ASSUME RootSound, Working, Looks, NEW r, Alike(r), rp' = Unwound(r)
  PROVE  RootStays
<1>1. rp' \in RootType /\ RootPlaced'
  BY FailsHere DEF Looks
<1>2. QED
  BY <1>1, StillSound DEF Looks, world, disk

\* The admission of a transaction.
LEMMA AdmitSound ==
  ASSUME RootSound, Working, RootAdmit
  PROVE  RootStays
<1> DEFINE r == [rp EXCEPT !.init = host.gen, !.routes = stable_route_snapshot,
                           !.audio = stable_coreaudio_generation]
<1>1. rp.op = "forward" /\ rp.at = 1
  BY Here DEF RootSound, Kept, RootAdmit, At, OpSound, OpPlaced
<1>2. Looks
  BY LooksIs DEF RootAdmit
<1>3. Alike(r)
  <2>1. rp \in RootType /\ host.gen \in Nat /\ routes \in {"base", "drifted"} /\ audio.gen \in Nat
    BY DEF RootSound, Kept, Typed, TypeOK
  <2>2. QED
    BY <2>1 DEF Alike, RootType, stable_route_snapshot, stable_coreaudio_generation
<1>4. \/ rp' = Advance(r) /\ "abort" \notin stage
      \/ rp' = Unwound(rp)
  BY DEF RootAdmit, Succeeds, Breaks, Refuses, verify_root_controller_identity
<1> HIDE DEF r
<1>5. CASE rp' = Advance(r) /\ "abort" \notin stage
  BY <1>1, <1>2, <1>3, <1>5, ForwardLooks
<1>6. CASE rp' = Unwound(rp)
  BY <1>2, <1>6, AlikeSelf, FailingLook
<1>7. QED
  BY <1>4, <1>5, <1>6

\* The proofs that a transaction repeats between its changes.
LEMMA RecheckSound ==
  ASSUME RootSound, Working, RootRecheck \/ RootRevalidate \/ run_passive_driver_validation \/ RootReady
  PROVE  RootStays
<1>1. rp.op = "forward" /\ rp.at \in {7, 10, 21, 25}
  BY Here DEF RootSound, Kept, RootRecheck, RootRevalidate, run_passive_driver_validation, RootReady,
              At, OpSound, OpPlaced
<1>2. Looks
  BY LooksIs DEF RootRecheck, RootRevalidate, run_passive_driver_validation, RootReady
<1>3. rp' = Advance(rp) \/ rp' = Unwound(rp)
  BY DEF RootRecheck, RootRevalidate, run_passive_driver_validation, RootReady,
         Succeeds, Breaks, Refuses
<1>4. CASE rp' = Advance(rp)
  BY <1>1, <1>2, <1>4, AlikeSelf, ForwardLooks
<1>5. CASE rp' = Unwound(rp)
  BY <1>2, <1>5, AlikeSelf, FailingLook
<1>6. QED
  BY <1>3, <1>4, <1>5
\* A rollback goes on to the next operation that is due.
LEMMA RollbackOn ==
  ASSUME RootSound, Working, rp.op = "rollback", NEW r \in RootType, r.op = "rollback",
         r.at = rp.at, rp' = Advance(r), Fits(r), Clean(r, jnl'), "abort" \notin stage',
         rp.at \in 5..12 => Down(host'),
         rp.at \in 8..13 => drv'.canonical = "v7",
         rp.at = 11 => Synced(audio', drv')
  PROVE  rp'.op = "rollback" /\ RollbackAt(rp', host', audio', drv', tx', jnl', stage')
<1>1. r.at \in 1..17
  BY PlanLengths DEF Working
<1>2. r.mem \in UpdateState
  BY DEF Clean
<1>3. /\ rp'.at \in Nat /\ rp'.at >= 2
      /\ rp'.at \in 6..13 => r.at \in 5..12
      /\ rp'.at \in 9..14 => r.at \in 8..13
      /\ rp'.at = 12 => r.at = 11
      /\ rp'.at >= 17 => r.mem = "ROLLED_BACK"
  BY <1>1, <1>2, AdvanceRollback
<1>4. rp'.op = "rollback" /\ rp'.mem = r.mem
  BY AdvanceIs
<1>5. Clean(rp', jnl')
  BY <1>4 DEF Clean
<1>6. QED
  BY <1>2, <1>3, <1>4, <1>5 DEF RollbackAt, Clean

\* What a rollback at an operation of its plan knows.
LEMMA RollbackKnows ==
  ASSUME RootSound, Working, rp.op = "rollback"
  PROVE  /\ rp.at \in 1..17 /\ (~rp.half => rp.mem \in PlanOf["rollback"][rp.at].from)
         /\ (rp.half => PlanOf["rollback"][rp.at].do = "mark" /\ rp.mem = PlanOf["rollback"][rp.at].s)
         /\ RollbackAt(rp, host, audio, drv, tx, jnl, stage)
<1>1. rp.at \in 1..17 /\ rp.at \in 1..Len(PlanOf[rp.op])
  BY PlanLengths DEF Working
<1>2. DueHere(rp)
  BY Here DEF RootSound, Kept
<1>3. RollbackAt(rp, host, audio, drv, tx, jnl, stage)
  BY RollbackHere
<1>4. QED
  BY <1>1, <1>2, <1>3 DEF DueHere

\* The proofs of a rollback.
LEMMA RollbackLooks ==
  ASSUME RootSound, Working, rp.op = "rollback", rp.at \in {3, 15}, Looks, NEW r, Alike(r),
         rp.at = 3 => rollback_resume_action(rp.mem) # "Refuse", rp' = Advance(r)
  PROVE  RootStays
<1>1. /\ r \in RootType /\ r.op = rp.op /\ r.at = rp.at /\ r.kind = rp.kind /\ r.what = rp.what
      /\ r.done = rp.done /\ r.mem = rp.mem
  BY DEF Alike
<1>2. RollbackAt(rp, host, audio, drv, tx, jnl, stage)
  BY RollbackKnows
<1>3. Fits(r)
  <2>1. CASE rp.at = 3
    BY <1>1, <2>1 DEF Fits
  <2>2. CASE rp.at = 15
    <3>1. ~rp.half /\ rp.mem = "HOST_REBOOTSTRAPPED"
      BY <2>2, RollbackKnows, RollbackFrom
    <3>2. QED
      BY <1>1, <2>2, <3>1 DEF Fits
  <2>3. QED
    BY <2>1, <2>2
<1>4. Clean(r, jnl') /\ "abort" \notin stage'
  <2>1. Clean(rp, jnl) /\ "abort" \notin stage
    BY <1>2 DEF RollbackAt
  <2>2. QED
    BY <1>1, <2>1 DEF Clean, Looks
<1>5. rp'.op = "rollback" /\ RollbackAt(rp', host', audio', drv', tx', jnl', stage')
  BY <1>1, <1>3, <1>4, RollbackOn
<1>6. "aborted" \in r.done => jnl'.at = "PRESTOP_ABORTED"
  BY <1>1, Here DEF RootSound, Kept, Looks
<1>7. Fares(rp', host', audio', drv', tx', jnl', stage')
  BY <1>5 DEF Fares
<1>8. rp' \in RootType /\ RootPlaced'
  BY <1>1, <1>6, <1>7, Goes
<1>9. QED
  BY <1>8, StillSound DEF Looks, world, disk

\* What a process has seen of the host changes nothing of its place.
LEMMA ProvedAlike == ASSUME RootSound PROVE Alike(Proved(rp))
<1>1. rp \in RootType /\ host.gen \in Nat /\ host.first \in BOOLEAN
  BY DEF RootSound, Kept, Typed, TypeOK
<1>2. Proved(rp) \in RootType
  BY <1>1 DEF Proved, RootType
<1>3. QED
  BY <1>1, <1>2 DEF Alike, Proved, RootType

\* The proof of the rollback's scope, and of the pairing records.
LEMMA ScopeSound ==
  ASSUME RootSound, Working, RootScope \/ RootPairing
  PROVE  RootStays
<1>1. rp.op = "rollback" /\ rp.at \in {3, 15} /\ (RootPairing => rp.at = 15)
  BY Here DEF RootSound, Kept, RootScope, RootPairing, At, OpSound, OpPlaced
<1>2. Looks
  BY LooksIs DEF RootScope, RootPairing
<1>3. \/ (rp' = Advance(rp) \/ rp' = Advance(Proved(rp)))
         /\ (rp.at = 3 => rollback_resume_action(rp.mem) # "Refuse")
      \/ rp' = Unwound(rp)
  <2>1. CASE RootScope
    BY <2>1 DEF RootScope, Succeeds, Breaks, Refuses
  <2>2. CASE RootPairing
    BY <1>1, <2>2 DEF RootPairing, Succeeds, Refuses
  <2>3. QED
    BY <2>1, <2>2
<1>4. CASE /\ rp' = Advance(rp) \/ rp' = Advance(Proved(rp))
           /\ rp.at = 3 => rollback_resume_action(rp.mem) # "Refuse"
  BY <1>1, <1>2, <1>4, AlikeSelf, ProvedAlike, RollbackLooks
<1>5. CASE rp' = Unwound(rp)
  BY <1>2, <1>5, AlikeSelf, FailingLook
<1>6. QED
  BY <1>3, <1>4, <1>5

\* The recovery without a pointer goes on.
LEMMA PointerlessOn ==
  ASSUME RootSound, rp.op = "pointerless", Working, NEW r \in RootType, r.op = "pointerless",
         r.at \in 1..5, r.mem = rp.mem, rp' = Advance(r)
  PROVE  /\ rp'.op = "pointerless" /\ rp'.at = r.at + 1 /\ rp'.mem = rp.mem
         /\ rp.mem \in UpdateState
<1>1. r.op \in Straight /\ r.at \in 0..Len(PlanOf[r.op])
  BY PlanLengths DEF Straight
<1>2. PointerlessAt(rp, drv, tx, jnl, stage)
  BY DEF RootSound, RootPlaced, Placed
<1>3. rp.mem \in UpdateState
  BY <1>2 DEF PointerlessAt
<1>4. QED
  BY <1>1, <1>3, AdvanceStraight, AdvanceIs

\* The examination of a transaction that published no pointer.
LEMMA ExamineSound ==
  ASSUME RootSound, Working, RootExamine
  PROVE  RootStays
<1> DEFINE r == [Proved(rp) EXCEPT !.init = host.gen, !.routes = routes]
           s == [r EXCEPT !.at = 4]
<1>1. rp.op = "pointerless" /\ rp.at = 1
  BY Here DEF RootSound, Kept, RootExamine, At, OpSound, OpPlaced
<1>2. Looks
  BY LooksIs DEF RootExamine
<1>3. /\ Proved(rp) \in RootType /\ host.gen \in Nat /\ routes \in {"base", "drifted"}
      /\ Alike(Proved(rp))
  BY ProvedAlike DEF Alike, RootSound, Kept, Typed, TypeOK
<1>4. Alike(r)
  BY <1>3 DEF Alike, RootType
<1>5. /\ s \in RootType /\ s.op = rp.op /\ s.kind = rp.kind /\ s.what = rp.what
      /\ s.done = rp.done /\ s.mem = rp.mem /\ s.at = 4
  <2> HIDE DEF r
  <2>1. QED
    BY <1>4 DEF Alike, RootType
<1>6. \/ /\ tx.dir /\ drv.prior = "none" /\ drv.failed = "none" /\ drv.canonical = "v7"
         /\ rp' = Advance(r)
      \/ ~tx.dir /\ rp' = Advance(s)
      \/ rp' = Unwound(rp)
  BY DEF RootExamine, Succeeds, Breaks, Refuses, require_pointerless_partial_root_layout,
         verify_installed_v7_driver, verify_driver_bundle
<1> HIDE DEF r, s
<1>7. PointerlessAt(rp, drv, tx, jnl, stage)
  BY <1>1 DEF RootSound, RootPlaced, Placed
<1>8. "aborted" \in rp.done => jnl'.at = "PRESTOP_ABORTED"
  BY <1>2, Here DEF RootSound, Kept, Looks
<1>9. CASE tx.dir /\ Untouched(drv) /\ rp' = Advance(r)
  <2>1. rp'.op = "pointerless" /\ rp'.at = 2 /\ rp'.mem = rp.mem /\ rp.mem \in UpdateState
    BY <1>1, <1>4, <1>9, PointerlessOn DEF Alike
  <2>2. PointerlessAt(rp', drv', tx', jnl', stage')
    BY <1>2, <1>7, <1>9, <2>1 DEF PointerlessAt, Looks
  <2>3. Fares(rp', host', audio', drv', tx', jnl', stage')
    BY <2>1, <2>2 DEF Fares
  <2>4. rp' \in RootType /\ RootPlaced'
    BY <1>4, <1>8, <1>9, <2>3, Goes DEF Alike
  <2>5. QED
    BY <1>2, <2>4, StillSound DEF Looks, world, disk
<1>10. CASE ~tx.dir /\ rp' = Advance(s)
  <2>1. rp'.op = "pointerless" /\ rp'.at = 5 /\ rp'.mem = rp.mem /\ rp.mem \in UpdateState
    BY <1>1, <1>5, <1>10, PointerlessOn
  <2>2. Untouched(drv)
    BY <1>10 DEF RootSound, Begun
  <2>3. PointerlessAt(rp', drv', tx', jnl', stage')
    BY <1>2, <1>7, <1>10, <2>1, <2>2 DEF PointerlessAt, Looks
  <2>4. Fares(rp', host', audio', drv', tx', jnl', stage')
    BY <2>1, <2>3 DEF Fares
  <2>5. rp' \in RootType /\ RootPlaced'
    BY <1>5, <1>8, <1>10, <2>4, Goes
  <2>6. QED
    BY <1>2, <2>5, StillSound DEF Looks, world, disk
<1>11. CASE rp' = Unwound(rp)
  BY <1>2, <1>11, AlikeSelf, FailingLook
<1>12. QED
  BY <1>6, <1>9, <1>10, <1>11 DEF Untouched
----------------------------------------------------------------------------
(* The operations on the transaction's own files                             *)

\* An operation that writes the transaction's own files.
LEMMA TxSound ==
  ASSUME RootSound, Working,
         UNCHANGED <<host, births, audio, drv, jnl, st, routes, intact, tries, pin, waiting, out,
                     stage, cut>>,
         tx' \in TxType, tx'.lock = tx.lock, tx.dir => tx'.dir,
         "abort" \in stage => tx'.ptr \notin {"published", "pending"},
         tx'.result = "success" \/ tx'.recovery = "committed" => jnl.at = "COMMITTED",
         tx'.recovery = "rolled-back" => jnl.at = "ROLLED_BACK",
         tx'.recovery = "prestop-aborted" => Aborted(jnl),
         rp' \in RootType, RootPlaced'
  PROVE  RootStays
<1>1. rp.op # "none"
  BY Here DEF RootSound, Kept
<1>2. Kept'
  <2>1. TypeOK'
    BY DEF RootSound, Kept, Typed, TypeOK, TxType
  <2>2. QED
    BY <2>1 DEF RootSound, Kept, Typed, PriorDriverKept
<1>3. JournalTrue' /\ HostKnowing'
  BY DEF RootSound, JournalTrue, HostKnowing
<1>4. Begun'
  BY <1>1 DEF RootSound, Begun
<1>5. ResultsTrue'
  BY DEF RootSound, ResultsTrue, Aborted
<1>6. Lasts(jnl, jnl') /\ Sealed /\ Steady
  BY DEF Lasts, Sealed, Steady
<1>7. QED
  BY <1>2, <1>3, <1>4, <1>5, <1>6 DEF RootStays, RootSound

\* The reserve, the directory and the pointer leave the results as they are.
LEMMA TxPart ==
  ASSUME RootSound, Working,
         UNCHANGED <<host, births, audio, drv, jnl, st, routes, intact, tries, pin, waiting, out,
                     stage, cut>>,
         tx' \in TxType, tx'.lock = tx.lock, tx.dir => tx'.dir, tx'.result = tx.result,
         tx'.recovery = tx.recovery,
         "abort" \in stage => tx'.ptr \notin {"published", "pending"},
         rp' \in RootType, RootPlaced'
  PROVE  RootStays
  BY TxSound DEF RootSound, ResultsTrue

OnlyTx == UNCHANGED <<host, births, audio, drv, jnl, st, routes, intact, tries, pin, usr,
                      waiting, out, stage, cut>>

\* What such an operation leaves alone.
LEMMA OnlyTxIs == ASSUME Only({"tx"}), Same PROVE OnlyTx
  BY DEF Only, Keeps, Same, OnlyTx

\* A transaction goes on after an operation on its own files.
LEMMA ForwardTx ==
  ASSUME RootSound, Working, rp.op = "forward", rp.at \in {4, 8, 27, 29}, OnlyTx,
         tx.dir => tx'.dir, NEW r, Alike(r), rp' = Advance(r)
  PROVE  rp' \in RootType /\ RootPlaced'
<1>1. /\ rp'.op = "forward" /\ rp'.at = rp.at + 1 /\ rp'.mem = rp.mem
  <2>1. r.mem \in UpdateState
    BY ForwardHere DEF Alike, ForwardAt
  <2>2. QED
    BY <2>1, ForwardOn DEF Alike
<1>2. ForwardAt(rp, host, audio, drv, tx, jnl, stage)
  BY ForwardHere
<1>3. ForwardAt(rp', host', audio', drv', tx', jnl', stage')
  <2>1. UNCHANGED <<host, audio, drv, jnl, stage>>
    BY DEF OnlyTx
  <2>2. QED
    BY <1>1, <1>2, <2>1 DEF ForwardAt, Clean
<1>4. QED
  <2>1. /\ r \in RootType /\ r.op = rp.op /\ r.kind = rp.kind /\ r.what = rp.what
        /\ r.done = rp.done
    BY DEF Alike
  <2>2. "aborted" \in r.done => jnl'.at = "PRESTOP_ABORTED"
    BY <2>1, Here DEF RootSound, Kept, OnlyTx
  <2>3. Fares(rp', host', audio', drv', tx', jnl', stage')
    BY <1>1, <1>3 DEF Fares
  <2>4. QED
    BY <2>1, <2>2, <2>3, Goes

\* The creation of the transaction's directory.
LEMMA LayoutSound ==
  ASSUME RootSound, Working, RootLayout
  PROVE  RootStays
<1>1. rp.op = "forward" /\ rp.at = 2
  BY Here DEF RootSound, Kept, RootLayout, At, OpSound, OpPlaced
<1>2. OnlyTx
  BY OnlyTxIs DEF RootLayout
<1> DEFINE t == [tx EXCEPT !.dir = TRUE]
<1>3. \/ ~tx.dir /\ tx' = t /\ rp' = Advance(rp)
      \/ tx' \in {tx, t} /\ rp' = Unwound(rp)
  BY DEF RootLayout, ensure_root_update_layout, Succeeds, Breaks, Refuses
<1>4. /\ tx \in TxType /\ t \in TxType /\ t.dir /\ t.lock = tx.lock /\ t.ptr = tx.ptr
      /\ t.result = tx.result /\ t.recovery = tx.recovery
  BY DEF RootSound, Kept, Typed, TxType
<1> HIDE DEF t
<1>5. /\ tx' \in TxType /\ (tx.dir => tx'.dir) /\ tx'.lock = tx.lock /\ tx'.ptr = tx.ptr
      /\ tx'.result = tx.result /\ tx'.recovery = tx.recovery
  BY <1>3, <1>4
<1>6. rp' \in RootType /\ RootPlaced'
  <2>1. CASE rp' = Unwound(rp)
    BY <1>2, <2>1, AlikeSelf, FailsHere DEF OnlyTx
  <2>2. CASE ~tx.dir /\ tx' = t /\ rp' = Advance(rp)
    <3>1. ForwardAt(rp, host, audio, drv, tx, jnl, stage) /\ rp \in RootType
      BY <1>1, ForwardHere DEF RootSound, Kept, Typed
    <3>2. rp'.op = "forward" /\ rp'.at = 3 /\ rp'.mem = rp.mem /\ rp.mem \in UpdateState
      BY <1>1, <2>2, <3>1, ForwardOn DEF ForwardAt
    <3>3. NoJournal(jnl) /\ Untouched(drv)
      BY <2>2 DEF RootSound, Begun
    <3>4. ForwardAt(rp', host', audio', drv', tx', jnl', stage')
      BY <1>1, <1>2, <1>4, <2>2, <3>1, <3>2, <3>3 DEF ForwardAt, OnlyTx
    <3>5. Fares(rp', host', audio', drv', tx', jnl', stage')
      BY <3>2, <3>4 DEF Fares
    <3>6. "aborted" \in rp.done => jnl'.at = "PRESTOP_ABORTED"
      BY <1>2, Here DEF RootSound, Kept, OnlyTx
    <3>7. QED
      BY <2>2, <3>1, <3>5, <3>6, Goes
  <2>3. QED
    BY <1>3, <2>1, <2>2
<1>7. "abort" \in stage => tx'.ptr \notin {"published", "pending"}
  BY <1>5 DEF RootSound, Begun
<1>8. QED
  BY <1>2, <1>5, <1>6, <1>7, TxPart DEF OnlyTx

\* The pointer, and the reserve of the rollback's journal.
LEMMA PointerSound ==
  ASSUME RootSound, Working,
         write_root_pointer \/ allocate_rollback_reserve \/ release_rollback_reserve_descriptor
  PROVE  RootStays
<1>1. rp.op = "forward" /\ rp.at \in {4, 8, 27}
  BY Here DEF RootSound, Kept, write_root_pointer, allocate_rollback_reserve,
              release_rollback_reserve_descriptor, At, OpSound, OpPlaced
<1>2. OnlyTx
  BY OnlyTxIs DEF write_root_pointer, allocate_rollback_reserve, release_rollback_reserve_descriptor
<1>3. /\ tx \in TxType
      /\ \/ tx' = tx
         \/ \E p \in {"absent", "torn", "pending", "published"} : tx' = [tx EXCEPT !.ptr = p]
         \/ \E x \in {"absent", "allocated", "released", "partial"} : tx' = [tx EXCEPT !.reserve = x]
      /\ rp' = Advance(rp) \/ rp' = Unwound(rp)
  BY DEF write_root_pointer, allocate_rollback_reserve, release_rollback_reserve_descriptor,
         Released, Succeeds, Breaks, RootSound, Kept, Typed
<1>4. /\ tx' \in TxType /\ (tx.dir => tx'.dir) /\ tx'.lock = tx.lock
      /\ tx'.result = tx.result /\ tx'.recovery = tx.recovery
  BY <1>3 DEF TxType
<1>5. "abort" \notin stage
  BY <1>1, ForwardHere DEF ForwardAt
<1>6. rp' \in RootType /\ RootPlaced'
  <2>1. CASE rp' = Advance(rp)
    BY <1>1, <1>2, <1>4, <2>1, AlikeSelf, ForwardTx
  <2>2. CASE rp' = Unwound(rp)
    BY <1>2, <2>2, AlikeSelf, FailsHere DEF OnlyTx
  <2>3. QED
    BY <1>3, <2>1, <2>2
<1>7. QED
  BY <1>2, <1>4, <1>5, <1>6, TxPart DEF OnlyTx

\* The release of the reserve by a settled transaction.
LEMMA UnreserveSound ==
  ASSUME RootSound, Working, RootUnreserve
  PROVE  RootStays
<1> DEFINE r == [rp EXCEPT !.done = @ \cup {"released"}]
<1>1. rp.op = "abort" /\ rp.at = 1
  BY Here DEF RootSound, Kept, RootUnreserve, At, OpSound, OpPlaced
<1>2. OnlyTx
  BY OnlyTxIs DEF RootUnreserve
<1>3. \/ tx' = Released /\ rp' = Advance(r)
      \/ tx' = tx /\ rp' = Unwound(rp)
  BY DEF RootUnreserve, Succeeds, Breaks
<1>4. /\ tx' \in TxType /\ (tx.dir => tx'.dir) /\ tx'.lock = tx.lock /\ tx'.ptr = tx.ptr
      /\ tx'.result = tx.result /\ tx'.recovery = tx.recovery
  BY <1>3 DEF TxType, Released, RootSound, Kept, Typed
<1>5. /\ r \in RootType /\ r.op = rp.op /\ r.kind = rp.kind /\ r.what = rp.what
      /\ "aborted" \in r.done => "aborted" \in rp.done
  BY DEF RootType, Done, RootSound, Kept, Typed
<1> HIDE DEF r
<1>6. rp' \in RootType /\ RootPlaced'
  <2>1. CASE rp' = Advance(r)
    <3>1. rp'.op = "abort"
      BY ZenonT(60), <1>1, <1>5, <2>1, AdvanceIs
    <3>2. Untouched(drv)
      BY <1>1 DEF RootSound, RootPlaced, Placed
    <3>3. Fares(rp', host', audio', drv', tx', jnl', stage')
      BY <1>2, <3>1, <3>2 DEF Fares, OnlyTx
    <3>4. "aborted" \in r.done => jnl'.at = "PRESTOP_ABORTED"
      BY <1>2, <1>5, Here DEF RootSound, Kept, OnlyTx
    <3>5. QED
      BY <1>5, <2>1, <3>3, <3>4, Goes
  <2>2. CASE rp' = Unwound(rp)
    BY <1>2, <2>2, AlikeSelf, FailsHere DEF OnlyTx
  <2>3. QED
    BY <1>3, <2>1, <2>2
<1>7. "abort" \in stage => tx'.ptr \notin {"published", "pending"}
  BY <1>4 DEF RootSound, Begun
<1>8. QED
  BY <1>2, <1>4, <1>6, <1>7, TxPart DEF OnlyTx
----------------------------------------------------------------------------
(* Results                                                                   *)

\* A process that ends its plan early is nowhere.
LEMMA OverPlaced ==
  ASSUME NEW r \in RootType, r.kind # "none", "aborted" \in r.done => jnl'.at = "PRESTOP_ABORTED",
         rp' = Over(r)
  PROVE  rp' \in RootType /\ RootPlaced'
<1>1. /\ rp' \in RootType /\ rp'.op = "over" /\ rp'.at = 1 /\ rp'.kind = r.kind /\ rp'.done = r.done
  BY OpsAre DEF Over, RootType
<1>2. DueHere(rp')
  BY <1>1, PlanLengths DEF DueHere
<1>3. Placed(rp', host', audio', drv', tx', jnl', stage')
  BY <1>1, <1>2 DEF Placed, Purpose
<1>4. QED
  BY <1>1, <1>3 DEF RootPlaced

\* A report goes on over an unchanged machine.
LEMMA ReportOn ==
  ASSUME RootSound, Working, rp.op \in {"prestop", "abort", "committed", "rolledBack", "report"},
         rp.at >= 2, rp.op = "prestop" => rp.at >= 3, UNCHANGED <<drv, jnl>>,
         NEW r \in RootType, r.op = rp.op, r.at = rp.at, r.mem = rp.mem, rp' = Advance(r)
  PROVE  Fares(rp', host', audio', drv', tx', jnl', stage')
<1>1. rp'.op = rp.op /\ rp'.mem = rp.mem /\ rp'.at \in Nat
  BY ZenonT(60), AdvanceIs DEF RootType
<1>2. rp.at \in 1..Len(PlanOf[rp.op]) /\ r.at \in Nat
  BY DEF Working, RootType
<1>3. CASE rp.op = "prestop"
  <2>1. PrestopAt(rp, drv, jnl)
    BY <1>3 DEF RootSound, RootPlaced, Placed
  <2>2. rp'.at >= 3
    BY <1>2, <1>3, <2>1, AdvancePrestop, PlanLengths DEF PrestopAt
  <2>3. PrestopAt(rp', drv', jnl')
    BY <1>1, <1>2, <1>3, <2>1, <2>2 DEF PrestopAt, Clean
  <2>4. QED
    BY <1>1, <1>3, <2>3 DEF Fares
<1>4. CASE rp.op = "abort"
  BY <1>1, <1>4 DEF Fares, RootSound, RootPlaced, Placed
<1>5. CASE rp.op \in {"committed", "rolledBack", "report"}
  <2>1. SettledAt(rp, jnl)
    BY <1>5 DEF RootSound, RootPlaced, Placed
  <2>2. SettledAt(rp', jnl')
    BY <1>1, <1>5, <2>1 DEF SettledAt
  <2>3. QED
    BY <1>1, <1>5, <2>2 DEF Fares
<1>6. QED
  BY <1>3, <1>4, <1>5

\* The result says what the journal says.
LEMMA ResultSound ==
  ASSUME RootSound, Working, write_root_result
  PROVE  RootStays
<1> DEFINE r == [rp EXCEPT !.calm = stable_route_snapshot = rp.routes]
           new == [tx EXCEPT !.result = Said(rp)]
<1>1. \/ rp.op = "forward" /\ rp.at = 29
      \/ rp.op = "rollback" /\ rp.at = 17
      \/ rp.op = "prestop" /\ rp.at = 4
      \/ rp.op = "abort" /\ rp.at = 5
      \/ rp.op \in {"committed", "rolledBack"} /\ rp.at = 3
      \/ rp.op = "report" /\ rp.at = 2
  BY Here DEF RootSound, Kept, write_root_result, At, OpSound, OpPlaced
<1>2. OnlyTx
  BY OnlyTxIs DEF write_root_result
<1>3. tx' \in {tx, new} /\ (rp' = Advance(r) \/ rp' = Over(r))
  BY DEF write_root_result, Succeeds
<1>4. Alike(r)
  <2>1. (stable_route_snapshot = rp.routes) \in BOOLEAN
    OBVIOUS
  <2> DEFINE b == stable_route_snapshot = rp.routes
  <2>2. b \in BOOLEAN /\ r = [rp EXCEPT !.calm = b]
    BY <2>1
  <2> HIDE DEF b
  <2>3. rp \in RootType
    BY DEF RootSound, Kept, Typed
  <2>4. QED
    BY <2>2, <2>3 DEF Alike, RootType
<1>5. /\ Said(rp) \in {"success", "rolled-back"}
      /\ Said(rp) = "success" => rp.op \in {"forward", "committed"}
  BY DEF Said
<1>6. /\ tx' \in TxType /\ (tx.dir => tx'.dir) /\ tx'.lock = tx.lock /\ tx'.ptr = tx.ptr
      /\ tx'.recovery = tx.recovery
      /\ tx'.result = "success" => tx.result = "success" \/ rp.op \in {"forward", "committed"}
  <2>1. tx \in TxType
    BY DEF RootSound, Kept, Typed
  <2>2. QED
    BY <1>3, <1>5, <2>1 DEF TxType
<1> HIDE DEF r, new
<1>7. rp.op \in {"forward", "committed"} => jnl.at = "COMMITTED"
  <2>1. CASE rp.op = "forward"
    BY <1>1, <2>1, ForwardHere DEF ForwardAt
  <2>2. CASE rp.op = "committed"
    BY <1>1, <2>2 DEF RootSound, RootPlaced, Placed, SettledAt
  <2>3. QED
    BY <2>1, <2>2
<1>8. "aborted" \in r.done => jnl'.at = "PRESTOP_ABORTED"
  BY <1>2, <1>4, Here DEF RootSound, Kept, OnlyTx, Alike
<1>9. CASE rp' = Over(r)
  <2>1. r \in RootType /\ r.kind # "none"
    BY <1>4, Here DEF RootSound, Kept, Alike
  <2>2. rp' \in RootType /\ RootPlaced'
    BY <1>8, <1>9, <2>1, OverPlaced
  <2>3. QED
    BY <1>2, <1>6, <1>7, <2>2, TxSound DEF OnlyTx, RootSound, ResultsTrue, Begun
<1>10. CASE rp' = Advance(r)
  <2>1. CASE rp.op = "forward"
    <3>1. rp' \in RootType /\ RootPlaced'
      BY <1>1, <1>2, <1>4, <1>6, <1>10, <2>1, ForwardTx
    <3>2. QED
      BY <1>2, <1>6, <1>7, <3>1, TxSound DEF OnlyTx, RootSound, ResultsTrue, Begun
  <2>2. CASE rp.op # "forward"
    <3>1. Fares(rp', host', audio', drv', tx', jnl', stage')
      <4>1. CASE rp.op = "rollback"
        <5>1. RollbackAt(rp, host, audio, drv, tx, jnl, stage) /\ rp.at = 17
          BY <1>1, <4>1, RollbackKnows
        <5>2. /\ r \in RootType /\ r.op = "rollback" /\ r.at = rp.at /\ r.mem = rp.mem
          BY <1>4, <4>1 DEF Alike
        <5>3. Fits(r) /\ Clean(r, jnl') /\ "abort" \notin stage'
          BY <1>2, <5>1, <5>2 DEF Fits, Clean, RollbackAt, OnlyTx
        <5>4. rp'.op = "rollback" /\ RollbackAt(rp', host', audio', drv', tx', jnl', stage')
          BY <1>10, <4>1, <5>1, <5>2, <5>3, RollbackOn
        <5>5. QED
          BY <5>4 DEF Fares
      <4>2. CASE rp.op # "rollback"
        BY <1>1, <1>2, <1>4, <1>10, <2>2, <4>2, ReportOn DEF OnlyTx, Alike
      <4>3. QED
        BY <4>1, <4>2
    <3>2. rp' \in RootType /\ RootPlaced'
      BY <1>4, <1>8, <1>10, <3>1, Goes DEF Alike
    <3>3. QED
      BY <1>2, <1>6, <1>7, <3>2, TxSound DEF OnlyTx, RootSound, ResultsTrue, Begun
  <2>3. QED
    BY <2>1, <2>2
<1>11. QED
  BY <1>3, <1>9, <1>10

\* The result file of a recovery.
LEMMA RecoveryResultSound ==
  ASSUME RootSound, Working, write_root_recovery_result
  PROVE  RootStays
<1> DEFINE told == [tx EXCEPT !.recovery = rp.what]
           torn == [tx EXCEPT !.recovery = "torn"]
<1>1. (rp.op = "pointerless" /\ rp.at = 4) \/ (rp.op = "tail" /\ rp.at = 1)
  BY Here DEF RootSound, Kept, write_root_recovery_result, At, OpSound, OpPlaced
<1>2. OnlyTx
  BY OnlyTxIs DEF write_root_recovery_result
<1>3. tx' \in {tx, told, torn} /\ (rp' = Advance(rp) \/ rp' = Unwound(rp))
  BY DEF write_root_recovery_result, Succeeds, Breaks, Refuses
<1>4. /\ tx \in TxType /\ rp \in RootType
  BY DEF RootSound, Kept, Typed
<1>5. \/ rp.what = "prestop-aborted" /\ Aborted(jnl)
      \/ Reports(rp.what, jnl)
  <2>1. CASE rp.op = "pointerless"
    <3>1. PointerlessAt(rp, drv, tx, jnl, stage) /\ Purpose(rp)
      BY <2>1, Here DEF RootSound, Kept, RootPlaced, Placed
    <3>2. QED
      BY <1>1, <2>1, <3>1 DEF PointerlessAt, Purpose
  <2>2. CASE rp.op = "tail"
    BY <2>2 DEF RootSound, RootPlaced, Placed
  <2>3. QED
    BY <1>1, <2>1, <2>2
<1>6. /\ rp.what = "committed" => jnl.at = "COMMITTED"
      /\ rp.what = "rolled-back" => jnl.at = "ROLLED_BACK"
      /\ rp.what = "prestop-aborted" => Aborted(jnl)
      /\ rp.what \in Told \ {"none"}
  BY <1>5 DEF Reports, Aborted, Told
<1>7. /\ tx' \in TxType /\ (tx.dir => tx'.dir) /\ tx'.lock = tx.lock /\ tx'.ptr = tx.ptr
      /\ tx'.result = tx.result /\ tx'.recovery \in {tx.recovery, rp.what, "torn"}
  BY <1>3, <1>4, <1>6 DEF TxType, Told
<1>8. rp' \in RootType /\ RootPlaced'
  <2>1. CASE rp' = Unwound(rp)
    BY <1>2, <2>1, AlikeSelf, FailsHere DEF OnlyTx
  <2>2. CASE rp' = Advance(rp)
    <3>1. Fares(rp', host', audio', drv', tx', jnl', stage')
      <4>1. CASE rp.op = "pointerless"
        <5>1. rp'.op = "pointerless" /\ rp'.at = 5 /\ rp'.mem = rp.mem /\ rp.mem \in UpdateState
          BY <1>1, <1>4, <2>2, <4>1, PointerlessOn
        <5>2. PointerlessAt(rp, drv, tx, jnl, stage)
          BY <4>1 DEF RootSound, RootPlaced, Placed
        <5>3. PointerlessAt(rp', drv', tx', jnl', stage')
          BY <1>1, <1>2, <1>7, <4>1, <5>1, <5>2 DEF PointerlessAt, OnlyTx
        <5>4. QED
          BY <5>1, <5>3 DEF Fares
      <4>2. CASE rp.op = "tail"
        <5>1. rp'.op = "tail" /\ rp'.what = rp.what
          BY <1>4, <2>2, <4>2, AdvanceIs
        <5>2. Reports(rp'.what, jnl')
          BY <1>2, <4>2, <5>1 DEF RootSound, RootPlaced, Placed, Reports, OnlyTx
        <5>3. QED
          BY <5>1, <5>2 DEF Fares
      <4>3. QED
        BY <1>1, <4>1, <4>2
    <3>2. "aborted" \in rp.done => jnl'.at = "PRESTOP_ABORTED"
      BY <1>2, Here DEF RootSound, Kept, OnlyTx
    <3>3. QED
      BY <1>4, <2>2, <3>1, <3>2, Goes
  <2>3. QED
    BY <1>3, <2>1, <2>2
<1>9. /\ tx'.result = "success" \/ tx'.recovery = "committed" => jnl.at = "COMMITTED"
      /\ tx'.recovery = "rolled-back" => jnl.at = "ROLLED_BACK"
      /\ tx'.recovery = "prestop-aborted" => Aborted(jnl)
  BY <1>6, <1>7 DEF RootSound, ResultsTrue
<1>10. "abort" \in stage => tx'.ptr \notin {"published", "pending"}
  BY <1>7 DEF RootSound, Begun
<1>11. QED
  BY <1>2, <1>7, <1>8, <1>9, <1>10, TxSound DEF OnlyTx
----------------------------------------------------------------------------
(* The state file                                                            *)

\* A process that enters a plan is well placed at its beginning.
LEMMA PlaceEnter ==
  ASSUME NEW r \in RootType, r.kind # "none", NEW op \in Ops, op # "none", NEW q, q = Enter(r, op),
         NEW h, NEW a, NEW d, NEW t, NEW j, NEW g,
         "aborted" \in r.done => j.at = "PRESTOP_ABORTED", Purpose(q), Fares(q, h, a, d, t, j, g)
  PROVE  q \in RootType /\ Placed(q, h, a, d, t, j, g)
<1>1. q \in RootType /\ q.kind = r.kind /\ q.done = r.done /\ DueHere(q) /\ q.at >= 1
  BY EnterIs
<1>2. q.op # "none" => q.at >= 1 /\ q.kind # "none"
  BY <1>1
<1>3. "aborted" \in q.done => j.at = "PRESTOP_ABORTED"
  BY <1>1
<1>4. QED
  BY <1>1, <1>2, <1>3 DEF Placed, Fares

\* An operation that writes the state file.
LEMMA StateSound ==
  ASSUME RootSound, Working,
         UNCHANGED <<host, births, audio, drv, tx, jnl, routes, intact, tries, pin, waiting, out,
                     stage, cut>>,
         st' \in StateFileType, st'.at = "PRESTOP_ABORTED" => Aborted(jnl),
         rp' \in RootType, RootPlaced'
  PROVE  RootStays
<1>1. rp.op # "none"
  BY Here DEF RootSound, Kept
<1>2. Kept'
  <2>1. TypeOK'
    BY DEF RootSound, Kept, Typed, TypeOK, StateFileType
  <2>2. QED
    BY <2>1 DEF RootSound, Kept, Typed, PriorDriverKept
<1>3. JournalTrue' /\ HostKnowing'
  BY DEF RootSound, JournalTrue, HostKnowing
<1>4. Begun'
  BY <1>1 DEF RootSound, Begun
<1>5. ResultsTrue'
  BY DEF RootSound, ResultsTrue, Aborted
<1>6. Lasts(jnl, jnl') /\ Sealed /\ Steady
  BY DEF Lasts, Sealed, Steady
<1>7. QED
  BY <1>2, <1>3, <1>4, <1>5, <1>6 DEF RootStays, RootSound

OnlyState == UNCHANGED <<host, births, audio, drv, tx, jnl, routes, intact, tries, pin, usr,
                         waiting, out, stage, cut>>

\* What such an operation leaves alone.
LEMMA OnlyStateIs == ASSUME Only({"st"}), Same PROVE OnlyState
  BY DEF Only, Keeps, Same, OnlyState

\* What is written into the state file.
LEMMA WrittenState ==
  ASSUME RootSound, NEW s \in UpdateState
  PROVE  write_root_state(s) \in StateFileType /\ write_root_state(s).at = s
<1>1. rp \in RootType
  BY DEF RootSound, Kept, Typed
<1>2. (tx.reserve # "absent") \in BOOLEAN
  OBVIOUS
<1> DEFINE b == tx.reserve # "absent"
<1>3. b \in BOOLEAN /\ write_root_state(s) = [at |-> s, init |-> rp.init, routes |-> rp.routes, reserve |-> b]
  BY <1>2 DEF write_root_state
<1> HIDE DEF b
<1>4. QED
  BY <1>1, <1>3 DEF StateFileType, RootType

\* The process goes on once the state file is written.
LEMMA WriteFares ==
  ASSUME RootSound, Working, At("put") \/ (At("mark") /\ rp.half), OnlyState,
         NEW r \in RootType, r.op = rp.op, r.at = rp.at, r.mem = rp.mem, rp' = Advance(r)
  PROVE  Fares(rp', host', audio', drv', tx', jnl', stage')
<1>1. /\ \/ rp.op = "forward" /\ rp.at \in {6, 9, 14, 18, 20, 22, 24, 26, 28}
         \/ rp.op = "rollback"
         \/ rp.op = "failure"
         \/ rp.op = "prestop" /\ rp.at = 3
         \/ rp.op = "abort" /\ rp.at \in {2, 4}
         \/ rp.op \in {"committed", "rolledBack"} /\ rp.at = 2
         \/ rp.op = "pointerless" /\ rp.at = 3
      /\ OpRecords(rp.op, rp.at, Op) /\ DueHere(rp) /\ rp.at \in 1..Len(PlanOf[rp.op])
  BY Here DEF RootSound, Kept, At, OpSound, OpRecords
<1>2. UNCHANGED <<host, audio, drv, tx, jnl, stage>>
  BY DEF OnlyState
<1>3. CASE rp.op = "forward"
  <2>1. ForwardAt(rp, host, audio, drv, tx, jnl, stage)
    BY <1>3, ForwardHere
  <2>2. rp'.op = "forward" /\ rp'.at = rp.at + 1 /\ rp'.mem = rp.mem
    BY <1>3, <2>1, ForwardOn DEF ForwardAt
  <2>3. rp.at = 28 => jnl.at = "COMMITTED"
    <3>1. SUFFICES ASSUME rp.at = 28 PROVE jnl.at = "COMMITTED"
      OBVIOUS
    <3>2. Op.s = "COMMITTED" /\ rp.half
      BY <1>1, <1>3, <3>1 DEF OpRecords, At
    <3>3. rp.mem = "COMMITTED"
      BY <1>1, <3>2 DEF DueHere, Op
    <3>4. QED
      BY <2>1, <3>1, <3>3 DEF ForwardAt, Clean
  <2>0. rp.at \in {6, 9, 14, 18, 20, 22, 24, 26, 28}
    BY <1>1, <1>3
  <2>4. ForwardAt(rp', host', audio', drv', tx', jnl', stage')
    BY <1>2, <2>0, <2>1, <2>2, <2>3 DEF ForwardAt, Clean
  <2>5. QED
    BY <2>2, <2>4 DEF Fares
<1>4. CASE rp.op = "rollback"
  <2>1. RollbackAt(rp, host, audio, drv, tx, jnl, stage)
    BY <1>4, RollbackKnows
  <2>2. <<rp.at, Op.s>> \in
          {<<2, "CRITICAL_FAILURE">>, <<4, "ROLLBACK_STARTED">>,
           <<7, "FAILED_DRIVER_ARCHIVED">>, <<9, "PRIOR_DRIVER_RESTORED">>,
           <<10, "ROLLBACK_COREAUDIO_RELOAD_INITIATED">>,
           <<12, "ROLLBACK_COREAUDIO_RELOADED">>, <<14, "HOST_REBOOTSTRAPPED">>,
           <<16, "ROLLED_BACK">>} /\ rp.half
    BY <1>1, <1>4 DEF OpRecords, At
  <2>3. rp.mem = Op.s
    BY <1>1, <2>2 DEF DueHere, Op
  <2>4. Fits(r)
    BY <2>2, <2>3 DEF Fits
  <2>5. rp.at \in {2, 4, 7, 9, 10, 12, 14, 16}
    BY <2>2
  <2>6. /\ Clean(r, jnl') /\ "abort" \notin stage'
        /\ rp.at \in 5..12 => Down(host')
        /\ rp.at \in 8..13 => drv'.canonical = "v7"
        /\ rp.at = 11 => Synced(audio', drv')
    BY <1>2, <2>1, <2>5 DEF RollbackAt, Clean
  <2>7. rp'.op = "rollback" /\ RollbackAt(rp', host', audio', drv', tx', jnl', stage')
    BY <1>4, <2>4, <2>6, RollbackOn
  <2>8. QED
    BY <2>7 DEF Fares
<1>5. CASE rp.op = "failure"
  <2>1. rp'.op = "failure"
    BY <1>5, AdvanceIs
  <2>2. QED
    BY <2>1 DEF Fares
<1>6. CASE rp.op \in {"prestop", "abort", "committed", "rolledBack"}
  BY <1>1, <1>2, <1>6, ReportOn
<1>7. CASE rp.op = "pointerless"
  <2>1. rp'.op = "pointerless" /\ rp'.at = 4 /\ rp'.mem = rp.mem /\ rp.mem \in UpdateState
    BY <1>1, <1>7, PointerlessOn
  <2>2. PointerlessAt(rp, drv, tx, jnl, stage)
    BY <1>7 DEF RootSound, RootPlaced, Placed
  <2>3. PointerlessAt(rp', drv', tx', jnl', stage')
    BY <1>1, <1>2, <1>7, <2>1, <2>2 DEF PointerlessAt
  <2>4. QED
    BY <2>1, <2>3 DEF Fares
<1>8. QED
  BY <1>1, <1>3, <1>4, <1>5, <1>6, <1>7

\* The state file says aborted only after the journal does.
LEMMA WriteAborted ==
  ASSUME RootSound, Working, At("put") \/ (At("mark") /\ rp.half), Op.s = "PRESTOP_ABORTED"
  PROVE  Aborted(jnl)
<1>1. /\ \/ rp.op = "prestop" /\ rp.at = 3
         \/ rp.op = "abort" /\ rp.at = 4 /\ Op.do = "put"
         \/ rp.op = "pointerless" /\ rp.at = 3
      /\ DueHere(rp) /\ rp.at \in 1..Len(PlanOf[rp.op])
      /\ "aborted" \in rp.done => jnl.at = "PRESTOP_ABORTED"
  BY Here, CutoverIs DEF RootSound, Kept, At, OpSound, OpRecords
<1>2. CASE rp.op = "prestop"
  BY <1>1, <1>2 DEF RootSound, RootPlaced, Placed, PrestopAt, Aborted
<1>3. CASE rp.op = "abort"
  <2>1. ~rp.half
    BY <1>1, <1>3 DEF DueHere, Op
  <2>2. QED
    BY <1>1, <1>3, <2>1 DEF DueHere, Aborted
<1>4. CASE rp.op = "pointerless"
  BY <1>1, <1>4 DEF RootSound, RootPlaced, Placed, PointerlessAt
<1>5. QED
  BY <1>1, <1>2, <1>3, <1>4

\* The state file is written after the record it repeats.
LEMMA WriteSound ==
  ASSUME RootSound, Working, RootWrite
  PROVE  RootStays
<1>1. At("put") \/ (At("mark") /\ rp.half)
  BY DEF RootWrite
<1>2. OnlyState
  BY OnlyStateIs DEF RootWrite
<1>3. Op.s \in UpdateState
  BY <1>1, Here DEF RootSound, Kept, At, OpSound, OpTyped
<1> DEFINE w == write_root_state(Op.s)
<1>4. \/ st' = w /\ rp' = Advance(Written(rp))
      \/ st' \in {st, w} /\ rp' = Unwound(rp)
  BY DEF RootWrite, Succeeds, Refuses, Breaks
<1>5. w \in StateFileType /\ w.at = Op.s
  BY <1>3, WrittenState
<1> HIDE DEF w
<1>6. st' \in StateFileType /\ (st'.at = "PRESTOP_ABORTED" => Aborted(jnl))
  <2>1. Op.s = "PRESTOP_ABORTED" => Aborted(jnl)
    BY <1>1, WriteAborted
  <2>2. st \in StateFileType /\ (st.at = "PRESTOP_ABORTED" => Aborted(jnl))
    BY DEF RootSound, Kept, Typed, ResultsTrue
  <2>3. QED
    BY <1>4, <1>5, <2>1, <2>2
<1>7. rp' \in RootType /\ RootPlaced'
  <2>1. CASE rp' = Unwound(rp)
    BY <1>2, <2>1, AlikeSelf, FailsHere DEF OnlyState
  <2>2. CASE rp' = Advance(Written(rp))
    <3> DEFINE r == Written(rp)
    <3>1. /\ r \in RootType /\ r.op = rp.op /\ r.kind = rp.kind /\ r.what = rp.what
          /\ r.at = rp.at /\ r.mem = rp.mem /\ ("aborted" \in r.done => "aborted" \in rp.done)
      <4>1. rp \in RootType
        BY DEF RootSound, Kept, Typed
      <4>2. QED
        BY <4>1 DEF Written, RootType, Done
    <3> HIDE DEF r
    <3>2. Fares(rp', host', audio', drv', tx', jnl', stage')
      BY <1>1, <1>2, <2>2, <3>1, WriteFares DEF r
    <3>3. "aborted" \in r.done => jnl'.at = "PRESTOP_ABORTED"
      BY <1>2, <3>1, Here DEF RootSound, Kept, OnlyState
    <3>4. QED
      BY <2>2, <3>1, <3>2, <3>3, Goes DEF r
  <2>3. QED
    BY <1>4, <2>1, <2>2
<1>8. QED
  BY <1>2, <1>6, <1>7, StateSound DEF OnlyState

\* The state file of the intent to stop the host.
LEMMA StopIntentSound ==
  ASSUME RootSound, Working, write_root_state_tracked
  PROVE  RootStays
<1>1. rp.op = "forward" /\ rp.at = 11
  BY Here DEF RootSound, Kept, write_root_state_tracked, At, OpSound, OpPlaced
<1>2. OnlyState
  BY OnlyStateIs DEF write_root_state_tracked
<1> DEFINE w == write_root_state("HOST_STOP_INITIATED")
<1>3. /\ st' \in {st, w}
      /\ \/ rp' = Advance(rp)
         \/ \E op \in {"rollback", "abort"} : rp' = Enter(rp, op)
  BY DEF write_root_state_tracked, Succeeds
<1>4. w \in StateFileType /\ w.at = "HOST_STOP_INITIATED"
  BY WrittenState DEF UpdateState
<1> HIDE DEF w
<1>5. st' \in StateFileType /\ (st'.at = "PRESTOP_ABORTED" => Aborted(jnl))
  BY <1>3, <1>4 DEF RootSound, Kept, Typed, ResultsTrue
<1>6. /\ rp \in RootType /\ rp.kind # "none" /\ Purpose(rp)
      /\ "aborted" \in rp.done => jnl'.at = "PRESTOP_ABORTED"
      /\ ForwardAt(rp, host, audio, drv, tx, jnl, stage)
  BY <1>1, <1>2, Here, ForwardHere DEF RootSound, Kept, OnlyState
<1>7. UNCHANGED <<host, audio, drv, tx, jnl, stage>>
  BY <1>2 DEF OnlyState
<1>8. rp' \in RootType /\ RootPlaced'
  <2>1. CASE rp' = Advance(rp)
    <3>1. rp'.op = "forward" /\ rp'.at = 12 /\ rp'.mem = rp.mem
      BY <1>1, <1>6, <2>1, ForwardOn DEF ForwardAt
    <3>2. ForwardAt(rp', host', audio', drv', tx', jnl', stage')
      BY <1>1, <1>6, <1>7, <3>1 DEF ForwardAt, Clean
    <3>3. Fares(rp', host', audio', drv', tx', jnl', stage')
      BY <3>1, <3>2 DEF Fares
    <3>4. QED
      BY <1>6, <2>1, <3>3, Goes
  <2>2. ASSUME NEW op \in {"rollback", "abort"}, rp' = Enter(rp, op)
        PROVE  rp' \in RootType /\ RootPlaced'
    <3>1. op \in Ops /\ op # "none"
      BY OpsAre
    <3>0. rp.mem \in UpdateState
      BY <1>6 DEF ForwardAt
    <3>2. /\ rp'.op = op /\ rp'.mem = rp.mem /\ rp'.kind = rp.kind /\ rp'.what = rp.what
          /\ op = "rollback" => rp'.at = 1
      <4>1. op = "rollback" => op \in Starting
        BY DEF Starting
      <4>2. op \in Starting => rp'.at = 1
        BY <1>6, <2>2, <3>0, EnterFirst
      <4>3. QED
        BY <1>6, <2>2, <3>1, <4>1, <4>2, EnterIs
    <3>3. Purpose(rp')
      BY <1>1, <1>6, <3>2 DEF Purpose
    <3>4. Fares(rp', host', audio', drv', tx', jnl', stage')
      <4>1. rp.mem \in UpdateState /\ "abort" \notin stage /\ jnl.at \in UpdateState /\ Untouched(drv)
        BY <1>1, <1>6 DEF ForwardAt, Clean
      <4>2. CASE op = "rollback"
        <5>1. RollbackAt(rp', host', audio', drv', tx', jnl', stage')
          BY <1>7, <3>2, <4>1, <4>2 DEF RollbackAt
        <5>2. QED
          BY <3>2, <4>2, <5>1 DEF Fares
      <4>3. CASE op = "abort"
        BY <1>7, <3>2, <4>1, <4>3 DEF Fares
      <4>4. QED
        BY <4>2, <4>3
    <3>5. QED
      BY <1>6, <2>2, <3>1, <3>3, <3>4, PlaceEnter DEF RootPlaced
  <2>3. QED
    BY <1>3, <2>1, <2>2
<1>9. QED
  BY <1>2, <1>5, <1>8, StateSound DEF OnlyState
----------------------------------------------------------------------------
(* The operations on the journal                                             *)

\* The journal changes, and of the transaction's files at most the reserve.
LEMMA JournalSound ==
  ASSUME RootSound, Working,
         UNCHANGED <<host, births, audio, drv, st, routes, intact, tries, pin, waiting, out,
                     stage, cut>>,
         tx' \in TxType, tx'.lock = tx.lock, tx'.dir = tx.dir, tx'.ptr = tx.ptr,
         tx'.result = tx.result, tx'.recovery = tx.recovery,
         jnl' \in JournalType, Truth(Effective(jnl'), audio, drv, jnl'), Lasts(jnl, jnl'),
         tx.dir \/ NoJournal(jnl'), rp' \in RootType, RootPlaced'
  PROVE  RootStays
<1>1. rp.op # "none"
  BY Here DEF RootSound, Kept
<1>2. Kept'
  <2>1. TypeOK'
    BY DEF RootSound, Kept, Typed, TypeOK, TxType, JournalType, JournalAt
  <2>2. QED
    BY <2>1 DEF RootSound, Kept, Typed, PriorDriverKept
<1>3. JournalTrue' /\ HostKnowing'
  BY DEF RootSound, JournalTrue, HostKnowing
<1>4. Begun'
  BY <1>1 DEF RootSound, Begun
<1>5. ResultsTrue'
  BY DEF RootSound, ResultsTrue, Lasts, Terminal
<1>6. Sealed /\ Steady
  BY DEF Sealed, Steady
<1>7. QED
  BY <1>2, <1>3, <1>4, <1>5, <1>6 DEF RootStays, RootSound

OnlyJournal == UNCHANGED <<host, births, audio, drv, tx, st, routes, intact, tries, pin, usr,
                           waiting, out, stage, cut>>

\* What an operation on the journal leaves alone.
LEMMA OnlyJournalIs == ASSUME Only({"jnl"}), Same PROVE OnlyJournal
  BY DEF Only, Keeps, Same, OnlyJournal

\* A journal that has something in it lies in the transaction's directory.
LEMMA Directory ==
  ASSUME RootSound, jnl.at # "absent"
  PROVE  tx.dir
  BY DEF RootSound, Begun, NoJournal

\* An unchanged transaction keeps its parts.
LEMMA TxKept ==
  ASSUME RootSound, UNCHANGED tx
  PROVE  /\ tx' \in TxType /\ tx'.lock = tx.lock /\ tx'.dir = tx.dir /\ tx'.ptr = tx.ptr
         /\ tx'.result = tx.result /\ tx'.recovery = tx.recovery
  BY DEF RootSound, Kept, Typed

\* What must be true of the machine before a state is recorded.
Ready(s, a, d) ==
    /\ s \in Back \cup {"HOST_REBOOTSTRAPPED", "ROLLED_BACK", "PRESTOP_ABORTED"} =>
         d.canonical = "v7"
    /\ s = "PRESTOP_ABORTED" => d.prior = "none" /\ d.failed = "none"
    /\ s = "COMMITTED" => d.canonical = "candidate" /\ d.prior = "v7"
    /\ s = "ROLLBACK_COREAUDIO_RELOADED" => Synced(a, d)

\* A journal that says the same stays true of the machine.
LEMMA StillTrue ==
  ASSUME RootSound, NEW k, Effective(k) = Effective(jnl), k.old = jnl.old
  PROVE  Truth(Effective(k), audio, drv, k)
  BY DEF RootSound, JournalTrue, Truth

\* A record written when the machine is ready for it is true of the machine.
LEMMA NowTrue ==
  ASSUME RootSound, NEW s, Ready(s, audio, drv), NEW k, Effective(k) = s,
         s = "ROLLBACK_COREAUDIO_RELOAD_INITIATED" => k.old = audio.gen
  PROVE  Truth(Effective(k), audio, drv, k)
<1>1. audio.gen \in Nat
  BY DEF RootSound, Kept, Typed, TypeOK
<1>2. QED
  BY <1>1 DEF Ready, Truth, Back

\* A settled journal, or one cut off in its creation, takes no record.
LEMMA Unsettled ==
  ASSUME RootSound, NEW s, record_admissible(jnl, s)
  PROVE  jnl.at \in UpdateState \ Terminal /\ Effective(jnl) \in UpdateState
<1>1. jnl \in JournalType
  BY DEF RootSound, Kept, Typed
<1>2. reconcile(jnl).at = Effective(jnl)
  BY <1>1, ReconcileIs
<1>3. Effective(jnl) \in UpdateState \ Terminal
  BY <1>2, ValidFrom DEF record_admissible
<1>4. QED
  BY <1>1, <1>3, EffectiveIs

\* The reconciliation keeps what is settled and what is true.
LEMMA ReconcileLasts ==
  ASSUME RootSound, NEW k, k = reconcile(jnl)
  PROVE  /\ k \in JournalType /\ k.at = Effective(jnl) /\ Lasts(jnl, k)
         /\ ~Diverged(jnl) => k.pend = "none"
         /\ Truth(Effective(k), audio, drv, k) /\ (tx.dir \/ NoJournal(k))
         /\ k.at \in UpdateState <=> jnl.at \in UpdateState
<1>1. jnl \in JournalType
  BY DEF RootSound, Kept, Typed
<1>2. /\ k \in JournalType /\ k.at = Effective(jnl) /\ k.old = jnl.old
      /\ Effective(k) = Effective(jnl) /\ (~Diverged(jnl) => k.pend = "none")
  BY <1>1, ReconcileIs
<1>3. /\ jnl.at \in Terminal \cup {"absent", "partial"} => Effective(jnl) = jnl.at
      /\ Effective(jnl) \in UpdateState <=> jnl.at \in UpdateState
  BY <1>1, EffectiveIs
<1>4. Lasts(jnl, k)
  BY <1>2, <1>3 DEF Lasts, Aborted, Terminal
<1>5. tx.dir \/ NoJournal(k)
  <2>1. tx.dir \/ NoJournal(jnl)
    BY DEF RootSound, Begun
  <2>2. NoJournal(jnl) => ~Diverged(jnl)
    BY ClassifyIs DEF NoJournal
  <2>3. QED
    BY <1>2, <1>3, <2>1, <2>2 DEF NoJournal
<1>6. QED
  BY <1>2, <1>3, <1>4, <1>5, StillTrue

RecordNow == At("note") \/ (At("mark") /\ ~rp.half)

\* A rollback is recorded only after the host was started again.
LEMMA RolledBackFrom == PlanOf["rollback"][16].from = {"HOST_REBOOTSTRAPPED"}
  BY PlansAre DEF rollback_root_transaction, Mark

\* A record of a transaction in progress claims nothing of the machine.
LEMMA PlainReady ==
  ASSUME NEW s \in (CutoverStates \ {"COMMITTED"}) \cup
                   {"CRITICAL_FAILURE", "ROLLBACK_STARTED", "FAILED_DRIVER_ARCHIVED"}
  PROVE  \A a, d : Ready(s, a, d)
  BY CutoverIs DEF Ready, Back

\* A record of a rollback claims that the v7 driver is back.
LEMMA BackReady ==
  ASSUME NEW s \in Back \cup {"HOST_REBOOTSTRAPPED", "ROLLED_BACK"}, NEW a, NEW d,
         d.canonical = "v7", s = "ROLLBACK_COREAUDIO_RELOADED" => Synced(a, d)
  PROVE  Ready(s, a, d)
  BY DEF Ready, Back

\* Every record of a plan is true when its turn comes.
LEMMA RecordReady ==
  ASSUME RootSound, Working, RecordNow
  PROVE  Ready(Op.s, audio, drv) /\ Op.s \in UpdateState
<1>1. OpTyped(Op) /\ OpRecords(rp.op, rp.at, Op) /\ DueHere(rp) /\ rp.at \in 1..Len(PlanOf[rp.op])
  BY Here DEF RootSound, Kept, OpSound
<1>2. Op.s \in UpdateState
  BY <1>1 DEF OpTyped, RecordNow, At
<1> SUFFICES Ready(Op.s, audio, drv)
  BY <1>2
<1>3. ASSUME Op.s \in CutoverStates \ {"COMMITTED"} PROVE Ready(Op.s, audio, drv)
  BY <1>3, PlainReady
<1>4. CASE rp.op = "forward" /\ rp.at = 28 /\ Op.s = "COMMITTED"
  <2>1. ForwardAt(rp, host, audio, drv, tx, jnl, stage)
    BY <1>4, ForwardHere
  <2>2. drv.canonical = "candidate" /\ drv.prior = "v7"
    BY <1>4, <2>1 DEF ForwardAt
  <2>3. Ready("COMMITTED", audio, drv)
    BY <2>2 DEF Ready, Back
  <2>4. QED
    BY <1>4, <2>3
<1>5. CASE rp.op \in {"prestop", "abort"}
  <2>1. (rp.op = "prestop" /\ rp.at = 2) \/ rp.op = "abort"
    BY <1>1, <1>5 DEF OpRecords, RecordNow, At
  <2>2. Untouched(drv)
    BY <2>1 DEF RootSound, RootPlaced, Placed, PrestopAt
  <2>3. Op.s = "PRESTOP_ABORTED"
    BY <1>1, <1>5 DEF OpRecords, RecordNow, At
  <2>4. Ready("PRESTOP_ABORTED", audio, drv)
    BY <2>2 DEF Ready, Untouched
  <2>5. QED
    BY <2>3, <2>4
<1>6. CASE rp.op = "rollback"
  <2>1. At("mark") /\ ~rp.half
    BY <1>1, <1>6 DEF OpRecords, RecordNow, At
  <2>2. <<rp.at, Op.s>> \in
          {<<2, "CRITICAL_FAILURE">>, <<4, "ROLLBACK_STARTED">>,
           <<7, "FAILED_DRIVER_ARCHIVED">>, <<9, "PRIOR_DRIVER_RESTORED">>,
           <<10, "ROLLBACK_COREAUDIO_RELOAD_INITIATED">>,
           <<12, "ROLLBACK_COREAUDIO_RELOADED">>, <<14, "HOST_REBOOTSTRAPPED">>,
           <<16, "ROLLED_BACK">>}
    BY <1>1, <1>6, <2>1 DEF OpRecords, At
  <2>3. RollbackAt(rp, host, audio, drv, tx, jnl, stage)
    BY <1>6, RollbackHere
  <2>4. CASE Op.s = "ROLLED_BACK"
    <3>1. rp.at = 16
      BY <2>2, <2>4
    <3>2. rp.mem = "HOST_REBOOTSTRAPPED" /\ Clean(rp, jnl)
      BY <1>1, <1>6, <2>1, <2>3, <3>1, RolledBackFrom DEF DueHere, RollbackAt
    <3>3. Effective(jnl) = "HOST_REBOOTSTRAPPED"
      BY <3>2, EffectiveIs DEF Clean, RootSound, Kept, Typed
    <3>4. drv.canonical = "v7"
      BY <3>3 DEF RootSound, JournalTrue, Truth
    <3>5. QED
      BY <2>4, <3>4, BackReady
  <2>5. CASE Op.s \in Back \cup {"HOST_REBOOTSTRAPPED"}
    <3>1. rp.at \in {9, 10, 12, 14} /\ (Op.s = "ROLLBACK_COREAUDIO_RELOADED" => rp.at = 12)
      BY <2>2, <2>5 DEF Back
    <3>2. /\ drv.canonical = "v7"
          /\ Op.s = "ROLLBACK_COREAUDIO_RELOADED" => Synced(audio, drv)
      BY <2>3, <3>1 DEF RollbackAt
    <3>3. QED
      BY <2>5, <3>2, BackReady
  <2>6. CASE Op.s \in {"CRITICAL_FAILURE", "ROLLBACK_STARTED", "FAILED_DRIVER_ARCHIVED"}
    BY <2>6, PlainReady
  <2>7. QED
    BY <2>2, <2>4, <2>5, <2>6 DEF Back
<1>7. CASE rp.op = "failure"
  <2>1. Op.s = "CRITICAL_FAILURE"
    BY <1>1, <1>7 DEF OpRecords, RecordNow, At
  <2>2. QED
    BY <2>1, PlainReady
<1>8. \/ Op.s \in CutoverStates \ {"COMMITTED"}
      \/ rp.op = "forward" /\ rp.at = 28 /\ Op.s = "COMMITTED"
      \/ rp.op \in {"prestop", "abort", "rollback", "failure"}
  BY <1>1 DEF OpRecords, RecordNow, At
<1>9. QED
  BY <1>2, <1>3, <1>4, <1>5, <1>6, <1>7, <1>8
\* A process that has noticed what the journal says.
LEMMA NoticedIs ==
  ASSUME RootSound, Working, NEW m \in JournalAt, NEW j \in JournalType, Lasts(jnl, j),
         NEW r, r = Noticed([rp EXCEPT !.mem = m], j)
  PROVE  /\ r \in RootType /\ r.op = rp.op /\ r.at = rp.at /\ r.kind = rp.kind
         /\ r.what = rp.what /\ r.mem = m /\ r.half = rp.half
         /\ "aborted" \in r.done => j.at = "PRESTOP_ABORTED"
<1> DEFINE p == [rp EXCEPT !.mem = m]
<1>1. rp \in RootType
  BY DEF RootSound, Kept, Typed
<1>2. /\ p \in RootType /\ p.op = rp.op /\ p.at = rp.at /\ p.kind = rp.kind
      /\ p.what = rp.what /\ p.mem = m /\ p.half = rp.half /\ p.done = rp.done
  BY <1>1 DEF RootType
<1>3. "aborted" \in rp.done => j.at = "PRESTOP_ABORTED"
  BY Here DEF RootSound, Kept, Lasts, Terminal
<1>4. r = Noticed(p, j)
  OBVIOUS
<1> HIDE DEF p
<1>5. CASE p.op = "abort" /\ j.at = "PRESTOP_ABORTED"
  <2> DEFINE q == [p EXCEPT !.done = @ \cup {"aborted"}]
  <2>1. /\ q \in RootType /\ q.op = p.op /\ q.at = p.at /\ q.kind = p.kind
        /\ q.what = p.what /\ q.mem = p.mem /\ q.half = p.half
    BY <1>2 DEF RootType, Done
  <2>2. r = q
    BY <1>4, <1>5 DEF Noticed
  <2> HIDE DEF q
  <2>3. QED
    BY <1>2, <1>5, <2>1, <2>2
<1>6. CASE ~(p.op = "abort" /\ j.at = "PRESTOP_ABORTED")
  <2>1. r = p
    BY <1>4, <1>6 DEF Noticed
  <2>2. QED
    BY <1>2, <1>3, <2>1
<1>7. QED
  BY <1>5, <1>6

\* The place of a process whose record was refused or failed.
LEMMA RecordFails ==
  ASSUME RootSound, Working, RecordNow, OnlyJournal, NEW r \in RootType, r.op = rp.op,
         r.at = rp.at, r.kind = rp.kind, r.what = rp.what,
         r.mem = jnl'.at \/ r.mem = Effective(jnl), jnl' \in JournalType,
         jnl.at \in UpdateState => jnl'.at \in UpdateState,
         "aborted" \in r.done => jnl'.at = "PRESTOP_ABORTED", rp' = Unwound(r)
  PROVE  rp' \in RootType /\ RootPlaced'
<1>1. /\ rp.op # "none" /\ rp.kind # "none" /\ Purpose(rp) /\ rp.at \in 1..Len(PlanOf[rp.op])
      /\ OpRecords(rp.op, rp.at, Op)
  BY Here DEF RootSound, Kept, OpSound
<1>2. r.op # "none" /\ r.kind # "none" /\ Purpose(r)
  BY <1>1 DEF Purpose
<1>3. ASSUME rp.op = "forward"
      PROVE  /\ r.mem \in UpdateState /\ rp.at \notin 9..10 /\ "abort" \notin stage'
             /\ jnl'.at \in UpdateState
  <2>1. rp.at \in {6, 12, 14, 16, 18, 20, 22, 24, 26, 28}
    BY <1>1, <1>3 DEF OpRecords, RecordNow, At
  <2>2. ForwardAt(rp, host, audio, drv, tx, jnl, stage)
    BY <1>3, ForwardHere
  <2>3. jnl.at \in UpdateState /\ "abort" \notin stage
    BY <2>1, <2>2 DEF ForwardAt, Clean
  <2>4. Effective(jnl) \in UpdateState
    BY <2>3, EffectiveIs DEF RootSound, Kept, Typed
  <2>5. QED
    BY <2>1, <2>3, <2>4 DEF OnlyJournal
<1>4. rp.op = "abort" => Untouched(drv')
  BY DEF RootSound, RootPlaced, Placed, OnlyJournal
<1>5. /\ r.op = "forward" /\ r.at >= 8 => r.mem \in UpdateState
      /\ r.op = "forward" /\ r.at \in 9..10 => Untouched(drv')
      /\ r.op = "forward" /\ r.at >= 11 => "abort" \notin stage' /\ jnl'.at \in UpdateState
      /\ r.op = "abort" => Untouched(drv')
  BY <1>3, <1>4
<1>6. rp' \in RootType /\ Placed(rp', host', audio', drv', tx', jnl', stage')
  BY <1>2, <1>5, PlaceUnwound
<1>7. QED
  BY <1>6 DEF RootPlaced

\* The place of a process that has made a record and has its state file to write.
LEMMA MarkPlaced ==
  ASSUME RootSound, Working, At("mark"), ~rp.half, OnlyJournal, NEW r \in RootType, r.op = rp.op,
         r.at = rp.at, r.kind = rp.kind, r.what = rp.what, r.mem = Op.s, jnl'.at = Op.s,
         jnl'.pend = "none", Op.s \in UpdateState,
         "aborted" \in r.done => jnl'.at = "PRESTOP_ABORTED", rp' = [r EXCEPT !.half = TRUE]
  PROVE  rp' \in RootType /\ RootPlaced'
<1>1. /\ rp.op # "none" /\ rp.kind # "none" /\ Purpose(rp) /\ rp.at \in 1..Len(PlanOf[rp.op])
      /\ OpRecords(rp.op, rp.at, Op)
  BY Here DEF RootSound, Kept, OpSound
<1>2. /\ rp' \in RootType /\ rp'.op = rp.op /\ rp'.at = rp.at /\ rp'.kind = rp.kind
      /\ rp'.what = rp.what /\ rp'.mem = Op.s /\ rp'.done = r.done /\ rp'.half
  BY DEF RootType
<1>3. UNCHANGED <<host, audio, drv, tx, stage>>
  BY DEF OnlyJournal
<1>4. DueHere(rp')
  <2>1. rp'.half /\ PlanOf[rp'.op][rp'.at].do = "mark" /\ rp'.mem = PlanOf[rp'.op][rp'.at].s
    BY <1>2 DEF At, Op
  <2>2. QED
    BY <2>1 DEF DueHere
<1>5. Purpose(rp')
  BY <1>1, <1>2 DEF Purpose
<1>6. rp'.op = "forward" => ForwardAt(rp', host', audio', drv', tx', jnl', stage')
  <2>1. SUFFICES ASSUME rp.op = "forward"
                 PROVE  ForwardAt(rp', host', audio', drv', tx', jnl', stage')
    BY <1>2
  <2>2. /\ rp.at \in {6, 14, 18, 20, 22, 24, 26, 28} /\ Op.s \in CutoverStates
        /\ rp.at # 28 => Op.s # "COMMITTED"
    BY <1>1, <2>1, CutoverIs DEF OpRecords, At
  <2>3. ForwardAt(rp, host, audio, drv, tx, jnl, stage)
    BY <2>1, ForwardHere
  <2>4. Clean(rp', jnl') /\ jnl'.at \in CutoverStates /\ (rp'.at # 28 => jnl'.at # "COMMITTED")
    BY <1>2, <2>2 DEF Clean
  <2>5. rp'.at \in {6, 14, 18, 20, 22, 24, 26, 28} /\ rp'.mem \in UpdateState
    BY <1>2, <2>2
  <2>6. QED
    BY <1>2, <1>3, <2>3, <2>4, <2>5 DEF ForwardAt
<1>7. rp'.op = "rollback" => RollbackAt(rp', host', audio', drv', tx', jnl', stage')
  <2>1. SUFFICES ASSUME rp.op = "rollback"
                 PROVE  RollbackAt(rp', host', audio', drv', tx', jnl', stage')
    BY <1>2
  <2>2. rp.at # 17
    BY <1>1, <2>1 DEF OpRecords, At
  <2>3. RollbackAt(rp, host, audio, drv, tx, jnl, stage) /\ rp.at \in 1..17
    BY <2>1, RollbackKnows
  <2>4. Clean(rp', jnl') /\ rp'.mem \in UpdateState /\ jnl'.at \in UpdateState
    BY <1>2 DEF Clean
  <2>5. QED
    BY <1>2, <1>3, <2>2, <2>3, <2>4 DEF RollbackAt
<1>8. rp.op \in {"forward", "rollback", "failure"}
  BY <1>1 DEF OpRecords, At
<1>9. Placed(rp', host', audio', drv', tx', jnl', stage')
  BY <1>1, <1>2, <1>4, <1>5, <1>6, <1>7, <1>8 DEF Placed, RootType
<1>10. QED
  BY <1>2, <1>9 DEF RootPlaced

\* The place of a process that has made a record of the journal alone.
LEMMA NotePlaced ==
  ASSUME RootSound, Working, At("note"), OnlyJournal, NEW r \in RootType, r.op = rp.op,
         r.at = rp.at, r.kind = rp.kind, r.what = rp.what, r.mem = Op.s, jnl'.at = Op.s,
         jnl'.pend = "none", Op.s \in UpdateState,
         "aborted" \in r.done => jnl'.at = "PRESTOP_ABORTED", rp' = Advance(r)
  PROVE  rp' \in RootType /\ RootPlaced'
<1>1. /\ \/ rp.op = "forward" /\ rp.at \in {12, 16} /\ Op.s \in CutoverStates \ {"COMMITTED"}
         \/ rp.op = "prestop" /\ rp.at = 2 /\ Op.s = "PRESTOP_ABORTED"
         \/ rp.op = "abort" /\ rp.at = 3 /\ Op.s = "PRESTOP_ABORTED"
  BY Here DEF RootSound, Kept, OpSound, OpRecords, At
<1>2. UNCHANGED <<host, audio, drv, tx, stage>>
  BY DEF OnlyJournal
<1>3. rp'.op = rp.op /\ rp'.mem = Op.s /\ rp' \in RootType
  BY AdvanceIs
<1>4. Fares(rp', host', audio', drv', tx', jnl', stage')
  <2>1. CASE rp.op = "forward"
    <3>1. rp.at \in {12, 16} /\ Op.s \in CutoverStates \ {"COMMITTED"}
      BY <1>1, <2>1
    <3>2. rp'.at = rp.at + 1
      BY <2>1, ForwardOn
    <3>3. ForwardAt(rp, host, audio, drv, tx, jnl, stage)
      BY <2>1, ForwardHere
    <3>4. /\ Clean(rp', jnl') /\ jnl'.at \in CutoverStates /\ jnl'.at # "COMMITTED"
          /\ rp'.mem \in UpdateState
      BY <1>3, <3>1 DEF Clean
    <3>5. ForwardAt(rp', host', audio', drv', tx', jnl', stage')
      BY <1>2, <3>1, <3>2, <3>3, <3>4 DEF ForwardAt
    <3>6. QED
      BY <1>3, <2>1, <3>5 DEF Fares
  <2>2. CASE rp.op = "prestop"
    <3>1. rp.at = 2 /\ Op.s = "PRESTOP_ABORTED" /\ PrestopAt(rp, drv, jnl)
      BY <1>1, <2>2 DEF RootSound, RootPlaced, Placed
    <3>2. Untouched(drv') /\ Clean(rp', jnl') /\ jnl'.at = "PRESTOP_ABORTED"
      BY <1>2, <1>3, <3>1 DEF PrestopAt, Clean
    <3>3. PrestopAt(rp', drv', jnl')
      BY <1>3, <3>2 DEF PrestopAt
    <3>4. QED
      BY <1>3, <2>2, <3>3 DEF Fares
  <2>3. CASE rp.op = "abort"
    BY <1>2, <1>3, <2>3 DEF Fares, RootSound, RootPlaced, Placed
  <2>4. QED
    BY <1>1, <2>1, <2>2, <2>3
<1>5. QED
  BY <1>4, Goes
\* A record of the journal, whether it succeeds or not.
LEMMA RecordSound ==
  ASSUME RootSound, Working, RootRecord
  PROVE  RootStays
<1>1. RecordNow
  BY DEF RootRecord, RecordNow
<1>2. OnlyJournal
  BY OnlyJournalIs DEF RootRecord
<1>3. Ready(Op.s, audio, drv) /\ Op.s \in UpdateState
  BY <1>1, RecordReady
<1>4. jnl \in JournalType /\ audio.gen \in Nat
  BY DEF RootSound, Kept, Typed, TypeOK
<1> DEFINE Told1(j) == /\ j \in JournalType /\ Truth(Effective(j), audio, drv, j)
                       /\ Lasts(jnl, j) /\ (tx.dir \/ NoJournal(j))
                       /\ jnl.at \in UpdateState => j.at \in UpdateState
<1>5. Told1(reconcile(jnl)) /\ reconcile(jnl).at = Effective(jnl)
  BY ReconcileLasts
<1>6. ASSUME record_admissible(jnl, Op.s)
      PROVE  /\ jnl.at \in UpdateState \ Terminal /\ tx.dir
             /\ \A j : Lasts(jnl, j)
  <2>1. jnl.at \in UpdateState \ Terminal
    BY <1>6, Unsettled
  <2>2. jnl.at # "absent" /\ ~Aborted(jnl)
    BY <2>1 DEF UpdateState, Terminal, Aborted
  <2>3. QED
    BY <2>1, <2>2, Directory DEF Lasts
<1>7. ASSUME record_admissible(jnl, Op.s), NEW k, k = record(jnl, Op.s)
      PROVE  Told1(k) /\ k.at = Op.s /\ k.pend = "none"
  <2>1. /\ k \in JournalType /\ k.at = Op.s /\ k.pend = "none" /\ Effective(k) = Op.s
        /\ Op.s = "ROLLBACK_COREAUDIO_RELOAD_INITIATED" => k.old = audio.gen
    BY <1>3, <1>4, <1>7, RecordIs
  <2>2. Truth(Effective(k), audio, drv, k)
    BY <1>3, <2>1, NowTrue
  <2>3. QED
    BY <1>3, <1>6, <1>7, <2>1, <2>2
<1>8. ASSUME record_admissible(jnl, Op.s), NEW k \in record_failures(jnl, Op.s)
      PROVE  Told1(k) /\ Told1(reconcile(k))
  <2>1. /\ k \in JournalType /\ k.at \in {Effective(jnl), Op.s}
        /\ \/ Effective(k) = Effective(jnl) /\ k.old = jnl.old
           \/ Effective(k) = Op.s
              /\ (Op.s = "ROLLBACK_COREAUDIO_RELOAD_INITIATED" => k.old = audio.gen)
    BY <1>3, <1>4, <1>8, FailedRecordIs
  <2>2. Effective(jnl) \in UpdateState
    BY <1>8, Unsettled
  <2>3. Truth(Effective(k), audio, drv, k)
    BY <1>3, <2>1, StillTrue, NowTrue
  <2>4. Told1(k)
    BY <1>3, <1>6, <1>8, <2>1, <2>2, <2>3
  <2>5. /\ reconcile(k) \in JournalType /\ reconcile(k).at = Effective(k)
        /\ reconcile(k).old = k.old /\ Effective(reconcile(k)) = Effective(k)
    BY <2>1, ReconcileIs
  <2>6. Effective(k) \in UpdateState
    BY <1>3, <2>1, <2>2
  <2>7. Truth(Effective(reconcile(k)), audio, drv, reconcile(k))
    BY <2>3, <2>5 DEF Truth
  <2>8. QED
    BY <1>6, <1>8, <2>4, <2>5, <2>6, <2>7
<1>9. \/ /\ record_admissible(jnl, Op.s) /\ jnl' = record(jnl, Op.s)
         /\ LET r == Noticed([rp EXCEPT !.mem = Op.s], jnl')
            IN  rp' = IF Op.do = "mark" THEN [r EXCEPT !.half = TRUE] ELSE Advance(r)
      \/ /\ jnl' = reconcile(jnl)
         /\ rp' = Unwound(Noticed([rp EXCEPT !.mem = jnl'.at], jnl'))
      \/ /\ record_admissible(jnl, Op.s)
         /\ \E j \in record_failures(jnl, Op.s) :
              /\ jnl' = IF rp.op = "abort" THEN reconcile(j) ELSE j
              /\ rp' = Unwound(Noticed([rp EXCEPT !.mem = IF rp.op = "abort" THEN jnl'.at
                                                          ELSE reconcile(jnl).at], jnl'))
  BY DEF RootRecord, Refuses, Breaks
<1>10. Told1(jnl')
  BY <1>5, <1>7, <1>8, <1>9
<1>11. /\ jnl' \in JournalType /\ Lasts(jnl, jnl')
       /\ jnl.at \in UpdateState => jnl'.at \in UpdateState
  BY <1>10
<1>12. ASSUME NEW m \in {jnl'.at, Effective(jnl)}, rp' = Unwound(Noticed([rp EXCEPT !.mem = m], jnl'))
       PROVE  rp' \in RootType /\ RootPlaced'
  <2> DEFINE r == Noticed([rp EXCEPT !.mem = m], jnl')
  <2>1. m \in JournalAt
    BY <1>4, <1>11, <1>12, EffectiveIs DEF JournalType
  <2>2. /\ r \in RootType /\ r.op = rp.op /\ r.at = rp.at /\ r.kind = rp.kind
        /\ r.what = rp.what /\ r.mem = m
        /\ "aborted" \in r.done => jnl'.at = "PRESTOP_ABORTED"
    BY <1>11, <2>1, NoticedIs
  <2>3. rp' = Unwound(r)
    BY <1>12
  <2> HIDE DEF r
  <2>4. QED
    BY <1>1, <1>2, <1>11, <1>12, <2>2, <2>3, RecordFails
<1>13. rp' \in RootType /\ RootPlaced'
  <2>1. CASE /\ record_admissible(jnl, Op.s) /\ jnl' = record(jnl, Op.s)
             /\ LET r == Noticed([rp EXCEPT !.mem = Op.s], jnl')
                IN  rp' = IF Op.do = "mark" THEN [r EXCEPT !.half = TRUE] ELSE Advance(r)
    <3> DEFINE r == Noticed([rp EXCEPT !.mem = Op.s], jnl')
    <3>1. jnl'.at = Op.s /\ jnl'.pend = "none" /\ Op.s \in JournalAt
      BY <1>3, <1>7, <2>1 DEF JournalAt
    <3>2. /\ r \in RootType /\ r.op = rp.op /\ r.at = rp.at /\ r.kind = rp.kind
          /\ r.what = rp.what /\ r.mem = Op.s
          /\ "aborted" \in r.done => jnl'.at = "PRESTOP_ABORTED"
      BY <1>11, <3>1, NoticedIs
    <3>3. rp' = IF Op.do = "mark" THEN [r EXCEPT !.half = TRUE] ELSE Advance(r)
      BY <2>1
    <3> HIDE DEF r
    <3>4. CASE Op.do = "mark"
      <4>1. At("mark") /\ ~rp.half /\ rp' = [r EXCEPT !.half = TRUE]
        BY <1>1, <3>3, <3>4 DEF RecordNow, At
      <4>2. QED
        BY <1>2, <1>3, <3>1, <3>2, <4>1, MarkPlaced
    <3>5. CASE Op.do # "mark"
      <4>1. At("note") /\ rp' = Advance(r)
        BY <1>1, <3>3, <3>5 DEF RecordNow, At
      <4>2. QED
        BY <1>2, <1>3, <3>1, <3>2, <4>1, NotePlaced
    <3>6. QED
      BY <3>4, <3>5
  <2>2. CASE /\ jnl' = reconcile(jnl)
             /\ rp' = Unwound(Noticed([rp EXCEPT !.mem = jnl'.at], jnl'))
    BY <1>12, <2>2
  <2>3. CASE /\ record_admissible(jnl, Op.s)
             /\ \E j \in record_failures(jnl, Op.s) :
                  /\ jnl' = IF rp.op = "abort" THEN reconcile(j) ELSE j
                  /\ rp' = Unwound(Noticed([rp EXCEPT !.mem = IF rp.op = "abort" THEN jnl'.at
                                                              ELSE reconcile(jnl).at], jnl'))
    BY <1>5, <1>12, <2>3
  <2>4. QED
    BY <1>9, <2>1, <2>2, <2>3
<1>14. /\ tx' \in TxType /\ tx'.lock = tx.lock /\ tx'.dir = tx.dir /\ tx'.ptr = tx.ptr
       /\ tx'.result = tx.result /\ tx'.recovery = tx.recovery
  BY <1>2, TxKept DEF OnlyJournal
<1>15. QED
  BY <1>2, <1>10, <1>13, <1>14, JournalSound DEF OnlyJournal
\* The journal is created, or cut off in its creation.
LEMMA CreateSound ==
  ASSUME RootSound, Working, RootCreate
  PROVE  RootStays
<1> DEFINE r == [rp EXCEPT !.mem = "BEGUN"]
<1>1. rp.op = "forward" /\ rp.at = 3
  BY Here DEF RootSound, Kept, RootCreate, At, OpSound, OpPlaced
<1>2. OnlyJournal
  BY OnlyJournalIs DEF RootCreate
<1>3. \/ jnl' = [jnl EXCEPT !.at = "BEGUN"] /\ rp' = Advance(r)
      \/ (\E s \in {"absent", "partial", "BEGUN"} : jnl' = [jnl EXCEPT !.at = s]) /\ rp' = Unwound(rp)
  BY DEF RootCreate, Succeeds, Breaks
<1>4. rp \in RootType /\ jnl \in JournalType
  BY DEF RootSound, Kept, Typed
<1>5. /\ r \in RootType /\ r.op = rp.op /\ r.at = rp.at /\ r.kind = rp.kind /\ r.what = rp.what
      /\ r.mem = "BEGUN" /\ r.done = rp.done
  BY <1>4 DEF RootType, JournalAt, UpdateState
<1> HIDE DEF r
<1>6. ForwardAt(rp, host, audio, drv, tx, jnl, stage)
  BY <1>1, ForwardHere
<1>7. tx.dir /\ jnl.at = "absent" /\ jnl.pend = "none" /\ "aborted" \notin rp.done
  BY <1>1, <1>6, Here DEF ForwardAt, NoJournal, RootSound, Kept
<1>8. /\ jnl' \in JournalType /\ jnl'.at \in {"absent", "partial", "BEGUN"} /\ jnl'.pend = "none"
      /\ rp' = Advance(r) => jnl'.at = "BEGUN"
      /\ rp' = Advance(r) \/ rp' = Unwound(rp)
  <2>1. CASE jnl' = [jnl EXCEPT !.at = "BEGUN"] /\ rp' = Advance(r)
    BY <1>4, <1>7, <2>1 DEF JournalType, JournalAt, UpdateState
  <2>2. CASE (\E s \in {"absent", "partial", "BEGUN"} : jnl' = [jnl EXCEPT !.at = s]) /\ rp' = Unwound(rp)
    <3>1. Advance(r).op = "forward"
      BY <1>1, <1>5, AdvanceIs
    <3>2. Unwound(rp).op = "over"
      <4>1. ErrorPath(rp) = "over"
        BY <1>1 DEF ErrorPath
      <4>2. QED
        BY <1>1, <1>4, <4>1, UnwoundIs
    <3>3. rp' # Advance(r)
      BY <2>2, <3>1, <3>2
    <3>4. QED
      BY <1>4, <1>7, <2>2, <3>3 DEF JournalType, JournalAt, UpdateState
  <2>3. QED
    BY <1>3, <2>1, <2>2
<1>9. Truth(Effective(jnl'), audio, drv, jnl')
  <2>1. Effective(jnl') = jnl'.at
    BY <1>8, EffectiveIs
  <2>2. QED
    BY <1>8, <2>1 DEF Truth, Back
<1>10. Lasts(jnl, jnl')
  BY <1>7 DEF Lasts, Terminal, Aborted
<1>11. rp' \in RootType /\ RootPlaced'
  <2>1. CASE rp' = Advance(r)
    <3>1. rp'.op = "forward" /\ rp'.at = 4 /\ rp'.mem = "BEGUN"
      BY <1>1, <1>5, <2>1, ForwardOn DEF UpdateState
    <3>2. Clean(rp', jnl')
      BY <1>8, <2>1, <3>1 DEF Clean, UpdateState
    <3>3. ForwardAt(rp', host', audio', drv', tx', jnl', stage')
      BY <1>1, <1>2, <1>6, <1>8, <2>1, <3>1, <3>2 DEF ForwardAt, OnlyJournal, UpdateState
    <3>4. Fares(rp', host', audio', drv', tx', jnl', stage')
      BY <3>1, <3>3 DEF Fares
    <3>5. QED
      BY <1>5, <1>7, <2>1, <3>4, Goes
  <2>2. CASE rp' = Unwound(rp)
    BY <1>1, <1>7, <2>2, AlikeSelf, Fails
  <2>3. QED
    BY <1>8, <2>1, <2>2
<1>12. /\ tx' \in TxType /\ tx'.lock = tx.lock /\ tx'.dir = tx.dir /\ tx'.ptr = tx.ptr
       /\ tx'.result = tx.result /\ tx'.recovery = tx.recovery
  BY <1>2, TxKept DEF OnlyJournal
<1>13. QED
  BY <1>2, <1>7, <1>8, <1>9, <1>10, <1>11, <1>12, JournalSound DEF OnlyJournal

\* The recovery without a pointer creates the journal if need be and records
\* the abort.
LEMMA SettleSound ==
  ASSUME RootSound, Working, RootSettle
  PROVE  RootStays
<1>1. rp.op = "pointerless" /\ rp.at = 2
  BY Here DEF RootSound, Kept, RootSettle, At, OpSound, OpPlaced
<1>2. OnlyJournal
  BY OnlyJournalIs DEF RootSettle
<1>3. rp \in RootType /\ jnl \in JournalType /\ audio.gen \in Nat
  BY DEF RootSound, Kept, Typed, TypeOK
<1>4. PointerlessAt(rp, drv, tx, jnl, stage) /\ Untouched(drv) /\ tx.dir /\ rp.mem \in UpdateState
  BY <1>1 DEF RootSound, RootPlaced, Placed, PointerlessAt
<1>5. Ready("PRESTOP_ABORTED", audio, drv) /\ "PRESTOP_ABORTED" \in UpdateState
  BY <1>4 DEF Ready, Untouched, UpdateState
<1> DEFINE Fine(j) == /\ j \in JournalType /\ Truth(Effective(j), audio, drv, j) /\ Lasts(jnl, j)
<1>6. \/ \E s \in {"absent", "partial", "BEGUN"} :
           /\ jnl.at = "absent" /\ jnl' = [jnl EXCEPT !.at = s] /\ (rp' = rp \/ rp' = Unwound(rp))
      \/ /\ record_admissible(jnl, "PRESTOP_ABORTED") /\ jnl' = record(jnl, "PRESTOP_ABORTED")
         /\ rp' = Advance(rp)
      \/ /\ record_admissible(jnl, "PRESTOP_ABORTED")
         /\ jnl' \in record_failures(jnl, "PRESTOP_ABORTED") /\ rp' = Unwound(rp)
      \/ jnl' = reconcile(jnl) /\ rp' = Unwound(rp)
      \/ jnl' = jnl /\ jnl.at \in {"partial", "PRESTOP_ABORTED"} /\ rp' = Advance(rp)
      \/ jnl' = jnl /\ rp' = Unwound(rp)
  BY DEF RootSettle, Succeeds, Refuses, Breaks
<1>7. /\ Fine(jnl') /\ (rp' = rp \/ rp' = Unwound(rp) \/ (rp' = Advance(rp) /\ Aborted(jnl')))
  <2>1. CASE \E s \in {"absent", "partial", "BEGUN"} :
               /\ jnl.at = "absent" /\ jnl' = [jnl EXCEPT !.at = s] /\ (rp' = rp \/ rp' = Unwound(rp))
    <3>1. /\ jnl' \in JournalType /\ jnl'.at \in {"absent", "partial", "BEGUN"}
          /\ jnl.at = "absent"
      BY <1>3, <2>1 DEF JournalType, JournalAt, UpdateState
    <3>2. Effective(jnl') \in {"absent", "partial", "BEGUN", "AUTHENTICATED", "PRESTOP_ABORTED"}
      <4>1. CASE classify_pending_journal_snapshot(jnl') = "promote"
        <5>1. valid_transition(jnl'.at, jnl'.pend)
          BY <4>1, ClassifyIs
        <5>2. jnl'.at = "BEGUN"
          BY <3>1, <5>1, ValidFrom DEF UpdateState
        <5>3. jnl'.pend \in {"AUTHENTICATED", "PRESTOP_ABORTED"}
          <6>1. "BEGUN" \notin CutoverStates /\ "BEGUN" \notin Undoing /\ "BEGUN" \notin Crossed
            BY CutoverIs, StatesAre
          <6>2. ~Follows(Cutover, "BEGUN", jnl'.pend) /\ ~Follows(Undo, "BEGUN", jnl'.pend)
            BY <6>1, CutoverFollows, UndoFollows
          <6>3. QED
            BY <5>1, <5>2, <6>1, <6>2 DEF valid_transition
        <5>4. QED
          BY <4>1, <5>3 DEF Effective
      <4>2. CASE classify_pending_journal_snapshot(jnl') # "promote"
        BY <3>1, <4>2 DEF Effective
      <4>3. QED
        BY <4>1, <4>2
    <3>3. Truth(Effective(jnl'), audio, drv, jnl')
      <4> DEFINE e == Effective(jnl')
      <4>1. e \in {"absent", "partial", "BEGUN", "AUTHENTICATED", "PRESTOP_ABORTED"}
        BY <3>2
      <4> HIDE DEF e
      <4>2. Truth(e, audio, drv, jnl')
        BY <1>4, <4>1 DEF Truth, Back, Untouched
      <4>3. QED
        BY <4>2 DEF e
    <3>4. Lasts(jnl, jnl')
      BY <3>1 DEF Lasts, Aborted, Terminal
    <3>5. QED
      BY <2>1, <3>1, <3>3, <3>4
  <2>2. CASE /\ record_admissible(jnl, "PRESTOP_ABORTED") /\ jnl' = record(jnl, "PRESTOP_ABORTED")
             /\ rp' = Advance(rp)
    <3>1. /\ jnl' \in JournalType /\ jnl'.at = "PRESTOP_ABORTED" /\ Effective(jnl') = "PRESTOP_ABORTED"
      BY <1>3, <1>5, <2>2, RecordIs
    <3>2. Truth(Effective(jnl'), audio, drv, jnl')
      BY <1>5, <3>1, NowTrue
    <3>3. jnl.at \in UpdateState \ Terminal
      BY <2>2, Unsettled
    <3>4. Lasts(jnl, jnl') /\ Aborted(jnl')
      BY <3>1, <3>3 DEF Lasts, Aborted, Terminal, UpdateState
    <3>5. QED
      BY <2>2, <3>1, <3>2, <3>4
  <2>3. CASE /\ record_admissible(jnl, "PRESTOP_ABORTED")
             /\ jnl' \in record_failures(jnl, "PRESTOP_ABORTED") /\ rp' = Unwound(rp)
    <3>1. /\ jnl' \in JournalType
          /\ \/ Effective(jnl') = Effective(jnl) /\ jnl'.old = jnl.old
             \/ Effective(jnl') = "PRESTOP_ABORTED"
      BY <1>3, <1>5, <2>3, FailedRecordIs
    <3>2. Truth(Effective(jnl'), audio, drv, jnl')
      BY <1>5, <3>1, StillTrue, NowTrue
    <3>3. jnl.at \in UpdateState \ Terminal
      BY <2>3, Unsettled
    <3>4. Lasts(jnl, jnl')
      BY <3>3 DEF Lasts, Aborted, Terminal, UpdateState
    <3>5. QED
      BY <2>3, <3>1, <3>2, <3>4
  <2>4. CASE jnl' = reconcile(jnl) /\ rp' = Unwound(rp)
    BY <2>4, ReconcileLasts
  <2>5. CASE \/ jnl' = jnl /\ jnl.at \in {"partial", "PRESTOP_ABORTED"} /\ rp' = Advance(rp)
             \/ jnl' = jnl /\ rp' = Unwound(rp)
    <3>1. Truth(Effective(jnl'), audio, drv, jnl') /\ Lasts(jnl, jnl')
      BY <2>5 DEF RootSound, JournalTrue, Lasts
    <3>2. QED
      BY <1>3, <2>5, <3>1 DEF Aborted
  <2>6. QED
    BY <1>6, <2>1, <2>2, <2>3, <2>4, <2>5
<1>8. "aborted" \in rp.done => jnl'.at = "PRESTOP_ABORTED"
  BY <1>7, Here DEF RootSound, Kept, Lasts, Terminal
<1>9. rp' \in RootType /\ RootPlaced'
  <2>1. CASE rp' = rp
    <3>1. PointerlessAt(rp', drv', tx', jnl', stage')
      BY <1>1, <1>2, <1>4, <2>1 DEF PointerlessAt, OnlyJournal
    <3>2. QED
      BY <1>1, <1>3, <1>8, <2>1, <3>1, Here DEF RootSound, Kept, RootPlaced, Placed
  <2>2. CASE rp' = Advance(rp) /\ Aborted(jnl')
    <3>1. rp'.op = "pointerless" /\ rp'.at = 3 /\ rp'.mem = rp.mem
      BY <1>1, <1>3, <2>2, PointerlessOn
    <3>2. PointerlessAt(rp', drv', tx', jnl', stage')
      BY <1>1, <1>2, <1>4, <2>2, <3>1 DEF PointerlessAt, OnlyJournal
    <3>3. Fares(rp', host', audio', drv', tx', jnl', stage')
      BY <3>1, <3>2 DEF Fares
    <3>4. QED
      BY <1>3, <1>8, <2>2, <3>3, Goes
  <2>3. CASE rp' = Unwound(rp)
    BY <1>1, <1>8, <2>3, AlikeSelf, Fails
  <2>4. QED
    BY <1>7, <2>1, <2>2, <2>3
<1>10. /\ tx' \in TxType /\ tx'.lock = tx.lock /\ tx'.dir = tx.dir /\ tx'.ptr = tx.ptr
       /\ tx'.result = tx.result /\ tx'.recovery = tx.recovery
  BY <1>2, TxKept DEF OnlyJournal
<1>11. QED
  BY <1>2, <1>4, <1>7, <1>9, <1>10, JournalSound DEF OnlyJournal
----------------------------------------------------------------------------
(* The operations on the journal and the reserve                             *)

OnlyTxJournal == UNCHANGED <<host, births, audio, drv, st, routes, intact, tries, pin, usr,
                             waiting, out, stage, cut>>

\* What an operation on the transaction's files and the journal leaves alone.
LEMMA OnlyTxJournalIs == ASSUME Only({"tx", "jnl"}), Same PROVE OnlyTxJournal
  BY DEF Only, Keeps, Same, OnlyTxJournal

\* The release of the reserve leaves the rest of the transaction's files.
LEMMA ReleasedIs ==
  ASSUME RootSound, tx' \in {tx, Released}
  PROVE  /\ tx' \in TxType /\ tx'.lock = tx.lock /\ tx'.dir = tx.dir /\ tx'.ptr = tx.ptr
         /\ tx'.result = tx.result /\ tx'.recovery = tx.recovery
<1>1. tx \in TxType
  BY DEF RootSound, Kept, Typed
<1>2. QED
  BY <1>1 DEF Released, TxType

\* The journal as it was, or with the record that was pending.
LEMMA SameOrReconciled ==
  ASSUME RootSound, jnl' = jnl \/ jnl' = reconcile(jnl)
  PROVE  /\ jnl' \in JournalType /\ Truth(Effective(jnl'), audio, drv, jnl')
         /\ Lasts(jnl, jnl') /\ (tx.dir \/ NoJournal(jnl'))
         /\ jnl.at \in UpdateState <=> jnl'.at \in UpdateState
<1>1. CASE jnl' = jnl
  BY <1>1 DEF RootSound, Kept, Typed, JournalTrue, Lasts, Begun
<1>2. CASE jnl' = reconcile(jnl)
  BY <1>2, ReconcileLasts
<1>3. QED
  BY <1>1, <1>2

\* An operation that releases the reserve or reconciles the journal.
LEMMA TxJournalSound ==
  ASSUME RootSound, Working, OnlyTxJournal, tx' \in {tx, Released},
         jnl' = jnl \/ jnl' = reconcile(jnl), rp' \in RootType, RootPlaced'
  PROVE  RootStays
  BY ReleasedIs, SameOrReconciled, JournalSound DEF OnlyTxJournal

\* A rollback begins with the journal in order and the reserve released.
LEMMA ResumeSound ==
  ASSUME RootSound, Working, RootResume
  PROVE  RootStays
<1> DEFINE r == [rp EXCEPT !.mem = jnl'.at]
<1>1. rp.op = "rollback" /\ rp.at = 1
  BY Here DEF RootSound, Kept, RootResume, At, OpSound, OpPlaced
<1>2. OnlyTxJournal
  BY OnlyTxJournalIs DEF RootResume
<1>3. /\ tx' \in {tx, Released}
      /\ \/ jnl' = reconcile(jnl) /\ ((~Diverged(jnl) /\ rp' = Advance(r)) \/ rp' = Unwound(r))
         \/ jnl' = jnl /\ rp' = Unwound(rp)
  BY DEF RootResume, Succeeds, Refuses, Breaks
<1>4. /\ jnl' \in JournalType /\ Lasts(jnl, jnl')
      /\ jnl.at \in UpdateState <=> jnl'.at \in UpdateState
  BY <1>3, SameOrReconciled
<1>5. RollbackAt(rp, host, audio, drv, tx, jnl, stage) /\ jnl'.at \in UpdateState /\ rp \in RootType
  BY <1>1, <1>4, RollbackHere DEF RollbackAt, RootSound, Kept, Typed
<1>6. /\ r \in RootType /\ r.op = rp.op /\ r.at = rp.at /\ r.kind = rp.kind /\ r.what = rp.what
      /\ r.mem = jnl'.at /\ r.done = rp.done
  BY <1>5 DEF RootType, JournalAt
<1> HIDE DEF r
<1>7. "aborted" \in rp.done => jnl'.at = "PRESTOP_ABORTED"
  BY <1>4, Here DEF RootSound, Kept, Lasts, Terminal
<1>8. rp' \in RootType /\ RootPlaced'
  <2>1. CASE jnl' = reconcile(jnl) /\ ~Diverged(jnl) /\ rp' = Advance(r)
    <3>1. jnl'.pend = "none"
      BY <2>1, ReconcileLasts
    <3>2. Clean(r, jnl') /\ Fits(r)
      BY <1>1, <1>5, <1>6, <3>1 DEF Clean, Fits
    <3>3. "abort" \notin stage'
      BY <1>2, <1>5 DEF RollbackAt, OnlyTxJournal
    <3>4. rp'.op = "rollback" /\ RollbackAt(rp', host', audio', drv', tx', jnl', stage')
      BY <1>1, <1>6, <2>1, <3>2, <3>3, RollbackOn
    <3>5. Fares(rp', host', audio', drv', tx', jnl', stage')
      BY <3>4 DEF Fares
    <3>6. QED
      BY <1>6, <1>7, <2>1, <3>5, Goes
  <2>2. ASSUME NEW q \in {r, rp}, rp' = Unwound(q) PROVE rp' \in RootType /\ RootPlaced'
    <3>1. /\ q \in RootType /\ q.op = "rollback" /\ q.kind # "none" /\ q.op # "none" /\ Purpose(q)
          /\ "aborted" \in q.done => jnl'.at = "PRESTOP_ABORTED"
      BY <1>1, <1>5, <1>6, <1>7, Here DEF Purpose, RootSound, Kept
    <3>2. rp' \in RootType /\ Placed(rp', host', audio', drv', tx', jnl', stage')
      BY <2>2, <3>1, PlaceUnwound
    <3>3. QED
      BY <3>2 DEF RootPlaced
  <2>3. QED
    BY <1>3, <2>1, <2>2
<1>9. QED
  BY <1>2, <1>3, <1>8, TxJournalSound

\* A recovery that finds the host preserved.
LEMMA DiscoverSound ==
  ASSUME RootSound, Working, RootDiscover
  PROVE  RootStays
<1> DEFINE r == [Proved(rp) EXCEPT !.mem = jnl'.at, !.init = host.gen,
                                   !.routes = IF st.at = "none" THEN routes ELSE st.routes]
<1>1. rp.op = "prestop" /\ rp.at = 1
  BY Here DEF RootSound, Kept, RootDiscover, At, OpSound, OpPlaced
<1>2. OnlyTxJournal
  BY OnlyTxJournalIs DEF RootDiscover
<1>3. /\ tx' \in {tx, Released}
      /\ \/ /\ drv.canonical = "v7" /\ drv.prior = "none" /\ drv.failed = "none"
            /\ jnl' = reconcile(jnl)
            /\ \/ /\ jnl'.at \in {"BEGUN", "AUTHENTICATED", "PRESTOP_ABORTED"} /\ ~Diverged(jnl)
                  /\ rp' = Advance(r)
               \/ rp' = Unwound(r)
         \/ jnl' = jnl /\ rp' = Unwound(rp)
  <2>1. tx' \in {tx, Released}
    BY DEF RootDiscover, release_discovered_prestop_reserve
  <2>2. QED
    BY <2>1 DEF RootDiscover, Succeeds, Refuses, Breaks, verify_installed_v7_driver,
                verify_driver_bundle
<1>4. /\ jnl' \in JournalType /\ Lasts(jnl, jnl')
  BY <1>3, SameOrReconciled
<1>5. Alike(Proved(rp)) /\ Proved(rp) \in RootType
  BY ProvedAlike DEF Alike
<1>6. /\ r \in RootType /\ r.op = rp.op /\ r.at = rp.at /\ r.kind = rp.kind /\ r.what = rp.what
      /\ r.mem = jnl'.at /\ r.done = rp.done
  <2> DEFINE p == Proved(rp)
             n == IF st.at = "none" THEN routes ELSE st.routes
  <2>1. /\ host.gen \in Nat /\ n \in {"base", "drifted"} /\ jnl'.at \in JournalAt
    BY <1>4 DEF RootSound, Kept, Typed, TypeOK, StateFileType, JournalType
  <2>2. /\ p \in RootType /\ p.op = rp.op /\ p.at = rp.at /\ p.kind = rp.kind /\ p.what = rp.what
        /\ p.done = rp.done
    BY <1>5 DEF Alike
  <2>3. r = [p EXCEPT !.mem = jnl'.at, !.init = host.gen, !.routes = n]
    OBVIOUS
  <2> HIDE DEF p, n, r
  <2>4. QED
    BY <2>1, <2>2, <2>3 DEF RootType
<1> HIDE DEF r
<1>7. "aborted" \in rp.done => jnl'.at = "PRESTOP_ABORTED"
  BY <1>4, Here DEF RootSound, Kept, Lasts, Terminal
<1>8. rp' \in RootType /\ RootPlaced'
  <2>1. CASE /\ drv.canonical = "v7" /\ drv.prior = "none" /\ drv.failed = "none"
             /\ jnl' = reconcile(jnl) /\ ~Diverged(jnl)
             /\ jnl'.at \in {"BEGUN", "AUTHENTICATED", "PRESTOP_ABORTED"} /\ rp' = Advance(r)
    <3>1. jnl'.pend = "none"
      BY <2>1, ReconcileLasts
    <3>2. r.mem \in UpdateState /\ r.op = "prestop" /\ r.at = 1
      BY <1>1, <1>6, <2>1 DEF UpdateState
    <3>3. /\ rp'.op = "prestop" /\ rp'.mem = r.mem
          /\ rp'.at >= 3 => r.mem \notin {"BEGUN", "AUTHENTICATED"}
      <4>1. rp'.op = "prestop" /\ rp'.mem = r.mem
        BY ZenonT(60), <1>6, <2>1, <3>2, AdvanceIs
      <4>2. rp'.at >= 3 => r.mem \notin {"BEGUN", "AUTHENTICATED"}
        BY <1>6, <2>1, <3>2, AdvancePrestop
      <4>3. QED
        BY <4>1, <4>2
    <3>4. Untouched(drv') /\ Clean(rp', jnl')
      BY <1>2, <1>6, <2>1, <3>1, <3>2, <3>3 DEF Untouched, Clean, OnlyTxJournal
    <3>5. PrestopAt(rp', drv', jnl')
      BY <1>6, <2>1, <3>2, <3>3, <3>4 DEF PrestopAt
    <3>6. Fares(rp', host', audio', drv', tx', jnl', stage')
      BY <3>3, <3>5 DEF Fares
    <3>7. QED
      BY <1>6, <1>7, <2>1, <3>6, Goes
  <2>2. ASSUME NEW q \in {r, rp}, rp' = Unwound(q) PROVE rp' \in RootType /\ RootPlaced'
    <3>1. /\ q \in RootType /\ q.op = "prestop" /\ q.kind # "none" /\ q.op # "none" /\ Purpose(q)
          /\ "aborted" \in q.done => jnl'.at = "PRESTOP_ABORTED"
      BY <1>1, <1>6, <1>7, Here DEF Purpose, RootSound, Kept
    <3>2. rp' \in RootType /\ Placed(rp', host', audio', drv', tx', jnl', stage')
      BY <2>2, <3>1, PlaceUnwound
    <3>3. QED
      BY <3>2 DEF RootPlaced
  <2>3. QED
    BY <1>3, <2>1, <2>2
<1>9. QED
  BY <1>2, <1>3, <1>8, TxJournalSound

\* A recovery that finds the transaction settled.
LEMMA VerifySettledSound ==
  ASSUME RootSound, Working, RootVerifySettled
  PROVE  RootStays
<1> DEFINE r == [Proved(rp) EXCEPT !.mem = jnl'.at]
<1>1. /\ rp.op \in {"committed", "rolledBack", "report"} /\ rp.at = 1
      /\ Op.do = "repairCommitted" <=> rp.op = "committed"
      /\ Op.do = "repairRolledBack" <=> rp.op = "rolledBack"
  BY Here DEF RootSound, Kept, RootVerifySettled, At, OpSound, OpPlaced
<1>2. OnlyTxJournal
  BY OnlyTxJournalIs DEF RootVerifySettled
<1>3. SettledAt(rp, jnl)
  BY <1>1 DEF RootSound, RootPlaced, Placed
<1>4. /\ tx' \in {tx, Released} /\ (jnl' = jnl \/ jnl' = reconcile(jnl))
      /\ \/ /\ rp' = Advance(r)
            /\ rp.op = "committed" => jnl'.at = "COMMITTED"
            /\ rp.op = "rolledBack" => jnl'.at = "ROLLED_BACK"
         \/ rp' = Unwound(rp)
  BY <1>1 DEF RootVerifySettled, Succeeds, Refuses, Breaks
<1>5. jnl' \in JournalType /\ Lasts(jnl, jnl')
  BY <1>4, SameOrReconciled
<1>6. /\ r \in RootType /\ r.op = rp.op /\ r.at = rp.at /\ r.kind = rp.kind /\ r.what = rp.what
      /\ r.mem = jnl'.at /\ r.done = rp.done
  <2> DEFINE p == Proved(rp)
  <2>1. jnl'.at \in JournalAt
    BY <1>5 DEF JournalType
  <2>2. /\ p \in RootType /\ p.op = rp.op /\ p.at = rp.at /\ p.kind = rp.kind /\ p.what = rp.what
        /\ p.done = rp.done
    BY ProvedAlike DEF Alike
  <2>3. r = [p EXCEPT !.mem = jnl'.at]
    OBVIOUS
  <2> HIDE DEF p, r
  <2>4. QED
    BY <2>1, <2>2, <2>3 DEF RootType
<1> HIDE DEF r
<1>7. "aborted" \in rp.done => jnl'.at = "PRESTOP_ABORTED"
  BY <1>5, Here DEF RootSound, Kept, Lasts, Terminal
<1>8. rp.op = "report" => jnl'.at = "PRESTOP_ABORTED"
  BY <1>3, <1>5 DEF SettledAt, Lasts, Terminal
<1>9. rp' \in RootType /\ RootPlaced'
  <2>1. CASE /\ rp' = Advance(r)
             /\ rp.op = "committed" => jnl'.at = "COMMITTED"
             /\ rp.op = "rolledBack" => jnl'.at = "ROLLED_BACK"
    <3>1. rp'.op = rp.op /\ rp'.mem = jnl'.at
      BY <1>6, <2>1, AdvanceIs
    <3>2. jnl'.at \in UpdateState
      BY <1>1, <1>8, <2>1 DEF UpdateState
    <3>3. SettledAt(rp', jnl')
      BY <1>8, <2>1, <3>1, <3>2 DEF SettledAt
    <3>4. Fares(rp', host', audio', drv', tx', jnl', stage')
      BY <1>1, <3>1, <3>3 DEF Fares
    <3>5. QED
      BY <1>6, <1>7, <2>1, <3>4, Goes
  <2>2. CASE rp' = Unwound(rp)
    BY <1>1, <1>7, <2>2, AlikeSelf, Fails
  <2>3. QED
    BY <1>4, <2>1, <2>2
<1>10. QED
  BY <1>2, <1>4, <1>9, TxJournalSound

\* The abort result is written over an untouched driver and no pointer.
LEMMA AbortResultSound ==
  ASSUME RootSound, Working, RootAbortResult
  PROVE  RootStays
<1> DEFINE t == [tx EXCEPT !.aborted = rp.init]
<1>1. rp.op = "pointerless" /\ rp.at = 5
  BY Here DEF RootSound, Kept, RootAbortResult, At, OpSound, OpPlaced
<1>2. UNCHANGED <<host, births, audio, drv, jnl, st, routes, intact, tries, pin, usr, waiting, out>>
  BY DEF RootAbortResult, Only, Keeps
<1>3. \/ /\ stage' = stage \cup {"abort"} /\ tx' = t /\ cut' = cut /\ rp' = Advance(rp)
      \/ /\ cut' = cut \cup {"abort"} /\ stage' = stage /\ tx' = tx /\ rp' = Unwound(rp)
      \/ "abort" \in stage /\ tx' = tx /\ stage' = stage /\ cut' = cut /\ rp' = Advance(rp)
      \/ tx' = tx /\ stage' = stage /\ cut' = cut /\ rp' = Unwound(rp)
  BY DEF RootAbortResult, Same, Succeeds, Refuses, Breaks
<1>4. rp \in RootType /\ tx \in TxType
  BY DEF RootSound, Kept, Typed
<1>5. /\ tx' \in TxType /\ tx'.lock = tx.lock /\ tx'.dir = tx.dir /\ tx'.ptr = tx.ptr
      /\ tx'.result = tx.result /\ tx'.recovery = tx.recovery
  <2>1. /\ t \in TxType /\ t.lock = tx.lock /\ t.dir = tx.dir /\ t.ptr = tx.ptr
        /\ t.result = tx.result /\ t.recovery = tx.recovery
    BY <1>4 DEF TxType, RootType
  <2> HIDE DEF t
  <2>2. QED
    BY <1>3, <1>4, <2>1
<1>6. /\ stage \subseteq stage' /\ stage' \subseteq stage \cup {"abort"}
      /\ stage' \subseteq Files /\ cut' \subseteq Files
      /\ rp' = Unwound(rp) \/ (rp' = Advance(rp) /\ "abort" \in stage')
  <2>1. stage \subseteq Files /\ cut \subseteq Files /\ "abort" \in Files
    BY DEF RootSound, Kept, Typed, TypeOK, Files
  <2>2. QED
    BY <1>3, <2>1
<1>7. PointerlessAt(rp, drv, tx, jnl, stage)
  BY <1>1 DEF RootSound, RootPlaced, Placed
<1>8. tx.ptr \notin {"published", "pending"} /\ Untouched(drv) /\ rp.mem \in UpdateState
  BY <1>1, <1>7 DEF PointerlessAt
<1>9. "aborted" \in rp.done => jnl'.at = "PRESTOP_ABORTED"
  BY <1>2, Here DEF RootSound, Kept
<1>10. rp' \in RootType /\ RootPlaced'
  <2>1. CASE rp' = Advance(rp) /\ "abort" \in stage'
    <3>1. rp'.op = "pointerless" /\ rp'.at = 6 /\ rp'.mem = rp.mem
      BY <1>1, <1>4, <2>1, PointerlessOn
    <3>2. PointerlessAt(rp', drv', tx', jnl', stage')
      BY <1>2, <1>5, <1>8, <2>1, <3>1 DEF PointerlessAt
    <3>3. Fares(rp', host', audio', drv', tx', jnl', stage')
      BY <3>1, <3>2 DEF Fares
    <3>4. QED
      BY <1>4, <1>9, <2>1, <3>3, Goes
  <2>2. CASE rp' = Unwound(rp)
    BY <1>1, <1>9, <2>2, AlikeSelf, Fails
  <2>3. QED
    BY <1>6, <2>1, <2>2
<1>11. Kept'
  <2>1. TypeOK'
    BY <1>2, <1>5, <1>6 DEF RootSound, Kept, Typed, TypeOK, TxType
  <2>2. QED
    BY <1>2, <1>5, <1>10, <2>1 DEF RootSound, Kept, Typed, PriorDriverKept
<1>12. JournalTrue' /\ HostKnowing'
  BY <1>2 DEF RootSound, JournalTrue, HostKnowing
<1>13. Begun'
  BY <1>1, <1>2, <1>5, <1>8 DEF RootSound, Begun, Untouched
<1>14. ResultsTrue'
  BY <1>2, <1>5 DEF RootSound, ResultsTrue
<1>15. Lasts(jnl, jnl') /\ Sealed /\ Steady
  BY <1>2, <1>5, <1>6 DEF Lasts, Sealed, Steady
<1>16. QED
  BY <1>10, <1>11, <1>12, <1>13, <1>14, <1>15 DEF RootStays, RootSound
----------------------------------------------------------------------------
(* The operations on the host                                                *)

\* Neither the transaction before its commit nor a rollback that still reverts
\* works on something settled.
LEMMA ForwardUnsettled ==
  ASSUME RootSound, rp.op = "forward", rp.at \in 4..27
  PROVE  ~Settled
<1>1. ForwardAt(rp, host, audio, drv, tx, jnl, stage)
  BY ForwardHere
<1>2. "abort" \notin stage /\ jnl.at \in CutoverStates \cup {"BEGUN"} /\ jnl.at # "COMMITTED"
  BY <1>1 DEF ForwardAt
<1>3. QED
  BY <1>2, CutoverIs DEF Settled, Terminal

\* A rollback that works on the driver, Core Audio or the host is not settled,
\* and the journal says how far it is.
LEMMA RollbackReverts ==
  ASSUME RootSound, Working, rp.op = "rollback", rp.at \in {5, 6, 8, 11, 13}
  PROVE  /\ ~Settled /\ rp.mem \in Reverting /\ Clean(rp, jnl) /\ Effective(jnl) = rp.mem
         /\ Fits(rp)
<1>1. /\ (~rp.half => rp.mem \in PlanOf["rollback"][rp.at].from)
      /\ (rp.half => PlanOf["rollback"][rp.at].do = "mark")
      /\ RollbackAt(rp, host, audio, drv, tx, jnl, stage)
  BY RollbackKnows
<1>2. /\ rp.mem \in Reverting /\ (rp.at = 11 => rp.mem = "ROLLBACK_COREAUDIO_RELOAD_INITIATED")
      /\ (rp.at = 13 => rp.mem = "ROLLBACK_COREAUDIO_RELOADED")
  BY <1>1, RollbackFrom, StatesAre
<1>3. Clean(rp, jnl) /\ "abort" \notin stage
  BY <1>1 DEF RollbackAt
<1>4. Effective(jnl) = rp.mem
  BY <1>3, EffectiveIs DEF Clean, RootSound, Kept, Typed
<1>5. ~Settled
  BY <1>2, <1>3, StatesAre DEF Settled, Terminal, Clean
<1>6. Fits(rp)
  BY <1>2 DEF Fits
<1>7. QED
  BY <1>2, <1>3, <1>4, <1>5, <1>6

\* An operation that changes the host.
LEMMA HostSound ==
  ASSUME RootSound, Working, ~Settled,
         UNCHANGED <<audio, drv, tx, jnl, st, routes, intact, tries, pin, waiting, out, stage, cut>>,
         births' \in Nat, host' \in [loaded : BOOLEAN, gen : 0..births', first : BOOLEAN],
         host'.loaded \/ host'.gen # 0 => Synced(audio, drv), rp' \in RootType, RootPlaced'
  PROVE  RootStays
<1>1. rp.op # "none"
  BY Here DEF RootSound, Kept
<1>2. Kept'
  <2>1. TypeOK'
    BY DEF RootSound, Kept, Typed, TypeOK
  <2>2. QED
    BY <2>1 DEF RootSound, Kept, Typed, PriorDriverKept
<1>3. JournalTrue' /\ HostKnowing'
  BY DEF RootSound, JournalTrue, HostKnowing
<1>4. Begun'
  BY <1>1 DEF RootSound, Begun
<1>5. ResultsTrue'
  BY DEF RootSound, ResultsTrue
<1>6. Lasts(jnl, jnl') /\ Sealed /\ Steady
  BY DEF Lasts, Sealed, Steady
<1>7. QED
  BY <1>2, <1>3, <1>4, <1>5, <1>6 DEF RootStays, RootSound

OnlyHost == UNCHANGED <<audio, drv, tx, jnl, st, routes, intact, tries, pin, usr, waiting, out,
                        stage, cut>>

\* What such an operation leaves alone.
LEMMA OnlyHostIs == ASSUME Only({"host"}), Same PROVE OnlyHost
  BY DEF Only, Keeps, Same, OnlyHost

\* A host that is stopped, or is on its way out, never sees another driver.
LEMMA BootoutIs ==
  ASSUME RootSound, births' = births, host' \in {host, Stopped, Lingering}
  PROVE  /\ births' \in Nat /\ host' \in [loaded : BOOLEAN, gen : 0..births', first : BOOLEAN]
         /\ host'.loaded \/ host'.gen # 0 => Synced(audio, drv)
         /\ host' = Stopped => Down(host')
<1>1. births \in Nat /\ host \in [loaded : BOOLEAN, gen : 0..births, first : BOOLEAN]
  BY DEF RootSound, Kept, Typed, TypeOK
<1>2. host.loaded \/ host.gen # 0 => Synced(audio, drv)
  BY DEF RootSound, HostKnowing
<1>3. Stopped \in [loaded : BOOLEAN, gen : 0..births, first : BOOLEAN] /\ Down(Stopped)
  BY <1>1 DEF Stopped, Down
<1>4. /\ Lingering \in [loaded : BOOLEAN, gen : 0..births, first : BOOLEAN]
      /\ Lingering.loaded = FALSE /\ Lingering.gen = host.gen
  BY <1>1 DEF Lingering
<1>5. QED
  BY <1>1, <1>2, <1>3, <1>4 DEF Down

\* The transaction stops the host.
LEMMA StopSound ==
  ASSUME RootSound, Working, stop_exact_v8_host
  PROVE  RootStays
<1>1. rp.op = "forward" /\ rp.at = 13
  BY Here DEF RootSound, Kept, stop_exact_v8_host, At, OpSound, OpPlaced
<1>2. OnlyHost /\ births' = births
  BY OnlyHostIs DEF stop_exact_v8_host
<1>3. \/ host' = Stopped /\ rp' = Advance(rp)
      \/ host' \in {host, Stopped, Lingering} /\ rp' = Unwound(rp)
  BY DEF stop_exact_v8_host, Bootout, Succeeds, Refuses, Breaks
<1>4. rp \in RootType /\ ForwardAt(rp, host, audio, drv, tx, jnl, stage)
  BY <1>1, ForwardHere DEF RootSound, Kept, Typed
<1>5. rp' \in RootType /\ RootPlaced'
  <2>1. CASE host' = Stopped /\ rp' = Advance(rp)
    <3>1. rp'.op = "forward" /\ rp'.at = 14 /\ rp'.mem = rp.mem
      BY <1>1, <1>4, <2>1, ForwardOn DEF ForwardAt
    <3>2. Down(host')
      BY <1>2, <2>1, BootoutIs
    <3>3. ForwardAt(rp', host', audio', drv', tx', jnl', stage')
      BY <1>1, <1>2, <1>4, <3>1, <3>2 DEF ForwardAt, Clean, OnlyHost
    <3>4. Fares(rp', host', audio', drv', tx', jnl', stage')
      BY <3>1, <3>3 DEF Fares
    <3>5. "aborted" \in rp.done => jnl'.at = "PRESTOP_ABORTED"
      BY <1>2, Here DEF RootSound, Kept, OnlyHost
    <3>6. QED
      BY <1>4, <2>1, <3>4, <3>5, Goes
  <2>2. CASE rp' = Unwound(rp)
    BY <1>2, <2>2, AlikeSelf, FailsHere DEF OnlyHost
  <2>3. QED
    BY <1>3, <2>1, <2>2
<1>6. ~Settled
  BY <1>1, ForwardUnsettled
<1>7. QED
  BY <1>2, <1>3, <1>5, <1>6, BootoutIs, HostSound DEF OnlyHost

\* The rollback stops whatever host there is.
LEMMA StopAnySound ==
  ASSUME RootSound, Working, stop_v8_host_for_rollback
  PROVE  RootStays
<1>1. rp.op = "rollback" /\ rp.at = 5
  BY Here DEF RootSound, Kept, stop_v8_host_for_rollback, At, OpSound, OpPlaced
<1>2. OnlyHost /\ births' = births
  BY OnlyHostIs DEF stop_v8_host_for_rollback
<1>3. \/ host' = Stopped /\ rp' = Advance(rp)
      \/ host' \in {host, Stopped, Lingering} /\ rp' = Unwound(rp)
  BY DEF stop_v8_host_for_rollback, Bootout, Succeeds, Refuses, Breaks
<1>4. /\ rp \in RootType /\ RollbackAt(rp, host, audio, drv, tx, jnl, stage)
      /\ ~Settled /\ Clean(rp, jnl) /\ Fits(rp)
  BY <1>1, RollbackHere, RollbackReverts DEF RootSound, Kept, Typed
<1>5. rp' \in RootType /\ RootPlaced'
  <2>1. CASE host' = Stopped /\ rp' = Advance(rp)
    <3>1. Down(host')
      BY <1>2, <2>1, BootoutIs
    <3>2. Clean(rp, jnl') /\ "abort" \notin stage'
      BY <1>2, <1>4 DEF OnlyHost, Clean, RollbackAt
    <3>3. rp'.op = "rollback" /\ RollbackAt(rp', host', audio', drv', tx', jnl', stage')
      BY <1>1, <1>4, <2>1, <3>1, <3>2, RollbackOn
    <3>4. Fares(rp', host', audio', drv', tx', jnl', stage')
      BY <3>3 DEF Fares
    <3>5. "aborted" \in rp.done => jnl'.at = "PRESTOP_ABORTED"
      BY <1>2, Here DEF RootSound, Kept, OnlyHost
    <3>6. QED
      BY <1>4, <2>1, <3>4, <3>5, Goes
  <2>2. CASE rp' = Unwound(rp)
    BY <1>2, <2>2, AlikeSelf, FailsHere DEF OnlyHost
  <2>3. QED
    BY <1>3, <2>1, <2>2
<1>6. QED
  BY <1>2, <1>3, <1>4, <1>5, BootoutIs, HostSound DEF OnlyHost

\* The host is started again, over the driver Core Audio has loaded.
LEMMA RestartSound ==
  ASSUME RootSound, Working, restart_exact_v8_host
  PROVE  RootStays
<1> DEFINE n == IF rp.op = "rollback" THEN rp.done \cup {"restarted"} ELSE rp.done
           r == [rp EXCEPT !.seen = births + 1, !.first = TRUE, !.done = n]
<1>1. (rp.op = "forward" /\ rp.at = 23) \/ (rp.op = "rollback" /\ rp.at = 13)
  BY Here DEF RootSound, Kept, restart_exact_v8_host, At, OpSound, OpPlaced
<1>2. OnlyHost
  BY OnlyHostIs DEF restart_exact_v8_host
<1>3. /\ \/ host' = Launched /\ births' = births + 1
         \/ host' = host /\ births' = births
      /\ \/ rp' = Advance(r)
         \/ rp' = Unwound(rp)
  BY DEF restart_exact_v8_host, Succeeds, Refuses, Breaks
<1>4. rp \in RootType /\ births \in Nat
  BY DEF RootSound, Kept, Typed, TypeOK
<1>5. /\ r \in RootType /\ r.op = rp.op /\ r.at = rp.at /\ r.kind = rp.kind /\ r.what = rp.what
      /\ r.mem = rp.mem /\ ("aborted" \in r.done => "aborted" \in rp.done)
  <2>1. n \in SUBSET Done /\ ("aborted" \in n => "aborted" \in rp.done)
    BY <1>4 DEF RootType, Done
  <2> DEFINE b == births + 1
  <2>2. b \in Nat /\ r = [rp EXCEPT !.seen = b, !.first = TRUE, !.done = n]
    BY <1>4
  <2> HIDE DEF n, b, r
  <2>3. r \in RootType
    BY <1>4, <2>1, <2>2 DEF RootType
  <2>4. /\ r.op = rp.op /\ r.at = rp.at /\ r.kind = rp.kind /\ r.what = rp.what
        /\ r.mem = rp.mem /\ r.done = n
    BY <1>4, <2>2 DEF RootType
  <2>5. QED
    BY <2>1, <2>3, <2>4
<1> HIDE DEF r
<1>6. Synced(audio, drv) /\ ~Settled
  <2>1. CASE rp.op = "forward"
    BY <1>1, <2>1, ForwardHere, ForwardUnsettled DEF ForwardAt
  <2>2. CASE rp.op = "rollback"
    <3>1. ~Settled /\ Effective(jnl) = rp.mem /\ Fits(rp) /\ rp.at = 13
      BY <1>1, <2>2, RollbackReverts
    <3>2. Effective(jnl) = "ROLLBACK_COREAUDIO_RELOADED"
      BY <3>1 DEF Fits
    <3>3. QED
      BY <3>1, <3>2 DEF RootSound, JournalTrue, Truth
  <2>3. QED
    BY <1>1, <2>1, <2>2
<1>7. rp' \in RootType /\ RootPlaced'
  <2>1. CASE rp' = Advance(r)
    <3>1. Fares(rp', host', audio', drv', tx', jnl', stage')
      <4>1. CASE rp.op = "forward"
        <5>1. ForwardAt(rp, host, audio, drv, tx, jnl, stage) /\ rp.at = 23
          BY <1>1, <4>1, ForwardHere
        <5>2. rp'.op = "forward" /\ rp'.at = 24 /\ rp'.mem = rp.mem
          BY <1>5, <2>1, <4>1, <5>1, ForwardOn DEF ForwardAt
        <5>3. ForwardAt(rp', host', audio', drv', tx', jnl', stage')
          BY <1>2, <5>1, <5>2 DEF ForwardAt, Clean, OnlyHost
        <5>4. QED
          BY <5>2, <5>3 DEF Fares
      <4>2. CASE rp.op = "rollback"
        <5>1. /\ RollbackAt(rp, host, audio, drv, tx, jnl, stage) /\ rp.at = 13
              /\ Clean(rp, jnl) /\ Fits(rp)
          BY <1>1, <4>2, RollbackHere, RollbackReverts
        <5>2. /\ Clean(r, jnl') /\ Fits(r) /\ "abort" \notin stage' /\ drv'.canonical = "v7"
          BY <1>2, <1>5, <5>1 DEF Clean, Fits, RollbackAt, OnlyHost
        <5>3. rp'.op = "rollback" /\ RollbackAt(rp', host', audio', drv', tx', jnl', stage')
          BY <1>5, <2>1, <4>2, <5>1, <5>2, RollbackOn
        <5>4. QED
          BY <5>3 DEF Fares
      <4>3. QED
        BY <1>1, <4>1, <4>2
    <3>2. "aborted" \in r.done => jnl'.at = "PRESTOP_ABORTED"
      BY <1>2, <1>5, Here DEF RootSound, Kept, OnlyHost
    <3>3. QED
      BY <1>5, <2>1, <3>1, <3>2, Goes
  <2>2. CASE rp' = Unwound(rp)
    BY <1>2, <2>2, AlikeSelf, FailsHere DEF OnlyHost
  <2>3. QED
    BY <1>3, <2>1, <2>2
<1>8. births' \in Nat /\ host' \in [loaded : BOOLEAN, gen : 0..births', first : BOOLEAN]
  <2>1. Launched \in [loaded : BOOLEAN, gen : 0..(births + 1), first : BOOLEAN]
    BY <1>4 DEF Launched
  <2>2. host \in [loaded : BOOLEAN, gen : 0..births, first : BOOLEAN]
    BY DEF RootSound, Kept, Typed, TypeOK
  <2>3. QED
    BY <1>3, <1>4, <2>1, <2>2
<1>9. QED
  BY <1>2, <1>6, <1>7, <1>8, HostSound DEF OnlyHost
----------------------------------------------------------------------------
(* The operations on the driver                                              *)

Paths == {"canonical", "stage", "prior", "failed"}
Holders(d) == {p \in DOMAIN d : d[p] = "v7"}

\* The four paths of the driver, exactly one of them with the v7 driver.
LEMMA DriverTyped ==
  ASSUME RootSound
  PROVE  drv \in [Paths -> Bundle] /\ drv.stage # "v7" /\ Cardinality(Holders(drv)) = 1
  BY DEF RootSound, Kept, Typed, TypeOK, Paths, PriorDriverKept, Holders

\* A count of one, as a path.
LEMMA OneHolder ==
  ASSUME NEW d \in [Paths -> Bundle]
  PROVE  Cardinality(Holders(d)) = 1 <=> \E p : Holders(d) = {p}
<1>1. /\ IsFiniteSet({"canonical"}) /\ IsFiniteSet({"stage"}) /\ IsFiniteSet({"prior"})
      /\ IsFiniteSet({"failed"})
  BY FS_Singleton
<1>2. IsFiniteSet(({"canonical"} \cup {"stage"}) \cup ({"prior"} \cup {"failed"}))
  <2>1. IsFiniteSet({"canonical"} \cup {"stage"}) /\ IsFiniteSet({"prior"} \cup {"failed"})
    BY <1>1, FS_Union
  <2>2. QED
    BY <2>1, FS_Union
<1>3. Holders(d) \subseteq ({"canonical"} \cup {"stage"}) \cup ({"prior"} \cup {"failed"})
  BY DEF Holders, Paths
<1>4. IsFiniteSet(Holders(d))
  BY <1>2, <1>3, FS_Subset
<1>5. QED
  BY <1>4, FS_Singleton

\* A rename onto a path without the v7 driver takes it along and copies nothing.
LEMMA MovedIs ==
  ASSUME RootSound, NEW from \in Paths, NEW to \in Paths, from # to, drv[to] # "v7",
         NEW d, d = Moved(from, to)
  PROVE  /\ d \in [Paths -> Bundle] /\ d[to] = drv[from] /\ d[from] = "none"
         /\ \A p \in Paths \ {from, to} : d[p] = drv[p]
         /\ Cardinality(Holders(d)) = 1
<1>1. drv \in [Paths -> Bundle] /\ Cardinality(Holders(drv)) = 1
  BY DriverTyped
<1>2. "none" \in Bundle /\ drv[from] \in Bundle
  BY <1>1 DEF Bundle
<1>3. /\ d \in [Paths -> Bundle] /\ d[to] = drv[from] /\ d[from] = "none"
      /\ \A p \in Paths \ {from, to} : d[p] = drv[p]
  BY <1>1, <1>2 DEF Moved
<1>4. PICK h : Holders(drv) = {h}
  BY <1>1, OneHolder
<1>5. \A p \in Paths : drv[p] = "v7" <=> p = h
  BY <1>1, <1>4 DEF Holders
<1>6. h \in Paths
  BY <1>1, <1>4 DEF Holders
<1>7. Holders(d) = {IF h = from THEN to ELSE h}
  BY <1>3, <1>5, <1>6 DEF Holders
<1>8. QED
  BY <1>3, <1>7, OneHolder

\* An operation that changes the driver.
LEMMA DriverSound ==
  ASSUME RootSound, Working, ~Settled, tx.dir,
         UNCHANGED <<host, births, audio, tx, jnl, st, routes, intact, tries, pin, waiting, out,
                     stage, cut>>,
         drv' \in [Paths -> Bundle], drv'.stage # "v7", Cardinality(Holders(drv')) = 1,
         Truth(Effective(jnl), audio, drv', jnl),
         host.loaded \/ host.gen # 0 => Synced(audio, drv'), rp' \in RootType, RootPlaced'
  PROVE  RootStays
<1>1. rp.op # "none"
  BY Here DEF RootSound, Kept
<1>2. Kept'
  <2>1. TypeOK'
    BY DEF RootSound, Kept, Typed, TypeOK, Paths
  <2>2. PriorDriverKept'
    BY DEF PriorDriverKept, Holders
  <2>3. QED
    BY <2>1, <2>2 DEF RootSound, Kept, Typed
<1>3. JournalTrue' /\ HostKnowing'
  BY DEF JournalTrue, HostKnowing
<1>4. Begun'
  BY <1>1 DEF RootSound, Begun, Settled
<1>5. ResultsTrue'
  BY DEF RootSound, ResultsTrue
<1>6. Lasts(jnl, jnl') /\ Sealed /\ Steady
  BY DEF Lasts, Sealed, Steady
<1>7. QED
  BY <1>2, <1>3, <1>4, <1>5, <1>6 DEF RootStays, RootSound

OnlyDriver == UNCHANGED <<host, births, audio, tx, jnl, st, routes, intact, tries, pin, usr,
                          waiting, out, stage, cut>>

\* What such an operation leaves alone.
LEMMA OnlyDriverIs == ASSUME Only({"drv"}), Same PROVE OnlyDriver
  BY DEF Only, Keeps, Same, OnlyDriver

\* A transaction between its journal and its commit has nothing to keep true
\* but its own place.
LEMMA ForwardTruth ==
  ASSUME RootSound, rp.op = "forward", rp.at \in 4..27
  PROVE  tx.dir /\ \A a, d : Truth(Effective(jnl), a, d, jnl)
<1>1. ForwardAt(rp, host, audio, drv, tx, jnl, stage)
  BY ForwardHere
<1>2. /\ jnl.at \in CutoverStates \cup {"BEGUN"} /\ jnl.at # "COMMITTED" /\ jnl.pend = "none"
      /\ tx.dir
  BY <1>1 DEF ForwardAt, Clean
<1>3. Effective(jnl) = jnl.at
  BY <1>2, EffectiveIs DEF RootSound, Kept, Typed
<1>4. QED
  BY <1>2, <1>3, CutoverIs DEF Truth, Back

\* The same of a rollback, until the driver is back.
LEMMA RollbackTruth ==
  ASSUME RootSound, Working, rp.op = "rollback", rp.at \in {6, 8}, drv.canonical # "v7"
  PROVE  \A a, d : Truth(Effective(jnl), a, d, jnl)
<1>1. rp.mem \in Reverting /\ Effective(jnl) = rp.mem
  BY RollbackReverts
<1>2. Effective(jnl) \notin Back
  BY DEF RootSound, JournalTrue, Truth
<1>3. QED
  BY <1>1, <1>2, StatesAre DEF Truth, Back

\* The candidate is copied to the stage.
LEMMA ArtifactsSound ==
  ASSUME RootSound, Working, stage_root_artifacts
  PROVE  RootStays
<1>1. rp.op = "forward" /\ rp.at = 5
  BY Here DEF RootSound, Kept, stage_root_artifacts, At, OpSound, OpPlaced
<1>2. OnlyDriver
  BY OnlyDriverIs DEF stage_root_artifacts
<1>3. \/ drv' = [drv EXCEPT !.stage = "candidate"] /\ rp' = Advance(rp)
      \/ /\ drv' = drv \/ \E d \in {"none", "partial", "candidate"} : drv' = [drv EXCEPT !.stage = d]
         /\ rp' = Unwound(rp)
  BY DEF stage_root_artifacts, Succeeds, Refuses, Breaks
<1>4. drv \in [Paths -> Bundle] /\ drv.stage # "v7" /\ Cardinality(Holders(drv)) = 1
  BY DriverTyped
<1>5. /\ drv' \in [Paths -> Bundle] /\ drv'.stage # "v7"
      /\ \A p \in Paths : p # "stage" => drv'[p] = drv[p]
  BY <1>3, <1>4 DEF Paths, Bundle
<1>6. Cardinality(Holders(drv')) = 1
  <2>1. Holders(drv') = Holders(drv)
    BY <1>4, <1>5 DEF Holders, Paths
  <2>2. QED
    BY <1>4, <2>1
<1>7. drv'.canonical = drv.canonical /\ drv'.prior = drv.prior /\ drv'.failed = drv.failed
  BY <1>5 DEF Paths
<1>8. rp \in RootType /\ ForwardAt(rp, host, audio, drv, tx, jnl, stage)
  BY <1>1, ForwardHere DEF RootSound, Kept, Typed
<1>9. rp' \in RootType /\ RootPlaced'
  <2>1. "aborted" \in rp.done => jnl'.at = "PRESTOP_ABORTED"
    BY <1>2, Here DEF RootSound, Kept, OnlyDriver
  <2>2. CASE drv' = [drv EXCEPT !.stage = "candidate"] /\ rp' = Advance(rp)
    <3>1. rp'.op = "forward" /\ rp'.at = 6 /\ rp'.mem = rp.mem
      BY <1>1, <1>8, <2>2, ForwardOn DEF ForwardAt
    <3>2. drv'.stage = "candidate"
      BY <1>4, <2>2 DEF Paths
    <3>3. Untouched(drv')
      BY <1>1, <1>7, <1>8 DEF ForwardAt, Untouched
    <3>4. ForwardAt(rp', host', audio', drv', tx', jnl', stage')
      BY <1>1, <1>2, <1>8, <3>1, <3>2, <3>3 DEF ForwardAt, Clean, OnlyDriver
    <3>5. Fares(rp', host', audio', drv', tx', jnl', stage')
      BY <3>1, <3>4 DEF Fares
    <3>6. QED
      BY <1>8, <2>1, <2>2, <3>5, Goes
  <2>3. CASE rp' = Unwound(rp)
    BY <1>1, <2>1, <2>3, AlikeSelf, Fails
  <2>4. QED
    BY <1>3, <2>2, <2>3
<1>10. host.loaded \/ host.gen # 0 => Synced(audio, drv')
  BY <1>7 DEF RootSound, HostKnowing, Synced
<1>11. QED
  BY <1>1, <1>2, <1>5, <1>6, <1>9, <1>10, ForwardTruth, ForwardUnsettled, DriverSound DEF OnlyDriver

----------------------------------------------------------------------------
(* The renames                                                               *)

\* A rename of a driver bundle, with the host stopped.
LEMMA RenameSound ==
  ASSUME RootSound, Working, OnlyDriver, Down(host), ~Settled, tx.dir, NEW from \in Paths,
         NEW to \in Paths \ {"stage"}, from # to, drv[to] # "v7",
         drv' = drv \/ drv' = Moved(from, to),
         drv' = Moved(from, to) => Truth(Effective(jnl), audio, drv', jnl),
         rp' \in RootType, RootPlaced'
  PROVE  RootStays
<1>1. drv' \in [Paths -> Bundle] /\ drv'.stage # "v7" /\ Cardinality(Holders(drv')) = 1
  <2>1. CASE drv' = drv
    BY <2>1, DriverTyped
  <2>2. CASE drv' = Moved(from, to)
    <3>1. /\ drv' \in [Paths -> Bundle] /\ drv'[to] = drv[from] /\ drv'[from] = "none"
          /\ \A p \in Paths \ {from, to} : drv'[p] = drv[p]
          /\ Cardinality(Holders(drv')) = 1
      BY <2>2, MovedIs
    <3>2. drv'["stage"] # "v7"
      BY <3>1, DriverTyped DEF Paths
    <3>3. QED
      BY <3>1, <3>2
  <2>3. QED
    BY <2>1, <2>2
<1>2. Truth(Effective(jnl), audio, drv', jnl)
  BY DEF RootSound, JournalTrue
<1>3. host.loaded \/ host.gen # 0 => Synced(audio, drv')
  BY DEF Down
<1>4. QED
  BY <1>1, <1>2, <1>3, DriverSound DEF OnlyDriver

\* A transaction goes on after its rename, or fails with or without it.
LEMMA RetainSound ==
  ASSUME RootSound, Working, RootRetain \/ publish_candidate_driver
  PROVE  RootStays
<1> DEFINE from == IF rp.at = 15 THEN "canonical" ELSE "stage"
           to == IF rp.at = 15 THEN "prior" ELSE "canonical"
<1>1. rp.op = "forward" /\ (rp.at = 15 \/ rp.at = 17)
  BY Here DEF RootSound, Kept, RootRetain, publish_candidate_driver, At, OpSound, OpPlaced
<1>2. OnlyDriver
  BY OnlyDriverIs DEF RootRetain, publish_candidate_driver
<1>3. /\ from \in Paths /\ to \in Paths \ {"stage"} /\ from # to
      /\ rp.at = 15 => from = "canonical" /\ to = "prior"
      /\ rp.at = 17 => from = "stage" /\ to = "canonical"
  BY <1>1 DEF Paths
<1> HIDE DEF from, to
<1>4. \/ /\ rp.at = 15 => drv.canonical = "v7" /\ drv.prior = "none"
         /\ rp.at = 17 => drv.canonical = "none"
         /\ \/ drv' = Moved(from, to) /\ rp' = Advance(rp)
            \/ drv' \in {drv, Moved(from, to)} /\ rp' = Unwound(rp)
      \/ drv' = drv /\ rp' = Unwound(rp)
  <2>1. CASE RootRetain
    <3>1. rp.at = 15
      BY <2>1, Here DEF RootSound, Kept, RootRetain, At, OpSound, OpPlaced
    <3>2. QED
      BY <1>3, <2>1, <3>1 DEF RootRetain, rename_exclusive, verify_installed_v7_driver,
         verify_driver_bundle, Succeeds, Breaks, Refuses
  <2>2. CASE publish_candidate_driver
    <3>1. rp.at = 17
      BY <2>2, Here DEF RootSound, Kept, publish_candidate_driver, At, OpSound, OpPlaced
    <3>2. QED
      BY <1>3, <2>2, <3>1 DEF publish_candidate_driver, rename_exclusive, Succeeds, Breaks, Refuses
  <2>3. QED
    BY <2>1, <2>2
<1>5. /\ rp \in RootType /\ ForwardAt(rp, host, audio, drv, tx, jnl, stage)
      /\ ~Settled /\ tx.dir /\ (\A a, d : Truth(Effective(jnl), a, d, jnl))
  BY <1>1, ForwardHere, ForwardUnsettled, ForwardTruth DEF RootSound, Kept, Typed
<1>6. Down(host) /\ "abort" \notin stage' /\ jnl'.at \in UpdateState
  BY <1>1, <1>2, <1>5 DEF ForwardAt, Clean, OnlyDriver
<1>7. rp' \in RootType /\ RootPlaced'
  <2>1. ASSUME rp.at = 15 => drv.canonical = "v7" /\ drv.prior = "none",
               rp.at = 17 => drv.canonical = "none",
               drv' = Moved(from, to), rp' = Advance(rp)
        PROVE  rp' \in RootType /\ RootPlaced'
    <3>1. drv[to] # "v7"
      BY <1>1, <1>3, <2>1
    <3>2. /\ drv'[to] = drv[from] /\ drv'[from] = "none"
          /\ \A p \in Paths \ {from, to} : drv'[p] = drv[p]
      BY <1>3, <2>1, <3>1, MovedIs
    <3>3. /\ rp.at = 15 => drv'.canonical = "none" /\ drv'.prior = "v7" /\ drv'.stage = "candidate"
          /\ rp.at = 17 => drv'.canonical = "candidate" /\ drv'.prior = "v7"
      BY <1>1, <1>3, <1>5, <2>1, <3>2 DEF ForwardAt, Paths
    <3>4. rp'.op = "forward" /\ rp'.at = rp.at + 1 /\ rp'.mem = rp.mem
      BY <1>1, <1>5, <2>1, ForwardOn DEF ForwardAt
    <3>5. ForwardAt(rp', host', audio', drv', tx', jnl', stage')
      <4>1. CASE rp.at = 15
        BY <1>2, <1>5, <3>3, <3>4, <4>1 DEF ForwardAt, Clean, OnlyDriver
      <4>2. CASE rp.at = 17
        BY <1>2, <1>5, <3>3, <3>4, <4>2 DEF ForwardAt, Clean, OnlyDriver
      <4>3. QED
        BY <1>1, <4>1, <4>2
    <3>6. Fares(rp', host', audio', drv', tx', jnl', stage')
      BY <3>4, <3>5 DEF Fares
    <3>7. "aborted" \in rp.done => jnl'.at = "PRESTOP_ABORTED"
      BY <1>2, Here DEF RootSound, Kept, OnlyDriver
    <3>8. QED
      BY <1>5, <2>1, <3>6, <3>7, Goes
  <2>2. CASE rp' = Unwound(rp)
    <3>1. "aborted" \in rp.done => jnl'.at = "PRESTOP_ABORTED"
      BY <1>2, Here DEF RootSound, Kept, OnlyDriver
    <3>2. QED
      BY <1>1, <1>6, <2>2, <3>1, AlikeSelf, Fails
  <2>3. QED
    BY <1>4, <2>1, <2>2
<1>8. drv' = drv \/ (drv' = Moved(from, to) /\ drv[to] # "v7")
  BY <1>1, <1>3, <1>4
<1>9. drv[to] # "v7" => RootStays
  BY <1>2, <1>3, <1>5, <1>6, <1>7, <1>8, RenameSound
<1>10. CASE drv' = drv
  <2>1. UNCHANGED <<world, disk, out>> /\ waiting' = waiting
    BY <1>2, <1>10 DEF OnlyDriver, world, disk
  <2>2. QED
    BY <1>7, <2>1, StillSound
<1>11. QED
  BY <1>8, <1>9, <1>10

\* What a rollback needs to go on after a rename that is its own.
LEMMA RollbackRenames ==
  ASSUME RootSound, Working, rp.op = "rollback", rp.at \in {6, 8}, OnlyDriver,
         NEW r \in RootType, r.op = "rollback", r.at = rp.at, r.kind = rp.kind, r.what = rp.what,
         r.mem = rp.mem, "aborted" \in r.done => "aborted" \in rp.done,
         \/ rp' = Advance(r) /\ (rp.at = 8 => drv'.canonical = "v7")
         \/ rp' = Unwound(r)
  PROVE  rp' \in RootType /\ RootPlaced'
<1>1. /\ RollbackAt(rp, host, audio, drv, tx, jnl, stage) /\ ~Settled /\ Clean(rp, jnl) /\ Fits(rp)
  BY RollbackHere, RollbackReverts
<1>2. "aborted" \in r.done => jnl'.at = "PRESTOP_ABORTED"
  BY Here DEF RootSound, Kept, OnlyDriver
<1>3. CASE rp' = Advance(r) /\ (rp.at = 8 => drv'.canonical = "v7")
  <2>1. /\ Clean(r, jnl') /\ Fits(r) /\ "abort" \notin stage' /\ Down(host')
    BY <1>1 DEF Clean, Fits, RollbackAt, OnlyDriver
  <2>2. rp'.op = "rollback" /\ RollbackAt(rp', host', audio', drv', tx', jnl', stage')
    BY <1>3, <2>1, RollbackOn
  <2>3. Fares(rp', host', audio', drv', tx', jnl', stage')
    BY <2>2 DEF Fares
  <2>4. QED
    BY <1>2, <1>3, <2>3, Goes
<1>4. CASE rp' = Unwound(r)
  <2>1. rp.kind # "none" /\ Purpose(rp)
    BY Here DEF RootSound, Kept
  <2>2. r.kind # "none" /\ Purpose(r)
    BY <2>1 DEF Purpose
  <2>3. rp' \in RootType /\ Placed(rp', host', audio', drv', tx', jnl', stage')
    BY <1>2, <1>4, <2>2, PlaceUnwound
  <2>4. QED
    BY <2>3 DEF RootPlaced
<1>5. QED
  BY <1>3, <1>4

\* The rollback moves a failed candidate away.
LEMMA ArchiveSound ==
  ASSUME RootSound, Working, RootArchive
  PROVE  RootStays
<1> DEFINE n == rp.done \cup {"archived"}
           r == [rp EXCEPT !.done = n]
<1>1. rp.op = "rollback" /\ rp.at = 6
  BY Here DEF RootSound, Kept, RootArchive, At, OpSound, OpPlaced
<1>2. OnlyDriver
  BY OnlyDriverIs DEF RootArchive
<1>3. \/ /\ drv.canonical = "candidate" /\ drv.failed = "none"
         /\ drv' \in {drv, Moved("canonical", "failed")}
         /\ (rp' = Advance(r) \/ rp' = Unwound(rp))
      \/ drv' = drv /\ (rp' = Advance(rp) \/ rp' = Unwound(rp))
  <2>1. r = [rp EXCEPT !.done = @ \cup {"archived"}]
    OBVIOUS
  <2> HIDE DEF r
  <2>2. CASE drv.canonical = "candidate" /\ drv.failed = "none"
    <3>1. rename_exclusive("canonical", "failed", r)
      BY <2>1, <2>2 DEF RootArchive, path_is_exact_candidate, verify_driver_bundle
    <3>2. QED
      BY <2>2, <3>1 DEF rename_exclusive, Succeeds, Breaks
  <2>3. CASE ~(drv.canonical = "candidate" /\ drv.failed = "none")
    BY <2>3 DEF RootArchive, path_is_exact_candidate, verify_driver_bundle, Succeeds, Refuses
  <2>4. QED
    BY <2>2, <2>3
<1>4. rp \in RootType
  BY DEF RootSound, Kept, Typed
<1>5. /\ r \in RootType /\ r.op = rp.op /\ r.at = rp.at /\ r.kind = rp.kind /\ r.what = rp.what
      /\ r.mem = rp.mem /\ ("aborted" \in r.done => "aborted" \in rp.done)
  <2>1. n \in SUBSET Done /\ ("aborted" \in n => "aborted" \in rp.done)
    BY <1>4 DEF RootType, Done
  <2> HIDE DEF n
  <2>2. QED
    BY <1>4, <2>1 DEF RootType
<1> HIDE DEF r
<1>6. rp' \in RootType /\ RootPlaced'
  BY <1>1, <1>2, <1>3, <1>4, <1>5, RollbackRenames
<1>7. /\ RollbackAt(rp, host, audio, drv, tx, jnl, stage) /\ ~Settled /\ Clean(rp, jnl)
  BY <1>1, RollbackHere, RollbackReverts
<1>8. Down(host) /\ tx.dir
  <2>1. jnl.at # "absent"
    BY <1>7 DEF Clean, UpdateState
  <2>2. QED
    BY <1>1, <1>7, <2>1, Directory DEF RollbackAt
<1>9. drv.canonical # "v7" => \A d : Truth(Effective(jnl), audio, d, jnl)
  BY <1>1, RollbackTruth
<1>10. CASE drv' = drv
  <2>1. UNCHANGED <<world, disk, out>> /\ waiting' = waiting
    BY <1>2, <1>10 DEF OnlyDriver, world, disk
  <2>2. QED
    BY <1>6, <2>1, StillSound
<1>11. CASE /\ drv.canonical = "candidate" /\ drv.failed = "none"
            /\ drv' = Moved("canonical", "failed")
  <2>1. Truth(Effective(jnl), audio, drv', jnl)
    BY <1>9, <1>11
  <2>2. QED
    BY <1>2, <1>6, <1>7, <1>8, <1>11, <2>1, RenameSound DEF Paths
<1>12. QED
  BY <1>3, <1>10, <1>11

\* The rollback puts the v7 driver back.
LEMMA RestoreSound ==
  ASSUME RootSound, Working, RootRestore
  PROVE  RootStays
<1>1. rp.op = "rollback" /\ rp.at = 8
  BY Here DEF RootSound, Kept, RootRestore, At, OpSound, OpPlaced
<1>2. OnlyDriver
  BY OnlyDriverIs DEF RootRestore
<1>3. \/ /\ drv.canonical = "none" /\ drv.prior = "v7"
         /\ \/ drv' = Moved("prior", "canonical") /\ rp' = Advance(rp)
            \/ drv' \in {drv, Moved("prior", "canonical")} /\ rp' = Unwound(rp)
      \/ drv' = drv /\ drv.canonical = "v7" /\ rp' = Advance(rp)
      \/ drv' = drv /\ rp' = Unwound(rp)
  BY DEF RootRestore, rename_exclusive, path_is_exact_v7, verify_driver_bundle,
     Succeeds, Breaks, Refuses
<1>4. rp \in RootType
  BY DEF RootSound, Kept, Typed
<1>5. drv.canonical = "none" /\ drv.prior = "v7" /\ drv' = Moved("prior", "canonical")
        => drv'.canonical = "v7"
  <2>1. SUFFICES ASSUME drv.canonical = "none", drv.prior = "v7", drv' = Moved("prior", "canonical")
                 PROVE  drv'.canonical = "v7"
    OBVIOUS
  <2>2. drv'["canonical"] = drv["prior"]
    BY <2>1, MovedIs DEF Paths
  <2>3. QED
    BY <2>1, <2>2
<1>6. rp' \in RootType /\ RootPlaced'
  BY <1>1, <1>2, <1>3, <1>4, <1>5, RollbackRenames
<1>7. /\ RollbackAt(rp, host, audio, drv, tx, jnl, stage) /\ ~Settled /\ Clean(rp, jnl)
  BY <1>1, RollbackHere, RollbackReverts
<1>8. Down(host) /\ tx.dir
  <2>1. jnl.at # "absent"
    BY <1>7 DEF Clean, UpdateState
  <2>2. QED
    BY <1>1, <1>7, <2>1, Directory DEF RollbackAt
<1>9. drv.canonical # "v7" => \A d : Truth(Effective(jnl), audio, d, jnl)
  BY <1>1, RollbackTruth
<1>10. CASE drv' = drv
  <2>1. UNCHANGED <<world, disk, out>> /\ waiting' = waiting
    BY <1>2, <1>10 DEF OnlyDriver, world, disk
  <2>2. QED
    BY <1>6, <2>1, StillSound
<1>11. CASE drv.canonical = "none" /\ drv.prior = "v7" /\ drv' = Moved("prior", "canonical")
  <2>1. Truth(Effective(jnl), audio, drv', jnl)
    BY <1>9, <1>11
  <2>2. QED
    BY <1>2, <1>6, <1>7, <1>8, <1>11, <2>1, RenameSound DEF Paths
<1>12. QED
  BY <1>3, <1>10, <1>11

----------------------------------------------------------------------------
(* Core Audio                                                                *)

\* Core Audio comes back with the driver that is installed.
LEMMA AudioTrue ==
  ASSUME RootSound, audio' \in {audio, Restarted}, UNCHANGED <<host, drv, jnl>>
  PROVE  /\ audio' \in [gen : Nat, drv : Bundle] /\ JournalTrue' /\ HostKnowing'
         /\ (audio' = Restarted => Synced(audio', drv'))
<1>1. audio \in [gen : Nat, drv : Bundle] /\ drv \in [Paths -> Bundle]
  BY DEF RootSound, Kept, Typed, TypeOK, Paths
<1>2. drv.canonical \in Bundle
  BY <1>1 DEF Paths
<1>3. /\ Restarted \in [gen : Nat, drv : Bundle] /\ Restarted.gen = audio.gen + 1
      /\ Synced(Restarted, drv)
  BY <1>1, <1>2 DEF Restarted, Synced
<1>4. HostKnowing'
  BY <1>3 DEF RootSound, HostKnowing, Synced
<1>5. JournalTrue'
  <2>1. CASE audio' = audio
    BY <2>1 DEF RootSound, JournalTrue
  <2>2. CASE audio' = Restarted
    <3>1. audio'.gen = audio.gen + 1 /\ Synced(audio', drv')
      BY <1>3, <2>2
    <3>2. Truth(Effective(jnl), audio, drv, jnl) /\ audio.gen \in Nat /\ jnl.old \in Nat
      BY <1>1 DEF RootSound, JournalTrue, Kept, Typed, JournalType
    <3>3. Truth(Effective(jnl'), audio', drv', jnl')
      BY <3>1, <3>2 DEF Truth
    <3>4. QED
      BY <3>3 DEF JournalTrue
  <2>3. QED
    BY <2>1, <2>2
<1>6. QED
  BY <1>1, <1>3, <1>4, <1>5

OnlyAudio == UNCHANGED <<host, births, drv, tx, jnl, st, routes, intact, tries, pin, usr, waiting,
                         out, stage, cut>>

\* What a restart of Core Audio leaves alone.
LEMMA OnlyAudioIs == ASSUME Only({"audio"}), Same PROVE OnlyAudio
  BY DEF Only, Keeps, Same, OnlyAudio

\* A restart of Core Audio loads the installed driver.
LEMMA AudioSound ==
  ASSUME RootSound, Working, OnlyAudio, audio' \in {audio, Restarted}, rp' \in RootType, RootPlaced'
  PROVE  RootStays
<1>1. rp.op # "none"
  BY Here DEF RootSound, Kept
<1>2. audio' \in [gen : Nat, drv : Bundle] /\ JournalTrue' /\ HostKnowing'
  BY AudioTrue DEF OnlyAudio
<1>3. Kept'
  <2>1. TypeOK'
    BY <1>2 DEF RootSound, Kept, Typed, TypeOK, OnlyAudio
  <2>2. QED
    BY <2>1 DEF RootSound, Kept, Typed, PriorDriverKept, OnlyAudio
<1>4. Begun'
  BY <1>1 DEF RootSound, Begun, OnlyAudio
<1>5. ResultsTrue'
  BY DEF RootSound, ResultsTrue, OnlyAudio
<1>6. Lasts(jnl, jnl') /\ Sealed /\ Steady
  BY DEF Lasts, Sealed, Steady, OnlyAudio
<1>7. QED
  BY <1>2, <1>3, <1>4, <1>5, <1>6 DEF RootStays, RootSound

\* The restarts of Core Audio by the transaction and by the rollback.
LEMMA ReloadSound ==
  ASSUME RootSound, Working, RootReload \/ RootReloadPrior
  PROVE  RootStays
<1>1. (rp.op = "forward" /\ rp.at = 19) \/ (rp.op = "rollback" /\ rp.at = 11)
  BY Here DEF RootSound, Kept, RootReload, RootReloadPrior, At, OpSound, OpPlaced
<1>2. OnlyAudio
  BY OnlyAudioIs DEF RootReload, RootReloadPrior
<1>3. \/ audio' = Restarted /\ rp' = Advance(rp)
      \/ audio' = audio /\ rp.op = "rollback" /\ audio.gen = jnl.old + 1 /\ rp' = Advance(rp)
      \/ audio' \in {audio, Restarted} /\ rp' = Unwound(rp)
  <2>1. CASE RootReload
    BY <2>1 DEF RootReload, reload_coreaudio_exact, Succeeds, Refuses, Breaks
  <2>2. CASE RootReloadPrior
    <3>1. rp.op = "rollback"
      BY <2>2, Here DEF RootSound, Kept, RootReloadPrior, At, OpSound, OpPlaced
    <3>2. QED
      BY <2>2, <3>1 DEF RootReloadPrior, reload_coreaudio_exact, Succeeds, Refuses, Breaks
  <2>3. QED
    BY <2>1, <2>2
<1>4. rp \in RootType
  BY DEF RootSound, Kept, Typed
<1>5. (rp' = Advance(rp) /\ Synced(audio', drv')) \/ rp' = Unwound(rp)
  <2>1. audio' = Restarted => Synced(audio', drv')
    BY <1>2, AudioTrue DEF OnlyAudio
  <2>2. ASSUME audio' = audio, rp.op = "rollback", audio.gen = jnl.old + 1
        PROVE  Synced(audio', drv')
    <3>1. Effective(jnl) = "ROLLBACK_COREAUDIO_RELOAD_INITIATED"
      BY <1>1, <2>2, RollbackReverts DEF Fits
    <3>2. audio.gen > jnl.old
      BY <2>2 DEF RootSound, Kept, Typed, JournalType
    <3>3. Synced(audio, drv)
      BY <3>1, <3>2 DEF RootSound, JournalTrue, Truth
    <3>4. QED
      BY <1>2, <2>2, <3>3 DEF OnlyAudio
  <2>3. QED
    BY <1>3, <2>1, <2>2
<1>6. rp' \in RootType /\ RootPlaced'
  <2>1. CASE rp' = Advance(rp) /\ Synced(audio', drv')
    <3>1. CASE rp.op = "forward"
      <4>1. ForwardAt(rp, host, audio, drv, tx, jnl, stage) /\ rp.at = 19
        BY <1>1, <3>1, ForwardHere
      <4>2. rp'.op = "forward" /\ rp'.at = 20 /\ rp'.mem = rp.mem
        BY <1>4, <2>1, <3>1, <4>1, ForwardOn DEF ForwardAt
      <4>3. ForwardAt(rp', host', audio', drv', tx', jnl', stage')
        BY <1>2, <1>5, <2>1, <4>1, <4>2 DEF ForwardAt, Clean, OnlyAudio
      <4>4. Fares(rp', host', audio', drv', tx', jnl', stage')
        BY <4>2, <4>3 DEF Fares
      <4>5. QED
        BY <1>2, <1>4, <2>1, <4>4, Here, Goes DEF RootSound, Kept, OnlyAudio
    <3>2. CASE rp.op = "rollback"
      <4>1. /\ RollbackAt(rp, host, audio, drv, tx, jnl, stage) /\ rp.at = 11
            /\ Clean(rp, jnl) /\ Fits(rp)
        BY <1>1, <3>2, RollbackHere, RollbackReverts
      <4>2. /\ Clean(rp, jnl') /\ "abort" \notin stage' /\ Down(host') /\ drv'.canonical = "v7"
        BY <1>2, <4>1 DEF Clean, RollbackAt, OnlyAudio
      <4>3. rp'.op = "rollback" /\ RollbackAt(rp', host', audio', drv', tx', jnl', stage')
        BY <1>4, <1>5, <2>1, <3>2, <4>1, <4>2, RollbackOn
      <4>4. Fares(rp', host', audio', drv', tx', jnl', stage')
        BY <4>3 DEF Fares
      <4>5. QED
        BY <1>2, <1>4, <2>1, <4>4, Here, Goes DEF RootSound, Kept, OnlyAudio
    <3>3. QED
      BY <1>1, <3>1, <3>2
  <2>2. CASE rp' = Unwound(rp)
    BY <1>2, <2>2, AlikeSelf, FailsHere DEF OnlyAudio
  <2>3. QED
    BY <1>5, <2>1, <2>2
<1>7. QED
  BY <1>2, <1>3, <1>6, AudioSound

----------------------------------------------------------------------------
(* The root process as a whole                                               *)

\* What every step of the system keeps: what is true of the machine, what is
\* settled, what is sealed, and the driver and the host of a settled transaction.
Upheld ==
    /\ RootSound' /\ AnswerTrue' /\ Lasts(jnl, jnl') /\ stage \subseteq stage' /\ Steady

\* An answer that was true stays true.
LEMMA AnswerStays ==
  ASSUME AnswerTrue, Lasts(jnl, jnl'), stage \subseteq stage', out' = out
  PROVE  AnswerTrue'
  BY DEF AnswerTrue, Reports, Lasts, Terminal

\* An operation of the root process leaves the user's program alone.
LEMMA WorksKeep ==
  ASSUME RootWorks
  PROVE  UNCHANGED <<usr, waiting, out>>
<1>1. ASSUME NEW S, Only(S) PROVE UNCHANGED <<usr, waiting, out>>
  BY <1>1 DEF Only, Keeps
<1>2. \E S : Only(S)
  BY DEF RootWorks, RootRecord, RootWrite, RootAdmit, RootLayout, RootCreate, write_root_pointer,
     stage_root_artifacts, RootRecheck, allocate_rollback_reserve, RootRevalidate,
     write_root_state_tracked, stop_exact_v8_host, stop_v8_host_for_rollback, RootRetain,
     publish_candidate_driver, RootReload, run_passive_driver_validation, restart_exact_v8_host,
     RootReady, RootPairing, release_rollback_reserve_descriptor, RootResume, RootScope,
     RootArchive, RootRestore, RootReloadPrior, RootDiscover, RootUnreserve, RootVerifySettled,
     write_root_result, write_root_recovery_result, RootExamine, RootSettle, RootAbortResult
<1>3. QED
  BY <1>1, <1>2

\* Every operation of every plan keeps what is true of the machine.
LEMMA WorksSound ==
  ASSUME RootSound, Working, RootWorks
  PROVE  RootStays
<1>1. CASE RootRecord \/ RootWrite \/ RootAdmit \/ RootLayout \/ RootCreate \/ write_root_pointer
  BY <1>1, RecordSound, WriteSound, AdmitSound, LayoutSound, CreateSound, PointerSound
<1>2. CASE \/ stage_root_artifacts \/ RootRecheck \/ allocate_rollback_reserve \/ RootRevalidate
           \/ write_root_state_tracked \/ stop_exact_v8_host \/ stop_v8_host_for_rollback
  BY <1>2, ArtifactsSound, RecheckSound, PointerSound, StopIntentSound, StopSound, StopAnySound
<1>3. CASE \/ RootRetain \/ publish_candidate_driver \/ RootReload \/ run_passive_driver_validation
           \/ restart_exact_v8_host \/ RootReady \/ RootPairing
           \/ release_rollback_reserve_descriptor
  BY <1>3, RetainSound, ReloadSound, RecheckSound, RestartSound, ScopeSound, PointerSound
<1>4. CASE RootResume \/ RootScope \/ RootArchive \/ RootRestore \/ RootReloadPrior
  BY <1>4, ResumeSound, ScopeSound, ArchiveSound, RestoreSound, ReloadSound
<1>5. CASE \/ RootDiscover \/ RootUnreserve \/ RootVerifySettled \/ write_root_result
           \/ write_root_recovery_result \/ RootExamine \/ RootSettle \/ RootAbortResult
  BY <1>5, DiscoverSound, UnreserveSound, VerifySettledSound, ResultSound, RecoveryResultSound,
     ExamineSound, SettleSound, AbortResultSound
<1>6. QED
  BY <1>1, <1>2, <1>3, <1>4, <1>5 DEF RootWorks

\* The same, with the answer to the user's program.
LEMMA WorksUpheld ==
  ASSUME RootSound, AnswerTrue, Working, RootWorks
  PROVE  /\ Upheld /\ UNCHANGED <<usr, waiting>> /\ tx'.lock = tx.lock
         /\ stage' \subseteq stage \cup {"abort"}
<1>1. RootStays /\ UNCHANGED <<usr, waiting, out>>
  BY WorksSound, WorksKeep
<1>2. AnswerTrue'
  BY <1>1, AnswerStays DEF RootStays, Sealed
<1>3. QED
  BY <1>1, <1>2 DEF Upheld, RootStays, Sealed

----------------------------------------------------------------------------
(* A root process ends, dies or starts                                       *)

\* No process is well placed.
LEMMA NoRootPlaced ==
  ASSUME rp' = NoRoot
  PROVE  rp' \in RootType /\ RootPlaced'
<1>1. NoRoot \in RootType
  BY OpsAre DEF NoRoot, RootType, JournalAt, UpdateState, Told, Done
<1>2. Len(PlanOf["none"]) = 0
  BY PlanLengths
<1>3. /\ NoRoot.op = "none" /\ NoRoot.at = 0 /\ NoRoot.done = {}
  BY DEF NoRoot
<1>4. DueHere(NoRoot) /\ Purpose(NoRoot)
  BY <1>2, <1>3 DEF DueHere, Purpose
<1>5. Placed(rp', host', audio', drv', tx', jnl', stage')
  BY <1>3, <1>4 DEF Placed
<1>6. QED
  BY <1>1, <1>5 DEF RootPlaced

\* A process that is gone leaves what is true of the machine.
LEMMA EndSound ==
  ASSUME RootSound, rp.op # "none", UNCHANGED <<world, tries, pin, stage, cut, jnl, st, waiting>>,
         tx' \in {tx, [tx EXCEPT !.result = "critical-failure"]}, out' \in AnswerType,
         rp' \in RootType, RootPlaced'
  PROVE  RootSound' /\ Lasts(jnl, jnl') /\ stage \subseteq stage' /\ Steady /\ tx'.lock = tx.lock
<1>1. UNCHANGED <<host, births, audio, routes, drv, intact>>
  BY DEF world
<1>2. /\ tx' \in TxType /\ tx'.lock = tx.lock /\ tx'.dir = tx.dir /\ tx'.ptr = tx.ptr
      /\ tx'.recovery = tx.recovery /\ (tx'.result = tx.result \/ tx'.result = "critical-failure")
  BY DEF RootSound, Kept, Typed, TxType
<1>3. Kept'
  <2>1. TypeOK'
    BY <1>1, <1>2 DEF RootSound, Kept, Typed, TypeOK, TxType, AnswerType
  <2>2. QED
    BY <1>1, <1>2, <2>1 DEF RootSound, Kept, Typed, PriorDriverKept
<1>4. JournalTrue' /\ HostKnowing'
  BY <1>1 DEF RootSound, JournalTrue, HostKnowing
<1>5. Begun'
  BY <1>1, <1>2 DEF RootSound, Begun
<1>6. ResultsTrue'
  BY <1>1, <1>2 DEF RootSound, ResultsTrue
<1>7. QED
  BY <1>1, <1>2, <1>3, <1>4, <1>5, <1>6 DEF RootSound, Lasts, Steady

\* No answer and a failure claim nothing.
LEMMA FailedAnswer ==
    NoAnswer \in AnswerType /\ Said_failed \in AnswerType /\ Said_failed.is # "ok"
    /\ NoAnswer.is # "ok"
<1>1. NoAnswer \in AnswerType /\ NoAnswer.is = "none"
  BY DEF NoAnswer, AnswerType, Told
<1>2. QED
  BY <1>1 DEF Said_failed, AnswerType

\* A root process dies.
LEMMA DiesUpheld ==
  ASSUME RootSound, AnswerTrue, RootDies
  PROVE  Upheld /\ UNCHANGED <<usr, waiting>> /\ tx'.lock = tx.lock
<1>1. /\ rp.op # "none" /\ UNCHANGED <<world, disk, usr, waiting>>
      /\ out' \in {Said_failed, out}
  BY DEF RootDies, Answer
<1>2. out' \in AnswerType /\ (out'.is = "ok" => out' = out)
  BY <1>1, FailedAnswer DEF RootSound, Kept, Typed
<1>3. rp' \in RootType /\ RootPlaced'
  BY NoRootPlaced DEF RootDies
<1>4. UNCHANGED <<tries, pin, stage, cut, tx, jnl, st>>
  BY <1>1 DEF disk
<1>5. RootSound' /\ Lasts(jnl, jnl') /\ stage \subseteq stage' /\ Steady /\ tx'.lock = tx.lock
  BY <1>1, <1>2, <1>3, <1>4, EndSound
<1>6. AnswerTrue'
  BY <1>2, <1>5, AnswerStays DEF AnswerTrue
<1>7. QED
  BY <1>1, <1>5, <1>6 DEF Upheld

\* What a plan has shown once all its operations are done.
LEMMA PlanDone ==
  ASSUME RootSound, rp.op # "none", ~Working
  PROVE  /\ rp.op = "forward" => jnl.at = "COMMITTED"
         /\ rp.op = "pointerless" => "abort" \in stage
         /\ rp.op = "tail" => Reports(rp.what, jnl)
         /\ rp.kind = "recovery" /\ rp.op \notin {"over", "failure", "tail", "pointerless"} =>
              Reports(rp.what, jnl)
         /\ "aborted" \in rp.done => jnl.at = "PRESTOP_ABORTED"
<1>1. /\ rp \in RootType /\ rp.op \in Ops /\ rp.at \in Nat
      /\ Placed(rp, host, audio, drv, tx, jnl, stage)
  BY DEF RootSound, Kept, Typed, RootType, RootPlaced
<1>2. rp.at >= 1 /\ Purpose(rp)
  BY <1>1 DEF Placed
<1>3. rp.at > Len(PlanOf[rp.op])
  BY <1>1, <1>2, LengthNat DEF Working
<1>4. rp.op = "forward" => jnl.at = "COMMITTED"
  <2>1. SUFFICES ASSUME rp.op = "forward" PROVE jnl.at = "COMMITTED"
    OBVIOUS
  <2>2. rp.at >= 29 /\ ForwardAt(rp, host, audio, drv, tx, jnl, stage)
    BY <1>1, <1>3, <2>1, PlanLengths DEF Placed
  <2>3. QED
    BY <2>2 DEF ForwardAt
<1>5. rp.op = "pointerless" => "abort" \in stage
  <2>1. SUFFICES ASSUME rp.op = "pointerless" PROVE "abort" \in stage
    OBVIOUS
  <2>2. rp.at >= 6 /\ PointerlessAt(rp, drv, tx, jnl, stage)
    BY <1>1, <1>3, <2>1, PlanLengths DEF Placed
  <2>3. QED
    BY <2>2 DEF PointerlessAt
<1>6. rp.op = "tail" => Reports(rp.what, jnl)
  BY <1>1 DEF Placed
<1>7. ASSUME rp.kind = "recovery", rp.op \notin {"over", "failure", "tail", "pointerless"}
      PROVE  Reports(rp.what, jnl)
  <2>1. rp.op \in {"rollback", "prestop", "committed", "rolledBack", "report"}
    BY <1>1, <1>2, <1>7, OpsAre DEF Purpose
  <2>2. CASE rp.op = "rollback"
    <3>1. jnl.at = "ROLLED_BACK"
      BY <1>1, <1>3, <2>2, PlanLengths DEF Placed, RollbackAt, Clean
    <3>2. QED
      BY <1>2, <1>7, <2>2, <3>1 DEF Purpose, Reports
  <2>3. CASE rp.op = "prestop"
    <3>1. jnl.at = "PRESTOP_ABORTED"
      BY <1>1, <1>3, <2>3, PlanLengths DEF Placed, PrestopAt
    <3>2. QED
      BY <1>2, <1>7, <2>3, <3>1 DEF Purpose, Reports
  <2>4. CASE rp.op \in {"committed", "rolledBack", "report"}
    <3>1. /\ rp.op = "committed" => jnl.at = "COMMITTED"
          /\ rp.op = "rolledBack" => jnl.at = "ROLLED_BACK"
          /\ rp.op = "report" => jnl.at = "PRESTOP_ABORTED"
      <4>1. rp.at >= 2 /\ SettledAt(rp, jnl)
        <5>1. Len(PlanOf[rp.op]) = 3 \/ Len(PlanOf[rp.op]) = 2
          BY <2>4, PlanLengths
        <5>2. SettledAt(rp, jnl)
          BY <1>1, <2>4 DEF Placed
        <5>3. rp.at >= 2
          <6> DEFINE n == Len(PlanOf[rp.op])
                     i == rp.at
          <6>1. i \in Nat /\ i > n /\ (n = 3 \/ n = 2)
            BY <1>1, <1>3, <5>1
          <6> HIDE DEF n, i
          <6>2. i >= 2
            BY <6>1
          <6>3. QED
            BY <6>2 DEF i
        <5>4. QED
          BY <5>2, <5>3
      <4>2. (rp.op = "committed" \/ rp.op = "rolledBack") \/ rp.op = "report"
        BY <2>4
      <4>3. QED
        BY <4>1, <4>2, SMT DEF SettledAt
    <3>2. QED
      BY <1>2, <1>7, <2>4, <3>1 DEF Purpose, Reports
  <2>5. QED
    BY <2>1, <2>2, <2>3, <2>4
<1>8. QED
  BY <1>1, <1>4, <1>5, <1>6, <1>7 DEF Placed

\* The marker of a process that succeeded says what its plan has done.
LEMMA MarkerIs ==
  ASSUME RootSound, rp.op \in {"forward", "tail", "pointerless"}, NEW m, m = Marker(rp)
  PROVE  /\ m \in AnswerType /\ m.is = "ok"
         /\ rp.op = "forward" => m.what = "committed"
         /\ rp.op = "pointerless" => m.what = "pointerless"
         /\ rp.op = "tail" => m.what = rp.what
<1> DEFINE w == CASE rp.op = "forward" -> "committed"
                  [] rp.op = "pointerless" -> "pointerless" [] OTHER -> rp.what
           c == rp.op \in {"forward", "pointerless"} \/ rp.calm
<1>1. m = [is |-> "ok", host |-> rp.seen, first |-> rp.first, what |-> w, calm |-> c]
  BY DEF Marker
<1>2. rp.seen \in Nat /\ rp.first \in BOOLEAN /\ rp.what \in Told
  BY DEF RootSound, Kept, Typed, RootType
<1>3. /\ rp.op = "forward" => w = "committed"
      /\ rp.op = "pointerless" => w = "pointerless"
      /\ rp.op = "tail" => w = rp.what
  OBVIOUS
<1>4. w \in Told \cup {"pointerless"}
  BY <1>2, <1>3 DEF Told
<1>5. c \in BOOLEAN
  OBVIOUS
<1> HIDE DEF w, c
<1>6. m \in AnswerType
  BY <1>1, <1>2, <1>4, <1>5 DEF AnswerType
<1>7. m.is = "ok" /\ m.what = w
  BY <1>1
<1>8. QED
  BY <1>3, <1>6, <1>7

\* A root process ends, or goes on with the tail of its recovery.
LEMMA EndsUpheld ==
  ASSUME RootSound, AnswerTrue, RootEnds
  PROVE  Upheld /\ UNCHANGED <<usr, waiting>> /\ tx'.lock = tx.lock
<1>1. /\ rp.op # "none" /\ ~Working
      /\ UNCHANGED <<world, tries, pin, stage, cut, jnl, st, usr, waiting>>
  BY DEF RootEnds
<1>2. rp \in RootType /\ out \in AnswerType /\ Placed(rp, host, audio, drv, tx, jnl, stage)
  BY DEF RootSound, Kept, Typed, RootPlaced
<1>3. CASE rp.kind = "recovery" /\ rp.op \notin {"over", "failure", "tail", "pointerless"}
  <2>1. rp' = Enter(rp, "tail") /\ UNCHANGED <<tx, out>>
    BY <1>3 DEF RootEnds
  <2>2. "tail" \in Ops /\ "tail" # "none"
    BY OpsAre
  <2>3. /\ rp'.op = "tail" /\ rp'.kind = rp.kind /\ rp'.what = rp.what
    BY <1>2, <2>1, <2>2, EnterIs
  <2>4. Purpose(rp') /\ Fares(rp', host', audio', drv', tx', jnl', stage')
    BY <1>1, <1>3, <2>3, PlanDone DEF Purpose, Fares, Reports
  <2>5. "aborted" \in rp.done => jnl'.at = "PRESTOP_ABORTED"
    BY <1>1, PlanDone
  <2>6. rp' \in RootType /\ RootPlaced'
    <3>1. rp' \in RootType /\ Placed(rp', host', audio', drv', tx', jnl', stage')
      BY <1>2, <1>3, <2>1, <2>2, <2>4, <2>5, PlaceEnter
    <3>2. QED
      BY <3>1 DEF RootPlaced
  <2>7. RootSound' /\ Lasts(jnl, jnl') /\ stage \subseteq stage' /\ Steady /\ tx'.lock = tx.lock
    BY <1>1, <1>2, <2>1, <2>6, EndSound
  <2>8. QED
    BY <1>1, <2>1, <2>7, AnswerStays DEF Upheld
<1>4. CASE ~(rp.kind = "recovery" /\ rp.op \notin {"over", "failure", "tail", "pointerless"})
  <2> DEFINE says == rp.op \in {"forward", "tail", "pointerless"}
  <2>1. /\ rp' = NoRoot /\ tx' \in {tx, [tx EXCEPT !.result = "critical-failure"]}
        /\ out' = out \/ (says /\ out' = Marker(rp)) \/ out' = Said_failed
    BY <1>4 DEF RootEnds, Answer
  <2>2. out' \in AnswerType
    BY <1>2, <2>1, MarkerIs, FailedAnswer
  <2>3. rp' \in RootType /\ RootPlaced'
    BY <2>1, NoRootPlaced
  <2>4. RootSound' /\ Lasts(jnl, jnl') /\ stage \subseteq stage' /\ Steady /\ tx'.lock = tx.lock
    BY <1>1, <2>1, <2>2, <2>3, EndSound
  <2>5. AnswerTrue'
    <3>1. CASE out' = out
      BY <2>4, <3>1, AnswerStays
    <3>2. CASE out' = Said_failed
      BY <3>2, FailedAnswer DEF AnswerTrue
    <3>3. CASE says /\ out' = Marker(rp)
      <4>1. /\ rp.op = "forward" => out'.what = "committed"
            /\ rp.op = "pointerless" => out'.what = "pointerless"
            /\ rp.op = "tail" => out'.what = rp.what
        BY <3>3, MarkerIs
      <4>2. UNCHANGED <<stage, jnl>>
        BY <1>1
      <4>3. /\ rp.op = "forward" => jnl.at = "COMMITTED"
            /\ rp.op = "pointerless" => "abort" \in stage
            /\ rp.op = "tail" => Reports(rp.what, jnl)
        BY <1>1, PlanDone
      <4>4. CASE rp.op = "forward"
        BY <4>1, <4>2, <4>3, <4>4 DEF AnswerTrue, Reports
      <4>5. CASE rp.op = "pointerless"
        BY <4>1, <4>2, <4>3, <4>5 DEF AnswerTrue, Reports
      <4>6. CASE rp.op = "tail"
        BY <4>1, <4>2, <4>3, <4>6 DEF AnswerTrue, Reports
      <4>7. QED
        BY <3>3, <4>4, <4>5, <4>6
    <3>4. QED
      BY <2>1, <3>1, <3>2, <3>3
  <2>6. QED
    BY <1>1, <2>4, <2>5 DEF Upheld
<1>5. QED
  BY <1>3, <1>4

\* A process that has just taken the lock.
LEMMA RootTaken ==
  ASSUME NEW k \in {"forward", "recovery"}, NEW o \in BOOLEAN, NEW r,
         r = [NoRoot EXCEPT !.kind = k, !.own = o]
  PROVE  r \in RootType /\ r.kind = k /\ r.mem = "BEGUN" /\ r.done = {} /\ r.op = "none"
<1>1. NoRoot \in RootType
  BY OpsAre DEF NoRoot, RootType, JournalAt, UpdateState, Told, Done
<1>2. NoRoot.mem = "BEGUN" /\ NoRoot.done = {} /\ NoRoot.op = "none"
  BY DEF NoRoot
<1> HIDE DEF NoRoot
<1>3. QED
  BY <1>1, <1>2 DEF RootType

\* The plan of a recovery is chosen by what the journal says and by what the
\* state file says of it.
LEMMA RecoveryPlanIs ==
  ASSUME RootSound, NEW p, p = root_recovery_plan(effective_state_with_pending, st.at), p # "reject"
  PROVE  /\ p \in {"prestop", "rollback", "committed", "rolledBack", "report"}
         /\ jnl.at \in UpdateState
         /\ p = "report" => jnl.at = "PRESTOP_ABORTED"
<1> DEFINE e == effective_state_with_pending
<1>1. /\ jnl \in JournalType /\ st.at \in UpdateState \cup {"none"}
      /\ e = Effective(jnl) \/ e = "diverged"
  BY DEF Effective, effective_state_with_pending, RootSound, Kept, Typed, StateFileType
<1>2. e \in JournalAt \cup {"diverged"} /\ (e \in UpdateState => jnl.at \in UpdateState)
  BY <1>1, EffectiveIs DEF UpdateState
<1> HIDE DEF e
<1>3. /\ p \in {"prestop", "rollback", "committed", "rolledBack", "report"}
      /\ p # "rollback" => e \in {"BEGUN", "AUTHENTICATED", "PRESTOP_ABORTED", "COMMITTED", "ROLLED_BACK"}
      /\ p = "report" => e = "PRESTOP_ABORTED" /\ st.at = "PRESTOP_ABORTED"
      /\ p = "rollback" => e = "AUTHENTICATED" \/ journal_and_root_state_are_crash_coherent(e, st.at)
  <2>1. p = root_recovery_plan(e, st.at)
    BY DEF e
  <2>2. QED
    BY <2>1 DEF root_recovery_plan
<1>4. journal_and_root_state_are_crash_coherent(e, st.at) => e \in UpdateState
  <2>1. ASSUME Follows(Cutover, st.at, e) PROVE e \in UpdateState
    BY <2>1, CutoverFollows, CutoverIs DEF UpdateState
  <2>2. ASSUME Follows(Undo, st.at, e) PROVE e \in UpdateState
    BY <2>2, UndoFollows, StatesAre DEF UpdateState
  <2>3. e = st.at => e \in UpdateState
    BY <1>1, <1>2 DEF JournalAt, UpdateState
  <2>4. QED
    BY <2>1, <2>2, <2>3 DEF journal_and_root_state_are_crash_coherent, UpdateState
<1>5. e \in UpdateState
  BY <1>3, <1>4 DEF UpdateState
<1>6. p = "report" => jnl.at = "PRESTOP_ABORTED"
  <2>1. SUFFICES ASSUME p = "report" PROVE jnl.at = "PRESTOP_ABORTED"
    OBVIOUS
  <2>2. Aborted(jnl)
    BY <1>3, <2>1 DEF RootSound, ResultsTrue
  <2>3. QED
    BY <1>2, <1>5, <2>2 DEF Aborted, UpdateState
<1>7. QED
  BY <1>2, <1>3, <1>5, <1>6

\* A transaction begins with its first operation.
LEMMA ForwardTaken ==
  ASSUME NEW r \in RootType, r.kind = "forward", r.mem = "BEGUN", r.done = {},
         rp' = Enter(r, "forward")
  PROVE  rp' \in RootType /\ RootPlaced'
<1>1. "forward" \in Ops /\ "forward" \in Starting /\ "BEGUN" \in UpdateState
  BY OpsAre DEF Starting, UpdateState
<1>2. rp'.op = "forward" /\ rp'.mem = r.mem /\ rp'.kind = r.kind
  BY <1>1, EnterIs
<1>3. Enter(r, "forward").at = 1
  BY <1>1, EnterFirst
<1>4. rp'.at = 1
  BY <1>3
<1>5. ForwardAt(rp', host', audio', drv', tx', jnl', stage')
  BY <1>1, <1>2, <1>4 DEF ForwardAt
<1>6. Purpose(rp') /\ Fares(rp', host', audio', drv', tx', jnl', stage')
  BY <1>2, <1>5 DEF Purpose, Fares
<1>7. rp' \in RootType /\ Placed(rp', host', audio', drv', tx', jnl', stage')
  BY <1>1, <1>6, PlaceEnter
<1>8. QED
  BY <1>7 DEF RootPlaced

\* A root process that has the lock finds its place: a transaction at its
\* beginning, a recovery at the beginning of the plan it chooses.
LEMMA TakenPlaced ==
  ASSUME RootSound, NEW k \in {"forward", "recovery"}, NEW o \in BOOLEAN, NEW r,
         r = [NoRoot EXCEPT !.kind = k, !.own = o],
         rp' = IF k = "forward" THEN Enter(r, "forward") ELSE root_sealed_rollback_authorized_update(r),
         tx' = [tx EXCEPT !.lock = TRUE,
                  !.ptr = IF k = "recovery" /\ verify_fixed_root_recovery_controller
                          THEN reconcile_root_pointer_for_recovery ELSE @],
         UNCHANGED <<host, audio, drv, jnl, stage>>
  PROVE  rp' \in RootType /\ RootPlaced'
<1>1. r \in RootType /\ r.kind = k /\ r.mem = "BEGUN" /\ r.done = {} /\ r.op = "none"
  BY RootTaken
<1>2. "BEGUN" \in UpdateState
  BY DEF UpdateState
<1> HIDE DEF NoRoot
<1>3. CASE k = "forward"
  <2>1. rp' = Enter(r, "forward")
    BY <1>3
  <2>2. QED
    BY <1>1, <1>3, <2>1, ForwardTaken
<1>4. CASE k = "recovery" /\ rp' = Over(r)
  BY <1>1, <1>4, OverPlaced
<1>5. CASE /\ k = "recovery" /\ verify_fixed_root_recovery_controller
           /\ reconcile_root_pointer_for_recovery # "published"
           /\ rp' = Enter([r EXCEPT !.what = "prestop-aborted"], "pointerless")
  <2> DEFINE q == [r EXCEPT !.what = "prestop-aborted"]
  <2>1. q \in RootType /\ q.kind = "recovery" /\ q.mem = "BEGUN" /\ q.done = {}
        /\ q.what = "prestop-aborted"
    BY <1>1, <1>5 DEF RootType, Told
  <2>2. rp' = Enter(q, "pointerless") /\ "pointerless" \in Ops /\ "pointerless" \in Starting
    BY <1>5, OpsAre DEF Starting
  <2> HIDE DEF q
  <2>3. /\ rp'.op = "pointerless" /\ rp'.mem = "BEGUN" /\ rp'.kind = "recovery" /\ rp'.at = 1
        /\ rp'.what = "prestop-aborted"
    BY <1>2, <2>1, <2>2, EnterIs, EnterFirst
  <2>4. tx'.ptr \notin {"published", "pending"}
    BY <1>5 DEF reconcile_root_pointer_for_recovery, RootSound, Kept, Typed, TxType
  <2>5. Purpose(rp') /\ Fares(rp', host', audio', drv', tx', jnl', stage')
    BY <1>2, <2>3, <2>4 DEF Purpose, Fares, PointerlessAt
  <2>6. rp' \in RootType /\ Placed(rp', host', audio', drv', tx', jnl', stage')
    BY <2>1, <2>2, <2>5, PlaceEnter
  <2>7. QED
    BY <2>6 DEF RootPlaced
<1>6. CASE /\ k = "recovery" /\ reconcile_root_pointer_for_recovery = "published"
           /\ rp' = complete_root_recovery(r)
  <2> DEFINE p == root_recovery_plan(effective_state_with_pending, st.at)
             q == [r EXCEPT !.mem = jnl.at, !.init = st.init, !.routes = st.routes,
                            !.what = Outcome(p)]
  <2>1. rp' = Over(r) \/ (p # "reject" /\ rp' = Enter(q, p))
    BY <1>6 DEF complete_root_recovery
  <2>2. "abort" \notin stage
    BY <1>6 DEF reconcile_root_pointer_for_recovery, RootSound, Begun
  <2>3. /\ p # "reject" => p \in {"prestop", "rollback", "committed", "rolledBack", "report"}
        /\ p # "reject" => jnl.at \in UpdateState
        /\ p = "report" => jnl.at = "PRESTOP_ABORTED"
    BY RecoveryPlanIs
  <2>4. /\ Outcome(p) \in Told
        /\ p = "committed" => Outcome(p) = "committed"
        /\ p \in {"rollback", "rolledBack"} => Outcome(p) = "rolled-back"
        /\ p \in {"prestop", "report"} => Outcome(p) = "prestop-aborted"
    BY DEF Outcome, Told
  <2> DEFINE w == Outcome(p)
             a == jnl.at
             n == st.init
             t == st.routes
  <2>5. a \in JournalAt /\ n \in Nat /\ t \in {"base", "drifted"}
    BY DEF RootSound, Kept, Typed, JournalType, StateFileType
  <2>6. q = [r EXCEPT !.mem = a, !.init = n, !.routes = t, !.what = w]
    OBVIOUS
  <2>7. w \in Told /\ jnl.at = a
    BY <2>4
  <2>8. /\ p = "committed" => w = "committed"
        /\ p \in {"rollback", "rolledBack"} => w = "rolled-back"
        /\ p \in {"prestop", "report"} => w = "prestop-aborted"
    BY <2>4
  <2> HIDE DEF w, a, n, t, q, p
  <2>9. q \in RootType
    BY <1>1, <2>5, <2>6, <2>7 DEF RootType
  <2>10. q.kind = "recovery" /\ q.mem = jnl.at /\ q.done = {} /\ q.what = w
    BY <1>1, <1>6, <2>6, <2>7 DEF RootType
  <2>11. CASE rp' = Over(r)
    BY <1>1, <1>6, <2>11, OverPlaced
  <2>12. CASE p # "reject" /\ rp' = Enter(q, p)
    <3>1. p \in Ops /\ p \in Starting /\ p # "none" /\ jnl.at \in UpdateState
      BY <2>3, <2>12, OpsAre DEF Starting
    <3>2. /\ rp'.op = p /\ rp'.mem = jnl.at /\ rp'.kind = "recovery" /\ rp'.at = 1 /\ rp'.what = w
      BY <2>9, <2>10, <2>12, <3>1, EnterIs, EnterFirst
    <3>3. Purpose(rp')
      BY <2>3, <2>8, <2>12, <3>2 DEF Purpose
    <3>4. "abort" \notin stage' /\ jnl' = jnl
      BY <2>2
    <3>5. Fares(rp', host', audio', drv', tx', jnl', stage')
      BY <2>3, <2>12, <3>1, <3>2, <3>4 DEF Fares, RollbackAt, PrestopAt, SettledAt
    <3>6. rp' \in RootType /\ Placed(rp', host', audio', drv', tx', jnl', stage')
      BY <2>9, <2>10, <2>12, <3>1, <3>3, <3>5, PlaceEnter
    <3>7. QED
      BY <3>6 DEF RootPlaced
  <2>13. QED
    BY <2>1, <2>11, <2>12
<1>7. QED
  BY <1>3, <1>4, <1>5, <1>6 DEF root_sealed_rollback_authorized_update

\* A root process takes the lock, or finds it taken.
LEMMA StartsUpheld ==
  ASSUME RootSound, AnswerTrue, RootStarts
  PROVE  Upheld /\ usr' = usr /\ waiting # {} /\ waiting' \subseteq waiting
<1>1. PICK p \in waiting :
        /\ waiting' = waiting \ {p}
        /\ IF acquire_root_update_lock
           THEN LET r == [NoRoot EXCEPT !.kind = p.kind, !.own = p.own] IN
                /\ rp' = IF p.kind = "forward" THEN Enter(r, "forward")
                         ELSE root_sealed_rollback_authorized_update(r)
                /\ tx' = [tx EXCEPT !.lock = TRUE,
                            !.ptr = IF p.kind = "recovery" /\ verify_fixed_root_recovery_controller
                                    THEN reconcile_root_pointer_for_recovery ELSE @]
                /\ UNCHANGED out
           ELSE /\ UNCHANGED <<rp, tx>>
                /\ out' = IF p.own THEN [NoAnswer EXCEPT !.is = "busy"] ELSE out
        /\ UNCHANGED <<world, tries, pin, stage, cut, jnl, st, usr, troubles>>
  BY DEF RootStarts
<1>2. UNCHANGED <<host, births, audio, routes, drv, intact, tries, pin, stage, cut, jnl, st, usr>>
  BY <1>1 DEF world
<1>3. p.kind \in {"forward", "recovery"} /\ p.own \in BOOLEAN
  BY DEF RootSound, Kept, Typed, TypeOK
<1>4. /\ out' \in AnswerType /\ AnswerTrue'
  <2>1. Lasts(jnl, jnl') /\ stage \subseteq stage'
    BY <1>2 DEF Lasts
  <2>2. CASE out' = out
    BY <2>1, <2>2, AnswerStays DEF RootSound, Kept, Typed
  <2>3. CASE out' = [NoAnswer EXCEPT !.is = "busy"]
    <3>1. out'.is = "busy" /\ out' \in AnswerType
      BY <2>3, FailedAnswer DEF AnswerType
    <3>2. QED
      BY <3>1 DEF AnswerTrue
  <2>4. QED
    BY <1>1, <2>2, <2>3
<1>5. /\ rp' \in RootType /\ RootPlaced' /\ tx' \in TxType /\ tx'.dir = tx.dir
      /\ tx'.result = tx.result /\ tx'.recovery = tx.recovery
      /\ "abort" \in stage => tx'.ptr \notin {"published", "pending"}
      /\ tx'.lock \/ (tx'.lock = tx.lock /\ rp' = rp)
  <2>1. CASE acquire_root_update_lock
    <3> DEFINE k == p.kind
               o == p.own
               r == [NoRoot EXCEPT !.kind = k, !.own = o]
               x == IF k = "recovery" /\ verify_fixed_root_recovery_controller
                    THEN reconcile_root_pointer_for_recovery ELSE tx.ptr
    <3>1. /\ rp' = IF k = "forward" THEN Enter(r, "forward")
                   ELSE root_sealed_rollback_authorized_update(r)
          /\ tx' = [tx EXCEPT !.lock = TRUE,
                      !.ptr = IF k = "recovery" /\ verify_fixed_root_recovery_controller
                              THEN reconcile_root_pointer_for_recovery ELSE @]
      BY <1>1, <2>1
    <3>2. k \in {"forward", "recovery"} /\ o \in BOOLEAN /\ r = [NoRoot EXCEPT !.kind = k, !.own = o]
      BY <1>3
    <3>3. tx' = [tx EXCEPT !.lock = TRUE, !.ptr = x]
      BY <3>1
    <3> HIDE DEF k, o, r
    <3>4. rp' \in RootType /\ RootPlaced'
      BY <1>2, <3>1, <3>2, TakenPlaced
    <3>5. tx \in TxType
      BY DEF RootSound, Kept, Typed
    <3>6. /\ x \in {"absent", "torn", "pending", "published"}
          /\ tx.ptr \notin {"published", "pending"} => x = tx.ptr
      BY <3>5 DEF reconcile_root_pointer_for_recovery, TxType
    <3> HIDE DEF x
    <3>7. tx' \in TxType
      BY <3>3, <3>5, <3>6 DEF TxType
    <3>8. /\ tx'.lock = TRUE /\ tx'.ptr = x /\ tx'.dir = tx.dir
          /\ tx'.result = tx.result /\ tx'.recovery = tx.recovery
      BY <3>3, <3>5 DEF TxType
    <3>9. "abort" \in stage => tx'.ptr \notin {"published", "pending"}
      BY <3>6, <3>8 DEF RootSound, Begun
    <3>10. QED
      BY <3>4, <3>7, <3>8, <3>9
  <2>2. CASE ~acquire_root_update_lock
    <3>1. rp' = rp /\ tx' = tx
      BY <1>1, <2>2
    <3>2. RootPlaced'
      BY <1>2, <3>1 DEF RootSound, RootPlaced
    <3>3. QED
      BY <3>1, <3>2 DEF RootSound, Kept, Typed, Begun
  <2>3. QED
    BY <2>1, <2>2
<1>6. Kept'
  <2>1. TypeOK'
    BY <1>1, <1>2, <1>4, <1>5 DEF RootSound, Kept, Typed, TypeOK, TxType, AnswerType
  <2>2. QED
    BY <1>2, <1>4, <1>5, <2>1 DEF RootSound, Kept, Typed, PriorDriverKept
<1>7. JournalTrue' /\ HostKnowing'
  BY <1>2 DEF RootSound, JournalTrue, HostKnowing
<1>8. Begun'
  BY <1>2, <1>5 DEF RootSound, Begun
<1>9. ResultsTrue'
  BY <1>2, <1>5 DEF RootSound, ResultsTrue
<1>10. QED
  BY <1>1, <1>2, <1>4, <1>5, <1>6, <1>7, <1>8, <1>9 DEF Upheld, RootSound, Lasts, Steady

----------------------------------------------------------------------------
(* The world by itself                                                       *)

\* A process keeps its place when the host is no less gone, and Core Audio no
\* less in step, than before.
LEMMA PlacedStays ==
  ASSUME NEW r, NEW h, NEW a, NEW d, NEW t, NEW j, NEW g, Placed(r, h, a, d, t, j, g),
         NEW k, NEW b, Down(h) => Down(k), Synced(a, d) => Synced(b, d)
  PROVE  Placed(r, k, b, d, t, j, g)
<1>1. ForwardAt(r, h, a, d, t, j, g) => ForwardAt(r, k, b, d, t, j, g)
  BY DEF ForwardAt
<1>2. RollbackAt(r, h, a, d, t, j, g) => RollbackAt(r, k, b, d, t, j, g)
  BY DEF RollbackAt
<1>3. QED
  BY <1>1, <1>2 DEF Placed

\* The host, Core Audio, the routes and the files change by themselves.
LEMMA WorldUpheld ==
  ASSUME RootSound, AnswerTrue, ByItself
  PROVE  Upheld /\ UNCHANGED <<usr, waiting, tx>>
<1>1. UNCHANGED <<drv, tries, pin, stage, cut, tx, jnl, st, usr, rp, waiting, out>>
  BY DEF ByItself, HostDies, HostRestarts, HostExits, AudioRestarts, RoutesChange, Disturb, disk, procs
<1>2. /\ host \in [loaded : BOOLEAN, gen : 0..births, first : BOOLEAN] /\ births \in Nat
      /\ host.loaded \in BOOLEAN
  BY DEF RootSound, Kept, Typed, TypeOK
<1>3. /\ births' \in Nat /\ host' \in [loaded : BOOLEAN, gen : 0..births', first : BOOLEAN]
      /\ host'.loaded = host.loaded /\ (Down(host) => Down(host'))
      /\ host'.loaded \/ host'.gen # 0 => host.loaded \/ host.gen # 0
  <2>1. CASE host' = [host EXCEPT !.gen = 0] /\ births' = births
    BY <1>2, <2>1 DEF Down
  <2>2. CASE /\ host.loaded /\ births' = births + 1
             /\ host' = [host EXCEPT !.gen = births + 1, !.first = FALSE]
    <3> DEFINE n == births + 1
    <3>1. n \in 0..n /\ n \in Nat /\ host' = [host EXCEPT !.gen = n, !.first = FALSE] /\ births' = n
      BY <1>2, <2>2
    <3> HIDE DEF n
    <3>2. /\ host' \in [loaded : BOOLEAN, gen : 0..births', first : BOOLEAN]
          /\ host'.loaded = host.loaded
      BY <1>2, <3>1
    <3>3. ~Down(host)
      BY <2>2 DEF Down
    <3>4. QED
      BY <2>2, <3>1, <3>2, <3>3
  <2>3. CASE UNCHANGED <<host, births>>
    BY <1>2, <2>3
  <2>4. QED
    BY <2>1, <2>2, <2>3 DEF ByItself, HostDies, HostRestarts, HostExits, AudioRestarts,
       RoutesChange, Disturb
<1>4. \/ UNCHANGED audio
      \/ audio' = Restarted /\ UNCHANGED host
  BY DEF ByItself, HostDies, HostRestarts, HostExits, AudioRestarts, RoutesChange, Disturb, Restarted
<1>5. routes' \in {"base", "drifted"} /\ intact' \subseteq Checked
  BY DEF ByItself, HostDies, HostRestarts, HostExits, AudioRestarts, RoutesChange, Disturb,
     RootSound, Kept, Typed, TypeOK
<1>6. /\ audio' \in [gen : Nat, drv : Bundle] /\ JournalTrue' /\ HostKnowing'
      /\ (Synced(audio, drv) => Synced(audio', drv'))
  <2>1. CASE UNCHANGED audio
    BY <1>1, <1>3, <2>1 DEF RootSound, Kept, Typed, TypeOK, JournalTrue, HostKnowing
  <2>2. CASE audio' = Restarted /\ UNCHANGED host
    BY <1>1, <2>2, AudioTrue
  <2>3. QED
    BY <1>4, <2>1, <2>2
<1>7. RootPlaced'
  <2>1. Placed(rp, host', audio', drv, tx, jnl, stage)
    BY <1>1, <1>3, <1>6, PlacedStays DEF RootSound, RootPlaced
  <2>2. QED
    BY <1>1, <2>1 DEF RootPlaced
<1>8. Kept'
  <2>1. TypeOK'
    BY <1>1, <1>3, <1>5, <1>6 DEF RootSound, Kept, Typed, TypeOK
  <2>2. QED
    BY <1>1, <2>1 DEF RootSound, Kept, Typed, PriorDriverKept
<1>9. Begun' /\ ResultsTrue' /\ AnswerTrue'
  BY <1>1 DEF RootSound, Begun, ResultsTrue, AnswerTrue
<1>10. QED
  BY <1>1, <1>3, <1>6, <1>7, <1>8, <1>9 DEF Upheld, RootSound, Lasts, Steady

----------------------------------------------------------------------------
(* The programs of the user                                                  *)

Kinds == [kind : {"forward", "recovery"}, own : BOOLEAN]

\* A transaction is started only when none was and none may still run.
Starts ==
    ForwardStarted = {} /\ ForwardStarted' # {} => ~tx.lock /\ rp.op = "none" /\ jnl.at = "absent"

\* A program goes on, starts a root process or ends.
Moves(u) ==
    \/ UserGoes(u)
    \/ \E kind \in {"forward", "recovery"} : UserStarts(kind, u)
    \/ UserLeaves

\* A process that loses its program stays the process it was.
LEMMA Orphans ==
  ASSUME NEW P \in SUBSET Kinds
  PROVE  /\ Orphaned(P) \in SUBSET Kinds /\ (Orphaned(P) # {} => P # {})
         /\ \A p \in Orphaned(P) : \E q \in P : p.kind = q.kind
<1>1. ASSUME NEW p \in P, NEW o, o = [p EXCEPT !.own = FALSE]
      PROVE  o \in Kinds /\ o.kind = p.kind
  BY <1>1 DEF Kinds
<1>2. QED
  BY <1>1 DEF Orphaned

\* What a move of a program does to the processes.
LEMMA MovesIs ==
  ASSUME RootSound, NEW u, Moves(u)
  PROVE  /\ rp' \in RootType /\ (RootPlaced => Placed(rp', host, audio, drv, tx, jnl, stage))
         /\ rp'.op = rp.op /\ waiting' \subseteq Kinds /\ out' \in {out, NoAnswer}
         /\ usr' = u \/ usr' = NoUser
         /\ waiting' # {} => waiting # {} \/ \E kind \in {"forward", "recovery"} : UserStarts(kind, u)
         /\ ForwardStarted = {} /\ ForwardStarted' # {} => UserStarts("forward", u)
<1>1. rp \in RootType /\ waiting \in SUBSET Kinds
  BY DEF RootSound, Kept, Typed, TypeOK, Kinds
<1>2. \/ rp' = rp /\ waiting' = waiting
      \/ rp' = [rp EXCEPT !.own = FALSE] /\ waiting' = Orphaned(waiting)
      \/ \E kind \in {"forward", "recovery"} :
           /\ UserStarts(kind, u) /\ rp' = [rp EXCEPT !.own = FALSE]
           /\ waiting' = Orphaned(waiting) \cup {[kind |-> kind, own |-> TRUE]}
  BY DEF Moves, UserGoes, UserStarts, UserLeaves
<1>3. /\ rp' \in RootType /\ rp'.op = rp.op /\ rp'.at = rp.at /\ rp'.half = rp.half /\ rp'.mem = rp.mem
      /\ rp'.done = rp.done /\ rp'.kind = rp.kind /\ rp'.what = rp.what
  BY <1>1, <1>2 DEF RootType
<1>4. RootPlaced => Placed(rp', host, audio, drv, tx, jnl, stage)
  BY <1>3 DEF RootPlaced, Placed, DueHere, Purpose, ForwardAt, RollbackAt, PrestopAt, SettledAt,
     PointerlessAt, Clean
<1>5. /\ Orphaned(waiting) \in SUBSET Kinds /\ (Orphaned(waiting) # {} => waiting # {})
      /\ \A p \in Orphaned(waiting) : \E q \in waiting : p.kind = q.kind
  BY <1>1, Orphans
<1>6. \A kind \in {"forward", "recovery"} : [kind |-> kind, own |-> TRUE] \in Kinds
  BY DEF Kinds
<1>7. waiting' \subseteq Kinds
  BY <1>1, <1>2, <1>5, <1>6
<1>8. waiting' # {} => waiting # {} \/ \E kind \in {"forward", "recovery"} : UserStarts(kind, u)
  BY <1>2, <1>5
<1>9. ForwardStarted = {} /\ ForwardStarted' # {} => UserStarts("forward", u)
  <2>1. SUFFICES ASSUME ForwardStarted = {}, ForwardStarted' # {} PROVE UserStarts("forward", u)
    OBVIOUS
  <2>2. PICK p \in waiting' : p.kind = "forward"
    BY <2>1 DEF ForwardStarted
  <2>3. ~\E q \in waiting : q.kind = "forward"
    BY <2>1 DEF ForwardStarted
  <2>4. p \notin waiting /\ p \notin Orphaned(waiting)
    BY <1>5, <2>2, <2>3
  <2>5. PICK kind \in {"forward", "recovery"} :
          UserStarts(kind, u) /\ p = [kind |-> kind, own |-> TRUE]
    BY <1>2, <2>2, <2>4
  <2>6. QED
    BY <2>2, <2>5
<1>10. out' \in {out, NoAnswer} /\ (usr' = u \/ usr' = NoUser)
  BY DEF Moves, UserGoes, UserStarts, UserLeaves
<1>11. QED
  BY <1>3, <1>4, <1>7, <1>8, <1>9, <1>10

Attempts == [v1 : {"none", "begun", "authenticated"},
             v2 : {"none", "begun", "authenticated", "retained"}]

\* A program of the user leaves the machine and the records to the root process.
LEMMA UserUpheld ==
  ASSUME RootSound, AnswerTrue, UNCHANGED <<world, tx, jnl, st>>, NEW u, Moves(u),
         tries' \in Attempts, pin' \in [host : Nat, audio : Nat], cut' \subseteq Files,
         stage \subseteq stage', stage' \subseteq Files, "abort" \in stage' => "abort" \in stage
  PROVE  Upheld
<1>1. UNCHANGED <<host, births, audio, routes, drv, intact>>
  BY DEF world
<1>2. /\ rp' \in RootType /\ (RootPlaced => Placed(rp', host, audio, drv, tx, jnl, stage))
      /\ rp'.op = rp.op /\ waiting' \subseteq Kinds /\ out' \in {out, NoAnswer}
  BY MovesIs
<1>3. "abort" \in stage' <=> "abort" \in stage
  OBVIOUS
<1>4. RootPlaced'
  <2>1. Placed(rp', host, audio, drv, tx, jnl, stage)
    BY <1>2 DEF RootSound
  <2>2. Placed(rp', host, audio, drv, tx, jnl, stage')
    BY <1>3, <2>1 DEF Placed, ForwardAt, RollbackAt, PointerlessAt
  <2>3. QED
    BY <1>1, <2>2 DEF RootPlaced
<1>5. out' \in AnswerType
  BY <1>2, FailedAnswer DEF RootSound, Kept, Typed
<1>6. Kept'
  <2>1. TypeOK'
    BY <1>1, <1>2, <1>5 DEF RootSound, Kept, Typed, TypeOK, Attempts, Kinds, AnswerType
  <2>2. QED
    BY <1>1, <1>2, <1>5, <2>1 DEF RootSound, Kept, Typed, PriorDriverKept
<1>7. JournalTrue' /\ HostKnowing' /\ ResultsTrue'
  BY <1>1 DEF RootSound, JournalTrue, HostKnowing, ResultsTrue
<1>8. Begun'
  BY <1>1, <1>2, <1>3 DEF RootSound, Begun
<1>9. Lasts(jnl, jnl') /\ Steady
  BY <1>1 DEF Lasts, Steady
<1>10. AnswerTrue'
  BY <1>2, <1>9, AnswerStays, FailedAnswer DEF AnswerTrue
<1>11. QED
  BY <1>4, <1>6, <1>7, <1>8, <1>9, <1>10, <1>2 DEF Upheld, RootSound

\* Between the steps of a root process a program of the user stays where it is.
LEMMA RootProgrammed ==
  ASSUME Programmed, Upheld, usr' = usr, waiting' \subseteq waiting,
         tx'.lock => tx.lock \/ waiting # {}, stage' \subseteq stage \cup {"abort"}
  PROVE  Programmed' /\ Starts
<1>1. stage \subseteq stage' /\ Lasts(jnl, jnl')
  BY DEF Upheld
<1>2. Starts
  BY DEF Starts, ForwardStarted
<1>3. /\ waiting' # {} \/ tx'.lock => Recovery \subseteq stage'
      /\ "rec" \in stage' => "parent" \in stage'
      /\ usr'.who = "v2" /\ usr'.at \in {"layout", "authenticate", "stage", "final"} =>
           waiting' = {} /\ ~tx'.lock
      /\ usr'.who = "v2" /\ usr'.at = "final" => Recovery \subseteq stage'
      /\ usr'.who = "resume" /\ usr'.at = "dispatch" => Recovery \subseteq stage'
  BY <1>1 DEF Programmed, Recovery
<1>4. ReportTrue'
  BY <1>1 DEF Programmed, ReportTrue, Lasts, Terminal
<1>5. QED
  BY <1>2, <1>3, <1>4 DEF Programmed

----------------------------------------------------------------------------
(* The v1 controller, the v2 controller and its rollback                     *)

\* What a step of a program keeps.
Obeys == Upheld /\ Programmed' /\ Starts

Inv == RootSound /\ AnswerTrue /\ Programmed

\* The types of what the programs of the user write.
LEMMA TriesAre ==
  ASSUME RootSound
  PROVE  /\ tries \in Attempts /\ pin \in [host : Nat, audio : Nat]
         /\ stage \subseteq Files /\ cut \subseteq Files
  BY DEF RootSound, Kept, Typed, TypeOK, Attempts

\* A program that goes on is a program.
LEMMA UserPlaces ==
    /\ NoUser \in UserType /\ NoUser.who = "none"
    /\ \A u \in UserType, x \in Places :
         /\ [u EXCEPT !.at = x] \in UserType /\ [u EXCEPT !.at = x].at = x
         /\ [u EXCEPT !.at = x].who = u.who
<1>1. NoUser \in UserType /\ NoUser.who = "none"
  BY DEF NoUser, UserType, Places, Bundle, Told
<1>2. ASSUME NEW u \in UserType, NEW x \in Places, NEW v, v = [u EXCEPT !.at = x]
      PROVE  v \in UserType /\ v.at = x /\ v.who = u.who
  BY <1>2 DEF UserType
<1>3. QED
  BY <1>1, <1>2

NewUser(w, x) == [NoUser EXCEPT !.who = w, !.at = x]
NewUserOf(w, x, g) == [NoUser EXCEPT !.who = w, !.at = x, !.host = g]

\* A program that begins is a program.
LEMMA UserNew ==
  ASSUME NEW w \in {"v1", "v2", "rollback", "resume"}, NEW x \in Places, NEW g \in Nat
  PROVE  /\ NewUser(w, x) \in UserType /\ NewUser(w, x).who = w /\ NewUser(w, x).at = x
         /\ NewUserOf(w, x, g) \in UserType /\ NewUserOf(w, x, g).who = w
         /\ NewUserOf(w, x, g).at = x
<1> DEFINE a == NewUser(w, x)
           b == NewUserOf(w, x, g)
<1>1. NoUser \in UserType
  BY UserPlaces
<1> HIDE DEF NoUser
<1>2. a = [NoUser EXCEPT !.who = w, !.at = x]
  BY DEF NewUser
<1>3. b = [a EXCEPT !.host = g]
  BY <1>1 DEF NewUser, NewUserOf, UserType
<1> HIDE DEF a, b
<1>4. a \in UserType /\ a.who = w /\ a.at = x
  BY <1>1, <1>2 DEF UserType
<1>5. b \in UserType /\ b.who = w /\ b.at = x
  BY <1>3, <1>4 DEF UserType
<1>6. QED
  BY <1>4, <1>5 DEF a, b

\* A step of a program that starts no root process.
LEMMA QuietObeys ==
  ASSUME Inv, UNCHANGED <<world, tx, jnl, st>>, NEW u, UserGoes(u) \/ UserLeaves,
         tries' \in Attempts, pin' \in [host : Nat, audio : Nat], cut' \subseteq Files,
         stage \subseteq stage', stage' \subseteq Files, "abort" \in stage' => "abort" \in stage,
         "rec" \in stage' => "parent" \in stage', UserGoes(u) => u \in UserType,
         UserGoes(u) /\ u.who = "v2" /\ u.at \in {"layout", "authenticate", "stage", "final"} =>
           waiting = {} /\ ~tx.lock,
         UserGoes(u) /\ u.who = "v2" /\ u.at = "final" => Recovery \subseteq stage',
         UserGoes(u) /\ u.who = "resume" /\ u.at = "dispatch" => Recovery \subseteq stage',
         UserGoes(u) /\ u.who = "resume" /\ u.at = "report" =>
           CASE u.sub = "committed" -> jnl.at = "COMMITTED"
             [] u.sub = "rolled-back" -> jnl.at = "ROLLED_BACK"
             [] OTHER -> jnl.at = "PRESTOP_ABORTED" \/ "abort" \in stage
  PROVE  Obeys
<1>1. RootSound /\ AnswerTrue /\ Programmed /\ Moves(u)
  BY DEF Inv, Moves
<1>2. Upheld
  BY <1>1, UserUpheld
<1>3. NoUser.who = "none" /\ NoUser \in UserType
  BY UserPlaces
<1>4. (UserGoes(u) /\ usr' = u /\ waiting' = waiting) \/ (usr' = NoUser /\ waiting' = Orphaned(waiting))
  BY DEF UserGoes, UserLeaves
<1>5. waiting \in SUBSET Kinds
  BY <1>1 DEF RootSound, Kept, Typed, TypeOK, Kinds
<1>6. waiting' # {} => waiting # {}
  BY <1>4, <1>5, Orphans
<1>7. Starts
  <2>1. ForwardStarted' # {} => ForwardStarted # {}
    BY <1>4, <1>5, Orphans DEF ForwardStarted
  <2>2. QED
    BY <2>1 DEF Starts
<1>8. Programmed'
  <2>1. CASE usr' = NoUser
    BY <1>1, <1>3, <1>6, <2>1 DEF Programmed, ReportTrue, Recovery
  <2>2. CASE UserGoes(u) /\ usr' = u /\ waiting' = waiting
    <3>1. ReportTrue'
      BY <2>2 DEF ReportTrue
    <3>2. QED
      BY <1>1, <2>2, <3>1 DEF Programmed, Recovery
  <2>3. QED
    BY <1>4, <2>1, <2>2
<1>9. QED
  BY <1>2, <1>7, <1>8 DEF Obeys

\* A step of a program that starts a root process.
LEMMA StartObeys ==
  ASSUME Inv, UNCHANGED <<world, tx, jnl, st, tries, pin, stage, cut>>, NEW u,
         NEW kind \in {"forward", "recovery"}, UserStarts(kind, u), u \in UserType, Recovery \subseteq stage,
         u.at \notin {"layout", "authenticate", "stage", "final", "dispatch", "report"},
         kind = "forward" => ~tx.lock
  PROVE  Obeys
<1>1. RootSound /\ AnswerTrue /\ Programmed /\ Moves(u)
  BY DEF Inv, Moves
<1>2. Upheld
  BY <1>1, TriesAre, UserUpheld
<1>3. usr' = u /\ waiting' = Orphaned(waiting) \cup {[kind |-> kind, own |-> TRUE]}
  BY DEF UserStarts
<1>4. Starts
  <2>1. SUFFICES ASSUME ForwardStarted = {}, ForwardStarted' # {}
                 PROVE  ~tx.lock /\ rp.op = "none" /\ jnl.at = "absent"
    BY DEF Starts
  <2>2. PICK p \in waiting' : p.kind = "forward"
    BY <2>1 DEF ForwardStarted
  <2>3. waiting \in SUBSET Kinds
    BY <1>1 DEF RootSound, Kept, Typed, TypeOK, Kinds
  <2>4. p \notin Orphaned(waiting)
    BY <2>1, <2>2, <2>3, Orphans DEF ForwardStarted
  <2>5. p = [kind |-> kind, own |-> TRUE]
    BY <1>3, <2>2, <2>4
  <2>6. kind = "forward"
    BY <2>2, <2>5
  <2>7. QED
    BY <1>1, <2>6 DEF RootSound, Begun, NoJournal
<1>5. Programmed'
  <2>1. ReportTrue'
    BY <1>3 DEF ReportTrue
  <2>2. QED
    BY <1>1, <1>3, <2>1 DEF Programmed, Recovery
<1>6. QED
  BY <1>2, <1>4, <1>5 DEF Obeys

\* The v1 controller.
LEMMA V1Obeys ==
  ASSUME Inv, V1!V1Step
  PROVE  Obeys
<1>1. UNCHANGED <<world, tx, jnl, st, pin>>
  BY DEF V1!V1Step, V1!V1Begins, V1!create_user_layout, V1!V1Authenticates,
     V1!sudo_stream_root_file, V1!V1Only, V1!world, V1!disk, world
<1>8. /\ tries' \in {tries, [tries EXCEPT !.v1 = "begun"], [tries EXCEPT !.v1 = "authenticated"]}
      /\ stage' \in {stage, stage \cup {"locator0"}} /\ cut' \in {cut, cut \cup {"locator0"}}
  BY DEF V1!V1Step, V1!V1Begins, V1!create_user_layout, V1!V1Authenticates,
     V1!sudo_stream_root_file, V1!disk
<1>2. \/ UserLeaves
      \/ UserGoes([NoUser EXCEPT !.who = "v1", !.at = "layout", !.host = host.gen])
      \/ usr.who = "v1" /\ UserGoes([usr EXCEPT !.at = "authenticate"])
      \/ usr.who = "v1" /\ UserGoes([usr EXCEPT !.at = "stage"])
  <2>1. ASSUME NEW u, V1!UserGoes(u) PROVE UserGoes(u)
    BY <2>1 DEF V1!UserGoes, UserGoes
  <2>2. V1!NoUser = NoUser /\ (V1!UserLeaves => UserLeaves)
    BY DEF V1!UserLeaves, UserLeaves, V1!NoUser, NoUser, V1!NoAnswer, NoAnswer, V1!Orphaned, Orphaned
  <2>3. QED
    BY <2>1, <2>2 DEF V1!V1Step, V1!V1Begins, V1!create_user_layout, V1!V1Authenticates,
       V1!sudo_stream_root_file, V1!V1At
<1>3. PICK u : UserLeaves \/ (UserGoes(u) /\ u.who = "v1" /\ u \in UserType)
  <2>1. usr \in UserType /\ host.gen \in Nat
    BY DEF Inv, Programmed, RootSound, Kept, Typed, TypeOK
  <2>2. "authenticate" \in Places /\ "stage" \in Places
    BY DEF Places
  <2>3. "layout" \in Places
    BY DEF Places
  <2>4. CASE UserLeaves
    BY <2>4
  <2>5. CASE UserGoes([NoUser EXCEPT !.who = "v1", !.at = "layout", !.host = host.gen])
    <3>1. UserGoes(NewUserOf("v1", "layout", host.gen))
      BY <2>5 DEF NewUserOf
    <3>2. QED
      BY <2>1, <2>3, <3>1, UserNew
  <2>6. CASE usr.who = "v1" /\ \E x \in {"authenticate", "stage"} : UserGoes([usr EXCEPT !.at = x])
    <3>1. PICK x \in {"authenticate", "stage"} : UserGoes([usr EXCEPT !.at = x])
      BY <2>6
    <3> DEFINE v == [usr EXCEPT !.at = x]
    <3>2. v \in UserType /\ v.who = "v1"
      BY <2>1, <2>2, <2>6, UserPlaces
    <3> HIDE DEF v
    <3>3. UserGoes(v)
      BY <3>1 DEF v
    <3>4. QED
      BY <3>2, <3>3
  <2>7. QED
    BY <1>2, <2>4, <2>5, <2>6
<1>4. RootSound /\ Programmed
  BY DEF Inv
<1>5. tries' \in Attempts /\ pin' \in [host : Nat, audio : Nat]
  BY <1>1, <1>8, <1>4, TriesAre DEF Attempts
<1>6. /\ stage \subseteq stage' /\ stage' \subseteq Files /\ cut' \subseteq Files
      /\ "abort" \in stage' => "abort" \in stage
      /\ "rec" \in stage' => "parent" \in stage'
  BY <1>1, <1>8, <1>4, TriesAre DEF Files, Programmed
<1>7. QED
  <2>1. CASE UserLeaves
    <3>1. NoUser.who = "none"
      BY UserPlaces
    <3>2. QED
      BY <1>1, <1>5, <1>6, <2>1, <3>1, UserPlaces, QuietObeys
  <2>2. CASE UserGoes(u) /\ u.who = "v1" /\ u \in UserType
    BY <1>1, <1>5, <1>6, <2>2, QuietObeys
  <2>3. QED
    BY <1>3, <2>1, <2>2

InvParts ==
    /\ RootSound /\ AnswerTrue /\ Programmed /\ usr \in UserType /\ host.gen \in Nat
    /\ "rec" \in stage => "parent" \in stage

\* The parts of the invariant that the steps of a program use.
LEMMA InvHas == ASSUME Inv PROVE InvParts
  BY DEF InvParts, Inv, Programmed, RootSound, Kept, Typed, TypeOK

\* A program that ends leaves what it has written.
LEMMA LeavesObeys ==
  ASSUME Inv, UNCHANGED <<world, tx, jnl, st>>, UserLeaves, tries' \in Attempts,
         pin' \in [host : Nat, audio : Nat], cut' \subseteq Files,
         stage \subseteq stage', stage' \subseteq Files, "abort" \in stage' => "abort" \in stage,
         "rec" \in stage' => "parent" \in stage'
  PROVE  Obeys
<1>1. NoUser.who = "none" /\ NoUser \in UserType
  BY UserPlaces
<1>2. QED
  BY <1>1, QuietObeys

\* The v2 controller stages its files; the parent directory comes before the
\* recovery controller.
LEMMA V2StagesObeys ==
  ASSUME Inv, stage_root_owned_controller
  PROVE  Obeys
<1>1. /\ usr.who = "v2" /\ usr.at = "stage" /\ UNCHANGED <<world, pin, tx, jnl, st, tries>>
      /\ Missing(StageOrder) # {}
  BY DEF stage_root_owned_controller, V2At, V2Only
<1>2. InvParts
  BY InvHas
<1> USE DEF InvParts
<1> DEFINE f == FirstMissing(StageOrder)
<1>3. \A i \in 1..9 : /\ StageOrder[i] \in Files \ {"abort"} /\ StageOrder[2] = "parent"
                      /\ (StageOrder[i] = "rec" => i > 2)
  BY DEF StageOrder, Files
<1>4. Len(StageOrder) = 9
  BY DEF StageOrder
<1>5. PICK m \in Missing(StageOrder) :
        /\ \A j \in Missing(StageOrder) : m <= j
        /\ f = StageOrder[m]
  <2>1. Missing(StageOrder) \subseteq Nat
    BY <1>4 DEF Missing
  <2>2. \E i \in Missing(StageOrder) : \A j \in Missing(StageOrder) : i <= j
    BY <1>1, <2>1, Smallest
  <2>3. QED
    BY <2>2 DEF FirstMissing
<1> HIDE DEF f
<1>6. m \in 1..9 /\ f \in Files /\ f # "abort"
  BY <1>3, <1>4, <1>5 DEF Missing
<1>7. f = "rec" => "parent" \in stage
  <2>1. SUFFICES ASSUME f = "rec", "parent" \notin stage PROVE FALSE
    OBVIOUS
  <2>2. 2 \in Missing(StageOrder)
    BY <1>3, <1>4, <2>1 DEF Missing
  <2>3. m <= 2 /\ m > 2
    BY <1>3, <1>5, <1>6, <2>1, <2>2
  <2>4. QED
    BY <1>6, <2>3
<1>8. /\ stage' = stage \/ stage' = stage \cup {f}
      /\ cut' = cut \/ cut' = cut \cup {f}
  BY DEF stage_root_owned_controller, f
<1>9. /\ cut' \subseteq Files /\ stage \subseteq stage' /\ stage' \subseteq Files
      /\ ("abort" \in stage' => "abort" \in stage) /\ ("rec" \in stage' => "parent" \in stage')
  BY <1>2, <1>6, <1>7, <1>8, TriesAre
<1>10. tries' \in Attempts /\ pin' \in [host : Nat, audio : Nat]
  BY <1>1, <1>2, TriesAre
<1>11. CASE UserLeaves
  BY <1>1, <1>9, <1>10, <1>11, LeavesObeys
<1>12. CASE /\ stage' = stage \cup {f}
            /\ UserGoes([usr EXCEPT !.at = IF Missing(StageOrder) = {Len(StageOrder)} THEN "final" ELSE @])
  <2> DEFINE x == IF Missing(StageOrder) = {9} THEN "final" ELSE "stage"
             u == [usr EXCEPT !.at = x]
  <2>1. x \in Places
    BY DEF Places
  <2>2. u \in UserType /\ u.at = x /\ u.who = "v2"
    BY <1>1, <1>2, <2>1, UserPlaces
  <2>3. UserGoes(u)
    BY <1>1, <1>4, <1>12
  <2>4. waiting = {} /\ ~tx.lock
    BY <1>1, <1>2 DEF Programmed
  <2>5. x = "final" => Recovery \subseteq stage'
    <3>1. SUFFICES ASSUME Missing(StageOrder) = {9} PROVE Recovery \subseteq stage'
      OBVIOUS
    <3>2. \A i \in 1..8 : StageOrder[i] \in stage
      BY <1>4, <3>1 DEF Missing
    <3>3. StageOrder[4] = "rec" /\ StageOrder[5] = "recPin"
      BY DEF StageOrder
    <3>4. QED
      BY <1>12, <3>2, <3>3 DEF Recovery
  <2> HIDE DEF x, u
  <2>6. QED
    BY <1>1, <1>9, <1>10, <2>2, <2>3, <2>4, <2>5, QuietObeys
<1>13. QED
  BY <1>11, <1>12 DEF stage_root_owned_controller, f

\* The v2 controller and its rollback.
LEMMA V2Obeys ==
  ASSUME Inv, V2Step \/ RollbackStep
  PROVE  Obeys
<1>1. InvParts
  BY InvHas
<1> USE DEF InvParts
<1>2. /\ stage \subseteq Files /\ cut \subseteq Files /\ tries \in Attempts
      /\ pin \in [host : Nat, audio : Nat]
  BY <1>1, TriesAre
<1>3. CASE V2Begins
  <2>1. UserGoes(NewUserOf("v2", "layout", host.gen)) /\ UNCHANGED <<world, disk>>
    BY <1>3 DEF V2Begins, NewUserOf
  <2> DEFINE u == NewUserOf("v2", "layout", host.gen)
  <2>2. u \in UserType /\ u.who = "v2" /\ u.at = "layout"
    BY <1>1, UserNew DEF Places
  <2>3. waiting = {} /\ ~tx.lock
    <3>1. "parent" \notin stage
      BY <1>3 DEF V2Begins, require_fresh_namespaces
    <3>2. ~(Recovery \subseteq stage)
      BY <1>1, <3>1 DEF Recovery
    <3>3. QED
      BY <1>1, <3>2 DEF Programmed
  <2> HIDE DEF u
  <2>4. UserGoes(u)
    BY <2>1 DEF u
  <2>5. UNCHANGED <<tries, pin, stage, cut, tx, jnl, st>>
    BY <2>1 DEF disk
  <2>6. QED
    BY <1>1, <1>2, <2>1, <2>2, <2>3, <2>4, <2>5, QuietObeys
<1>4. CASE create_user_layout \/ V2Authenticates
  <2>1. /\ UNCHANGED <<world, pin, tx, jnl, st, stage, cut>> /\ usr.who = "v2"
        /\ usr.at \in {"layout", "authenticate"}
        /\ tries' \in {[tries EXCEPT !.v2 = "begun"], [tries EXCEPT !.v2 = "authenticated"]}
        /\ UserLeaves \/ \E x \in {"authenticate", "stage"} : UserGoes([usr EXCEPT !.at = x])
    BY <1>4 DEF create_user_layout, V2Authenticates, V2At, V2Only
  <2>2. tries' \in Attempts
    BY <1>2, <2>1 DEF Attempts
  <2>3. CASE UserLeaves
    BY <1>1, <1>2, <2>1, <2>2, <2>3, LeavesObeys
  <2>4. CASE \E x \in {"authenticate", "stage"} : UserGoes([usr EXCEPT !.at = x])
    <3>1. PICK x \in {"authenticate", "stage"} : UserGoes([usr EXCEPT !.at = x])
      BY <2>4
    <3> DEFINE u == [usr EXCEPT !.at = x]
    <3>5. x \in Places
      BY DEF Places
    <3>2. u \in UserType /\ u.at = x /\ u.who = "v2"
      BY <1>1, <2>1, <3>5, UserPlaces
    <3>3. waiting = {} /\ ~tx.lock
      BY <1>1, <2>1 DEF Programmed
    <3> HIDE DEF u
    <3>4. UserGoes(u)
      BY <3>1 DEF u
    <3>6. QED
      BY <1>1, <1>2, <2>1, <2>2, <3>2, <3>3, <3>4, QuietObeys
  <2>5. QED
    BY <2>1, <2>3, <2>4
<1>5. CASE stage_root_owned_controller
  BY <1>5, V2StagesObeys
<1>6. CASE V2Dispatches
  <2>1. /\ UNCHANGED <<world, pin, tx, jnl, st, tries, stage, cut>> /\ usr.who = "v2"
        /\ usr.at = "final" /\ (UserLeaves \/ UserStarts("forward", [usr EXCEPT !.at = "await"]))
    BY <1>6 DEF V2Dispatches, V2At, V2Keeps, V2Only
  <2>2. CASE UserLeaves
    BY <1>1, <1>2, <2>1, <2>2, LeavesObeys
  <2>3. CASE UserStarts("forward", [usr EXCEPT !.at = "await"])
    <3> DEFINE u == [usr EXCEPT !.at = "await"]
    <3>1. u \in UserType /\ u.at = "await"
      BY <1>1, UserPlaces DEF Places
    <3>2. Recovery \subseteq stage /\ ~tx.lock
      BY <1>1, <2>1 DEF Programmed
    <3> HIDE DEF u
    <3>3. UserStarts("forward", u)
      BY <2>3 DEF u
    <3>4. QED
      BY <2>1, <3>1, <3>2, <3>3, StartObeys
  <2>4. QED
    BY <2>1, <2>2, <2>3
<1>7. CASE V2Rolls
  <2>1. UserStarts("recovery", NewUser("rollback", "await")) /\ UNCHANGED <<world, disk>>
    BY <1>7 DEF V2Rolls, NewUser
  <2> DEFINE u == NewUser("rollback", "await")
  <2>2. u \in UserType /\ u.at = "await"
    BY UserNew DEF Places
  <2>3. Recovery \subseteq stage
    BY <1>7 DEF V2Rolls, Recovery
  <2> HIDE DEF u
  <2>4. UserStarts("recovery", u) /\ UNCHANGED <<tries, pin, stage, cut, tx, jnl, st>>
    BY <2>1 DEF u, disk
  <2>5. QED
    BY <2>1, <2>2, <2>3, <2>4, StartObeys
<1>8. CASE run_sudo_helper
  BY <1>1, <1>2, <1>8, LeavesObeys DEF run_sudo_helper, V2Keeps, V2Only
<1>9. QED
  BY <1>3, <1>4, <1>5, <1>6, <1>7, <1>8 DEF V2Step, RollbackStep

----------------------------------------------------------------------------
(* The resume stager                                                         *)

\* The stager's steps in the terms of this module.
LEMMA ResumeIs ==
    /\ \A u : Resume!UserGoes(u) => UserGoes(u)
    /\ \A u, kind : Resume!UserStarts(kind, u) => UserStarts(kind, u)
    /\ Resume!UserLeaves => UserLeaves
    /\ Resume!world = world
  BY DEF Resume!UserGoes, UserGoes, Resume!UserStarts, UserStarts, Resume!UserLeaves, UserLeaves,
     Resume!NoUser, NoUser, Resume!NoAnswer, NoAnswer, Resume!Orphaned, Orphaned, Resume!world, world

\* A step of the stager that writes nothing.
Idle == UNCHANGED <<world, tries, pin, stage, cut, tx, jnl, st>>

\* The stager begins with its preflight.
LEMMA ResumeBeginsObeys ==
  ASSUME Inv, Resume!ResumeBegins
  PROVE  Obeys
<1>1. InvParts
  BY InvHas
<1> USE DEF InvParts
<1>2. /\ stage \subseteq Files /\ cut \subseteq Files /\ tries \in Attempts
      /\ pin \in [host : Nat, audio : Nat]
  BY <1>1, TriesAre
<1>3. Idle
  BY ResumeIs DEF Resume!ResumeBegins, Resume!world, Resume!disk, world, Idle
<1> DEFINE s == Resume!ResumePreflightSnapshot
           u == [who |-> "resume", at |-> "stage", host |-> s.host, audio |-> s.audio,
                 routes |-> s.routes, driver |-> s.driver, fresh |-> Resume!Fresh, sub |-> "none"]
<1>4. UserGoes(u)
  BY ResumeIs DEF Resume!ResumeBegins
<1>5. /\ s.host \in Int /\ s.audio \in Nat /\ s.routes \in {"base", "drifted", "none"}
      /\ s.driver \in Bundle
  <2>1. Resume!HostPreflightState \in Int
    BY <1>1 DEF Resume!HostPreflightState
  <2>2. audio.gen \in Nat /\ routes \in {"base", "drifted"} /\ drv.canonical \in Bundle
    BY <1>1 DEF RootSound, Kept, Typed, TypeOK
  <2>3. QED
    BY <2>1, <2>2 DEF Resume!ResumePreflightSnapshot
<1>6. Resume!Fresh \in BOOLEAN
  BY DEF Resume!Fresh
<1> HIDE DEF s
<1>7. u \in UserType /\ u.who = "resume" /\ u.at = "stage"
  BY <1>5, <1>6 DEF UserType, Places, Told
<1> HIDE DEF u
<1>8. QED
  BY <1>1, <1>2, <1>3, <1>4, <1>7, QuietObeys DEF Idle

\* The stager goes on with its run.
LEMMA ResumeGoesObeys ==
  ASSUME Inv, UNCHANGED <<world, tries, pin, tx, jnl, st>>, usr.who = "resume",
         NEW x \in Places \ {"report"}, UserGoes([usr EXCEPT !.at = x]),
         stage \subseteq stage', stage' \subseteq Files, cut' \subseteq Files,
         "abort" \in stage' => "abort" \in stage, "rec" \in stage' => "parent" \in stage',
         x = "dispatch" => Recovery \subseteq stage'
  PROVE  Obeys
<1>1. InvParts
  BY InvHas
<1> DEFINE u == [usr EXCEPT !.at = x]
<1>2. u \in UserType /\ u.at = x /\ u.who = "resume"
  BY <1>1, UserPlaces DEF InvParts
<1>3. tries' \in Attempts /\ pin' \in [host : Nat, audio : Nat]
  BY <1>1, TriesAre DEF InvParts
<1> HIDE DEF u
<1>4. UserGoes(u) /\ u.at # "report"
  BY <1>2 DEF u
<1>5. QED
  BY <1>2, <1>3, <1>4, QuietObeys

\* The stager tells what the root process answered.
LEMMA ResumeTellsObeys ==
  ASSUME Inv, Idle, usr.who = "resume", out.is = "ok",
         UserGoes([usr EXCEPT !.at = "report", !.sub = Resume!Settled])
  PROVE  Obeys
<1>1. InvParts
  BY InvHas
<1> USE DEF InvParts
<1>2. /\ stage \subseteq Files /\ cut \subseteq Files /\ tries \in Attempts
      /\ pin \in [host : Nat, audio : Nat]
  BY <1>1, TriesAre
<1> DEFINE s == Resume!Settled
           u == [usr EXCEPT !.at = "report", !.sub = s]
<1>3. out.what \in Told \cup {"pointerless"}
  BY <1>1 DEF RootSound, Kept, Typed, AnswerType
<1>4. s \in Told
  BY <1>3 DEF Resume!Settled, Told
<1>5. /\ s = "committed" => jnl.at = "COMMITTED"
      /\ s = "rolled-back" => jnl.at = "ROLLED_BACK"
      /\ s \notin {"committed", "rolled-back"} => jnl.at = "PRESTOP_ABORTED" \/ "abort" \in stage
  <2>1. CASE out.what = "pointerless"
    BY <1>1, <2>1 DEF AnswerTrue, Resume!Settled
  <2>2. CASE out.what # "pointerless"
    <3>1. Reports(out.what, jnl) /\ s = out.what
      BY <1>1, <2>2 DEF AnswerTrue, Resume!Settled
    <3>2. QED
      BY <1>3, <3>1 DEF Reports, Told
  <2>3. QED
    BY <2>1, <2>2
<1> HIDE DEF s
<1>6. u \in UserType /\ u.at = "report" /\ u.who = "resume" /\ u.sub = s
  BY <1>1, <1>4 DEF UserType, Places
<1>7. UserGoes(u)
  BY DEF s
<1> HIDE DEF u
<1>8. (CASE u.sub = "committed" -> jnl.at = "COMMITTED"
         [] u.sub = "rolled-back" -> jnl.at = "ROLLED_BACK"
         [] OTHER -> jnl.at = "PRESTOP_ABORTED" \/ "abort" \in stage)
  BY <1>5, <1>6
<1>9. QED
  BY <1>1, <1>2, <1>6, <1>7, <1>8, QuietObeys DEF Idle

\* The stager completes the stage.
LEMMA ResumeStagesObeys ==
  ASSUME Inv, Resume!stage_original_v2_root_controller
  PROVE  Obeys
<1>1. InvParts
  BY InvHas
<1> USE DEF InvParts
<1>2. /\ stage \subseteq Files /\ cut \subseteq Files /\ tries \in Attempts
      /\ pin \in [host : Nat, audio : Nat]
  BY <1>1, TriesAre
<1>3. /\ UNCHANGED <<world, tries, pin, tx, jnl, st>> /\ usr.who = "resume" /\ usr.at = "stage"
  BY DEF Resume!stage_original_v2_root_controller, Resume!ResumeAt, Resume!ResumeOnly, Resume!world, world
<1>4. \/ UserLeaves /\ UNCHANGED <<stage, cut>>
      \/ UserGoes([usr EXCEPT !.at = "compare"]) /\ UNCHANGED <<stage, cut>>
      \/ /\ Resume!verify_privileged_partial_root_stage
         /\ \E n \in 1..Len(Resume!StageOrder) :
              Resume!sudo_stream_root_file_create_once(Resume!StageOrder[n])
  BY ResumeIs DEF Resume!stage_original_v2_root_controller, Resume!Proceed, Resume!Quit
<1>5. CASE UserLeaves /\ UNCHANGED <<stage, cut>>
  BY <1>1, <1>2, <1>3, <1>5, LeavesObeys
<1>6. CASE UserGoes([usr EXCEPT !.at = "compare"]) /\ UNCHANGED <<stage, cut>>
  <2>1. "compare" \in Places
    BY DEF Places
  <2>2. QED
    BY <1>1, <1>2, <1>3, <1>6, <2>1, ResumeGoesObeys
<1>7. CASE /\ Resume!verify_privileged_partial_root_stage
           /\ \E n \in 1..Len(Resume!StageOrder) :
                Resume!sudo_stream_root_file_create_once(Resume!StageOrder[n])
  <2>1. PICK n \in 1..Len(Resume!StageOrder) :
          Resume!sudo_stream_root_file_create_once(Resume!StageOrder[n])
    BY <1>7
  <2> DEFINE f == Resume!StageOrder[n]
  <2>2. f \in Files /\ f # "abort"
    BY DEF Resume!StageOrder, Files
  <2>3. "parent" \in stage
    BY <1>7 DEF Resume!verify_privileged_partial_root_stage
  <2> HIDE DEF f
  <2>4. /\ stage' \in {stage, stage \cup {f}} /\ cut' \in {cut \ {f}, cut, cut \cup {f}}
        /\ UserGoes(usr) \/ UserLeaves
    BY <2>1, ResumeIs DEF Resume!sudo_stream_root_file_create_once, f
  <2>5. /\ stage \subseteq stage' /\ stage' \subseteq Files /\ cut' \subseteq Files
        /\ ("abort" \in stage' => "abort" \in stage) /\ "parent" \in stage'
    BY <1>2, <2>2, <2>3, <2>4
  <2>6. CASE UserLeaves
    BY <1>1, <1>2, <1>3, <2>5, <2>6, LeavesObeys
  <2>7. CASE UserGoes(usr)
    <3>1. usr \in UserType
      BY <1>1
    <3>2. QED
      BY <1>2, <1>3, <2>5, <2>7, <3>1, QuietObeys
  <2>8. QED
    BY <2>4, <2>6, <2>7
<1>8. QED
  BY <1>4, <1>5, <1>6, <1>7

\* The stager publishes its intent, over a complete stage.
LEMMA ResumeIntentObeys ==
  ASSUME Inv, Resume!publish_resume_dispatch_intent
  PROVE  Obeys
<1>1. InvParts
  BY InvHas
<1> USE DEF InvParts
<1>2. /\ stage \subseteq Files /\ cut \subseteq Files /\ tries \in Attempts
      /\ pin \in [host : Nat, audio : Nat]
  BY <1>1, TriesAre
<1>3. /\ UNCHANGED <<world, tries, pin, tx, jnl, st>> /\ usr.who = "resume"
  BY DEF Resume!publish_resume_dispatch_intent, Resume!ResumeAt, Resume!ResumeOnly, Resume!world, world
<1>4. /\ stage' \in {stage, stage \cup {"intent"}}
      /\ cut' \in {cut \ {"intent"}, cut, cut \cup {"intent"}}
      /\ \/ UserLeaves
         \/ Resume!Complete /\ UserGoes([usr EXCEPT !.at = "dispatch"])
  BY ResumeIs DEF Resume!publish_resume_dispatch_intent, Resume!Proceed, Resume!Quit,
     Resume!verify_resume_stage_complete
<1>5. /\ stage \subseteq stage' /\ stage' \subseteq Files /\ cut' \subseteq Files
      /\ ("abort" \in stage' => "abort" \in stage) /\ ("rec" \in stage' => "parent" \in stage')
  BY <1>1, <1>2, <1>4 DEF Files
<1>6. CASE UserLeaves
  BY <1>1, <1>2, <1>3, <1>5, <1>6, LeavesObeys
<1>7. CASE Resume!Complete /\ UserGoes([usr EXCEPT !.at = "dispatch"])
  <2>1. Recovery \subseteq stage
    <3>1. Resume!StageOrder[6] = "rec" /\ Resume!StageOrder[7] = "recPin" /\ Len(Resume!StageOrder) = 7
      BY DEF Resume!StageOrder
    <3>2. Resume!Staged \subseteq stage
      BY <1>7 DEF Resume!Complete
    <3>3. QED
      BY <3>1, <3>2 DEF Resume!Staged, Recovery
  <2>2. "dispatch" \in Places \ {"report"}
    BY DEF Places
  <2>3. QED
    BY <1>3, <1>5, <1>7, <2>1, <2>2, ResumeGoesObeys
<1>8. QED
  BY <1>4, <1>6, <1>7

\* The stager.
LEMMA ResumeObeys ==
  ASSUME Inv, Resume!ResumeStep
  PROVE  Obeys
<1>1. InvParts
  BY InvHas
<1> USE DEF InvParts
<1>2. /\ stage \subseteq Files /\ cut \subseteq Files /\ tries \in Attempts
      /\ pin \in [host : Nat, audio : Nat]
  BY <1>1, TriesAre
<1>3. CASE \/ Resume!ResumeBegins \/ Resume!stage_original_v2_root_controller
           \/ Resume!publish_resume_dispatch_intent
  BY <1>3, ResumeBeginsObeys, ResumeStagesObeys, ResumeIntentObeys
<1>4. CASE Resume!ResumeKeeps /\ UserLeaves
  <2>1. Idle
    BY <1>4 DEF Resume!ResumeKeeps, Resume!ResumeOnly, Resume!world, world, Idle
  <2>2. QED
    BY <1>1, <1>2, <1>4, <2>1, LeavesObeys DEF Idle
<1>5. CASE /\ Resume!ResumeKeeps /\ usr.who = "resume"
           /\ UserGoes([usr EXCEPT !.at = "recover"])
  <2>1. Idle
    BY <1>5 DEF Resume!ResumeKeeps, Resume!ResumeOnly, Resume!world, world, Idle
  <2>2. "recover" \in Places \ {"report"}
    BY DEF Places
  <2>3. QED
    BY <1>1, <1>2, <1>5, <2>1, <2>2, ResumeGoesObeys DEF Idle
<1>6. CASE /\ Resume!ResumeKeeps /\ usr.who = "resume" /\ Resume!Accepted
           /\ UserGoes([usr EXCEPT !.at = "report", !.sub = Resume!Settled])
  <2>1. Idle
    BY <1>6 DEF Resume!ResumeKeeps, Resume!ResumeOnly, Resume!world, world, Idle
  <2>2. out.is = "ok"
    BY <1>6 DEF Resume!Accepted, Resume!parse_root_success_marker
  <2>3. QED
    BY <1>6, <2>1, <2>2, ResumeTellsObeys
<1>7. CASE Resume!ResumeCompares
  <2>1. Resume!ResumeKeeps /\ usr.who = "resume"
    BY <1>7 DEF Resume!ResumeCompares, Resume!ResumeAt
  <2>2. Idle
    BY <2>1 DEF Resume!ResumeKeeps, Resume!ResumeOnly, Resume!world, world, Idle
  <2>3. \/ UserLeaves
        \/ UserGoes([usr EXCEPT !.at = "intent", !.fresh = @ /\ Resume!Fresh])
    BY <1>7, ResumeIs DEF Resume!ResumeCompares, Resume!Quit
  <2>4. CASE UserLeaves
    BY <1>4, <2>1, <2>4
  <2>5. CASE UserGoes([usr EXCEPT !.at = "intent", !.fresh = @ /\ Resume!Fresh])
    <3> DEFINE b == usr.fresh /\ Resume!Fresh
               u == [usr EXCEPT !.at = "intent", !.fresh = b]
    <3>1. b \in BOOLEAN
      OBVIOUS
    <3>2. UserGoes(u)
      BY <2>5
    <3> HIDE DEF b
    <3>3. "intent" \in Places
      BY DEF Places
    <3>4. u \in UserType /\ u.at = "intent" /\ u.who = "resume"
      BY <1>1, <2>1, <3>1, <3>3 DEF UserType
    <3> HIDE DEF u
    <3>5. QED
      BY <1>1, <1>2, <2>2, <3>2, <3>4, QuietObeys DEF Idle
  <2>6. QED
    BY <2>3, <2>4, <2>5
<1>8. CASE Resume!dispatch_or_recover_after_durable_intent
  <2>1. Resume!ResumeKeeps /\ usr.who = "resume" /\ usr.at = "dispatch"
    BY <1>8 DEF Resume!dispatch_or_recover_after_durable_intent, Resume!ResumeAt
  <2>2. \/ UserGoes([usr EXCEPT !.at = "recover"])
        \/ ~tx.lock /\ UserStarts("forward", [usr EXCEPT !.at = "forward"])
    BY <1>8, ResumeIs DEF Resume!dispatch_or_recover_after_durable_intent, Resume!Proceed,
       Resume!durable_intent_allows_forward_dispatch, Resume!root_v2_state_appeared
  <2>3. CASE UserGoes([usr EXCEPT !.at = "recover"])
    BY <1>5, <2>1, <2>3
  <2>4. CASE ~tx.lock /\ UserStarts("forward", [usr EXCEPT !.at = "forward"])
    <3> DEFINE u == [usr EXCEPT !.at = "forward"]
    <3>1. "forward" \in Places
      BY DEF Places
    <3>2. u \in UserType /\ u.at = "forward"
      BY <1>1, <3>1, UserPlaces
    <3>3. Recovery \subseteq stage
      BY <1>1, <2>1 DEF Programmed
    <3>4. Idle
      BY <2>1 DEF Resume!ResumeKeeps, Resume!ResumeOnly, Resume!world, world, Idle
    <3> HIDE DEF u
    <3>5. UserStarts("forward", u)
      BY <2>4 DEF u
    <3>6. QED
      BY <2>4, <3>2, <3>3, <3>4, <3>5, StartObeys DEF Idle
  <2>5. QED
    BY <2>2, <2>3, <2>4
<1>9. CASE Resume!dispatch_original_v2_controller_once
  <2>1. Resume!ResumeKeeps /\ usr.who = "resume"
    BY <1>9 DEF Resume!dispatch_original_v2_controller_once, Resume!ResumeAt
  <2>2. \/ UserGoes([usr EXCEPT !.at = "recover"])
        \/ Resume!Accepted /\ UserGoes([usr EXCEPT !.at = "report", !.sub = Resume!Settled])
    BY <1>9, ResumeIs DEF Resume!dispatch_original_v2_controller_once, Resume!Proceed
  <2>3. QED
    BY <1>5, <1>6, <2>1, <2>2
<1>10. CASE Resume!ResumeRecovers
  <2>1. Resume!ResumeKeeps /\ usr.who = "resume"
    BY <1>10 DEF Resume!ResumeRecovers, Resume!ResumeAt
  <2>2. \/ UserLeaves
        \/ /\ Recovery \subseteq stage
           /\ UserStarts("recovery", [usr EXCEPT !.at = "recovery"])
    BY <1>10, ResumeIs DEF Resume!ResumeRecovers, Resume!Quit, Recovery
  <2>3. CASE UserLeaves
    BY <1>4, <2>1, <2>3
  <2>4. CASE Recovery \subseteq stage /\ UserStarts("recovery", [usr EXCEPT !.at = "recovery"])
    <3> DEFINE u == [usr EXCEPT !.at = "recovery"]
    <3>1. "recovery" \in Places
      BY DEF Places
    <3>2. u \in UserType /\ u.at = "recovery"
      BY <1>1, <3>1, UserPlaces
    <3>3. Idle
      BY <2>1 DEF Resume!ResumeKeeps, Resume!ResumeOnly, Resume!world, world, Idle
    <3> HIDE DEF u
    <3>4. UserStarts("recovery", u)
      BY <2>4 DEF u
    <3>5. QED
      BY <2>4, <3>2, <3>3, <3>4, StartObeys DEF Idle
  <2>5. QED
    BY <2>2, <2>3, <2>4
<1>11. CASE Resume!recover_from_resume_dispatch_intent
  <2>1. Resume!ResumeKeeps /\ usr.who = "resume"
    BY <1>11 DEF Resume!recover_from_resume_dispatch_intent, Resume!ResumeAt
  <2>2. \/ UserGoes([usr EXCEPT !.at = "recover"])
        \/ Resume!Accepted /\ UserGoes([usr EXCEPT !.at = "report", !.sub = Resume!Settled])
        \/ UserLeaves
    BY <1>11, ResumeIs DEF Resume!recover_from_resume_dispatch_intent, Resume!Proceed, Resume!Quit
  <2>3. QED
    BY <1>4, <1>5, <1>6, <2>1, <2>2
<1>12. CASE Resume!verify_post_completion_anchors
  <2>1. Resume!ResumeKeeps /\ UserLeaves
    BY <1>12, ResumeIs DEF Resume!verify_post_completion_anchors, Resume!Quit
  <2>2. QED
    BY <1>4, <2>1
<1>13. QED
  BY <1>3, <1>7, <1>8, <1>9, <1>10, <1>11, <1>12 DEF Resume!ResumeStep

\* The retained attempt is pinned while no program runs.
LEMMA PinObeys ==
  ASSUME Inv, Resume!PinRetainedAttempt
  PROVE  Obeys
<1>1. InvParts
  BY InvHas
<1> USE DEF InvParts
<1>2. /\ stage \subseteq Files /\ cut \subseteq Files /\ tries \in Attempts
      /\ pin \in [host : Nat, audio : Nat]
  BY <1>1, TriesAre
<1>3. /\ UNCHANGED <<world, stage, cut, tx, jnl, st>> /\ UserGoes(usr) /\ usr.who = "none"
  BY DEF Resume!PinRetainedAttempt, Resume!world, world, Resume!procs, UserGoes
<1>4. tries' \in Attempts /\ pin' \in [host : Nat, audio : Nat]
  <2>1. audio.gen \in Nat
    BY <1>1 DEF RootSound, Kept, Typed, TypeOK
  <2>2. QED
    BY <1>1, <1>2, <2>1 DEF Resume!PinRetainedAttempt, Attempts
<1>5. usr \in UserType
  BY <1>1
<1>6. QED
  BY <1>1, <1>2, <1>3, <1>4, <1>5, QuietObeys

----------------------------------------------------------------------------
(* Every step                                                                *)

\* The root processes.
LEMMA RootObeys ==
  ASSUME Inv, RootStarts \/ RootStep \/ RootDies
  PROVE  Obeys
<1>1. InvParts
  BY InvHas
<1> USE DEF InvParts
<1>2. CASE RootStarts
  <2>1. Upheld /\ usr' = usr /\ waiting # {} /\ waiting' \subseteq waiting
    BY <1>1, <1>2, StartsUpheld
  <2>2. stage' = stage
    BY <1>2 DEF RootStarts, disk
  <2>3. QED
    BY <1>1, <2>1, <2>2, RootProgrammed DEF Obeys
<1>3. CASE Working /\ RootWorks
  BY <1>1, <1>3, WorksUpheld, RootProgrammed DEF Obeys
<1>4. CASE RootEnds
  <2>1. Upheld /\ UNCHANGED <<usr, waiting>> /\ tx'.lock = tx.lock
    BY <1>1, <1>4, EndsUpheld
  <2>2. stage' = stage
    BY <1>4 DEF RootEnds
  <2>3. QED
    BY <1>1, <2>1, <2>2, RootProgrammed DEF Obeys
<1>5. CASE RootDies
  <2>1. Upheld /\ UNCHANGED <<usr, waiting>> /\ tx'.lock = tx.lock
    BY <1>1, <1>5, DiesUpheld
  <2>2. stage' = stage
    BY <1>5 DEF RootDies, disk
  <2>3. QED
    BY <1>1, <2>1, <2>2, RootProgrammed DEF Obeys
<1>6. QED
  BY <1>2, <1>3, <1>4, <1>5 DEF RootStep

\* What happens by itself.
LEMMA WorldObeys ==
  ASSUME Inv, ByItself
  PROVE  Obeys
<1>1. InvParts
  BY InvHas
<1>2. Upheld /\ UNCHANGED <<usr, waiting, tx>>
  BY <1>1, WorldUpheld DEF InvParts
<1>3. stage' = stage
  BY DEF ByItself, HostDies, HostRestarts, HostExits, AudioRestarts, RoutesChange, Disturb, disk
<1>4. QED
  BY <1>1, <1>2, <1>3, RootProgrammed DEF Obeys, InvParts

\* A program of the user dies.
LEMMA DiesObeys ==
  ASSUME Inv, UserDies
  PROVE  Obeys
<1>1. InvParts
  BY InvHas
<1>2. /\ stage \subseteq Files /\ cut \subseteq Files /\ tries \in Attempts
      /\ pin \in [host : Nat, audio : Nat]
  BY <1>1, TriesAre DEF InvParts
<1>3. UserLeaves /\ Idle
  BY DEF UserDies, disk, Idle
<1>4. QED
  BY <1>1, <1>2, <1>3, LeavesObeys DEF Idle, InvParts

\* A step that changes nothing.
LEMMA StillObeys ==
  ASSUME Inv, UNCHANGED vars
  PROVE  Obeys
<1>1. InvParts
  BY InvHas
<1>2. /\ stage \subseteq Files /\ cut \subseteq Files /\ tries \in Attempts
      /\ pin \in [host : Nat, audio : Nat] /\ usr \in UserType
  BY <1>1, TriesAre DEF InvParts
<1>3. UserGoes(usr) /\ Idle
  BY DEF vars, disk, procs, Idle, UserGoes
<1>4. \A x : usr.who = "v2" /\ usr.at \in {"layout", "authenticate", "stage", "final"} =>
               waiting = {} /\ ~tx.lock
  BY <1>1 DEF InvParts, Programmed
<1>5. usr.who = "v2" /\ usr.at = "final" => Recovery \subseteq stage'
  BY <1>1, <1>3 DEF InvParts, Programmed, Idle
<1>6. usr.who = "resume" /\ usr.at = "dispatch" => Recovery \subseteq stage'
  BY <1>1, <1>3 DEF InvParts, Programmed, Idle
<1>7. usr.who = "resume" /\ usr.at = "report" =>
        CASE usr.sub = "committed" -> jnl.at = "COMMITTED"
          [] usr.sub = "rolled-back" -> jnl.at = "ROLLED_BACK"
          [] OTHER -> jnl.at = "PRESTOP_ABORTED" \/ "abort" \in stage
  BY <1>1 DEF InvParts, Programmed, ReportTrue
<1>8. QED
  BY <1>1, <1>2, <1>3, <1>4, <1>5, <1>6, <1>7, QuietObeys DEF Idle, InvParts

\* Every step of the system.
LEMMA StepObeys ==
  ASSUME Inv, [Next]_vars
  PROVE  Obeys
<1>1. CASE ByItself
  BY <1>1, WorldObeys
<1>2. CASE Programs
  BY <1>2, V1Obeys, V2Obeys, ResumeObeys DEF Programs
<1>3. CASE Resume!PinRetainedAttempt
  BY <1>3, PinObeys
<1>4. CASE RootStarts \/ RootStep \/ RootDies
  BY <1>4, RootObeys
<1>5. CASE UserDies
  BY <1>5, DiesObeys
<1>6. CASE UNCHANGED vars
  BY <1>6, StillObeys
<1>7. QED
  BY <1>1, <1>2, <1>3, <1>4, <1>5, <1>6 DEF Next

\* The invariant holds at the beginning.
LEMMA InitInv ==
  ASSUME Init
  PROVE  Inv
<1>1. /\ host = [loaded |-> TRUE, gen |-> 1, first |-> TRUE] /\ births = 1
      /\ audio = [gen |-> 1, drv |-> "v7"] /\ routes = "base" /\ intact = Checked
      /\ tries = [v1 |-> "none", v2 |-> "none"] /\ pin = [host |-> 0, audio |-> 0]
      /\ stage = {} /\ cut = {} /\ waiting = {} /\ usr = NoUser /\ rp = NoRoot /\ out = NoAnswer
  BY DEF Init, WorldInit
<1>2. drv = [canonical |-> "v7", stage |-> "none", prior |-> "none", failed |-> "none"]
  BY DEF Init, WorldInit
<1>3. tx = [dir |-> FALSE, lock |-> FALSE, ptr |-> "absent", reserve |-> "absent",
            result |-> "none", recovery |-> "none", aborted |-> 0]
  BY DEF Init, WorldInit
<1>4. /\ jnl = [at |-> "absent", pend |-> "none", inits |-> 0, old |-> 0]
      /\ st = [at |-> "none", init |-> 0, routes |-> "base", reserve |-> FALSE]
  BY DEF Init, WorldInit
<1>5. drv \in [Paths -> Bundle] /\ Cardinality(Holders(drv)) = 1
  <2>1. drv \in [Paths -> Bundle] /\ Holders(drv) = {"canonical"}
    BY <1>2 DEF Paths, Bundle, Holders
  <2>2. QED
    BY <2>1, OneHolder
<1>6. rp \in RootType /\ Len(PlanOf["none"]) = 0
  BY <1>1, OpsAre, PlanLengths DEF NoRoot, RootType, JournalAt, UpdateState, Told, Done
<1>7. NoRoot.op = "none" /\ NoRoot.at = 0 /\ NoRoot.done = {}
  BY DEF NoRoot
<1>8. RootPlaced
  BY <1>1, <1>6, <1>7 DEF RootPlaced, Placed, DueHere, Purpose
<1>9. jnl \in JournalType /\ jnl.at = "absent"
  BY <1>4 DEF JournalType, JournalAt
<1>10. TypeOK
  <2>1. /\ host \in [loaded : BOOLEAN, gen : 0..births, first : BOOLEAN] /\ births \in Nat
        /\ audio \in [gen : Nat, drv : Bundle] /\ routes \in {"base", "drifted"}
        /\ intact \subseteq Checked
    BY <1>1 DEF Bundle
  <2>2. /\ tries \in [v1 : {"none", "begun", "authenticated"},
                      v2 : {"none", "begun", "authenticated", "retained"}]
        /\ pin \in [host : Nat, audio : Nat] /\ stage \subseteq Files /\ cut \subseteq Files
        /\ waiting \subseteq [kind : {"forward", "recovery"}, own : BOOLEAN]
    BY <1>1
  <2>3. drv \in [{"canonical", "stage", "prior", "failed"} -> Bundle]
    BY <1>5 DEF Paths
  <2>4. out.is \in {"none", "ok", "failed", "busy"}
    BY <1>1, FailedAnswer DEF AnswerType
  <2>5. /\ tx.reserve = "absent" /\ tx.ptr = "absent" /\ tx.result = "none" /\ tx.recovery = "none"
        /\ jnl.at = "absent" /\ jnl.pend = "none" /\ st.at = "none"
    BY <1>3, <1>4
  <2>6. QED
    BY <2>1, <2>2, <2>3, <2>4, <2>5 DEF TypeOK
<1>11. Typed
  BY <1>1, <1>2, <1>3, <1>4, <1>6, <1>9, <1>10, FailedAnswer DEF Typed, TxType, StateFileType
<1>12. JournalTrue
  <2>1. Effective(jnl) = "absent"
    BY <1>9, EffectiveIs
  <2>2. QED
    BY <2>1 DEF JournalTrue, Truth, Back
<1>13. HostKnowing /\ Begun /\ ResultsTrue
  BY <1>1, <1>2, <1>3, <1>4, <1>7 DEF HostKnowing, Synced, Begun, NoJournal, Untouched, ResultsTrue
<1>14. AnswerTrue
  BY <1>1, FailedAnswer DEF AnswerTrue
<1>15. Programmed
  BY <1>1, <1>3, UserPlaces DEF Programmed, ReportTrue
<1>16. QED
  BY <1>5, <1>8, <1>11, <1>12, <1>13, <1>14, <1>15 DEF Inv, RootSound, Kept, PriorDriverKept, Holders

----------------------------------------------------------------------------
(* What holds in every behaviour                                             *)

\* The invariant holds in every reachable state.
LEMMA Invariance == Spec => []Inv
<1>1. Init => Inv
  BY InitInv
<1>2. Inv /\ [Next]_vars => Inv'
  BY StepObeys DEF Obeys, Upheld, Inv
<1>3. QED
  BY <1>1, <1>2, PTL DEF Spec

\* Whatever fails, and whichever of the programs and root processes dies between
\* two renames, the v7 driver that a rollback needs is at exactly one of the
\* four paths.
THEOREM KeptDriver == Spec => []DriverKept
<1>1. Inv => DriverKept
  BY DEF Inv, RootSound, Kept, Typed, DriverKept
<1>2. QED
  BY <1>1, Invariance, PTL

\* A running host never works over a Core Audio that has loaded another driver
\* than the one installed.
THEOREM HostKnows == Spec => []HostSeesInstalledDriver
<1>1. Inv => HostSeesInstalledDriver
  BY DEF Inv, RootSound, HostKnowing, Synced, HostSeesInstalledDriver
<1>2. QED
  BY <1>1, Invariance, PTL

\* What the journal, the results and the stager's report say of a settled
\* transaction is true of the machine.
THEOREM TrueRecords == Spec => []RecordsTrue
<1>1. ASSUME Inv PROVE RecordsTrue
  <2>1. jnl \in JournalType
    BY <1>1 DEF Inv, RootSound, Kept, Typed
  <2>2. jnl.at \in Terminal => Effective(jnl) = jnl.at
    BY <2>1, EffectiveIs
  <2>3. /\ jnl.at = "COMMITTED" => drv.canonical = "candidate" /\ drv.prior = "v7"
        /\ jnl.at \in {"ROLLED_BACK", "PRESTOP_ABORTED"} => drv.canonical = "v7"
        /\ jnl.at = "PRESTOP_ABORTED" => drv.prior = "none" /\ drv.failed = "none"
    BY <1>1, <2>2 DEF Inv, RootSound, JournalTrue, Truth, Terminal
  <2>4. OutcomeTrue
    BY <1>1, <2>3 DEF OutcomeTrue, Inv, RootSound, Begun, ResultsTrue, Aborted
  <2>5. QED
    BY <1>1, <2>4 DEF RecordsTrue, Inv, Programmed
<1>2. QED
  BY <1>1, Invariance, PTL

\* The transaction is started at most once, and once it is settled no root
\* process that was started before touches the driver or stops the host.
THEOREM Once == Spec => TransactionOnce
<1>1. ASSUME Inv, [Next]_vars
      PROVE  /\ Settled => Settled' /\ drv' = drv /\ host'.loaded = host.loaded
             /\ ForwardStarted = {} /\ ForwardStarted' # {} =>
                  ~tx.lock /\ rp.op = "none" /\ jnl.at = "absent"
  <2>1. Upheld /\ Starts
    BY <1>1, StepObeys DEF Obeys
  <2>2. Settled => Settled'
    BY <2>1 DEF Upheld, Lasts, Settled
  <2>3. QED
    BY <2>1, <2>2 DEF Upheld, Steady, Starts
<1>2. QED
  BY <1>1, Invariance, PTL DEF Spec, TransactionOnce, SettledFinal, StartedOnce
====
