--------------------------- MODULE DriverDelivery ---------------------------
(* The delivery of the diagnostic driver: the v1 controller, the v2          *)
(* controller, its rollback and the resume stager, run by the user one at a  *)
(* time over the same machine, and the root processes they start.            *)
EXTENDS DriverV2

V1 == INSTANCE DriverV1
Resume == INSTANCE DriverResume

Init == WorldInit

ByItself == HostDies \/ HostRestarts \/ HostExits \/ AudioRestarts \/ RoutesChange \/ Disturb

Programs == V1!V1Step \/ V2Step \/ RollbackStep \/ Resume!ResumeStep

Next ==
    \/ ByItself \/ Programs \/ Resume!PinRetainedAttempt
    \/ RootStarts \/ RootStep \/ RootDies \/ UserDies

Spec == Init /\ [][Next]_vars

\* A process that has started goes on, launchd keeps its jobs alive, and the
\* operator runs a recovery again as long as there is one to run.
Fairness ==
    /\ WF_vars(HostRestarts \/ HostExits)
    /\ WF_vars(RootStarts) /\ WF_vars(RootStep) /\ WF_vars(Programs)

LiveSpec == Spec /\ Fairness

----------------------------------------------------------------------------
(* Types                                                                     *)

Bundle == {"none", "partial", "v7", "candidate"}

\* Every variable holds a value of its kind.
TypeOK ==
    /\ host \in [loaded : BOOLEAN, gen : 0..births, first : BOOLEAN] /\ births \in Nat
    /\ audio \in [gen : Nat, drv : Bundle] /\ routes \in {"base", "drifted"}
    /\ drv \in [{"canonical", "stage", "prior", "failed"} -> Bundle] /\ intact \subseteq Checked
    /\ tries \in [v1 : {"none", "begun", "authenticated"},
                  v2 : {"none", "begun", "authenticated", "retained"}]
    /\ pin \in [host : Nat, audio : Nat] /\ stage \subseteq Files /\ cut \subseteq Files
    /\ tx.reserve \in {"absent", "partial", "allocated", "released"}
    /\ tx.ptr \in {"absent", "torn", "pending", "published"}
    /\ tx.result \in {"none", "success", "rolled-back", "critical-failure"}
    /\ tx.recovery \in {"none", "torn", "committed", "rolled-back", "prestop-aborted"}
    /\ jnl.at \in UpdateState \cup {"absent", "partial"} /\ jnl.pend \in UpdateState \cup {"none", "torn", "earlier"}
    /\ st.at \in UpdateState \cup {"none"}
    /\ waiting \subseteq [kind : {"forward", "recovery"}, own : BOOLEAN]
    /\ out.is \in {"none", "ok", "failed", "busy"}

----------------------------------------------------------------------------
(* The driver                                                                *)

\* The v7 driver is kept in exactly one place, whatever fails and whoever dies
\* between the renames of a transaction and of its rollback.
PriorDriverKept == Cardinality({p \in DOMAIN drv : drv[p] = "v7"}) = 1

\* Every program leaves the machine in a state of the delivery, with exactly one
\* copy of the driver a rollback needs.
DriverKept == TypeOK /\ PriorDriverKept

\* While a host process runs, Core Audio has loaded the driver that is
\* installed: the driver is exchanged only with the host stopped, and no host
\* is started again before Core Audio was.
HostSeesInstalledDriver == host.gen # 0 => audio.drv = drv.canonical

----------------------------------------------------------------------------
(* The outcome                                                               *)

\* What the journal and the results say of a settled transaction is true of
\* the machine.
OutcomeTrue ==
    /\ jnl.at = "COMMITTED" => drv.canonical = "candidate" /\ drv.prior = "v7"
    /\ jnl.at \in {"ROLLED_BACK", "PRESTOP_ABORTED"} => drv.canonical = "v7"
    /\ jnl.at = "PRESTOP_ABORTED" \/ "abort" \in stage => drv.prior = "none" /\ drv.failed = "none"
    /\ tx.result = "success" \/ tx.recovery = "committed" => jnl.at = "COMMITTED"
    /\ tx.recovery = "rolled-back" => jnl.at = "ROLLED_BACK"
    /\ tx.recovery = "prestop-aborted" => jnl.at \in {"PRESTOP_ABORTED", "partial"}

\* What the resume stager tells is what the transaction's own records say.
ReportTrue ==
    usr.who = "resume" /\ usr.at = "report" =>
      CASE usr.sub = "committed" -> jnl.at = "COMMITTED"
        [] usr.sub = "rolled-back" -> jnl.at = "ROLLED_BACK"
        [] OTHER -> jnl.at = "PRESTOP_ABORTED" \/ "abort" \in stage

\* Neither a durable record nor a report to the operator claims an outcome that
\* the machine does not show.
RecordsTrue == OutcomeTrue /\ ReportTrue

Settled == jnl.at \in Terminal \/ "abort" \in stage

\* A settled transaction stays settled: a root process that was started before
\* and comes late neither touches the driver nor stops the host.
SettledFinal == [][Settled => Settled' /\ drv' = drv /\ host'.loaded = host.loaded]_vars

\* The transaction is started at most once: never while an earlier start may
\* still run, nor after one has left its lock.
ForwardStarted == {p \in waiting : p.kind = "forward"}
StartedOnce ==
    [][ForwardStarted = {} /\ ForwardStarted' # {} => ~tx.lock /\ rp.op = "none" /\ jnl.at = "absent"]_vars

\* The transaction happens once: it is started at most once, and after it is
\* settled nothing that was started before changes driver or host.
TransactionOnce == SettledFinal /\ StartedOnce

----------------------------------------------------------------------------
(* Recovery                                                                  *)

Quiet == rp.op = "none" /\ waiting = {}

\* Records of a rollback that no recovery accepts: the journal is two records
\* ahead of the state file, because it was interrupted twice, each time
\* between a journal record and its state file.
Gap ==
    /\ effective_state_with_pending \in Undoing /\ troubles > 1
    /\ ~journal_and_root_state_are_crash_coherent(effective_state_with_pending, st.at)

\* A host that was stopped and is not back can be brought back: its job is
\* unloaded only under records that a recovery resumes, unless two failures
\* have left a gap between them or a snapshot of the journal was cut off exactly
\* behind an earlier record.
Recoverable ==
    Quiet /\ ~host.loaded /\ ~Gap /\ ~Diverged(jnl) =>
      /\ {"locator", "parent", "support", "rec", "recPin", "tx", "txPin", "txId"} \subseteq stage
      /\ tx.ptr = "published" /\ st.reserve
      /\ root_recovery_plan(effective_state_with_pending, st.at) = "rollback"

Stranded == intact # Checked \/ jnl.inits > 1 \/ Gap \/ Diverged(jnl)

\* A stopped host comes back.
HostReturns == ~host.loaded ~> (host.loaded \/ Stranded)
=============================================================================
