------------------------ MODULE HostMigrationProofs ------------------------
(* What the host migration controller keeps at every step, for any number   *)
(* of generations, crashes and faults.  The proof has four layers:           *)
(*   - the text of the plans: what is done at each place of each plan;       *)
(*   - IInv, inductive under every kind of failing append: the controller is *)
(*     at a place of its plan, the journal's control fields agree with what  *)
(*     is running, and what was proved or done earlier in the plan is still  *)
(*     true (Facts);                                                         *)
(*   - CInv, inductive when a failing append does not keep its record: what  *)
(*     a durable commit promises;                                            *)
(*   - the refinement of HostCutover, one abstract step per concrete one.    *)
EXTENDS HostMigration, TLAPS

----------------------------------------------------------------------------
(* The plans, place by place                                                *)

\* The place of the forward plan decides the effect and the record.
LEMMA ForwardText ==
  ASSUME run = "forward", mode = "none", at \in 1..12, fx \in 1..(Len(Effects) + 1)
  PROVE  /\ InPlan /\ PlanLength = 12 /\ fx \in 1..7
         /\ at = 1 =>
              \/ fx = 1 /\ Doing = "VerifyProvenance"
              \/ fx = 2 /\ Doing = "record" /\ RecordOf = "PROVENANCE_VERIFIED"
         /\ at = 2 =>
              \/ fx = 1 /\ Doing = "SnapshotLegacy"
              \/ fx = 2 /\ Doing = "record" /\ RecordOf = "LEGACY_SNAPSHOTTED"
         /\ at = 3 =>
              \/ fx = 1 /\ Doing = "BuildAndStage"
              \/ fx = 2 /\ Doing = "record" /\ RecordOf = "NEW_STAGED"
         /\ at = 4 =>
              \/ fx = 1 /\ Doing = "VerifyPrecutover"
              \/ fx = 2 /\ Doing = "record" /\ RecordOf = "PRECUTOVER_VERIFIED"
         /\ at = 5 =>
              \/ fx = 1 /\ Doing = "DisableLegacy"
              \/ fx = 2 /\ Doing = "VerifyLegacyDisabled"
              \/ fx = 3 /\ Doing = "record" /\ RecordOf = "LEGACY_DISABLED"
         /\ at = 6 =>
              \/ fx = 1 /\ Doing = "BootoutLegacy"
              \/ fx = 2 /\ Doing = "WaitLegacyAbsent"
              \/ fx = 3 /\ Doing = "record" /\ RecordOf = "LEGACY_STOPPED"
         /\ at = 7 =>
              \/ fx = 1 /\ Doing = "VerifyLockHandoff"
              \/ fx = 2 /\ Doing = "record" /\ RecordOf = "LOCK_HANDED_OFF"
         /\ at = 8 =>
              \/ fx = 1 /\ Doing = "PrepareLogs"
              \/ fx = 2 /\ Doing = "CopyAppInstallHold"
              \/ fx = 3 /\ Doing = "PublishApp"
              \/ fx = 4 /\ Doing = "CopyPlistInstallHold"
              \/ fx = 5 /\ Doing = "PublishPlist"
              \/ fx = 6 /\ Doing = "VerifyInstalledDestinations"
              \/ fx = 7 /\ Doing = "record" /\ RecordOf = "NEW_INSTALLED"
         /\ at = 9 =>
              \/ fx = 1 /\ Doing = "BootstrapNew"
              \/ fx = 2 /\ Doing = "record" /\ RecordOf = "NEW_BOOTSTRAPPED"
         /\ at = 10 =>
              \/ fx = 1 /\ Doing = "ObserveNewPid"
              \/ fx = 2 /\ Doing = "CheckpointGenerationLog"
              \/ fx = 3 /\ Doing = "record" /\ RecordOf = "NEW_PID_OBSERVED"
         /\ at = 11 =>
              \/ fx = 1 /\ Doing = "ObserveFreshMarker"
              \/ fx = 2 /\ Doing = "VerifyStableDeployment"
              \/ fx = 3 /\ Doing = "record" /\ RecordOf = "READY_VERIFIED"
         /\ at = 12 =>
              \/ fx = 1 /\ Doing = "VerifyCommitState"
              \/ fx = 2 /\ Doing = "RevalidateCommitFields"
              \/ fx = 3 /\ Doing = "record" /\ RecordOf = "COMMITTED"
<1> DEFINE p == FORWARD_PLAN[at]
<1>1. InPlan /\ PlanLength = 12
  BY DEF InPlan, EffectRuns, PlanLength, FORWARD_PLAN
<1>2. Op = p[1] /\ RecordOf = p[2] /\ Effects = forward_effects(p[1])
  BY DEF Op, RecordOf, Effects
<1>3. CASE at = 1
  <2>1. p[1] = "VerifyProvenance" /\ p[2] = "PROVENANCE_VERIFIED"
    BY <1>3 DEF FORWARD_PLAN
  <2>2. Effects = <<"VerifyProvenance">>
    BY <1>2, <2>1 DEF forward_effects
  <2>3. RecordOf = "PROVENANCE_VERIFIED" /\ Len(Effects) = 1
    BY <1>2, <2>1, <2>2
  <2> HIDE DEF p
  <2>4. QED BY <1>1, <1>3, <2>2, <2>3 DEF Doing
<1>4. CASE at = 2
  <2>1. p[1] = "SnapshotLegacy" /\ p[2] = "LEGACY_SNAPSHOTTED"
    BY <1>4 DEF FORWARD_PLAN
  <2>2. Effects = <<"SnapshotLegacy">>
    BY <1>2, <2>1 DEF forward_effects
  <2>3. RecordOf = "LEGACY_SNAPSHOTTED" /\ Len(Effects) = 1
    BY <1>2, <2>1, <2>2
  <2> HIDE DEF p
  <2>4. QED BY <1>1, <1>4, <2>2, <2>3 DEF Doing
<1>5. CASE at = 3
  <2>1. p[1] = "BuildAndStage" /\ p[2] = "NEW_STAGED"
    BY <1>5 DEF FORWARD_PLAN
  <2>2. Effects = <<"BuildAndStage">>
    BY <1>2, <2>1 DEF forward_effects
  <2>3. RecordOf = "NEW_STAGED" /\ Len(Effects) = 1
    BY <1>2, <2>1, <2>2
  <2> HIDE DEF p
  <2>4. QED BY <1>1, <1>5, <2>2, <2>3 DEF Doing
<1>6. CASE at = 4
  <2>1. p[1] = "VerifyPrecutover" /\ p[2] = "PRECUTOVER_VERIFIED"
    BY <1>6 DEF FORWARD_PLAN
  <2>2. Effects = <<"VerifyPrecutover">>
    BY <1>2, <2>1 DEF forward_effects
  <2>3. RecordOf = "PRECUTOVER_VERIFIED" /\ Len(Effects) = 1
    BY <1>2, <2>1, <2>2
  <2> HIDE DEF p
  <2>4. QED BY <1>1, <1>6, <2>2, <2>3 DEF Doing
<1>7. CASE at = 5
  <2>1. p[1] = "DisableLegacy" /\ p[2] = "LEGACY_DISABLED"
    BY <1>7 DEF FORWARD_PLAN
  <2>2. Effects = <<"DisableLegacy", "VerifyLegacyDisabled">>
    BY <1>2, <2>1 DEF forward_effects
  <2>3. RecordOf = "LEGACY_DISABLED" /\ Len(Effects) = 2
    BY <1>2, <2>1, <2>2
  <2> HIDE DEF p
  <2>4. QED BY <1>1, <1>7, <2>2, <2>3 DEF Doing
<1>8. CASE at = 6
  <2>1. p[1] = "StopLegacy" /\ p[2] = "LEGACY_STOPPED"
    BY <1>8 DEF FORWARD_PLAN
  <2>2. Effects = <<"BootoutLegacy", "WaitLegacyAbsent">>
    BY <1>2, <2>1 DEF forward_effects
  <2>3. RecordOf = "LEGACY_STOPPED" /\ Len(Effects) = 2
    BY <1>2, <2>1, <2>2
  <2> HIDE DEF p
  <2>4. QED BY <1>1, <1>8, <2>2, <2>3 DEF Doing
<1>9. CASE at = 7
  <2>1. p[1] = "VerifyLockHandoff" /\ p[2] = "LOCK_HANDED_OFF"
    BY <1>9 DEF FORWARD_PLAN
  <2>2. Effects = <<"VerifyLockHandoff">>
    BY <1>2, <2>1 DEF forward_effects
  <2>3. RecordOf = "LOCK_HANDED_OFF" /\ Len(Effects) = 1
    BY <1>2, <2>1, <2>2
  <2> HIDE DEF p
  <2>4. QED BY <1>1, <1>9, <2>2, <2>3 DEF Doing
<1>10. CASE at = 8
  <2>1. p[1] = "InstallNew" /\ p[2] = "NEW_INSTALLED"
    BY <1>10 DEF FORWARD_PLAN
  <2>2. Effects = <<"PrepareLogs", "CopyAppInstallHold", "PublishApp", "CopyPlistInstallHold",
                     "PublishPlist", "VerifyInstalledDestinations">>
    BY <1>2, <2>1 DEF forward_effects
  <2>3. RecordOf = "NEW_INSTALLED" /\ Len(Effects) = 6
    BY <1>2, <2>1, <2>2
  <2> HIDE DEF p
  <2>4. QED BY <1>1, <1>10, <2>2, <2>3 DEF Doing
<1>11. CASE at = 9
  <2>1. p[1] = "BootstrapNew" /\ p[2] = "NEW_BOOTSTRAPPED"
    BY <1>11 DEF FORWARD_PLAN
  <2>2. Effects = <<"BootstrapNew">>
    BY <1>2, <2>1 DEF forward_effects
  <2>3. RecordOf = "NEW_BOOTSTRAPPED" /\ Len(Effects) = 1
    BY <1>2, <2>1, <2>2
  <2> HIDE DEF p
  <2>4. QED BY <1>1, <1>11, <2>2, <2>3 DEF Doing
<1>12. CASE at = 10
  <2>1. p[1] = "ObserveNewPid" /\ p[2] = "NEW_PID_OBSERVED"
    BY <1>12 DEF FORWARD_PLAN
  <2>2. Effects = <<"ObserveNewPid", "CheckpointGenerationLog">>
    BY <1>2, <2>1 DEF forward_effects
  <2>3. RecordOf = "NEW_PID_OBSERVED" /\ Len(Effects) = 2
    BY <1>2, <2>1, <2>2
  <2> HIDE DEF p
  <2>4. QED BY <1>1, <1>12, <2>2, <2>3 DEF Doing
<1>13. CASE at = 11
  <2>1. p[1] = "VerifyReadiness" /\ p[2] = "READY_VERIFIED"
    BY <1>13 DEF FORWARD_PLAN
  <2>2. Effects = <<"ObserveFreshMarker", "VerifyStableDeployment">>
    BY <1>2, <2>1 DEF forward_effects
  <2>3. RecordOf = "READY_VERIFIED" /\ Len(Effects) = 2
    BY <1>2, <2>1, <2>2
  <2> HIDE DEF p
  <2>4. QED BY <1>1, <1>13, <2>2, <2>3 DEF Doing
<1>14. CASE at = 12
  <2>1. p[1] = "Commit" /\ p[2] = "COMMITTED"
    BY <1>14 DEF FORWARD_PLAN
  <2>2. Effects = <<"VerifyCommitState", "RevalidateCommitFields">>
    BY <1>2, <2>1 DEF forward_effects
  <2>3. RecordOf = "COMMITTED" /\ Len(Effects) = 2
    BY <1>2, <2>1, <2>2
  <2> HIDE DEF p
  <2>4. QED BY <1>1, <1>14, <2>2, <2>3 DEF Doing
<1>15. QED BY <1>1, <1>3, <1>4, <1>5, <1>6, <1>7, <1>8, <1>9, <1>10, <1>11, <1>12, <1>13, <1>14

\* The same for the rollback before the legacy host was stopped.
LEMMA BeforeStopText ==
  ASSUME run = "rollback", mode = "BeforeLegacyStop", at \in 1..6, fx \in 1..(Len(Effects) + 1)
  PROVE  /\ InPlan /\ PlanLength = 6 /\ fx \in 1..7
         /\ at = 1 =>
              \/ fx = 1 /\ Doing = "Begin"
              \/ fx = 2 /\ Doing = "record" /\ RecordOf = "ROLLBACK_STARTED"
         /\ at = 2 =>
              \/ fx = 1 /\ Doing = "VerifyBeforeStop"
              \/ fx = 2 /\ Doing = "skip"
         /\ at = 3 =>
              \/ fx = 1 /\ Doing = "EnableLegacy"
              \/ fx = 2 /\ Doing = "record" /\ RecordOf = "LEGACY_REENABLED"
         /\ at = 4 =>
              \/ fx = 1 /\ Doing = "VerifyLegacy"
              \/ fx = 2 /\ Doing = "record" /\ RecordOf = "LEGACY_RECOVERED"
         /\ at = 5 =>
              \/ fx = 1 /\ Doing = "ArchiveEvidence"
              \/ fx = 2 /\ Doing = "skip"
         /\ at = 6 =>
              \/ fx = 1 /\ Doing = "Finish"
              \/ fx = 2 /\ Doing = "record" /\ RecordOf = "ROLLED_BACK"
<1>1. CASE at = 1
  BY <1>1 DEF Doing, Effects, Op, RecordOf, InPlan, PlanLength, EffectRuns, rollback_plan, rollback_effects, rollback_state
<1>2. CASE at = 2
  BY <1>2 DEF Doing, Effects, Op, RecordOf, InPlan, PlanLength, EffectRuns, rollback_plan, rollback_effects, rollback_state
<1>3. CASE at = 3
  BY <1>3 DEF Doing, Effects, Op, RecordOf, InPlan, PlanLength, EffectRuns, rollback_plan, rollback_effects, rollback_state
<1>4. CASE at = 4
  BY <1>4 DEF Doing, Effects, Op, RecordOf, InPlan, PlanLength, EffectRuns, rollback_plan, rollback_effects, rollback_state
<1>5. CASE at = 5
  BY <1>5 DEF Doing, Effects, Op, RecordOf, InPlan, PlanLength, EffectRuns, rollback_plan, rollback_effects, rollback_state
<1>6. CASE at = 6
  BY <1>6 DEF Doing, Effects, Op, RecordOf, InPlan, PlanLength, EffectRuns, rollback_plan, rollback_effects, rollback_state
<1>7. QED BY <1>1, <1>2, <1>3, <1>4, <1>5, <1>6

\* The same for the part of a rollback that stops the new host.
LEMMA ProvisionalText ==
  ASSUME run = "rollback", mode = "Provisional", at \in 1..2, fx \in 1..(Len(Effects) + 1)
  PROVE  /\ InPlan /\ PlanLength = 2 /\ fx \in 1..7
         /\ at = 1 =>
              \/ fx = 1 /\ Doing = "Begin"
              \/ fx = 2 /\ Doing = "record" /\ RecordOf = "ROLLBACK_STARTED"
         /\ at = 2 =>
              \/ fx = 1 /\ Doing = "BootoutNew"
              \/ fx = 2 /\ Doing = "WaitNewAbsent"
              \/ fx = 3 /\ Doing = "record" /\ RecordOf = "NEW_STOPPED"
<1>1. CASE at = 1
  BY <1>1 DEF Doing, Effects, Op, RecordOf, InPlan, PlanLength, EffectRuns, rollback_plan, rollback_effects, rollback_state
<1>2. CASE at = 2
  BY <1>2 DEF Doing, Effects, Op, RecordOf, InPlan, PlanLength, EffectRuns, rollback_plan, rollback_effects, rollback_state
<1>3. QED BY <1>1, <1>2

\* The same for the rollback that finds the legacy host still loaded.
LEMMA StillRunningText ==
  ASSUME run = "rollback", mode = "LegacyStillRunning", at \in 1..4, fx \in 1..(Len(Effects) + 1)
  PROVE  /\ InPlan /\ PlanLength = 4 /\ fx \in 1..7
         /\ at = 1 =>
              \/ fx = 1 /\ Doing = "EnableLegacy"
              \/ fx = 2 /\ Doing = "record" /\ RecordOf = "LEGACY_REENABLED"
         /\ at = 2 =>
              \/ fx = 1 /\ Doing = "VerifyLegacy"
              \/ fx = 2 /\ Doing = "record" /\ RecordOf = "LEGACY_RECOVERED"
         /\ at = 3 =>
              \/ fx = 1 /\ Doing = "ArchiveEvidence"
              \/ fx = 2 /\ Doing = "skip"
         /\ at = 4 =>
              \/ fx = 1 /\ Doing = "Finish"
              \/ fx = 2 /\ Doing = "record" /\ RecordOf = "ROLLED_BACK"
<1>1. CASE at = 1
  BY <1>1 DEF Doing, Effects, Op, RecordOf, InPlan, PlanLength, EffectRuns, rollback_plan, rollback_effects, rollback_state
<1>2. CASE at = 2
  BY <1>2 DEF Doing, Effects, Op, RecordOf, InPlan, PlanLength, EffectRuns, rollback_plan, rollback_effects, rollback_state
<1>3. CASE at = 3
  BY <1>3 DEF Doing, Effects, Op, RecordOf, InPlan, PlanLength, EffectRuns, rollback_plan, rollback_effects, rollback_state
<1>4. CASE at = 4
  BY <1>4 DEF Doing, Effects, Op, RecordOf, InPlan, PlanLength, EffectRuns, rollback_plan, rollback_effects, rollback_state
<1>5. QED BY <1>1, <1>2, <1>3, <1>4

\* The same for the rollback that restores the legacy host.
LEMMA FullRestoreText ==
  ASSUME run = "rollback", mode = "FullRestore", at \in 1..6, fx \in 1..(Len(Effects) + 1)
  PROVE  /\ InPlan /\ PlanLength = 6 /\ fx \in 1..7
         /\ at = 1 =>
              \/ fx = 1 /\ Doing = "ClearApp"
              \/ fx = 2 /\ Doing = "ClearPlist"
              \/ fx = 3 /\ Doing = "record" /\ RecordOf = "NEW_DESTINATIONS_CLEARED"
         /\ at = 2 =>
              \/ fx = 1 /\ Doing = "EnableLegacy"
              \/ fx = 2 /\ Doing = "record" /\ RecordOf = "LEGACY_REENABLED"
         /\ at = 3 =>
              \/ fx = 1 /\ Doing = "BootstrapLegacy"
              \/ fx = 2 /\ Doing = "record" /\ RecordOf = "LEGACY_BOOTSTRAPPED"
         /\ at = 4 =>
              \/ fx = 1 /\ Doing = "VerifyLegacy"
              \/ fx = 2 /\ Doing = "record" /\ RecordOf = "LEGACY_RECOVERED"
         /\ at = 5 =>
              \/ fx = 1 /\ Doing = "ArchiveEvidence"
              \/ fx = 2 /\ Doing = "skip"
         /\ at = 6 =>
              \/ fx = 1 /\ Doing = "Finish"
              \/ fx = 2 /\ Doing = "record" /\ RecordOf = "ROLLED_BACK"
<1>1. CASE at = 1
  BY <1>1 DEF Doing, Effects, Op, RecordOf, InPlan, PlanLength, EffectRuns, rollback_plan, rollback_effects, rollback_state
<1>2. CASE at = 2
  BY <1>2 DEF Doing, Effects, Op, RecordOf, InPlan, PlanLength, EffectRuns, rollback_plan, rollback_effects, rollback_state
<1>3. CASE at = 3
  BY <1>3 DEF Doing, Effects, Op, RecordOf, InPlan, PlanLength, EffectRuns, rollback_plan, rollback_effects, rollback_state
<1>4. CASE at = 4
  BY <1>4 DEF Doing, Effects, Op, RecordOf, InPlan, PlanLength, EffectRuns, rollback_plan, rollback_effects, rollback_state
<1>5. CASE at = 5
  BY <1>5 DEF Doing, Effects, Op, RecordOf, InPlan, PlanLength, EffectRuns, rollback_plan, rollback_effects, rollback_state
<1>6. CASE at = 6
  BY <1>6 DEF Doing, Effects, Op, RecordOf, InPlan, PlanLength, EffectRuns, rollback_plan, rollback_effects, rollback_state
<1>7. QED BY <1>1, <1>2, <1>3, <1>4, <1>5, <1>6

\* The same for the recovery of a committed migration.
LEMMA RecoveryText ==
  ASSUME run = "recover", mode = "none", at \in 1..7, fx \in 1..(Len(Effects) + 1)
  PROVE  /\ InPlan /\ PlanLength = 7 /\ fx \in 1..7
         /\ at = 1 =>
              \/ fx = 1 /\ Doing = "VerifyCommittedDestinations"
              \/ fx = 2 /\ Doing = "skip"
         /\ at = 2 =>
              \/ fx = 1 /\ Doing = "BootoutNew"
              \/ fx = 2 /\ Doing = "WaitNewAbsent"
              \/ fx = 3 /\ Doing = "skip"
         /\ at = 3 =>
              \/ fx = 1 /\ Doing = "BootstrapNew"
              \/ fx = 2 /\ Doing = "record" /\ RecordOf = "COMMITTED_RECOVERY_STARTED"
         /\ at = 4 =>
              \/ fx = 1 /\ Doing = "ObserveCurrentGeneration"
              \/ fx = 2 /\ Doing = "record" /\ RecordOf = "COMMITTED_RECOVERY_BOOTSTRAPPED"
         /\ at = 5 =>
              \/ fx = 1 /\ Doing = "CheckpointCurrentGeneration"
              \/ fx = 2 /\ Doing = "skip"
         /\ at = 6 =>
              \/ fx = 1 /\ Doing = "ObserveFreshMarker"
              \/ fx = 2 /\ Doing = "skip"
         /\ at = 7 =>
              \/ fx = 1 /\ Doing = "VerifyStableCurrentGeneration"
              \/ fx = 2 /\ Doing = "record" /\ RecordOf = "COMMITTED_RECOVERY_READY"
<1>1. CASE at = 1
  BY <1>1 DEF Doing, Effects, Op, RecordOf, InPlan, PlanLength, EffectRuns, committed_recovery_plan, committed_recovery_state
<1>2. CASE at = 2
  BY <1>2 DEF Doing, Effects, Op, RecordOf, InPlan, PlanLength, EffectRuns, committed_recovery_plan, committed_recovery_state
<1>3. CASE at = 3
  BY <1>3 DEF Doing, Effects, Op, RecordOf, InPlan, PlanLength, EffectRuns, committed_recovery_plan, committed_recovery_state
<1>4. CASE at = 4
  BY <1>4 DEF Doing, Effects, Op, RecordOf, InPlan, PlanLength, EffectRuns, committed_recovery_plan, committed_recovery_state
<1>5. CASE at = 5
  BY <1>5 DEF Doing, Effects, Op, RecordOf, InPlan, PlanLength, EffectRuns, committed_recovery_plan, committed_recovery_state
<1>6. CASE at = 6
  BY <1>6 DEF Doing, Effects, Op, RecordOf, InPlan, PlanLength, EffectRuns, committed_recovery_plan, committed_recovery_state
<1>7. CASE at = 7
  BY <1>7 DEF Doing, Effects, Op, RecordOf, InPlan, PlanLength, EffectRuns, committed_recovery_plan, committed_recovery_state
<1>8. QED BY <1>1, <1>2, <1>3, <1>4, <1>5, <1>6, <1>7

\* Every operation has one to six effects.
LEMMA EffectCount ==
  /\ \A op : Len(forward_effects(op)) \in 1..6
  /\ \A op : Len(rollback_effects(op)) \in 1..2
<1>1. ASSUME NEW op PROVE Len(forward_effects(op)) \in 1..6
  BY DEF forward_effects
<1>2. ASSUME NEW op PROVE Len(rollback_effects(op)) \in 1..2
  BY DEF rollback_effects
<1>3. QED BY <1>1, <1>2

----------------------------------------------------------------------------
(* The inductive invariant                                                  *)

\* The controller is at a place of the plan it runs.
Placed ==
  /\ run = "forward" =>
       mode = "none" /\ origin = "start" /\ at \in 1..12 /\ fx \in 1..(Len(Effects) + 1)
  /\ run = "recover" =>
       mode = "none" /\ at \in 1..7 /\ fx \in 1..(Len(Effects) + 1)
  /\ run = "rollback" =>
       /\ mode # "none"
       /\ mode # "Decide" => fx \in 1..(Len(Effects) + 1)
       /\ mode = "BeforeLegacyStop" => at \in 1..6
       /\ mode = "Provisional" => at \in 1..2
       /\ mode = "LegacyStillRunning" => at \in 1..4
       /\ mode = "FullRestore" => at \in 1..6

\* A journal exists before anything runs or points to it; it is appendable and
\* not committed during an attempt, committed during a recovery, and a final
\* record leaves nothing running.  No generation is known before its launch.
Journal ==
  /\ run # "none" \/ ptr # "none" => jnl.present
  /\ ~jnl.present => jnl.last = "BEGUN"
  /\ run \in {"pointer", "forward"} =>
       jnl.tail = "clean" /\ ~is_committed_family(jnl.last)
  /\ run = "pointer" => ptr # "active"
  /\ run \in {"commitRelease", "recover"} => is_committed_family(jnl.last)
  /\ jnl.last \in {"ROLLED_BACK", "CRITICAL_FAILURE"} => run = "none"
  /\ jnl.gen <= gen /\ mem.gen <= gen /\ obs <= gen /\ chk <= gen
  /\ proc["new"] <= gen

\* The controller is past effect f of operation a.
Past(a, f) == at > a \/ (at = a /\ fx > f)

\* What an attempt has done and proved so far.
ForwardFacts ==
  run = "forward" =>
    /\ Past(4, 1) => reserve = "full"
    /\ at > 4 => "PRECUTOVER_VERIFIED" \in jnl.seen
    /\ Past(5, 1) => disabled
    /\ Past(6, 1) => "legacy" \notin loaded
    /\ Past(8, 6) => verify_committed_destinations
    /\ Past(11, 1) => obs \in marker /\ obs > chk

\* The legacy host is enabled and loaded, and nothing of the new one is live.
Restored ==
  /\ disabled = FALSE /\ loaded = {"legacy"}
  /\ fs["app"] = "absent" /\ fs["plist"] = "absent"

\* A rollback is past its proof of the legacy host.
Verified ==
  \/ mode = "BeforeLegacyStop" /\ Past(4, 1)
  \/ mode = "LegacyStillRunning" /\ Past(2, 1)
  \/ mode = "FullRestore" /\ Past(4, 1)

\* What a rollback has done and proved so far.
RollbackFacts ==
  run = "rollback" =>
    /\ mode = "FullRestore" /\ Past(1, 2) => fs["plist"] = "absent"
    /\ Verified => Restored

\* What a committed recovery has done and proved so far.
RecoveryFacts ==
  run = "recover" =>
    /\ Past(3, 1) => jnl.gen <= chk /\ mem.gen <= chk
    /\ Past(6, 1) => obs \in marker /\ obs > chk

Facts == ForwardFacts /\ RollbackFacts /\ RecoveryFacts

Safe == NeverBothHosts /\ RollbackIdentitiesJournaled /\ RolledBackRestores

IInv == TypeOK /\ Placed /\ Journal /\ Facts /\ Safe

\* What holds of a durable commit when no failing append keeps its record.
CInv ==
  /\ run = "rollback" => ~is_committed_family(jnl.last)
  /\ CommittedStands

----------------------------------------------------------------------------
(* Where each effect is, and what is at the places the facts name           *)

\* An effect that changes the machine is at one place of one plan.
LEMMA Where ==
  ASSUME Placed, TypeOK, InPlan
  PROVE  /\ Doing = "VerifyPrecutover" => run = "forward" /\ at = 4 /\ fx = 1
         /\ Doing = "DisableLegacy" => run = "forward" /\ at = 5 /\ fx = 1
         /\ Doing = "BootoutLegacy" => run = "forward" /\ at = 6 /\ fx = 1
         /\ Doing = "CopyAppInstallHold" => run = "forward" /\ at = 8 /\ fx = 2
         /\ Doing = "PublishApp" => run = "forward" /\ at = 8 /\ fx = 3
         /\ Doing = "CopyPlistInstallHold" => run = "forward" /\ at = 8 /\ fx = 4
         /\ Doing = "PublishPlist" => run = "forward" /\ at = 8 /\ fx = 5
         /\ Doing = "BootstrapNew" =>
              run # "rollback" /\ fx = 1 /\ (run = "forward" => at = 9) /\ (run = "recover" => at = 3)
         /\ Doing = "ObserveNewPid" => run = "forward" /\ at = 10 /\ fx = 1
         /\ Doing = "ObserveCurrentGeneration" => run = "recover" /\ at = 4 /\ fx = 1
         /\ Doing = "BootoutNew" =>
              /\ run # "forward" /\ at = 2 /\ fx = 1
              /\ run = "rollback" => mode = "Provisional"
         /\ Doing = "EnableLegacy" =>
              /\ run = "rollback" /\ ~Verified
              /\ mode = "FullRestore" => at = 2
         /\ Doing = "BootstrapLegacy" => run = "rollback" /\ ~Verified
         /\ Doing = "ClearApp" => run = "rollback" /\ ~Verified /\ ~Past(1, 2)
         /\ Doing = "ClearPlist" =>
              run = "rollback" /\ ~Verified /\ mode = "FullRestore" /\ at = 1 /\ fx = 2
         /\ Doing = "ArchiveEvidence" => run = "rollback"
<1>1. CASE run = "forward"
  <2>1. at \in 1..12
    BY <1>1 DEF Placed
  <2>2. CASE at \in 1..6
    BY <1>1, <2>2, ForwardText DEF Placed
  <2>3. CASE at \in 7..12
    BY <1>1, <2>3, ForwardText DEF Placed
  <2>4. QED BY <2>1, <2>2, <2>3
<1>2. CASE run = "recover"
  BY <1>2, RecoveryText DEF Placed
<1>3. CASE run = "rollback" /\ mode = "BeforeLegacyStop"
  BY <1>3, BeforeStopText DEF Placed, Verified, Past
<1>4. CASE run = "rollback" /\ mode = "Provisional"
  BY <1>4, ProvisionalText DEF Placed, Verified, Past
<1>5. CASE run = "rollback" /\ mode = "LegacyStillRunning"
  BY <1>5, StillRunningText DEF Placed, Verified, Past
<1>6. CASE run = "rollback" /\ mode = "FullRestore"
  BY <1>6, FullRestoreText DEF Placed, Verified, Past
<1>7. QED BY <1>1, <1>2, <1>3, <1>4, <1>5, <1>6 DEF InPlan, EffectRuns, TypeOK, Placed

\* What is done at the places the facts name.
LEMMA Here ==
  ASSUME Placed, TypeOK, InPlan
  PROVE  /\ run = "forward" /\ at = 4 /\ fx = 1 => Doing = "VerifyPrecutover"
         /\ run = "forward" /\ at = 5 /\ fx = 1 => Doing = "DisableLegacy"
         /\ run = "forward" /\ at = 6 /\ fx = 1 => Doing = "BootoutLegacy"
         /\ run = "forward" /\ at = 8 /\ fx = 6 => Doing = "VerifyInstalledDestinations"
         /\ run = "forward" /\ at = 11 /\ fx = 1 => Doing = "ObserveFreshMarker"
         /\ run = "recover" /\ at = 3 /\ fx = 1 => Doing = "BootstrapNew"
         /\ run = "recover" /\ at = 6 /\ fx = 1 => Doing = "ObserveFreshMarker"
         /\ run = "rollback" /\ mode = "BeforeLegacyStop" /\ at = 4 /\ fx = 1 => Doing = "VerifyLegacy"
         /\ run = "rollback" /\ mode = "LegacyStillRunning" /\ at = 2 /\ fx = 1 => Doing = "VerifyLegacy"
         /\ run = "rollback" /\ mode = "FullRestore" /\ at = 1 /\ fx = 2 => Doing = "ClearPlist"
         /\ run = "rollback" /\ mode = "FullRestore" /\ at = 4 /\ fx = 1 => Doing = "VerifyLegacy"
<1>1. CASE run = "forward"
  BY <1>1, ForwardText DEF Placed
<1>2. CASE run = "recover"
  BY <1>2, RecoveryText DEF Placed
<1>3. CASE run = "rollback" /\ mode = "BeforeLegacyStop"
  BY <1>3, BeforeStopText DEF Placed
<1>4. CASE run = "rollback" /\ mode = "Provisional"
  BY <1>4, ProvisionalText DEF Placed
<1>5. CASE run = "rollback" /\ mode = "LegacyStillRunning"
  BY <1>5, StillRunningText DEF Placed
<1>6. CASE run = "rollback" /\ mode = "FullRestore"
  BY <1>6, FullRestoreText DEF Placed
<1>7. QED BY <1>1, <1>2, <1>3, <1>4, <1>5, <1>6 DEF InPlan, EffectRuns, TypeOK, Placed

\* At the end of an operation its effects are done, and the record it appends
\* is one of its plan.
LEMMA AtRecord ==
  ASSUME Placed, TypeOK, InPlan, Doing \in {"record", "skip"}
  PROVE  /\ fx > 1
         /\ run = "forward" =>
              /\ at = 8 => fx > 6
              /\ Doing = "record"
              /\ at = 4 => RecordOf = "PRECUTOVER_VERIFIED"
              /\ RecordOf \in State
              /\ requires_rollback(RecordOf) \/ (RecordOf = "COMMITTED" /\ at = 12)
         /\ run = "recover" /\ Doing = "record" =>
              /\ RecordOf \in State /\ is_committed_family(RecordOf) /\ RecordOf # "COMMITTED"
              /\ RecordOf = "COMMITTED_RECOVERY_READY" => Past(6, 1)
         /\ run = "rollback" =>
              /\ mode = "FullRestore" /\ at = 1 => fx > 2
              /\ Doing = "record" =>
                   /\ RecordOf \in State /\ ~is_committed_family(RecordOf)
                   /\ RecordOf # "CRITICAL_FAILURE"
                   /\ RecordOf = "ROLLED_BACK" =>
                        Verified /\ at = PlanLength /\ mode # "Provisional"
<1>1. CASE run = "forward"
  <2> DEFINE Attempt == {"PROVENANCE_VERIFIED", "LEGACY_SNAPSHOTTED", "NEW_STAGED",
                         "PRECUTOVER_VERIFIED", "LEGACY_DISABLED", "LEGACY_STOPPED",
                         "LOCK_HANDED_OFF", "NEW_INSTALLED", "NEW_BOOTSTRAPPED",
                         "NEW_PID_OBSERVED", "READY_VERIFIED"}
             Told == /\ fx > 1 /\ (at = 8 => fx > 6) /\ Doing = "record"
                     /\ at = 4 => RecordOf = "PRECUTOVER_VERIFIED"
                     /\ RecordOf \in Attempt \/ (RecordOf = "COMMITTED" /\ at = 12)
  <2>1. at \in 1..12
    BY <1>1 DEF Placed
  <2>2. ASSUME at \in 1..6 PROVE Told
    BY <1>1, <2>2, ForwardText DEF Placed
  <2>3. ASSUME at \in 7..12 PROVE Told
    BY <1>1, <2>3, ForwardText DEF Placed
  <2>4. Told
    BY <2>1, <2>2, <2>3
  <2>5. RecordOf \in State
    BY <2>4 DEF State
  <2>6. requires_rollback(RecordOf) \/ RecordOf = "COMMITTED"
    BY <2>4 DEF requires_rollback, is_committed_family
  <2>7. QED BY <1>1, <2>4, <2>5, <2>6 DEF requires_rollback, is_committed_family
<1> USE DEF is_committed_family, State
<1>2. CASE run = "recover"
  BY <1>2, RecoveryText DEF Placed, Past
<1>3. CASE run = "rollback" /\ mode = "BeforeLegacyStop"
  BY <1>3, BeforeStopText DEF Placed, Verified, Past
<1>4. CASE run = "rollback" /\ mode = "Provisional"
  BY <1>4, ProvisionalText DEF Placed, Verified, Past
<1>5. CASE run = "rollback" /\ mode = "LegacyStillRunning"
  BY <1>5, StillRunningText DEF Placed, Verified, Past
<1>6. CASE run = "rollback" /\ mode = "FullRestore"
  BY <1>6, FullRestoreText DEF Placed, Verified, Past
<1>7. QED BY <1>1, <1>2, <1>3, <1>4, <1>5, <1>6 DEF InPlan, EffectRuns, TypeOK, Placed

----------------------------------------------------------------------------
(* The parts of the state, and how control moves                            *)

MachineType ==
  /\ loaded \subseteq Hosts /\ disabled \in BOOLEAN
  /\ proc \in [Hosts -> 0..(MaxGen + 1)] /\ lock \in Hosts \cup {"none"}
  /\ gen \in 0..MaxGen /\ marker \subseteq 1..MaxGen
  /\ fs \in [Paths -> {"absent", "partial", "exact"}]
  /\ parents \in {"pinned", "replaced"}
  /\ reserve \in {"none", "full", "released"}
  /\ ptr \in {"none", "empty", "pending", "active"}

ControlType ==
  /\ jnl \in JournalType /\ mem \in JournalType
  /\ run \in EffectRuns \cup {"none", "pointer", "release", "commitRelease", "retain"}
  /\ origin \in {"none", "start", "rerun"}
  /\ mode \in {"none", "Decide", "BeforeLegacyStop", "Provisional",
               "LegacyStillRunning", "FullRestore"}
  /\ at \in 0..12 /\ fx \in 0..7
  /\ obs \in 0..MaxGen /\ chk \in 0..MaxGen

BoundType == crashes \in 0..MaxCrashes /\ faults \in 0..MaxFaults

\* The type invariant is that of the machine, the controller and the bounds.
LEMMA TypeParts == TypeOK <=> MachineType /\ ControlType /\ BoundType
  BY DEF TypeOK, MachineType, ControlType, BoundType

\* A spent fault stays within its bound.
LEMMA SpendType == ASSUME TypeOK, Spend PROVE faults' \in 0..MaxFaults
  BY MigrationAssumption DEF TypeOK, Spend

\* What an append does to a journal, field by field.
LEMMA AppendFields ==
  ASSUME NEW j \in JournalType, NEW s \in State, NEW g \in 0..MaxGen
  PROVE  LET k == AppendTo(j, s, g)
         IN  /\ k \in JournalType /\ k.present = j.present
             /\ (k.last = s /\ k.gen = g) \/ (k.last = j.last /\ k.gen = j.gen)
             /\ j.seen \subseteq k.seen
             /\ j.tail = "clean" => k.tail = "clean" /\ k.last = s /\ s \in k.seen
<1> DEFINE k == AppendTo(j, s, g)
<1>1. CASE j.tail = "clean"
  <2>1. k = [present |-> j.present, last |-> s, seen |-> j.seen \cup {s}, gen |-> g, tail |-> "clean"]
    BY <1>1 DEF AppendTo, Recorded, JournalType
  <2>2. QED BY <2>1, <1>1 DEF JournalType
<1>2. CASE j.tail # "clean"
  <2>1. k = [present |-> j.present, last |-> j.last, seen |-> j.seen, gen |-> j.gen, tail |-> "corrupt"]
    BY <1>2 DEF AppendTo, JournalType
  <2>2. QED BY <2>1, <1>2 DEF JournalType
<1>3. QED BY <1>1, <1>2

\* What a failing append leaves is the journal or the one a full append makes,
\* up to its tail; only a kept record changes what is recorded.
LEMMA FailedAppendFields ==
  ASSUME NEW j \in JournalType, NEW s \in State, NEW g \in 0..MaxGen,
         NEW kind \in AppendFaults
  PROVE  LET k == FailedAppend(j, s, g, kind)
         IN  /\ k \in JournalType /\ k.present = j.present
             /\ (k.last = s /\ k.gen = g) \/ (k.last = j.last /\ k.gen = j.gen)
             /\ j.seen \subseteq k.seen
             /\ kind # "kept" => k.last = j.last
<1>1. kind \in {"lost", "torn", "kept"}
  BY MigrationAssumption
<1>2. CASE kind = "lost"
  BY <1>2 DEF FailedAppend
<1>3. CASE kind = "torn"
  BY <1>3 DEF FailedAppend, JournalType
<1>4. CASE kind = "kept"
  BY <1>4, AppendFields DEF FailedAppend
<1>5. QED BY <1>1, <1>2, <1>3, <1>4

\* What a journal is recorded as is a journal.
LEMMA RecordedType ==
  ASSUME NEW j \in JournalType, NEW s \in State, NEW g \in 0..MaxGen
  PROVE  Recorded(j, s, g) \in JournalType /\ Recorded(j, s, g).gen = g
  BY DEF Recorded, JournalType

\* Control moves to the next effect of the same operation.
LEMMA Advance ==
  ASSUME Placed, ControlType, InPlan, Doing \notin {"record", "skip"}, NextEffect
  PROVE  /\ Placed' /\ fx' \in 0..7
         /\ run' = run /\ origin' = origin /\ mode' = mode /\ at' = at /\ fx' = fx + 1
<1>1. /\ run' = run /\ origin' = origin /\ mode' = mode /\ at' = at /\ fx' = fx + 1
  BY DEF NextEffect
<1>2. Len(Effects) \in 0..6
  <2>1. run = "forward" \/ run = "rollback" \/ run = "recover"
    BY DEF InPlan, EffectRuns
  <2>2. Len(<<Op>>) = 1 /\ Len(<<"BootoutNew", "WaitNewAbsent">>) = 2
    OBVIOUS
  <2>3. QED BY <2>1, <2>2, EffectCount DEF Effects, InPlan
<1>3. fx <= Len(Effects) /\ fx \in 0..6
  <2>1. fx <= Len(Effects)
    BY Zenon DEF Doing
  <2>2. fx \in 0..7
    BY DEF ControlType
  <2>3. ASSUME NEW n \in 0..6, fx <= n PROVE fx \in 0..6
    BY <2>2, <2>3
  <2>4. QED BY <1>2, <2>1, <2>3
<1>4. Effects' = Effects
  BY <1>1 DEF Effects, Op
<1>5. Placed'
  BY <1>1, <1>2, <1>3, <1>4 DEF Placed, ControlType
<1>6. QED BY <1>1, <1>3, <1>5

\* Control moves past the last effect of an operation: to the next operation,
\* to the rollback mode the loaded services call for, or out of the plan.
LEMMA Onward ==
  ASSUME Placed, ControlType, InPlan, Doing \in {"record", "skip"}, NextOperation
  PROVE  /\ Placed' /\ fx' \in 0..1 /\ at' \in 0..12
         /\ run' # "none" => fx' = 1
         /\ \/ /\ run' = run /\ mode' = mode /\ origin' = origin
               /\ at < PlanLength /\ at' = at + 1 /\ fx' = 1
            \/ /\ run = "rollback" /\ run' = "rollback" /\ origin' = origin
               /\ mode = "Provisional" /\ at' = 1 /\ fx' = 1
               /\ mode' \in {"LegacyStillRunning", "FullRestore"}
            \/ /\ run = "rollback" /\ mode # "Provisional" /\ run' = "none"
               /\ mode' = "none" /\ origin' = "none"
            \/ /\ run = "forward" /\ run' = "release" /\ at = 12
               /\ mode' = "none" /\ origin' = origin
            \/ run = "recover" /\ run' = "retain" /\ mode' = "none" /\ origin' = origin
<1> DEFINE Moved == /\ run' = run /\ mode' = mode /\ origin' = origin
                    /\ at < PlanLength /\ at' = at + 1 /\ fx' = 1
           Chosen == /\ run = "rollback" /\ run' = "rollback" /\ origin' = origin
                     /\ mode = "Provisional" /\ at' = 1 /\ fx' = 1
                     /\ mode' \in {"LegacyStillRunning", "FullRestore"}
           Over == /\ run = "rollback" /\ mode # "Provisional" /\ run' = "none"
                   /\ mode' = "none" /\ origin' = "none" /\ at' = 0 /\ fx' = 0
           Released == /\ run = "forward" /\ run' = "release" /\ ~(at < PlanLength)
                       /\ mode' = "none" /\ origin' = origin /\ at' = 1 /\ fx' = 1
           Recovered == /\ run = "recover" /\ run' = "retain" /\ mode' = "none"
                        /\ origin' = origin /\ at' = 1 /\ fx' = 1
<1>1. run = "forward" \/ run = "rollback" \/ run = "recover"
  BY DEF InPlan, EffectRuns
<1>2. Moved \/ Chosen \/ Over \/ Released \/ Recovered
  <2>1. CASE at < PlanLength
    BY <2>1 DEF NextOperation
  <2>2. CASE run = "forward" /\ ~(at < PlanLength)
    BY <2>2 DEF NextOperation, Enter, Placed
  <2>3. CASE run = "recover" /\ ~(at < PlanLength)
    BY <2>3 DEF NextOperation, Enter, Placed
  <2>4. CASE run = "rollback" /\ ~(at < PlanLength)
    BY <2>4 DEF NextOperation, Enter
  <2>5. QED BY <1>1, <2>1, <2>2, <2>3, <2>4
<1>3. run' \in EffectRuns /\ mode' # "Decide" => Len(Effects') \in 0..6
  <2>1. CASE run' = "forward"
    BY <2>1, EffectCount DEF Effects
  <2>2. CASE run' = "rollback"
    BY <2>2, EffectCount DEF Effects
  <2>3. CASE run' = "recover"
    BY <2>3 DEF Effects
  <2>4. QED BY <2>1, <2>2, <2>3 DEF EffectRuns
<1>4. ASSUME NEW n \in 0..6 PROVE 1 \in 1..(n + 1)
  OBVIOUS
<1>5. /\ run = "forward" => PlanLength = 12
      /\ run = "recover" => PlanLength = 7
      /\ run = "rollback" /\ mode = "BeforeLegacyStop" => PlanLength = 6
      /\ run = "rollback" /\ mode = "Provisional" => PlanLength = 2
      /\ run = "rollback" /\ mode = "LegacyStillRunning" => PlanLength = 4
      /\ run = "rollback" /\ mode = "FullRestore" => PlanLength = 6
  BY DEF PlanLength, FORWARD_PLAN, rollback_plan, committed_recovery_plan
<1>6. CASE Moved
  BY <1>1, <1>3, <1>4, <1>5, <1>6 DEF Placed, ControlType, InPlan, EffectRuns
<1>7. CASE Chosen
  BY <1>3, <1>4, <1>7 DEF Placed, EffectRuns
<1>8. CASE Over
  BY <1>8 DEF Placed
<1>9. CASE Released
  BY <1>5, <1>9 DEF Placed
<1>10. CASE Recovered
  BY <1>10 DEF Placed
<1>11. QED BY <1>2, <1>6, <1>7, <1>8, <1>9, <1>10

\* The controller ends, or an attempt turns to its rollback.
Gone ==
  Exit /\ (jnl' = jnl \/ (run = "rollback" /\ jnl' = AppendTo(jnl, "CRITICAL_FAILURE", mem.gen)))

Turned ==
  /\ run \in {"forward", "pointer"}
  /\ run' = "rollback" /\ origin' = "start" /\ mode' = "Decide" /\ at' = 1 /\ fx' = 1
  /\ UNCHANGED <<mem, jnl, obs, chk>>

\* An error does one of the two.
LEMMA FailSplit == Fail => Gone \/ Turned
  BY DEF Fail, Gone, Turned, Enter

\* Whatever ends the controller keeps the types, the place and the journal.
LEMMA GoneKeeps ==
  ASSUME IInv, run # "none", Gone, UNCHANGED <<gen, ptr>>, proc'["new"] <= gen
  PROVE  /\ ControlType' /\ Placed' /\ Journal' /\ Facts'
         /\ jnl.last \notin {"ROLLED_BACK", "CRITICAL_FAILURE"}
         /\ jnl'.last \in {jnl.last, "CRITICAL_FAILURE"} /\ jnl.seen \subseteq jnl'.seen
         /\ jnl'.last # jnl.last => run = "rollback"
<1> USE DEF IInv
<1>1. /\ run' = "none" /\ origin' = "none" /\ mode' = "none" /\ at' = 0 /\ fx' = 0
      /\ obs' = 0 /\ chk' = 0 /\ mem' = NoJournal
  BY DEF Gone, Exit, Quit
<1>2. /\ jnl' \in JournalType /\ jnl'.present = jnl.present /\ jnl.seen \subseteq jnl'.seen
      /\ jnl'.last \in {jnl.last, "CRITICAL_FAILURE"}
      /\ jnl'.gen = jnl.gen \/ jnl'.gen = mem.gen
      /\ jnl'.last # jnl.last => run = "rollback"
  <2>1. "CRITICAL_FAILURE" \in State /\ mem.gen \in 0..MaxGen /\ jnl \in JournalType
    BY DEF TypeOK, JournalType, State
  <2>2. QED BY <2>1, AppendFields DEF Gone
<1>3. NoJournal \in JournalType /\ NoJournal.gen = 0
  BY MigrationAssumption DEF NoJournal, JournalType, State
<1>4. ControlType'
  BY <1>1, <1>2, <1>3, MigrationAssumption DEF ControlType
<1>5. gen \in Nat /\ gen' = gen
  BY MigrationAssumption DEF TypeOK
<1>6. Placed' /\ Facts'
  BY <1>1 DEF Placed, Facts, ForwardFacts, RollbackFacts, RecoveryFacts
<1>7. jnl.present /\ jnl.last \notin {"ROLLED_BACK", "CRITICAL_FAILURE"}
  BY DEF Journal
<1>8. Journal'
  BY <1>1, <1>2, <1>3, <1>5, <1>7 DEF Journal
<1>9. QED BY <1>2, <1>4, <1>6, <1>7, <1>8

\* So does an attempt that turns to its rollback.
LEMMA TurnedKeeps ==
  ASSUME IInv, Turned, UNCHANGED <<gen, ptr>>, proc'["new"] <= gen
  PROVE  /\ ControlType' /\ Placed' /\ Journal' /\ Facts'
         /\ jnl.last \notin {"ROLLED_BACK", "CRITICAL_FAILURE"}
         /\ ~is_committed_family(jnl.last) /\ jnl' = jnl
<1> USE DEF IInv, Turned
<1>1. ControlType'
  BY DEF ControlType, TypeOK, EffectRuns
<1>2. Placed' /\ Facts'
  BY DEF Placed, Facts, ForwardFacts, RollbackFacts, RecoveryFacts, Verified
<1>3. jnl.present /\ jnl.last \notin {"ROLLED_BACK", "CRITICAL_FAILURE"} /\ ~is_committed_family(jnl.last)
  BY DEF Journal
<1>4. Journal'
  BY <1>3 DEF Journal
<1>5. QED BY <1>1, <1>2, <1>3, <1>4

\* An effect that is done keeps the types, the place and the journal.
LEMMA AdvanceKeeps ==
  ASSUME IInv, InPlan, Doing \notin {"record", "skip"}, NextEffect,
         jnl' = jnl, mem' = mem, obs' \in 0..gen, chk' \in 0..gen,
         UNCHANGED <<gen, ptr, proc>>
  PROVE  /\ ControlType' /\ Placed' /\ Journal'
         /\ jnl.last \notin {"ROLLED_BACK", "CRITICAL_FAILURE"}
         /\ run' = run /\ origin' = origin /\ mode' = mode /\ at' = at /\ fx' = fx + 1
<1> USE DEF IInv
<1>1. /\ Placed' /\ fx' \in 0..7
      /\ run' = run /\ origin' = origin /\ mode' = mode /\ at' = at /\ fx' = fx + 1
  BY Advance, TypeParts
<1>2. gen \in 0..MaxGen /\ MaxGen \in Nat
  BY MigrationAssumption DEF TypeOK
<1>3. ControlType'
  BY <1>1, <1>2 DEF ControlType, TypeOK
<1>4. run # "none"
  BY DEF InPlan, EffectRuns
<1>5. jnl.last \notin {"ROLLED_BACK", "CRITICAL_FAILURE"}
  BY <1>4 DEF Journal
<1>6. Journal'
  BY <1>1, <1>2 DEF Journal
<1>7. QED BY <1>1, <1>3, <1>5, <1>6

\* An effect that acted, and was done or reported an error, keeps them too; an
\* error leaves no fact to keep.
LEMMA ActedKeeps ==
  ASSUME IInv, InPlan, Doing \notin {"record", "skip"}, Acted, UNCHANGED <<gen, ptr, proc, crashes>>
  PROVE  /\ ControlType' /\ Placed' /\ Journal' /\ BoundType'
         /\ jnl.last \notin {"ROLLED_BACK", "CRITICAL_FAILURE"}
         /\ jnl'.last \in {jnl.last, "CRITICAL_FAILURE"} /\ jnl.seen \subseteq jnl'.seen
         /\ \/ Facts'
            \/ /\ run' = run /\ mode' = mode /\ at' = at /\ fx' = fx + 1
               /\ UNCHANGED <<jnl, mem, obs, chk>>
<1> USE DEF IInv
<1>1. run # "none"
  BY DEF InPlan, EffectRuns
<1>2. BoundType'
  BY SpendType DEF Acted, TypeOK, BoundType
<1>3. obs \in 0..gen /\ chk \in 0..gen /\ proc'["new"] <= gen
  BY MigrationAssumption DEF TypeOK, Journal
<1>4. CASE NextEffect /\ UNCHANGED <<mem, jnl, obs, chk, faults>>
  BY <1>2, <1>3, <1>4, AdvanceKeeps
<1>5. CASE Fail
  BY <1>1, <1>2, <1>3, <1>5, FailSplit, GoneKeeps, TurnedKeeps
<1>6. QED BY <1>4, <1>5 DEF Acted

----------------------------------------------------------------------------
(* One lemma per action: effects                                            *)

\* A proof, a wait or a build that succeeds keeps the invariant, and is what
\* makes the facts about proofs true.
LEMMA ProveStep == ASSUME IInv, Prove PROVE IInv'
<1> USE DEF IInv, Prove
<1>1. obs \in 0..gen /\ chk \in 0..gen /\ obs' \in 0..gen /\ chk' \in 0..gen
  BY MigrationAssumption DEF TypeOK, Journal
<1>2. Doing \notin {"record", "skip"}
  BY DEF Inert
<1>3. /\ ControlType' /\ Placed' /\ Journal'
      /\ jnl.last \notin {"ROLLED_BACK", "CRITICAL_FAILURE"}
      /\ run' = run /\ origin' = origin /\ mode' = mode /\ at' = at /\ fx' = fx + 1
  BY <1>1, <1>2, AdvanceKeeps DEF host, disk
<1>4. TypeOK'
  BY <1>3 DEF TypeOK, ControlType, host, disk
<1>5. at \in Int /\ fx \in Int
  BY DEF TypeOK
<1>6. ForwardFacts'
  <2> SUFFICES ASSUME run' = "forward" PROVE ForwardFacts'
    BY DEF ForwardFacts
  <2>1. run = "forward"
    BY <1>3
  <2>2. /\ ~(at = 4 /\ fx = 1) /\ ~(at = 5 /\ fx = 1) /\ ~(at = 6 /\ fx = 1)
    BY <2>1, Here DEF Inert
  <2>3. at = 8 /\ fx = 6 => verify_committed_destinations
    BY <2>1, Here DEF Requires, ForwardRequires
  <2>4. at = 11 /\ fx = 1 => obs \in marker /\ obs > chk
    BY <2>1, Here DEF Requires, ForwardRequires, require_marker_after_checkpoint
  <2>5. QED BY <2>1, <2>2, <2>3, <2>4, <1>3, <1>5
        DEF Facts, ForwardFacts, Past, host, disk, verify_committed_destinations
<1>7. RollbackFacts'
  <2> SUFFICES ASSUME run' = "rollback" PROVE RollbackFacts'
    BY DEF RollbackFacts
  <2>1. run = "rollback"
    BY <1>3
  <2>2. ~(mode = "FullRestore" /\ at = 1 /\ fx = 2)
    BY <2>1, Here DEF Inert
  <2>3. Doing = "VerifyLegacy" => Restored
    BY <2>1 DEF Requires, RollbackRequires, verify_recovered_legacy, TypeOK, Hosts,
       wait_for_exact_legacy_readiness, Restored, require_new_absent, verify_legacy_disabled,
       require_new_runtime_absent, service_state, verify_legacy_running
  <2>4. Verified' => Verified \/ Doing = "VerifyLegacy"
    BY <2>1, Here, <1>3, <1>5 DEF Verified, Past
  <2>5. Verified' => Restored'
    BY <2>1, <2>3, <2>4 DEF Facts, RollbackFacts, Restored, host, disk
  <2>6. QED BY <2>1, <2>2, <2>5, <1>3, <1>5 DEF Facts, RollbackFacts, Past, disk
<1>8. RecoveryFacts'
  <2> SUFFICES ASSUME run' = "recover" PROVE RecoveryFacts'
    BY DEF RecoveryFacts
  <2>1. run = "recover"
    BY <1>3
  <2>2. ~(at = 3 /\ fx = 1)
    BY <2>1, Here DEF Inert
  <2>3. at = 6 /\ fx = 1 => obs \in marker /\ obs > chk
    BY <2>1, Here DEF Requires, RecoveryRequires, require_marker_after_checkpoint
  <2>4. QED BY <2>1, <2>2, <2>3, <1>3, <1>5 DEF Facts, RecoveryFacts, Past, host
<1>9. Safe'
  BY DEF Safe, NeverBothHosts, RollbackIdentitiesJournaled, RolledBackRestores, host, disk,
     has_cutover_fields
<1>10. QED BY <1>3, <1>4, <1>6, <1>7, <1>8, <1>9 DEF Facts

\* An effect that fails before it acts keeps the invariant.
LEMMA EffectFailsStep == ASSUME IInv, EffectFails PROVE IInv'
<1> USE DEF IInv, EffectFails
<1>1. run # "none"
  BY DEF InPlan, EffectRuns
<1>2. UNCHANGED <<gen, ptr, proc>> /\ proc'["new"] <= gen
  BY DEF host, disk, Journal
<1>3. /\ ControlType' /\ Placed' /\ Journal' /\ Facts'
      /\ jnl.last \notin {"ROLLED_BACK", "CRITICAL_FAILURE"}
      /\ jnl'.last \in {jnl.last, "CRITICAL_FAILURE"} /\ jnl.seen \subseteq jnl'.seen
  BY <1>1, <1>2, FailSplit, GoneKeeps, TurnedKeeps
<1>4. TypeOK'
  BY <1>3, SpendType DEF TypeOK, ControlType, host, disk
<1>5. Safe'
  BY <1>3 DEF Safe, NeverBothHosts, RollbackIdentitiesJournaled, RolledBackRestores, host, disk,
     has_cutover_fields
<1>6. QED BY <1>3, <1>4, <1>5

\* Only the proof of the legacy host makes a rollback verified, and only clearing
\* the plist passes the place of that effect.
LEMMA RollbackMoves ==
  ASSUME Placed, TypeOK, InPlan, run = "rollback",
         mode' = mode, at' = at, fx' = fx + 1
  PROVE  /\ Doing # "VerifyLegacy" /\ Verified' => Verified
         /\ Doing # "ClearPlist" /\ mode = "FullRestore" /\ Past(1, 2)' => Past(1, 2)
<1>1. at \in Int /\ fx \in Int
  BY DEF TypeOK
<1>2. QED BY <1>1, Here DEF Verified, Past

\* The rollback reserve exists once the preflight has allocated it.
LEMMA VerifyPrecutoverStep == ASSUME IInv, VerifyPrecutover PROVE IInv'
<1> USE DEF IInv, VerifyPrecutover
<1>1. run = "forward" /\ at = 4 /\ fx = 1
  BY Where
<1>2. /\ ControlType' /\ Placed' /\ Journal' /\ BoundType'
      /\ jnl.last \notin {"ROLLED_BACK", "CRITICAL_FAILURE"}
      /\ jnl'.last \in {jnl.last, "CRITICAL_FAILURE"} /\ jnl.seen \subseteq jnl'.seen
      /\ \/ Facts'
         \/ /\ run' = run /\ mode' = mode /\ at' = at /\ fx' = fx + 1
            /\ UNCHANGED <<jnl, mem, obs, chk>>
  BY ActedKeeps, <1>1 DEF host, disk
<1>3. TypeOK'
  BY <1>1, <1>2 DEF TypeOK, MachineType, ControlType, BoundType, disk, host, RollbackReserve_create
<1>4. Facts'
  BY <1>1, <1>2 DEF Facts, ForwardFacts, RollbackFacts, RecoveryFacts, Past, TypeOK, disk, host, RollbackReserve_create, verify_committed_destinations
<1>5. Safe'
  BY <1>1, <1>2 DEF Safe, NeverBothHosts, RollbackIdentitiesJournaled, RolledBackRestores,
     has_cutover_fields, disk, host
<1>6. QED BY <1>2, <1>3, <1>4, <1>5

\* The legacy label is disabled only after its rollback identities are durable.
LEMMA DisableLegacyStep == ASSUME IInv, DisableLegacy PROVE IInv'
<1> USE DEF IInv, DisableLegacy
<1>1. run = "forward" /\ at = 5 /\ fx = 1
  BY Where
<1>2. /\ ControlType' /\ Placed' /\ Journal' /\ BoundType'
      /\ jnl.last \notin {"ROLLED_BACK", "CRITICAL_FAILURE"}
      /\ jnl'.last \in {jnl.last, "CRITICAL_FAILURE"} /\ jnl.seen \subseteq jnl'.seen
      /\ \/ Facts'
         \/ /\ run' = run /\ mode' = mode /\ at' = at /\ fx' = fx + 1
            /\ UNCHANGED <<jnl, mem, obs, chk>>
  BY ActedKeeps, <1>1 DEF host, disk
<1>3. TypeOK'
  BY <1>1, <1>2 DEF TypeOK, MachineType, ControlType, BoundType, disk, set_legacy_disabled
<1>4. Facts'
  BY <1>1, <1>2 DEF Facts, ForwardFacts, RollbackFacts, RecoveryFacts, Past, TypeOK, disk, set_legacy_disabled, verify_committed_destinations
<1>5. Safe'
  BY <1>1, <1>2 DEF Safe, NeverBothHosts, RollbackIdentitiesJournaled, RolledBackRestores,
     has_cutover_fields, disk, set_legacy_disabled, Facts, ForwardFacts
<1>6. QED BY <1>2, <1>3, <1>4, <1>5

\* So is the legacy host unloaded.
LEMMA BootoutLegacyStep == ASSUME IInv, BootoutLegacy PROVE IInv'
<1> USE DEF IInv, BootoutLegacy
<1>1. run = "forward" /\ at = 6 /\ fx = 1
  BY Where
<1>2. /\ ControlType' /\ Placed' /\ Journal' /\ BoundType'
      /\ jnl.last \notin {"ROLLED_BACK", "CRITICAL_FAILURE"}
      /\ jnl'.last \in {jnl.last, "CRITICAL_FAILURE"} /\ jnl.seen \subseteq jnl'.seen
      /\ \/ Facts'
         \/ /\ run' = run /\ mode' = mode /\ at' = at /\ fx' = fx + 1
            /\ UNCHANGED <<jnl, mem, obs, chk>>
  BY ActedKeeps, <1>1 DEF host, disk
<1>3. TypeOK'
  BY <1>1, <1>2 DEF TypeOK, MachineType, ControlType, BoundType, disk, bootout_exact_service
<1>4. Facts'
  BY <1>1, <1>2 DEF Facts, ForwardFacts, RollbackFacts, RecoveryFacts, Past, TypeOK, disk, bootout_exact_service, verify_committed_destinations
<1>5. Safe'
  BY <1>1, <1>2 DEF Safe, NeverBothHosts, RollbackIdentitiesJournaled, RolledBackRestores,
     has_cutover_fields, disk, bootout_exact_service, Facts, ForwardFacts
<1>6. QED BY <1>2, <1>3, <1>4, <1>5

\* Unloading the new host undoes no fact.
LEMMA BootoutNewStep == ASSUME IInv, BootoutNew PROVE IInv'
<1> USE DEF IInv, BootoutNew
<1>1. run # "forward" /\ at = 2 /\ fx = 1 /\ (run = "rollback" => mode = "Provisional")
  BY Where
<1>2. /\ ControlType' /\ Placed' /\ Journal' /\ BoundType'
      /\ jnl.last \notin {"ROLLED_BACK", "CRITICAL_FAILURE"}
      /\ jnl'.last \in {jnl.last, "CRITICAL_FAILURE"} /\ jnl.seen \subseteq jnl'.seen
      /\ \/ Facts'
         \/ /\ run' = run /\ mode' = mode /\ at' = at /\ fx' = fx + 1
            /\ UNCHANGED <<jnl, mem, obs, chk>>
  BY ActedKeeps, <1>1 DEF host, disk
<1>3. TypeOK'
  BY <1>1, <1>2 DEF TypeOK, MachineType, ControlType, BoundType, disk, bootout_exact_service
<1>4. Facts'
  BY <1>1, <1>2 DEF Facts, ForwardFacts, RollbackFacts, RecoveryFacts, Past, TypeOK, disk, bootout_exact_service, Verified
<1>5. Safe'
  BY <1>1, <1>2 DEF Safe, NeverBothHosts, RollbackIdentitiesJournaled, RolledBackRestores,
     has_cutover_fields, disk, bootout_exact_service
<1>6. QED BY <1>2, <1>3, <1>4, <1>5

\* The legacy label is enabled only when the new plist is out of its place.
LEMMA EnableLegacyStep == ASSUME IInv, EnableLegacy PROVE IInv'
<1> USE DEF IInv, EnableLegacy
<1>1. run = "rollback" /\ ~Verified /\ (mode = "FullRestore" => at = 2)
  BY Where
<1>2. /\ ControlType' /\ Placed' /\ Journal' /\ BoundType'
      /\ jnl.last \notin {"ROLLED_BACK", "CRITICAL_FAILURE"}
      /\ jnl'.last \in {jnl.last, "CRITICAL_FAILURE"} /\ jnl.seen \subseteq jnl'.seen
      /\ \/ Facts'
         \/ /\ run' = run /\ mode' = mode /\ at' = at /\ fx' = fx + 1
            /\ UNCHANGED <<jnl, mem, obs, chk>>
  BY ActedKeeps, <1>1 DEF host, disk
<1>3. TypeOK'
  BY <1>1, <1>2 DEF TypeOK, MachineType, ControlType, BoundType, disk, set_legacy_disabled
<1>4. Facts'
  BY <1>1, <1>2, RollbackMoves DEF Facts, ForwardFacts, RollbackFacts, RecoveryFacts, Past, TypeOK, disk, set_legacy_disabled
<1>5. Safe'
  BY <1>1, <1>2 DEF Safe, NeverBothHosts, RollbackIdentitiesJournaled, RolledBackRestores,
     has_cutover_fields, disk, set_legacy_disabled, Facts, RollbackFacts, Past, Requires, RollbackRequires, require_new_absent
<1>6. QED BY <1>2, <1>3, <1>4, <1>5

\* The legacy host is loaded only when the new one is not.
LEMMA BootstrapLegacyStep == ASSUME IInv, BootstrapLegacy PROVE IInv'
<1> USE DEF IInv, BootstrapLegacy
<1>1. run = "rollback" /\ ~Verified
  BY Where
<1>2. /\ ControlType' /\ Placed' /\ Journal' /\ BoundType'
      /\ jnl.last \notin {"ROLLED_BACK", "CRITICAL_FAILURE"}
      /\ jnl'.last \in {jnl.last, "CRITICAL_FAILURE"} /\ jnl.seen \subseteq jnl'.seen
      /\ \/ Facts'
         \/ /\ run' = run /\ mode' = mode /\ at' = at /\ fx' = fx + 1
            /\ UNCHANGED <<jnl, mem, obs, chk>>
  BY ActedKeeps, <1>1 DEF host, disk
<1>3. TypeOK'
  BY <1>1, <1>2 DEF TypeOK, MachineType, ControlType, BoundType, disk, bootstrap_exact_plist, Hosts
<1>4. Facts'
  BY <1>1, <1>2, RollbackMoves DEF Facts, ForwardFacts, RollbackFacts, RecoveryFacts, Past, TypeOK, disk, bootstrap_exact_plist
<1>5. Safe'
  BY <1>1, <1>2 DEF Safe, NeverBothHosts, RollbackIdentitiesJournaled, RolledBackRestores,
     has_cutover_fields, disk, bootstrap_exact_plist, Requires, RollbackRequires, require_new_absent, require_new_runtime_absent, service_state, Hosts
<1>6. QED BY <1>2, <1>3, <1>4, <1>5

\* A copy, complete or not, only fills the hidden path of the app.
LEMMA CopyAppInstallHoldStep == ASSUME IInv, CopyInstallHold("CopyAppInstallHold", "appHold") PROVE IInv'
<1> USE DEF IInv
<1>1. run = "forward" /\ at = 8 /\ fx = 2 /\ InPlan
  BY Where DEF CopyInstallHold
<1>2. /\ fs' \in [Paths -> {"absent", "partial", "exact"}]
      /\ fs'["app"] = fs["app"] /\ fs'["plist"] = fs["plist"]
  BY DEF CopyInstallHold, TypeOK, Paths
<1>3. UNCHANGED <<host, parents, reserve, ptr, crashes>> /\ Acted
  BY DEF CopyInstallHold, Acted
<1>4. /\ ControlType' /\ Placed' /\ Journal' /\ BoundType'
      /\ jnl.last \notin {"ROLLED_BACK", "CRITICAL_FAILURE"}
      /\ jnl'.last \in {jnl.last, "CRITICAL_FAILURE"} /\ jnl.seen \subseteq jnl'.seen
      /\ \/ Facts'
         \/ /\ run' = run /\ mode' = mode /\ at' = at /\ fx' = fx + 1
            /\ UNCHANGED <<jnl, mem, obs, chk>>
  BY ActedKeeps, <1>1, <1>3 DEF host, CopyInstallHold
<1>5. TypeOK'
  BY <1>2, <1>3, <1>4 DEF TypeOK, ControlType, BoundType, host
<1>6. Facts'
  BY <1>1, <1>2, <1>3, <1>4 DEF Facts, ForwardFacts, RollbackFacts, RecoveryFacts, Past,
     TypeOK, host, verify_committed_destinations
<1>7. Safe'
  <2>1. UNCHANGED <<loaded, disabled>>
    BY <1>3 DEF host
  <2>2. fs'["plist"] # "absent" => disabled
    BY <1>1, <1>2 DEF Safe, NeverBothHosts, Facts, ForwardFacts, Past
  <2>3. QED BY <1>4, <2>1, <2>2 DEF Safe, NeverBothHosts, RollbackIdentitiesJournaled,
        RolledBackRestores, has_cutover_fields
<1>8. QED BY <1>4, <1>5, <1>6, <1>7

\* So does the copy of the LaunchAgent.
LEMMA CopyPlistInstallHoldStep == ASSUME IInv, CopyInstallHold("CopyPlistInstallHold", "plistHold") PROVE IInv'
<1> USE DEF IInv
<1>1. run = "forward" /\ at = 8 /\ fx = 4 /\ InPlan
  BY Where DEF CopyInstallHold
<1>2. /\ fs' \in [Paths -> {"absent", "partial", "exact"}]
      /\ fs'["app"] = fs["app"] /\ fs'["plist"] = fs["plist"]
  BY DEF CopyInstallHold, TypeOK, Paths
<1>3. UNCHANGED <<host, parents, reserve, ptr, crashes>> /\ Acted
  BY DEF CopyInstallHold, Acted
<1>4. /\ ControlType' /\ Placed' /\ Journal' /\ BoundType'
      /\ jnl.last \notin {"ROLLED_BACK", "CRITICAL_FAILURE"}
      /\ jnl'.last \in {jnl.last, "CRITICAL_FAILURE"} /\ jnl.seen \subseteq jnl'.seen
      /\ \/ Facts'
         \/ /\ run' = run /\ mode' = mode /\ at' = at /\ fx' = fx + 1
            /\ UNCHANGED <<jnl, mem, obs, chk>>
  BY ActedKeeps, <1>1, <1>3 DEF host, CopyInstallHold
<1>5. TypeOK'
  BY <1>2, <1>3, <1>4 DEF TypeOK, ControlType, BoundType, host
<1>6. Facts'
  BY <1>1, <1>2, <1>3, <1>4 DEF Facts, ForwardFacts, RollbackFacts, RecoveryFacts, Past,
     TypeOK, host, verify_committed_destinations
<1>7. Safe'
  <2>1. UNCHANGED <<loaded, disabled>>
    BY <1>3 DEF host
  <2>2. fs'["plist"] # "absent" => disabled
    BY <1>1, <1>2 DEF Safe, NeverBothHosts, Facts, ForwardFacts, Past
  <2>3. QED BY <1>4, <2>1, <2>2 DEF Safe, NeverBothHosts, RollbackIdentitiesJournaled,
        RolledBackRestores, has_cutover_fields
<1>8. QED BY <1>4, <1>5, <1>6, <1>7

\* The app is published before any proof of the destinations.
LEMMA PublishAppStep == ASSUME IInv, Publish("PublishApp", "appHold", "app") PROVE IInv'
<1> USE DEF IInv
<1>1. run = "forward" /\ at = 8 /\ fx = 3 /\ InPlan
  BY Where DEF Publish
<1>2. /\ fs' \in [Paths -> {"absent", "partial", "exact"}]
      /\ fs'["plist"] = fs["plist"]
  BY DEF Publish, TypeOK, Paths, rename_exclusive
<1>3. UNCHANGED <<host, parents, reserve, ptr, crashes>> /\ Acted
  BY DEF Publish, Acted
<1>4. /\ ControlType' /\ Placed' /\ Journal' /\ BoundType'
      /\ jnl.last \notin {"ROLLED_BACK", "CRITICAL_FAILURE"}
      /\ jnl'.last \in {jnl.last, "CRITICAL_FAILURE"} /\ jnl.seen \subseteq jnl'.seen
      /\ \/ Facts'
         \/ /\ run' = run /\ mode' = mode /\ at' = at /\ fx' = fx + 1
            /\ UNCHANGED <<jnl, mem, obs, chk>>
  BY ActedKeeps, <1>1, <1>3 DEF host, Publish
<1>5. TypeOK'
  BY <1>2, <1>3, <1>4 DEF TypeOK, ControlType, BoundType, host
<1>6. Facts'
  BY <1>1, <1>2, <1>3, <1>4 DEF Facts, ForwardFacts, RollbackFacts, RecoveryFacts, Past,
     TypeOK, host, verify_committed_destinations
<1>7. Safe'
  <2>1. UNCHANGED <<loaded, disabled>>
    BY <1>3 DEF host
  <2>2. fs'["plist"] # "absent" => disabled
    BY <1>1, <1>2 DEF Safe, NeverBothHosts, Facts, ForwardFacts, Past
  <2>3. QED BY <1>4, <2>1, <2>2 DEF Safe, NeverBothHosts, RollbackIdentitiesJournaled,
        RolledBackRestores, has_cutover_fields
<1>8. QED BY <1>4, <1>5, <1>6, <1>7

\* The LaunchAgent is published while the legacy label is disabled.
LEMMA PublishPlistStep == ASSUME IInv, Publish("PublishPlist", "plistHold", "plist") PROVE IInv'
<1> USE DEF IInv
<1>1. run = "forward" /\ at = 8 /\ fx = 5 /\ InPlan
  BY Where DEF Publish
<1>2. /\ fs' \in [Paths -> {"absent", "partial", "exact"}]
      /\ fs'["app"] = fs["app"]
  BY DEF Publish, TypeOK, Paths, rename_exclusive
<1>3. UNCHANGED <<host, parents, reserve, ptr, crashes>> /\ Acted
  BY DEF Publish, Acted
<1>4. /\ ControlType' /\ Placed' /\ Journal' /\ BoundType'
      /\ jnl.last \notin {"ROLLED_BACK", "CRITICAL_FAILURE"}
      /\ jnl'.last \in {jnl.last, "CRITICAL_FAILURE"} /\ jnl.seen \subseteq jnl'.seen
      /\ \/ Facts'
         \/ /\ run' = run /\ mode' = mode /\ at' = at /\ fx' = fx + 1
            /\ UNCHANGED <<jnl, mem, obs, chk>>
  BY ActedKeeps, <1>1, <1>3 DEF host, Publish
<1>5. TypeOK'
  BY <1>2, <1>3, <1>4 DEF TypeOK, ControlType, BoundType, host
<1>6. Facts'
  BY <1>1, <1>2, <1>3, <1>4 DEF Facts, ForwardFacts, RollbackFacts, RecoveryFacts, Past,
     TypeOK, host, verify_committed_destinations
<1>7. Safe'
  <2>1. UNCHANGED <<loaded, disabled>>
    BY <1>3 DEF host
  <2>2. fs'["plist"] # "absent" => disabled
    BY <1>1, <1>2 DEF Safe, NeverBothHosts, Facts, ForwardFacts, Past
  <2>3. QED BY <1>4, <2>1, <2>2 DEF Safe, NeverBothHosts, RollbackIdentitiesJournaled,
        RolledBackRestores, has_cutover_fields
<1>8. QED BY <1>4, <1>5, <1>6, <1>7

\* A rollback moves the app out of its place before anything is verified.
LEMMA ClearAppStep == ASSUME IInv, ClearDestination("ClearApp", "app", "appOff") PROVE IInv'
<1> USE DEF IInv
<1>1. run = "rollback" /\ ~Verified /\ ~Past(1, 2) /\ InPlan
  BY Where DEF ClearDestination
<1>2. /\ fs' \in [Paths -> {"absent", "partial", "exact"}]
      /\ fs'["app"] = "absent" /\ fs'["plist"] = fs["plist"]
  BY DEF ClearDestination, TypeOK, Paths, rename_exclusive
<1>3. UNCHANGED <<host, parents, reserve, ptr, crashes>> /\ Acted
  BY DEF ClearDestination, Acted
<1>4. /\ ControlType' /\ Placed' /\ Journal' /\ BoundType'
      /\ jnl.last \notin {"ROLLED_BACK", "CRITICAL_FAILURE"}
      /\ jnl'.last \in {jnl.last, "CRITICAL_FAILURE"} /\ jnl.seen \subseteq jnl'.seen
      /\ \/ Facts'
         \/ /\ run' = run /\ mode' = mode /\ at' = at /\ fx' = fx + 1
            /\ UNCHANGED <<jnl, mem, obs, chk>>
  BY ActedKeeps, <1>1, <1>3 DEF host, ClearDestination
<1>5. TypeOK'
  BY <1>2, <1>3, <1>4 DEF TypeOK, ControlType, BoundType, host
<1>6. Facts'
  BY <1>1, <1>2, <1>3, <1>4, RollbackMoves DEF Facts, ForwardFacts, RollbackFacts, RecoveryFacts, Past,
     TypeOK, host, verify_committed_destinations, ClearDestination
<1>7. Safe'
  <2>1. UNCHANGED <<loaded, disabled>>
    BY <1>3 DEF host
  <2>2. fs'["plist"] # "absent" => disabled
    BY <1>1, <1>2 DEF Safe, NeverBothHosts, Facts, ForwardFacts, Past
  <2>3. QED BY <1>4, <2>1, <2>2 DEF Safe, NeverBothHosts, RollbackIdentitiesJournaled,
        RolledBackRestores, has_cutover_fields
<1>8. QED BY <1>4, <1>5, <1>6, <1>7

\* Clearing the LaunchAgent makes the fact the legacy label waits for.
LEMMA ClearPlistStep == ASSUME IInv, ClearDestination("ClearPlist", "plist", "plistOff") PROVE IInv'
<1> USE DEF IInv
<1>1. run = "rollback" /\ ~Verified /\ mode = "FullRestore" /\ at = 1 /\ fx = 2 /\ InPlan
  BY Where DEF ClearDestination
<1>2. /\ fs' \in [Paths -> {"absent", "partial", "exact"}]
      /\ fs'["app"] = fs["app"] /\ fs'["plist"] = "absent"
  BY DEF ClearDestination, TypeOK, Paths, rename_exclusive
<1>3. UNCHANGED <<host, parents, reserve, ptr, crashes>> /\ Acted
  BY DEF ClearDestination, Acted
<1>4. /\ ControlType' /\ Placed' /\ Journal' /\ BoundType'
      /\ jnl.last \notin {"ROLLED_BACK", "CRITICAL_FAILURE"}
      /\ jnl'.last \in {jnl.last, "CRITICAL_FAILURE"} /\ jnl.seen \subseteq jnl'.seen
      /\ \/ Facts'
         \/ /\ run' = run /\ mode' = mode /\ at' = at /\ fx' = fx + 1
            /\ UNCHANGED <<jnl, mem, obs, chk>>
  BY ActedKeeps, <1>1, <1>3 DEF host, ClearDestination
<1>5. TypeOK'
  BY <1>2, <1>3, <1>4 DEF TypeOK, ControlType, BoundType, host
<1>6. Facts'
  BY <1>1, <1>2, <1>3, <1>4, RollbackMoves DEF Facts, ForwardFacts, RollbackFacts, RecoveryFacts, Past,
     TypeOK, host, verify_committed_destinations, ClearDestination
<1>7. Safe'
  <2>1. UNCHANGED <<loaded, disabled>>
    BY <1>3 DEF host
  <2>2. fs'["plist"] # "absent" => disabled
    BY <1>1, <1>2 DEF Safe, NeverBothHosts, Facts, ForwardFacts, Past
  <2>3. QED BY <1>4, <2>1, <2>2 DEF Safe, NeverBothHosts, RollbackIdentitiesJournaled,
        RolledBackRestores, has_cutover_fields
<1>8. QED BY <1>4, <1>5, <1>6, <1>7

\* Archiving touches only the hidden copies.
LEMMA ArchiveStep == ASSUME IInv, archive_failed_new_best_effort PROVE IInv'
<1> USE DEF IInv
<1>1. run = "rollback" /\ InPlan /\ Doing = "ArchiveEvidence" /\ NextEffect
  BY Where DEF archive_failed_new_best_effort
<1>2. /\ fs' \in [Paths -> {"absent", "partial", "exact"}]
      /\ fs'["app"] = fs["app"] /\ fs'["plist"] = fs["plist"]
  BY DEF archive_failed_new_best_effort, TypeOK, Paths
<1>3. UNCHANGED <<host, parents, reserve, ptr, jnl, mem, obs, chk, crashes, faults>>
  BY DEF archive_failed_new_best_effort
<1>4. obs' \in 0..gen /\ chk' \in 0..gen
  BY <1>3, MigrationAssumption DEF TypeOK, Journal
<1>5. /\ ControlType' /\ Placed' /\ Journal'
      /\ jnl.last \notin {"ROLLED_BACK", "CRITICAL_FAILURE"}
      /\ run' = run /\ origin' = origin /\ mode' = mode /\ at' = at /\ fx' = fx + 1
  BY <1>1, <1>3, <1>4, AdvanceKeeps DEF host
<1>6. TypeOK'
  BY <1>2, <1>3, <1>5 DEF TypeOK, ControlType, host
<1>7. /\ Verified' => Verified
      /\ mode = "FullRestore" /\ Past(1, 2)' => Past(1, 2)
  BY <1>1, <1>5, RollbackMoves
<1>8. Facts'
  BY <1>1, <1>2, <1>3, <1>5, <1>7 DEF Facts, ForwardFacts, RollbackFacts, RecoveryFacts, Restored, host
<1>9. Safe'
  BY <1>2, <1>3, <1>5 DEF Safe, NeverBothHosts, RollbackIdentitiesJournaled,
     RolledBackRestores, has_cutover_fields, host
<1>10. QED BY <1>5, <1>6, <1>8, <1>9

\* The new host is loaded only after the legacy one was proved gone, and the
\* checkpoint covers every generation launched before.
LEMMA BootstrapNewStep == ASSUME IInv, BootstrapNew PROVE IInv'
<1> USE DEF IInv
<1>1. /\ run # "rollback" /\ fx = 1 /\ (run = "forward" => at = 9) /\ (run = "recover" => at = 3)
      /\ InPlan /\ Doing \notin {"record", "skip"}
  BY Where DEF BootstrapNew
<1>2. UNCHANGED <<disabled, proc, lock, gen, marker, disk, crashes>> /\ loaded' = loaded \cup {"new"}
  BY DEF BootstrapNew
<1>3. "legacy" \notin loaded /\ loaded' \subseteq Hosts
  BY <1>1 DEF BootstrapNew, Requires, ForwardRequires, RecoveryRequires, prebootstrap_proof,
     legacy_gone, service_state, InPlan, EffectRuns, TypeOK, Hosts
<1>4. run # "none"
  BY <1>1 DEF InPlan, EffectRuns
<1>5. gen \in 0..MaxGen /\ MaxGen \in Nat /\ obs \in 0..gen /\ proc'["new"] <= gen
      /\ jnl.gen <= gen /\ mem.gen <= gen
  BY <1>2, MigrationAssumption DEF TypeOK, Journal
<1>6. /\ ControlType' /\ Placed' /\ Journal' /\ BoundType'
      /\ jnl.last \notin {"ROLLED_BACK", "CRITICAL_FAILURE"}
      /\ jnl'.last \in {jnl.last, "CRITICAL_FAILURE"} /\ jnl.seen \subseteq jnl'.seen
      /\ \/ Facts'
         \/ /\ run' = run /\ mode' = mode /\ at' = at /\ fx' = fx + 1
            /\ UNCHANGED <<jnl, mem, obs>> /\ chk' = gen
  <2>1. CASE NextEffect /\ chk' = gen /\ UNCHANGED <<mem, jnl, obs, faults>>
    BY <1>1, <1>2, <1>5, <2>1, AdvanceKeeps DEF disk, TypeOK, BoundType
  <2>2. CASE Spend /\ Fail
    BY <1>2, <1>4, <1>5, <2>2, SpendType, FailSplit, GoneKeeps, TurnedKeeps DEF disk, TypeOK, BoundType
  <2>3. QED BY <2>1, <2>2 DEF BootstrapNew
<1>7. TypeOK'
  BY <1>2, <1>3, <1>6 DEF TypeOK, ControlType, BoundType, disk
<1>8. Facts'
  BY <1>1, <1>2, <1>5, <1>6 DEF Facts, ForwardFacts, RollbackFacts, RecoveryFacts, Past,
     TypeOK, disk, verify_committed_destinations
<1>9. Safe'
  BY <1>2, <1>3, <1>6 DEF Safe, NeverBothHosts, RollbackIdentitiesJournaled,
     RolledBackRestores, has_cutover_fields, disk, Hosts
<1>10. QED BY <1>6, <1>7, <1>8, <1>9

\* The generation the controller observes is one that was launched.
LEMMA ObserveStep == ASSUME IInv, observe_launch_generation PROVE IInv'
<1> USE DEF IInv
<1>1. /\ run # "rollback" /\ fx = 1 /\ (run = "forward" => at = 10) /\ (run = "recover" => at = 4)
      /\ InPlan /\ Doing \notin {"record", "skip"} /\ NextEffect
  BY Where DEF observe_launch_generation
<1>2. UNCHANGED <<host, disk, jnl, mem, chk, crashes, faults>> /\ obs' = proc["new"]
  BY DEF observe_launch_generation
<1>3. obs' \in 0..gen /\ chk' \in 0..gen
  BY <1>2, MigrationAssumption DEF TypeOK, Journal, Hosts
<1>4. /\ ControlType' /\ Placed' /\ Journal'
      /\ jnl.last \notin {"ROLLED_BACK", "CRITICAL_FAILURE"}
      /\ run' = run /\ origin' = origin /\ mode' = mode /\ at' = at /\ fx' = fx + 1
  BY <1>1, <1>2, <1>3, AdvanceKeeps DEF host, disk
<1>5. TypeOK'
  BY <1>2, <1>4 DEF TypeOK, ControlType, host, disk
<1>6. Facts'
  BY <1>1, <1>2, <1>4 DEF Facts, ForwardFacts, RollbackFacts, RecoveryFacts, Past,
     TypeOK, host, disk, verify_committed_destinations
<1>7. Safe'
  BY <1>2, <1>4 DEF Safe, NeverBothHosts, RollbackIdentitiesJournaled,
     RolledBackRestores, has_cutover_fields, host, disk
<1>8. QED BY <1>4, <1>5, <1>6, <1>7

----------------------------------------------------------------------------
(* One lemma per action: journal records                                    *)

\* Moving past an operation keeps every fact: the facts name effects the
\* operation has already done.
LEMMA OnwardFacts ==
  ASSUME IInv, InPlan, Doing \in {"record", "skip"}, NextOperation,
         UNCHANGED <<host, disk>>, run' # "none" => UNCHANGED <<obs, chk>>,
         jnl.seen \subseteq jnl'.seen,
         run = "forward" /\ at = 4 => "PRECUTOVER_VERIFIED" \in jnl'.seen,
         run = "recover" => jnl'.gen \in {jnl.gen, mem.gen} /\ mem'.gen = mem.gen
  PROVE  Facts'
<1> USE DEF IInv
<1>1. at \in Int /\ fx \in Int
  BY DEF TypeOK
<1>2. ControlType
  BY TypeParts
<1>3. CASE run' = run /\ mode' = mode /\ at' = at + 1 /\ fx' = 1
  <2>1. ForwardFacts'
    <3> SUFFICES ASSUME run = "forward" PROVE ForwardFacts'
      BY <1>3 DEF ForwardFacts
    <3>1. fx > 1 /\ (at = 8 => fx > 6)
      BY AtRecord
    <3>2. /\ Past(4, 1)' => Past(4, 1)
          /\ Past(5, 1)' => Past(5, 1)
          /\ Past(6, 1)' => Past(6, 1)
          /\ Past(8, 6)' => Past(8, 6)
          /\ Past(11, 1)' => Past(11, 1)
          /\ at' > 4 => at > 4 \/ at = 4
      BY <1>1, <1>3, <3>1 DEF Past
    <3>3. UNCHANGED <<obs, chk>>
      BY <1>3
    <3>4. QED BY <1>3, <3>2, <3>3 DEF Facts, ForwardFacts, host, disk, verify_committed_destinations
  <2>2. RollbackFacts'
    <3> SUFFICES ASSUME run = "rollback" PROVE RollbackFacts'
      BY <1>3 DEF RollbackFacts
    <3>1. fx > 1 /\ (mode = "FullRestore" /\ at = 1 => fx > 2)
      BY AtRecord
    <3>2. /\ mode = "FullRestore" /\ Past(1, 2)' => Past(1, 2)
          /\ Verified' => Verified
      BY <1>1, <1>3, <3>1 DEF Past, Verified
    <3>3. QED BY <1>3, <3>2 DEF Facts, RollbackFacts, Restored, host, disk
  <2>3. RecoveryFacts'
    <3> SUFFICES ASSUME run = "recover" PROVE RecoveryFacts'
      BY <1>3 DEF RecoveryFacts
    <3>1. fx > 1
      BY AtRecord
    <3>2. (Past(3, 1)' => Past(3, 1)) /\ (Past(6, 1)' => Past(6, 1))
      BY <1>1, <1>3, <3>1 DEF Past
    <3>3. UNCHANGED <<obs, chk>>
      BY <1>3
    <3>4. QED BY <1>3, <3>2, <3>3 DEF Facts, RecoveryFacts, host
  <2>4. QED BY <2>1, <2>2, <2>3 DEF Facts
<1>4. CASE at' = 1 /\ fx' = 1 /\ run' = "rollback" /\ mode' # mode
  BY <1>4 DEF Facts, ForwardFacts, RollbackFacts, RecoveryFacts, Verified, Past
<1>5. CASE run' \notin EffectRuns
  BY <1>5 DEF Facts, ForwardFacts, RollbackFacts, RecoveryFacts, EffectRuns
<1>6. QED BY <1>2, <1>3, <1>4, <1>5, Onward DEF EffectRuns

\* An operation without a record keeps the invariant.
LEMMA SkipRecordStep == ASSUME IInv, SkipRecord PROVE IInv'
<1> USE DEF IInv, SkipRecord
<1>1. /\ Placed' /\ fx' \in 0..1 /\ at' \in 0..12
      /\ \/ run' = run /\ mode' = mode /\ origin' = origin
         \/ /\ run = "rollback" /\ run' = "rollback" /\ origin' = origin
            /\ mode' \in {"LegacyStillRunning", "FullRestore"}
         \/ run = "rollback" /\ run' = "none" /\ mode' = "none" /\ origin' = "none"
         \/ /\ run = "recover" /\ run' = "retain" /\ mode' = "none" /\ origin' = origin
  BY Onward, AtRecord, TypeParts
<1>2. TypeOK'
  BY <1>1 DEF TypeOK, host, disk
<1>3. run # "none"
  BY DEF InPlan, EffectRuns
<1>4. Journal'
  BY <1>1, <1>3 DEF Journal, host, disk
<1>5. run = "forward" => Doing = "record"
  BY AtRecord
<1>6. Facts'
  BY <1>5, OnwardFacts DEF Facts
<1>7. Safe'
  BY DEF Safe, NeverBothHosts, RollbackIdentitiesJournaled, RolledBackRestores, host, disk,
     has_cutover_fields
<1>8. QED BY <1>1, <1>2, <1>4, <1>6, <1>7

\* The fields of the record the controller is about to append.
LEMMA RecordFields ==
  ASSUME IInv, InPlan, Doing = "record"
  PROVE  /\ GenField(RecordOf) \in 0..MaxGen /\ GenField(RecordOf) <= gen
         /\ RecordOf \in State /\ RecordOf # "CRITICAL_FAILURE"
         /\ run # "rollback" => RecordOf # "ROLLED_BACK"
         /\ run = "recover" => GenField(RecordOf) = mem.gen
<1> USE DEF IInv
<1>1. GenField(RecordOf) \in {obs, mem.gen}
  BY DEF GenField
<1>2. RecordOf \in State /\ RecordOf # "CRITICAL_FAILURE" /\ (run # "rollback" => RecordOf # "ROLLED_BACK")
  BY AtRecord DEF InPlan, EffectRuns, requires_rollback, is_committed_family
<1>3. run = "recover" => GenField(RecordOf) = mem.gen
  BY AtRecord DEF GenField, is_committed_family
<1>4. QED BY <1>1, <1>2, <1>3 DEF TypeOK, JournalType, Journal

\* An appended record keeps the invariant.  ROLLED_BACK is appended only by a
\* verified rollback, and nothing runs after it.
LEMMA TransitionStep == ASSUME IInv, transition PROVE IInv'
<1> USE DEF IInv
<1> DEFINE s == RecordOf
           g == GenField(RecordOf)
<1>1. InPlan /\ Doing = "record" /\ NextOperation /\ UNCHANGED <<host, disk, crashes, faults>>
  BY DEF transition
<1>2. /\ g \in 0..MaxGen /\ g <= gen /\ s \in State /\ s # "CRITICAL_FAILURE"
      /\ run # "rollback" => s # "ROLLED_BACK"
      /\ run = "recover" => g = mem.gen
  BY <1>1, RecordFields
<1>3. /\ jnl' \in JournalType /\ jnl'.present = jnl.present
      /\ (jnl'.last = s /\ jnl'.gen = g) \/ (jnl'.last = jnl.last /\ jnl'.gen = jnl.gen)
      /\ jnl.seen \subseteq jnl'.seen
      /\ jnl.tail = "clean" => jnl'.tail = "clean" /\ jnl'.last = s /\ s \in jnl'.seen
  BY <1>2, AppendFields DEF transition, TypeOK
<1>4. NoJournal \in JournalType /\ NoJournal.gen = 0
  BY MigrationAssumption DEF NoJournal, JournalType, State
<1>5. mem' \in JournalType /\ mem'.gen <= gen /\ (run' # "none" => mem'.gen = g)
  <2>1. Recorded(mem, s, g) \in JournalType /\ Recorded(mem, s, g).gen = g
    BY <1>2, RecordedType DEF TypeOK
  <2>2. gen \in Nat
    BY MigrationAssumption DEF TypeOK
  <2>3. QED BY <2>1, <2>2, <1>2, <1>4 DEF transition
<1>6. /\ Placed' /\ fx' \in 0..1 /\ at' \in 0..12
      /\ \/ /\ run' = run /\ mode' = mode /\ origin' = origin /\ at < PlanLength
         \/ /\ run = "rollback" /\ run' = "rollback" /\ origin' = origin
            /\ mode = "Provisional" /\ mode' \in {"LegacyStillRunning", "FullRestore"}
         \/ run = "rollback" /\ run' = "none" /\ mode' = "none" /\ origin' = "none"
         \/ run = "forward" /\ run' = "release" /\ at = 12 /\ mode' = "none" /\ origin' = origin
         \/ run = "recover" /\ run' = "retain" /\ mode' = "none" /\ origin' = origin
  BY <1>1, Onward, TypeParts
<1>7. obs' \in 0..MaxGen /\ chk' \in 0..MaxGen /\ obs' <= gen /\ chk' <= gen
      /\ (run' # "none" => UNCHANGED <<obs, chk>>)
  BY MigrationAssumption DEF transition, TypeOK, Journal
<1>8. TypeOK'
  BY <1>1, <1>3, <1>5, <1>6, <1>7 DEF TypeOK, host, disk
<1>9. /\ run \in EffectRuns
      /\ run = "rollback" /\ s = "ROLLED_BACK" =>
           Verified /\ ~(at < PlanLength) /\ mode # "Provisional"
      /\ run = "forward" => jnl.tail = "clean" /\ (is_committed_family(s) => at = 12)
      /\ run = "forward" /\ at < PlanLength => at # 12
      /\ run = "recover" => is_committed_family(s)
      /\ run = "forward" /\ at = 4 => s = "PRECUTOVER_VERIFIED"
  <2>1. run = "forward" => PlanLength = 12
    BY DEF PlanLength, FORWARD_PLAN
  <2>2. run = "rollback" => at \in Int /\ (at = PlanLength => ~(at < PlanLength))
    BY DEF TypeOK
  <2>3. QED BY <1>1, <2>1, <2>2, AtRecord DEF InPlan, Journal, requires_rollback
<1>10. Journal'
  <2>1. jnl.present /\ jnl'.present /\ jnl.last \notin {"ROLLED_BACK", "CRITICAL_FAILURE"}
    BY <1>3, <1>9 DEF Journal, EffectRuns
  <2>2. run' = "forward" => jnl'.tail = "clean" /\ ~is_committed_family(jnl'.last)
    BY <1>3, <1>6, <1>9 DEF Journal
  <2>3. run' # "pointer" /\ run' # "commitRelease" /\ (run' = "recover" => is_committed_family(jnl'.last))
    BY <1>3, <1>6, <1>9 DEF Journal, EffectRuns
  <2>4. jnl'.last \in {"ROLLED_BACK", "CRITICAL_FAILURE"} => run' = "none"
    BY <1>2, <1>3, <1>6, <1>9, <2>1
  <2>5. gen' = gen /\ proc' = proc /\ jnl'.gen <= gen
    BY <1>1, <1>2, <1>3 DEF host, Journal
  <2>6. QED BY <1>5, <1>7, <2>1, <2>2, <2>3, <2>4, <2>5 DEF Journal
<1>11. Facts'
  <2>1. run = "forward" /\ at = 4 => "PRECUTOVER_VERIFIED" \in jnl'.seen
    BY <1>3, <1>9
  <2>2. run = "recover" => run' # "none" /\ jnl'.gen \in {jnl.gen, mem.gen} /\ mem'.gen = mem.gen
    BY <1>2, <1>3, <1>5, <1>6
  <2>3. QED BY <1>1, <1>3, <1>7, <2>1, <2>2, OnwardFacts
<1>12. Safe'
  <2>1. UNCHANGED <<loaded, disabled, fs>>
    BY <1>1 DEF host, disk
  <2>2. jnl'.last = "ROLLED_BACK" => Restored
    BY <1>2, <1>3, <1>9 DEF Facts, RollbackFacts, Journal, EffectRuns
  <2>3. QED BY <1>3, <2>1, <2>2 DEF Safe, NeverBothHosts, RollbackIdentitiesJournaled,
        RolledBackRestores, Restored, has_cutover_fields
<1>13. QED BY <1>6, <1>8, <1>10, <1>11, <1>12

\* A failing append keeps the invariant, whatever it leaves in the file.
LEMMA TransitionFailsStep ==
  ASSUME IInv, NEW kind \in AppendFaults, TransitionFails(kind)
  PROVE  IInv'
<1> USE DEF IInv
<1> DEFINE s == RecordOf
           g == GenField(RecordOf)
           left == FailedAppend(jnl, s, g, kind)
<1>1. InPlan /\ Doing = "record" /\ Spend /\ UNCHANGED <<host, disk, crashes>>
  BY DEF TransitionFails
<1>2. /\ g \in 0..MaxGen /\ g <= gen /\ s \in State
      /\ run # "rollback" => s # "ROLLED_BACK"
  BY <1>1, RecordFields
<1>3. /\ left \in JournalType /\ left.present = jnl.present
      /\ (left.last = s /\ left.gen = g) \/ (left.last = jnl.last /\ left.gen = jnl.gen)
      /\ jnl.seen \subseteq left.seen
  BY <1>2, FailedAppendFields DEF TypeOK
<1>4. NoJournal \in JournalType /\ NoJournal.gen = 0 /\ gen \in Nat /\ mem.gen \in 0..MaxGen
      /\ "CRITICAL_FAILURE" \in State /\ mem.gen <= gen /\ jnl.gen <= gen
  BY MigrationAssumption DEF NoJournal, JournalType, State, TypeOK, Journal
<1>5. /\ run \in EffectRuns /\ jnl.present
      /\ jnl.last \notin {"ROLLED_BACK", "CRITICAL_FAILURE"}
      /\ s = "ROLLED_BACK" => Verified
  BY <1>1, <1>2, AtRecord DEF InPlan, Journal, EffectRuns
<1>6. faults' \in 0..MaxFaults
  BY <1>1, SpendType
<1>7. UNCHANGED <<gen, proc, ptr, loaded, disabled, fs>>
  BY <1>1 DEF host, disk
<1>8. jnl'.last = "ROLLED_BACK" => Restored
  <2>1. jnl'.last = "ROLLED_BACK" => s = "ROLLED_BACK"
    <3>1. AppendTo(left, "CRITICAL_FAILURE", mem.gen).last \in {"CRITICAL_FAILURE", left.last}
      BY <1>3, <1>4, AppendFields
    <3>2. jnl' = left \/ jnl' = AppendTo(left, "CRITICAL_FAILURE", mem.gen)
      BY DEF TransitionFails
    <3>3. QED BY <1>3, <1>5, <3>1, <3>2
  <2>2. QED BY <1>2, <1>5, <2>1 DEF Facts, RollbackFacts
<1>9. CASE run = "forward" /\ requires_rollback(mem.last)
  <2>1. /\ run' = "rollback" /\ origin' = "start" /\ mode' = "Decide" /\ at' = 1 /\ fx' = 1
        /\ jnl' = left /\ UNCHANGED <<mem, obs, chk>>
    BY <1>9 DEF TransitionFails, Enter
  <2>2. TypeOK'
    BY <1>1, <1>3, <1>6, <2>1 DEF TypeOK, host, disk, EffectRuns
  <2>3. Placed' /\ Facts'
    BY <2>1 DEF Placed, Facts, ForwardFacts, RollbackFacts, RecoveryFacts, Verified
  <2>4. s # "CRITICAL_FAILURE" /\ s # "ROLLED_BACK"
    BY <1>1, <1>9, RecordFields
  <2>5. Journal'
    BY <1>2, <1>3, <1>4, <1>5, <1>7, <2>1, <2>4 DEF Journal
  <2>6. Safe'
    BY <1>3, <1>7, <1>8, <2>1 DEF Safe, NeverBothHosts, RollbackIdentitiesJournaled,
       RolledBackRestores, Restored, has_cutover_fields
  <2>7. QED BY <2>2, <2>3, <2>5, <2>6
<1>10. CASE ~(run = "forward" /\ requires_rollback(mem.last))
  <2>1. /\ run' = "none" /\ origin' = "none" /\ mode' = "none" /\ at' = 0 /\ fx' = 0
        /\ obs' = 0 /\ chk' = 0 /\ mem' = NoJournal
        /\ jnl' = left \/ jnl' = AppendTo(left, "CRITICAL_FAILURE", mem.gen)
    BY <1>10 DEF TransitionFails, Exit, Quit
  <2>2. /\ jnl' \in JournalType /\ jnl'.present = jnl.present /\ jnl.seen \subseteq jnl'.seen
        /\ jnl'.gen <= gen
    BY SMTT(30), <1>2, <1>3, <1>4, <2>1, AppendFields
  <2>3. TypeOK'
    BY <1>1, <1>4, <1>6, <2>1, <2>2, MigrationAssumption DEF TypeOK, host, disk
  <2>4. Placed' /\ Facts'
    BY <2>1 DEF Placed, Facts, ForwardFacts, RollbackFacts, RecoveryFacts
  <2>5. Journal'
    BY <1>4, <1>5, <1>7, <2>1, <2>2 DEF Journal
  <2>6. Safe'
    BY <1>7, <1>8, <2>1, <2>2 DEF Safe, NeverBothHosts, RollbackIdentitiesJournaled,
       RolledBackRestores, Restored, has_cutover_fields
  <2>7. QED BY <2>3, <2>4, <2>5, <2>6
<1>11. QED BY <1>9, <1>10

----------------------------------------------------------------------------
(* One lemma per action: entry points                                       *)

\* A first attempt starts with the legacy host in service.
LEMMA StartStep == ASSUME IInv, start_new PROVE IInv'
<1> USE DEF IInv
<1>1. disabled = FALSE /\ "legacy" \in loaded /\ ~jnl.present
  BY DEF start_new, wait_for_exact_legacy_readiness, verify_legacy_disabled, verify_legacy_running, service_state
<1>2. /\ jnl' \in JournalType /\ mem' = jnl' /\ jnl'.present /\ jnl'.gen = 0
      /\ jnl'.last = "BEGUN" /\ jnl'.tail = "clean"
  <2>1. jnl' = [present |-> TRUE, last |-> "BEGUN", seen |-> {"BEGUN"}, gen |-> 0, tail |-> "clean"]
    BY DEF start_new, NoJournal
  <2>2. "BEGUN" \in State /\ 0 \in 0..MaxGen
    BY MigrationAssumption DEF State
  <2>3. jnl' \in JournalType
    BY <2>1, <2>2 DEF JournalType
  <2>4. mem' = jnl'
    BY DEF start_new
  <2>5. QED BY <2>1, <2>3, <2>4
<1>3. run' = "pointer" /\ origin' = "start" /\ mode' = "none" /\ at' = 1 /\ fx' = 1
  BY DEF start_new, Enter
<1>4. UNCHANGED <<host, disk, obs, chk, crashes, faults>>
  BY DEF start_new
<1>5. TypeOK'
  BY <1>2, <1>3, <1>4 DEF TypeOK, host, disk
<1>6. Placed' /\ Facts'
  BY <1>3 DEF Placed, Facts, ForwardFacts, RollbackFacts, RecoveryFacts
<1>7. gen \in Nat
  BY MigrationAssumption DEF TypeOK
<1>8. Journal'
  <2>1. ~is_committed_family("BEGUN")
    BY DEF is_committed_family
  <2>2. ptr = "none" /\ UNCHANGED <<ptr, gen, proc, obs, chk>>
    BY <1>4 DEF start_new, host, disk
  <2>3. QED BY <1>2, <1>3, <1>7, <2>1, <2>2 DEF Journal
<1>9. Safe'
  BY <1>1, <1>2, <1>4 DEF Safe, NeverBothHosts, RollbackIdentitiesJournaled, RolledBackRestores,
     host, disk
<1>10. QED BY <1>5, <1>6, <1>8, <1>9

\* The pointer is published before the attempt goes on.
LEMMA PointerStep == ASSUME IInv, drive_active_pointer PROVE IInv'
<1> USE DEF IInv, drive_active_pointer
<1>1. UNCHANGED <<host, fs, parents, reserve, jnl, mem, obs, chk, crashes, faults>>
      /\ run = "pointer"
  OBVIOUS
<1>2. ptr \in {"none", "empty", "pending"}
  BY DEF TypeOK, Journal
<1>3. /\ ptr' \in {"empty", "pending", "active"}
      /\ \/ /\ run' = "forward" /\ origin' = "start" /\ mode' = "none" /\ at' = 1 /\ fx' = 1
         \/ UNCHANGED <<run, origin, mode, at, fx>> /\ ptr' # "active"
  BY <1>2 DEF Enter
<1>4. TypeOK'
  BY <1>1, <1>2, <1>3 DEF TypeOK, host, EffectRuns
<1>5. Placed'
  <2>1. CASE run' = "forward" /\ origin' = "start" /\ mode' = "none" /\ at' = 1 /\ fx' = 1
    <3>1. Len(Effects') \in 1..6
      BY <2>1, EffectCount DEF Effects
    <3>2. ASSUME NEW n \in 1..6 PROVE 1 \in 1..(n + 1)
      OBVIOUS
    <3>3. QED BY <2>1, <3>1, <3>2 DEF Placed
  <2>2. CASE UNCHANGED <<run, origin, mode, at, fx>>
    BY <1>1, <2>2 DEF Placed
  <2>3. QED BY <1>3, <2>1, <2>2
<1>6. Facts'
  BY <1>1, <1>3 DEF Facts, ForwardFacts, RollbackFacts, RecoveryFacts, Past
<1>7. Journal'
  BY <1>1, <1>3 DEF Journal, host
<1>8. Safe'
  BY <1>1 DEF Safe, NeverBothHosts, RollbackIdentitiesJournaled, RolledBackRestores, host
<1>9. QED BY <1>4, <1>5, <1>6, <1>7, <1>8

\* A pointer that cannot be written turns the attempt to its rollback.
LEMMA PointerFailsStep == ASSUME IInv, PointerFails PROVE IInv'
<1> USE DEF IInv, PointerFails
<1>1. UNCHANGED <<gen, ptr, proc>> /\ proc'["new"] <= gen
  BY DEF host, disk, Journal
<1>2. /\ ControlType' /\ Placed' /\ Journal' /\ Facts'
      /\ jnl.last \notin {"ROLLED_BACK", "CRITICAL_FAILURE"}
      /\ jnl'.last \in {jnl.last, "CRITICAL_FAILURE"} /\ jnl.seen \subseteq jnl'.seen
  BY <1>1, FailSplit, GoneKeeps, TurnedKeeps
<1>3. TypeOK'
  BY <1>2, SpendType DEF TypeOK, ControlType, host, disk
<1>4. Safe'
  BY <1>2 DEF Safe, NeverBothHosts, RollbackIdentitiesJournaled, RolledBackRestores, host, disk,
     has_cutover_fields
<1>5. QED BY <1>2, <1>3, <1>4

\* A rerun starts where the reopened journal says.
LEMMA RecoverStep == ASSUME IInv, recover_active PROVE IInv'
<1> USE DEF IInv, recover_active
<1>1. /\ UNCHANGED <<host, fs, parents, reserve, obs, chk, crashes, faults>>
      /\ ptr \in {"pending", "active"} /\ ptr' = "active"
      /\ jnl' = Opened(jnl) /\ mem' = jnl'
  BY DEF recover_active_pointer
<1>2. /\ jnl' \in JournalType /\ jnl'.present = jnl.present /\ jnl'.last = jnl.last
      /\ jnl'.seen = jnl.seen /\ jnl'.gen = jnl.gen
  BY <1>1 DEF Opened, JournalType, TypeOK
<1>3. \/ is_committed_family(jnl.last) /\ run' = "commitRelease" /\ mode' = "none"
      \/ requires_rollback(jnl.last) /\ run' = "rollback" /\ mode' = "Decide"
  BY DEF Enter
<1>4. origin' = "rerun" /\ at' = 1 /\ fx' = 1
  BY DEF Enter
<1>5. TypeOK'
  BY <1>1, <1>2, <1>3, <1>4 DEF TypeOK, host, EffectRuns
<1>6. Placed' /\ Facts'
  BY <1>3, <1>4 DEF Placed, Facts, ForwardFacts, RollbackFacts, RecoveryFacts, Verified
<1>7. jnl.last \notin {"ROLLED_BACK", "CRITICAL_FAILURE"}
  BY <1>3 DEF requires_rollback, is_committed_family
<1>8. Journal'
  BY <1>1, <1>2, <1>3, <1>7 DEF Journal, host
<1>9. Safe'
  BY <1>1, <1>2 DEF Safe, NeverBothHosts, RollbackIdentitiesJournaled, RolledBackRestores, host,
     has_cutover_fields
<1>10. QED BY <1>5, <1>6, <1>8, <1>9

\* A rollback that chooses its mode, or refuses for want of identities.
LEMMA RollbackStep == ASSUME IInv, rollback PROVE IInv'
<1> USE DEF IInv, rollback
<1>1. /\ UNCHANGED <<host, fs, parents, ptr, crashes, faults>> /\ run = "rollback" /\ mode = "Decide"
      /\ reserve' \in {"none", "released"}
  BY DEF release_rollback_reserve
<1>2. /\ ControlType' /\ Placed' /\ Journal' /\ Facts'
      /\ jnl.last \notin {"ROLLED_BACK", "CRITICAL_FAILURE"}
      /\ jnl'.last \in {jnl.last, "CRITICAL_FAILURE"} /\ jnl.seen \subseteq jnl'.seen
  <2>1. CASE Fail
    <3>1. UNCHANGED <<gen, ptr>> /\ proc'["new"] <= gen
      BY <1>1 DEF host, Journal
    <3>2. QED BY <1>1, <2>1, <3>1, FailSplit, GoneKeeps DEF Turned
  <2>2. CASE /\ run' = "rollback" /\ origin' = origin /\ at' = 1 /\ fx' = 1
             /\ mode' \in {"Provisional", "BeforeLegacyStop"}
             /\ UNCHANGED <<mem, jnl, obs, chk>>
    <3>1. Len(Effects') \in 1..2
      BY <2>2, EffectCount DEF Effects
    <3>2. ASSUME NEW n \in 1..2 PROVE 1 \in 1..(n + 1)
      OBVIOUS
    <3>3. Placed'
      BY <2>2, <3>1, <3>2 DEF Placed
    <3>4. ControlType'
      BY <2>2 DEF TypeOK, ControlType, EffectRuns
    <3>5. Facts'
      BY <2>2 DEF Facts, ForwardFacts, RollbackFacts, RecoveryFacts, Verified, Past
    <3>6. Journal'
      BY <1>1, <2>2 DEF Journal, host
    <3>7. jnl.last \notin {"ROLLED_BACK", "CRITICAL_FAILURE"}
      BY <1>1 DEF Journal
    <3>8. QED BY <2>2, <3>3, <3>4, <3>5, <3>6, <3>7
  <2>3. QED BY <2>1, <2>2 DEF Enter
<1>3. TypeOK'
  BY <1>1, <1>2 DEF TypeOK, ControlType, host
<1>4. Safe'
  BY <1>1, <1>2 DEF Safe, NeverBothHosts, RollbackIdentitiesJournaled, RolledBackRestores, host,
     has_cutover_fields
<1>5. QED BY <1>2, <1>3, <1>4

\* A step that leaves the machine's services, the live destinations and the
\* journal's records alone keeps what is safe.
LEMMA SafeKeeps ==
  ASSUME Safe, UNCHANGED <<loaded, disabled>>,
         fs'["app"] = fs["app"], fs'["plist"] = fs["plist"],
         jnl'.last \in {jnl.last, "CRITICAL_FAILURE"}, jnl.seen \subseteq jnl'.seen
  PROVE  Safe'
  BY DEF Safe, NeverBothHosts, RollbackIdentitiesJournaled, RolledBackRestores, has_cutover_fields

\* A commit whose proof still holds goes on to retain the pointer.
LEMMA ReleaseStep == ASSUME IInv, release_after_commit PROVE IInv'
<1> USE DEF IInv
<1>1. /\ UNCHANGED <<host, fs, parents, ptr, crashes, faults>> /\ run = "release"
      /\ reserve' \in {"none", "full", "released"}
  BY DEF release_after_commit, release_rollback_reserve, TypeOK
<1>2. UNCHANGED <<gen, proc>> /\ proc'["new"] <= gen
  BY <1>1 DEF host, Journal
<1>3. /\ ControlType' /\ Placed' /\ Journal' /\ Facts'
      /\ jnl'.last \in {jnl.last, "CRITICAL_FAILURE"} /\ jnl.seen \subseteq jnl'.seen
  <2>1. CASE Fail
    BY <1>1, <1>2, <2>1, FailSplit, GoneKeeps DEF Turned
  <2>2. CASE /\ run' = "retain" /\ origin' = origin /\ mode' = "none" /\ at' = 1 /\ fx' = 1
             /\ UNCHANGED <<mem, jnl, obs, chk>>
    <3>1. ControlType'
      BY <2>2 DEF TypeOK, ControlType
    <3>2. Placed' /\ Facts'
      BY <2>2 DEF Placed, Facts, ForwardFacts, RollbackFacts, RecoveryFacts
    <3>3. Journal'
      BY <1>1, <1>2, <2>2 DEF Journal
    <3>4. QED BY <2>2, <3>1, <3>2, <3>3
  <2>3. QED BY <2>1, <2>2 DEF release_after_commit, Enter
<1>4. TypeOK'
  BY <1>1, <1>3 DEF TypeOK, ControlType, host
<1>5. Safe'
  BY <1>1, <1>3, SafeKeeps DEF host
<1>6. QED BY <1>3, <1>4, <1>5

\* A rerun of a committed migration starts its recovery.
LEMMA CommittedStep == ASSUME IInv, verify_committed_runtime PROVE IInv'
<1> USE DEF IInv
<1>1. /\ UNCHANGED <<host, fs, parents, ptr, jnl, mem, obs, chk, crashes, faults>>
      /\ run = "commitRelease" /\ reserve' \in {"none", "released"}
      /\ run' = "recover" /\ origin' = origin /\ mode' = "none" /\ at' = 1 /\ fx' = 1
  BY DEF verify_committed_runtime, release_rollback_reserve, Enter
<1>2. TypeOK'
  BY <1>1 DEF TypeOK, host, EffectRuns
<1>3. Placed'
  <2>1. Len(Effects') \in 1..2
    BY <1>1 DEF Effects
  <2>2. ASSUME NEW n \in 1..2 PROVE 1 \in 1..(n + 1)
    OBVIOUS
  <2>3. QED BY <1>1, <2>1, <2>2 DEF Placed
<1>4. Facts'
  BY <1>1 DEF Facts, ForwardFacts, RollbackFacts, RecoveryFacts, Past
<1>5. Journal'
  BY <1>1 DEF Journal, host
<1>6. Safe'
  BY <1>1, SafeKeeps DEF host
<1>7. QED BY <1>2, <1>3, <1>4, <1>5, <1>6

\* The controller is done with a committed migration.
LEMMA RetainStep == ASSUME IInv, verify_retained_active_pointer_after_commit PROVE IInv'
<1> USE DEF IInv
<1>1. /\ UNCHANGED <<host, disk, jnl, crashes, faults>> /\ run = "retain" /\ Gone
  BY DEF verify_retained_active_pointer_after_commit, Gone
<1>2. UNCHANGED <<gen, ptr, proc>> /\ proc'["new"] <= gen
  BY <1>1 DEF host, disk, Journal
<1>3. ControlType' /\ Placed' /\ Journal' /\ Facts'
  BY <1>1, <1>2, GoneKeeps
<1>4. TypeOK'
  BY <1>1, <1>3 DEF TypeOK, ControlType, host, disk
<1>5. Safe'
  BY <1>1, SafeKeeps DEF host, disk
<1>6. QED BY <1>3, <1>4, <1>5

----------------------------------------------------------------------------
(* One lemma per action: the environment and interruptions                  *)

\* Where the controller is does not depend on the machine.
LEMMA PlacedKeeps == ASSUME Placed, UNCHANGED ctrl PROVE Placed'
  BY DEF Placed, Effects, Op, ctrl

\* A started host has a generation no journal knows yet.
LEMMA HostStartsStep == ASSUME IInv, NEW h \in Hosts, HostStarts(h) PROVE IInv'
<1> USE DEF IInv
<1>1. UNCHANGED <<loaded, disabled, marker, disk, jnl, mem, ctrl, crashes, faults>>
  BY DEF HostStarts
<1>2. /\ gen \in 0..MaxGen /\ gen' \in 0..MaxGen /\ gen <= gen'
      /\ proc' \in [Hosts -> 0..(MaxGen + 1)] /\ lock' \in Hosts
      /\ proc'["new"] <= gen'
  BY MigrationAssumption DEF HostStarts, TypeOK, Journal, Hosts
<1>3. TypeOK'
  BY <1>1, <1>2 DEF TypeOK, disk, ctrl
<1>4. Journal'
  BY <1>1, <1>2, <1>3, MigrationAssumption DEF Journal, disk, ctrl, TypeOK, JournalType
<1>5. Placed' /\ Facts'
  BY <1>1, PlacedKeeps DEF Facts, ForwardFacts, RollbackFacts, RecoveryFacts, Past, Verified,
     Restored, disk, ctrl, verify_committed_destinations
<1>6. Safe'
  BY <1>1, SafeKeeps DEF disk
<1>7. QED BY <1>3, <1>4, <1>5, <1>6

\* A host that exits undoes no fact.
LEMMA HostExitsStep == ASSUME IInv, NEW h \in Hosts, HostExits(h) PROVE IInv'
<1> USE DEF IInv
<1>1. UNCHANGED <<loaded, disabled, gen, marker, disk, jnl, mem, ctrl, crashes, faults>>
  BY DEF HostExits
<1>2. /\ proc' \in [Hosts -> 0..(MaxGen + 1)] /\ lock' \in Hosts \cup {"none"}
      /\ proc'["new"] <= gen'
  BY MigrationAssumption DEF HostExits, TypeOK, Journal, Hosts
<1>3. TypeOK'
  BY <1>1, <1>2 DEF TypeOK, disk, ctrl
<1>4. Journal'
  BY <1>1, <1>2 DEF Journal, disk, ctrl
<1>5. Placed' /\ Facts'
  BY <1>1, PlacedKeeps DEF Facts, ForwardFacts, RollbackFacts, RecoveryFacts, Past, Verified,
     Restored, disk, ctrl, verify_committed_destinations
<1>6. Safe'
  BY <1>1, SafeKeeps DEF disk
<1>7. QED BY <1>3, <1>4, <1>5, <1>6

\* A logged marker only adds to what was proved.
LEMMA MarkerStep == ASSUME IInv, HostLogsMarker PROVE IInv'
<1> USE DEF IInv
<1>1. UNCHANGED <<loaded, disabled, proc, lock, gen, disk, jnl, mem, ctrl, crashes, faults>>
  BY DEF HostLogsMarker
<1>2. marker \subseteq marker' /\ marker' \subseteq 1..MaxGen
  <2>1. proc["new"] \in 1..MaxGen
    BY MigrationAssumption DEF HostLogsMarker, TypeOK, Journal, Hosts
  <2>2. QED BY <2>1 DEF HostLogsMarker, TypeOK
<1>3. TypeOK'
  BY <1>1, <1>2 DEF TypeOK, disk, ctrl
<1>4. Journal'
  BY <1>1 DEF Journal, disk, ctrl
<1>5. Placed' /\ Facts'
  BY ZenonT(60), <1>1, <1>2, PlacedKeeps DEF Facts, ForwardFacts, RollbackFacts, RecoveryFacts, Past, Verified,
     Restored, disk, ctrl, verify_committed_destinations
<1>6. Safe'
  BY <1>1, SafeKeeps DEF disk
<1>7. QED BY <1>3, <1>4, <1>5, <1>6

\* A replaced directory fails later proofs and undoes no earlier one.
LEMMA ParentStep == ASSUME IInv, ParentReplaced PROVE IInv'
<1> USE DEF IInv
<1>1. UNCHANGED <<host, fs, reserve, ptr, jnl, mem, ctrl, crashes, faults>> /\ parents' = "replaced"
  BY DEF ParentReplaced
<1>2. TypeOK'
  BY <1>1 DEF TypeOK, host, ctrl
<1>3. Journal'
  BY <1>1 DEF Journal, host, ctrl
<1>4. Placed' /\ Facts'
  BY <1>1, PlacedKeeps DEF Facts, ForwardFacts, RollbackFacts, RecoveryFacts, Past, Verified,
     Restored, host, ctrl, verify_committed_destinations
<1>5. Safe'
  BY <1>1, SafeKeeps DEF host
<1>6. QED BY <1>2, <1>3, <1>4, <1>5

\* The controller dies at any point, its append or copy half done.
LEMMA DiesStep == ASSUME IInv, ControllerDies PROVE IInv'
<1> USE DEF IInv
<1>1. /\ run # "none" /\ Exit /\ UNCHANGED <<host, parents, reserve, ptr, faults>>
      /\ crashes' = crashes + 1 /\ crashes < MaxCrashes
  BY DEF ControllerDies
<1>2. /\ jnl' \in JournalType /\ jnl'.present = jnl.present /\ jnl'.last = jnl.last
      /\ jnl'.seen = jnl.seen /\ jnl'.gen = jnl.gen
  <2>1. jnl' = jnl \/ jnl' = [jnl EXCEPT !.tail = "torn"]
    BY DEF ControllerDies
  <2>2. QED BY <2>1 DEF TypeOK, JournalType
<1>3. /\ fs' \in [Paths -> {"absent", "partial", "exact"}]
      /\ fs'["app"] = fs["app"] /\ fs'["plist"] = fs["plist"]
  <2>1. fs' = fs \/ fs' = [fs EXCEPT !["appHold"] = "partial"]
    BY DEF ControllerDies
  <2>2. QED BY <2>1 DEF TypeOK, Paths
<1>4. /\ run' = "none" /\ origin' = "none" /\ mode' = "none" /\ at' = 0 /\ fx' = 0
      /\ obs' = 0 /\ chk' = 0 /\ mem' = NoJournal
  BY <1>1 DEF Exit, Quit
<1>5. NoJournal \in JournalType /\ NoJournal.gen = 0 /\ gen \in Nat
  BY MigrationAssumption DEF NoJournal, JournalType, State, TypeOK
<1>6. TypeOK'
  BY <1>1, <1>2, <1>3, <1>4, <1>5, MigrationAssumption DEF TypeOK, host
<1>7. Placed' /\ Facts'
  BY <1>4 DEF Placed, Facts, ForwardFacts, RollbackFacts, RecoveryFacts
<1>8. Journal'
  BY <1>1, <1>2, <1>4, <1>5 DEF Journal, host
<1>9. Safe'
  BY <1>1, <1>2, <1>3, SafeKeeps DEF host
<1>10. QED BY <1>6, <1>7, <1>8, <1>9

\* A reboot loads what is in place and enabled: never both hosts.
LEMMA RebootStep == ASSUME IInv, Reboot PROVE IInv'
<1> USE DEF IInv
<1>1. /\ Exit /\ UNCHANGED <<disabled, gen, marker, disk, jnl, faults>>
      /\ crashes' = crashes + 1 /\ crashes < MaxCrashes
      /\ proc' = [h \in Hosts |-> 0] /\ lock' = "none"
      /\ loaded' = (IF disabled THEN {} ELSE {"legacy"})
                   \cup (IF fs["plist"] = "absent" THEN {} ELSE {"new"})
  BY DEF Reboot
<1>2. /\ run' = "none" /\ origin' = "none" /\ mode' = "none" /\ at' = 0 /\ fx' = 0
      /\ obs' = 0 /\ chk' = 0 /\ mem' = NoJournal
  BY <1>1 DEF Exit, Quit
<1>3. NoJournal \in JournalType /\ NoJournal.gen = 0 /\ gen \in Nat
  BY MigrationAssumption DEF NoJournal, JournalType, State, TypeOK
<1>4. TypeOK'
  BY <1>1, <1>2, <1>3, MigrationAssumption DEF TypeOK, disk, Hosts
<1>5. Placed' /\ Facts'
  BY <1>2 DEF Placed, Facts, ForwardFacts, RollbackFacts, RecoveryFacts
<1>6. Journal'
  BY <1>1, <1>2, <1>3 DEF Journal, disk, Hosts
<1>7. Safe'
  BY <1>1 DEF Safe, NeverBothHosts, RollbackIdentitiesJournaled, RolledBackRestores,
     has_cutover_fields, disk, Hosts, TypeOK
<1>8. QED BY <1>4, <1>5, <1>6, <1>7

----------------------------------------------------------------------------
(* The invariant is inductive                                               *)

\* The legacy host in service and no journal: the invariant holds at first.
LEMMA InitHolds == Init => IInv
<1> SUFFICES ASSUME Init PROVE IInv
  OBVIOUS
<1>1. NoJournal \in JournalType /\ NoJournal.gen = 0 /\ ~NoJournal.present /\ NoJournal.last = "BEGUN"
  BY MigrationAssumption DEF NoJournal, JournalType, State
<1>2. TypeOK
  <2>1. 0 \in 0..(MaxGen + 1) /\ 1 \in 0..(MaxGen + 1) /\ 0 \in 0..MaxGen
        /\ 0 \in 0..MaxCrashes /\ 0 \in 0..MaxFaults
    BY MigrationAssumption
  <2>2. proc \in [Hosts -> 0..(MaxGen + 1)]
    BY <2>1 DEF Init
  <2>3. fs \in [Paths -> {"absent", "partial", "exact"}]
    BY DEF Init
  <2>4. loaded \subseteq Hosts /\ lock \in Hosts \cup {"none"} /\ marker \subseteq 1..MaxGen
    BY DEF Init, Hosts
  <2>5. /\ disabled = FALSE /\ gen = 0 /\ parents = "pinned" /\ reserve = "none" /\ ptr = "none"
        /\ jnl = NoJournal /\ mem = NoJournal /\ run = "none" /\ origin = "none"
        /\ mode = "none" /\ at = 0 /\ fx = 0 /\ obs = 0 /\ chk = 0 /\ crashes = 0 /\ faults = 0
    BY DEF Init
  <2>6. MachineType
    BY <2>1, <2>2, <2>3, <2>4, <2>5 DEF MachineType
  <2>7. ControlType
    BY <1>1, <2>1, <2>5 DEF ControlType
  <2>8. BoundType
    BY <2>1, <2>5 DEF BoundType
  <2>9. QED BY <2>6, <2>7, <2>8, TypeParts
<1>3. Placed /\ Facts
  BY DEF Init, Placed, Facts, ForwardFacts, RollbackFacts, RecoveryFacts
<1>4. Journal
  BY <1>1 DEF Init, Journal, Hosts
<1>5. Safe
  BY <1>1 DEF Init, Safe, NeverBothHosts, RollbackIdentitiesJournaled, RolledBackRestores, Hosts, Paths
<1>6. QED BY <1>2, <1>3, <1>4, <1>5 DEF IInv

\* Every step of the controller, of a failure and of the machine keeps it.
LEMMA NextKeeps == ASSUME IInv, [Next]_vars PROVE IInv'
<1>1. CASE Controller
  BY <1>1, StartStep, PointerStep, RecoverStep, RollbackStep, ProveStep, VerifyPrecutoverStep,
     DisableLegacyStep, BootoutLegacyStep, CopyAppInstallHoldStep, CopyPlistInstallHoldStep,
     PublishAppStep, PublishPlistStep, BootstrapNewStep, ObserveStep, BootoutNewStep,
     EnableLegacyStep, BootstrapLegacyStep, ClearAppStep, ClearPlistStep, ArchiveStep,
     SkipRecordStep, TransitionStep, ReleaseStep, CommittedStep, RetainStep
  DEF Controller
<1>2. CASE Failures
  BY <1>2, EffectFailsStep, PointerFailsStep, TransitionFailsStep DEF Failures
<1>3. CASE Environment
  BY <1>3, HostStartsStep, HostExitsStep, MarkerStep, ParentStep DEF Environment
<1>4. CASE ControllerDies
  BY <1>4, DiesStep
<1>5. CASE Reboot
  BY <1>5, RebootStep
<1>6. CASE UNCHANGED vars
  <2>1. Placed'
    BY <1>6, PlacedKeeps DEF vars, IInv
  <2>2. QED BY <1>6, <2>1 DEF vars, host, disk, ctrl, IInv, TypeOK, Journal, Facts, ForwardFacts,
     RollbackFacts, RecoveryFacts, Past, Verified, Restored, Safe, NeverBothHosts,
     RollbackIdentitiesJournaled, RolledBackRestores, verify_committed_destinations,
     has_cutover_fields
<1>7. QED BY <1>1, <1>2, <1>3, <1>4, <1>5, <1>6 DEF Next

\* The inductive invariant holds of every behaviour.
LEMMA Invariance == Spec => []IInv
  BY InitHolds, NextKeeps, PTL DEF Spec

\* The legacy and the new host are never loaded together, and no reboot can load
\* them together: at every interruption point of install and rollback the new
\* LaunchAgent is in place only while the legacy label is disabled.
THEOREM HostExclusion == Spec => []NeverBothHosts
<1>1. IInv => NeverBothHosts
  BY DEF IInv, Safe
<1>2. QED BY <1>1, Invariance, PTL

\* Whatever a failing append leaves in the file, the legacy host is out of
\* service only under a journal that can be rolled back, and a durable
\* ROLLED_BACK is true of both hosts.
THEOREM RollbackTruth == Spec => [](TypeOK /\ RollbackIdentitiesJournaled /\ RolledBackRestores)
<1>1. IInv => TypeOK /\ RollbackIdentitiesJournaled /\ RolledBackRestores
  BY DEF IInv, Safe
<1>2. QED BY <1>1, Invariance, PTL

----------------------------------------------------------------------------
(* What any step does to the journal's last state and to the live files     *)

\* The last durable state stays, or a rollback of this attempt gives up.
SameLast == jnl'.last = jnl.last \/ (run = "rollback" /\ jnl'.last = "CRITICAL_FAILURE")

\* Nothing a finished transaction stands on changes.
Calm ==
  /\ disabled' = disabled /\ fs'["app"] = fs["app"] /\ fs'["plist"] = fs["plist"]
  /\ disabled /\ "legacy" \notin loaded => "legacy" \notin loaded'
  /\ reserve # "none" => reserve' # "none"

\* An effect of an attempt or a rollback; the legacy label moves only while the
\* new LaunchAgent is out of its place.
Works ==
  /\ run \in {"forward", "rollback"}
  /\ disabled' # disabled => fs' = fs /\ fs["plist"] = "absent"

\* The record of the current operation is appended, or kept by a failing append.
Appends ==
  /\ InPlan /\ Doing = "record" /\ UNCHANGED <<host, disk>>
  /\ jnl'.last = RecordOf /\ jnl'.gen = GenField(RecordOf)
  /\ run' = "rollback" => run = "rollback" \/ "kept" \in AppendFaults

\* A rollback is entered from an attempt or from a journal that asks for one.
EntersRollback ==
  run' = "rollback" => run \in {"rollback", "forward", "pointer"} \/ requires_rollback(jnl.last)

\* An error, and an effect that is done or reports an error, append nothing but
\* the record of a failed rollback.
LEMMA ErrorShape ==
  ASSUME IInv, Fail \/ Acted \/ Gone \/ Turned
  PROVE  SameLast /\ EntersRollback
<1>1. CASE Gone
  <2>1. "CRITICAL_FAILURE" \in State /\ mem.gen \in 0..MaxGen /\ jnl \in JournalType
    BY DEF IInv, TypeOK, JournalType, State
  <2>2. run' = "none"
    BY <1>1 DEF Gone, Exit, Quit
  <2>3. QED BY <1>1, <2>1, <2>2, AppendFields DEF Gone, SameLast, EntersRollback
<1>2. CASE Turned
  BY <1>2 DEF Turned, SameLast, EntersRollback
<1>3. CASE NextEffect /\ UNCHANGED <<mem, jnl, obs, chk, faults>>
  BY <1>3 DEF NextEffect, SameLast, EntersRollback
<1>4. QED BY <1>1, <1>2, <1>3, FailSplit DEF Acted

\* The effects of the plans.
LEMMA EffectShape ==
  ASSUME IInv,
         \/ VerifyPrecutover \/ DisableLegacy \/ BootoutLegacy
         \/ CopyInstallHold("CopyAppInstallHold", "appHold")
         \/ CopyInstallHold("CopyPlistInstallHold", "plistHold")
         \/ Publish("PublishApp", "appHold", "app")
         \/ Publish("PublishPlist", "plistHold", "plist")
         \/ EnableLegacy \/ BootstrapLegacy
         \/ ClearDestination("ClearApp", "app", "appOff")
         \/ ClearDestination("ClearPlist", "plist", "plistOff")
  PROVE  SameLast /\ EntersRollback /\ Works
<1> USE DEF IInv
<1>1. Acted /\ InPlan
  BY DEF VerifyPrecutover, DisableLegacy, BootoutLegacy, CopyInstallHold, Publish, EnableLegacy,
     BootstrapLegacy, ClearDestination, Acted
<1>2. SameLast /\ EntersRollback
  BY <1>1, ErrorShape
<1>3. run \in {"forward", "rollback"}
  BY Where DEF VerifyPrecutover, DisableLegacy, BootoutLegacy, CopyInstallHold, Publish,
     EnableLegacy, BootstrapLegacy, ClearDestination
<1>4. CASE DisableLegacy
  <2>1. run = "forward"
    BY <1>4, Where DEF DisableLegacy
  <2>2. fs["plist"] = "absent" /\ fs' = fs
    BY <1>4, <2>1 DEF DisableLegacy, Requires, ForwardRequires, require_new_absent, disk
  <2>3. QED BY <1>2, <1>3, <2>2 DEF Works
<1>5. CASE EnableLegacy
  <2>1. run = "rollback" /\ (mode = "FullRestore" => at = 2)
    BY <1>5, Where DEF EnableLegacy
  <2>2. fs["plist"] = "absent" /\ fs' = fs
    BY <1>5, <2>1 DEF EnableLegacy, Requires, RollbackRequires, require_new_absent, disk,
       Facts, RollbackFacts, Past
  <2>3. QED BY <1>2, <1>3, <2>2 DEF Works
<1>6. CASE ~DisableLegacy /\ ~EnableLegacy
  <2>1. disabled' = disabled
    BY <1>6 DEF VerifyPrecutover, BootoutLegacy, CopyInstallHold, Publish, BootstrapLegacy,
       ClearDestination, host
  <2>2. QED BY <1>2, <1>3, <2>1 DEF Works
<1>7. QED BY <1>4, <1>5, <1>6

\* Every other step but a record leaves what a finished transaction stands on.
LEMMA CalmShape ==
  ASSUME IInv,
         \/ start_new \/ drive_active_pointer \/ recover_active \/ rollback \/ Prove
         \/ BootstrapNew \/ observe_launch_generation \/ BootoutNew
         \/ archive_failed_new_best_effort \/ SkipRecord
         \/ release_after_commit \/ verify_committed_runtime
         \/ verify_retained_active_pointer_after_commit
         \/ EffectFails \/ PointerFails \/ Environment \/ ControllerDies \/ Reboot
         \/ UNCHANGED vars
  PROVE  SameLast /\ EntersRollback /\ Calm
<1> USE DEF IInv
<1>1. CASE start_new
  <2>1. jnl'.last = "BEGUN" /\ jnl.last = "BEGUN"
    BY <1>1 DEF start_new, NoJournal, Journal
  <2>2. QED BY <1>1, <2>1 DEF start_new, Enter, SameLast, EntersRollback, Calm, host, disk
<1>2. CASE drive_active_pointer
  BY <1>2 DEF drive_active_pointer, Enter, SameLast, EntersRollback, Calm, host
<1>3. CASE recover_active
  <2>1. jnl'.last = jnl.last
    BY <1>3 DEF recover_active, Opened, TypeOK, JournalType
  <2>2. QED BY <1>3, <2>1 DEF recover_active, Enter, SameLast, EntersRollback, Calm, host
<1>4. CASE rollback
  <2>1. SameLast /\ EntersRollback
    BY <1>4, ErrorShape DEF rollback, SameLast, EntersRollback
  <2>2. QED BY <1>4, <2>1 DEF rollback, release_rollback_reserve, Calm, host
<1>5. CASE Prove \/ observe_launch_generation
  <2>1. jnl' = jnl /\ run' = run
    BY <1>5 DEF Prove, observe_launch_generation, NextEffect
  <2>2. QED BY <1>5, <2>1 DEF Prove, observe_launch_generation, SameLast, EntersRollback, Calm, host, disk
<1>6. CASE BootstrapNew
  <2>1. SameLast /\ EntersRollback
    BY <1>6, ErrorShape DEF BootstrapNew, NextEffect, SameLast, EntersRollback
  <2>2. QED BY <1>6, <2>1 DEF BootstrapNew, Calm, disk
<1>7. CASE BootoutNew
  <2>1. SameLast /\ EntersRollback
    BY <1>7, ErrorShape DEF BootoutNew
  <2>2. QED BY <1>7, <2>1 DEF BootoutNew, bootout_exact_service, Calm, disk
<1>8. CASE archive_failed_new_best_effort
  <2>1. jnl' = jnl /\ run' = run /\ UNCHANGED <<host, reserve>>
    BY <1>8 DEF archive_failed_new_best_effort, NextEffect
  <2>2. fs'["app"] = fs["app"] /\ fs'["plist"] = fs["plist"]
    BY <1>8 DEF archive_failed_new_best_effort, Paths
  <2>3. QED BY <2>1, <2>2 DEF SameLast, EntersRollback, Calm, host
<1>9. CASE SkipRecord
  <2>1. run' = "rollback" => run = "rollback"
    BY <1>9, Onward, TypeParts DEF SkipRecord
  <2>2. QED BY <1>9, <2>1 DEF SkipRecord, SameLast, EntersRollback, Calm, host, disk
<1>10. CASE release_after_commit
  <2>1. SameLast /\ EntersRollback
    BY <1>10, ErrorShape DEF release_after_commit, Enter, SameLast, EntersRollback
  <2>2. QED BY <1>10, <2>1 DEF release_after_commit, release_rollback_reserve, Calm, host
<1>11. CASE verify_committed_runtime
  BY <1>11 DEF verify_committed_runtime, release_rollback_reserve, Enter, SameLast, EntersRollback,
     Calm, host
<1>12. CASE verify_retained_active_pointer_after_commit
  BY <1>12 DEF verify_retained_active_pointer_after_commit, Exit, Quit, SameLast, EntersRollback,
     Calm, host, disk
<1>13. CASE EffectFails \/ PointerFails
  <2>1. SameLast /\ EntersRollback
    BY <1>13, ErrorShape DEF EffectFails, PointerFails
  <2>2. QED BY <1>13, <2>1 DEF EffectFails, PointerFails, Calm, host, disk
<1>14. CASE Environment
  <2>1. UNCHANGED <<loaded, disabled, fs, reserve, jnl, run>>
    BY <1>14 DEF Environment, HostStarts, HostExits, HostLogsMarker, ParentReplaced, host, disk, ctrl
  <2>2. QED BY <2>1 DEF SameLast, EntersRollback, Calm
<1>15. CASE ControllerDies
  <2>1. jnl'.last = jnl.last
    BY <1>15 DEF ControllerDies, TypeOK, JournalType
  <2>2. fs'["app"] = fs["app"] /\ fs'["plist"] = fs["plist"]
    BY <1>15 DEF ControllerDies, TypeOK, Paths
  <2>3. QED BY <1>15, <2>1, <2>2 DEF ControllerDies, Exit, Quit, SameLast, EntersRollback, Calm, host
<1>16. CASE Reboot
  BY <1>16 DEF Reboot, Exit, Quit, SameLast, EntersRollback, Calm, disk
<1>17. CASE UNCHANGED vars
  BY <1>17 DEF vars, ctrl, host, disk, SameLast, EntersRollback, Calm
<1>18. QED BY <1>1, <1>2, <1>3, <1>4, <1>5, <1>6, <1>7, <1>8, <1>9, <1>10, <1>11, <1>12,
       <1>13, <1>14, <1>15, <1>16, <1>17

\* A record that is appended, or whose append fails.
LEMMA RecordShape ==
  ASSUME IInv, transition \/ (\E kind \in AppendFaults : TransitionFails(kind))
  PROVE  (SameLast /\ EntersRollback /\ Calm) \/ Appends
<1> USE DEF IInv
<1> DEFINE s == RecordOf
           g == GenField(RecordOf)
<1>1. InPlan /\ Doing = "record" /\ UNCHANGED <<host, disk>>
  BY DEF transition, TransitionFails
<1>2. Calm
  BY <1>1 DEF Calm, host, disk
<1>3. g \in 0..MaxGen /\ s \in State /\ jnl \in JournalType
  BY <1>1, RecordFields DEF TypeOK
<1>4. CASE transition
  <2>1. (jnl'.last = s /\ jnl'.gen = g) \/ jnl'.last = jnl.last
    BY <1>3, <1>4, AppendFields DEF transition
  <2>2. run' = "rollback" => run = "rollback"
    BY <1>1, <1>4, Onward, TypeParts DEF transition
  <2>3. QED BY <1>1, <1>2, <2>1, <2>2 DEF SameLast, EntersRollback, Appends
<1>5. ASSUME NEW kind \in AppendFaults, TransitionFails(kind)
      PROVE  (SameLast /\ EntersRollback /\ Calm) \/ Appends
  <2> DEFINE left == FailedAppend(jnl, s, g, kind)
             over == AppendTo(left, "CRITICAL_FAILURE", mem.gen)
  <2>1. /\ left \in JournalType
        /\ (left.last = s /\ left.gen = g) \/ left.last = jnl.last
        /\ kind # "kept" => left.last = jnl.last
    BY <1>3, FailedAppendFields
  <2>2. over.last = "CRITICAL_FAILURE" \/ (over.last = left.last /\ over.gen = left.gen)
    <3>1. "CRITICAL_FAILURE" \in State /\ mem.gen \in 0..MaxGen
      BY DEF TypeOK, JournalType, State
    <3>2. QED BY <2>1, <3>1, AppendFields
  <2>3. /\ jnl' = left \/ (run = "rollback" /\ jnl' = over)
        /\ run' = "rollback" => run = "forward"
    BY <1>5 DEF TransitionFails, Enter, Exit, Quit
  <2>4. CASE jnl'.last = jnl.last \/ (run = "rollback" /\ jnl'.last = "CRITICAL_FAILURE")
    BY <1>2, <2>3, <2>4 DEF SameLast, EntersRollback
  <2>5. CASE jnl'.last = s /\ jnl'.gen = g /\ kind = "kept"
    BY <1>1, <2>5 DEF Appends
  <2>6. QED BY <2>1, <2>2, <2>3, <2>4, <2>5
<1>6. QED BY <1>4, <1>5

\* Every step is calm, does the work of an attempt or a rollback, or appends.
LEMMA StepShape ==
  ASSUME IInv, [Next]_vars
  PROVE  (SameLast /\ EntersRollback /\ (Calm \/ Works)) \/ Appends
BY EffectShape, CalmShape, RecordShape DEF Next, Controller, Failures

\* COMMITTED names a generation whose marker followed the checkpoint, with the
\* legacy host gone; a committed recovery is ready only for a generation later
\* than the one the journal names.  launchd may restart the new host between
\* any two of the proofs this rests on.
THEOREM ReadinessProved == Spec => ReadinessFresh
<1>1. ASSUME IInv, [Next]_vars, jnl'.last = "COMMITTED", jnl.last # "COMMITTED"
      PROVE  jnl'.gen \in marker /\ jnl'.gen > chk /\ "legacy" \notin loaded /\ disabled
  <2>1. Appends
    BY <1>1, StepShape DEF SameLast
  <2>2. RecordOf = "COMMITTED" /\ jnl'.gen = obs /\ InPlan /\ Doing = "record"
    BY <1>1, <2>1 DEF Appends, GenField
  <2>3. run = "forward" /\ at = 12
    BY <1>1, <2>2, AtRecord DEF IInv, InPlan, EffectRuns, is_committed_family, requires_rollback
  <2>4. QED BY <1>1, <2>2, <2>3 DEF IInv, Facts, ForwardFacts, Past
<1>2. ASSUME IInv, [Next]_vars, jnl'.last = "COMMITTED_RECOVERY_READY", jnl.last # jnl'.last
      PROVE  obs \in marker /\ obs > jnl.gen
  <2>1. Appends
    BY <1>2, StepShape DEF SameLast
  <2>2. RecordOf = "COMMITTED_RECOVERY_READY" /\ InPlan /\ Doing = "record"
    BY <1>2, <2>1 DEF Appends
  <2>3. run = "recover" /\ Past(6, 1)
    BY <1>2, <2>2, AtRecord DEF IInv, InPlan, EffectRuns, is_committed_family, requires_rollback
  <2>4. at \in Int /\ fx \in Int /\ obs \in Int /\ chk \in Int /\ jnl.gen \in Int
    BY <1>2, MigrationAssumption DEF IInv, TypeOK, JournalType
  <2>5. obs \in marker /\ obs > chk /\ jnl.gen <= chk
    BY <1>2, <2>3, <2>4 DEF IInv, Facts, RecoveryFacts, Past
  <2>6. QED BY <2>4, <2>5
<1>3. Spec => CommitProved
  BY <1>1, Invariance, PTL DEF Spec, CommitProved
<1>4. Spec => RecoveryIsFresh
  BY <1>2, Invariance, PTL DEF Spec, RecoveryIsFresh
<1>5. QED BY <1>3, <1>4 DEF ReadinessFresh

----------------------------------------------------------------------------
(* What a durable commit promises                                           *)

\* When no failing append keeps its record, a committed migration stands: it is
\* not rolled back, and both hosts stay as the commit found them.
LEMMA CommitKeeps ==
  ASSUME IInv, CInv, [Next]_vars, "kept" \notin AppendFaults
  PROVE  CInv'
<1> USE DEF IInv
<1>1. ~is_committed_family("CRITICAL_FAILURE")
  BY DEF is_committed_family
<1>2. run \in {"forward", "pointer", "rollback"} => ~is_committed_family(jnl.last)
  BY DEF Journal, CInv
<1>3. CASE SameLast /\ EntersRollback /\ (Calm \/ Works)
  <2>1. is_committed_family(jnl'.last) => is_committed_family(jnl.last) /\ jnl'.last = jnl.last
    BY <1>1, <1>3 DEF SameLast
  <2>2. is_committed_family(jnl'.last) => run' # "rollback"
    BY <1>2, <1>3, <2>1 DEF EntersRollback, requires_rollback
  <2>3. is_committed_family(jnl'.last) => Calm
    BY <1>2, <1>3, <2>1 DEF Works
  <2>4. CommittedStands'
    BY <2>1, <2>3 DEF CInv, CommittedStands, Calm, verify_committed_destinations
  <2>5. QED BY <2>2, <2>4 DEF CInv
<1>4. CASE Appends
  <2>1. UNCHANGED <<loaded, disabled, fs, reserve>> /\ jnl'.last = RecordOf
    BY <1>4 DEF Appends, host, disk
  <2>2. is_committed_family(RecordOf) => run = "recover" \/ (run = "forward" /\ at = 12)
    BY <1>4, AtRecord DEF Appends, InPlan, EffectRuns, requires_rollback
  <2>3. run' = "rollback" => run = "rollback"
    BY <1>4 DEF Appends
  <2>4. CASE run = "recover"
    BY <2>1, <2>3, <2>4 DEF Journal, CInv, CommittedStands, verify_committed_destinations
  <2>5. CASE run = "forward" /\ at = 12
    BY <2>1, <2>3, <2>5 DEF Facts, ForwardFacts, Past, CInv, CommittedStands,
       verify_committed_destinations
  <2>6. CASE ~is_committed_family(RecordOf)
    BY <2>1, <2>6 DEF CInv, CommittedStands
  <2>7. QED BY <2>2, <2>4, <2>5, <2>6
<1>5. QED BY <1>3, <1>4, StepShape

\* At every interruption point the durable journal describes the machine: an
\* unserved legacy host can be rolled back, and what the journal says of a
\* finished transaction is true of both hosts.
THEOREM JournalTruth ==
  ASSUME "kept" \notin AppendFaults
  PROVE  Spec => []JournalTruthful
<1>1. Init => CInv
  BY DEF Init, CInv, CommittedStands, NoJournal, is_committed_family
<1>2. IInv /\ CInv /\ [Next]_vars => CInv'
  BY CommitKeeps
<1>3. IInv /\ CInv => JournalTruthful
  BY DEF IInv, Safe, CInv, JournalTruthful
<1>4. QED BY <1>1, <1>2, <1>3, Invariance, PTL DEF Spec

----------------------------------------------------------------------------
(* The transaction implements the atomic decision                           *)

\* The outcome HostCutover is told of.
Outcome ==
  IF is_committed_family(jnl.last) THEN "committed"
  ELSE IF jnl.last = "ROLLED_BACK" THEN "rolledBack"
  ELSE IF jnl.last = "CRITICAL_FAILURE" THEN "critical" ELSE "open"

\* While an attempt or its rollback runs the decision is open.
LEMMA OpenWhileRunning ==
  ASSUME IInv, CInv, run \in {"pointer", "forward", "rollback"}
  PROVE  Outcome = "open"
  BY DEF IInv, CInv, Journal, Outcome

\* A step that leaves the journal's last state is a move of the labels while
\* the decision is open, or changes nothing the decision is about.
LEMMA MoveMaps ==
  ASSUME IInv, CInv, IInv', jnl'.last = jnl.last, Calm \/ Works
  PROVE  Cutover!Next \/ UNCHANGED Cutover!cutoverVars
<1>1. Outcome' = Outcome
  BY DEF Outcome
<1>2. disabled \in BOOLEAN /\ disabled' \in BOOLEAN
  BY DEF IInv, TypeOK
<1>3. (fs["plist"] # "absent" => disabled) /\ (fs'["plist"] # "absent" => disabled')
  BY DEF IInv, Safe, NeverBothHosts
<1>4. CASE disabled' = disabled /\ fs'["plist"] = fs["plist"]
  BY <1>1, <1>4 DEF Cutover!cutoverVars, Outcome
<1>5. CASE Works /\ ~(disabled' = disabled /\ fs'["plist"] = fs["plist"])
  <2>1. Outcome = "open"
    BY <1>5, OpenWhileRunning DEF Works
  <2>2. CASE disabled' # disabled
    <3>1. fs["plist"] = "absent" /\ fs'["plist"] = "absent"
      BY <1>5, <2>2 DEF Works
    <3>2. CASE disabled'
      BY <1>1, <1>2, <2>1, <2>2, <3>1, <3>2 DEF Cutover!Next, Cutover!Disable, Outcome
    <3>3. CASE ~disabled'
      BY <1>1, <1>2, <2>1, <2>2, <3>1, <3>3 DEF Cutover!Next, Cutover!Enable, Outcome
    <3>4. QED BY <3>2, <3>3
  <2>3. CASE disabled' = disabled /\ fs'["plist"] # "absent"
    BY <1>1, <1>2, <1>3, <2>1, <2>3 DEF Cutover!Next, Cutover!Install, Outcome
  <2>4. CASE disabled' = disabled /\ fs'["plist"] = "absent"
    BY <1>1, <1>2, <2>1, <2>4 DEF Cutover!Next, Cutover!Remove, Outcome
  <2>5. QED BY <2>2, <2>3, <2>4
<1>6. QED BY <1>4, <1>5 DEF Calm

\* A failed rollback gives up.
LEMMA GiveUpMaps ==
  ASSUME IInv, CInv, IInv', run = "rollback", jnl'.last = "CRITICAL_FAILURE"
  PROVE  Cutover!Next
<1>1. Outcome = "open" /\ Outcome' = "critical"
  BY OpenWhileRunning DEF Outcome, is_committed_family
<1>2. disabled' \in BOOLEAN /\ (fs'["plist"] # "absent" => disabled')
  BY DEF IInv, TypeOK, Safe, NeverBothHosts
<1>3. QED BY <1>1, <1>2 DEF Cutover!Next, Cutover!GiveUp, Outcome

\* A record commits, rolls back, or leaves the decision as it was.
LEMMA RecordMaps ==
  ASSUME IInv, CInv, IInv', CInv', Appends
  PROVE  Cutover!Next \/ UNCHANGED Cutover!cutoverVars
<1> USE DEF IInv
<1>1. UNCHANGED <<disabled, fs>> /\ jnl'.last = RecordOf /\ run \in EffectRuns
  BY DEF Appends, host, disk, InPlan
<1>2. CASE Outcome' = Outcome
  BY <1>1, <1>2 DEF Cutover!cutoverVars, Outcome
<1>3. CASE run = "forward" /\ RecordOf = "COMMITTED"
  <2>1. Outcome = "open" /\ Outcome' = "committed"
    BY <1>1, <1>3, OpenWhileRunning DEF Outcome, is_committed_family
  <2>2. fs["plist"] # "absent"
    BY <1>1, <1>3 DEF CInv, CommittedStands, is_committed_family, verify_committed_destinations
  <2>3. QED BY <1>1, <2>1, <2>2 DEF Cutover!Next, Cutover!Commit, Outcome
<1>4. CASE run = "rollback" /\ RecordOf = "ROLLED_BACK"
  <2>1. Outcome = "open" /\ Outcome' = "rolledBack"
    BY <1>1, <1>4, OpenWhileRunning DEF Outcome, is_committed_family
  <2>2. ~disabled /\ disabled \in BOOLEAN
    BY <1>1, <1>4 DEF Safe, RolledBackRestores, TypeOK
  <2>3. QED BY <1>1, <2>1, <2>2 DEF Cutover!Next, Cutover!RollBack, Outcome
<1>5. CASE ~(run = "forward" /\ RecordOf = "COMMITTED") /\ ~(run = "rollback" /\ RecordOf = "ROLLED_BACK")
  <2>1. CASE run = "recover"
    BY <1>1, <1>2, <2>1, AtRecord DEF Appends, Journal, Outcome
  <2>2. CASE run = "forward"
    <3>1. requires_rollback(RecordOf)
      BY <1>5, <2>2, AtRecord DEF Appends
    <3>2. QED BY <1>1, <2>2, <3>1, <1>2, OpenWhileRunning DEF Outcome, requires_rollback
  <2>3. CASE run = "rollback"
    <3>1. ~is_committed_family(RecordOf) /\ RecordOf # "CRITICAL_FAILURE" /\ RecordOf # "ROLLED_BACK"
      BY <1>5, <2>3, AtRecord DEF Appends
    <3>2. QED BY <1>1, <2>3, <3>1, <1>2, OpenWhileRunning DEF Outcome
  <2>4. QED BY <1>1, <1>2, <2>1, <2>2, <2>3 DEF EffectRuns
<1>6. QED BY <1>3, <1>4, <1>5

\* The journaled transaction, interrupted or failing at any point, implements
\* one atomic decision between the two hosts.
THEOREM CutoverRefinement ==
  ASSUME "kept" \notin AppendFaults
  PROVE  Spec => ImplementsCutover
<1>1. Init => CInv
  BY DEF Init, CInv, CommittedStands, NoJournal, is_committed_family
<1>2. IInv /\ CInv /\ [Next]_vars => CInv'
  BY CommitKeeps
<1>3. Init => Cutover!Init
  BY DEF Init, Cutover!Init, NoJournal, is_committed_family, Paths
<1>4. IInv /\ CInv /\ IInv' /\ CInv' /\ [Next]_vars => [Cutover!Next]_(Cutover!cutoverVars)
  BY StepShape, MoveMaps, GiveUpMaps, RecordMaps DEF SameLast
<1>5. QED BY <1>1, <1>2, <1>3, <1>4, Invariance, PTL DEF Spec, ImplementsCutover, Cutover!Spec
=============================================================================
