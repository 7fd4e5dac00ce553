------------------------------ MODULE DriverV2 ------------------------------
(* The user's half of the v2 diagnostic-driver update: the program that      *)
(* proves the preflight, stages a root-owned copy of itself beside the fixed *)
(* recovery controller and starts the root transaction; and the rollback     *)
(* program, which starts the fixed recovery controller.                      *)
EXTENDS DriverTransaction

----------------------------------------------------------------------------
(* The preflight                                                             *)

verify_git_provenance == "release" \in intact
verify_candidate == "candidate" \in intact
verify_v8_evidence_and_host_bytes == "host bytes" \in intact
verify_reader_inputs == "reader" \in intact
verify_prebuilt_diagnostic_reader == "reader" \in intact
verify_retained_v1_user_prestop_attempt == "retained" \in intact /\ tries.v1 = "authenticated"

require_fresh_namespaces ==
    tries.v2 = "none" /\ tx.ptr = "absent" /\ ~tx.dir /\ "parent" \notin stage

verify_complete_preflight ==
    /\ verify_git_provenance /\ verify_candidate /\ verify_installed_v7_driver
    /\ verify_v8_evidence_and_host_bytes /\ verify_live_v8_host /\ verify_pairing_metadata_only
    /\ verify_reader_inputs /\ verify_retained_v1_user_prestop_attempt
    /\ verify_prebuilt_diagnostic_reader

----------------------------------------------------------------------------
(* The update                                                                *)

acquire_user_update_lock == usr.who = "none"

V2Begins ==
    /\ acquire_user_update_lock /\ verify_complete_preflight /\ require_fresh_namespaces
    /\ UserGoes([NoUser EXCEPT !.who = "v2", !.at = "layout", !.host = host.gen])
    /\ UNCHANGED <<world, disk, troubles>>

V2At(x) == usr.who = "v2" /\ usr.at = x
V2Only == UNCHANGED <<world, pin, tx, jnl, st>>

create_user_layout ==
    /\ V2At("layout") /\ V2Only /\ UNCHANGED <<stage, cut>>
    /\ tries' = [tries EXCEPT !.v2 = "begun"]
    /\ \/ UserGoes([usr EXCEPT !.at = "authenticate"]) /\ UNCHANGED troubles
       \/ UserLeaves /\ Spend

V2Authenticates ==
    /\ V2At("authenticate") /\ V2Only /\ UNCHANGED <<stage, cut>>
    /\ \/ /\ tries' = [tries EXCEPT !.v2 = "authenticated"]
          /\ UserGoes([usr EXCEPT !.at = "stage"]) /\ UNCHANGED troubles
       \/ (\E s \in {"begun", "authenticated"} : tries' = [tries EXCEPT !.v2 = s]) /\ UserLeaves /\ Spend

\* The locator is first, so that a crash in staging can be found; the recovery
\* controller is complete before the transaction controller can be started.
StageOrder == <<"locator", "parent", "support", "rec", "recPin", "tx", "txPin", "txId", "boot">>

Directories == {"parent", "support"}

Missing(order) == {i \in 1..Len(order) : order[i] \notin stage}
FirstMissing(order) == order[CHOOSE i \in Missing(order) : \A j \in Missing(order) : i <= j]

\* Files are streamed, proved and sealed one by one and never replaced.  The
\* proof of a directory reads its extended attributes as the user, who may not
\* be allowed to.
stage_root_owned_controller ==
    /\ V2At("stage") /\ V2Only /\ UNCHANGED tries /\ Missing(StageOrder) # {}
    /\ LET f == FirstMissing(StageOrder) IN
       \/ /\ stage' = stage \cup {f} /\ UNCHANGED <<cut, troubles>>
          /\ UserGoes([usr EXCEPT !.at = IF Missing(StageOrder) = {Len(StageOrder)} THEN "final" ELSE @])
       \/ f \in Directories /\ stage' = stage \cup {f} /\ UserLeaves /\ UNCHANGED <<cut, troubles>>
       \/ f \notin Directories /\ cut' = cut \cup {f} /\ UNCHANGED stage /\ UserLeaves /\ Spend
       \/ stage' \in {stage, stage \cup {f}} /\ UNCHANGED cut /\ UserLeaves /\ Spend

V2Keeps == V2Only /\ UNCHANGED <<tries, stage, cut>>

\* The preflight again, of the same host; then the transaction is started.
V2Dispatches ==
    /\ V2At("final") /\ V2Keeps
    /\ IF verify_complete_preflight /\ host.gen = usr.host
       THEN \/ UserStarts("forward", [usr EXCEPT !.at = "await"]) /\ UNCHANGED troubles
            \/ UserLeaves /\ Spend
       ELSE UserLeaves /\ UNCHANGED troubles

V2Rolls ==
    /\ acquire_user_update_lock /\ {"rec", "recPin"} \subseteq stage
    /\ UserStarts("recovery", [NoUser EXCEPT !.who = "rollback", !.at = "await"])
    /\ UNCHANGED <<world, disk, troubles>>

\* The marker is read, the world proved once more, the result told.  A root
\* process that does not answer in time goes on without the program.
run_sudo_helper ==
    /\ usr.who \in {"v2", "rollback"} /\ usr.at = "await" /\ V2Keeps /\ UserLeaves
    /\ \/ out.is # "none" /\ UNCHANGED troubles
       \/ out.is = "none" /\ Spend

V2Step == V2Begins \/ create_user_layout \/ V2Authenticates \/ stage_root_owned_controller \/ V2Dispatches
RollbackStep == V2Rolls \/ run_sudo_helper
=============================================================================
