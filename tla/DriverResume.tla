---------------------------- MODULE DriverResume ----------------------------
(* The resume stager                                                         *)
(* (macOS/scripts/opensteamer-diagnostic-driver-v2-resume-stager.rs): it     *)
(* completes the root-owned files of one known v2 attempt that failed in     *)
(* staging, and starts that attempt's transaction once.  Once its dispatch   *)
(* intent is published, or once root state of any kind exists, it only ever  *)
(* starts the sealed recovery.                                               *)
EXTENDS DriverWorld

----------------------------------------------------------------------------
(* The proofs                                                                *)

verify_git_provenance == "release" \in intact
verify_original_source == "release" \in intact
require_sealed_uid501_stager_identity == "release" \in intact
verify_driver_bundle(which) == drv.canonical = which
verify_installed_v7_driver == verify_driver_bundle("v7")
verify_installed_candidate_driver == verify_driver_bundle("candidate")
verify_installed_driver_absent == drv.canonical = "none"
verify_installed_v8_runtime_bytes == "host bytes" \in intact
require_legacy_disabled_and_absent == "legacy" \in intact
verify_pairing_metadata_only == "pairing" \in intact

capture_server_processes == {host.gen} \ {0}
require_solo_v8_host == host.loaded /\ host.gen # 0
prove_lock_sole_host_opener(g) == host.gen = g
verify_live_v8_host ==
    /\ verify_installed_v8_runtime_bytes /\ require_legacy_disabled_and_absent
    /\ require_solo_v8_host /\ prove_lock_sole_host_opener(host.gen)

stable_coreaudio_generation == audio.gen
stable_route_snapshot == routes

prove_retained_graphs == "retained" \in intact /\ tries = [v1 |-> "authenticated", v2 |-> "retained"]
verify_retained_v1_root_attestation == "locator0" \in stage

\* What is pinned of the retained attempt: the machine as it was left.
PinRetainedAttempt ==
    /\ usr.who = "none" /\ waiting = {} /\ tries.v2 = "authenticated"
    /\ stage = {"locator0", "locator", "parent"} /\ cut = {} /\ verify_live_v8_host
    /\ tries' = [tries EXCEPT !.v2 = "retained"] /\ pin' = [host |-> host.gen, audio |-> audio.gen]
    /\ UNCHANGED <<world, stage, cut, tx, jnl, st, procs, troubles>>

fresh_host_generation_is_exact(g) == g = pin.host
require_exact_fresh_coreaudio == stable_coreaudio_generation = pin.audio
require_exact_fresh_routes == stable_route_snapshot = "base"

----------------------------------------------------------------------------
(* The stage: an exact prefix, at most the next file of it incomplete         *)

StageOrder == <<"support", "tx", "txPin", "txId", "boot", "rec", "recPin">>
Staged == {StageOrder[i] : i \in 1..Len(StageOrder)}
Prefix(n) == {StageOrder[i] : i \in {k \in 1..Len(StageOrder) : k <= n}}

Complete == Staged \subseteq stage

classify_resume_stage_prefix ==
    \E n \in 0..Len(StageOrder) :
      /\ stage \cap Staged = Prefix(n)
      /\ cut \cap Staged \subseteq Prefix(n + 1) \ (Prefix(n) \cup {"support"})
      /\ "abort" \in stage => n = Len(StageOrder)

verify_bootstrap_abort_result == "abort" \notin cut

verify_privileged_partial_root_stage ==
    /\ verify_retained_v1_root_attestation /\ {"locator", "parent"} \subseteq stage
    /\ classify_resume_stage_prefix /\ verify_bootstrap_abort_result

verify_resume_stage_complete == verify_privileged_partial_root_stage /\ Complete /\ cut \cap Staged = {}

----------------------------------------------------------------------------
(* Fresh dispatch or recovery only                                           *)

root_v2_state_appeared == tx.dir \/ tx.ptr # "absent" \/ tx.lock

classify_dispatch_or_recovery_state ==
    IF "intent" \in stage \cup cut \/ root_v2_state_appeared THEN "RecoveryOnly" ELSE "FreshDispatch"

Fresh == classify_dispatch_or_recovery_state = "FreshDispatch"

verify_installed_driver_for_disposition ==
    verify_installed_v7_driver
    \/ (~Fresh /\ (verify_installed_candidate_driver \/ verify_installed_driver_absent))

verify_host_for_disposition ==
    IF Fresh THEN verify_live_v8_host /\ fresh_host_generation_is_exact(host.gen)
    ELSE IF capture_server_processes # {} THEN verify_live_v8_host
    ELSE verify_installed_v8_runtime_bytes /\ require_legacy_disabled_and_absent

verify_resume_preflight ==
    /\ require_sealed_uid501_stager_identity /\ verify_git_provenance /\ verify_original_source
    /\ prove_retained_graphs /\ verify_privileged_partial_root_stage
    /\ verify_installed_driver_for_disposition /\ verify_host_for_disposition
    /\ Fresh => require_exact_fresh_coreaudio /\ require_exact_fresh_routes
    /\ verify_pairing_metadata_only /\ require_legacy_disabled_and_absent

\* A host without a process is told apart by its launchd job.
HostPreflightState == IF host.gen # 0 THEN host.gen ELSE IF host.loaded THEN -1 ELSE 0

ResumePreflightSnapshot ==
    [host |-> HostPreflightState, driver |-> drv.canonical,
     audio |-> IF Fresh THEN audio.gen ELSE 0, routes |-> IF Fresh THEN routes ELSE "none"]

----------------------------------------------------------------------------
(* One run                                                                   *)

acquire_retained_attempt_guards == usr.who = "none"

ResumeBegins ==
    /\ acquire_retained_attempt_guards /\ verify_resume_preflight
    /\ LET s == ResumePreflightSnapshot IN
       UserGoes([who |-> "resume", at |-> "stage", host |-> s.host, audio |-> s.audio,
                 routes |-> s.routes, driver |-> s.driver, fresh |-> Fresh, sub |-> "none"])
    /\ UNCHANGED <<world, disk, troubles>>

ResumeAt(x) == usr.who = "resume" /\ usr.at = x
ResumeOnly == UNCHANGED <<world, tries, pin, tx, jnl, st>>
ResumeKeeps == ResumeOnly /\ UNCHANGED <<stage, cut>>
Proceed(x) == UserGoes([usr EXCEPT !.at = x]) /\ UNCHANGED troubles
Quit == UserLeaves /\ UNCHANGED troubles

\* A pending file is completed, sealed and renamed to its final name.
sudo_stream_root_file_create_once(f) ==
    \/ stage' = stage \cup {f} /\ cut' = cut \ {f} /\ UserGoes(usr) /\ UNCHANGED troubles
    \/ stage' = stage \cup {f} /\ cut' = cut \ {f} /\ UserLeaves /\ Spend
    \/ cut' \in {cut, IF f = "support" THEN cut ELSE cut \cup {f}} /\ UNCHANGED stage /\ UserLeaves /\ Spend

stage_original_v2_root_controller ==
    /\ ResumeAt("stage") /\ ResumeOnly
    /\ CASE ~verify_privileged_partial_root_stage -> Quit /\ UNCHANGED <<stage, cut>>
         [] verify_privileged_partial_root_stage /\ Complete -> Proceed("compare") /\ UNCHANGED <<stage, cut>>
         [] OTHER -> \E n \in 1..Len(StageOrder) :
                       /\ StageOrder[n] \notin stage /\ Prefix(n - 1) \subseteq stage
                       /\ sudo_stream_root_file_create_once(StageOrder[n])

compare_preflight_guards ==
    LET s == ResumePreflightSnapshot
    IN  <<usr.host, usr.driver, usr.audio, usr.routes>> = <<s.host, s.driver, s.audio, s.routes>>

ResumeCompares ==
    /\ ResumeAt("compare") /\ ResumeKeeps
    /\ IF verify_resume_preflight /\ compare_preflight_guards
       THEN UserGoes([usr EXCEPT !.at = "intent", !.fresh = @ /\ Fresh]) /\ UNCHANGED troubles
       ELSE Quit

publish_resume_dispatch_intent ==
    /\ ResumeAt("intent") /\ ResumeOnly
    /\ \/ ~verify_resume_stage_complete /\ Quit /\ UNCHANGED <<stage, cut>>
       \/ verify_resume_stage_complete /\ "intent" \in stage /\ Proceed("dispatch") /\ UNCHANGED <<stage, cut>>
       \/ /\ verify_resume_stage_complete /\ "intent" \notin stage
          /\ \/ stage' = stage \cup {"intent"} /\ cut' = cut \ {"intent"} /\ Proceed("dispatch")
             \/ stage' = stage \cup {"intent"} /\ cut' = cut \ {"intent"} /\ UserLeaves /\ Spend
             \/ cut' \in {cut, cut \cup {"intent"}} /\ UNCHANGED stage /\ UserLeaves /\ Spend

durable_intent_allows_forward_dispatch == usr.fresh /\ ~root_v2_state_appeared

\* Mutant: the forward transaction is started whenever the preflight was fresh.
dispatch_or_recover_after_durable_intent_Always ==
    /\ ResumeAt("dispatch") /\ ResumeKeeps
    /\ UserStarts("forward", [usr EXCEPT !.at = "forward"]) /\ UNCHANGED troubles

dispatch_or_recover_after_durable_intent ==
    /\ ResumeAt("dispatch") /\ ResumeKeeps
    /\ \/ /\ durable_intent_allows_forward_dispatch
          /\ UserStarts("forward", [usr EXCEPT !.at = "forward"]) /\ UNCHANGED troubles
       \/ ~durable_intent_allows_forward_dispatch /\ Proceed("recover")
       \/ durable_intent_allows_forward_dispatch /\ UserGoes([usr EXCEPT !.at = "recover"]) /\ Spend

----------------------------------------------------------------------------
(* What the root process answered, against the world                         *)

parse_root_success_marker == out.is = "ok" /\ out.calm /\ (out.what # "pointerless" => out.first)

root_completion_matches_live_host ==
    out.host = host.gen /\ (out.what = "pointerless" => fresh_host_generation_is_exact(host.gen))

Settled == IF out.what = "pointerless" THEN "prestop-aborted" ELSE out.what

host_transition_allowed ==
    \/ usr.host <= 0
    \/ Settled = "prestop-aborted" /\ host.gen = usr.host
    \/ Settled # "prestop-aborted" /\ host.gen # usr.host /\ host.first
    \/ Settled # "prestop-aborted" /\ ~usr.fresh /\ host.gen = usr.host

retained_terminal_coreaudio_is_exact ==
    CASE Settled = "committed" -> audio.gen = pin.audio + 1
      [] Settled = "rolled-back" -> audio.gen - pin.audio \in 1..2
      [] OTHER -> audio.gen = pin.audio

verify_post_dispatch_live ==
    /\ verify_driver_bundle(IF Settled = "committed" THEN "candidate" ELSE "v7")
    /\ verify_live_v8_host /\ root_completion_matches_live_host /\ host_transition_allowed
    /\ retained_terminal_coreaudio_is_exact /\ require_exact_fresh_routes
    /\ verify_pairing_metadata_only /\ require_legacy_disabled_and_absent

Accepted == parse_root_success_marker /\ verify_post_dispatch_live

\* A forward transaction that fails, does not answer in time, or answers what
\* the world does not show, is recovered from.
dispatch_original_v2_controller_once ==
    /\ ResumeAt("forward") /\ ResumeKeeps
    /\ \/ out.is # "none" /\ Accepted
          /\ UserGoes([usr EXCEPT !.at = "report", !.sub = Settled]) /\ UNCHANGED troubles
       \/ out.is # "none" /\ ~Accepted /\ Proceed("recover")
       \/ out.is = "none" /\ UserGoes([usr EXCEPT !.at = "recover"]) /\ Spend

verify_resume_dispatch_intent == "intent" \in stage /\ "intent" \notin cut

ResumeRecovers ==
    /\ ResumeAt("recover") /\ ResumeKeeps
    /\ IF verify_resume_dispatch_intent /\ {"rec", "recPin"} \subseteq stage
       THEN UserStarts("recovery", [usr EXCEPT !.at = "recovery"]) /\ UNCHANGED troubles
       ELSE Quit

\* A busy lock is tried again until the deadline.
recover_from_resume_dispatch_intent ==
    /\ ResumeAt("recovery") /\ ResumeKeeps
    /\ \/ out.is = "busy" /\ Proceed("recover")
       \/ out.is = "busy" /\ UserLeaves /\ Spend
       \/ out.is \in {"ok", "failed"} /\ Accepted
          /\ UserGoes([usr EXCEPT !.at = "report", !.sub = Settled]) /\ UNCHANGED troubles
       \/ out.is \in {"ok", "failed"} /\ ~Accepted /\ Quit
       \/ out.is = "none" /\ UserLeaves /\ Spend

\* The outcome is told, or the evidence has changed meanwhile; nothing follows.
verify_post_completion_anchors == ResumeAt("report") /\ ResumeKeeps /\ Quit

ResumeStep ==
    \/ ResumeBegins \/ stage_original_v2_root_controller \/ ResumeCompares
    \/ publish_resume_dispatch_intent \/ dispatch_or_recover_after_durable_intent
    \/ dispatch_original_v2_controller_once \/ ResumeRecovers
    \/ recover_from_resume_dispatch_intent \/ verify_post_completion_anchors
=============================================================================
