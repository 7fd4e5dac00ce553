------------------------------ MODULE DriverV1 ------------------------------
(* The first diagnostic-driver update controller                             *)
(* (macOS/scripts/opensteamer-diagnostic-driver-v1-update-controller.rs), as *)
(* far as it can get.  Its proof of the first root-owned file compares the   *)
(* second word of shasum's output with a path that holds a space, so that    *)
(* proof never succeeds: every run ends with the bootstrap locator streamed  *)
(* and not sealed, and no root process is ever started.  v2 and the resume   *)
(* stager start from what such a run leaves.                                 *)
EXTENDS DriverWorld

----------------------------------------------------------------------------
(* The preflight                                                             *)

verify_git_provenance == "release" \in intact
verify_candidate == "candidate" \in intact
verify_installed_v7_driver == drv.canonical = "v7"
verify_v8_evidence_and_host_bytes == "host bytes" \in intact
require_legacy_disabled_and_absent == "legacy" \in intact
verify_pairing_metadata_only == "pairing" \in intact
verify_reader_inputs == "reader" \in intact
require_solo_v8_host == host.loaded /\ host.gen # 0
prove_lock_held_by(g) == host.gen = g
verify_live_v8_host ==
    /\ verify_v8_evidence_and_host_bytes /\ require_legacy_disabled_and_absent
    /\ require_solo_v8_host /\ prove_lock_held_by(host.gen)

require_fresh_namespaces == tries.v1 = "none" /\ tx.ptr = "absent" /\ ~tx.dir

verify_complete_preflight ==
    /\ verify_git_provenance /\ verify_candidate /\ verify_installed_v7_driver
    /\ verify_v8_evidence_and_host_bytes /\ verify_live_v8_host
    /\ verify_pairing_metadata_only /\ verify_reader_inputs

----------------------------------------------------------------------------
(* One run.  A refused preflight leaves nothing behind.                      *)

acquire_user_update_lock == usr.who = "none"

V1Begins ==
    /\ acquire_user_update_lock /\ verify_complete_preflight /\ require_fresh_namespaces
    /\ UserGoes([NoUser EXCEPT !.who = "v1", !.at = "layout", !.host = host.gen])
    /\ UNCHANGED <<world, disk, troubles>>

V1At(x) == usr.who = "v1" /\ usr.at = x
V1Only == UNCHANGED <<world, pin, tx, jnl, st>>

\* The evidence directory, the reader and the journal.
create_user_layout ==
    /\ V1At("layout") /\ V1Only /\ UNCHANGED <<stage, cut>>
    /\ tries' = [tries EXCEPT !.v1 = "begun"]
    /\ \/ UserGoes([usr EXCEPT !.at = "authenticate"]) /\ UNCHANGED troubles
       \/ UserLeaves /\ Spend

\* The request, the pointer and the journal's second record.
V1Authenticates ==
    /\ V1At("authenticate") /\ V1Only /\ UNCHANGED <<stage, cut>>
    /\ \/ /\ tries' = [tries EXCEPT !.v1 = "authenticated"]
          /\ UserGoes([usr EXCEPT !.at = "stage"]) /\ UNCHANGED troubles
       \/ (\E s \in {"begun", "authenticated"} : tries' = [tries EXCEPT !.v1 = s]) /\ UserLeaves /\ Spend

sudo_root_sha256 == FALSE

\* The locator is streamed and cannot be proved, so it stays unsealed.
sudo_stream_root_file ==
    /\ V1At("stage") /\ V1Only /\ UNCHANGED tries /\ ~sudo_root_sha256 /\ UserLeaves
    /\ \/ stage' = stage \cup {"locator0"} /\ UNCHANGED <<cut, troubles>>
       \/ cut' \in {cut, cut \cup {"locator0"}} /\ UNCHANGED stage /\ Spend

V1Step == V1Begins \/ create_user_layout \/ V1Authenticates \/ sudo_stream_root_file
=============================================================================
