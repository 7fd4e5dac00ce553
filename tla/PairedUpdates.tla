---------------------------- MODULE PairedUpdates ----------------------------
(* The host update controllers v1 ... v6 and v8 at work on one machine: a    *)
(* controller interprets its version's plan command by command while launchd *)
(* starts the host, the host exits, and the controller may die anywhere.     *)
(*                                                                           *)
(* A plan is a sequence of commands. The name of a journal state is the      *)
(* append of that record; Gates are checks whose failure aborts the plan;    *)
(* Waits are checks polled until a deadline; every other command changes the *)
(* evidence directory, the installed app, the LaunchAgent, the host lock or  *)
(* the staged host. All controllers take the same transaction lock, so at    *)
(* most one of them runs.                                                    *)
EXTENDS PairedBase

V1 == INSTANCE PairedV1

V2 == INSTANCE PairedV2

V3 == INSTANCE PairedV3

V4 == INSTANCE PairedV4

V5 == INSTANCE PairedV5

V6 == INSTANCE PairedV6

V8 == INSTANCE PairedV8

\* The v7 controller, which also delivers a driver, is in PairedV7Update.
ASSUME ControllersAssumption == 7 \notin Versions

----------------------------------------------------------------------------
(* What differs from version to version                                     *)

Perform(v) ==
    CASE v = 1 -> V1!perform_update
      [] v = 2 -> V2!perform_paired_v2_update
      [] v = 3 -> V3!perform_paired_v3_update
      [] v = 4 -> V4!perform_paired_v4_update
      [] v = 5 -> V5!perform_paired_v5_update
      [] v = 6 -> V6!perform_paired_v6_update
      [] v = 8 -> V8!perform_paired_v8_update

Restore(v) ==
    CASE v = 1 -> V1!rollback_to_v20
      [] v = 2 -> V2!rollback_to_current_baseline
      [] v = 3 -> V3!rollback_to_current_baseline
      [] v = 4 -> V4!rollback_to_current_baseline
      [] v = 5 -> V5!rollback_to_current_baseline
      [] v = 6 -> V6!rollback_to_current_baseline
      [] v = 8 -> V8!rollback_to_current_baseline

Retire(v) ==
    CASE v = 1 -> V1!already_rolled_back
      [] v = 2 -> V2!already_rolled_back
      [] v = 3 -> V3!already_rolled_back
      [] v = 4 -> V4!already_rolled_back
      [] v = 5 -> V5!already_rolled_back
      [] v = 6 -> V6!already_rolled_back
      [] v = 8 -> V8!already_rolled_back

Holds(v, g) ==
    CASE v = 1 -> V1!Holds(g)
      [] v = 2 -> V2!Holds(g)
      [] v = 3 -> V3!Holds(g)
      [] v = 4 -> V4!Holds(g)
      [] v = 5 -> V5!Holds(g)
      [] v = 6 -> V6!Holds(g)
      [] v = 8 -> V8!Holds(g)

After(v, c, r) ==
    CASE v = 1 -> V1!After(c, r)
      [] v = 2 -> V2!After(c, r)
      [] v = 3 -> V3!After(c, r)
      [] v = 4 -> V4!After(c, r)
      [] v = 5 -> V5!After(c, r)
      [] v = 6 -> V6!After(c, r)
      [] v = 8 -> V8!After(c, r)

Appended(v, r, s) ==
    CASE v = 1 -> V1!Appended(r, s)
      [] v = 2 -> V2!Appended(r, s)
      [] v = 3 -> V3!Appended(r, s)
      [] v = 4 -> V4!Appended(r, s)
      [] v = 5 -> V5!Appended(r, s)
      [] v = 6 -> V6!Appended(r, s)
      [] v = 8 -> V8!Appended(r, s)

Reread(v, r) ==
    CASE v = 1 -> V1!Reread(r)
      [] v = 2 -> V2!Reread(r)
      [] v = 3 -> V3!Reread(r)
      [] v = 4 -> V4!Reread(r)
      [] v = 5 -> V5!Reread(r)
      [] v = 6 -> V6!Reread(r)
      [] v = 8 -> V8!Reread(r)

Legal(v, p, n) ==
    CASE v = 1 -> V1!validate_transition(p, n)
      [] v = 2 -> V2!validate_v2_transition(p, n)
      [] v = 3 -> V3!validate_v3_transition(p, n)
      [] v = 4 -> V4!validate_v4_transition(p, n)
      [] v = 5 -> V5!validate_v5_transition(p, n)
      [] v = 6 -> V6!validate_v6_transition(p, n)
      [] v = 8 -> V8!validate_v8_transition(p, n)

Due(v, s) ==
    CASE v = 1 -> V1!due(s)
      [] v = 2 -> V2!due(s)
      [] v = 3 -> V3!due(s)
      [] v = 4 -> V4!due(s)
      [] v = 5 -> V5!due(s)
      [] v = 6 -> V6!due(s)
      [] v = 8 -> V8!due(s)

Crossed(v, s, e) ==
    CASE v = 1 -> V1!crossed_stop(s, e)
      [] v = 2 -> V2!crossed_stop(s, e)
      [] v = 3 -> V3!crossed_stop(s, e)
      [] v = 4 -> V4!crossed_stop(s, e)
      [] v = 5 -> V5!crossed_stop(s, e)
      [] v = 6 -> V6!crossed_stop(s, e)
      [] v = 8 -> V8!crossed_stop(s, e)

----------------------------------------------------------------------------
(* The running controller                                                   *)

Plan == CASE ctl.run = "forward" -> Perform(ctl.v)
          [] ctl.run = "rollback" -> Restore(ctl.v) \o <<"resultRolledBack", "retirePointer">>
          [] ctl.run = "retire" -> Retire(ctl.v)

Running == ctl.run # "none"
Cmd == Plan[ctl.at]

Gates == {"pointer", "healthy", "headroom", "launchAgent", "baseline", "pairing",
          "provenance", "referenceIntact", "sameGeneration", "runtime",
          "currentApp", "currentHeld", "installed", "topology", "resumable"}

Waits == {"drained", "deployment", "baselineDeployment", "invitation", "pairingCommit"}

Staging == {"export", "build", "reference"}

Directory == {"reserve", "publishPointer", "removeHoldRoot", "releaseReserve",
              "resultRolledBack", "ensureResult", "retirePointer"}

Spend == faults < MaxFaults /\ faults' = faults + 1

Onward(c) == IF c.at = Len(Plan) THEN Idle ELSE [c EXCEPT !.at = @ + 1]

Advance(e) == ev' = e /\ ctl' = Onward(ctl) /\ UNCHANGED faults

\* The error path of execute_update and execute_paired_vN_update: dropping the
\* guards ends the staged host and releases the lock; past the stop the host
\* is rolled back, a rollback that fails too is journaled as critical.  The pointer
\* is checked before that rollback and in it: before it, a failure leaves nothing.
Fails(e, healthy) ==
    LET v == ctl.v
        critical == healthy /\ Legal(v, ctl.state, "CRITICAL_FAILURE")
    IN /\ child' = IF ctl.run = "forward" THEN "none" ELSE child
       /\ CASE ctl.run = "forward" /\ ctl.state = "COMMITTED" ->
                 ctl' = Idle /\ ev' = write_result(e, v, "warning")
            [] ctl.run = "forward" /\ Crossed(v, ctl.state, e) ->
                 /\ ctl' = [ctl EXCEPT !.run = "rollback", !.why = "failure", !.at = 1,
                                       !.locked = FALSE, !.healthy = healthy]
                 /\ ev' = e
            [] ctl.run = "forward" /\ ctl.state # "COMMITTED" /\ ~Crossed(v, ctl.state, e) ->
                 /\ ctl' = Idle
                 /\ ev' = write_result(release_rollback_reserve(e, v), v, "failed")
            [] ctl.why = "failure" /\ Cmd \notin {"resultRolledBack", "retirePointer"} ->
                 /\ ctl' = Idle
                 /\ \/ ev' = write_result(
                         IF critical THEN [e EXCEPT ![v] = Appended(v, @, "CRITICAL_FAILURE")]
                                     ELSE e,
                         v, "critical")
                    \/ Cmd = "pointer" /\ ev' = e
            [] OTHER -> ctl' = Idle /\ ev' = e

Fail(e) == Fails(e, ctl.healthy)

\* A command that changes the evidence directory to e may also fail, before
\* or after the change.
Acted(e) == \/ Advance(e) /\ UNCHANGED child
            \/ Spend /\ \E f \in {ev, e} : Fail(f)

\* update: the preconditions, then the private evidence directory and journal.
Begin(v) ==
    /\ ~Running /\ Holds(v, "begin")
    /\ ctl' = [Idle EXCEPT !.v = v, !.run = "forward", !.at = 1]
    /\ ev' = [ev EXCEPT ![v] = FreshEvidence]
    /\ seen' = TRUE
    /\ UNCHANGED <<app, job, proc, marked, child, pairing, repo, crashes, faults>>

Committed == {u \in All : ev[u].ptr = "active" /\ ev[u].state = "COMMITTED"}

\* Which rollbacks the operator asks for.
Wanted(v) == \/ v \notin Committed
             \/ Requests = "latest" /\ \A u \in All : ev[u].ptr = "active" => u <= v
             \/ Requests = "any"

\* rollback: opening the journal cuts an incomplete last record off.
Request(v) ==
    /\ ~Running /\ Wanted(v) /\ Holds(v, "request")
    /\ ev' = [ev EXCEPT ![v] = After(v, "open", @)]
    /\ ctl' = [Idle EXCEPT !.v = v, !.why = "explicit", !.at = 1, !.state = Reread(v, ev[v]),
                           !.run = IF ev[v].state = "ROLLED_BACK" THEN "retire" ELSE "rollback"]
    /\ seen' = FALSE
    /\ UNCHANGED <<app, job, proc, marked, child, pairing, repo, crashes, faults>>

----------------------------------------------------------------------------
(* Commands                                                                 *)

Recording == Running /\ Cmd \in States
SkipsRecord == ctl.run = "rollback" /\ ~Due(ctl.v, Cmd)

CanAppend == ctl.healthy /\ Legal(ctl.v, ctl.state, Cmd)

\* record: the append reaches the disk, or the state is already journaled.
Record ==
    /\ Recording
    /\ IF SkipsRecord THEN Advance(ev)
       ELSE /\ CanAppend
            /\ ev' = [ev EXCEPT ![ctl.v] = Appended(ctl.v, @, Cmd)]
            /\ ctl' = Onward([ctl EXCEPT !.state = Cmd])
            /\ UNCHANGED faults
    /\ UNCHANGED <<app, job, proc, seen, marked, child, pairing, repo, crashes>>

\* record fails. restore_after_failed_append puts the file back ("restored") or
\* fails too, which poisons the journal and leaves the file as it was, with an
\* incomplete record, or with the whole one.
AppendFails ==
    /\ Recording /\ ~SkipsRecord
    /\ \E w \in (IF CanAppend THEN AppendFaults ELSE {"refused"}) :
         /\ IF w = "refused" THEN UNCHANGED faults ELSE Spend
         /\ LET e == CASE w = "torn" -> [ev EXCEPT ![ctl.v].tail = Cmd]
                       [] w = "kept" -> [ev EXCEPT ![ctl.v] = Appended(ctl.v, @, Cmd)]
                       [] OTHER -> ev
            IN Fails(e, ctl.healthy /\ w \in {"refused", "restored"})
    /\ UNCHANGED <<app, job, proc, seen, marked, pairing, repo, crashes>>

GateHolds(g) ==
    CASE g = "pointer" -> verify_update_pointer_at(ctl.v)
      [] g = "healthy" -> ctl.healthy
      [] g \in {"headroom", "launchAgent"} -> TRUE
      [] OTHER -> Holds(ctl.v, g)

\* A check passes, fails, or cannot be made.
Check ==
    /\ Running /\ Cmd \in Gates
    /\ \/ GateHolds(Cmd) /\ Advance(ev) /\ UNCHANGED child
       \/ IF GateHolds(Cmd) THEN Spend /\ Fail(ev) ELSE UNCHANGED faults /\ Fail(ev)
    /\ UNCHANGED <<app, job, proc, seen, marked, pairing, repo, crashes>>

WaitHolds(g) == IF g = "drained" THEN require_no_capture_servers ELSE Holds(ctl.v, g)

\* Polling ends at once when the awaited process is gone.
Hopeless(g) == CASE g \in {"deployment", "baselineDeployment"} -> ~seen
                 [] g \in {"invitation", "pairingCommit"} -> child = "none"
                 [] OTHER -> FALSE

Wait ==
    /\ Running /\ Cmd \in Waits
    /\ \/ WaitHolds(Cmd) /\ Advance(ev) /\ UNCHANGED child
       \/ IF Hopeless(Cmd) THEN UNCHANGED faults /\ Fail(ev) ELSE Spend /\ Fail(ev)
    /\ UNCHANGED <<app, job, proc, seen, marked, pairing, repo, crashes>>

\* wait_for_launch_generation: the running host becomes the observed one.
Observe ==
    /\ Running /\ Cmd = "observe"
    /\ \/ job /\ proc = app /\ proc # Nothing /\ seen' = TRUE /\ Advance(ev) /\ UNCHANGED child
       \/ Spend /\ Fail(ev) /\ UNCHANGED seen
    /\ UNCHANGED <<app, job, proc, marked, pairing, repo, crashes>>

Directed(c) ==
    LET v == ctl.v IN
    CASE c = "reserve" -> allocate_rollback_reserve(ev, v)
      [] c = "publishPointer" -> [ev EXCEPT ![v].ptr = "active"]
      [] c = "removeHoldRoot" -> [ev EXCEPT ![v].hold = "absent"]
      [] c = "releaseReserve" -> release_rollback_reserve(ev, v)
      [] c = "resultRolledBack" -> write_result(ev, v, "rolledBack")
      [] c = "ensureResult" -> ensure_rolled_back_result(ev, v)
      [] c = "retirePointer" -> retire_update_pointer_at(ev, v)

WriteEvidence ==
    /\ Running
    /\ \/ Cmd \in Directory /\ Acted(Directed(Cmd))
       \/ Cmd \in Staging /\ Acted([ev EXCEPT ![ctl.v] = After(ctl.v, Cmd, @)])
       \/ Cmd = "resultSuccess" /\ Acted(write_result(ev, ctl.v, "success"))
    /\ UNCHANGED <<app, job, proc, seen, marked, pairing, repo, crashes>>

\* What ditto may leave of the hold when it is interrupted.
InHold(h) == [ev EXCEPT ![ctl.v].hold = h]

PrepareHold ==
    /\ Running /\ Cmd = "prepareHold"
    /\ \/ Advance([ev EXCEPT ![ctl.v] = After(ctl.v, "prepareHold", @)]) /\ UNCHANGED child
       \/ Spend /\ \E h \in {"absent", "empty", "partial", "exact"} : Fail(InHold(h))
    /\ UNCHANGED <<app, job, proc, seen, marked, pairing, repo, crashes>>

ArchiveHold ==
    /\ Running /\ Cmd = "archiveHold"
    /\ IF Holds(ctl.v, "archiveHold")
       THEN Acted([ev EXCEPT ![ctl.v] = After(ctl.v, "archiveHold", @)])
       ELSE UNCHANGED faults /\ Fail(ev)
    /\ UNCHANGED <<app, job, proc, seen, marked, pairing, repo, crashes>>

\* rename_exclusive moves an app and syncs both parents; it may fail after the
\* move. A move that is not needed is skipped.
Move(needed, a, e) ==
    IF needed
    THEN \/ app' = a /\ Advance(e) /\ UNCHANGED child
         \/ Spend /\ \/ app' = a /\ Fail(e)
                     \/ app' = app /\ Fail(ev)
    ELSE UNCHANGED <<app, child>> /\ Advance(ev)

MoveApp ==
    /\ Running
    /\ LET v == ctl.v IN
       \/ /\ Cmd = "holdCurrent"
          /\ Move(TRUE, Nothing, [ev EXCEPT ![v].kept = app])
       \/ /\ Cmd = "publishNew"
          /\ Move(TRUE, v, [ev EXCEPT ![v].hold = "empty"])
       \/ /\ Cmd = "archiveNew"
          /\ Move(ev[v].kept # Nothing /\ app # Nothing /\ (v = 1 => ctl.state = "ROLLBACK_STARTED"),
                  Nothing, [ev EXCEPT ![v].failed = app])
       \/ /\ Cmd = "restoreCurrent"
          /\ Move(ev[v].kept # Nothing, ev[v].kept, [ev EXCEPT ![v].kept = Nothing])
    /\ UNCHANGED <<job, proc, seen, marked, pairing, repo, crashes>>

\* launchctl may report a failure after it took effect.
Launchctl ==
    /\ Running
    /\ LET Loads(b) == \/ job' = b /\ Advance(ev) /\ UNCHANGED child
                       \/ Spend /\ job' \in {job, b} /\ Fail(ev)
       IN \/ Cmd = "bootout" /\ Loads(FALSE)
          \/ Cmd = "bootstrap" /\ Loads(TRUE)
          \/ /\ Cmd = "bootoutIfLoaded"
             /\ IF Holds(ctl.v, "bootoutIfLoaded") THEN Loads(FALSE)
                ELSE UNCHANGED <<job, faults>> /\ Fail(ev)
    /\ UNCHANGED <<app, proc, seen, marked, pairing, repo, crashes>>

\* The host's own process lock keeps launchd's copy from running meanwhile.
HostLock ==
    /\ Running
    /\ \/ /\ Cmd = "takeLock"
          /\ \/ /\ acquire_unowned_shared_lock
                /\ ctl' = Onward([ctl EXCEPT !.locked = TRUE])
                /\ UNCHANGED <<ev, child, faults>>
             \/ Spend /\ Fail(ev)
       \/ /\ Cmd = "dropLock"
          /\ ctl' = Onward([ctl EXCEPT !.locked = FALSE]) /\ UNCHANGED <<ev, child, faults>>
    /\ UNCHANGED <<app, job, proc, seen, marked, pairing, repo, crashes>>

\* v1 runs the staged host in the foreground for the first pairing.
StagedHost ==
    /\ Running
    /\ \/ /\ Cmd = "spawnChild"
          /\ \/ Advance(ev) /\ child' = "running"
             \/ Spend /\ Fail(ev)
       \/ /\ Cmd = "terminateChild"
          /\ \/ Advance(ev) /\ child' = "none"
             \/ Spend /\ Fail(ev)
       \/ /\ Cmd = "terminateStaged"
          /\ \/ Holds(ctl.v, "terminateStaged") /\ Advance(ev) /\ child' = "none"
             \/ Holds(ctl.v, "terminateStaged") /\ Spend /\ Fail(ev)
    /\ UNCHANGED <<app, job, proc, seen, marked, pairing, repo, crashes>>

----------------------------------------------------------------------------
(* launchd, the host, the repository, crashes                               *)

HostStarts ==
    /\ job /\ proc = Nothing /\ app # Nothing /\ child = "none" /\ ~ctl.locked
    /\ proc' = app /\ seen' = FALSE /\ marked' = FALSE
    /\ UNCHANGED <<app, job, child, pairing, repo, ev, ctl, crashes, faults>>

HostLogsMarker ==
    /\ proc # Nothing /\ ~marked /\ marked' = TRUE
    /\ UNCHANGED <<app, job, proc, seen, child, pairing, repo, ev, ctl, crashes, faults>>

HostExits ==
    /\ proc # Nothing
    /\ IF job THEN Spend ELSE UNCHANGED faults
    /\ proc' = Nothing /\ seen' = FALSE /\ marked' = FALSE
    /\ UNCHANGED <<app, job, child, pairing, repo, ev, ctl, crashes>>

ViewerPairs ==
    /\ child = "running" /\ child' = "paired" /\ pairing' = TRUE
    /\ UNCHANGED <<app, job, proc, seen, marked, repo, ev, ctl, crashes, faults>>

StagedHostExits ==
    /\ child # "none" /\ child' = "none" /\ Spend
    /\ UNCHANGED <<app, job, proc, seen, marked, pairing, repo, ev, ctl, crashes>>

RepositoryMoves ==
    /\ repo = "authorized" /\ repo' = "moved" /\ Spend
    /\ UNCHANGED <<app, job, proc, seen, marked, child, pairing, ev, ctl, crashes>>

\* What the evidence directory may hold when the controller dies.
Interrupted ==
    {ev} \cup
    (IF Cmd \in States /\ ~SkipsRecord /\ CanAppend THEN {[ev EXCEPT ![ctl.v].tail = Cmd]} ELSE {}) \cup
    (IF Cmd = "prepareHold" THEN {InHold(h) : h \in {"empty", "partial", "exact"}} ELSE {})

ControllerDies ==
    /\ Running /\ crashes < MaxCrashes /\ crashes' = crashes + 1
    /\ ctl' = Idle /\ ev' \in Interrupted
    /\ UNCHANGED <<app, job, proc, seen, marked, child, pairing, repo, faults>>

\* A restart of the Mac: the LaunchAgent is loaded again at login.
Reboot ==
    /\ crashes < MaxCrashes /\ crashes' = crashes + 1
    /\ ctl' = Idle /\ ev' \in (IF Running THEN Interrupted ELSE {ev})
    /\ job' = TRUE /\ proc' = Nothing /\ child' = "none" /\ seen' = FALSE /\ marked' = FALSE
    /\ UNCHANGED <<app, pairing, repo, faults>>

----------------------------------------------------------------------------

Base == (CHOOSE v \in Versions : \A u \in Versions : v <= u) - 1

Init ==
    /\ app = Base /\ job = TRUE /\ proc = Base /\ seen = FALSE /\ marked = TRUE
    /\ child = "none" /\ pairing = (Base > 0) /\ repo = "authorized"
    /\ ev = [u \in All |-> IF u <= Base THEN CommittedEvidence(u) ELSE NoEvidence]
    /\ ctl = Idle /\ crashes = 0 /\ faults = 0

Command == \/ Record \/ AppendFails \/ Check \/ Wait \/ Observe \/ WriteEvidence
           \/ PrepareHold \/ ArchiveHold \/ MoveApp \/ Launchctl \/ HostLock \/ StagedHost

Environment == \/ HostStarts \/ HostLogsMarker \/ HostExits \/ ViewerPairs
               \/ StagedHostExits \/ RepositoryMoves \/ ControllerDies \/ Reboot

Next == \/ \E v \in Versions : Begin(v) \/ Request(v)
        \/ Command
        \/ Environment

Spec == Init /\ [][Next]_vars

\* The controller runs, launchd keeps the job alive, a booted-out host exits,
\* and an operator repeats the rollback of an interrupted update.
FairSpec == /\ Spec /\ WF_vars(Command) /\ WF_vars(HostStarts) /\ WF_vars(HostLogsMarker)
            /\ WF_vars(~job /\ HostExits) /\ WF_vars(ViewerPairs)
            /\ \A v \in Versions : WF_vars(Request(v))

----------------------------------------------------------------------------
(* Properties                                                               *)

\* Types of the state.
TypeOK ==
    /\ app \in -1..8 /\ proc \in -1..8
    /\ {job, seen, marked, pairing} \subseteq BOOLEAN
    /\ child \in {"none", "running", "paired"} /\ repo \in {"authorized", "moved"}
    /\ ev \in [All -> [state : States, tail : States \cup {"clean"},
                       ptr : {"none", "active", "retired"}, root : BOOLEAN,
                       stage : {"none", "exported", "built", "reference"},
                       hold : {"absent", "empty", "partial", "exact"},
                       kept : -1..8, failed : -1..8, quarantine : BOOLEAN,
                       reserve : {"none", "full", "released"},
                       result : {"none", "success", "warning", "failed",
                                 "rolledBack", "critical"}]]
    /\ ctl.v \in 0..8 /\ ctl.state \in States /\ ctl.locked \in BOOLEAN
    /\ (Running => ctl.at \in 1..Len(Plan))
    /\ crashes \in 0..MaxCrashes /\ faults \in 0..MaxFaults

\* The version whose transaction is open: its pointer is published and its
\* journal is neither committed nor, its host restored, rolled back.
Open == {u \in All : ev[u].ptr = "active" /\ ev[u].state \notin {"COMMITTED", "ROLLED_BACK"}}

\* From the published pointer to the end of the transaction the host being
\* replaced is in exactly one place, canonical path or rollback directory, so
\* rollback_topology can always tell which move is next.
BaselineInOnePlace ==
    \A v \in Open : (app = v - 1) # (ev[v].kept = v - 1)

\* At most one update is in flight, whatever crashed before it.
OneOpenUpdate == Cardinality(Open) <= 1

Newest == IF Committed = {} THEN 0 ELSE CHOOSE u \in Committed : \A w \in Committed : w <= u

\* With no transaction open the canonical app is that of the newest committed
\* version, and each host the chain may have to restore is retained.
SettledMeansInstalled ==
    Open = {} => app = Newest /\ \A u \in Committed : ev[u].kept = u - 1

\* The chain of committed versions below an open update is unbroken: the
\* rollback's verify_committed_vK_baseline can succeed.
ChainUnbroken ==
    \A v \in Open : \A u \in 1..(v - 1) : Pinned(u)

\* Whichever controllers crashed and were rerun, the journals, pointers and
\* retained hosts of all versions tell one history: at most one open update on
\* an unbroken chain of committed ones, whose newest is installed when none is
\* open.
HistoryCoherent ==
    TypeOK /\ OneOpenUpdate /\ SettledMeansInstalled /\ ChainUnbroken

\* Apps are moved only while no host runs and the controller holds its lock.
MovesUnderLock ==
    [][app' # app => ctl.locked /\ capture_server_processes = {}]_vars

Recorded(v, s) == ev[v].state # s /\ ev'[v].state = s

\* COMMITTED is journaled only with the new app in place and its job loaded,
\* the previous app retained, no hold left and the whole chain committed.
CommitProved ==
    [][\A v \in Versions : Recorded(v, "COMMITTED") =>
         /\ app = v /\ job /\ child = "none" /\ pairing
         /\ ev[v].ptr = "active" /\ ev[v].kept = v - 1 /\ ev[v].hold = "absent"
         /\ \A u \in 1..(v - 1) : ev[u].state = "COMMITTED"]_vars

\* ROLLED_BACK is journaled only with the previous app in place, its job
\* loaded and nothing of the new one at a path launchd or a rerun would use.
RollbackProved ==
    [][\A v \in Versions : Recorded(v, "ROLLED_BACK") =>
         /\ app = v - 1 /\ job /\ ev[v].kept = Nothing
         /\ ev[v].hold = "absent" /\ ev[v].reserve # "full"]_vars

\* Apps are exchanged, and outcomes recorded, only on what was proved: the lock
\* held and no host running for a move, the final topology for an outcome.
StepsProved == MovesUnderLock /\ CommitProved /\ RollbackProved

\* Releases are committed and reverted one version at a time.
Releases == INSTANCE HostReleases WITH
    installed <- IF Open = {} THEN app ELSE Newest,
    open <- IF Open = {} THEN 0 ELSE CHOOSE u \in Open : TRUE

\* The controllers implement the abstract chain of releases.
ImplementsReleases == Releases!Spec

\* An interrupted or failed update is always settled in the end, and a host
\* runs again.
UpdateSettles == []<>(Open = {} /\ ~Running) /\ []<>(proc # Nothing)
=============================================================================
