------------------------- MODULE PairedUpdatesProofs -------------------------
(***************************************************************************)
(* Safety of PairedUpdates for every set of controllers, every way an      *)
(* append may fail, and any number of deaths, reboots and faults, as long  *)
(* as an older release is not rolled back under a newer one (Requests is   *)
(* not "any").                                                             *)
(*                                                                         *)
(* The controllers are seven texts of one kind.  The proof reads them once: *)
(*   - marks: the places of a plan at which something changes that the     *)
(*     invariant speaks of, and one lemma per plan that they are there;    *)
(*   - one lemma per operator in which the controllers differ;             *)
(* and everything after that is about a controller v with its marks.       *)
(***************************************************************************)
EXTENDS PairedUpdates, FiniteSetTheorems, TLAPS

Controllers == {1, 2, 3, 4, 5, 6, 8}

(* The places of the forward plans and of the rollbacks.  Each mark is the *)
(* place of the command it is named for.                                   *)

ForwardMarks(v) ==
  CASE v = 1 -> [pointer |-> 11, lock |-> 28, hold |-> 31, publish |-> 34, unhold |-> 35,
                 unlock |-> 38, load |-> 39, commit |-> 45]
    [] v = 2 -> [pointer |-> 13, lock |-> 23, hold |-> 30, publish |-> 33, unhold |-> 34,
                 unlock |-> 39, load |-> 40, commit |-> 48]
    [] OTHER -> [pointer |-> 14, lock |-> 24, hold |-> 31, publish |-> 34, unhold |-> 35,
                 unlock |-> 40, load |-> 41, commit |-> 49]

RollbackMarks(v) ==
  CASE v = 1 -> [start |-> 3, release |-> 4, sweep |-> 9, lock |-> 8, restore |-> 13,
                 unlock |-> 16, load |-> 18, done |-> 22]
    [] v \in {2, 3, 4} -> [start |-> 5, release |-> 6, sweep |-> 12, lock |-> 9, restore |-> 16,
                           unlock |-> 22, load |-> 24, done |-> 30]
    [] v \in {5, 6} -> [start |-> 5, release |-> 6, sweep |-> 7, lock |-> 13, restore |-> 19,
                        unlock |-> 25, load |-> 27, done |-> 33]
    [] OTHER -> [start |-> 5, release |-> 6, sweep |-> 7, lock |-> 14, restore |-> 20,
                 unlock |-> 26, load |-> 28, done |-> 34]

(* The inductive invariant.                                                *)

\* The journal of an update that has not yet committed.
Progress == {"BEGUN", "SOURCE_EXPORTED", "BUILD_VERIFIED", "STOP_INITIATED",
             "INSTALL_HOLD_VERIFIED", "V20_STOPPED", "INTERACTIVE_READY", "PAIRING_COMMITTED",
             "INTERACTIVE_STOPPED", "V20_HELD", "CURRENT_STOPPED", "CURRENT_HELD",
             "NEW_PUBLISHED", "PERSISTENT_BOOTSTRAPPED", "READY_VERIFIED"}

\* The journal of a rollback that has restored the previous host.
Restored == {"V20_RESTORED", "V20_BOOTSTRAPPED", "CURRENT_RESTORED", "CURRENT_BOOTSTRAPPED",
             "ROLLED_BACK"}

\* The previous host is at the canonical path.
Reverted(v, a, r) == a = v - 1 /\ r.kept = Nothing

\* The previous host is held, and nothing but v may be in its place.
Replaced(v, a, r) == r.kept = v - 1 /\ a \in {Nothing, v}

\* What the evidence r of version v says is true of the app a.
Stands(v, a, r) ==
  /\ Reverted(v, a, r) \/ Replaced(v, a, r)
  /\ r.ptr = "active" /\ r.state = "COMMITTED" => a = v
  /\ r.ptr # "active" => Reverted(v, a, r)
  /\ r.state \in Restored => Reverted(v, a, r)
  /\ r.state \in Restored \cup {"FAILED_NEW_ARCHIVED"} => r.hold = "absent"

\* Versions with a published pointer that are not committed.
Live == {u \in All : ev[u].ptr = "active" /\ ev[u].state # "COMMITTED"}

\* The chain of committed versions ends below the live one, if any, and with
\* the installed one otherwise.
History ==
  /\ \A u \in Live :
       /\ Stands(u, app, ev[u])
       /\ \A w \in All : w \in Committed <=> w < u
       /\ \A w \in 1..(u - 1) : Pinned(w)
  /\ Live = {} => app \in 0..8 /\ \A w \in All : w \in Committed <=> w <= app
  /\ \A u \in Committed : ev[u].kept = u - 1

\* Version v follows the committed ones, or is the newest of them.
Ahead(v) ==
  /\ v \in Versions
  /\ Live \subseteq {v}
  /\ \A w \in 1..(v - 1) : Pinned(w)
  /\ \A w \in Committed : w <= v

\* The running controller's version is the only one that may be live.
Turn(v) == Ahead(v) /\ Stands(v, app, ev[v])

\* What the forward plan has done to the app a and to the evidence r.
Reached(v, at, m, a, r) ==
  /\ at > m.pointer <=> r.ptr = "active"
  /\ at <= m.hold => Reverted(v, a, r)
  /\ at > m.hold => r.kept = v - 1
  /\ m.hold < at /\ at <= m.publish => a = Nothing
  /\ at > m.publish => a = v
  /\ at > m.unhold => r.hold = "absent"
  /\ at <= m.commit => r.state \in Progress
  /\ at > m.commit => r.state = "COMMITTED"
  /\ v = 1 /\ 19 < at /\ at <= 26 =>
       r.state \in {"V20_STOPPED", "INTERACTIVE_READY", "PAIRING_COMMITTED"}

\* Where the forward plan has come to.
Forward(v, at, m) ==
  /\ ctl.healthy
  /\ Reached(v, at, m, app, ev[v])
  /\ at > m.load => job
  /\ ctl.locked <=> ((m.lock < at /\ at <= m.unlock) \/ (v = 1 /\ 18 < at /\ at <= 20))
  /\ v # 1 \/ at > 24 => pairing
  /\ child # "none" => v = 1 /\ 21 < at /\ at <= 26

\* What the rollback has done to the app a and to the evidence r.
Undone(v, at, n, a, r) ==
  /\ at > 2 => r.ptr = "active"
  /\ n.start < at /\ at <= n.done => r.state \in Rolling
  /\ at > n.done => r.state = "ROLLED_BACK"
  /\ at > n.sweep => r.hold = "absent"
  /\ at > n.release => r.reserve # "full"
  /\ at > n.restore => Reverted(v, a, r)

\* Where the rollback has come to.
Back(v, at, n) ==
  /\ at > 1 => ctl.healthy
  /\ Undone(v, at, n, app, ev[v])
  /\ at > n.load => job
  /\ ctl.locked <=> (n.lock < at /\ at <= n.unlock)
  /\ v = 1 /\ at > 6 => child = "none"

\* A rolled back version is retired.
Retiring(v) == ev[v].ptr = "active" /\ ev[v].state = "ROLLED_BACK" /\ ~ctl.locked /\ ctl.healthy

Controls ==
  /\ Running => Turn(ctl.v) /\ ctl.at \in 1..Len(Plan)
  /\ Running /\ ctl.healthy => ctl.state = ev[ctl.v].state
  /\ ctl.run = "forward" => Forward(ctl.v, ctl.at, ForwardMarks(ctl.v))
  /\ ctl.run = "rollback" => Back(ctl.v, ctl.at, RollbackMarks(ctl.v))
  /\ ctl.run = "retire" => Retiring(ctl.v)
  /\ ~Running => ~ctl.locked

\* The journal of v1 while its staged host may run.
Staged == {"V20_STOPPED", "INTERACTIVE_READY", "PAIRING_COMMITTED", "ROLLBACK_STARTED",
           "CRITICAL_FAILURE"}

\* The staged host belongs to v1's open update; nothing runs under the lock.
Hosts ==
  /\ child # "none" =>
       ev[1].ptr = "active" /\ ev[1].state \in Staged
  /\ child = "paired" => pairing
  /\ ctl.locked => proc = Nothing /\ child = "none"

Evidence ==
  [state : States, tail : States \cup {"clean"}, ptr : {"none", "active", "retired"},
   root : BOOLEAN, stage : {"none", "exported", "built", "reference"},
   hold : {"absent", "empty", "partial", "exact"}, kept : -1..8, failed : -1..8,
   quarantine : BOOLEAN, reserve : {"none", "full", "released"},
   result : {"none", "success", "warning", "failed", "rolledBack", "critical"}]

MachineType ==
  /\ app \in -1..8 /\ proc \in -1..8
  /\ job \in BOOLEAN /\ seen \in BOOLEAN /\ marked \in BOOLEAN /\ pairing \in BOOLEAN
  /\ child \in {"none", "running", "paired"} /\ repo \in {"authorized", "moved"}
  /\ ev \in [All -> Evidence]
  /\ crashes \in 0..MaxCrashes /\ faults \in 0..MaxFaults

ControlType ==
  ctl \in [v : 0..8, run : {"none", "forward", "rollback", "retire"},
           why : {"none", "failure", "explicit"}, at : Nat, locked : BOOLEAN,
           state : States, healthy : BOOLEAN]

IInv == MachineType /\ ControlType /\ History /\ Controls /\ Hosts

(* What a step may do to the evidence.                                     *)

\* f is e with at most the directory of u changed.
Only(e, f, u) == f \in [All -> Evidence] /\ \A w \in All \ {u} : f[w] = e[w]

Concluded(r) == r.ptr = "active" /\ r.state = "COMMITTED"

InFlight(r) == r.ptr = "active" /\ r.state \notin {"COMMITTED", "ROLLED_BACK"}

\* A version becomes the committed one, and ceases to be it, in a transaction.
Through(r, t) ==
  /\ Concluded(r) /\ ~Concluded(t) => InFlight(t)
  /\ Concluded(t) /\ ~Concluded(r) => InFlight(r)

\* Only v's journal may have grown, by the record the controller is at or by
\* that of its failure.
Tells(v) ==
  /\ Ahead(v) /\ Only(ev, ev', v) /\ Through(ev[v], ev'[v])
  /\ \/ ev'[v].state \in {ev[v].state, "BEGUN", "CRITICAL_FAILURE"}
     \/ Running /\ v = ctl.v /\ Cmd \in States /\ ev'[v].state = Cmd

-----------------------------------------------------------------------------
(* The journal's alphabet.                                                 *)

\* The journal states of all controllers.
LEMMA Alphabet ==
  /\ States = Progress \cup Restored
                \cup {"COMMITTED", "ROLLBACK_STARTED", "FAILED_NEW_ARCHIVED", "CRITICAL_FAILURE"}
  /\ DOMAIN UpdateState = 1..24
<1>1. DOMAIN UpdateState = 1..24
  BY DEF UpdateState
<1>2. ASSUME NEW i \in 1..24
      PROVE  UpdateState[i] \in Progress \cup Restored
                \cup {"COMMITTED", "ROLLBACK_STARTED", "FAILED_NEW_ARCHIVED", "CRITICAL_FAILURE"}
  BY DEF UpdateState, Progress, Restored
<1>3. ASSUME NEW s \in Progress \cup Restored
                \cup {"COMMITTED", "ROLLBACK_STARTED", "FAILED_NEW_ARCHIVED", "CRITICAL_FAILURE"}
      PROVE  \E i \in 1..24 : UpdateState[i] = s
  <2>1. UpdateState[1] = "BEGUN" /\ UpdateState[2] = "SOURCE_EXPORTED"
        /\ UpdateState[3] = "BUILD_VERIFIED" /\ UpdateState[4] = "STOP_INITIATED"
        /\ UpdateState[5] = "INSTALL_HOLD_VERIFIED" /\ UpdateState[6] = "V20_STOPPED"
        /\ UpdateState[7] = "INTERACTIVE_READY" /\ UpdateState[8] = "PAIRING_COMMITTED"
        /\ UpdateState[9] = "INTERACTIVE_STOPPED" /\ UpdateState[10] = "V20_HELD"
        /\ UpdateState[11] = "CURRENT_STOPPED" /\ UpdateState[12] = "CURRENT_HELD"
        /\ UpdateState[13] = "NEW_PUBLISHED" /\ UpdateState[14] = "PERSISTENT_BOOTSTRAPPED"
        /\ UpdateState[15] = "READY_VERIFIED" /\ UpdateState[16] = "COMMITTED"
        /\ UpdateState[17] = "ROLLBACK_STARTED" /\ UpdateState[18] = "FAILED_NEW_ARCHIVED"
        /\ UpdateState[19] = "V20_RESTORED" /\ UpdateState[20] = "V20_BOOTSTRAPPED"
        /\ UpdateState[21] = "CURRENT_RESTORED" /\ UpdateState[22] = "CURRENT_BOOTSTRAPPED"
        /\ UpdateState[23] = "ROLLED_BACK" /\ UpdateState[24] = "CRITICAL_FAILURE"
    BY DEF UpdateState
  <2>2. QED BY <2>1 DEF Progress, Restored
<1>4. QED BY <1>1, <1>2, <1>3 DEF States

\* Each journal state has its rank.
LEMMA RankOf == \A i \in 1..24 : UpdateState[i] \in States /\ Rank(UpdateState[i]) = i
<1> SUFFICES ASSUME NEW i \in 1..24 PROVE UpdateState[i] \in States /\ Rank(UpdateState[i]) = i
  OBVIOUS
<1>1. \A j \in 1..24 : UpdateState[j] = UpdateState[i] => j = i
  BY DEF UpdateState
<1>2. DOMAIN UpdateState = 1..24
  BY Alphabet
<1>3. QED BY <1>1, <1>2 DEF Rank, States

\* The states of a rollback that is under way.
LEMMA RollingStates ==
  Rolling = {"ROLLBACK_STARTED", "FAILED_NEW_ARCHIVED", "V20_RESTORED", "V20_BOOTSTRAPPED",
             "CURRENT_RESTORED", "CURRENT_BOOTSTRAPPED"}
<1>1. /\ UpdateState[17] = "ROLLBACK_STARTED" /\ UpdateState[18] = "FAILED_NEW_ARCHIVED"
      /\ UpdateState[19] = "V20_RESTORED" /\ UpdateState[20] = "V20_BOOTSTRAPPED"
      /\ UpdateState[21] = "CURRENT_RESTORED" /\ UpdateState[22] = "CURRENT_BOOTSTRAPPED"
      /\ UpdateState[23] = "ROLLED_BACK"
  BY DEF UpdateState
<1>2. /\ Rank("ROLLBACK_STARTED") = 17 /\ Rank("FAILED_NEW_ARCHIVED") = 18
      /\ Rank("V20_RESTORED") = 19 /\ Rank("V20_BOOTSTRAPPED") = 20
      /\ Rank("CURRENT_RESTORED") = 21 /\ Rank("CURRENT_BOOTSTRAPPED") = 22
      /\ Rank("ROLLED_BACK") = 23
      /\ {"ROLLBACK_STARTED", "FAILED_NEW_ARCHIVED", "V20_RESTORED", "V20_BOOTSTRAPPED",
          "CURRENT_RESTORED", "CURRENT_BOOTSTRAPPED"} \subseteq States
  <2>1. \A i \in {17, 18, 19, 20, 21, 22, 23} : UpdateState[i] \in States /\ Rank(UpdateState[i]) = i
    BY RankOf
  <2>2. QED BY <1>1, <2>1
<1>3. ASSUME NEW s \in States, Rank(s) \in 17..22
      PROVE  s \in {"ROLLBACK_STARTED", "FAILED_NEW_ARCHIVED", "V20_RESTORED",
                    "V20_BOOTSTRAPPED", "CURRENT_RESTORED", "CURRENT_BOOTSTRAPPED"}
  <2>1. PICK i \in 1..24 : UpdateState[i] = s
    BY Alphabet DEF States
  <2>2. i \in 17..22
    BY <1>3, <2>1, RankOf
  <2>3. QED BY <1>1, <2>1, <2>2
<1>4. QED BY <1>2, <1>3 DEF Rolling

\* Each version that is modelled has a controller.
LEMMA VersionIsController == ASSUME NEW v \in Versions PROVE v \in Controllers
  BY PairedAssumption, ControllersAssumption DEF Controllers

-----------------------------------------------------------------------------
(* What the controllers have in common, operator by operator.              *)

\* An update starts on its predecessor, all whose own predecessors are pinned.
LEMMA BeginNeeds ==
  ASSUME NEW v \in Controllers, Holds(v, "begin")
  PROVE  /\ app = v - 1 /\ ev[v].ptr # "active"
         /\ \A w \in 1..(v - 1) : Pinned(w)
         /\ v # 1 => pairing
<1>1. CASE v = 1
  BY <1>1 DEF Holds, V1!Holds, V1!execute_update, V1!verify_v20_runtime, V1!verify_exact_v20_app_at
<1>2. CASE v = 2
  BY <1>2 DEF Holds, V2!Holds, V2!execute_paired_v2_update, V2!verify_committed_v1_baseline,
     V2!verify_paired_v2_runtime, V2!verify_current_baseline_app_at, V2!Pinned, Pinned,
     V2!verify_isolated_pairing_items_present
<1>3. CASE v = 3
  BY <1>3 DEF Holds, V3!Holds, V3!execute_paired_v3_update, V3!verify_committed_v1_baseline,
     V3!verify_committed_v2_baseline, V3!verify_paired_v3_runtime,
     V3!verify_current_baseline_app_at, V3!Pinned, Pinned,
     V3!verify_isolated_pairing_items_present
<1>4. CASE v = 4
  BY <1>4 DEF Holds, V4!Holds, V4!execute_paired_v4_update, V4!verify_committed_v1_baseline,
     V4!verify_committed_v2_baseline, V4!verify_committed_v3_baseline,
     V4!verify_paired_v4_runtime, V4!verify_current_baseline_app_at, V4!Pinned, Pinned,
     V4!verify_isolated_pairing_items_present
<1>5. CASE v = 5
  BY <1>5 DEF Holds, V5!Holds, V5!execute_paired_v5_update, V5!verify_committed_v1_baseline,
     V5!verify_committed_v2_baseline, V5!verify_committed_v3_baseline,
     V5!verify_committed_v4_baseline,
     V5!verify_paired_v5_runtime, V5!verify_current_baseline_app_at, V5!Pinned, Pinned,
     V5!verify_isolated_pairing_items_present
<1>6. CASE v = 6
  BY <1>6 DEF Holds, V6!Holds, V6!execute_paired_v6_update, V6!verify_committed_v1_baseline,
     V6!verify_committed_v2_baseline, V6!verify_committed_v3_baseline,
     V6!verify_committed_v4_baseline, V6!verify_committed_v5_baseline,
     V6!verify_paired_v6_runtime, V6!verify_current_baseline_app_at, V6!Pinned, Pinned,
     V6!verify_isolated_pairing_items_present
<1>8. CASE v = 8
  BY <1>8 DEF Holds, V8!Holds, V8!execute_paired_v8_update, V8!verify_committed_v1_baseline,
     V8!verify_committed_v2_baseline, V8!verify_committed_v3_baseline,
     V8!verify_committed_v4_baseline, V8!verify_committed_v5_baseline,
     V8!verify_committed_v6_baseline, V8!verify_committed_v7_baseline,
     V8!verify_paired_v8_runtime, V8!verify_current_baseline_app_at, V8!Pinned, Pinned,
     V8!verify_isolated_pairing_items_present
<1>9. QED BY <1>1, <1>2, <1>3, <1>4, <1>5, <1>6, <1>8 DEF Controllers

-----------------------------------------------------------------------------
(* The plans, read once: where in them the marked commands are.            *)

\* A command of a plan.
Entry(p, at) == p[at]

\* The forward plan: where the commands are that the invariant follows.
ForwardText(v, at, m, c) ==
  /\ c = "publishPointer" <=> at = m.pointer
  /\ c = "holdCurrent" <=> at = m.hold
  /\ c = "publishNew" <=> at = m.publish
  /\ c = "removeHoldRoot" <=> at = m.unhold
  /\ c = "bootstrap" <=> at = m.load
  /\ c = "COMMITTED" <=> at = m.commit
  /\ c = "takeLock" <=> (at = m.lock \/ (v = 1 /\ at = 18))
  /\ c = "dropLock" <=> (at = m.unlock \/ (v = 1 /\ at = 20))
  /\ c = "spawnChild" <=> (v = 1 /\ at = 21)
  /\ c = "pairingCommit" <=> (v = 1 /\ at = 24)
  /\ c = "terminateChild" <=> (v = 1 /\ at = 26)
  /\ c = "resultSuccess" <=> at = m.commit + 1
  /\ c = "bootout" => at < m.load
  /\ c = "prepareHold" => at < m.hold
  /\ at <= m.commit + 1
  /\ c \in States => c \in Progress \cup {"COMMITTED"} /\ at <= m.commit
  /\ v = 1 /\ at = 19 => c = "V20_STOPPED"
  /\ v = 1 /\ 19 < at /\ at <= 26 /\ c \in States =>
       c \in {"V20_STOPPED", "INTERACTIVE_READY", "PAIRING_COMMITTED"}
  /\ c \notin {"archiveNew", "restoreCurrent", "bootoutIfLoaded", "terminateStaged", "archiveHold",
               "retirePointer", "resultRolledBack", "ensureResult"}

\* The rollback, with the two commands that every controller appends.
RollbackText(v, at, n, c) ==
  /\ at = 1 => c = "healthy"
  /\ at = 2 => c = "pointer"
  /\ c = "ROLLBACK_STARTED" <=> at = n.start
  /\ c = "releaseReserve" <=> at = n.release
  /\ c = "archiveHold" <=> at = n.sweep
  /\ c = "takeLock" <=> at = n.lock
  /\ c = "restoreCurrent" <=> at = n.restore
  /\ c = "dropLock" <=> at = n.unlock
  /\ c = "bootstrap" <=> at = n.load
  /\ c = "ROLLED_BACK" <=> at = n.done
  /\ c = "terminateStaged" <=> (v = 1 /\ at = 6)
  /\ c = "resultRolledBack" <=> at = n.done + 2
  /\ c = "retirePointer" <=> at = n.done + 3
  /\ c = "archiveNew" => n.lock < at /\ n.start < at /\ at < n.restore
  /\ c = "bootoutIfLoaded" => at < n.load
  /\ at <= n.done + 3
  /\ c \in States => c \in Rolling \cup {"ROLLED_BACK"} /\ n.start <= at /\ at <= n.done
  /\ c \in Restored => n.restore < at
  /\ c \in Restored \cup {"FAILED_NEW_ARCHIVED"} => n.sweep < at
  /\ c \notin {"reserve", "publishPointer", "removeHoldRoot", "prepareHold", "holdCurrent",
               "publishNew", "bootout", "spawnChild", "terminateChild", "resultSuccess",
               "ensureResult", "export", "build", "reference"}

\* The retirement of a version that was rolled back.
RetireText(v, at, c) ==
  /\ c \in {"runtime", "pairing", "ensureResult", "retirePointer"}
  /\ c = "retirePointer" <=> at = Len(Retire(v))

\* The order of the marks.
ForwardOrder(v, m) ==
  /\ m.pointer \in Nat /\ m.lock \in Nat /\ m.hold \in Nat /\ m.publish \in Nat
  /\ m.unhold \in Nat /\ m.unlock \in Nat /\ m.load \in Nat /\ m.commit \in Nat
  /\ 1 < m.pointer /\ m.pointer < m.lock /\ m.lock < m.hold /\ m.hold < m.publish
  /\ m.publish < m.unhold /\ m.unhold < m.unlock /\ m.unlock < m.load /\ m.load < m.commit
  /\ v = 1 => m.pointer < 18 /\ 26 < m.lock

RollbackOrder(v, n) ==
  /\ n.start \in Nat /\ n.release \in Nat /\ n.sweep \in Nat /\ n.lock \in Nat
  /\ n.restore \in Nat /\ n.unlock \in Nat /\ n.load \in Nat /\ n.done \in Nat
  /\ 2 < n.start /\ n.start < n.release /\ n.release < n.sweep /\ n.release < n.lock
  /\ n.sweep < n.restore /\ n.lock < n.restore /\ n.restore < n.unlock
  /\ n.unlock < n.load /\ n.load < n.done
  /\ v = 1 => 6 < n.lock /\ 6 < n.sweep

\* v1's plan.
LEMMA ForwardTextV1 ==
  ASSUME NEW v \in {1}
  PROVE  /\ \A at \in 1..Len(Perform(v)) :
              ForwardText(v, at, ForwardMarks(v), Entry(Perform(v), at))
         /\ ForwardOrder(v, ForwardMarks(v)) /\ Len(Perform(v)) = ForwardMarks(v).commit + 1
<1> DEFINE P(i) == Entry(Perform(v), i)
           m == ForwardMarks(v)
<1>1. Perform(v) = V1!perform_update
  BY DEF Perform
<1>2. Len(Perform(v)) = 46
  BY <1>1 DEF V1!perform_update
<1>3.
      /\ P(1) = "export" /\ P(2) = "SOURCE_EXPORTED" /\ P(3) = "build" /\ P(4) = "reference"
      /\ P(5) = "BUILD_VERIFIED" /\ P(6) = "headroom" /\ P(7) = "referenceIntact"
      /\ P(8) = "sameGeneration" /\ P(9) = "reserve" /\ P(10) = "STOP_INITIATED"
      /\ P(11) = "publishPointer" /\ P(12) = "prepareHold" /\ P(13) = "INSTALL_HOLD_VERIFIED"
      /\ P(14) = "pointer" /\ P(15) = "referenceIntact" /\ P(16) = "bootout"
      /\ P(17) = "drained" /\ P(18) = "takeLock" /\ P(19) = "V20_STOPPED" /\ P(20) = "dropLock"
      /\ P(21) = "spawnChild" /\ P(22) = "invitation" /\ P(23) = "INTERACTIVE_READY"
      /\ P(24) = "pairingCommit" /\ P(25) = "PAIRING_COMMITTED" /\ P(26) = "terminateChild"
      /\ P(27) = "drained" /\ P(28) = "takeLock" /\ P(29) = "INTERACTIVE_STOPPED"
      /\ P(30) = "currentApp" /\ P(31) = "holdCurrent" /\ P(32) = "currentHeld"
      /\ P(33) = "V20_HELD" /\ P(34) = "publishNew" /\ P(35) = "removeHoldRoot"
      /\ P(36) = "installed" /\ P(37) = "NEW_PUBLISHED" /\ P(38) = "dropLock"
      /\ P(39) = "bootstrap" /\ P(40) = "PERSISTENT_BOOTSTRAPPED" /\ P(41) = "observe"
      /\ P(42) = "deployment" /\ P(43) = "READY_VERIFIED" /\ P(44) = "releaseReserve"
      /\ P(45) = "COMMITTED" /\ P(46) = "resultSuccess"
  BY <1>1 DEF V1!perform_update, Entry
<1>4. /\ m.pointer = 11 /\ m.lock = 28 /\ m.hold = 31 /\ m.publish = 34
      /\ m.unhold = 35 /\ m.unlock = 38 /\ m.load = 39 /\ m.commit = 45
  BY DEF ForwardMarks
<1> HIDE DEF P, m
<1>5. ASSUME NEW at \in 1..46 PROVE ForwardText(v, at, m, P(at))
  <2> DEFINE c == P(at)
  <2>1.
        \/ (at = 1 /\ c = "export") \/ (at = 2 /\ c = "SOURCE_EXPORTED")
        \/ (at = 3 /\ c = "build") \/ (at = 4 /\ c = "reference")
        \/ (at = 5 /\ c = "BUILD_VERIFIED") \/ (at = 6 /\ c = "headroom")
        \/ (at = 7 /\ c = "referenceIntact") \/ (at = 8 /\ c = "sameGeneration")
        \/ (at = 9 /\ c = "reserve") \/ (at = 10 /\ c = "STOP_INITIATED")
        \/ (at = 11 /\ c = "publishPointer") \/ (at = 12 /\ c = "prepareHold")
        \/ (at = 13 /\ c = "INSTALL_HOLD_VERIFIED") \/ (at = 14 /\ c = "pointer")
        \/ (at = 15 /\ c = "referenceIntact") \/ (at = 16 /\ c = "bootout")
        \/ (at = 17 /\ c = "drained") \/ (at = 18 /\ c = "takeLock")
        \/ (at = 19 /\ c = "V20_STOPPED") \/ (at = 20 /\ c = "dropLock")
        \/ (at = 21 /\ c = "spawnChild") \/ (at = 22 /\ c = "invitation")
        \/ (at = 23 /\ c = "INTERACTIVE_READY") \/ (at = 24 /\ c = "pairingCommit")
        \/ (at = 25 /\ c = "PAIRING_COMMITTED") \/ (at = 26 /\ c = "terminateChild")
        \/ (at = 27 /\ c = "drained") \/ (at = 28 /\ c = "takeLock")
        \/ (at = 29 /\ c = "INTERACTIVE_STOPPED") \/ (at = 30 /\ c = "currentApp")
        \/ (at = 31 /\ c = "holdCurrent") \/ (at = 32 /\ c = "currentHeld")
        \/ (at = 33 /\ c = "V20_HELD") \/ (at = 34 /\ c = "publishNew")
        \/ (at = 35 /\ c = "removeHoldRoot") \/ (at = 36 /\ c = "installed")
        \/ (at = 37 /\ c = "NEW_PUBLISHED") \/ (at = 38 /\ c = "dropLock")
        \/ (at = 39 /\ c = "bootstrap") \/ (at = 40 /\ c = "PERSISTENT_BOOTSTRAPPED")
        \/ (at = 41 /\ c = "observe") \/ (at = 42 /\ c = "deployment")
        \/ (at = 43 /\ c = "READY_VERIFIED") \/ (at = 44 /\ c = "releaseReserve")
        \/ (at = 45 /\ c = "COMMITTED") \/ (at = 46 /\ c = "resultSuccess")
    BY <1>3
  <2> HIDE DEF c
  <2>2. c \in States => c \in Progress \cup {"COMMITTED"} /\ at <= m.commit
    BY <1>4, <2>1, Alphabet DEF Progress, Restored
  <2>3. /\ c = "publishPointer" <=> at = m.pointer
        /\ c = "holdCurrent" <=> at = m.hold
        /\ c = "publishNew" <=> at = m.publish
        /\ c = "removeHoldRoot" <=> at = m.unhold
        /\ c = "bootstrap" <=> at = m.load
        /\ c = "COMMITTED" <=> at = m.commit
        /\ c = "bootout" => at < m.load
        /\ c = "prepareHold" => at < m.hold
        /\ c = "resultSuccess" <=> at = m.commit + 1
    BY <1>4, <2>1
  <2>4. /\ c = "takeLock" <=> (at = m.lock \/ at = 18)
        /\ c = "dropLock" <=> (at = m.unlock \/ at = 20)
        /\ c = "spawnChild" <=> at = 21
        /\ c = "pairingCommit" <=> at = 24
        /\ c = "terminateChild" <=> at = 26
        /\ at = 19 => c = "V20_STOPPED"
    BY <1>4, <2>1
  <2>5. 19 < at /\ at <= 26 /\ c \in States =>
         c \in {"V20_STOPPED", "INTERACTIVE_READY", "PAIRING_COMMITTED"}
    BY <2>1, <2>2 DEF Progress
  <2>6. c \notin {"archiveNew", "restoreCurrent", "bootoutIfLoaded", "terminateStaged",
                   "archiveHold", "retirePointer", "resultRolledBack", "ensureResult"}
    BY <2>1
  <2>7. ForwardText(v, at, m, c)
    BY <1>4, <2>2, <2>3, <2>4, <2>5, <2>6 DEF ForwardText
  <2>8. QED BY <2>7 DEF c
<1>6. ForwardOrder(v, m)
  BY <1>4 DEF ForwardOrder
<1>7. QED BY <1>2, <1>4, <1>5, <1>6 DEF P, m

\* v2's plan.
LEMMA ForwardTextV2 ==
  ASSUME NEW v \in {2}
  PROVE  /\ \A at \in 1..Len(Perform(v)) :
              ForwardText(v, at, ForwardMarks(v), Entry(Perform(v), at))
         /\ ForwardOrder(v, ForwardMarks(v)) /\ Len(Perform(v)) = ForwardMarks(v).commit + 1
<1> DEFINE P(i) == Entry(Perform(v), i)
           m == ForwardMarks(v)
<1>1. Perform(v) = V2!perform_paired_v2_update
  BY DEF Perform
<1>2. Len(Perform(v)) = 49
  BY <1>1 DEF V2!perform_paired_v2_update
<1>3.
      /\ P(1) = "export" /\ P(2) = "SOURCE_EXPORTED" /\ P(3) = "build" /\ P(4) = "reference"
      /\ P(5) = "BUILD_VERIFIED" /\ P(6) = "headroom" /\ P(7) = "referenceIntact"
      /\ P(8) = "pairing" /\ P(9) = "baseline" /\ P(10) = "sameGeneration" /\ P(11) = "reserve"
      /\ P(12) = "STOP_INITIATED" /\ P(13) = "publishPointer" /\ P(14) = "prepareHold"
      /\ P(15) = "INSTALL_HOLD_VERIFIED" /\ P(16) = "pointer" /\ P(17) = "referenceIntact"
      /\ P(18) = "pairing" /\ P(19) = "baseline" /\ P(20) = "sameGeneration"
      /\ P(21) = "bootout" /\ P(22) = "drained" /\ P(23) = "takeLock" /\ P(24) = "pointer"
      /\ P(25) = "baseline" /\ P(26) = "pairing" /\ P(27) = "referenceIntact"
      /\ P(28) = "currentApp" /\ P(29) = "CURRENT_STOPPED" /\ P(30) = "holdCurrent"
      /\ P(31) = "currentHeld" /\ P(32) = "CURRENT_HELD" /\ P(33) = "publishNew"
      /\ P(34) = "removeHoldRoot" /\ P(35) = "installed" /\ P(36) = "pairing"
      /\ P(37) = "baseline" /\ P(38) = "NEW_PUBLISHED" /\ P(39) = "dropLock"
      /\ P(40) = "bootstrap" /\ P(41) = "PERSISTENT_BOOTSTRAPPED" /\ P(42) = "observe"
      /\ P(43) = "deployment" /\ P(44) = "pairing" /\ P(45) = "baseline"
      /\ P(46) = "READY_VERIFIED" /\ P(47) = "releaseReserve" /\ P(48) = "COMMITTED"
      /\ P(49) = "resultSuccess"
  BY <1>1 DEF V2!perform_paired_v2_update, Entry
<1>4. /\ m.pointer = 13 /\ m.lock = 23 /\ m.hold = 30 /\ m.publish = 33
      /\ m.unhold = 34 /\ m.unlock = 39 /\ m.load = 40 /\ m.commit = 48
  BY DEF ForwardMarks
<1> HIDE DEF P, m
<1>5. ASSUME NEW at \in 1..49 PROVE ForwardText(v, at, m, P(at))
  <2> DEFINE c == P(at)
  <2>1.
        \/ (at = 1 /\ c = "export") \/ (at = 2 /\ c = "SOURCE_EXPORTED")
        \/ (at = 3 /\ c = "build") \/ (at = 4 /\ c = "reference")
        \/ (at = 5 /\ c = "BUILD_VERIFIED") \/ (at = 6 /\ c = "headroom")
        \/ (at = 7 /\ c = "referenceIntact") \/ (at = 8 /\ c = "pairing")
        \/ (at = 9 /\ c = "baseline") \/ (at = 10 /\ c = "sameGeneration")
        \/ (at = 11 /\ c = "reserve") \/ (at = 12 /\ c = "STOP_INITIATED")
        \/ (at = 13 /\ c = "publishPointer") \/ (at = 14 /\ c = "prepareHold")
        \/ (at = 15 /\ c = "INSTALL_HOLD_VERIFIED") \/ (at = 16 /\ c = "pointer")
        \/ (at = 17 /\ c = "referenceIntact") \/ (at = 18 /\ c = "pairing")
        \/ (at = 19 /\ c = "baseline") \/ (at = 20 /\ c = "sameGeneration")
        \/ (at = 21 /\ c = "bootout") \/ (at = 22 /\ c = "drained")
        \/ (at = 23 /\ c = "takeLock") \/ (at = 24 /\ c = "pointer")
        \/ (at = 25 /\ c = "baseline") \/ (at = 26 /\ c = "pairing")
        \/ (at = 27 /\ c = "referenceIntact") \/ (at = 28 /\ c = "currentApp")
        \/ (at = 29 /\ c = "CURRENT_STOPPED") \/ (at = 30 /\ c = "holdCurrent")
        \/ (at = 31 /\ c = "currentHeld") \/ (at = 32 /\ c = "CURRENT_HELD")
        \/ (at = 33 /\ c = "publishNew") \/ (at = 34 /\ c = "removeHoldRoot")
        \/ (at = 35 /\ c = "installed") \/ (at = 36 /\ c = "pairing")
        \/ (at = 37 /\ c = "baseline") \/ (at = 38 /\ c = "NEW_PUBLISHED")
        \/ (at = 39 /\ c = "dropLock") \/ (at = 40 /\ c = "bootstrap")
        \/ (at = 41 /\ c = "PERSISTENT_BOOTSTRAPPED") \/ (at = 42 /\ c = "observe")
        \/ (at = 43 /\ c = "deployment") \/ (at = 44 /\ c = "pairing")
        \/ (at = 45 /\ c = "baseline") \/ (at = 46 /\ c = "READY_VERIFIED")
        \/ (at = 47 /\ c = "releaseReserve") \/ (at = 48 /\ c = "COMMITTED")
        \/ (at = 49 /\ c = "resultSuccess")
    BY <1>3
  <2> HIDE DEF c
  <2>2. c \in States => c \in Progress \cup {"COMMITTED"} /\ at <= m.commit
    BY <1>4, <2>1, Alphabet DEF Progress, Restored
  <2>3. /\ c = "publishPointer" <=> at = m.pointer
        /\ c = "holdCurrent" <=> at = m.hold
        /\ c = "publishNew" <=> at = m.publish
        /\ c = "removeHoldRoot" <=> at = m.unhold
        /\ c = "bootstrap" <=> at = m.load
        /\ c = "COMMITTED" <=> at = m.commit
        /\ c = "bootout" => at < m.load
        /\ c = "prepareHold" => at < m.hold
        /\ c = "resultSuccess" <=> at = m.commit + 1
    BY <1>4, <2>1
  <2>4. /\ c = "takeLock" <=> at = m.lock
        /\ c = "dropLock" <=> at = m.unlock
        /\ c \notin {"spawnChild", "pairingCommit", "terminateChild"}
    BY <1>4, <2>1
  <2>6. c \notin {"archiveNew", "restoreCurrent", "bootoutIfLoaded", "terminateStaged",
                   "archiveHold", "retirePointer", "resultRolledBack", "ensureResult"}
    BY <2>1
  <2>7. ForwardText(v, at, m, c)
    BY <1>4, <2>2, <2>3, <2>4, <2>6 DEF ForwardText
  <2>8. QED BY <2>7 DEF c
<1>6. ForwardOrder(v, m)
  BY <1>4 DEF ForwardOrder
<1>7. QED BY <1>2, <1>4, <1>5, <1>6 DEF P, m

\* The plan that v3 to v8 have in common.
LEMMA ForwardTextV3 ==
  ASSUME NEW v \in {3, 4, 5, 6, 8}
  PROVE  /\ \A at \in 1..Len(Perform(v)) :
              ForwardText(v, at, ForwardMarks(v), Entry(Perform(v), at))
         /\ ForwardOrder(v, ForwardMarks(v)) /\ Len(Perform(v)) = ForwardMarks(v).commit + 1
<1> DEFINE P(i) == Entry(Perform(v), i)
           m == ForwardMarks(v)
<1>1. Perform(v) = V3!perform_paired_v3_update
  <2>1. CASE v = 3
    BY <2>1 DEF Perform
  <2>2. CASE v = 4
    BY <2>2 DEF Perform, V4!perform_paired_v4_update, V3!perform_paired_v3_update
  <2>3. CASE v = 5
    BY <2>3 DEF Perform, V5!perform_paired_v5_update, V3!perform_paired_v3_update
  <2>4. CASE v = 6
    BY <2>4 DEF Perform, V6!perform_paired_v6_update, V3!perform_paired_v3_update
  <2>5. CASE v = 8
    BY <2>5 DEF Perform, V8!perform_paired_v8_update, V3!perform_paired_v3_update
  <2>6. QED BY <2>1, <2>2, <2>3, <2>4, <2>5
<1>2. Len(Perform(v)) = 50
  BY <1>1 DEF V3!perform_paired_v3_update
<1>3.
      /\ P(1) = "export" /\ P(2) = "SOURCE_EXPORTED" /\ P(3) = "build" /\ P(4) = "reference"
      /\ P(5) = "BUILD_VERIFIED" /\ P(6) = "headroom" /\ P(7) = "referenceIntact"
      /\ P(8) = "pairing" /\ P(9) = "baseline" /\ P(10) = "sameGeneration"
      /\ P(11) = "provenance" /\ P(12) = "reserve" /\ P(13) = "STOP_INITIATED"
      /\ P(14) = "publishPointer" /\ P(15) = "prepareHold" /\ P(16) = "INSTALL_HOLD_VERIFIED"
      /\ P(17) = "pointer" /\ P(18) = "referenceIntact" /\ P(19) = "pairing"
      /\ P(20) = "baseline" /\ P(21) = "sameGeneration" /\ P(22) = "bootout"
      /\ P(23) = "drained" /\ P(24) = "takeLock" /\ P(25) = "pointer" /\ P(26) = "baseline"
      /\ P(27) = "pairing" /\ P(28) = "referenceIntact" /\ P(29) = "currentApp"
      /\ P(30) = "CURRENT_STOPPED" /\ P(31) = "holdCurrent" /\ P(32) = "currentHeld"
      /\ P(33) = "CURRENT_HELD" /\ P(34) = "publishNew" /\ P(35) = "removeHoldRoot"
      /\ P(36) = "installed" /\ P(37) = "pairing" /\ P(38) = "baseline"
      /\ P(39) = "NEW_PUBLISHED" /\ P(40) = "dropLock" /\ P(41) = "bootstrap"
      /\ P(42) = "PERSISTENT_BOOTSTRAPPED" /\ P(43) = "observe" /\ P(44) = "deployment"
      /\ P(45) = "pairing" /\ P(46) = "baseline" /\ P(47) = "READY_VERIFIED"
      /\ P(48) = "releaseReserve" /\ P(49) = "COMMITTED" /\ P(50) = "resultSuccess"
  BY <1>1 DEF V3!perform_paired_v3_update, Entry
<1>4. /\ m.pointer = 14 /\ m.lock = 24 /\ m.hold = 31 /\ m.publish = 34
      /\ m.unhold = 35 /\ m.unlock = 40 /\ m.load = 41 /\ m.commit = 49
  BY DEF ForwardMarks
<1> HIDE DEF P, m
<1>5. ASSUME NEW at \in 1..50 PROVE ForwardText(v, at, m, P(at))
  <2> DEFINE c == P(at)
  <2>1.
        \/ (at = 1 /\ c = "export") \/ (at = 2 /\ c = "SOURCE_EXPORTED")
        \/ (at = 3 /\ c = "build") \/ (at = 4 /\ c = "reference")
        \/ (at = 5 /\ c = "BUILD_VERIFIED") \/ (at = 6 /\ c = "headroom")
        \/ (at = 7 /\ c = "referenceIntact") \/ (at = 8 /\ c = "pairing")
        \/ (at = 9 /\ c = "baseline") \/ (at = 10 /\ c = "sameGeneration")
        \/ (at = 11 /\ c = "provenance") \/ (at = 12 /\ c = "reserve")
        \/ (at = 13 /\ c = "STOP_INITIATED") \/ (at = 14 /\ c = "publishPointer")
        \/ (at = 15 /\ c = "prepareHold") \/ (at = 16 /\ c = "INSTALL_HOLD_VERIFIED")
        \/ (at = 17 /\ c = "pointer") \/ (at = 18 /\ c = "referenceIntact")
        \/ (at = 19 /\ c = "pairing") \/ (at = 20 /\ c = "baseline")
        \/ (at = 21 /\ c = "sameGeneration") \/ (at = 22 /\ c = "bootout")
        \/ (at = 23 /\ c = "drained") \/ (at = 24 /\ c = "takeLock")
        \/ (at = 25 /\ c = "pointer") \/ (at = 26 /\ c = "baseline")
        \/ (at = 27 /\ c = "pairing") \/ (at = 28 /\ c = "referenceIntact")
        \/ (at = 29 /\ c = "currentApp") \/ (at = 30 /\ c = "CURRENT_STOPPED")
        \/ (at = 31 /\ c = "holdCurrent") \/ (at = 32 /\ c = "currentHeld")
        \/ (at = 33 /\ c = "CURRENT_HELD") \/ (at = 34 /\ c = "publishNew")
        \/ (at = 35 /\ c = "removeHoldRoot") \/ (at = 36 /\ c = "installed")
        \/ (at = 37 /\ c = "pairing") \/ (at = 38 /\ c = "baseline")
        \/ (at = 39 /\ c = "NEW_PUBLISHED") \/ (at = 40 /\ c = "dropLock")
        \/ (at = 41 /\ c = "bootstrap") \/ (at = 42 /\ c = "PERSISTENT_BOOTSTRAPPED")
        \/ (at = 43 /\ c = "observe") \/ (at = 44 /\ c = "deployment")
        \/ (at = 45 /\ c = "pairing") \/ (at = 46 /\ c = "baseline")
        \/ (at = 47 /\ c = "READY_VERIFIED") \/ (at = 48 /\ c = "releaseReserve")
        \/ (at = 49 /\ c = "COMMITTED") \/ (at = 50 /\ c = "resultSuccess")
    BY <1>3
  <2> HIDE DEF c
  <2>2. c \in States => c \in Progress \cup {"COMMITTED"} /\ at <= m.commit
    BY <1>4, <2>1, Alphabet DEF Progress, Restored
  <2>3. /\ c = "publishPointer" <=> at = m.pointer
        /\ c = "holdCurrent" <=> at = m.hold
        /\ c = "publishNew" <=> at = m.publish
        /\ c = "removeHoldRoot" <=> at = m.unhold
        /\ c = "bootstrap" <=> at = m.load
        /\ c = "COMMITTED" <=> at = m.commit
        /\ c = "bootout" => at < m.load
        /\ c = "prepareHold" => at < m.hold
        /\ c = "resultSuccess" <=> at = m.commit + 1
    BY <1>4, <2>1
  <2>4. /\ c = "takeLock" <=> at = m.lock
        /\ c = "dropLock" <=> at = m.unlock
        /\ c \notin {"spawnChild", "pairingCommit", "terminateChild"}
    BY <1>4, <2>1
  <2>6. c \notin {"archiveNew", "restoreCurrent", "bootoutIfLoaded", "terminateStaged",
                   "archiveHold", "retirePointer", "resultRolledBack", "ensureResult"}
    BY <2>1
  <2>7. ForwardText(v, at, m, c)
    BY <1>4, <2>2, <2>3, <2>4, <2>6 DEF ForwardText
  <2>8. QED BY <2>7 DEF c
<1>6. ForwardOrder(v, m)
  BY <1>4 DEF ForwardOrder
<1>7. QED BY <1>2, <1>4, <1>5, <1>6 DEF P, m

\* What each operation of an update does, and where.
LEMMA ForwardTexts ==
  ASSUME NEW v \in Controllers
  PROVE  /\ \A at \in 1..Len(Perform(v)) :
              ForwardText(v, at, ForwardMarks(v), Entry(Perform(v), at))
         /\ ForwardOrder(v, ForwardMarks(v)) /\ Len(Perform(v)) = ForwardMarks(v).commit + 1
  BY ForwardTextV1, ForwardTextV2, ForwardTextV3 DEF Controllers

\* v1's rollback.
LEMMA RollbackTextV1 ==
  ASSUME NEW v \in {1}
  PROVE  LET p == Restore(v) \o <<"resultRolledBack", "retirePointer">>
             n == RollbackMarks(v)
         IN  /\ \A at \in 1..Len(p) : RollbackText(v, at, n, Entry(p, at))
             /\ RollbackOrder(v, n) /\ Len(p) = n.done + 3
<1> DEFINE plan == Restore(v) \o <<"resultRolledBack", "retirePointer">>
           P(i) == Entry(plan, i)
           n == RollbackMarks(v)
<1>1. Restore(v) = V1!rollback_to_v20
  BY DEF Restore
<1>2. Len(plan) = 25
  BY <1>1 DEF V1!rollback_to_v20
<1>3.
      /\ P(1) = "healthy" /\ P(2) = "pointer" /\ P(3) = "ROLLBACK_STARTED"
      /\ P(4) = "releaseReserve" /\ P(5) = "bootoutIfLoaded" /\ P(6) = "terminateStaged"
      /\ P(7) = "drained" /\ P(8) = "takeLock" /\ P(9) = "archiveHold" /\ P(10) = "topology"
      /\ P(11) = "archiveNew" /\ P(12) = "FAILED_NEW_ARCHIVED" /\ P(13) = "restoreCurrent"
      /\ P(14) = "V20_RESTORED" /\ P(15) = "resumable" /\ P(16) = "dropLock"
      /\ P(17) = "currentApp" /\ P(18) = "bootstrap" /\ P(19) = "V20_BOOTSTRAPPED"
      /\ P(20) = "observe" /\ P(21) = "baselineDeployment" /\ P(22) = "ROLLED_BACK"
      /\ P(23) = "runtime" /\ P(24) = "resultRolledBack" /\ P(25) = "retirePointer"
  BY <1>1 DEF V1!rollback_to_v20, Entry
<1>4. /\ n.start = 3 /\ n.release = 4 /\ n.sweep = 9 /\ n.lock = 8
      /\ n.restore = 13 /\ n.unlock = 16 /\ n.load = 18 /\ n.done = 22
  BY DEF RollbackMarks
<1> HIDE DEF P, n, plan
<1>5. ASSUME NEW at \in 1..25 PROVE RollbackText(v, at, n, P(at))
  <2> DEFINE c == P(at)
  <2>1.
        \/ (at = 1 /\ c = "healthy") \/ (at = 2 /\ c = "pointer")
        \/ (at = 3 /\ c = "ROLLBACK_STARTED") \/ (at = 4 /\ c = "releaseReserve")
        \/ (at = 5 /\ c = "bootoutIfLoaded") \/ (at = 6 /\ c = "terminateStaged")
        \/ (at = 7 /\ c = "drained") \/ (at = 8 /\ c = "takeLock")
        \/ (at = 9 /\ c = "archiveHold") \/ (at = 10 /\ c = "topology")
        \/ (at = 11 /\ c = "archiveNew") \/ (at = 12 /\ c = "FAILED_NEW_ARCHIVED")
        \/ (at = 13 /\ c = "restoreCurrent") \/ (at = 14 /\ c = "V20_RESTORED")
        \/ (at = 15 /\ c = "resumable") \/ (at = 16 /\ c = "dropLock")
        \/ (at = 17 /\ c = "currentApp") \/ (at = 18 /\ c = "bootstrap")
        \/ (at = 19 /\ c = "V20_BOOTSTRAPPED") \/ (at = 20 /\ c = "observe")
        \/ (at = 21 /\ c = "baselineDeployment") \/ (at = 22 /\ c = "ROLLED_BACK")
        \/ (at = 23 /\ c = "runtime") \/ (at = 24 /\ c = "resultRolledBack")
        \/ (at = 25 /\ c = "retirePointer")
    BY <1>3
  <2> HIDE DEF c
  <2>2. c \in States => c \in Rolling \cup {"ROLLED_BACK"} /\ n.start <= at /\ at <= n.done
    BY <1>4, <2>1, Alphabet, RollingStates DEF Progress, Restored
  <2>3. /\ c \in Restored => n.restore < at
        /\ c \in Restored \cup {"FAILED_NEW_ARCHIVED"} => n.sweep < at
    BY <1>4, <2>1 DEF Restored
  <2>4. /\ at = 1 => c = "healthy"
        /\ at = 2 => c = "pointer"
        /\ c = "ROLLBACK_STARTED" <=> at = n.start
        /\ c = "releaseReserve" <=> at = n.release
        /\ c = "archiveHold" <=> at = n.sweep
        /\ c = "takeLock" <=> at = n.lock
        /\ c = "restoreCurrent" <=> at = n.restore
        /\ c = "dropLock" <=> at = n.unlock
        /\ c = "bootstrap" <=> at = n.load
        /\ c = "ROLLED_BACK" <=> at = n.done
    BY <1>4, <2>1
  <2>5. /\ c = "terminateStaged" <=> (v = 1 /\ at = 6)
        /\ c = "resultRolledBack" <=> at = n.done + 2
        /\ c = "retirePointer" <=> at = n.done + 3
        /\ c = "archiveNew" => n.lock < at /\ n.start < at /\ at < n.restore
        /\ c = "bootoutIfLoaded" => at < n.load
    BY <1>4, <2>1
  <2>6. c \notin {"reserve", "publishPointer", "removeHoldRoot", "prepareHold", "holdCurrent",
                   "publishNew", "bootout", "spawnChild", "terminateChild", "resultSuccess",
                   "ensureResult", "export", "build", "reference"}
    BY <2>1
  <2>7. RollbackText(v, at, n, c)
    BY <1>4, <2>2, <2>3, <2>4, <2>5, <2>6 DEF RollbackText
  <2>8. QED BY <2>7 DEF c
<1>6. RollbackOrder(v, n)
  BY <1>4 DEF RollbackOrder
<1>7. /\ \A at \in 1..Len(plan) : RollbackText(v, at, n, Entry(plan, at))
      /\ RollbackOrder(v, n) /\ Len(plan) = n.done + 3
  BY <1>2, <1>4, <1>5, <1>6 DEF P
<1>8. QED BY <1>7 DEF n, plan

\* The rollback of v2, v3 and v4.
LEMMA RollbackTextV2 ==
  ASSUME NEW v \in {2, 3, 4}
  PROVE  LET p == Restore(v) \o <<"resultRolledBack", "retirePointer">>
             n == RollbackMarks(v)
         IN  /\ \A at \in 1..Len(p) : RollbackText(v, at, n, Entry(p, at))
             /\ RollbackOrder(v, n) /\ Len(p) = n.done + 3
<1> DEFINE plan == Restore(v) \o <<"resultRolledBack", "retirePointer">>
           P(i) == Entry(plan, i)
           n == RollbackMarks(v)
<1>1. Restore(v) = V2!rollback_to_current_baseline
  <2>1. CASE v = 2
    BY <2>1 DEF Restore
  <2>2. CASE v = 3
    BY <2>2 DEF Restore, V3!rollback_to_current_baseline, V2!rollback_to_current_baseline
  <2>3. CASE v = 4
    BY <2>3 DEF Restore, V4!rollback_to_current_baseline, V2!rollback_to_current_baseline
  <2>4. QED BY <2>1, <2>2, <2>3
<1>2. Len(plan) = 33
  BY <1>1 DEF V2!rollback_to_current_baseline
<1>3.
      /\ P(1) = "healthy" /\ P(2) = "pointer" /\ P(3) = "baseline" /\ P(4) = "pairing"
      /\ P(5) = "ROLLBACK_STARTED" /\ P(6) = "releaseReserve" /\ P(7) = "bootoutIfLoaded"
      /\ P(8) = "drained" /\ P(9) = "takeLock" /\ P(10) = "pairing" /\ P(11) = "baseline"
      /\ P(12) = "archiveHold" /\ P(13) = "topology" /\ P(14) = "archiveNew"
      /\ P(15) = "FAILED_NEW_ARCHIVED" /\ P(16) = "restoreCurrent" /\ P(17) = "currentApp"
      /\ P(18) = "CURRENT_RESTORED" /\ P(19) = "resumable" /\ P(20) = "pairing"
      /\ P(21) = "baseline" /\ P(22) = "dropLock" /\ P(23) = "currentApp"
      /\ P(24) = "bootstrap" /\ P(25) = "CURRENT_BOOTSTRAPPED" /\ P(26) = "observe"
      /\ P(27) = "baselineDeployment" /\ P(28) = "pairing" /\ P(29) = "baseline"
      /\ P(30) = "ROLLED_BACK" /\ P(31) = "runtime" /\ P(32) = "resultRolledBack"
      /\ P(33) = "retirePointer"
  BY <1>1 DEF V2!rollback_to_current_baseline, Entry
<1>4. /\ n.start = 5 /\ n.release = 6 /\ n.sweep = 12 /\ n.lock = 9
      /\ n.restore = 16 /\ n.unlock = 22 /\ n.load = 24 /\ n.done = 30
  BY DEF RollbackMarks
<1> HIDE DEF P, n, plan
<1>5. ASSUME NEW at \in 1..33 PROVE RollbackText(v, at, n, P(at))
  <2> DEFINE c == P(at)
  <2>1.
        \/ (at = 1 /\ c = "healthy") \/ (at = 2 /\ c = "pointer") \/ (at = 3 /\ c = "baseline")
        \/ (at = 4 /\ c = "pairing") \/ (at = 5 /\ c = "ROLLBACK_STARTED")
        \/ (at = 6 /\ c = "releaseReserve") \/ (at = 7 /\ c = "bootoutIfLoaded")
        \/ (at = 8 /\ c = "drained") \/ (at = 9 /\ c = "takeLock") \/ (at = 10 /\ c = "pairing")
        \/ (at = 11 /\ c = "baseline") \/ (at = 12 /\ c = "archiveHold")
        \/ (at = 13 /\ c = "topology") \/ (at = 14 /\ c = "archiveNew")
        \/ (at = 15 /\ c = "FAILED_NEW_ARCHIVED") \/ (at = 16 /\ c = "restoreCurrent")
        \/ (at = 17 /\ c = "currentApp") \/ (at = 18 /\ c = "CURRENT_RESTORED")
        \/ (at = 19 /\ c = "resumable") \/ (at = 20 /\ c = "pairing")
        \/ (at = 21 /\ c = "baseline") \/ (at = 22 /\ c = "dropLock")
        \/ (at = 23 /\ c = "currentApp") \/ (at = 24 /\ c = "bootstrap")
        \/ (at = 25 /\ c = "CURRENT_BOOTSTRAPPED") \/ (at = 26 /\ c = "observe")
        \/ (at = 27 /\ c = "baselineDeployment") \/ (at = 28 /\ c = "pairing")
        \/ (at = 29 /\ c = "baseline") \/ (at = 30 /\ c = "ROLLED_BACK")
        \/ (at = 31 /\ c = "runtime") \/ (at = 32 /\ c = "resultRolledBack")
        \/ (at = 33 /\ c = "retirePointer")
    BY <1>3
  <2> HIDE DEF c
  <2>2. c \in States => c \in Rolling \cup {"ROLLED_BACK"} /\ n.start <= at /\ at <= n.done
    BY <1>4, <2>1, Alphabet, RollingStates DEF Progress, Restored
  <2>3. /\ c \in Restored => n.restore < at
        /\ c \in Restored \cup {"FAILED_NEW_ARCHIVED"} => n.sweep < at
    BY <1>4, <2>1 DEF Restored
  <2>4. /\ at = 1 => c = "healthy"
        /\ at = 2 => c = "pointer"
        /\ c = "ROLLBACK_STARTED" <=> at = n.start
        /\ c = "releaseReserve" <=> at = n.release
        /\ c = "archiveHold" <=> at = n.sweep
        /\ c = "takeLock" <=> at = n.lock
        /\ c = "restoreCurrent" <=> at = n.restore
        /\ c = "dropLock" <=> at = n.unlock
        /\ c = "bootstrap" <=> at = n.load
        /\ c = "ROLLED_BACK" <=> at = n.done
    BY <1>4, <2>1
  <2>5. /\ c = "terminateStaged" <=> (v = 1 /\ at = 6)
        /\ c = "resultRolledBack" <=> at = n.done + 2
        /\ c = "retirePointer" <=> at = n.done + 3
        /\ c = "archiveNew" => n.lock < at /\ n.start < at /\ at < n.restore
        /\ c = "bootoutIfLoaded" => at < n.load
    BY <1>4, <2>1
  <2>6. c \notin {"reserve", "publishPointer", "removeHoldRoot", "prepareHold", "holdCurrent",
                   "publishNew", "bootout", "spawnChild", "terminateChild", "resultSuccess",
                   "ensureResult", "export", "build", "reference"}
    BY <2>1
  <2>7. RollbackText(v, at, n, c)
    BY <1>4, <2>2, <2>3, <2>4, <2>5, <2>6 DEF RollbackText
  <2>8. QED BY <2>7 DEF c
<1>6. RollbackOrder(v, n)
  BY <1>4 DEF RollbackOrder
<1>7. /\ \A at \in 1..Len(plan) : RollbackText(v, at, n, Entry(plan, at))
      /\ RollbackOrder(v, n) /\ Len(plan) = n.done + 3
  BY <1>2, <1>4, <1>5, <1>6 DEF P
<1>8. QED BY <1>7 DEF n, plan

\* The rollback of v5 and v6.
LEMMA RollbackTextV5 ==
  ASSUME NEW v \in {5, 6}
  PROVE  LET p == Restore(v) \o <<"resultRolledBack", "retirePointer">>
             n == RollbackMarks(v)
         IN  /\ \A at \in 1..Len(p) : RollbackText(v, at, n, Entry(p, at))
             /\ RollbackOrder(v, n) /\ Len(p) = n.done + 3
<1> DEFINE plan == Restore(v) \o <<"resultRolledBack", "retirePointer">>
           P(i) == Entry(plan, i)
           n == RollbackMarks(v)
<1>1. Restore(v) = V5!rollback_to_current_baseline
  <2>1. CASE v = 5
    BY <2>1 DEF Restore
  <2>2. CASE v = 6
    BY <2>2 DEF Restore, V6!rollback_to_current_baseline, V5!rollback_to_current_baseline
  <2>3. QED BY <2>1, <2>2
<1>2. Len(plan) = 36
  BY <1>1 DEF V5!rollback_to_current_baseline
<1>3.
      /\ P(1) = "healthy" /\ P(2) = "pointer" /\ P(3) = "baseline" /\ P(4) = "pairing"
      /\ P(5) = "ROLLBACK_STARTED" /\ P(6) = "releaseReserve" /\ P(7) = "archiveHold"
      /\ P(8) = "pointer" /\ P(9) = "baseline" /\ P(10) = "pairing"
      /\ P(11) = "bootoutIfLoaded" /\ P(12) = "drained" /\ P(13) = "takeLock"
      /\ P(14) = "pairing" /\ P(15) = "baseline" /\ P(16) = "topology" /\ P(17) = "archiveNew"
      /\ P(18) = "FAILED_NEW_ARCHIVED" /\ P(19) = "restoreCurrent" /\ P(20) = "currentApp"
      /\ P(21) = "CURRENT_RESTORED" /\ P(22) = "resumable" /\ P(23) = "pairing"
      /\ P(24) = "baseline" /\ P(25) = "dropLock" /\ P(26) = "currentApp"
      /\ P(27) = "bootstrap" /\ P(28) = "CURRENT_BOOTSTRAPPED" /\ P(29) = "observe"
      /\ P(30) = "baselineDeployment" /\ P(31) = "pairing" /\ P(32) = "baseline"
      /\ P(33) = "ROLLED_BACK" /\ P(34) = "runtime" /\ P(35) = "resultRolledBack"
      /\ P(36) = "retirePointer"
  BY <1>1 DEF V5!rollback_to_current_baseline, Entry
<1>4. /\ n.start = 5 /\ n.release = 6 /\ n.sweep = 7 /\ n.lock = 13
      /\ n.restore = 19 /\ n.unlock = 25 /\ n.load = 27 /\ n.done = 33
  BY DEF RollbackMarks
<1> HIDE DEF P, n, plan
<1>5. ASSUME NEW at \in 1..36 PROVE RollbackText(v, at, n, P(at))
  <2> DEFINE c == P(at)
  <2>1.
        \/ (at = 1 /\ c = "healthy") \/ (at = 2 /\ c = "pointer") \/ (at = 3 /\ c = "baseline")
        \/ (at = 4 /\ c = "pairing") \/ (at = 5 /\ c = "ROLLBACK_STARTED")
        \/ (at = 6 /\ c = "releaseReserve") \/ (at = 7 /\ c = "archiveHold")
        \/ (at = 8 /\ c = "pointer") \/ (at = 9 /\ c = "baseline") \/ (at = 10 /\ c = "pairing")
        \/ (at = 11 /\ c = "bootoutIfLoaded") \/ (at = 12 /\ c = "drained")
        \/ (at = 13 /\ c = "takeLock") \/ (at = 14 /\ c = "pairing")
        \/ (at = 15 /\ c = "baseline") \/ (at = 16 /\ c = "topology")
        \/ (at = 17 /\ c = "archiveNew") \/ (at = 18 /\ c = "FAILED_NEW_ARCHIVED")
        \/ (at = 19 /\ c = "restoreCurrent") \/ (at = 20 /\ c = "currentApp")
        \/ (at = 21 /\ c = "CURRENT_RESTORED") \/ (at = 22 /\ c = "resumable")
        \/ (at = 23 /\ c = "pairing") \/ (at = 24 /\ c = "baseline")
        \/ (at = 25 /\ c = "dropLock") \/ (at = 26 /\ c = "currentApp")
        \/ (at = 27 /\ c = "bootstrap") \/ (at = 28 /\ c = "CURRENT_BOOTSTRAPPED")
        \/ (at = 29 /\ c = "observe") \/ (at = 30 /\ c = "baselineDeployment")
        \/ (at = 31 /\ c = "pairing") \/ (at = 32 /\ c = "baseline")
        \/ (at = 33 /\ c = "ROLLED_BACK") \/ (at = 34 /\ c = "runtime")
        \/ (at = 35 /\ c = "resultRolledBack") \/ (at = 36 /\ c = "retirePointer")
    BY <1>3
  <2> HIDE DEF c
  <2>2. c \in States => c \in Rolling \cup {"ROLLED_BACK"} /\ n.start <= at /\ at <= n.done
    BY <1>4, <2>1, Alphabet, RollingStates DEF Progress, Restored
  <2>3. /\ c \in Restored => n.restore < at
        /\ c \in Restored \cup {"FAILED_NEW_ARCHIVED"} => n.sweep < at
    BY <1>4, <2>1 DEF Restored
  <2>4. /\ at = 1 => c = "healthy"
        /\ at = 2 => c = "pointer"
        /\ c = "ROLLBACK_STARTED" <=> at = n.start
        /\ c = "releaseReserve" <=> at = n.release
        /\ c = "archiveHold" <=> at = n.sweep
        /\ c = "takeLock" <=> at = n.lock
        /\ c = "restoreCurrent" <=> at = n.restore
        /\ c = "dropLock" <=> at = n.unlock
        /\ c = "bootstrap" <=> at = n.load
        /\ c = "ROLLED_BACK" <=> at = n.done
    BY <1>4, <2>1
  <2>5. /\ c = "terminateStaged" <=> (v = 1 /\ at = 6)
        /\ c = "resultRolledBack" <=> at = n.done + 2
        /\ c = "retirePointer" <=> at = n.done + 3
        /\ c = "archiveNew" => n.lock < at /\ n.start < at /\ at < n.restore
        /\ c = "bootoutIfLoaded" => at < n.load
    BY <1>4, <2>1
  <2>6. c \notin {"reserve", "publishPointer", "removeHoldRoot", "prepareHold", "holdCurrent",
                   "publishNew", "bootout", "spawnChild", "terminateChild", "resultSuccess",
                   "ensureResult", "export", "build", "reference"}
    BY <2>1
  <2>7. RollbackText(v, at, n, c)
    BY <1>4, <2>2, <2>3, <2>4, <2>5, <2>6 DEF RollbackText
  <2>8. QED BY <2>7 DEF c
<1>6. RollbackOrder(v, n)
  BY <1>4 DEF RollbackOrder
<1>7. /\ \A at \in 1..Len(plan) : RollbackText(v, at, n, Entry(plan, at))
      /\ RollbackOrder(v, n) /\ Len(plan) = n.done + 3
  BY <1>2, <1>4, <1>5, <1>6 DEF P
<1>8. QED BY <1>7 DEF n, plan

\* v8's rollback.
LEMMA RollbackTextV8 ==
  ASSUME NEW v \in {8}
  PROVE  LET p == Restore(v) \o <<"resultRolledBack", "retirePointer">>
             n == RollbackMarks(v)
         IN  /\ \A at \in 1..Len(p) : RollbackText(v, at, n, Entry(p, at))
             /\ RollbackOrder(v, n) /\ Len(p) = n.done + 3
<1> DEFINE plan == Restore(v) \o <<"resultRolledBack", "retirePointer">>
           P(i) == Entry(plan, i)
           n == RollbackMarks(v)
<1>1. Restore(v) = V8!rollback_to_current_baseline
  BY DEF Restore
<1>2. Len(plan) = 37
  BY <1>1 DEF V8!rollback_to_current_baseline
<1>3.
      /\ P(1) = "healthy" /\ P(2) = "pointer" /\ P(3) = "baseline" /\ P(4) = "pairing"
      /\ P(5) = "ROLLBACK_STARTED" /\ P(6) = "releaseReserve" /\ P(7) = "archiveHold"
      /\ P(8) = "pointer" /\ P(9) = "baseline" /\ P(10) = "pairing" /\ P(11) = "launchAgent"
      /\ P(12) = "bootoutIfLoaded" /\ P(13) = "drained" /\ P(14) = "takeLock"
      /\ P(15) = "pairing" /\ P(16) = "baseline" /\ P(17) = "topology" /\ P(18) = "archiveNew"
      /\ P(19) = "FAILED_NEW_ARCHIVED" /\ P(20) = "restoreCurrent" /\ P(21) = "currentApp"
      /\ P(22) = "CURRENT_RESTORED" /\ P(23) = "resumable" /\ P(24) = "pairing"
      /\ P(25) = "baseline" /\ P(26) = "dropLock" /\ P(27) = "currentApp"
      /\ P(28) = "bootstrap" /\ P(29) = "CURRENT_BOOTSTRAPPED" /\ P(30) = "observe"
      /\ P(31) = "baselineDeployment" /\ P(32) = "pairing" /\ P(33) = "baseline"
      /\ P(34) = "ROLLED_BACK" /\ P(35) = "runtime" /\ P(36) = "resultRolledBack"
      /\ P(37) = "retirePointer"
  BY <1>1 DEF V8!rollback_to_current_baseline, Entry
<1>4. /\ n.start = 5 /\ n.release = 6 /\ n.sweep = 7 /\ n.lock = 14
      /\ n.restore = 20 /\ n.unlock = 26 /\ n.load = 28 /\ n.done = 34
  BY DEF RollbackMarks
<1> HIDE DEF P, n, plan
<1>5. ASSUME NEW at \in 1..37 PROVE RollbackText(v, at, n, P(at))
  <2> DEFINE c == P(at)
  <2>1.
        \/ (at = 1 /\ c = "healthy") \/ (at = 2 /\ c = "pointer") \/ (at = 3 /\ c = "baseline")
        \/ (at = 4 /\ c = "pairing") \/ (at = 5 /\ c = "ROLLBACK_STARTED")
        \/ (at = 6 /\ c = "releaseReserve") \/ (at = 7 /\ c = "archiveHold")
        \/ (at = 8 /\ c = "pointer") \/ (at = 9 /\ c = "baseline") \/ (at = 10 /\ c = "pairing")
        \/ (at = 11 /\ c = "launchAgent") \/ (at = 12 /\ c = "bootoutIfLoaded")
        \/ (at = 13 /\ c = "drained") \/ (at = 14 /\ c = "takeLock")
        \/ (at = 15 /\ c = "pairing") \/ (at = 16 /\ c = "baseline")
        \/ (at = 17 /\ c = "topology") \/ (at = 18 /\ c = "archiveNew")
        \/ (at = 19 /\ c = "FAILED_NEW_ARCHIVED") \/ (at = 20 /\ c = "restoreCurrent")
        \/ (at = 21 /\ c = "currentApp") \/ (at = 22 /\ c = "CURRENT_RESTORED")
        \/ (at = 23 /\ c = "resumable") \/ (at = 24 /\ c = "pairing")
        \/ (at = 25 /\ c = "baseline") \/ (at = 26 /\ c = "dropLock")
        \/ (at = 27 /\ c = "currentApp") \/ (at = 28 /\ c = "bootstrap")
        \/ (at = 29 /\ c = "CURRENT_BOOTSTRAPPED") \/ (at = 30 /\ c = "observe")
        \/ (at = 31 /\ c = "baselineDeployment") \/ (at = 32 /\ c = "pairing")
        \/ (at = 33 /\ c = "baseline") \/ (at = 34 /\ c = "ROLLED_BACK")
        \/ (at = 35 /\ c = "runtime") \/ (at = 36 /\ c = "resultRolledBack")
        \/ (at = 37 /\ c = "retirePointer")
    BY <1>3
  <2> HIDE DEF c
  <2>2. c \in States => c \in Rolling \cup {"ROLLED_BACK"} /\ n.start <= at /\ at <= n.done
    BY <1>4, <2>1, Alphabet, RollingStates DEF Progress, Restored
  <2>3. /\ c \in Restored => n.restore < at
        /\ c \in Restored \cup {"FAILED_NEW_ARCHIVED"} => n.sweep < at
    BY <1>4, <2>1 DEF Restored
  <2>4. /\ at = 1 => c = "healthy"
        /\ at = 2 => c = "pointer"
        /\ c = "ROLLBACK_STARTED" <=> at = n.start
        /\ c = "releaseReserve" <=> at = n.release
        /\ c = "archiveHold" <=> at = n.sweep
        /\ c = "takeLock" <=> at = n.lock
        /\ c = "restoreCurrent" <=> at = n.restore
        /\ c = "dropLock" <=> at = n.unlock
        /\ c = "bootstrap" <=> at = n.load
        /\ c = "ROLLED_BACK" <=> at = n.done
    BY <1>4, <2>1
  <2>5. /\ c = "terminateStaged" <=> (v = 1 /\ at = 6)
        /\ c = "resultRolledBack" <=> at = n.done + 2
        /\ c = "retirePointer" <=> at = n.done + 3
        /\ c = "archiveNew" => n.lock < at /\ n.start < at /\ at < n.restore
        /\ c = "bootoutIfLoaded" => at < n.load
    BY <1>4, <2>1
  <2>6. c \notin {"reserve", "publishPointer", "removeHoldRoot", "prepareHold", "holdCurrent",
                   "publishNew", "bootout", "spawnChild", "terminateChild", "resultSuccess",
                   "ensureResult", "export", "build", "reference"}
    BY <2>1
  <2>7. RollbackText(v, at, n, c)
    BY <1>4, <2>2, <2>3, <2>4, <2>5, <2>6 DEF RollbackText
  <2>8. QED BY <2>7 DEF c
<1>6. RollbackOrder(v, n)
  BY <1>4 DEF RollbackOrder
<1>7. /\ \A at \in 1..Len(plan) : RollbackText(v, at, n, Entry(plan, at))
      /\ RollbackOrder(v, n) /\ Len(plan) = n.done + 3
  BY <1>2, <1>4, <1>5, <1>6 DEF P
<1>8. QED BY <1>7 DEF n, plan

\* What each operation of a rollback does, and where.
LEMMA RollbackTexts ==
  ASSUME NEW v \in Controllers
  PROVE  LET p == Restore(v) \o <<"resultRolledBack", "retirePointer">>
             n == RollbackMarks(v)
         IN  /\ \A at \in 1..Len(p) : RollbackText(v, at, n, Entry(p, at))
             /\ RollbackOrder(v, n) /\ Len(p) = n.done + 3
  BY RollbackTextV1, RollbackTextV2, RollbackTextV5, RollbackTextV8 DEF Controllers

\* The retirements: checks, the result and, last, the pointer.
LEMMA RetireTexts ==
  ASSUME NEW v \in Controllers, NEW at \in 1..Len(Retire(v))
  PROVE  RetireText(v, at, Entry(Retire(v), at))
<1>1. CASE v = 1
  BY <1>1 DEF Retire, Entry, RetireText, V1!already_rolled_back
<1>2. CASE v # 1
  <2>1. Retire(v) = <<"runtime", "pairing", "ensureResult", "retirePointer">>
    BY <1>2 DEF Controllers, Retire, V2!already_rolled_back, V3!already_rolled_back,
       V4!already_rolled_back, V5!already_rolled_back, V6!already_rolled_back,
       V8!already_rolled_back
  <2>2. QED BY <2>1 DEF Entry, RetireText
<1>3. QED BY <1>1, <1>2

\* The plan that retires an update.
LEMMA RetireLength ==
  ASSUME NEW v \in Controllers
  PROVE  Len(Retire(v)) \in {3, 4}
<1>1. CASE v = 1
  BY <1>1 DEF Retire, V1!already_rolled_back
<1>2. CASE v # 1
  BY <1>2 DEF Controllers, Retire, V2!already_rolled_back, V3!already_rolled_back,
     V4!already_rolled_back, V5!already_rolled_back, V6!already_rolled_back,
     V8!already_rolled_back
<1>3. QED BY <1>1, <1>2

\* A rollback is asked for on a published pointer and a chain that is pinned.
LEMMA RequestNeeds ==
  ASSUME NEW v \in Controllers, Holds(v, "request")
  PROVE  ev[v].ptr = "active" /\ \A w \in 1..(v - 1) : Pinned(w)
<1>1. CASE v = 1
  BY <1>1 DEF Holds, V1!Holds, V1!rollback_existing_update
<1>2. CASE v = 2
  BY <1>2 DEF Holds, V2!Holds, V2!rollback_existing_paired_v2_update,
     V2!verify_committed_v1_baseline, V2!Pinned, Pinned
<1>3. CASE v = 3
  BY <1>3 DEF Holds, V3!Holds, V3!rollback_existing_paired_v3_update,
     V3!verify_committed_v1_baseline, V3!verify_committed_v2_baseline, V3!Pinned, Pinned
<1>4. CASE v = 4
  BY <1>4 DEF Holds, V4!Holds, V4!rollback_existing_paired_v4_update,
     V4!verify_committed_v1_baseline, V4!verify_committed_v2_baseline,
     V4!verify_committed_v3_baseline, V4!Pinned, Pinned
<1>5. CASE v = 5
  BY <1>5 DEF Holds, V5!Holds, V5!rollback_existing_paired_v5_update,
     V5!verify_committed_v1_baseline, V5!verify_committed_v2_baseline,
     V5!verify_committed_v3_baseline, V5!verify_committed_v4_baseline, V5!Pinned, Pinned
<1>6. CASE v = 6
  BY <1>6 DEF Holds, V6!Holds, V6!rollback_existing_paired_v6_update,
     V6!verify_committed_v1_baseline, V6!verify_committed_v2_baseline,
     V6!verify_committed_v3_baseline, V6!verify_committed_v4_baseline,
     V6!verify_committed_v5_baseline, V6!Pinned, Pinned
<1>8. CASE v = 8
  BY <1>8 DEF Holds, V8!Holds, V8!rollback_existing_paired_v8_update,
     V8!verify_committed_v1_baseline, V8!verify_committed_v2_baseline,
     V8!verify_committed_v3_baseline, V8!verify_committed_v4_baseline,
     V8!verify_committed_v5_baseline, V8!verify_committed_v6_baseline,
     V8!verify_committed_v7_baseline, V8!Pinned, Pinned
<1>9. QED BY <1>1, <1>2, <1>3, <1>4, <1>5, <1>6, <1>8 DEF Controllers

\* Two records that agree on everything the invariant speaks of.
Alike(r, s) == /\ s.state = r.state /\ s.ptr = r.ptr /\ s.kept = r.kept
               /\ s.hold = r.hold /\ s.reserve = r.reserve

\* Staging concerns the invariant in nothing.
LEMMA AfterStaging ==
  ASSUME NEW v \in Controllers, NEW c \in Staging, NEW r \in Evidence
  PROVE  After(v, c, r) \in Evidence /\ Alike(r, After(v, c, r))
<1>1. \E s \in {"exported", "built", "reference"} : After(v, c, r) = [r EXCEPT !.stage = s]
  <2>1. CASE v = 1
    BY <2>1 DEF After, V1!After, Staging, V1!export_source, V1!build_and_verify_staged_app,
       V1!prepare_deployment_reference
  <2>2. CASE v = 2
    BY <2>2 DEF After, V2!After, Staging, V2!export_v2_source, V2!build_and_verify_v2_staged_app,
       V2!prepare_v2_deployment_reference
  <2>3. CASE v = 3
    BY <2>3 DEF After, V3!After, Staging, V3!export_v3_source, V3!build_and_verify_v3_staged_app,
       V3!prepare_v3_deployment_reference
  <2>4. CASE v = 4
    BY <2>4 DEF After, V4!After, Staging, V4!export_v4_source, V4!build_and_verify_v4_staged_app,
       V4!prepare_v4_deployment_reference
  <2>5. CASE v = 5
    BY <2>5 DEF After, V5!After, Staging, V5!export_v5_source, V5!build_and_verify_v5_staged_app,
       V5!prepare_v5_deployment_reference
  <2>6. CASE v = 6
    BY <2>6 DEF After, V6!After, Staging, V6!export_v6_source, V6!build_and_verify_v6_staged_app,
       V6!prepare_v6_deployment_reference
  <2>8. CASE v = 8
    BY <2>8 DEF After, V8!After, Staging, V8!export_v8_source, V8!build_and_verify_v8_staged_app,
       V8!prepare_v8_deployment_reference
  <2>9. QED BY <2>1, <2>2, <2>3, <2>4, <2>5, <2>6, <2>8 DEF Controllers
<1>2. PICK s \in {"exported", "built", "reference"} : After(v, c, r) = [r EXCEPT !.stage = s]
  BY <1>1
<1>3. QED BY <1>2 DEF Evidence, Alike

\* Opening the journal cuts a torn record off and reads the last complete one.
LEMMA AfterOpen ==
  ASSUME NEW v \in Controllers, NEW r \in Evidence
  PROVE  /\ After(v, "open", r) \in Evidence /\ Alike(r, After(v, "open", r))
         /\ Reread(v, r) = r.state
<1>1. After(v, "open", r) = [r EXCEPT !.tail = "clean"] /\ Reread(v, r) = r.state
  <2>1. CASE v = 1
    BY <2>1 DEF After, V1!After, V1!Journal_open, Reread, V1!Reread, V1!parse_journal
  <2>2. CASE v = 2
    BY <2>2 DEF After, V2!After, V2!V2Journal_open, Reread, V2!Reread, V2!parse_v2_journal
  <2>3. CASE v = 3
    BY <2>3 DEF After, V3!After, V3!V3Journal_open, Reread, V3!Reread, V3!parse_v3_journal
  <2>4. CASE v = 4
    BY <2>4 DEF After, V4!After, V4!V4Journal_open, Reread, V4!Reread, V4!parse_v4_journal
  <2>5. CASE v = 5
    BY <2>5 DEF After, V5!After, V5!V5Journal_open, Reread, V5!Reread, V5!parse_v5_journal
  <2>6. CASE v = 6
    BY <2>6 DEF After, V6!After, V6!V6Journal_open, Reread, V6!Reread, V6!parse_v6_journal
  <2>8. CASE v = 8
    BY <2>8 DEF After, V8!After, V8!V8Journal_open, Reread, V8!Reread, V8!parse_v8_journal
  <2>9. QED BY <2>1, <2>2, <2>3, <2>4, <2>5, <2>6, <2>8 DEF Controllers
<1>2. QED BY <1>1 DEF Evidence, Alike

\* The install hold is filled.
LEMMA AfterPrepareHold ==
  ASSUME NEW v \in Controllers, NEW r \in Evidence
  PROVE  After(v, "prepareHold", r) = [r EXCEPT !.hold = "exact"]
<1>1. CASE v = 1
  BY <1>1 DEF After, V1!After, V1!prepare_install_hold
<1>2. CASE v = 2
  BY <1>2 DEF After, V2!After, V2!prepare_v2_install_hold
<1>3. CASE v = 3
  BY <1>3 DEF After, V3!After, V3!prepare_v3_install_hold
<1>4. CASE v = 4
  BY <1>4 DEF After, V4!After, V4!prepare_v4_install_hold
<1>5. CASE v = 5
  BY <1>5 DEF After, V5!After, V5!prepare_v5_install_hold
<1>6. CASE v = 6
  BY <1>6 DEF After, V6!After, V6!prepare_v6_install_hold
<1>8. CASE v = 8
  BY <1>8 DEF After, V8!After, V8!prepare_v8_install_hold
<1>9. QED BY <1>1, <1>2, <1>3, <1>4, <1>5, <1>6, <1>8 DEF Controllers

\* Clearing the install hold away: v1 does it only on a rollback just started.
LEMMA AfterArchiveHold ==
  ASSUME NEW v \in Controllers, NEW r \in Evidence
  PROVE  \E s \in Evidence :
           /\ After(v, "archiveHold", r) = s
           /\ s.state = r.state /\ s.ptr = r.ptr /\ s.kept = r.kept /\ s.reserve = r.reserve
           /\ s.hold \in {r.hold, "absent"}
           /\ v # 1 \/ ctl.state = "ROLLBACK_STARTED" => s.hold = "absent"
<1> DEFINE s == After(v, "archiveHold", r)
<1>1. \/ v = 1 /\ (r.hold = "absent" \/ ctl.state # "ROLLBACK_STARTED") /\ s = r
      \/ s = [r EXCEPT !.hold = "absent", !.quarantine = TRUE]
      \/ s = [r EXCEPT !.hold = "absent", !.quarantine = @ \/ r.hold = "exact"]
      \/ r.hold = "absent" /\ s = r
  <2>1. CASE v = 1
    BY <2>1 DEF After, V1!After, V1!archive_install_hold_if_present
  <2>2. CASE v = 2
    BY <2>2 DEF After, V2!After, V2!archive_v2_install_hold_if_present
  <2>3. CASE v = 3
    BY <2>3 DEF After, V3!After, V3!archive_v3_install_hold_if_present
  <2>4. CASE v = 4
    BY <2>4 DEF After, V4!After, V4!archive_v4_install_hold_if_present
  <2>5. CASE v = 5
    BY <2>5 DEF After, V5!After, V5!archive_v5_install_hold_root
  <2>6. CASE v = 6
    BY <2>6 DEF After, V6!After, V6!archive_v6_install_hold_root
  <2>8. CASE v = 8
    BY <2>8 DEF After, V8!After, V8!archive_v8_install_hold_root
  <2>9. QED BY <2>1, <2>2, <2>3, <2>4, <2>5, <2>6, <2>8 DEF Controllers
<1> HIDE DEF s
<1>2. CASE v = 1 /\ (r.hold = "absent" \/ ctl.state # "ROLLBACK_STARTED") /\ s = r
  BY <1>2 DEF s
<1> r.quarantine \in BOOLEAN
  BY DEF Evidence
<1>3. ASSUME NEW q \in BOOLEAN, s = [r EXCEPT !.hold = "absent", !.quarantine = q]
      PROVE  /\ s \in Evidence
             /\ s.state = r.state /\ s.ptr = r.ptr /\ s.kept = r.kept /\ s.reserve = r.reserve
             /\ s.hold = "absent"
  BY <1>3 DEF Evidence
<1>4. CASE r.hold = "absent" /\ s = r
  BY <1>4 DEF s
<1>5. QED BY <1>1, <1>2, <1>3, <1>4 DEF s

\* An append changes the last complete record.
LEMMA AppendedIs ==
  ASSUME NEW v \in Controllers, NEW r, NEW s
  PROVE  Appended(v, r, s) = [r EXCEPT !.state = s]
<1>1. CASE v = 1
  BY <1>1 DEF Appended, V1!Appended, V1!Journal_record
<1>2. CASE v = 2
  BY <1>2 DEF Appended, V2!Appended, V2!V2Journal_record
<1>3. CASE v = 3
  BY <1>3 DEF Appended, V3!Appended, V3!V3Journal_record
<1>4. CASE v = 4
  BY <1>4 DEF Appended, V4!Appended, V4!V4Journal_record
<1>5. CASE v = 5
  BY <1>5 DEF Appended, V5!Appended, V5!V5Journal_record
<1>6. CASE v = 6
  BY <1>6 DEF Appended, V6!Appended, V6!V6Journal_record
<1>8. CASE v = 8
  BY <1>8 DEF Appended, V8!Appended, V8!V8Journal_record
<1>9. QED BY <1>1, <1>2, <1>3, <1>4, <1>5, <1>6, <1>8 DEF Controllers

\* A rollback under way is not started again; its end is always recorded.
LEMMA RecordsDue ==
  ASSUME NEW v \in Controllers
  PROVE  /\ ~Due(v, "ROLLBACK_STARTED") => ctl.state \in Rolling
         /\ Due(v, "ROLLED_BACK")
<1>1. CASE v = 1
  BY <1>1 DEF Due, V1!due, V1!Rolling, Rolling, V1!States, States, V1!Rank, Rank,
     V1!UpdateState, UpdateState
<1>2. CASE v = 2
  BY <1>2 DEF Due, V2!due, V2!Rolling, Rolling, V2!States, States, V2!Rank, Rank,
     V2!UpdateState, UpdateState
<1>3. CASE v = 3
  BY <1>3 DEF Due, V3!due, V3!Rolling, Rolling, V3!States, States, V3!Rank, Rank,
     V3!UpdateState, UpdateState
<1>4. CASE v = 4
  BY <1>4 DEF Due, V4!due, V4!Rolling, Rolling, V4!States, States, V4!Rank, Rank,
     V4!UpdateState, UpdateState
<1>5. CASE v = 5
  BY <1>5 DEF Due, V5!due, V5!Rolling, Rolling, V5!States, States, V5!Rank, Rank,
     V5!UpdateState, UpdateState
<1>6. CASE v = 6
  BY <1>6 DEF Due, V6!due, V6!Rolling, Rolling, V6!States, States, V6!Rank, Rank,
     V6!UpdateState, UpdateState
<1>8. CASE v = 8
  BY <1>8 DEF Due, V8!due, V8!Rolling, Rolling, V8!States, States, V8!Rank, Rank,
     V8!UpdateState, UpdateState
<1>9. QED BY <1>1, <1>2, <1>3, <1>4, <1>5, <1>6, <1>8 DEF Controllers

\* v1 goes on after the pairing that its staged host committed.
LEMMA PairingSeen == Holds(1, "pairingCommit") => child = "paired"
  BY DEF Holds, V1!Holds, V1!wait_for_interactive_pairing

-----------------------------------------------------------------------------
(* Changes of one evidence directory.                                      *)

\* Another record in the directory of u.
LEMMA Put ==
  ASSUME NEW e \in [All -> Evidence], NEW u \in All, NEW r \in Evidence
  PROVE  Only(e, [e EXCEPT ![u] = r], u) /\ [e EXCEPT ![u] = r][u] = r
  BY DEF Only

\* Writing the result and the reserve.
LEMMA WriteResult ==
  ASSUME NEW e \in [All -> Evidence], NEW u \in All,
         NEW x \in {"success", "warning", "failed", "rolledBack", "critical"}
  PROVE  Only(e, write_result(e, u, x), u) /\ Alike(e[u], write_result(e, u, x)[u])
<1> DEFINE r == [e[u] EXCEPT !.result = x]
<1>1. e[u] \in Evidence
  OBVIOUS
<1>2. r \in Evidence /\ Alike(e[u], r)
  BY <1>1 DEF Evidence, Alike
<1>3. write_result(e, u, x) = [e EXCEPT ![u] = r]
  BY DEF write_result
<1> HIDE DEF r
<1>4. Only(e, [e EXCEPT ![u] = r], u) /\ [e EXCEPT ![u] = r][u] = r
  BY <1>2, Put
<1>5. QED BY <1>2, <1>3, <1>4 DEF Only

\* The release of the reserve leaves the rest of the evidence.
LEMMA ReleaseReserve ==
  ASSUME NEW e \in [All -> Evidence], NEW u \in All
  PROVE  LET f == release_rollback_reserve(e, u)
         IN  /\ Only(e, f, u)
             /\ f[u].state = e[u].state /\ f[u].ptr = e[u].ptr /\ f[u].kept = e[u].kept
             /\ f[u].hold = e[u].hold /\ f[u].reserve # "full"
<1> DEFINE x == IF e[u].reserve = "none" THEN "none" ELSE "released"
           r == [e[u] EXCEPT !.reserve = x]
<1>1. e[u] \in Evidence
  OBVIOUS
<1>2. /\ r \in Evidence /\ r.state = e[u].state /\ r.ptr = e[u].ptr /\ r.kept = e[u].kept
      /\ r.hold = e[u].hold /\ r.reserve # "full"
  BY <1>1 DEF Evidence
<1>3. release_rollback_reserve(e, u) = [e EXCEPT ![u] = r]
  BY DEF release_rollback_reserve
<1> HIDE DEF r
<1>4. Only(e, [e EXCEPT ![u] = r], u) /\ [e EXCEPT ![u] = r][u] = r
  BY <1>2, Put
<1>5. QED BY <1>2, <1>3, <1>4 DEF Only

\* The evidence e after version u's journal has taken the record s.
Journaled(e, u, s) == [e EXCEPT ![u] = Appended(u, @, s)]

\* A record leaves the rest of the evidence.
LEMMA AppendRecord ==
  ASSUME NEW e \in [All -> Evidence], NEW u \in Controllers, NEW s \in States
  PROVE  LET f == Journaled(e, u, s)
         IN  /\ Only(e, f, u) /\ f[u].state = s
             /\ f[u].ptr = e[u].ptr /\ f[u].kept = e[u].kept
             /\ f[u].hold = e[u].hold /\ f[u].reserve = e[u].reserve
<1> DEFINE r == [e[u] EXCEPT !.state = s]
<1>1. e[u] \in Evidence /\ u \in All
  BY DEF Controllers, All
<1>2. /\ r \in Evidence /\ r.state = s /\ r.ptr = e[u].ptr /\ r.kept = e[u].kept
      /\ r.hold = e[u].hold /\ r.reserve = e[u].reserve
  BY <1>1 DEF Evidence
<1>3. Appended(u, e[u], s) = r
  BY AppendedIs
<1> HIDE DEF r
<1>4. Only(e, [e EXCEPT ![u] = r], u) /\ [e EXCEPT ![u] = r][u] = r
  BY <1>1, <1>2, Put
<1>5. Journaled(e, u, s) = [e EXCEPT ![u] = r]
  BY <1>3 DEF Journaled
<1>6. QED BY <1>2, <1>4, <1>5 DEF Only

-----------------------------------------------------------------------------
(* The history: it suffices that the running controller's evidence stands.  *)

\* A step within one update keeps the history of all.
LEMMA HistoryStep ==
  ASSUME NEW v \in Versions, MachineType, History, Ahead(v), app' \in -1..8,
         Only(ev, ev', v), Stands(v, app', ev'[v])
  PROVE  History' /\ Turn(v)'
<1> v \in All /\ v \in Controllers
  BY VersionIsController DEF Controllers, All
<1> v \in 1..8
  BY DEF All
<1>1. \A w \in All \ {v} : /\ Pinned(w)' <=> Pinned(w)
                           /\ w \in Committed' <=> w \in Committed
                           /\ w \in Live' <=> w \in Live
                           /\ ev'[w].kept = ev[w].kept
  BY DEF Only, Pinned, Committed, Live
<1>2. \A w \in 1..(v - 1) : w \in All /\ w # v /\ Pinned(w)' /\ w \in Committed'
  <2>1. \A w \in 1..(v - 1) : w \in All /\ w # v
    BY DEF All
  <2>2. \A w \in 1..(v - 1) : Pinned(w)'
    BY <1>1, <2>1 DEF Ahead
  <2>3. \A w \in 1..(v - 1) : w \in Committed
    BY <2>1 DEF Ahead, Pinned, Committed
  <2>4. QED BY <1>1, <2>1, <2>2, <2>3
<1>3. Live' \subseteq {v} /\ \A w \in Committed' : w <= v
  <2>1. Live' \subseteq All /\ Committed' \subseteq All
    BY DEF Live, Committed
  <2>2. QED BY <1>1, <2>1 DEF Ahead
<1>4. \A w \in Committed' : w # v => ev'[w].kept = w - 1
  <2>1. Committed' \subseteq All
    BY DEF Committed
  <2>2. QED BY <1>1, <2>1 DEF History
<1>5. Turn(v)'
  BY <1>2, <1>3 DEF Turn, Ahead
<1>6. CASE ev'[v].ptr = "active" /\ ev'[v].state = "COMMITTED"
  <2>1. app' = v /\ ev'[v].kept = v - 1
    BY <1>6 DEF Stands, Reverted, Replaced
  <2>2. v \in Committed' /\ Live' = {}
    BY <1>3, <1>6 DEF Committed, Live
  <2>3. \A w \in All : w \in Committed' <=> w <= v
    BY <1>2, <1>3, <2>2 DEF All
  <2>4. QED BY <1>4, <1>5, <2>1, <2>2, <2>3 DEF History
<1>7. CASE ev'[v].ptr = "active" /\ ev'[v].state # "COMMITTED"
  <2>1. v \notin Committed' /\ Live' = {v}
    BY <1>3, <1>7 DEF Committed, Live
  <2>2. \A w \in All : w \in Committed' <=> w < v
    BY <1>2, <1>3, <2>1 DEF All
  <2>3. QED BY <1>2, <1>4, <1>5, <2>1, <2>2 DEF History
<1>8. CASE ev'[v].ptr # "active"
  <2>1. v \notin Committed' /\ Live' = {}
    BY <1>3, <1>8 DEF Committed, Live
  <2>2. \A w \in All : w \in Committed' <=> w <= v - 1
    BY <1>2, <1>3, <2>1 DEF All
  <2>3. app' = v - 1
    BY <1>8 DEF Stands, Reverted
  <2>4. QED BY <1>4, <1>5, <2>1, <2>2, <2>3 DEF History
<1>9. QED BY <1>6, <1>7, <1>8

\* A record that tells no more than the one it follows stands as well.
LEMMA StandsAgain ==
  ASSUME NEW v, NEW a, NEW r, NEW s, Stands(v, a, r),
         s.ptr = r.ptr, s.kept = r.kept, s.hold = r.hold,
         s.state = r.state \/ s.state \in Progress \cup {"ROLLBACK_STARTED", "CRITICAL_FAILURE"}
  PROVE  Stands(v, a, s)
  BY DEF Stands, Reverted, Replaced, Progress, Restored

-----------------------------------------------------------------------------
(* A command that fails.                                                   *)

\* The error path ends the controller, or turns an update into its rollback.
LEMMA FailOutcome ==
  ASSUME ControlType, Running, ctl.v \in Controllers,
         NEW e \in [All -> Evidence], NEW h, Fails(e, h)
  PROVE  /\ Only(e, ev', ctl.v)
         /\ ev'[ctl.v].ptr = e[ctl.v].ptr /\ ev'[ctl.v].kept = e[ctl.v].kept
         /\ ev'[ctl.v].hold = e[ctl.v].hold
         /\ ev'[ctl.v].state \in {e[ctl.v].state, "CRITICAL_FAILURE"}
         /\ child' = IF ctl.run = "forward" THEN "none" ELSE child
         /\ \/ ctl' = Idle
            \/ /\ ev' = e
               /\ ctl' = [ctl EXCEPT !.run = "rollback", !.why = "failure", !.at = 1,
                                     !.locked = FALSE, !.healthy = h]
<1> DEFINE v == ctl.v
           c == [e EXCEPT ![v] = Appended(v, @, "CRITICAL_FAILURE")]
<1>1. v \in All /\ v \in Controllers
  BY DEF Controllers, All
<1>2. \/ ctl' = Idle /\ ev' = write_result(e, v, "warning")
      \/ /\ ctl' = [ctl EXCEPT !.run = "rollback", !.why = "failure", !.at = 1,
                               !.locked = FALSE, !.healthy = h]
         /\ ev' = e
      \/ ctl' = Idle /\ ev' = write_result(release_rollback_reserve(e, v), v, "failed")
      \/ ctl' = Idle /\ ev' = write_result(c, v, "critical")
      \/ ctl' = Idle /\ ev' = write_result(e, v, "critical")
      \/ ctl' = Idle /\ ev' = e
  BY DEF Fails
<1>3. child' = IF ctl.run = "forward" THEN "none" ELSE child
  BY DEF Fails
<1>4. /\ c \in [All -> Evidence]
      /\ \A w \in All \ {v} : c[w] = e[w]
      /\ c[v].state = "CRITICAL_FAILURE" /\ c[v].ptr = e[v].ptr
      /\ c[v].kept = e[v].kept /\ c[v].hold = e[v].hold
  <2>1. "CRITICAL_FAILURE" \in States
    BY Alphabet
  <2>2. c = Journaled(e, v, "CRITICAL_FAILURE")
    BY DEF Journaled
  <2> HIDE DEF c
  <2>3. QED BY <1>1, <2>1, <2>2, AppendRecord DEF Only
<1> HIDE DEF c
<1> DEFINE Ends(f) == /\ Only(e, f, v)
                      /\ f[v].ptr = e[v].ptr /\ f[v].kept = e[v].kept /\ f[v].hold = e[v].hold
                      /\ f[v].state \in {e[v].state, "CRITICAL_FAILURE"}
<1>5. ASSUME NEW x \in {"warning", "critical"} PROVE Ends(write_result(e, v, x))
  <2>1. Only(e, write_result(e, v, x), v) /\ Alike(e[v], write_result(e, v, x)[v])
    BY <1>1, WriteResult
  <2>2. QED BY <2>1 DEF Alike
<1>6. Ends(write_result(release_rollback_reserve(e, v), v, "failed"))
  <2> DEFINE f == release_rollback_reserve(e, v)
  <2>1. /\ Only(e, f, v)
        /\ f[v].state = e[v].state /\ f[v].ptr = e[v].ptr /\ f[v].kept = e[v].kept
        /\ f[v].hold = e[v].hold
    BY <1>1, ReleaseReserve
  <2> HIDE DEF f
  <2>2. f \in [All -> Evidence]
    BY <2>1 DEF Only
  <2>3. Only(f, write_result(f, v, "failed"), v) /\ Alike(f[v], write_result(f, v, "failed")[v])
    BY <1>1, <2>2, WriteResult
  <2>4. Ends(write_result(f, v, "failed"))
    BY <2>1, <2>3 DEF Alike, Only
  <2>5. QED BY <2>4 DEF f
<1>7. Ends(write_result(c, v, "critical"))
  <2>1. Only(c, write_result(c, v, "critical"), v) /\ Alike(c[v], write_result(c, v, "critical")[v])
    BY <1>1, <1>4, WriteResult
  <2>2. \A w \in All \ {v} : write_result(c, v, "critical")[w] = e[w]
    BY <1>4, <2>1 DEF Only
  <2>3. Only(e, write_result(c, v, "critical"), v)
    BY <2>1, <2>2 DEF Only
  <2> DEFINE f == write_result(c, v, "critical")
  <2>4. f[v].state = c[v].state /\ f[v].ptr = c[v].ptr /\ f[v].kept = c[v].kept
        /\ f[v].hold = c[v].hold
    BY <2>1 DEF Alike
  <2> HIDE DEF f
  <2>5. Only(e, f, v)
    BY <2>3 DEF f
  <2>6. Ends(f)
    BY <1>4, <2>4, <2>5
  <2>7. QED BY <2>6 DEF f
<1>8. Ends(e)
  BY <1>1 DEF Only
<1> HIDE DEF Ends
<1>9. Ends(ev')
  BY <1>2, <1>5, <1>6, <1>7, <1>8
<1>10. \/ ctl' = Idle
       \/ /\ ev' = e
          /\ ctl' = [ctl EXCEPT !.run = "rollback", !.why = "failure", !.at = 1,
                                !.locked = FALSE, !.healthy = h]
  BY <1>2
<1>11. QED BY <1>3, <1>9, <1>10 DEF Ends

\* What every step leaves of the machine's types.
Rest == /\ app' \in -1..8 /\ proc' \in -1..8
        /\ job' \in BOOLEAN /\ seen' \in BOOLEAN /\ marked' \in BOOLEAN
        /\ repo' \in {"authorized", "moved"}
        /\ crashes' \in 0..MaxCrashes /\ faults' \in 0..MaxFaults

\* A rollback that has just begun has nothing to show.
LEMMA RollbackBegins ==
  ASSUME NEW v, NEW n, RollbackOrder(v, n)
  PROVE  /\ \A a, r : Undone(v, 1, n, a, r)
         /\ ~(1 > n.load) /\ ~(n.lock < 1)
<1>1. /\ n.start \in Nat /\ n.release \in Nat /\ n.sweep \in Nat /\ n.lock \in Nat
      /\ n.restore \in Nat /\ n.load \in Nat /\ n.done \in Nat
  BY DEF RollbackOrder
<1>2. n.start > 2 /\ n.release > 2 /\ n.sweep > 2 /\ n.lock > 2
  BY <1>1 DEF RollbackOrder
<1>3. n.restore > 2 /\ n.load > 2 /\ n.done > 2
  <2>1. n.restore > 2
    BY <1>1, <1>2 DEF RollbackOrder
  <2>2. n.unlock \in Nat /\ n.unlock > 2
    BY <1>1, <2>1 DEF RollbackOrder
  <2>3. QED BY <1>1, <2>1, <2>2 DEF RollbackOrder
<1>4. QED BY <1>1, <1>2, <1>3 DEF Undone

\* Whatever a failing command did, if the evidence it left stands.
LEMMA FailStep ==
  ASSUME IInv, Running, NEW v, v = ctl.v, NEW e, NEW h \in BOOLEAN, Fails(e, h),
         Rest, pairing' = pairing, Only(ev, e, v), Stands(v, app', e[v]),
         h => e[v].state = ctl.state, Through(ev[v], e[v]),
         e[v].state = ev[v].state \/ (Cmd \in States /\ e[v].state = Cmd),
         ctl.run # "forward" /\ child # "none" => e[1].ptr = "active" /\ e[1].state \in Staged
  PROVE  IInv' /\ Tells(v)
<1>1. v \in Versions /\ v \in Controllers /\ v \in All /\ Turn(v) /\ Ahead(v)
  BY VersionIsController DEF IInv, Controls, Turn, Ahead, Controllers, All
<1>2. e \in [All -> Evidence]
  BY DEF Only
<1>3. /\ Only(e, ev', v)
      /\ ev'[v].ptr = e[v].ptr /\ ev'[v].kept = e[v].kept /\ ev'[v].hold = e[v].hold
      /\ ev'[v].state \in {e[v].state, "CRITICAL_FAILURE"}
      /\ child' = IF ctl.run = "forward" THEN "none" ELSE child
      /\ \/ ctl' = Idle
         \/ /\ ev' = e
            /\ ctl' = [ctl EXCEPT !.run = "rollback", !.why = "failure", !.at = 1,
                                  !.locked = FALSE, !.healthy = h]
  BY <1>1, <1>2, FailOutcome DEF IInv
<1>4. Only(ev, ev', v)
  BY <1>2, <1>3 DEF Only
<1>5. Stands(v, app', ev'[v])
  BY <1>3, StandsAgain
<1>6. History' /\ Turn(v)'
  BY <1>1, <1>4, <1>5, HistoryStep DEF IInv, Rest
<1>7. MachineType'
  BY <1>3, <1>4 DEF IInv, MachineType, Rest, Only
<1>8. ControlType' /\ ~ctl'.locked
  <2>1. CASE ctl' = Idle
    BY <2>1, Alphabet DEF ControlType, Idle, Progress
  <2>2. CASE ctl' = [ctl EXCEPT !.run = "rollback", !.why = "failure", !.at = 1,
                                !.locked = FALSE, !.healthy = h]
    BY <2>2 DEF IInv, ControlType
  <2>3. QED BY <1>3, <2>1, <2>2
<1>9. Hosts'
  <2>1. CASE child' = "none"
    BY <1>8, <2>1 DEF Hosts
  <2>2. CASE child' # "none"
    <3>1. ctl.run # "forward" /\ child' = child
      BY <1>3, <2>2
    <3>2. e[1].ptr = "active" /\ e[1].state \in Staged
      BY <2>2, <3>1
    <3>3. ev'[1].ptr = "active" /\ ev'[1].state \in Staged
      BY <1>3, <3>2 DEF Only, Staged, All
    <3>4. QED BY <1>8, <3>1, <3>3 DEF IInv, Hosts
  <2>3. QED BY <2>1, <2>2
<1>10. Controls'
  <2>1. CASE ctl' = Idle
    BY <2>1 DEF Idle, Controls, Running
  <2>2. CASE /\ ev' = e
             /\ ctl' = [ctl EXCEPT !.run = "rollback", !.why = "failure", !.at = 1,
                                   !.locked = FALSE, !.healthy = h]
    <3>1. /\ ctl'.v = v /\ ctl'.run = "rollback" /\ ctl'.at = 1 /\ ctl'.locked = FALSE
          /\ ctl'.healthy = h /\ ctl'.state = ctl.state
      BY <2>2 DEF IInv, ControlType
    <3>2. RollbackOrder(v, RollbackMarks(v)) /\ 1 \in 1..Len(Plan')
      <4> DEFINE p == Restore(v) \o <<"resultRolledBack", "retirePointer">>
      <4>1. Plan' = p
        BY <3>1 DEF Plan
      <4>2. RollbackOrder(v, RollbackMarks(v)) /\ Len(p) = RollbackMarks(v).done + 3
        BY <1>1, RollbackTexts
      <4> HIDE DEF p
      <4>3. QED BY <4>1, <4>2 DEF RollbackOrder
    <3>3. Back(v, 1, RollbackMarks(v))'
      BY <3>1, <3>2, RollbackBegins DEF Back
    <3>4. QED BY <1>6, <2>2, <3>1, <3>2, <3>3 DEF Controls, Running
  <2>3. QED BY <1>3, <2>1, <2>2
<1>11. IInv'
  BY <1>6, <1>7, <1>8, <1>9, <1>10 DEF IInv
<1>12. Through(ev[v], ev'[v])
  BY <1>3 DEF Through, Concluded, InFlight
<1>13. Tells(v)
  BY <1>1, <1>3, <1>4, <1>12 DEF Tells
<1>14. QED BY <1>11, <1>13

-----------------------------------------------------------------------------
(* A command that succeeds.                                                *)

\* Where the running controller is in its plan.
LEMMA Commands ==
  ASSUME IInv, Running, NEW v, v = ctl.v
  PROVE  /\ v \in Versions /\ v \in Controllers /\ v \in All /\ v \in 1..8 /\ Turn(v)
         /\ ctl.run \in {"forward", "rollback", "retire"} /\ ctl.at \in 1..Len(Plan)
         /\ ctl.run = "forward" =>
              /\ ForwardText(v, ctl.at, ForwardMarks(v), Cmd)
              /\ ForwardOrder(v, ForwardMarks(v)) /\ Len(Plan) = ForwardMarks(v).commit + 1
              /\ Forward(v, ctl.at, ForwardMarks(v))
         /\ ctl.run = "rollback" =>
              /\ RollbackText(v, ctl.at, RollbackMarks(v), Cmd)
              /\ RollbackOrder(v, RollbackMarks(v)) /\ Len(Plan) = RollbackMarks(v).done + 3
              /\ Back(v, ctl.at, RollbackMarks(v))
         /\ ctl.run = "retire" =>
              /\ RetireText(v, ctl.at, Cmd)
              /\ Len(Plan) = Len(Retire(v)) /\ Retiring(v)
<1>1. v \in Versions /\ Turn(v) /\ ctl.at \in 1..Len(Plan)
  BY DEF IInv, Controls, Turn, Ahead
<1>2. v \in Controllers /\ v \in All /\ v \in 1..8
  BY <1>1, VersionIsController DEF Controllers, All
<1>3. ctl.run \in {"forward", "rollback", "retire"}
  BY DEF IInv, ControlType, Running
<1>4. Cmd = Entry(Plan, ctl.at)
  BY DEF Cmd, Entry
<1>5. CASE ctl.run = "forward"
  <2>1. Plan = Perform(v)
    BY <1>5 DEF Plan
  <2>2. /\ \A at \in 1..Len(Perform(v)) :
             ForwardText(v, at, ForwardMarks(v), Entry(Perform(v), at))
        /\ ForwardOrder(v, ForwardMarks(v)) /\ Len(Perform(v)) = ForwardMarks(v).commit + 1
    BY <1>2, ForwardTexts
  <2>3. Forward(v, ctl.at, ForwardMarks(v))
    BY <1>5 DEF IInv, Controls
  <2>4. ForwardText(v, ctl.at, ForwardMarks(v), Cmd)
    BY <1>1, <1>4, <2>1, <2>2
  <2>5. QED BY <1>1, <1>2, <1>5, <2>1, <2>2, <2>3, <2>4
<1>6. CASE ctl.run = "rollback"
  <2> DEFINE p == Restore(v) \o <<"resultRolledBack", "retirePointer">>
  <2>1. Plan = p
    BY <1>6 DEF Plan
  <2>2. /\ \A at \in 1..Len(p) : RollbackText(v, at, RollbackMarks(v), Entry(p, at))
        /\ RollbackOrder(v, RollbackMarks(v)) /\ Len(p) = RollbackMarks(v).done + 3
    BY <1>2, RollbackTexts
  <2> HIDE DEF p
  <2>3. Back(v, ctl.at, RollbackMarks(v))
    BY <1>6 DEF IInv, Controls
  <2>4. RollbackText(v, ctl.at, RollbackMarks(v), Cmd)
    BY <1>1, <1>4, <2>1, <2>2
  <2>5. QED BY <1>1, <1>2, <1>6, <2>1, <2>2, <2>3, <2>4
<1>7. CASE ctl.run = "retire"
  <2>1. Plan = Retire(v)
    BY <1>7 DEF Plan
  <2>2. RetireText(v, ctl.at, Entry(Retire(v), ctl.at))
    BY <1>1, <1>2, <2>1, RetireTexts
  <2>3. Retiring(v)
    BY <1>7 DEF IInv, Controls
  <2>4. QED BY <1>1, <1>2, <1>4, <1>7, <2>1, <2>2, <2>3
<1>8. QED BY <1>3, <1>5, <1>6, <1>7

\* A running controller has a plan.
LEMMA PlanLength ==
  ASSUME IInv, Running
  PROVE  Len(Plan) \in Nat
<1> SUFFICES ASSUME NEW v, v = ctl.v, NEW m, m = ForwardMarks(v), NEW n, n = RollbackMarks(v)
             PROVE  Len(Plan) \in Nat
  OBVIOUS
<1>1. v \in Controllers /\ ctl.run \in {"forward", "rollback", "retire"}
  BY Commands
<1>2. CASE ctl.run = "forward"
  BY <1>2, Commands DEF ForwardOrder
<1>3. CASE ctl.run = "rollback"
  BY <1>3, Commands DEF RollbackOrder
<1>4. CASE ctl.run = "retire"
  <2>1. Len(Plan) = Len(Retire(v))
    BY <1>4, Commands
  <2>2. QED BY <1>1, <2>1, RetireLength
<1>5. QED BY <1>1, <1>2, <1>3, <1>4

\* The controller's next state: the next command, or the end of the plan.
Goes(s, l) ==
  /\ ControlType'
  /\ \/ ctl.at = Len(Plan) /\ ctl' = Idle
     \/ /\ ctl.at < Len(Plan) /\ ctl'.v = ctl.v /\ ctl'.run = ctl.run
        /\ ctl'.at = ctl.at + 1 /\ ctl'.healthy = ctl.healthy
        /\ ctl'.state = s /\ ctl'.locked = l

\* A controller that goes on has a place, a journal state and a lock.
LEMMA OnwardGoes ==
  ASSUME ControlType, ctl.at \in 1..Len(Plan), Len(Plan) \in Nat
  PROVE  /\ ctl' = Onward(ctl) => Goes(ctl.state, ctl.locked)
         /\ \A s \in States : ctl' = Onward([ctl EXCEPT !.state = s]) => Goes(s, ctl.locked)
         /\ \A l \in BOOLEAN : ctl' = Onward([ctl EXCEPT !.locked = l]) => Goes(ctl.state, l)
<1> DEFINE Type == [v : 0..8, run : {"none", "forward", "rollback", "retire"},
                    why : {"none", "failure", "explicit"}, at : Nat, locked : BOOLEAN,
                    state : States, healthy : BOOLEAN]
<1>1. ASSUME NEW c \in Type, c.at = ctl.at, c.v = ctl.v, c.run = ctl.run,
             c.healthy = ctl.healthy, ctl' = Onward(c)
      PROVE  Goes(c.state, c.locked)
  <2>1. CASE ctl.at = Len(Plan)
    <3>1. ctl' = Idle
      BY <1>1, <2>1 DEF Onward
    <3>2. ctl' \in Type
      BY <3>1, Alphabet DEF Idle, Progress
    <3>3. QED BY <2>1, <3>1, <3>2 DEF Goes, ControlType
  <2>2. CASE ctl.at # Len(Plan)
    <3>1. ctl' = [c EXCEPT !.at = c.at + 1] /\ ctl.at < Len(Plan)
      BY <1>1, <2>2 DEF Onward
    <3>2. /\ ctl' \in Type
          /\ ctl'.v = c.v /\ ctl'.run = c.run /\ ctl'.at = c.at + 1
          /\ ctl'.healthy = c.healthy /\ ctl'.state = c.state /\ ctl'.locked = c.locked
      BY <3>1
    <3>3. QED BY <1>1, <3>1, <3>2 DEF Goes, ControlType
  <2>3. QED BY <2>1, <2>2
<1>2. ctl \in Type
  BY DEF ControlType
<1>3. ASSUME ctl' = Onward(ctl) PROVE Goes(ctl.state, ctl.locked)
  BY <1>1, <1>2, <1>3
<1>4. ASSUME NEW s \in States, ctl' = Onward([ctl EXCEPT !.state = s])
      PROVE  Goes(s, ctl.locked)
  <2> DEFINE c == [ctl EXCEPT !.state = s]
  <2>1. /\ c \in Type /\ c.at = ctl.at /\ c.v = ctl.v /\ c.run = ctl.run
        /\ c.healthy = ctl.healthy /\ c.state = s /\ c.locked = ctl.locked
    BY <1>2
  <2> HIDE DEF c
  <2>2. ctl' = Onward(c)
    BY <1>4 DEF c
  <2>3. Goes(c.state, c.locked)
    BY <1>1, <2>1, <2>2
  <2>4. QED BY <2>1, <2>3
<1>5. ASSUME NEW l \in BOOLEAN, ctl' = Onward([ctl EXCEPT !.locked = l])
      PROVE  Goes(ctl.state, l)
  <2> DEFINE c == [ctl EXCEPT !.locked = l]
  <2>1. /\ c \in Type /\ c.at = ctl.at /\ c.v = ctl.v /\ c.run = ctl.run
        /\ c.healthy = ctl.healthy /\ c.state = ctl.state /\ c.locked = l
    BY <1>2
  <2> HIDE DEF c
  <2>2. ctl' = Onward(c)
    BY <1>5 DEF c
  <2>3. Goes(c.state, c.locked)
    BY <1>1, <2>1, <2>2
  <2>4. QED BY <2>1, <2>3
<1>6. QED BY <1>3, <1>4, <1>5

\* What command c does to the app, from a to b, and to the evidence of v, from
\* r to t.  An append may be skipped.
Wrote(v, c, a, r, b, t) ==
  /\ t.state \in {r.state, c} /\ (c \notin States => t.state = r.state)
  /\ t.ptr = IF c = "publishPointer" THEN "active"
             ELSE IF c = "retirePointer" THEN "retired" ELSE r.ptr
  /\ c = "holdCurrent" => b = Nothing /\ t.kept = a
  /\ c = "publishNew" => b = v /\ t.kept = r.kept
  /\ c = "archiveNew" => t.kept = r.kept /\ (b = a \/ (b = Nothing /\ r.kept # Nothing))
  /\ c = "restoreCurrent" => IF r.kept # Nothing THEN b = r.kept /\ t.kept = Nothing
                             ELSE b = a /\ t.kept = r.kept
  /\ c \notin {"holdCurrent", "publishNew", "archiveNew", "restoreCurrent"} =>
       b = a /\ t.kept = r.kept
  /\ c = "removeHoldRoot" => t.hold = "absent"
  /\ c = "archiveHold" => t.hold \in {r.hold, "absent"}
  /\ c \notin {"prepareHold", "publishNew", "removeHoldRoot", "archiveHold"} => t.hold = r.hold
  /\ c = "releaseReserve" => t.reserve # "full"
  /\ c \notin {"reserve", "releaseReserve"} => t.reserve = r.reserve

\* The forward plan reaches the next place, if its append was made.
LEMMA ReachesNext ==
  ASSUME NEW v \in 1..8, NEW m, NEW at \in Nat, NEW c, ForwardText(v, at, m, c),
         ForwardOrder(v, m), NEW a, NEW r, NEW b, NEW t,
         Reached(v, at, m, a, r), Wrote(v, c, a, r, b, t), c \in States => t.state = c
  PROVE  Reached(v, at + 1, m, b, t)
<1> USE DEF ForwardOrder
<1> DEFINE at1 == at + 1
<1>1. at1 > m.pointer <=> t.ptr = "active"
  BY DEF ForwardText, Reached, Wrote
<1>2. at1 <= m.hold => Reverted(v, b, t)
  BY DEF ForwardText, Reached, Wrote, Reverted
<1>3. at1 > m.hold => t.kept = v - 1
  BY DEF ForwardText, Reached, Wrote, Reverted
<1>4. (m.hold < at1 /\ at1 <= m.publish) => b = Nothing
  BY DEF ForwardText, Reached, Wrote
<1>5. at1 > m.publish => b = v
  BY DEF ForwardText, Reached, Wrote
<1>6. at1 > m.unhold => t.hold = "absent"
  BY DEF ForwardText, Reached, Wrote
<1>7. at1 <= m.commit => t.state \in Progress
  BY DEF ForwardText, Reached, Wrote
<1>8. at1 > m.commit => t.state = "COMMITTED"
  <2>1. CASE c = "COMMITTED"
    BY <2>1, Alphabet
  <2>2. CASE c # "COMMITTED"
    BY <2>2 DEF ForwardText, Reached, Wrote
  <2>3. QED BY <2>1, <2>2
<1>9. (v = 1 /\ 19 < at1 /\ at1 <= 26) =>
        t.state \in {"V20_STOPPED", "INTERACTIVE_READY", "PAIRING_COMMITTED"}
  <2>1. CASE c \in States
    <3>1. v = 1 /\ at = 19 => c = "V20_STOPPED"
      BY DEF ForwardText
    <3>2. (v = 1 /\ 19 < at /\ at <= 26) => c \in {"V20_STOPPED", "INTERACTIVE_READY", "PAIRING_COMMITTED"}
      BY <2>1 DEF ForwardText
    <3>3. QED BY <2>1, <3>1, <3>2
  <2>2. CASE c \notin States
    <3>1. v = 1 => at # 19
      BY <2>2, Alphabet DEF ForwardText, Progress
    <3>2. QED BY <2>2, <3>1 DEF Reached, Wrote
  <2>3. QED BY <2>1, <2>2
<1>10. QED BY <1>1, <1>2, <1>3, <1>4, <1>5, <1>6, <1>7, <1>8, <1>9 DEF Reached

\* Wherever the forward plan is, its evidence stands.
LEMMA ReachedStands ==
  ASSUME NEW v \in 1..8, NEW m, NEW at \in Nat, ForwardOrder(v, m), NEW a, NEW r,
         Reached(v, at, m, a, r)
  PROVE  Stands(v, a, r)
<1> USE DEF ForwardOrder
<1>1. Reverted(v, a, r) \/ Replaced(v, a, r)
  BY DEF Reached, Replaced
<1>2. (r.ptr = "active" /\ r.state = "COMMITTED") => a = v
  BY DEF Reached, Progress
<1>3. r.ptr # "active" => Reverted(v, a, r)
  BY DEF Reached
<1>4. r.state \in Progress \cup {"COMMITTED"}
  BY DEF Reached
<1>5. r.state \notin Restored \cup {"FAILED_NEW_ARCHIVED"}
  BY <1>4 DEF Progress, Restored
<1>6. QED BY <1>1, <1>2, <1>3, <1>5 DEF Stands

\* What a rollback does keeps its evidence standing.
LEMMA RollbackStands ==
  ASSUME NEW v \in 1..8, NEW n, NEW at \in Nat, NEW c, RollbackText(v, at, n, c),
         RollbackOrder(v, n), NEW a, NEW r, NEW b, NEW t,
         Stands(v, a, r), Undone(v, at, n, a, r), Wrote(v, c, a, r, b, t)
  PROVE  Stands(v, b, t)
<1> USE DEF RollbackOrder
<1>1. Reverted(v, b, t) \/ Replaced(v, b, t)
  BY DEF Stands, Reverted, Replaced, Wrote, RollbackText, Nothing
<1>2. Reverted(v, a, r) => Reverted(v, b, t)
  BY DEF Reverted, Wrote, RollbackText, Nothing
<1>3. CASE c \in States
  <2>1. b = a /\ t.ptr = r.ptr /\ t.kept = r.kept /\ t.hold = r.hold /\ t.state \in {r.state, c}
    BY <1>3, Alphabet DEF Wrote, Progress, Restored
  <2>2. c \in Restored => Reverted(v, a, r)
    BY DEF RollbackText, Undone
  <2>3. c \in Restored \cup {"FAILED_NEW_ARCHIVED"} => r.hold = "absent"
    BY DEF RollbackText, Undone
  <2>4. c # "COMMITTED"
    BY <1>3, RollingStates DEF RollbackText
  <2>5. QED BY <1>1, <2>1, <2>2, <2>3, <2>4 DEF Stands, Reverted, Replaced
<1>4. CASE c \notin States
  <2>1. t.state = r.state
    BY <1>4 DEF Wrote
  <2>2. t.state \in Restored \cup {"FAILED_NEW_ARCHIVED"} => t.hold = "absent"
    BY <2>1 DEF Wrote, Stands, RollbackText
  <2>3. t.state \in Restored => Reverted(v, b, t)
    BY <1>2, <2>1 DEF Stands
  <2>4. t.ptr # "active" => Reverted(v, b, t)
    <3>1. CASE c = "retirePointer"
      BY <1>2, <3>1 DEF RollbackText, Undone
    <3>2. CASE c # "retirePointer"
      BY <1>2, <3>2 DEF Stands, Wrote, RollbackText
    <3>3. QED BY <3>1, <3>2
  <2>5. (t.ptr = "active" /\ t.state = "COMMITTED") => b = v
    <3>1. CASE c \in {"archiveNew", "restoreCurrent"}
      <4>1. r.state \in Rolling
        BY <3>1 DEF RollbackText, Undone
      <4>2. QED BY <2>1, <4>1, RollingStates
    <3>2. CASE c \notin {"archiveNew", "restoreCurrent"}
      BY <2>1, <3>2 DEF Stands, Wrote, RollbackText
    <3>3. QED BY <3>1, <3>2
  <2>6. QED BY <1>1, <2>2, <2>3, <2>4, <2>5 DEF Stands
<1>5. QED BY <1>3, <1>4

\* The rollback undoes what its next command is there for.
LEMMA UndoesNext ==
  ASSUME NEW v \in 1..8, NEW n, NEW at \in Nat, NEW c, RollbackText(v, at, n, c),
         RollbackOrder(v, n), NEW a, NEW r, NEW b, NEW t, at < n.done + 3,
         Stands(v, a, r), Undone(v, at, n, a, r), Wrote(v, c, a, r, b, t),
         c = "pointer" => r.ptr = "active",
         c = "archiveHold" => t.hold = "absent",
         t.state # c => (c = "ROLLBACK_STARTED" => r.state \in Rolling),
         c = "ROLLED_BACK" => t.state = c
  PROVE  Undone(v, at + 1, n, b, t)
<1> USE DEF RollbackOrder
<1> DEFINE at1 == at + 1
<1>1. at1 > 2 => t.ptr = "active"
  BY DEF RollbackText, Undone, Wrote
<1>2. (n.start < at1 /\ at1 <= n.done) => t.state \in Rolling
  <2>1. CASE at = n.start
    <3>1. c = "ROLLBACK_STARTED"
      BY <2>1 DEF RollbackText
    <3>2. QED BY <3>1, RollingStates DEF Wrote
  <2>2. CASE n.start < at /\ at < n.done
    <3>1. r.state \in Rolling
      BY <2>2 DEF Undone
    <3>2. c \in States => c \in Rolling
      <4>1. c # "ROLLED_BACK"
        BY <2>2 DEF RollbackText
      <4>2. QED BY <4>1 DEF RollbackText
    <3>3. QED BY <3>1, <3>2 DEF Wrote
  <2>3. QED BY <2>1, <2>2
<1>3. at1 > n.sweep => t.hold = "absent"
  BY DEF RollbackText, Undone, Wrote
<1>4. at1 > n.release => t.reserve # "full"
  BY DEF RollbackText, Undone, Wrote
<1>5. at1 > n.restore => Reverted(v, b, t)
  <2>1. CASE at = n.restore
    <3>1. c = "restoreCurrent"
      BY <2>1 DEF RollbackText
    <3>2. QED BY <3>1 DEF Wrote, Stands, Reverted, Replaced, Nothing
  <2>2. CASE at > n.restore
    BY <2>2 DEF RollbackText, Undone, Wrote, Reverted, Nothing
  <2>3. QED BY <2>1, <2>2
<1>6. at1 > n.done => t.state = "ROLLED_BACK"
  <2>1. CASE at = n.done
    BY <2>1 DEF RollbackText
  <2>2. CASE at > n.done
    <3>1. c \notin States
      BY <2>2 DEF RollbackText
    <3>2. QED BY <2>2, <3>1 DEF Undone, Wrote
  <2>3. QED BY <2>1, <2>2
<1>7. QED BY <1>1, <1>2, <1>3, <1>4, <1>5, <1>6 DEF Undone

\* Whatever the running command has written stands, whether it fails or not.
LEMMA StandsAfter ==
  ASSUME IInv, Running, NEW v, v = ctl.v, NEW b, NEW t,
         Wrote(v, Cmd, app, ev[v], b, t),
         ctl.run = "forward" /\ Cmd \in States => t.state = Cmd
  PROVE  /\ Stands(v, b, t) /\ Through(ev[v], t)
         /\ v = 1 /\ ctl.run # "forward" /\ child # "none" =>
              t.ptr = "active" /\ t.state \in Staged
<1>1. /\ v \in 1..8 /\ Turn(v) /\ Stands(v, app, ev[v])
      /\ ctl.run \in {"forward", "rollback", "retire"} /\ ctl.at \in Nat
  BY Commands DEF Turn, IInv, ControlType
<1>2. CASE ctl.run = "forward"
  <2> DEFINE m == ForwardMarks(v)
  <2>1. ForwardText(v, ctl.at, m, Cmd) /\ ForwardOrder(v, m) /\ Reached(v, ctl.at, m, app, ev[v])
    BY <1>2, Commands DEF Forward
  <2> HIDE DEF m
  <2>2. Reached(v, ctl.at + 1, m, b, t)
    BY <1>1, <1>2, <2>1, ReachesNext
  <2>3. Stands(v, b, t)
    BY <1>1, <2>1, <2>2, ReachedStands
  <2>4. Concluded(ev[v]) => Concluded(t)
    BY <1>1, <2>1, <2>2 DEF Concluded, Reached, ForwardOrder, Progress
  <2>5. Concluded(t) => Concluded(ev[v]) \/ InFlight(ev[v])
    BY <1>1, <2>1, <2>2 DEF Concluded, InFlight, Reached, ForwardOrder, Progress
  <2>6. QED BY <1>2, <2>3, <2>4, <2>5 DEF Through
<1>3. CASE ctl.run = "rollback"
  <2> DEFINE n == RollbackMarks(v)
  <2>1. /\ RollbackText(v, ctl.at, n, Cmd) /\ RollbackOrder(v, n)
        /\ Undone(v, ctl.at, n, app, ev[v]) /\ (v = 1 /\ ctl.at > 6 => child = "none")
    BY <1>3, Commands DEF Back
  <2> HIDE DEF n
  <2>2. Stands(v, b, t)
    BY <1>1, <2>1, RollbackStands
  <2>3. ASSUME v = 1, child # "none" PROVE t.ptr = "active" /\ t.state \in Staged
    <3>1. ev[v].ptr = "active" /\ ev[v].state \in Staged /\ ctl.at <= 6
      BY <1>1, <2>1, <2>3 DEF IInv, Hosts
    <3>2. Cmd \notin {"publishPointer", "retirePointer"}
      BY <2>1, <2>3, <3>1 DEF RollbackText, RollbackOrder
    <3>3. Cmd \in States => Cmd = "ROLLBACK_STARTED"
      <4>1. Cmd \notin Restored \cup {"FAILED_NEW_ARCHIVED"}
        BY <1>1, <2>1, <2>3, <3>1 DEF RollbackText, RollbackOrder
      <4>2. QED BY <2>1, <4>1, RollingStates DEF RollbackText, Restored
    <3>4. QED BY <3>1, <3>2, <3>3 DEF Wrote, Staged
  <2>4. Through(ev[v], t)
    <3>1. CASE Cmd \in States
      <4>1. t.ptr = ev[v].ptr /\ t.state \in {ev[v].state, Cmd}
        BY <3>1, Alphabet DEF Wrote, Progress, Restored
      <4>2. Cmd \in Rolling \cup {"ROLLED_BACK"} /\ (Cmd = "ROLLED_BACK" => ev[v].state \in Rolling)
        BY <2>1, <3>1 DEF RollbackText, Undone, RollbackOrder
      <4>3. QED BY <4>1, <4>2, RollingStates DEF Through, Concluded, InFlight
    <3>2. CASE Cmd \notin States
      <4>1. t.state = ev[v].state /\ Cmd # "publishPointer"
        BY <2>1, <3>2 DEF Wrote, RollbackText
      <4>2. Cmd = "retirePointer" => ev[v].state = "ROLLED_BACK"
        BY <2>1 DEF RollbackText, RollbackOrder, Undone
      <4>3. QED BY <4>1, <4>2 DEF Through, Concluded, Wrote
    <3>3. QED BY <3>1, <3>2
  <2>5. QED BY <2>2, <2>3, <2>4
<1>4. CASE ctl.run = "retire"
  <2>1. RetireText(v, ctl.at, Cmd) /\ Retiring(v)
    BY <1>4, Commands
  <2>2. Cmd \in {"runtime", "pairing", "ensureResult", "retirePointer"} /\ Cmd \notin States
    BY <2>1, Alphabet DEF RetireText, Progress, Restored
  <2>3. b = app /\ t.kept = ev[v].kept /\ t.hold = ev[v].hold /\ t.state = "ROLLED_BACK"
    BY <2>1, <2>2 DEF Wrote, Retiring
  <2>4. Reverted(v, app, ev[v]) /\ ev[v].hold = "absent"
    BY <1>1, <2>1 DEF Retiring, Stands, Restored
  <2>5. Stands(v, b, t)
    BY <2>3, <2>4 DEF Stands, Reverted, Restored
  <2>6. v = 1 => child = "none"
    BY <2>1 DEF IInv, Hosts, Retiring, Staged
  <2>7. Through(ev[v], t)
    BY <2>1, <2>3 DEF Through, Concluded, Retiring
  <2>8. QED BY <2>5, <2>6, <2>7
<1>5. QED BY <1>1, <1>2, <1>3, <1>4

\* A command fails before or after it wrote what it was to write.
LEMMA FailAfter ==
  ASSUME IInv, Running, NEW v, v = ctl.v, NEW e, NEW h \in BOOLEAN, Fails(e, h), Rest,
         pairing' = pairing, Only(ev, e, v),
         h => ctl.healthy /\ e[v].state = ev[v].state,
         Wrote(v, Cmd, app, ev[v], app', e[v]),
         ctl.run = "forward" /\ Cmd \in States => e[v].state = Cmd
  PROVE  IInv' /\ Tells(v)
<1>1. /\ Stands(v, app', e[v]) /\ Through(ev[v], e[v])
      /\ v = 1 /\ ctl.run # "forward" /\ child # "none" =>
           e[v].ptr = "active" /\ e[v].state \in Staged
  BY StandsAfter
<1>2. h => e[v].state = ctl.state
  BY DEF IInv, Controls
<1>3. ASSUME ctl.run # "forward", child # "none"
      PROVE  e[1].ptr = "active" /\ e[1].state \in Staged
  <2>1. CASE v = 1
    BY <1>1, <1>3, <2>1
  <2>2. CASE v # 1
    BY <1>3, <2>2 DEF Only, IInv, Hosts, All
  <2>3. QED BY <2>1, <2>2
<1>4. e[v].state = ev[v].state \/ (Cmd \in States /\ e[v].state = Cmd)
  BY DEF Wrote
<1>5. QED BY <1>1, <1>2, <1>3, <1>4, FailStep

\* A command fails and has written nothing that the invariant speaks of.
LEMMA FailBefore ==
  ASSUME IInv, Running, NEW v, v = ctl.v, NEW e, NEW h \in BOOLEAN, Fails(e, h), Rest,
         pairing' = pairing, app' = app, Only(ev, e, v), h => ctl.healthy,
         e[v].state = ev[v].state, e[v].ptr = ev[v].ptr, e[v].kept = ev[v].kept,
         e[v].hold = ev[v].hold \/ ev[v].state \in Progress
  PROVE  IInv' /\ Tells(v)
<1>1. Stands(v, app, ev[v])
  BY Commands DEF Turn
<1>2. Stands(v, app', e[v])
  <2>1. CASE e[v].hold = ev[v].hold
    BY <1>1, <2>1, StandsAgain
  <2>2. CASE ev[v].state \in Progress
    BY <1>1, <2>2 DEF Stands, Reverted, Replaced, Progress, Restored
  <2>3. QED BY <2>1, <2>2
<1>3. h => e[v].state = ctl.state
  BY DEF IInv, Controls
<1>4. ctl.run # "forward" /\ child # "none" => e[1].ptr = "active" /\ e[1].state \in Staged
  <2>1. child # "none" => ev[1].ptr = "active" /\ ev[1].state \in Staged
    BY DEF IInv, Hosts
  <2>2. CASE v = 1
    BY <2>1, <2>2
  <2>3. CASE v # 1
    BY <2>1, <2>3 DEF Only, All
  <2>4. QED BY <2>2, <2>3
<1>5. Through(ev[v], e[v])
  BY DEF Through, Concluded
<1>6. QED BY <1>2, <1>3, <1>4, <1>5, FailStep

\* What command c, succeeding, does to the machine and to the controller.
Did(v, c, s, l) ==
  /\ Only(ev, ev', v) /\ Wrote(v, c, app, ev[v], app', ev'[v])
  /\ Rest /\ proc' = proc /\ pairing' = pairing
  /\ job' = IF c = "bootstrap" THEN TRUE
            ELSE IF c \in {"bootout", "bootoutIfLoaded"} THEN job' ELSE job
  /\ child' = IF c = "spawnChild" THEN "running"
              ELSE IF c \in {"terminateChild", "terminateStaged"} THEN "none" ELSE child
  /\ l = IF c = "takeLock" THEN TRUE ELSE IF c = "dropLock" THEN FALSE ELSE ctl.locked
  /\ s = ev'[v].state \/ ~ctl.healthy
  /\ ctl.run = "forward" /\ c \in States => ev'[v].state = c
  /\ c = "takeLock" => proc = Nothing /\ child = "none"
  /\ v = 1 /\ c = "pairingCommit" => child = "paired"
  /\ c = "healthy" => ctl.healthy
  /\ c = "pointer" => ev[v].ptr = "active"
  /\ c = "archiveHold" => ev'[v].hold = "absent"
  /\ ctl.run = "rollback" /\ ev'[v].state # c => (c = "ROLLBACK_STARTED" => ctl.state \in Rolling)
  /\ ctl.run = "rollback" /\ c = "ROLLED_BACK" => ev'[v].state = c

\* The forward plan goes on.
LEMMA ForwardNext ==
  ASSUME IInv, Running, NEW v, v = ctl.v, NEW at, at = ctl.at, NEW c, c = Cmd,
         NEW m, m = ForwardMarks(v), NEW s, NEW l, Goes(s, l), Did(v, c, s, l),
         ctl.run = "forward"
  PROVE  /\ Reached(v, at + 1, m, app', ev'[v])
         /\ child' # "none" => v = 1 /\ 20 < at /\ at < 26
         /\ c = "spawnChild" => ~ctl.locked
         /\ ctl'.run = "forward" /\ ctl'.at = at + 1 /\ ctl'.healthy = ctl.healthy /\ ctl'.locked = l =>
              Forward(v, at + 1, m)'
<1>1. /\ v \in 1..8 /\ at \in Nat
      /\ ForwardText(v, at, m, c) /\ ForwardOrder(v, m) /\ Forward(v, at, m)
  BY Commands DEF IInv, ControlType
<1>2. Reached(v, at + 1, m, app', ev'[v])
  BY <1>1, ReachesNext DEF Forward, Did
<1> USE DEF ForwardOrder
<1>3. at + 1 > m.load => job'
  <2>1. CASE at = m.load
    BY <1>1, <2>1 DEF ForwardText, Did
  <2>2. CASE at > m.load
    <3>1. c \notin {"bootstrap", "bootout", "bootoutIfLoaded"}
      BY <1>1, <2>2 DEF ForwardText
    <3>2. job' = job
      BY <3>1 DEF Did
    <3>3. job
      BY <1>1, <2>2 DEF Forward
    <3>4. QED BY <3>2, <3>3
  <2>3. QED BY <1>1, <2>1, <2>2
<1>4. l <=> ((m.lock < at + 1 /\ at + 1 <= m.unlock) \/ (v = 1 /\ 18 < at + 1 /\ at + 1 <= 20))
  <2>1. CASE c = "takeLock"
    <3>1. l = TRUE
      BY <2>1 DEF Did
    <3>2. at = m.lock \/ (v = 1 /\ at = 18)
      BY <1>1, <2>1 DEF ForwardText
    <3>3. QED BY <1>1, <3>1, <3>2
  <2>2. CASE c = "dropLock"
    <3>1. l = FALSE
      BY <2>2 DEF Did
    <3>2. at = m.unlock \/ (v = 1 /\ at = 20)
      BY <1>1, <2>2 DEF ForwardText
    <3>3. QED BY <1>1, <3>1, <3>2
  <2>3. CASE c \notin {"takeLock", "dropLock"}
    <3>1. l = ctl.locked
      BY <2>3 DEF Did
    <3>2. /\ at # m.lock /\ at # m.unlock /\ (v = 1 => at # 18 /\ at # 20)
      BY <1>1, <2>3 DEF ForwardText
    <3>3. ctl.locked <=> ((m.lock < at /\ at <= m.unlock) \/ (v = 1 /\ 18 < at /\ at <= 20))
      BY <1>1 DEF Forward
    <3>4. QED BY <1>1, <3>1, <3>2, <3>3
  <2>4. QED BY <2>1, <2>2, <2>3
<1>5. v # 1 \/ at + 1 > 24 => pairing'
  <2>1. CASE v = 1 /\ at = 24
    <3>1. child = "paired"
      BY <1>1, <2>1 DEF ForwardText, Did
    <3>2. QED BY <3>1 DEF Did, IInv, Hosts
  <2>2. CASE v # 1 \/ at # 24
    BY <1>1, <2>2 DEF Forward, Did
  <2>3. QED BY <2>1, <2>2
<1>6. child' # "none" => v = 1 /\ 20 < at /\ at < 26
  <2>1. CASE c = "spawnChild"
    BY <1>1, <2>1 DEF ForwardText
  <2>2. CASE c # "spawnChild"
    <3>1. child' # "none" => child # "none" /\ c # "terminateChild"
      BY <2>2 DEF Did
    <3>2. child # "none" => v = 1 /\ 21 < at /\ at <= 26
      BY <1>1 DEF Forward
    <3>3. v = 1 /\ at = 26 => c = "terminateChild"
      BY <1>1 DEF ForwardText
    <3>4. QED BY <1>1, <3>1, <3>2, <3>3
  <2>3. QED BY <2>1, <2>2
<1>7. c = "spawnChild" => ~ctl.locked
  <2> SUFFICES ASSUME c = "spawnChild" PROVE ~ctl.locked
    OBVIOUS
  <2>1. v = 1 /\ at = 21
    BY <1>1 DEF ForwardText
  <2>2. QED BY <1>1, <2>1 DEF Forward
<1>8. ASSUME ctl'.healthy = ctl.healthy, ctl'.locked = l PROVE Forward(v, at + 1, m)'
  <2>1. ctl'.healthy
    BY <1>1, <1>8 DEF Forward
  <2>2. child' # "none" => v = 1 /\ 21 < at + 1 /\ at + 1 <= 26
    BY <1>1, <1>6
  <2>3. ctl'.locked <=> ((m.lock < at + 1 /\ at + 1 <= m.unlock) \/ (v = 1 /\ 18 < at + 1 /\ at + 1 <= 20))
    BY <1>4, <1>8
  <2>4. QED BY <1>2, <1>3, <1>5, <2>1, <2>2, <2>3 DEF Forward
<1>9. QED BY <1>2, <1>6, <1>7, <1>8

\* The rollback goes on.
LEMMA BackNext ==
  ASSUME IInv, Running, NEW v, v = ctl.v, NEW at, at = ctl.at, NEW c, c = Cmd,
         NEW n, n = RollbackMarks(v), NEW s, NEW l, Goes(s, l), Did(v, c, s, l),
         ctl.run = "rollback", at < n.done + 3, ctl.healthy,
         ctl'.healthy = ctl.healthy, ctl'.locked = l
  PROVE  Back(v, at + 1, n)'
<1>1. /\ v \in 1..8 /\ at \in Nat /\ Stands(v, app, ev[v])
      /\ RollbackText(v, at, n, c) /\ RollbackOrder(v, n) /\ Back(v, at, n)
  BY Commands DEF IInv, ControlType, Turn
<1>2. ctl.state = ev[v].state
  BY DEF IInv, Controls
<1>3. Undone(v, at + 1, n, app', ev'[v])
  <2>1. /\ Undone(v, at, n, app, ev[v]) /\ Wrote(v, c, app, ev[v], app', ev'[v])
        /\ c = "pointer" => ev[v].ptr = "active"
        /\ c = "archiveHold" => ev'[v].hold = "absent"
        /\ ev'[v].state # c => (c = "ROLLBACK_STARTED" => ev[v].state \in Rolling)
        /\ c = "ROLLED_BACK" => ev'[v].state = c
    BY <1>1, <1>2 DEF Back, Did
  <2>2. QED BY <1>1, <2>1, UndoesNext
<1> USE DEF RollbackOrder
<1>4. at + 1 > n.load => job'
  <2>1. CASE at = n.load
    BY <1>1, <2>1 DEF RollbackText, Did
  <2>2. CASE at > n.load
    <3>1. c \notin {"bootstrap", "bootout", "bootoutIfLoaded"}
      BY <1>1, <2>2 DEF RollbackText
    <3>2. job' = job
      BY <3>1 DEF Did
    <3>3. job
      BY <1>1, <2>2 DEF Back
    <3>4. QED BY <3>2, <3>3
  <2>3. QED BY <1>1, <2>1, <2>2
<1>5. l <=> (n.lock < at + 1 /\ at + 1 <= n.unlock)
  <2>1. CASE c = "takeLock"
    <3>1. l = TRUE /\ at = n.lock
      BY <1>1, <2>1 DEF Did, RollbackText
    <3>2. QED BY <1>1, <3>1
  <2>2. CASE c = "dropLock"
    <3>1. l = FALSE /\ at = n.unlock
      BY <1>1, <2>2 DEF Did, RollbackText
    <3>2. QED BY <1>1, <3>1
  <2>3. CASE c \notin {"takeLock", "dropLock"}
    <3>1. l = ctl.locked /\ at # n.lock /\ at # n.unlock
      BY <1>1, <2>3 DEF Did, RollbackText
    <3>2. ctl.locked <=> (n.lock < at /\ at <= n.unlock)
      BY <1>1 DEF Back
    <3>3. QED BY <1>1, <3>1, <3>2
  <2>4. QED BY <2>1, <2>2, <2>3
<1>6. v = 1 /\ at + 1 > 6 => child' = "none"
  <2>1. CASE v = 1 /\ at = 6
    BY <1>1, <2>1 DEF RollbackText, Did
  <2>2. CASE v # 1 \/ at # 6
    <3>1. c # "spawnChild"
      BY <1>1 DEF RollbackText
    <3>2. QED BY <1>1, <2>2, <3>1 DEF Did, Back
  <2>3. QED BY <2>1, <2>2
<1>7. ctl'.locked <=> (n.lock < at + 1 /\ at + 1 <= n.unlock)
  BY <1>5
<1>8. QED BY <1>3, <1>4, <1>6, <1>7 DEF Back

\* Whatever command succeeds.
LEMMA AdvanceStep ==
  ASSUME IInv, Running, NEW v, v = ctl.v, NEW s, NEW l, Goes(s, l), Did(v, Cmd, s, l)
  PROVE  IInv' /\ Tells(v)
<1> SUFFICES ASSUME NEW at, at = ctl.at, NEW c, c = Cmd,
                    NEW m, m = ForwardMarks(v), NEW n, n = RollbackMarks(v)
             PROVE  IInv' /\ Tells(v)
  OBVIOUS
<1>1. /\ v \in Versions /\ v \in Controllers /\ v \in All /\ v \in 1..8 /\ Turn(v)
      /\ ctl.run \in {"forward", "rollback", "retire"} /\ at \in Nat /\ at \in 1..Len(Plan)
      /\ Stands(v, app, ev[v])
  BY Commands DEF Turn, IInv, ControlType
<1>2. Only(ev, ev', v) /\ Wrote(v, c, app, ev[v], app', ev'[v]) /\ Rest
  BY DEF Did
<1>3. /\ Stands(v, app', ev'[v]) /\ Through(ev[v], ev'[v])
      /\ v = 1 /\ ctl.run # "forward" /\ child # "none" =>
           ev'[v].ptr = "active" /\ ev'[v].state \in Staged
  BY <1>2, StandsAfter DEF Did
<1>4. History' /\ Turn(v)'
  BY <1>1, <1>2, <1>3, HistoryStep DEF IInv, Rest, Turn
<1>5. MachineType'
  BY <1>2 DEF IInv, MachineType, Did, Rest, Only
<1>6. ControlType'
  BY DEF Goes
<1>7. ctl.healthy
  <2>1. CASE ctl.run = "rollback"
    <3>1. (at = 1 => c = "healthy") /\ (at > 1 => ctl.healthy)
      BY <2>1, Commands DEF RollbackText, Back
    <3>2. QED BY <1>1, <3>1 DEF Did
  <2>2. CASE ctl.run # "rollback"
    BY <1>1, <2>2, Commands DEF Forward, Retiring
  <2>3. QED BY <2>1, <2>2
<1>8. s = ev'[v].state
  BY <1>7 DEF Did
<1>9. ctl.run # "forward" => c # "spawnChild"
  BY <1>1, Commands DEF RollbackText, RetireText
<1>10. Hosts'
  <2>1. ASSUME child' # "none" PROVE ev'[1].ptr = "active" /\ ev'[1].state \in Staged
    <3>1. CASE v = 1 /\ ctl.run = "forward"
      <4>1. Reached(v, at + 1, m, app', ev'[v]) /\ 20 < at /\ at < 26
        BY <2>1, <3>1, ForwardNext
      <4>2. m.pointer \in Nat /\ m.pointer < 18
        BY <3>1, Commands DEF ForwardOrder
      <4>3. QED BY <1>1, <3>1, <4>1, <4>2 DEF Reached, Staged
    <3>2. CASE v = 1 /\ ctl.run # "forward"
      BY <1>3, <1>9, <2>1, <3>2 DEF Did
    <3>3. CASE v # 1
      <4>1. c # "spawnChild"
        BY <1>1, <3>3, Commands DEF ForwardText, RollbackText, RetireText
      <4>2. child # "none"
        BY <2>1, <4>1 DEF Did
      <4>3. QED BY <1>2, <3>3, <4>2 DEF IInv, Hosts, Only, All
    <3>4. QED BY <3>1, <3>2, <3>3
  <2>2. child' = "paired" => pairing'
    BY DEF Did, IInv, Hosts
  <2>3. ASSUME ctl'.locked PROVE proc' = Nothing /\ child' = "none"
    <3>1. l
      <4>1. ctl' # Idle
        BY <2>3 DEF Idle
      <4>2. ctl'.locked = l
        BY <4>1 DEF Goes
      <4>3. QED BY <2>3, <4>2
    <3>2. c # "spawnChild"
      <4>1. CASE ctl.run = "forward"
        <5>1. c = "spawnChild" => ~ctl.locked
          BY <4>1, ForwardNext
        <5>2. c = "spawnChild" => l = ctl.locked
          BY DEF Did
        <5>3. QED BY <3>1, <5>1, <5>2
      <4>2. QED BY <1>9, <4>1
    <3>3. proc = Nothing /\ child = "none"
      <4>1. CASE c = "takeLock"
        BY <4>1 DEF Did
      <4>2. CASE c # "takeLock"
        BY <3>1, <4>2 DEF Did, IInv, Hosts
      <4>3. QED BY <4>1, <4>2
    <3>4. QED BY <3>2, <3>3 DEF Did
  <2>4. QED BY <2>1, <2>2, <2>3 DEF Hosts
<1>11. Controls'
  <2>1. CASE ctl' = Idle
    BY <2>1 DEF Idle, Controls, Running
  <2>2. CASE /\ ctl.at < Len(Plan) /\ ctl'.v = ctl.v /\ ctl'.run = ctl.run
             /\ ctl'.at = ctl.at + 1 /\ ctl'.healthy = ctl.healthy
             /\ ctl'.state = s /\ ctl'.locked = l
    <3>1. /\ ctl'.v = v /\ ctl'.at = at + 1 /\ ctl'.healthy /\ ctl'.state = ev'[v].state
          /\ ctl'.locked = l /\ ctl'.run = ctl.run /\ Running'
      BY <1>7, <1>8, <2>2 DEF Running
    <3>2. Plan' = Plan
      BY <1>1, <2>2 DEF Plan
    <3>3. Len(Plan) \in Nat
      BY PlanLength
    <3>4. ctl'.at \in 1..Len(Plan')
      BY <1>1, <2>2, <3>1, <3>2, <3>3
    <3>5. CASE ctl.run = "forward"
      <4>1. Forward(v, at + 1, m)'
        BY <2>2, <3>5, <1>7, <3>1, ForwardNext
      <4>2. QED BY <1>4, <3>1, <3>4, <3>5, <4>1 DEF Controls
    <3>6. CASE ctl.run = "rollback"
      <4>1. at < n.done + 3
        BY <1>1, <2>2, <3>6, Commands
      <4>2. Back(v, at + 1, n)'
        BY <2>2, <3>6, <1>7, <4>1, BackNext
      <4>3. QED BY <1>4, <3>1, <3>4, <3>6, <4>2 DEF Controls
    <3>7. CASE ctl.run = "retire"
      <4>1. RetireText(v, at, c) /\ Len(Plan) = Len(Retire(v)) /\ Retiring(v)
        BY <3>7, Commands
      <4>2. c # "retirePointer" /\ c \in {"runtime", "pairing", "ensureResult"}
        BY <1>1, <2>2, <3>3, <4>1 DEF RetireText
      <4>3. c \notin States
        BY <4>2, Alphabet DEF Progress, Restored
      <4>4. ev'[v].ptr = ev[v].ptr /\ ev'[v].state = ev[v].state /\ l = ctl.locked
        BY <1>2, <4>2, <4>3 DEF Wrote, Did
      <4>5. Retiring(v)'
        BY <3>1, <4>1, <4>4 DEF Retiring
      <4>6. QED BY <1>4, <3>1, <3>4, <3>7, <4>5 DEF Controls
    <3>8. QED BY <1>1, <3>5, <3>6, <3>7
  <2>3. QED BY <2>1, <2>2 DEF Goes
<1>12. IInv'
  BY <1>4, <1>5, <1>6, <1>10, <1>11 DEF IInv
<1>13. Tells(v)
  BY <1>1, <1>2, <1>3 DEF Tells, Turn, Wrote
<1>14. QED BY <1>12, <1>13

-----------------------------------------------------------------------------
(* The commands, one by one.                                               *)

\* The commands that are not records.
LEMMA NotStates ==
  \A c \in Gates \cup Waits \cup Staging \cup Directory \cup
       {"observe", "resultSuccess", "prepareHold", "archiveHold", "holdCurrent", "publishNew",
        "archiveNew", "restoreCurrent", "bootout", "bootstrap", "bootoutIfLoaded", "takeLock",
        "dropLock", "spawnChild", "terminateChild", "terminateStaged"} : c \notin States
  BY Alphabet DEF Gates, Waits, Staging, Directory, Progress, Restored

\* The same of every running controller.
LEMMA Going ==
  ASSUME IInv, Running
  PROVE  /\ ctl' = Onward(ctl) => Goes(ctl.state, ctl.locked)
         /\ \A s \in States : ctl' = Onward([ctl EXCEPT !.state = s]) => Goes(s, ctl.locked)
         /\ \A l \in BOOLEAN : ctl' = Onward([ctl EXCEPT !.locked = l]) => Goes(ctl.state, l)
  BY PlanLength, Commands, OnwardGoes DEF IInv

\* A command that succeeds and is neither a record nor one of the host lock.
LEMMA Succeeds ==
  ASSUME IInv, Running, NEW v, v = ctl.v, NEW c, c = Cmd,
         c \notin States, c \notin {"takeLock", "dropLock"}, ctl' = Onward(ctl),
         Only(ev, ev', v), Wrote(v, c, app, ev[v], app', ev'[v]), Rest,
         proc' = proc, pairing' = pairing,
         job' = IF c = "bootstrap" THEN TRUE
                ELSE IF c \in {"bootout", "bootoutIfLoaded"} THEN job' ELSE job,
         child' = IF c = "spawnChild" THEN "running"
                  ELSE IF c \in {"terminateChild", "terminateStaged"} THEN "none" ELSE child,
         v = 1 /\ c = "pairingCommit" => child = "paired",
         c = "healthy" => ctl.healthy,
         c = "pointer" => ev[v].ptr = "active",
         c = "archiveHold" => ev'[v].hold = "absent"
  PROVE  IInv' /\ Tells(v)
<1>1. Goes(ctl.state, ctl.locked)
  BY Going
<1>2. ctl.state = ev'[v].state \/ ~ctl.healthy
  BY DEF Wrote, IInv, Controls
<1>3. c # "ROLLBACK_STARTED" /\ c # "ROLLED_BACK"
  BY Alphabet DEF Restored
<1>4. Did(v, c, ctl.state, ctl.locked)
  BY <1>2, <1>3 DEF Did
<1>5. QED BY <1>1, <1>4, AdvanceStep

\* A command that moves no bundle and no pointer keeps what was written.
LEMMA WroteNothing ==
  ASSUME NEW v, NEW c, NEW a, NEW r, NEW t, Alike(r, t),
         c \notin {"publishPointer", "retirePointer", "holdCurrent", "publishNew", "archiveNew",
                   "restoreCurrent", "removeHoldRoot", "releaseReserve"}
  PROVE  Wrote(v, c, a, r, a, t)
  BY DEF Wrote, Alike

\* The command failed and changed nothing.
LEMMA FailHere ==
  ASSUME IInv, Running, NEW v, v = ctl.v, Fail(ev), Rest, pairing' = pairing, app' = app
  PROVE  IInv' /\ Tells(v)
<1>1. ctl.healthy \in BOOLEAN /\ Only(ev, ev, v)
  BY DEF IInv, ControlType, MachineType, Only
<1>2. QED BY <1>1, FailBefore DEF Fail

\* Faults are counted.
LEMMA Spends ==
  ASSUME MachineType, Spend \/ UNCHANGED faults
  PROVE  faults' \in 0..MaxFaults
  BY PairedAssumption DEF MachineType, Spend

\* A controller checks what it relies on.
LEMMA CheckStep ==
  ASSUME IInv, Check, NEW v, v = ctl.v
  PROVE  IInv' /\ Tells(v)
<1> SUFFICES ASSUME NEW c, c = Cmd PROVE IInv' /\ Tells(v)
  OBVIOUS
<1>1. Running /\ c \in Gates /\ c \notin States
  BY NotStates DEF Check
<1>2. Rest /\ UNCHANGED <<app, job, proc, pairing>>
  BY Spends DEF Check, Advance, Rest, IInv, MachineType
<1>3. CASE GateHolds(c) /\ Advance(ev) /\ UNCHANGED child
  <2>1. Only(ev, ev', v) /\ Wrote(v, c, app, ev[v], app', ev'[v])
    <3>1. ev' = ev /\ Alike(ev[v], ev'[v])
      BY <1>3 DEF Advance, Alike
    <3>2. Wrote(v, c, app, ev[v], app, ev'[v])
      BY <1>1, <3>1, WroteNothing DEF Gates
    <3>3. QED BY <1>2, <3>1, <3>2 DEF IInv, MachineType, Only
  <2>2. (c = "healthy" => ctl.healthy) /\ (c = "pointer" => ev[v].ptr = "active")
    BY <1>3 DEF GateHolds, verify_update_pointer_at
  <2>3. /\ c \notin {"takeLock", "dropLock", "bootstrap", "bootout", "bootoutIfLoaded", "spawnChild",
                      "terminateChild", "terminateStaged", "pairingCommit", "archiveHold"}
    BY <1>1 DEF Gates
  <2>4. QED BY <1>1, <1>2, <1>3, <2>1, <2>2, <2>3, Succeeds DEF Advance
<1>4. CASE Fail(ev)
  BY <1>1, <1>2, <1>4, FailHere
<1>5. QED BY <1>3, <1>4 DEF Check

\* A controller waits.
LEMMA WaitStep ==
  ASSUME IInv, Wait, NEW v, v = ctl.v
  PROVE  IInv' /\ Tells(v)
<1> SUFFICES ASSUME NEW c, c = Cmd PROVE IInv' /\ Tells(v)
  OBVIOUS
<1>1. Running /\ c \in Waits /\ c \notin States
  BY NotStates DEF Wait
<1>2. Rest /\ UNCHANGED <<app, job, proc, pairing>>
  BY Spends DEF Wait, Advance, Rest, IInv, MachineType
<1>3. CASE WaitHolds(c) /\ Advance(ev) /\ UNCHANGED child
  <2>1. Only(ev, ev', v) /\ Wrote(v, c, app, ev[v], app', ev'[v])
    <3>1. ev' = ev /\ Alike(ev[v], ev'[v])
      BY <1>3 DEF Advance, Alike
    <3>2. Wrote(v, c, app, ev[v], app, ev'[v])
      BY <1>1, <3>1, WroteNothing DEF Waits
    <3>3. QED BY <1>2, <3>1, <3>2 DEF IInv, MachineType, Only
  <2>2. (v = 1 /\ c = "pairingCommit") => child = "paired"
    BY <1>3, PairingSeen DEF WaitHolds
  <2>3. /\ c \notin {"takeLock", "dropLock", "bootstrap", "bootout", "bootoutIfLoaded", "spawnChild",
                      "terminateChild", "terminateStaged", "archiveHold", "healthy", "pointer"}
    BY <1>1 DEF Waits
  <2>4. QED BY <1>1, <1>2, <1>3, <2>1, <2>2, <2>3, Succeeds DEF Advance
<1>4. CASE Fail(ev)
  BY <1>1, <1>2, <1>4, FailHere
<1>5. QED BY <1>3, <1>4 DEF Wait

\* A controller observes the host.
LEMMA ObserveStep ==
  ASSUME IInv, Observe, NEW v, v = ctl.v
  PROVE  IInv' /\ Tells(v)
<1> SUFFICES ASSUME NEW c, c = Cmd PROVE IInv' /\ Tells(v)
  OBVIOUS
<1>1. Running /\ c = "observe" /\ c \notin States
  BY NotStates DEF Observe
<1>2. Rest /\ UNCHANGED <<app, job, proc, pairing>>
  BY Spends DEF Observe, Advance, Rest, IInv, MachineType
<1>3. CASE Advance(ev) /\ UNCHANGED child
  <2>1. Only(ev, ev', v) /\ Wrote(v, c, app, ev[v], app', ev'[v])
    <3>1. ev' = ev /\ Alike(ev[v], ev'[v])
      BY <1>3 DEF Advance, Alike
    <3>2. Wrote(v, c, app, ev[v], app, ev'[v])
      BY <1>1, <3>1, WroteNothing
    <3>3. QED BY <1>2, <3>1, <3>2 DEF IInv, MachineType, Only
  <2>2. QED BY <1>1, <1>2, <1>3, <2>1, Succeeds DEF Advance
<1>4. CASE Fail(ev)
  BY <1>1, <1>2, <1>4, FailHere
<1>5. QED BY <1>3, <1>4 DEF Observe

\* A command that writes one evidence directory and nothing else.
LEMMA ActedStep ==
  ASSUME IInv, Running, NEW v, v = ctl.v, NEW c, c = Cmd, c \notin States,
         c \notin {"takeLock", "dropLock", "bootstrap", "bootout", "bootoutIfLoaded", "spawnChild",
                   "terminateChild", "terminateStaged", "pairingCommit", "healthy", "pointer"},
         NEW e, Acted(e), Only(ev, e, v), Wrote(v, c, app, ev[v], app, e[v]),
         c = "archiveHold" => e[v].hold = "absent",
         UNCHANGED <<app, job, proc, seen, marked, pairing, repo, crashes>>
  PROVE  IInv' /\ Tells(v)
<1>1. Rest
  BY Spends DEF Acted, Advance, Rest, IInv, MachineType
<1>2. CASE Advance(e) /\ UNCHANGED child
  <2>1. ev' = e /\ ctl' = Onward(ctl) /\ app' = app /\ proc' = proc /\ pairing' = pairing /\ job' = job
    BY <1>2 DEF Advance
  <2>2. Only(ev, ev', v) /\ Wrote(v, c, app, ev[v], app', ev'[v])
    BY <2>1
  <2>3. QED BY <1>1, <1>2, <2>1, <2>2, Succeeds
<1>3. CASE Fail(ev)
  BY <1>1, <1>3, FailHere
<1>4. CASE Fail(e)
  <2>1. Fails(e, ctl.healthy) /\ ctl.healthy \in BOOLEAN
    BY <1>4 DEF Fail, IInv, ControlType
  <2>2. Wrote(v, c, app, ev[v], app', e[v]) /\ e[v].state = ev[v].state
    BY DEF Wrote
  <2>3. QED BY <1>1, <2>1, <2>2, FailAfter
<1>5. QED BY <1>2, <1>3, <1>4 DEF Acted

\* A command on the transaction's directory changes its evidence only.
LEMMA DirectoryWrites ==
  ASSUME ev \in [All -> Evidence], NEW v \in All, v = ctl.v, NEW c \in Directory, c \notin States
  PROVE  Only(ev, Directed(c), v) /\ Wrote(v, c, app, ev[v], app, Directed(c)[v])
<1>1. ev[v] \in Evidence
  OBVIOUS
<1>2. CASE c \in {"resultRolledBack", "ensureResult"}
  <2>1. Directed(c) = write_result(ev, v, "rolledBack") \/ Directed(c) = ev
    BY <1>2 DEF Directed, ensure_rolled_back_result
  <2>2. ASSUME NEW e, Only(ev, e, v), Alike(ev[v], e[v])
        PROVE  Wrote(v, c, app, ev[v], app, e[v])
    BY <1>2, <2>2, WroteNothing
  <2>3. CASE Directed(c) = write_result(ev, v, "rolledBack")
    BY <2>2, <2>3, WriteResult
  <2>4. CASE Directed(c) = ev
    BY <2>2, <2>4 DEF Only, Alike
  <2>5. QED BY <2>1, <2>3, <2>4
<1>3. CASE c = "releaseReserve"
  <2>1. Directed(c) = release_rollback_reserve(ev, v)
    BY <1>3 DEF Directed
  <2>2. QED BY <1>3, <2>1, ReleaseReserve DEF Wrote
<1>4. CASE c = "reserve"
  <2> DEFINE r == [ev[v] EXCEPT !.reserve = "full"]
  <2>1. r \in Evidence
    BY <1>1 DEF Evidence
  <2>2. r.reserve = "full" /\ r.state = ev[v].state /\ r.ptr = ev[v].ptr /\ r.kept = ev[v].kept /\ r.hold = ev[v].hold
    BY <1>1 DEF Evidence
  <2>3. Directed(c) = [ev EXCEPT ![v] = r]
    BY <1>4 DEF Directed, allocate_rollback_reserve
  <2> HIDE DEF r
  <2>4. Only(ev, [ev EXCEPT ![v] = r], v) /\ [ev EXCEPT ![v] = r][v] = r
    BY <2>1, Put
  <2>5. Wrote(v, c, app, ev[v], app, r)
    BY <1>4, <2>2 DEF Wrote
  <2>6. QED BY <2>3, <2>4, <2>5
<1>5. CASE c = "publishPointer"
  <2> DEFINE r == [ev[v] EXCEPT !.ptr = "active"]
  <2>1. r \in Evidence
    BY <1>1 DEF Evidence
  <2>2. r.ptr = "active" /\ r.state = ev[v].state /\ r.kept = ev[v].kept /\ r.hold = ev[v].hold /\ r.reserve = ev[v].reserve
    BY <1>1 DEF Evidence
  <2>3. Directed(c) = [ev EXCEPT ![v] = r]
    BY <1>5 DEF Directed
  <2> HIDE DEF r
  <2>4. Only(ev, [ev EXCEPT ![v] = r], v) /\ [ev EXCEPT ![v] = r][v] = r
    BY <2>1, Put
  <2>5. Wrote(v, c, app, ev[v], app, r)
    BY <1>5, <2>2 DEF Wrote
  <2>6. QED BY <2>3, <2>4, <2>5
<1>6. CASE c = "removeHoldRoot"
  <2> DEFINE r == [ev[v] EXCEPT !.hold = "absent"]
  <2>1. r \in Evidence
    BY <1>1 DEF Evidence
  <2>2. r.hold = "absent" /\ r.state = ev[v].state /\ r.ptr = ev[v].ptr /\ r.kept = ev[v].kept /\ r.reserve = ev[v].reserve
    BY <1>1 DEF Evidence
  <2>3. Directed(c) = [ev EXCEPT ![v] = r]
    BY <1>6 DEF Directed
  <2> HIDE DEF r
  <2>4. Only(ev, [ev EXCEPT ![v] = r], v) /\ [ev EXCEPT ![v] = r][v] = r
    BY <2>1, Put
  <2>5. Wrote(v, c, app, ev[v], app, r)
    BY <1>6, <2>2 DEF Wrote
  <2>6. QED BY <2>3, <2>4, <2>5
<1>7. CASE c = "retirePointer"
  <2> DEFINE r == [ev[v] EXCEPT !.ptr = "retired"]
  <2>1. r \in Evidence
    BY <1>1 DEF Evidence
  <2>2. r.ptr = "retired" /\ r.state = ev[v].state /\ r.kept = ev[v].kept /\ r.hold = ev[v].hold /\ r.reserve = ev[v].reserve
    BY <1>1 DEF Evidence
  <2>3. Directed(c) = [ev EXCEPT ![v] = r]
    BY <1>7 DEF Directed, retire_update_pointer_at
  <2> HIDE DEF r
  <2>4. Only(ev, [ev EXCEPT ![v] = r], v) /\ [ev EXCEPT ![v] = r][v] = r
    BY <2>1, Put
  <2>5. Wrote(v, c, app, ev[v], app, r)
    BY <1>7, <2>2 DEF Wrote
  <2>6. QED BY <2>3, <2>4, <2>5
<1>8. QED BY <1>2, <1>3, <1>4, <1>5, <1>6, <1>7 DEF Directory

\* A controller writes evidence.
LEMMA WriteEvidenceStep ==
  ASSUME IInv, WriteEvidence, NEW v, v = ctl.v
  PROVE  IInv' /\ Tells(v)
<1> SUFFICES ASSUME NEW c, c = Cmd PROVE IInv' /\ Tells(v)
  OBVIOUS
<1>1. /\ Running /\ c \in Directory \cup Staging \cup {"resultSuccess"}
      /\ UNCHANGED <<app, job, proc, seen, marked, pairing, repo, crashes>>
  BY DEF WriteEvidence
<1>2. c \notin States
  BY <1>1, NotStates
<1>3. c \notin {"takeLock", "dropLock", "bootstrap", "bootout", "bootoutIfLoaded", "spawnChild",
                "terminateChild", "terminateStaged", "pairingCommit", "healthy", "pointer",
                "archiveHold"}
  BY <1>1 DEF Directory, Staging
<1>4. v \in All /\ v \in Controllers /\ ev \in [All -> Evidence]
  BY <1>1, Commands DEF IInv, MachineType
<1>5. CASE c \in Directory /\ Acted(Directed(c))
  <2>1. Only(ev, Directed(c), v) /\ Wrote(v, c, app, ev[v], app, Directed(c)[v])
    BY <1>2, <1>4, <1>5, DirectoryWrites
  <2>2. QED BY <1>1, <1>2, <1>3, <1>5, <2>1, ActedStep
<1>6. CASE c \in Staging /\ Acted([ev EXCEPT ![v] = After(v, c, @)])
  <2> DEFINE r == After(v, c, ev[v])
             e == [ev EXCEPT ![v] = r]
  <2>1. r \in Evidence /\ Alike(ev[v], r)
    BY <1>4, <1>6, AfterStaging
  <2>2. Wrote(v, c, app, ev[v], app, r)
    BY <1>6, <2>1, WroteNothing DEF Staging
  <2>3. Acted(e)
    BY <1>6
  <2> HIDE DEF r
  <2>4. Only(ev, e, v) /\ e[v] = r
    BY <1>4, <2>1, Put
  <2> HIDE DEF e
  <2>5. QED BY <1>1, <1>2, <1>3, <2>2, <2>3, <2>4, ActedStep
<1>7. CASE c = "resultSuccess" /\ Acted(write_result(ev, v, "success"))
  <2> DEFINE e == write_result(ev, v, "success")
  <2>1. Only(ev, e, v) /\ Alike(ev[v], e[v])
    BY <1>4, WriteResult
  <2>2. Wrote(v, c, app, ev[v], app, e[v])
    BY <1>7, <2>1, WroteNothing
  <2> HIDE DEF e
  <2>3. QED BY <1>1, <1>2, <1>3, <1>7, <2>1, <2>2, ActedStep DEF e
<1>8. QED BY <1>5, <1>6, <1>7 DEF WriteEvidence

\* What an interrupted copy may leave of the install hold.
LEMMA HoldWrites ==
  ASSUME ev \in [All -> Evidence], NEW v \in All, v = ctl.v,
         NEW h \in {"absent", "empty", "partial", "exact"}
  PROVE  /\ Only(ev, InHold(h), v) /\ InHold(h)[v].state = ev[v].state
         /\ InHold(h)[v].ptr = ev[v].ptr /\ InHold(h)[v].kept = ev[v].kept
         /\ InHold(h)[v].reserve = ev[v].reserve
<1> DEFINE r == [ev[v] EXCEPT !.hold = h]
<1>1. ev[v] \in Evidence
  OBVIOUS
<1>2. /\ r \in Evidence /\ r.state = ev[v].state /\ r.ptr = ev[v].ptr /\ r.kept = ev[v].kept
      /\ r.reserve = ev[v].reserve
  BY <1>1 DEF Evidence
<1>3. InHold(h) = [ev EXCEPT ![v] = r]
  BY DEF InHold
<1> HIDE DEF r
<1>4. Only(ev, [ev EXCEPT ![v] = r], v) /\ [ev EXCEPT ![v] = r][v] = r
  BY <1>2, Put
<1>5. QED BY <1>2, <1>3, <1>4

\* The install hold is prepared before the switch, in the forward plan.
LEMMA HoldIsEarly ==
  ASSUME IInv, Running, Cmd = "prepareHold", NEW v, v = ctl.v
  PROVE  ctl.run = "forward" /\ ev[v].state \in Progress
<1> SUFFICES ASSUME NEW m, m = ForwardMarks(v) PROVE ctl.run = "forward" /\ ev[v].state \in Progress
  OBVIOUS
<1>1. ctl.run = "forward"
  BY Commands DEF RollbackText, RetireText
<1>2. /\ ForwardText(v, ctl.at, m, "prepareHold") /\ ForwardOrder(v, m)
      /\ Reached(v, ctl.at, m, app, ev[v]) /\ ctl.at \in Nat
  BY <1>1, Commands DEF Forward, IInv, ControlType
<1>3. ctl.at <= m.commit
  BY <1>2 DEF ForwardText, ForwardOrder
<1>4. QED BY <1>1, <1>2, <1>3 DEF Reached

\* A controller prepares the hold of the current host.
LEMMA PrepareHoldStep ==
  ASSUME IInv, PrepareHold, NEW v, v = ctl.v
  PROVE  IInv' /\ Tells(v)
<1> SUFFICES ASSUME NEW c, c = Cmd PROVE IInv' /\ Tells(v)
  OBVIOUS
<1>1. /\ Running /\ c = "prepareHold" /\ c \notin States
      /\ UNCHANGED <<app, job, proc, seen, marked, pairing, repo, crashes>>
  BY NotStates DEF PrepareHold
<1>2. Rest
  BY <1>1, Spends DEF PrepareHold, Advance, Rest, IInv, MachineType
<1>3. v \in All /\ v \in Controllers /\ ev \in [All -> Evidence] /\ ev[v] \in Evidence
  BY <1>1, Commands DEF IInv, MachineType
<1>4. CASE Advance([ev EXCEPT ![v] = After(v, "prepareHold", @)]) /\ UNCHANGED child
  <2>1. [ev EXCEPT ![v] = After(v, "prepareHold", @)] = InHold("exact")
    BY <1>3, AfterPrepareHold DEF InHold
  <2>2. ev' = InHold("exact") /\ ctl' = Onward(ctl)
    BY <1>4, <2>1 DEF Advance
  <2>3. Only(ev, ev', v) /\ Wrote(v, c, app, ev[v], app', ev'[v])
    BY <1>1, <1>3, <2>2, HoldWrites DEF Wrote
  <2>4. QED BY <1>1, <1>2, <1>4, <2>2, <2>3, Succeeds
<1>5. ASSUME NEW h \in {"absent", "empty", "partial", "exact"}, Fail(InHold(h))
      PROVE  IInv' /\ Tells(v)
  <2>1. ev[v].state \in Progress
    BY <1>1, HoldIsEarly
  <2>2. Fails(InHold(h), ctl.healthy) /\ ctl.healthy \in BOOLEAN
    BY <1>5 DEF Fail, IInv, ControlType
  <2>3. /\ Only(ev, InHold(h), v) /\ InHold(h)[v].state = ev[v].state
        /\ InHold(h)[v].ptr = ev[v].ptr /\ InHold(h)[v].kept = ev[v].kept
    BY <1>3, <1>5, HoldWrites
  <2>4. QED BY <1>1, <1>2, <2>1, <2>2, <2>3, FailBefore
<1>6. QED BY <1>4, <1>5 DEF PrepareHold

\* Sweeping the hold away always does, when it is done at all.
LEMMA ArchiveHoldStep ==
  ASSUME IInv, ArchiveHold, NEW v, v = ctl.v
  PROVE  IInv' /\ Tells(v)
<1> SUFFICES ASSUME NEW c, c = Cmd, NEW n, n = RollbackMarks(v) PROVE IInv' /\ Tells(v)
  OBVIOUS
<1>1. /\ Running /\ c = "archiveHold" /\ c \notin States
      /\ UNCHANGED <<app, job, proc, seen, marked, pairing, repo, crashes>>
  BY NotStates DEF ArchiveHold
<1>2. v \in All /\ v \in Controllers /\ ev \in [All -> Evidence] /\ ev[v] \in Evidence
  BY <1>1, Commands DEF IInv, MachineType
<1>3. CASE Acted([ev EXCEPT ![v] = After(v, "archiveHold", @)])
  <2>1. PICK s \in Evidence :
           /\ After(v, "archiveHold", ev[v]) = s
           /\ s.state = ev[v].state /\ s.ptr = ev[v].ptr /\ s.kept = ev[v].kept
           /\ s.reserve = ev[v].reserve /\ s.hold \in {ev[v].hold, "absent"}
           /\ v # 1 \/ ctl.state = "ROLLBACK_STARTED" => s.hold = "absent"
    BY <1>2, AfterArchiveHold
  <2>2. s.hold = "absent"
    <3>1. ctl.run = "rollback"
      BY <1>1, Commands DEF ForwardText, RetireText
    <3>2. /\ RollbackText(v, ctl.at, n, c) /\ RollbackOrder(v, n) /\ Back(v, ctl.at, n)
          /\ ctl.at \in Nat
      BY <1>1, <3>1, Commands DEF IInv, ControlType
    <3>3. ctl.at = n.sweep /\ ctl.at > 1 /\ n.start < ctl.at /\ ctl.at <= n.done
      BY <1>1, <3>2 DEF RollbackText, RollbackOrder
    <3>4. ctl.healthy /\ ev[v].state \in Rolling
      BY <3>2, <3>3 DEF Back, Undone
    <3>5. ctl.state = ev[v].state /\ Stands(v, app, ev[v])
      BY <1>1, <3>4, Commands DEF IInv, Controls, Turn
    <3>6. CASE ev[v].state = "ROLLBACK_STARTED"
      BY <2>1, <3>5, <3>6
    <3>7. CASE ev[v].state # "ROLLBACK_STARTED"
      <4>1. ev[v].state \in Restored \cup {"FAILED_NEW_ARCHIVED"}
        BY <3>4, <3>7, RollingStates DEF Restored
      <4>2. QED BY <2>1, <3>5, <4>1 DEF Stands
    <3>8. QED BY <3>6, <3>7
  <2> DEFINE e == [ev EXCEPT ![v] = s]
  <2>3. Acted(e)
    BY <1>2, <1>3, <2>1
  <2>4. Only(ev, e, v) /\ e[v] = s
    BY <1>2, Put
  <2>5. Wrote(v, c, app, ev[v], app, s)
    BY <1>1, <2>1 DEF Wrote
  <2> HIDE DEF e
  <2>6. QED BY <1>1, <2>2, <2>3, <2>4, <2>5, ActedStep
<1>4. CASE UNCHANGED faults /\ Fail(ev)
  <2>1. Rest
    BY <1>1, <1>4, Spends DEF Rest, IInv, MachineType
  <2>2. QED BY <1>1, <1>4, <2>1, FailHere
<1>5. QED BY <1>3, <1>4 DEF ArchiveHold

\* The moves of an app, needed or not.
LEMMA MoveStep ==
  ASSUME IInv, Running, NEW v, v = ctl.v, NEW c, c = Cmd,
         c \in {"holdCurrent", "publishNew", "archiveNew", "restoreCurrent"},
         NEW needed \in BOOLEAN, NEW a \in -1..8, NEW e, Move(needed, a, e),
         Only(ev, e, v), needed => Wrote(v, c, app, ev[v], a, e[v]),
         ~needed => Wrote(v, c, app, ev[v], app, ev[v]),
         UNCHANGED <<job, proc, seen, marked, pairing, repo, crashes>>
  PROVE  IInv' /\ Tells(v)
<1>1. c \notin States
  BY NotStates
<1>2. app' \in -1..8
  BY DEF Move, IInv, MachineType
<1>3. Rest
  BY <1>2, Spends DEF Move, Advance, Rest, IInv, MachineType
<1>4. CASE needed /\ app' = a /\ Advance(e) /\ UNCHANGED child
  BY <1>1, <1>3, <1>4, Succeeds DEF Advance
<1>5. CASE needed /\ app' = a /\ Fail(e)
  <2>1. Fails(e, ctl.healthy) /\ ctl.healthy \in BOOLEAN
    BY <1>5 DEF Fail, IInv, ControlType
  <2>2. Wrote(v, c, app, ev[v], app', e[v]) /\ e[v].state = ev[v].state
    BY <1>1, <1>5 DEF Wrote
  <2>3. QED BY <1>1, <1>3, <2>1, <2>2, FailAfter
<1>6. CASE app' = app /\ Fail(ev)
  BY <1>3, <1>6, FailHere
<1>7. CASE ~needed /\ app' = app /\ UNCHANGED child /\ Advance(ev)
  <2>1. ev' = ev /\ Only(ev, ev', v) /\ Wrote(v, c, app, ev[v], app', ev'[v])
    BY <1>7 DEF Advance, Only, IInv, MachineType
  <2>2. QED BY <1>1, <1>3, <1>7, <2>1, Succeeds DEF Advance
<1>8. QED BY <1>4, <1>5, <1>6, <1>7 DEF Move

\* A controller moves an application bundle.
LEMMA MoveAppStep ==
  ASSUME IInv, MoveApp, NEW v, v = ctl.v
  PROVE  IInv' /\ Tells(v)
<1> SUFFICES ASSUME NEW c, c = Cmd PROVE IInv' /\ Tells(v)
  OBVIOUS
<1>1. /\ Running /\ UNCHANGED <<job, proc, seen, marked, pairing, repo, crashes>>
      /\ c \in {"holdCurrent", "publishNew", "archiveNew", "restoreCurrent"} /\ c \notin States
  BY NotStates DEF MoveApp
<1>2. v \in All /\ v \in 1..8 /\ ev \in [All -> Evidence] /\ ev[v] \in Evidence /\ app \in -1..8
  BY <1>1, Commands DEF IInv, MachineType
<1>3. ev[v].kept \in -1..8
  BY <1>2 DEF Evidence
<1>4. CASE c = "holdCurrent" /\ Move(TRUE, Nothing, [ev EXCEPT ![v].kept = app])
  <2> DEFINE r == [ev[v] EXCEPT !.kept = app]
  <2>1. r \in Evidence
    BY <1>2 DEF Evidence
  <2>2. /\ r.kept = app /\ r.state = ev[v].state /\ r.ptr = ev[v].ptr
        /\ r.hold = ev[v].hold /\ r.reserve = ev[v].reserve
    BY <1>2 DEF Evidence
  <2>3. Move(TRUE, Nothing, [ev EXCEPT ![v] = r])
    BY <1>4
  <2> HIDE DEF r
  <2> DEFINE e == [ev EXCEPT ![v] = r]
  <2>4. Only(ev, e, v) /\ e[v] = r
    BY <1>2, <2>1, Put
  <2>5. Wrote(v, c, app, ev[v], Nothing, r)
    BY <1>1, <1>4, <2>2 DEF Wrote
  <2>6. Move(TRUE, Nothing, e)
    BY <2>3
  <2>7. Nothing \in -1..8
    BY DEF Nothing
  <2> HIDE DEF e
  <2>8. QED BY <1>1, <2>4, <2>5, <2>6, <2>7, MoveStep
<1>5. CASE c = "publishNew" /\ Move(TRUE, v, [ev EXCEPT ![v].hold = "empty"])
  <2> DEFINE r == [ev[v] EXCEPT !.hold = "empty"]
  <2>1. r \in Evidence
    BY <1>2 DEF Evidence
  <2>2. /\ r.kept = ev[v].kept /\ r.state = ev[v].state /\ r.ptr = ev[v].ptr
        /\ r.reserve = ev[v].reserve
    BY <1>2 DEF Evidence
  <2>3. Move(TRUE, v, [ev EXCEPT ![v] = r])
    BY <1>5
  <2> HIDE DEF r
  <2> DEFINE e == [ev EXCEPT ![v] = r]
  <2>4. Only(ev, e, v) /\ e[v] = r
    BY <1>2, <2>1, Put
  <2>5. Wrote(v, c, app, ev[v], v, r)
    BY <1>1, <1>5, <2>2 DEF Wrote
  <2>6. Move(TRUE, v, e)
    BY <2>3
  <2>7. v \in -1..8
    BY <1>2
  <2> HIDE DEF e
  <2>8. QED BY <1>1, <2>4, <2>5, <2>6, <2>7, MoveStep
<1>6. CASE /\ c = "archiveNew"
           /\ Move(ev[v].kept # Nothing /\ app # Nothing /\ (v = 1 => ctl.state = "ROLLBACK_STARTED"),
                   Nothing, [ev EXCEPT ![v].failed = app])
  <2> DEFINE r == [ev[v] EXCEPT !.failed = app]
             needed == ev[v].kept # Nothing /\ app # Nothing /\ (v = 1 => ctl.state = "ROLLBACK_STARTED")
  <2>1. r \in Evidence
    BY <1>2 DEF Evidence
  <2>2. /\ r.kept = ev[v].kept /\ r.state = ev[v].state /\ r.ptr = ev[v].ptr
        /\ r.hold = ev[v].hold /\ r.reserve = ev[v].reserve
    BY <1>2 DEF Evidence
  <2>3. Move(needed, Nothing, [ev EXCEPT ![v] = r])
    BY <1>6
  <2> HIDE DEF r
  <2> DEFINE e == [ev EXCEPT ![v] = r]
  <2>4. Only(ev, e, v) /\ e[v] = r
    BY <1>2, <2>1, Put
  <2>5. needed => Wrote(v, c, app, ev[v], Nothing, r)
    BY <1>1, <1>6, <2>2 DEF Wrote
  <2>6. Wrote(v, c, app, ev[v], app, ev[v])
    BY <1>1, <1>6 DEF Wrote
  <2>7. needed \in BOOLEAN /\ Nothing \in -1..8 /\ Move(needed, Nothing, e)
    BY <2>3 DEF Nothing
  <2> HIDE DEF e, needed
  <2>8. QED BY <1>1, <2>4, <2>5, <2>6, <2>7, MoveStep
<1>7. CASE /\ c = "restoreCurrent"
           /\ Move(ev[v].kept # Nothing, ev[v].kept, [ev EXCEPT ![v].kept = Nothing])
  <2> DEFINE r == [ev[v] EXCEPT !.kept = Nothing]
             needed == ev[v].kept # Nothing
  <2>1. r \in Evidence
    BY <1>2 DEF Evidence, Nothing
  <2>2. /\ r.kept = Nothing /\ r.state = ev[v].state /\ r.ptr = ev[v].ptr
        /\ r.hold = ev[v].hold /\ r.reserve = ev[v].reserve
    BY <1>2 DEF Evidence
  <2>3. Move(needed, ev[v].kept, [ev EXCEPT ![v] = r])
    BY <1>7
  <2> HIDE DEF r
  <2> DEFINE e == [ev EXCEPT ![v] = r]
  <2>4. Only(ev, e, v) /\ e[v] = r
    BY <1>2, <2>1, Put
  <2>5. needed => Wrote(v, c, app, ev[v], ev[v].kept, r)
    BY <1>1, <1>7, <2>2 DEF Wrote
  <2>6. ~needed => Wrote(v, c, app, ev[v], app, ev[v])
    BY <1>1, <1>7 DEF Wrote
  <2> DEFINE a == ev[v].kept
  <2>7. needed \in BOOLEAN /\ a \in -1..8 /\ Move(needed, a, e)
    BY <1>3, <2>3
  <2>8. needed => Wrote(v, c, app, ev[v], a, e[v])
    BY <2>4, <2>5
  <2> HIDE DEF e, needed, a
  <2>9. QED BY <1>1, <2>4, <2>6, <2>7, <2>8, MoveStep
<1>8. QED BY <1>4, <1>5, <1>6, <1>7 DEF MoveApp

\* A controller changes the host's job.
LEMMA LaunchctlStep ==
  ASSUME IInv, Launchctl, NEW v, v = ctl.v
  PROVE  IInv' /\ Tells(v)
<1> SUFFICES ASSUME NEW c, c = Cmd PROVE IInv' /\ Tells(v)
  OBVIOUS
<1>1. /\ Running /\ UNCHANGED <<app, proc, seen, marked, pairing, repo, crashes>>
      /\ c \in {"bootout", "bootstrap", "bootoutIfLoaded"} /\ c \notin States
  BY NotStates DEF Launchctl
<1>2. job' \in BOOLEAN
  BY DEF Launchctl, IInv, MachineType
<1>3. Rest
  BY <1>1, <1>2, Spends DEF Launchctl, Advance, Rest, IInv, MachineType
<1>4. CASE Advance(ev) /\ UNCHANGED child /\ (c = "bootstrap" => job' = TRUE)
  <2>1. ev' = ev /\ Alike(ev[v], ev'[v])
    BY <1>4 DEF Advance, Alike
  <2>2. Wrote(v, c, app, ev[v], app, ev'[v])
    BY <1>1, <2>1, WroteNothing
  <2>3. Only(ev, ev', v) /\ Wrote(v, c, app, ev[v], app', ev'[v])
    BY <1>1, <2>1, <2>2 DEF IInv, MachineType, Only
  <2>4. QED BY <1>1, <1>3, <1>4, <2>3, Succeeds DEF Advance
<1>5. CASE Fail(ev)
  BY <1>1, <1>3, <1>5, FailHere
<1>6. QED BY <1>4, <1>5 DEF Launchctl

\* A controller takes or leaves the lock of the host.
LEMMA HostLockStep ==
  ASSUME IInv, HostLock, NEW v, v = ctl.v
  PROVE  IInv' /\ Tells(v)
<1> SUFFICES ASSUME NEW c, c = Cmd PROVE IInv' /\ Tells(v)
  OBVIOUS
<1>1. /\ Running /\ UNCHANGED <<app, job, proc, seen, marked, pairing, repo, crashes>>
      /\ c \in {"takeLock", "dropLock"} /\ c \notin States
  BY NotStates DEF HostLock
<1>2. Rest
  BY <1>1, Spends DEF HostLock, Rest, IInv, MachineType
<1>3. ASSUME NEW l \in BOOLEAN, ctl' = Onward([ctl EXCEPT !.locked = l]), UNCHANGED <<ev, child, faults>>,
             l = IF c = "takeLock" THEN TRUE ELSE FALSE,
             c = "takeLock" => proc = Nothing /\ child = "none"
      PROVE  IInv' /\ Tells(v)
  <2>1. Goes(ctl.state, l)
    BY <1>1, <1>3, Going
  <2>2. Wrote(v, c, app, ev[v], app, ev'[v])
    BY <1>1, <1>3, WroteNothing DEF Alike
  <2>3. Only(ev, ev', v) /\ Wrote(v, c, app, ev[v], app', ev'[v])
    BY <1>1, <1>3, <2>2 DEF IInv, MachineType, Only
  <2>4. ctl.state = ev'[v].state \/ ~ctl.healthy
    BY <1>1, <1>3 DEF IInv, Controls
  <2>5. Did(v, c, ctl.state, l)
    BY <1>1, <1>2, <1>3, <2>3, <2>4 DEF Did
  <2>6. QED BY <1>1, <2>1, <2>5, AdvanceStep
<1>4. CASE c = "takeLock" /\ acquire_unowned_shared_lock
           /\ ctl' = Onward([ctl EXCEPT !.locked = TRUE]) /\ UNCHANGED <<ev, child, faults>>
  <2>1. proc = Nothing /\ child = "none"
    BY <1>4 DEF acquire_unowned_shared_lock, require_no_capture_servers, capture_server_processes
  <2>2. QED BY <1>3, <1>4, <2>1
<1>5. CASE c = "dropLock" /\ ctl' = Onward([ctl EXCEPT !.locked = FALSE])
           /\ UNCHANGED <<ev, child, faults>>
  BY <1>3, <1>5
<1>6. CASE Fail(ev)
  BY <1>1, <1>2, <1>6, FailHere
<1>7. QED BY <1>4, <1>5, <1>6 DEF HostLock

\* A controller starts or stops the staged host.
LEMMA StagedHostStep ==
  ASSUME IInv, StagedHost, NEW v, v = ctl.v
  PROVE  IInv' /\ Tells(v)
<1> SUFFICES ASSUME NEW c, c = Cmd PROVE IInv' /\ Tells(v)
  OBVIOUS
<1>1. /\ Running /\ UNCHANGED <<app, job, proc, seen, marked, pairing, repo, crashes>>
      /\ c \in {"spawnChild", "terminateChild", "terminateStaged"} /\ c \notin States
  BY NotStates DEF StagedHost
<1>2. Rest
  BY <1>1, Spends DEF StagedHost, Advance, Rest, IInv, MachineType
<1>3. CASE Advance(ev) /\ child' = IF c = "spawnChild" THEN "running" ELSE "none"
  <2>1. ev' = ev /\ Alike(ev[v], ev'[v])
    BY <1>3 DEF Advance, Alike
  <2>2. Wrote(v, c, app, ev[v], app, ev'[v])
    BY <1>1, <2>1, WroteNothing
  <2>3. Only(ev, ev', v) /\ Wrote(v, c, app, ev[v], app', ev'[v])
    BY <1>1, <2>1, <2>2 DEF IInv, MachineType, Only
  <2>4. QED BY <1>1, <1>2, <1>3, <2>3, Succeeds DEF Advance
<1>4. CASE Fail(ev)
  BY <1>1, <1>2, <1>4, FailHere
<1>5. QED BY <1>3, <1>4 DEF StagedHost

\* An append, made or skipped.
LEMMA RecordWrites ==
  ASSUME NEW v, NEW c \in States, NEW a, NEW r, NEW t, t.state \in {r.state, c},
         t.ptr = r.ptr, t.kept = r.kept, t.hold = r.hold, t.reserve = r.reserve
  PROVE  Wrote(v, c, a, r, a, t)
<1>1. c \notin {"publishPointer", "retirePointer", "holdCurrent", "publishNew", "archiveNew",
                "restoreCurrent", "removeHoldRoot", "releaseReserve", "archiveHold"}
  BY Alphabet DEF Progress, Restored
<1>2. QED BY <1>1 DEF Wrote

\* A controller appends a record to its journal.
LEMMA RecordStep ==
  ASSUME IInv, Record, NEW v, v = ctl.v
  PROVE  IInv' /\ Tells(v)
<1> SUFFICES ASSUME NEW c, c = Cmd PROVE IInv' /\ Tells(v)
  OBVIOUS
<1>1. /\ Running /\ c \in States
      /\ UNCHANGED <<app, job, proc, seen, marked, child, pairing, repo, crashes, faults>>
  BY DEF Record, Recording, Advance
<1>2. Rest
  BY <1>1 DEF Rest, IInv, MachineType
<1>3. v \in Controllers /\ v \in All /\ ev \in [All -> Evidence]
  BY <1>1, Commands DEF IInv, MachineType
<1>4. c \notin {"takeLock", "dropLock", "bootstrap", "bootout", "bootoutIfLoaded", "spawnChild",
                "terminateChild", "terminateStaged", "pairingCommit", "healthy", "pointer",
                "archiveHold"}
  BY <1>1, Alphabet DEF Progress, Restored
<1>5. ASSUME NEW s, Goes(s, ctl.locked), Only(ev, ev', v), Wrote(v, c, app, ev[v], app, ev'[v]),
             s = ev'[v].state \/ ~ctl.healthy,
             ev'[v].state = c \/ (ctl.run = "rollback" /\ ~Due(v, c))
      PROVE  IInv' /\ Tells(v)
  <2>1. Wrote(v, c, app, ev[v], app', ev'[v])
    BY <1>1, <1>5
  <2>2. ev'[v].state # c => (c = "ROLLBACK_STARTED" => ctl.state \in Rolling)
    BY <1>3, <1>5, RecordsDue
  <2>3. c = "ROLLED_BACK" => ev'[v].state = c
    BY <1>3, <1>5, RecordsDue
  <2>4. (ctl.run = "forward" /\ c \in States) => ev'[v].state = c
    BY <1>5
  <2>5. Did(v, c, s, ctl.locked)
    BY <1>1, <1>2, <1>4, <1>5, <2>1, <2>2, <2>3, <2>4 DEF Did
  <2>6. QED BY <1>1, <1>5, <2>5, AdvanceStep
<1>6. CASE SkipsRecord /\ Advance(ev)
  <2>1. Goes(ctl.state, ctl.locked)
    BY <1>1, <1>6, Going DEF Advance
  <2>2. ev' = ev /\ Only(ev, ev', v)
    BY <1>6 DEF Advance, Only, IInv, MachineType
  <2>3. Wrote(v, c, app, ev[v], app, ev'[v])
    BY <1>1, <2>2, RecordWrites
  <2>4. ctl.state = ev'[v].state \/ ~ctl.healthy
    BY <1>1, <2>2 DEF IInv, Controls
  <2>5. QED BY <1>5, <1>6, <2>1, <2>2, <2>3, <2>4 DEF SkipsRecord
<1>7. CASE ev' = [ev EXCEPT ![v] = Appended(v, @, c)] /\ ctl' = Onward([ctl EXCEPT !.state = c])
  <2>1. Goes(c, ctl.locked)
    BY <1>1, <1>7, Going
  <2>2. /\ Only(ev, ev', v) /\ ev'[v].state = c
        /\ ev'[v].ptr = ev[v].ptr /\ ev'[v].kept = ev[v].kept
        /\ ev'[v].hold = ev[v].hold /\ ev'[v].reserve = ev[v].reserve
    <3>1. ev' = Journaled(ev, v, c)
      BY <1>7 DEF Journaled
    <3>2. QED BY <1>1, <1>3, <3>1, AppendRecord
  <2>3. Wrote(v, c, app, ev[v], app, ev'[v])
    BY <1>1, <2>2, RecordWrites
  <2>4. QED BY <1>5, <2>1, <2>2, <2>3
<1>8. QED BY <1>6, <1>7 DEF Record

\* An append of which a part may be left behind.
LEMMA TornWrites ==
  ASSUME ev \in [All -> Evidence], NEW v \in All, NEW s \in States
  PROVE  LET e == [ev EXCEPT ![v].tail = s]
         IN  /\ Only(ev, e, v) /\ e[v].state = ev[v].state /\ e[v].ptr = ev[v].ptr
             /\ e[v].kept = ev[v].kept /\ e[v].hold = ev[v].hold
<1> DEFINE r == [ev[v] EXCEPT !.tail = s]
<1>1. ev[v] \in Evidence
  OBVIOUS
<1>2. /\ r \in Evidence /\ r.state = ev[v].state /\ r.ptr = ev[v].ptr /\ r.kept = ev[v].kept
      /\ r.hold = ev[v].hold
  BY <1>1 DEF Evidence
<1>3. [ev EXCEPT ![v].tail = s] = [ev EXCEPT ![v] = r]
  OBVIOUS
<1> HIDE DEF r
<1>4. Only(ev, [ev EXCEPT ![v] = r], v) /\ [ev EXCEPT ![v] = r][v] = r
  BY <1>2, Put
<1>5. QED BY <1>2, <1>3, <1>4

\* A record is not appended.
LEMMA AppendFailsStep ==
  ASSUME IInv, AppendFails, NEW v, v = ctl.v
  PROVE  IInv' /\ Tells(v)
<1> SUFFICES ASSUME NEW c, c = Cmd PROVE IInv' /\ Tells(v)
  OBVIOUS
<1>1. /\ Running /\ c \in States
      /\ UNCHANGED <<app, job, proc, seen, marked, pairing, repo, crashes>>
  BY DEF AppendFails, Recording
<1>2. Rest
  BY <1>1, Spends DEF AppendFails, Rest, IInv, MachineType
<1>3. v \in Controllers /\ v \in All /\ ev \in [All -> Evidence]
  BY <1>1, Commands DEF IInv, MachineType
<1>4. ctl.healthy \in BOOLEAN
  BY DEF IInv, ControlType
<1>5. PICK w : Fails(CASE w = "torn" -> [ev EXCEPT ![v].tail = c]
                       [] w = "kept" -> [ev EXCEPT ![v] = Appended(v, @, c)]
                       [] OTHER -> ev,
                     ctl.healthy /\ w \in {"refused", "restored"})
  BY DEF AppendFails
<1>6. CASE w = "torn"
  <2> DEFINE e == [ev EXCEPT ![v].tail = c]
  <2>1. Fails(e, FALSE)
    BY <1>5, <1>6
  <2>2. /\ Only(ev, e, v) /\ e[v].state = ev[v].state /\ e[v].ptr = ev[v].ptr
        /\ e[v].kept = ev[v].kept /\ e[v].hold = ev[v].hold
    BY <1>1, <1>3, TornWrites
  <2> HIDE DEF e
  <2>3. QED BY <1>1, <1>2, <2>1, <2>2, FailBefore
<1>7. CASE w = "kept"
  <2> DEFINE e == [ev EXCEPT ![v] = Appended(v, @, c)]
  <2>1. Fails(e, FALSE)
    BY <1>5, <1>7
  <2>2. /\ Only(ev, e, v) /\ e[v].state = c
        /\ e[v].ptr = ev[v].ptr /\ e[v].kept = ev[v].kept
        /\ e[v].hold = ev[v].hold /\ e[v].reserve = ev[v].reserve
    <3>1. e = Journaled(ev, v, c)
      BY DEF Journaled
    <3> HIDE DEF e
    <3>2. QED BY <1>1, <1>3, <3>1, AppendRecord
  <2> HIDE DEF e
  <2>3. Wrote(v, c, app, ev[v], app, e[v])
    BY <1>1, <2>2, RecordWrites
  <2>4. Wrote(v, c, app, ev[v], app', e[v])
    BY <1>1, <2>3
  <2>5. QED BY <1>1, <1>2, <2>1, <2>2, <2>4, FailAfter
<1>8. CASE w \notin {"torn", "kept"}
  <2> DEFINE h == ctl.healthy /\ w \in {"refused", "restored"}
  <2>1. Fails(ev, h) /\ h \in BOOLEAN /\ (h => ctl.healthy)
    BY <1>5, <1>8
  <2> HIDE DEF h
  <2>2. Only(ev, ev, v)
    BY <1>3 DEF Only
  <2>3. QED BY <1>1, <1>2, <2>1, <2>2, FailBefore
<1>9. QED BY <1>6, <1>7, <1>8

\* Whatever the running controller does.
LEMMA CommandStep ==
  ASSUME IInv, Command, NEW v, v = ctl.v
  PROVE  IInv' /\ Tells(v)
  BY RecordStep, AppendFailsStep, CheckStep, WaitStep, ObserveStep, WriteEvidenceStep,
     PrepareHoldStep, ArchiveHoldStep, MoveAppStep, LaunchctlStep, HostLockStep, StagedHostStep
     DEF Command

-----------------------------------------------------------------------------
(* Controllers start, hosts come and go, controllers die.                  *)

\* The last committed version when none is live.
LEMMA Frontier ==
  ASSUME MachineType, History, NEW v \in All, \A w \in 1..(v - 1) : Pinned(w)
  PROVE  /\ app = v - 1 /\ ev[v].ptr # "active" => Live = {} /\ \A w \in Committed : w < v
         /\ v \in Live => Ahead(v) \/ v \notin Versions
<1> v \in 1..8
  BY DEF All
<1>1. \A w \in 1..(v - 1) : w \in All /\ w \in Committed
  BY DEF All, Pinned, Committed
<1>2. ASSUME NEW u \in Live PROVE u \in 1..8 /\ \A w \in All : w \in Committed <=> w < u
  BY DEF History, Live, All
<1>3. ASSUME app = v - 1, ev[v].ptr # "active"
      PROVE  Live = {} /\ \A w \in Committed : w < v
  <2>1. v \notin Committed /\ v \notin Live
    BY <1>3 DEF Committed, Live
  <2>2. ASSUME NEW u \in Live PROVE FALSE
    <3>1. u \in 1..8 /\ \A w \in All : w \in Committed <=> w < u
      BY <1>2
    <3>2. CASE u < v
      <4>1. u \in Committed /\ u \in All
        BY <1>1, <3>1, <3>2
      <4>2. QED BY <3>1, <4>1
    <3>3. CASE v < u
      BY <2>1, <3>1, <3>3
    <3>4. QED BY <2>1, <2>2, <3>1, <3>2, <3>3
  <2>3. Live = {}
    BY <2>2
  <2>4. \A w \in All : w \in Committed <=> w <= app
    BY <2>3 DEF History
  <2>5. \A w \in Committed : w < v
    BY <1>3, <2>4 DEF Committed, All
  <2>6. QED BY <2>3, <2>5
<1>4. ASSUME v \in Live, v \in Versions PROVE Ahead(v)
  <2>1. \A w \in All : w \in Committed <=> w < v
    BY <1>2, <1>4
  <2>2. ASSUME NEW u \in Live PROVE u = v
    <3>1. u \in 1..8 /\ \A w \in All : w \in Committed <=> w < u
      BY <1>2
    <3>2. u \notin Committed /\ v \notin Committed
      BY <1>4 DEF Live, Committed
    <3>3. QED BY <2>1, <3>1, <3>2 DEF All
  <2>3. \A w \in Committed : w <= v
    BY <2>1 DEF Committed, All
  <2>4. QED BY <1>4, <2>2, <2>3 DEF Ahead
<1>5. QED BY <1>3, <1>4

\* No version is at a free path.
LEMMA FreePath == Nothing \in -1..8
  BY DEF Nothing

\* A new evidence directory.
LEMMA Blank ==
  /\ FreshEvidence \in Evidence /\ FreshEvidence.state = "BEGUN" /\ FreshEvidence.ptr = "none"
  /\ FreshEvidence.kept = Nothing /\ FreshEvidence.hold = "absent"
  /\ NoEvidence \in Evidence /\ NoEvidence.ptr = "none"
<1>1. "BEGUN" \in States
  BY Alphabet DEF Progress
<1>2. ASSUME NEW s \in States, NEW root \in BOOLEAN, NEW q \in BOOLEAN, NEW k \in -1..8,
             NEW r, r = [state |-> s, tail |-> "clean", ptr |-> "none", root |-> root,
                         stage |-> "none", hold |-> "absent", kept |-> k, failed |-> k,
                         quarantine |-> q, reserve |-> "none", result |-> "none"]
      PROVE  r \in Evidence /\ r.state = s /\ r.ptr = "none" /\ r.kept = k /\ r.hold = "absent"
  BY <1>2 DEF Evidence
<1>3. /\ NoEvidence \in Evidence /\ NoEvidence.state = "BEGUN" /\ NoEvidence.ptr = "none"
      /\ NoEvidence.kept = Nothing /\ NoEvidence.hold = "absent"
  BY <1>1, <1>2, FreePath DEF NoEvidence
<1>4. ASSUME NEW n \in Evidence, NEW r, r = [n EXCEPT !.root = TRUE]
      PROVE  /\ r \in Evidence /\ r.state = n.state /\ r.ptr = n.ptr /\ r.kept = n.kept
             /\ r.hold = n.hold
  BY <1>4 DEF Evidence
<1>5. QED BY <1>3, <1>4 DEF FreshEvidence

\* A controller starts.
LEMMA BeginStep ==
  ASSUME IInv, NEW v \in Versions, Begin(v)
  PROVE  IInv' /\ Tells(v)
<1> SUFFICES ASSUME NEW m, m = ForwardMarks(v) PROVE IInv' /\ Tells(v)
  OBVIOUS
<1>1. v \in Controllers /\ v \in All /\ v \in 1..8
  BY VersionIsController DEF Controllers, All
<1>2. /\ ~Running /\ Holds(v, "begin") /\ ev' = [ev EXCEPT ![v] = FreshEvidence]
      /\ UNCHANGED <<app, job, proc, marked, child, pairing, repo, crashes, faults>> /\ seen' = TRUE
  BY DEF Begin
<1>3. /\ ctl'.v = v /\ ctl'.run = "forward" /\ ctl'.at = 1 /\ ctl'.locked = FALSE
      /\ ctl'.state = "BEGUN" /\ ctl'.healthy = TRUE /\ ControlType'
  <2>1. "BEGUN" \in States
    BY Alphabet DEF Progress
  <2>2. ctl' = [v |-> v, run |-> "forward", why |-> "none", at |-> 1, locked |-> FALSE,
                state |-> "BEGUN", healthy |-> TRUE]
    BY DEF Begin, Idle
  <2>3. QED BY <1>1, <2>1, <2>2 DEF ControlType
<1>4. /\ app = v - 1 /\ ev[v].ptr # "active" /\ \A w \in 1..(v - 1) : Pinned(w)
      /\ v # 1 => pairing
  BY <1>1, <1>2, BeginNeeds
<1>5. Live = {} /\ \A w \in Committed : w < v
  BY <1>1, <1>4, Frontier DEF IInv
<1>6. Ahead(v)
  BY <1>1, <1>4, <1>5 DEF Ahead, Committed, All
<1>7. /\ FreshEvidence \in Evidence /\ FreshEvidence.state = "BEGUN" /\ FreshEvidence.ptr = "none"
      /\ FreshEvidence.kept = Nothing /\ FreshEvidence.hold = "absent"
  BY Blank
<1>8. Only(ev, ev', v) /\ ev'[v] = FreshEvidence
  <2> DEFINE f == [ev EXCEPT ![v] = FreshEvidence]
  <2>1. Only(ev, f, v) /\ f[v] = FreshEvidence
    BY <1>1, <1>7, Put DEF IInv, MachineType
  <2>2. QED BY <1>2, <2>1
<1>9. ForwardOrder(v, m) /\ Plan' = Perform(v) /\ Len(Perform(v)) = m.commit + 1
  BY <1>1, <1>3, ForwardTexts DEF Plan
<1>10. Reached(v, 1, m, app', ev'[v])
  BY <1>2, <1>4, <1>7, <1>8, <1>9 DEF Reached, ForwardOrder, Reverted, Progress
<1>11. History' /\ Turn(v)'
  <2>1. Stands(v, app', ev'[v])
    BY <1>1, <1>9, <1>10, ReachedStands
  <2>2. QED BY <1>2, <1>6, <1>8, <2>1, HistoryStep DEF IInv, MachineType
<1>12. MachineType'
  BY <1>2, <1>8 DEF IInv, MachineType, Only
<1>13. child = "none"
  BY <1>5 DEF IInv, Hosts, Live, Staged, All
<1>14. Hosts'
  BY <1>2, <1>3, <1>13 DEF Hosts
<1>15. Forward(v, 1, m)'
  <2>1. (1 > m.load => job') /\ ~(m.lock < 1 /\ 1 <= m.unlock) /\ (v # 1 \/ 1 > 24 => pairing')
    BY <1>2, <1>4, <1>9 DEF ForwardOrder
  <2>2. QED BY <1>2, <1>3, <1>10, <1>13, <2>1 DEF Forward
<1>16. Controls'
  <2>1. 1 \in 1..Len(Plan')
    BY <1>9 DEF ForwardOrder
  <2>2. ctl'.state = ev'[v].state
    BY <1>3, <1>7, <1>8
  <2>3. QED BY <1>3, <1>11, <1>15, <2>1, <2>2 DEF Controls, Running
<1>17. IInv'
  BY <1>3, <1>11, <1>12, <1>14, <1>16 DEF IInv
<1>18. Tells(v)
  BY <1>4, <1>6, <1>7, <1>8 DEF Tells, Through, Concluded
<1>19. QED BY <1>17, <1>18

\* A rollback is asked for on the version at the end of the chain.
LEMMA RequestStep ==
  ASSUME IInv, NEW v \in Versions, Request(v), Requests # "any"
  PROVE  IInv' /\ Tells(v)
<1> SUFFICES ASSUME NEW n, n = RollbackMarks(v) PROVE IInv' /\ Tells(v)
  OBVIOUS
<1>1. v \in Controllers /\ v \in All /\ v \in 1..8
  BY VersionIsController DEF Controllers, All
<1>2. /\ ~Running /\ Wanted(v) /\ Holds(v, "request")
      /\ ev' = [ev EXCEPT ![v] = After(v, "open", @)]
      /\ UNCHANGED <<app, job, proc, marked, child, pairing, repo, crashes, faults>> /\ seen' = FALSE
  BY DEF Request
<1>3. ev[v].ptr = "active" /\ \A w \in 1..(v - 1) : Pinned(w)
  BY <1>1, <1>2, RequestNeeds
<1>4. ev \in [All -> Evidence] /\ ev[v] \in Evidence
  BY <1>1 DEF IInv, MachineType
<1>5. /\ ctl'.v = v /\ ctl'.run = IF ev[v].state = "ROLLED_BACK" THEN "retire" ELSE "rollback"
      /\ ctl'.at = 1 /\ ctl'.locked = FALSE /\ ctl'.state = ev[v].state
      /\ ctl'.healthy = TRUE /\ ControlType'
  <2>1. Reread(v, ev[v]) = ev[v].state /\ ev[v].state \in States
    BY <1>1, <1>4, AfterOpen DEF Evidence
  <2>2. ctl' = [v |-> v, run |-> IF ev[v].state = "ROLLED_BACK" THEN "retire" ELSE "rollback",
                why |-> "explicit", at |-> 1, locked |-> FALSE,
                state |-> ev[v].state, healthy |-> TRUE]
    BY <2>1 DEF Request, Idle
  <2>3. QED BY <1>1, <2>1, <2>2 DEF ControlType
<1>6. Turn(v)
  <2>1. CASE v \in Live
    BY <1>1, <1>3, <2>1, Frontier DEF IInv, Turn, History
  <2>2. CASE v \notin Live
    <3>1. v \in Committed /\ ev[v].state = "COMMITTED"
      BY <1>1, <1>3, <2>2 DEF Live, Committed
    <3>2. \A u \in All : ev[u].ptr = "active" => u <= v
      BY <1>2, <3>1, PairedAssumption DEF Wanted
    <3>3. Live = {}
      <4>1. ASSUME NEW u \in Live PROVE FALSE
        <5>1. u \in All /\ u <= v /\ (v \in Committed <=> v < u)
          BY <1>1, <3>2, <4>1 DEF IInv, History, Live
        <5>2. QED BY <1>1, <3>1, <5>1 DEF All
      <4>2. QED BY <4>1
    <3>4. app \in 0..8 /\ \A w \in All : w \in Committed <=> w <= app
      BY <3>3 DEF IInv, History
    <3>5. app = v
      <4>1. v <= app
        BY <1>1, <3>1, <3>4
      <4>2. app \in All /\ app \in Committed
        BY <1>1, <3>4, <4>1 DEF All
      <4>3. app <= v
        BY <3>2, <4>2 DEF Committed
      <4>4. QED BY <1>1, <3>4, <4>1, <4>3
    <3>6. ev[v].kept = v - 1
      BY <3>1 DEF IInv, History
    <3>7. Stands(v, app, ev[v])
      BY <1>1, <1>3, <3>1, <3>5, <3>6 DEF Stands, Replaced, Restored
    <3>8. \A w \in Committed : w <= v
      BY <1>1, <3>4, <3>5 DEF Committed
    <3>9. QED BY <1>3, <3>3, <3>7, <3>8 DEF Turn, Ahead
  <2>3. QED BY <2>1, <2>2
<1>7. Only(ev, ev', v) /\ Alike(ev[v], ev'[v])
  <2> DEFINE r == After(v, "open", ev[v])
  <2>1. r \in Evidence /\ Alike(ev[v], r)
    BY <1>1, <1>4, AfterOpen
  <2> HIDE DEF r
  <2>2. Only(ev, [ev EXCEPT ![v] = r], v) /\ [ev EXCEPT ![v] = r][v] = r
    BY <1>1, <1>4, <2>1, Put
  <2>3. QED BY <1>2, <2>1, <2>2 DEF r
<1>8. Stands(v, app', ev'[v])
  <2>1. Stands(v, app, ev'[v])
    BY <1>6, <1>7, StandsAgain DEF Turn, Alike
  <2>2. QED BY <1>2, <2>1
<1>9. History' /\ Turn(v)'
  BY <1>2, <1>6, <1>7, <1>8, HistoryStep DEF IInv, MachineType, Turn
<1>10. MachineType'
  BY <1>2, <1>7 DEF IInv, MachineType, Only
<1>11. Hosts'
  <2>1. child' # "none" => ev'[1].ptr = "active" /\ ev'[1].state \in Staged
    BY <1>2, <1>7 DEF IInv, Hosts, Only, Alike, All
  <2>2. QED BY <1>2, <1>5, <2>1 DEF IInv, Hosts
<1>12. Controls'
  <2>1. ctl'.state = ev'[v].state /\ ev'[v].ptr = "active"
    BY <1>3, <1>5, <1>7 DEF Alike
  <2>2. CASE ev[v].state = "ROLLED_BACK"
    <3>1. ctl'.run = "retire" /\ Plan' = Retire(v)
      BY <1>5, <2>2 DEF Plan
    <3>2. 1 \in 1..Len(Plan')
      BY <1>1, <3>1, RetireLength
    <3>3. Retiring(v)'
      BY <1>5, <1>7, <2>1, <2>2 DEF Retiring, Alike
    <3>4. QED BY <1>5, <1>9, <2>1, <3>1, <3>2, <3>3 DEF Controls, Running
  <2>3. CASE ev[v].state # "ROLLED_BACK"
    <3>1. ctl'.run = "rollback"
      BY <1>5, <2>3
    <3>2. RollbackOrder(v, n) /\ Len(Plan') = n.done + 3
      <4> DEFINE p == Restore(v) \o <<"resultRolledBack", "retirePointer">>
      <4>1. Plan' = p
        BY <1>5, <3>1 DEF Plan
      <4>2. RollbackOrder(v, n) /\ Len(p) = n.done + 3
        BY <1>1, RollbackTexts
      <4> HIDE DEF p
      <4>3. QED BY <4>1, <4>2
    <3>3. 1 \in 1..Len(Plan')
      BY <3>2 DEF RollbackOrder
    <3>4. Back(v, 1, n)'
      <4>1. ~(n.lock < 1 /\ 1 <= n.unlock) /\ ~(1 > n.load)
        BY <3>2 DEF RollbackOrder
      <4>2. Undone(v, 1, n, app', ev'[v])
        BY <3>2 DEF RollbackOrder, Undone
      <4>3. QED BY <1>5, <4>1, <4>2 DEF Back
    <3>5. QED BY <1>5, <1>9, <2>1, <3>1, <3>3, <3>4 DEF Controls, Running
  <2>4. QED BY <2>2, <2>3
<1>13. IInv'
  BY <1>5, <1>9, <1>10, <1>11, <1>12 DEF IInv
<1>14. Tells(v)
  BY <1>6, <1>7 DEF Tells, Turn, Through, Concluded, Alike
<1>15. QED BY <1>13, <1>14

\* What goes on beside the controller.
LEMMA BesideStep ==
  ASSUME IInv, UNCHANGED <<app, ev, ctl>>, MachineType', job' = job, pairing => pairing',
         child' # "none" => child # "none", child' = "paired" => pairing',
         ctl.locked => proc' = Nothing
  PROVE  IInv'
<1>1. Live' = Live /\ Committed' = Committed /\ \A w \in All : Pinned(w)' <=> Pinned(w)
  BY DEF Live, Committed, Pinned
<1>2. History'
  <2>1. \A u \in All : \A w \in 1..(u - 1) : w \in All
    BY DEF All
  <2>2. Live \subseteq All
    BY DEF Live
  <2>3. \A u \in Live : /\ Stands(u, app, ev[u])
                        /\ \A w \in All : w \in Committed <=> w < u
                        /\ \A w \in 1..(u - 1) : Pinned(w)
    BY DEF IInv, History
  <2>4. \A u \in Live' : /\ Stands(u, app', ev'[u])
                         /\ \A w \in All : w \in Committed' <=> w < u
                         /\ \A w \in 1..(u - 1) : Pinned(w)'
    BY <1>1, <2>1, <2>2, <2>3
  <2>5. Live' = {} => app' \in 0..8 /\ \A w \in All : w \in Committed' <=> w <= app'
    BY <1>1 DEF IInv, History
  <2>6. \A u \in Committed' : ev'[u].kept = u - 1
    BY <1>1 DEF IInv, History
  <2>7. QED BY <2>4, <2>5, <2>6 DEF History
<1>3. ControlType'
  BY DEF IInv, ControlType
<1>4. Hosts'
  BY DEF IInv, Hosts
<1>5. Controls'
  <2>1. CASE ~Running
    BY <2>1 DEF IInv, Controls, Running
  <2>2. CASE Running
    <3> SUFFICES ASSUME NEW v, v = ctl.v, NEW at, at = ctl.at,
                        NEW m, m = ForwardMarks(v), NEW n, n = RollbackMarks(v)
                 PROVE  Controls'
      OBVIOUS
    <3>1. /\ Turn(v) /\ at \in 1..Len(Plan) /\ (ctl.healthy => ctl.state = ev[v].state)
          /\ ctl.run = "forward" => Forward(v, at, m)
          /\ ctl.run = "rollback" => Back(v, at, n)
          /\ ctl.run = "retire" => Retiring(v)
      BY <2>2 DEF IInv, Controls
    <3>2. Turn(v)'
      <4>1. \A w \in 1..(v - 1) : Pinned(w)'
        BY <1>1, <2>2, <3>1, Commands DEF Turn, Ahead, All
      <4>2. QED BY <1>1, <3>1, <4>1 DEF Turn, Ahead
    <3>3. Plan' = Plan
      BY <2>2, Commands DEF Plan
    <3>4. ctl.run = "forward" => Forward(v, at, m)'
      BY <3>1 DEF Forward
    <3>5. ctl.run = "rollback" => Back(v, at, n)'
      BY <3>1 DEF Back
    <3>6. ctl.run = "retire" => Retiring(v)'
      BY <3>1 DEF Retiring
    <3>7. ctl'.v = v /\ ctl'.at = at /\ ctl'.run = ctl.run /\ Running'
      BY <2>2 DEF Running
    <3>8. (ctl'.healthy => ctl'.state = ev'[v].state) /\ at \in 1..Len(Plan')
      BY <3>1, <3>3
    <3>9. QED BY <3>2, <3>4, <3>5, <3>6, <3>7, <3>8 DEF Controls
  <2>3. QED BY <2>1, <2>2
<1>6. QED BY <1>2, <1>3, <1>4, <1>5 DEF IInv

\* A step that changes nothing.
LEMMA StutterStep ==
  ASSUME IInv, UNCHANGED vars
  PROVE  IInv'
  BY BesideStep DEF vars, IInv, MachineType, Hosts

\* The evidence that the death of a controller leaves.
LEMMA InterruptedWrites ==
  ASSUME IInv, Running, NEW v, v = ctl.v, NEW e \in Interrupted
  PROVE  /\ Only(ev, e, v) /\ e[v].state = ev[v].state
         /\ e[v].ptr = ev[v].ptr /\ e[v].kept = ev[v].kept
         /\ e[v].hold = ev[v].hold \/ ev[v].state \in Progress
<1>1. v \in All /\ ev \in [All -> Evidence]
  BY Commands DEF IInv, MachineType
<1>2. CASE e = ev
  BY <1>1, <1>2 DEF Only
<1>3. CASE Cmd \in States /\ e = [ev EXCEPT ![v].tail = Cmd]
  BY <1>1, <1>3, TornWrites
<1>4. ASSUME Cmd = "prepareHold", NEW h \in {"empty", "partial", "exact"}, e = InHold(h)
      PROVE  /\ Only(ev, e, v) /\ e[v].state = ev[v].state
             /\ e[v].ptr = ev[v].ptr /\ e[v].kept = ev[v].kept
             /\ ev[v].state \in Progress
  BY <1>1, <1>4, HoldIsEarly, HoldWrites
<1>5. QED
  <2>1. \/ e = ev
        \/ Cmd \in States /\ e = [ev EXCEPT ![v].tail = Cmd]
        \/ Cmd = "prepareHold" /\ \E h \in {"empty", "partial", "exact"} : e = InHold(h)
    BY DEF Interrupted
  <2>2. QED BY <1>2, <1>3, <1>4, <2>1

\* A controller dies, or its machine restarts.
LEMMA DeathStep ==
  ASSUME IInv, Running, NEW v, v = ctl.v, ctl' = Idle, ev' \in Interrupted, app' = app,
         pairing' = pairing, child' \in {child, "none"}, Rest
  PROVE  IInv' /\ Tells(v)
<1>1. /\ Only(ev, ev', v) /\ ev'[v].state = ev[v].state
      /\ ev'[v].ptr = ev[v].ptr /\ ev'[v].kept = ev[v].kept
      /\ ev'[v].hold = ev[v].hold \/ ev[v].state \in Progress
  BY InterruptedWrites
<1>2. v \in Versions /\ v \in All /\ Ahead(v) /\ Stands(v, app, ev[v])
  BY Commands DEF Turn
<1>3. Stands(v, app', ev'[v])
  <2>1. CASE ev'[v].hold = ev[v].hold
    BY <1>1, <1>2, <2>1, StandsAgain
  <2>2. CASE ev[v].state \in Progress
    BY <1>1, <1>2, <2>2 DEF Stands, Reverted, Replaced, Progress, Restored
  <2>3. QED BY <1>1, <2>1, <2>2
<1>4. History'
  BY <1>1, <1>2, <1>3, HistoryStep DEF IInv, Rest
<1>5. MachineType'
  BY <1>1 DEF IInv, MachineType, Rest, Only
<1>6. ControlType' /\ Controls'
  BY Alphabet DEF ControlType, Controls, Running, Idle, Progress
<1>7. Hosts'
  <2>1. child' # "none" => ev'[1].ptr = "active" /\ ev'[1].state \in Staged
    <3>1. child' # "none" => ev[1].ptr = "active" /\ ev[1].state \in Staged
      BY DEF IInv, Hosts
    <3>2. CASE v = 1
      BY <1>1, <3>1, <3>2
    <3>3. CASE v # 1
      BY <1>1, <3>1, <3>3 DEF Only, All
    <3>4. QED BY <3>2, <3>3
  <2>2. QED BY <2>1 DEF IInv, Hosts, Idle
<1>8. IInv'
  BY <1>4, <1>5, <1>6, <1>7 DEF IInv
<1>9. Tells(v)
  BY <1>1, <1>2 DEF Tells, Through, Concluded
<1>10. QED BY <1>8, <1>9

\* Its machine restarts while no controller runs.
LEMMA QuietRebootStep ==
  ASSUME IInv, ~Running, Reboot
  PROVE  IInv' /\ ev' = ev
<1>1. /\ ev' = ev /\ app' = app /\ ctl' = Idle /\ job' = TRUE /\ proc' = Nothing /\ child' = "none"
      /\ seen' = FALSE /\ marked' = FALSE /\ pairing' = pairing /\ repo' = repo /\ faults' = faults
      /\ crashes < MaxCrashes /\ crashes' = crashes + 1
  BY DEF Reboot
<1>2. MachineType'
  <2>1. crashes' \in 0..MaxCrashes
    BY <1>1, PairedAssumption DEF IInv, MachineType
  <2>2. job' \in BOOLEAN /\ seen' \in BOOLEAN /\ marked' \in BOOLEAN
    BY <1>1
  <2>3. QED BY <1>1, <2>1, <2>2, FreePath DEF IInv, MachineType
<1>3. History'
  BY <1>1 DEF IInv, History, Live, Committed, Pinned
<1>4. ControlType' /\ Controls'
  BY <1>1, Alphabet DEF ControlType, Controls, Running, Idle, Progress
<1>5. Hosts'
  BY <1>1 DEF Hosts, Idle
<1>6. QED BY <1>1, <1>2, <1>3, <1>4, <1>5 DEF IInv

\* What the machine does by itself leaves the evidence, or is told by the
\* running controller.
LEMMA EnvironmentStep ==
  ASSUME IInv, Environment
  PROVE  IInv' /\ (ev' = ev \/ (Running /\ \A v : v = ctl.v => Tells(v)))
<1>1. CASE HostStarts
  BY <1>1, BesideStep DEF HostStarts, IInv, MachineType, Hosts
<1>2. CASE HostLogsMarker
  BY <1>2, BesideStep DEF HostLogsMarker, IInv, MachineType, Hosts
<1>3. CASE HostExits
  <2>1. MachineType'
    BY <1>3, FreePath, Spends DEF HostExits, IInv, MachineType
  <2>2. QED BY <1>3, <2>1, BesideStep DEF HostExits, IInv, Hosts
<1>4. CASE ViewerPairs
  BY <1>4, BesideStep DEF ViewerPairs, IInv, MachineType, Hosts
<1>5. CASE StagedHostExits
  <2>1. MachineType'
    BY <1>5, Spends DEF StagedHostExits, IInv, MachineType
  <2>2. QED BY <1>5, <2>1, BesideStep DEF StagedHostExits, IInv, Hosts
<1>6. CASE RepositoryMoves
  <2>1. MachineType'
    BY <1>6, Spends DEF RepositoryMoves, IInv, MachineType
  <2>2. QED BY <1>6, <2>1, BesideStep DEF RepositoryMoves, IInv, Hosts
<1>7. CASE ControllerDies
  <2>1. Rest
    BY <1>7, PairedAssumption DEF ControllerDies, Rest, IInv, MachineType
  <2>2. QED BY <1>7, <2>1, DeathStep DEF ControllerDies
<1>8. CASE Reboot
  <2>1. CASE Running
    <3>1. Rest
      <4>1. crashes' \in 0..MaxCrashes
        BY <1>8, PairedAssumption DEF Reboot, IInv, MachineType
      <4>2. job' \in BOOLEAN /\ seen' \in BOOLEAN /\ marked' \in BOOLEAN
        BY <1>8 DEF Reboot
      <4>3. QED BY <1>8, <4>1, <4>2, FreePath DEF Reboot, Rest, IInv, MachineType
    <3>2. QED BY <1>8, <2>1, <3>1, DeathStep DEF Reboot
  <2>2. CASE ~Running
    BY <1>8, <2>2, QuietRebootStep
  <2>3. QED BY <2>1, <2>2
<1>9. QED BY <1>1, <1>2, <1>3, <1>4, <1>5, <1>6, <1>7, <1>8 DEF Environment

-----------------------------------------------------------------------------
(* The invariant holds.                                                    *)

\* A machine starts with the release below the lowest version run on it.
LEMMA BaseIs == Base \in 0..7
<1>1. \E v \in Versions : \A u \in Versions : v <= u
  <2>1. \A v \in Versions : v \in {1, 2, 3, 4, 5, 6, 7, 8}
    BY PairedAssumption
  <2>2. CASE 1 \in Versions
    BY <2>1, <2>2
  <2>3. CASE 1 \notin Versions /\ 2 \in Versions
    BY <2>1, <2>3
  <2>4. CASE {1, 2} \cap Versions = {} /\ 3 \in Versions
    BY <2>1, <2>4
  <2>5. CASE {1, 2, 3} \cap Versions = {} /\ 4 \in Versions
    BY <2>1, <2>5
  <2>6. CASE {1, 2, 3, 4} \cap Versions = {} /\ 5 \in Versions
    BY <2>1, <2>6
  <2>7. CASE {1, 2, 3, 4, 5} \cap Versions = {} /\ 6 \in Versions
    BY <2>1, <2>7
  <2>8. CASE {1, 2, 3, 4, 5, 6} \cap Versions = {} /\ 7 \in Versions
    BY <2>1, <2>8
  <2>9. CASE {1, 2, 3, 4, 5, 6, 7} \cap Versions = {} /\ 8 \in Versions
    BY <2>1, <2>9
  <2>10. QED BY <2>1, <2>2, <2>3, <2>4, <2>5, <2>6, <2>7, <2>8, <2>9, PairedAssumption
<1> DEFINE x == CHOOSE v \in Versions : \A u \in Versions : v <= u
<1>2. x \in Versions
  BY <1>1
<1>3. Base = x - 1
  BY DEF Base
<1> HIDE DEF x
<1>4. QED BY <1>2, <1>3, PairedAssumption

\* The evidence of an update that was committed before.
LEMMA CommittedIs ==
  ASSUME NEW u \in 1..8
  PROVE  LET r == CommittedEvidence(u)
         IN  r \in Evidence /\ r.ptr = "active" /\ r.state = "COMMITTED" /\ r.kept = u - 1
<1> DEFINE n == FreshEvidence
           s == "COMMITTED"
           k == u - 1
           r == CommittedEvidence(u)
<1>1. n \in Evidence /\ s \in States /\ k \in -1..8
  BY Alphabet, Blank
<1>2. r = [n EXCEPT !.state = s, !.ptr = "active", !.stage = "reference",
                    !.kept = k, !.reserve = "released", !.result = "success"]
  BY DEF CommittedEvidence
<1> HIDE DEF n, s, k, r
<1>3. r.ptr = "active" /\ r.state = s /\ r.kept = k
  BY <1>1, <1>2 DEF Evidence
<1>4. r \in Evidence
  BY <1>1, <1>2 DEF Evidence
<1>5. QED BY <1>3, <1>4 DEF s, k, r

\* The invariant holds at the beginning, with no update open.
LEMMA InitStep == Init => IInv /\ Open = {}
<1> SUFFICES ASSUME Init PROVE IInv /\ Open = {}
  OBVIOUS
<1>1. /\ app = Base /\ job = TRUE /\ proc = Base /\ seen = FALSE /\ marked = TRUE
      /\ child = "none" /\ pairing = (Base > 0) /\ repo = "authorized"
      /\ ctl = Idle /\ crashes = 0 /\ faults = 0 /\ Base \in 0..7
      /\ ev = [u \in All |-> IF u <= Base THEN CommittedEvidence(u) ELSE NoEvidence]
  BY BaseIs DEF Init
<1>2. ASSUME NEW u \in All
      PROVE  /\ ev[u] \in Evidence
             /\ u <= Base => ev[u].ptr = "active" /\ ev[u].state = "COMMITTED" /\ ev[u].kept = u - 1
             /\ ~(u <= Base) => ev[u].ptr = "none"
  <2>1. u \in 1..8 /\ ev[u] = IF u <= Base THEN CommittedEvidence(u) ELSE NoEvidence
    BY <1>1 DEF All
  <2>2. CASE u <= Base
    BY <2>1, <2>2, CommittedIs
  <2>3. CASE ~(u <= Base)
    <3>1. ev[u] = NoEvidence
      BY <2>1, <2>3
    <3>2. QED BY <2>3, <3>1, Blank
  <2>4. QED BY <2>2, <2>3
<1>3. ev \in [All -> Evidence]
  <2>1. ev = [u \in All |-> ev[u]]
    BY <1>1
  <2>2. QED BY <1>2, <2>1
<1>4. \A w \in All : w \in Committed <=> w <= Base
  BY <1>2 DEF Committed
<1>5. Live = {} /\ Open = {}
  BY <1>2 DEF Live, Open
<1>6. History
  BY <1>1, <1>2, <1>4, <1>5 DEF History, Committed
<1>7. MachineType
  <2>1. job \in BOOLEAN /\ seen \in BOOLEAN /\ marked \in BOOLEAN
    BY <1>1
  <2>2. pairing \in BOOLEAN
    <3>1. (Base > 0) \in BOOLEAN
      OBVIOUS
    <3>2. QED BY <1>1, <3>1
  <2>3. QED BY <1>1, <1>3, <2>1, <2>2, PairedAssumption DEF MachineType
<1>8. ControlType /\ Controls /\ Hosts
  BY <1>1, Alphabet DEF ControlType, Controls, Hosts, Running, Idle, Progress
<1>9. QED BY <1>5, <1>6, <1>7, <1>8 DEF IInv

\* Every step keeps the invariant, and changes the evidence of one update only.
LEMMA NextStep ==
  ASSUME IInv, Next, Requests # "any"
  PROVE  IInv' /\ (ev' = ev \/ \E v \in Versions : Tells(v))
<1>1. ASSUME NEW v \in Versions, Begin(v)
      PROVE  IInv' /\ Tells(v)
  BY <1>1, BeginStep
<1>2. ASSUME NEW v \in Versions, Request(v)
      PROVE  IInv' /\ Tells(v)
  BY <1>2, RequestStep
<1>3. CASE Command
  <2> SUFFICES ASSUME NEW v, v = ctl.v PROVE IInv' /\ \E u \in Versions : Tells(u)
    OBVIOUS
  <2>1. IInv' /\ Tells(v)
    BY <1>3, CommandStep
  <2>2. QED BY <2>1 DEF Tells, Ahead
<1>4. CASE Environment
  <2> SUFFICES ASSUME NEW v, v = ctl.v PROVE IInv' /\ (ev' = ev \/ \E u \in Versions : Tells(u))
    OBVIOUS
  <2>1. IInv' /\ (ev' = ev \/ Tells(v))
    BY <1>4, EnvironmentStep
  <2>2. QED BY <2>1 DEF Tells, Ahead
<1>5. QED BY <1>1, <1>2, <1>3, <1>4 DEF Next

\* The invariant holds in every reachable state.
LEMMA Invariance ==
  ASSUME Requests # "any"
  PROVE  Spec => []IInv
<1>1. Init => IInv
  BY InitStep
<1>2. IInv /\ [Next]_vars => IInv'
  BY NextStep, StutterStep
<1>3. QED BY <1>1, <1>2, PTL DEF Spec

-----------------------------------------------------------------------------
(* What follows from it.                                                   *)

\* How the releases are seen: as many are committed as the number of the
\* installed one, and the next one may be in flight.
Installed == IF Open = {} THEN app ELSE Newest

InTransit == IF Open = {} THEN 0 ELSE CHOOSE u \in Open : TRUE

\* The newest of the versions up to k is k.
LEMMA NewestIs ==
  ASSUME NEW k \in 0..8, \A w \in All : w \in Committed <=> w <= k
  PROVE  Newest = k
<1>1. CASE k = 0
  <2>1. Committed = {}
    BY <1>1 DEF Committed, All
  <2>2. QED BY <1>1, <2>1 DEF Newest
<1>2. CASE k # 0
  <2>1. k \in Committed /\ \A w \in Committed : w \in All /\ w <= k
    BY <1>2 DEF Committed, All
  <2>2. \A u \in Committed : (\A w \in Committed : w <= u) => u = k
    BY <2>1 DEF All
  <2>3. QED BY <2>1, <2>2 DEF Newest
<1>3. QED BY <1>1, <1>2

MappedFacts ==
  /\ Installed \in 0..8 /\ \A w \in All : w \in Committed <=> w <= Installed
  /\ \A u \in Open : InTransit = u /\ Open = {u} /\ Installed = u - 1
  /\ Open = {} => InTransit = 0
  /\ Open = {} => app = Newest

\* What the invariant says of the abstract releases.
LEMMA Mapped == IInv => MappedFacts
<1> SUFFICES ASSUME IInv PROVE MappedFacts
  OBVIOUS
<1>1. Open \subseteq Live /\ Live \subseteq All
  BY DEF Open, Live
<1>2. \A u, w \in Live : u = w
  <2>1. ASSUME NEW u \in Live, NEW w \in Live, w < u PROVE FALSE
    BY <1>1, <2>1 DEF IInv, History, Live, Committed
  <2>2. QED BY <1>1, <2>1 DEF All
<1>3. ASSUME NEW u \in Open
      PROVE  /\ InTransit = u /\ Open = {u} /\ Installed = u - 1 /\ u - 1 \in 0..8
             /\ \A w \in All : w \in Committed <=> w <= u - 1
  <2>1. Open = {u} /\ u \in 1..8
    BY <1>1, <1>2 DEF All
  <2>2. \A w \in All : w \in Committed <=> w <= u - 1
    BY <1>1, <2>1 DEF IInv, History, All
  <2>3. QED BY <2>1, <2>2, NewestIs DEF InTransit, Installed
<1>4. ASSUME Open = {}
      PROVE  /\ InTransit = 0 /\ Installed = app /\ app \in 0..8
             /\ \A w \in All : w \in Committed <=> w <= app
  <2>1. CASE Live = {}
    BY <1>4, <2>1 DEF IInv, History, InTransit, Installed
  <2>2. ASSUME NEW u \in Live
        PROVE  app \in 0..8 /\ \A w \in All : w \in Committed <=> w <= app
    <3>1. ev[u].state = "ROLLED_BACK" /\ u \in 1..8
      BY <1>1, <1>4 DEF Live, Open, All
    <3>2. app = u - 1
      BY <3>1 DEF IInv, History, Stands, Reverted, Restored
    <3>3. \A w \in All : w \in Committed <=> w < u
      BY DEF IInv, History
    <3>4. QED BY <3>1, <3>2, <3>3 DEF All
  <2>3. QED BY <1>4, <2>1, <2>2 DEF InTransit, Installed
<1>5. Open = {} => app = Newest
  BY <1>4, NewestIs
<1>6. CASE Open = {}
  BY <1>4, <1>5, <1>6 DEF MappedFacts
<1>7. CASE Open # {}
  BY <1>3, <1>7 DEF MappedFacts
<1>8. QED BY <1>6, <1>7

(* Whichever controllers crash and are run again, the journals, pointers   *)
(* and retained hosts of all versions tell one history: at most one open   *)
(* update, on an unbroken chain of committed ones whose newest is          *)
(* installed when none is open (execute_paired_vN_update,                  *)
(* rollback_existing_paired_vN_update and verify_committed_vK_baseline).   *)
THEOREM HistoryTold ==
  ASSUME Requests # "any"
  PROVE  Spec => []HistoryCoherent
<1>1. ASSUME IInv PROVE TypeOK
  BY <1>1 DEF IInv, MachineType, ControlType, Controls, TypeOK, Evidence
<1>2. ASSUME IInv PROVE OneOpenUpdate
  <2>1. CASE Open = {}
    <3>1. Cardinality(Open) = 0
      BY <2>1, FS_EmptySet
    <3>2. QED BY <3>1 DEF OneOpenUpdate
  <2>2. ASSUME NEW u \in Open PROVE OneOpenUpdate
    <3>1. Open = {u}
      BY <1>2, Mapped DEF MappedFacts
    <3>2. Cardinality(Open) = 1
      BY <3>1, FS_Singleton
    <3>3. QED BY <3>2 DEF OneOpenUpdate
  <2>3. QED BY <2>1, <2>2
<1>3. ASSUME IInv PROVE SettledMeansInstalled
  BY <1>3, Mapped DEF MappedFacts, SettledMeansInstalled, IInv, History
<1>4. ASSUME IInv PROVE ChainUnbroken
  BY <1>4 DEF ChainUnbroken, Open, Live, IInv, History
<1>5. IInv => HistoryCoherent
  BY <1>1, <1>2, <1>3, <1>4 DEF HistoryCoherent
<1>6. QED BY <1>5, Invariance, PTL

(* From the published pointer to the end of the transaction the host being *)
(* replaced is in exactly one place, so that rollback_topology can always  *)
(* tell which move comes next.                                             *)
THEOREM BaselineKept ==
  ASSUME Requests # "any"
  PROVE  Spec => []BaselineInOnePlace
<1>1. IInv => BaselineInOnePlace
  <2> SUFFICES ASSUME IInv, NEW v \in Open PROVE (app = v - 1) # (ev[v].kept = v - 1)
    BY DEF BaselineInOnePlace
  <2>1. v \in Live /\ v \in 1..8
    BY DEF Open, Live, All
  <2>2. Reverted(v, app, ev[v]) \/ Replaced(v, app, ev[v])
    BY <2>1 DEF IInv, History, Stands
  <2>3. CASE Reverted(v, app, ev[v])
    BY <2>1, <2>3 DEF Reverted, Nothing
  <2>4. CASE Replaced(v, app, ev[v])
    BY <2>1, <2>4 DEF Replaced, Nothing
  <2>5. QED BY <2>2, <2>3, <2>4
<1>2. QED BY <1>1, Invariance, PTL

-----------------------------------------------------------------------------
(* What the steps are taken on.                                            *)

\* Nothing but MoveApp changes the installed app.
LEMMA OnlyMoves ==
  ASSUME Next, app' # app
  PROVE  MoveApp
<1>1. ~Command \/ MoveApp
  BY DEF Command, Record, AppendFails, Check, Wait, Observe, WriteEvidence, PrepareHold,
     ArchiveHold, Launchctl, HostLock, StagedHost
<1>2. ~Environment
  BY DEF Environment, HostStarts, HostLogsMarker, HostExits, ViewerPairs, StagedHostExits,
     RepositoryMoves, ControllerDies, Reboot
<1>3. ASSUME NEW v, Begin(v) \/ Request(v) PROVE FALSE
  BY <1>3 DEF Begin, Request
<1>4. QED BY <1>1, <1>2, <1>3 DEF Next

\* Every move lies between the two commands of the host lock.
LEMMA MoveProved ==
  ASSUME IInv, MoveApp
  PROVE  ctl.locked /\ capture_server_processes = {}
<1> SUFFICES ASSUME NEW v, v = ctl.v, NEW c, c = Cmd, NEW at, at = ctl.at,
                    NEW m, m = ForwardMarks(v), NEW n, n = RollbackMarks(v)
             PROVE  ctl.locked /\ capture_server_processes = {}
  OBVIOUS
<1>1. Running /\ c \in {"holdCurrent", "publishNew", "archiveNew", "restoreCurrent"}
  BY DEF MoveApp
<1>2. ctl.run \in {"forward", "rollback", "retire"} /\ at \in Int
  BY <1>1, Commands DEF IInv, ControlType
<1>3. ASSUME ctl.run = "forward" PROVE ctl.locked
  <2>1. ForwardText(v, at, m, c) /\ ForwardOrder(v, m) /\ Forward(v, at, m)
    BY <1>1, <1>3, Commands
  <2>2. at = m.hold \/ at = m.publish
    BY <1>1, <2>1 DEF ForwardText
  <2>3. m.lock < at /\ at <= m.unlock
    BY <2>1, <2>2 DEF ForwardOrder
  <2>4. QED BY <2>1, <2>3 DEF Forward
<1>4. ASSUME ctl.run = "rollback" PROVE ctl.locked
  <2>1. RollbackText(v, at, n, c) /\ RollbackOrder(v, n) /\ Back(v, at, n)
    BY <1>1, <1>4, Commands
  <2>2. n.lock < at /\ at <= n.restore
    BY <1>1, <1>2, <2>1 DEF RollbackText, RollbackOrder
  <2>3. n.lock < at /\ at <= n.unlock
    BY <1>2, <2>1, <2>2 DEF RollbackOrder
  <2>4. QED BY <2>1, <2>3 DEF Back
<1>5. ASSUME ctl.run = "retire" PROVE ctl.locked
  <2>1. RetireText(v, at, c)
    BY <1>1, <1>5, Commands
  <2>2. QED BY <1>1, <2>1 DEF RetireText
<1>6. ctl.locked
  BY <1>2, <1>3, <1>4, <1>5
<1>7. proc = Nothing /\ child = "none"
  BY <1>6 DEF IInv, Hosts
<1>8. QED BY <1>6, <1>7 DEF capture_server_processes

\* An outcome recorded for u is the command its controller is at.
LEMMA Telling ==
  ASSUME IInv, NEW v \in Versions, Tells(v), NEW u \in Versions, NEW s \in {"COMMITTED", "ROLLED_BACK"},
         Recorded(u, s)
  PROVE  Running /\ u = ctl.v /\ Cmd = s
<1>1. u \in All
  BY PairedAssumption DEF All
<1>2. u = v
  BY <1>1 DEF Tells, Only, Recorded
<1>3. QED BY <1>2 DEF Tells, Recorded

\* A commit is recorded over a host that stands, with its baseline kept.
LEMMA CommitStep ==
  ASSUME IInv, Running, NEW v, v = ctl.v, Cmd = "COMMITTED"
  PROVE  /\ app = v /\ job /\ child = "none" /\ pairing
         /\ ev[v].ptr = "active" /\ ev[v].kept = v - 1 /\ ev[v].hold = "absent"
         /\ \A u \in 1..(v - 1) : ev[u].state = "COMMITTED"
<1> SUFFICES ASSUME NEW c, c = Cmd, NEW at, at = ctl.at, NEW m, m = ForwardMarks(v)
             PROVE  /\ app = v /\ job /\ child = "none" /\ pairing
                    /\ ev[v].ptr = "active" /\ ev[v].kept = v - 1 /\ ev[v].hold = "absent"
                    /\ \A u \in 1..(v - 1) : ev[u].state = "COMMITTED"
  OBVIOUS
<1>1. c = "COMMITTED" /\ c \in States
  BY Alphabet
<1>2. ctl.run \notin {"rollback", "retire"}
  <2>1. CASE ctl.run = "rollback"
    <3>1. RollbackText(v, at, RollbackMarks(v), c)
      BY <2>1, Commands
    <3>2. QED BY <1>1, <3>1, RollingStates DEF RollbackText
  <2>2. CASE ctl.run = "retire"
    <3>1. RetireText(v, at, c)
      BY <2>2, Commands
    <3>2. QED BY <1>1, <3>1 DEF RetireText
  <2>3. QED BY <2>1, <2>2
<1>3. /\ ForwardText(v, at, m, c) /\ ForwardOrder(v, m) /\ Forward(v, at, m)
      /\ Turn(v) /\ v \in 1..8
  BY <1>2, Commands
<1>4. at = m.commit
  BY <1>1, <1>3 DEF ForwardText
<1>5. /\ at > m.pointer /\ at > m.hold /\ at > m.publish /\ at > m.unhold /\ at > m.load
      /\ ~(at <= 26 /\ v = 1) /\ (v # 1 \/ at > 24)
  BY <1>3, <1>4 DEF ForwardOrder
<1>6. app = v /\ ev[v].ptr = "active" /\ ev[v].kept = v - 1 /\ ev[v].hold = "absent"
  BY <1>3, <1>5 DEF Forward, Reached
<1>7. job /\ pairing
  BY <1>3, <1>5 DEF Forward
<1>8. child = "none"
  BY <1>3, <1>5 DEF Forward
<1>9. \A u \in 1..(v - 1) : ev[u].state = "COMMITTED"
  BY <1>3 DEF Turn, Ahead, Pinned
<1>10. QED BY <1>6, <1>7, <1>8, <1>9

\* A rollback is recorded over the host it has restored.
LEMMA RolledBackStep ==
  ASSUME IInv, Running, NEW v, v = ctl.v, Cmd = "ROLLED_BACK"
  PROVE  /\ app = v - 1 /\ job /\ ev[v].kept = Nothing
         /\ ev[v].hold = "absent" /\ ev[v].reserve # "full"
<1> SUFFICES ASSUME NEW c, c = Cmd, NEW at, at = ctl.at, NEW n, n = RollbackMarks(v)
             PROVE  /\ app = v - 1 /\ job /\ ev[v].kept = Nothing
                    /\ ev[v].hold = "absent" /\ ev[v].reserve # "full"
  OBVIOUS
<1>1. c = "ROLLED_BACK" /\ c \in States
  BY Alphabet DEF Restored
<1>2. ctl.run \notin {"forward", "retire"}
  <2>1. CASE ctl.run = "forward"
    <3>1. ForwardText(v, at, ForwardMarks(v), c)
      BY <2>1, Commands
    <3>2. QED BY <1>1, <3>1 DEF ForwardText, Progress
  <2>2. CASE ctl.run = "retire"
    <3>1. RetireText(v, at, c)
      BY <2>2, Commands
    <3>2. QED BY <1>1, <3>1 DEF RetireText
  <2>3. QED BY <2>1, <2>2
<1>3. RollbackText(v, at, n, c) /\ RollbackOrder(v, n) /\ Back(v, at, n)
  BY <1>2, Commands
<1>4. at = n.done
  BY <1>1, <1>3 DEF RollbackText
<1>5. at > n.sweep /\ at > n.release /\ at > n.restore /\ at > n.load
  BY <1>3, <1>4 DEF RollbackOrder
<1>6. QED BY <1>3, <1>5 DEF Back, Undone, Reverted

(* Apps are moved only under the host lock with no host running; COMMITTED *)
(* is journaled only with the new app in place, loaded, and everything     *)
(* below it committed and retained, and ROLLED_BACK only with the previous *)
(* app back and loaded (the bodies of perform_paired_vN_update and         *)
(* rollback_to_current_baseline).                                          *)
THEOREM StepsAreProved ==
  ASSUME Requests # "any"
  PROVE  Spec => StepsProved
<1>1. IInv /\ [Next]_vars =>
        [app' # app => ctl.locked /\ capture_server_processes = {}]_vars
  BY OnlyMoves, MoveProved DEF vars
<1>2. ASSUME IInv, Next, NEW u \in Versions, NEW s \in {"COMMITTED", "ROLLED_BACK"}, Recorded(u, s)
      PROVE  Running /\ u = ctl.v /\ Cmd = s
  <2>1. ev' # ev
    BY <1>2 DEF Recorded
  <2>2. PICK v \in Versions : Tells(v)
    BY <1>2, <2>1, NextStep
  <2>3. QED BY <1>2, <2>2, Telling
<1>3. IInv /\ [Next]_vars =>
        [\A v \in Versions : Recorded(v, "COMMITTED") =>
           /\ app = v /\ job /\ child = "none" /\ pairing
           /\ ev[v].ptr = "active" /\ ev[v].kept = v - 1 /\ ev[v].hold = "absent"
           /\ \A u \in 1..(v - 1) : ev[u].state = "COMMITTED"]_vars
  BY <1>2, CommitStep
<1>4. IInv /\ [Next]_vars =>
        [\A v \in Versions : Recorded(v, "ROLLED_BACK") =>
           /\ app = v - 1 /\ job /\ ev[v].kept = Nothing
           /\ ev[v].hold = "absent" /\ ev[v].reserve # "full"]_vars
  BY <1>2, RolledBackStep
<1>5. QED BY <1>1, <1>3, <1>4, Invariance, PTL
         DEF Spec, StepsProved, MovesUnderLock, CommitProved, RollbackProved

-----------------------------------------------------------------------------
(* The releases.                                                           *)

\* Every step on v's directory opens or ends v's transaction, or is hidden.
LEMMA ReleaseStep ==
  ASSUME NEW v \in Versions, Tells(v),
         NEW i, i = Installed, NEW j, j = Installed', NEW o, o = InTransit, NEW p, p = InTransit',
         i \in 0..8, \A w \in All : w \in Committed <=> w <= i,
         j \in 0..8, \A w \in All : w \in Committed' <=> w <= j,
         \A u \in Open : o = u /\ i = u - 1, Open = {} => o = 0,
         \A u \in Open' : p = u /\ j = u - 1, Open' = {} => p = 0
  PROVE  \/ o = 0 /\ p = v /\ i \in {v - 1, v} /\ j = v - 1
         \/ o = v /\ p = 0 /\ j \in {v - 1, v}
         \/ i = j /\ o = p
<1>1. v \in All /\ v \in 1..8
  BY PairedAssumption DEF All
<1>2. \A w \in All \ {v} : ev'[w] = ev[w]
  BY DEF Tells, Only
<1>3. Open \subseteq {v} /\ Open' \subseteq {v}
  <2>1. Open \subseteq {v}
    BY DEF Tells, Ahead, Open, Live
  <2>2. QED BY <1>2, <2>1 DEF Open
<1>4. ASSUME NEW w \in 1..(v - 1) PROVE w \in All /\ w \in Committed /\ w \in Committed'
  <2>1. w \in All \ {v}
    BY <1>1 DEF All
  <2>2. QED BY <1>2, <2>1 DEF Tells, Ahead, Pinned, Committed
<1>5. (\A w \in Committed : w <= v) /\ (\A w \in Committed' : w <= v)
  BY <1>1, <1>2 DEF Tells, Ahead, Committed, All
<1>6. i \in {v - 1, v} /\ j \in {v - 1, v}
  <2>1. ASSUME NEW k \in 0..8, NEW C, \A w \in All : w \in C <=> w <= k,
               \A w \in 1..(v - 1) : w \in C, \A w \in C : w <= v
        PROVE  k \in {v - 1, v}
    <3>1. v - 1 <= k
      BY <1>1, <2>1 DEF All
    <3>2. k <= v
      BY <1>1, <2>1 DEF All
    <3>3. QED BY <1>1, <3>1, <3>2
  <2>2. QED BY <1>4, <1>5, <2>1
<1>7. (v \in Committed <=> i = v) /\ (v \in Committed' <=> j = v)
  BY <1>1, <1>6
<1>8. CASE v \in Open /\ v \in Open'
  BY <1>8
<1>9. CASE v \in Open /\ v \notin Open'
  BY <1>3, <1>6, <1>9
<1>10. CASE v \notin Open /\ v \in Open'
  BY <1>3, <1>6, <1>10
<1>11. CASE v \notin Open /\ v \notin Open'
  <2>1. v \in Committed <=> v \in Committed'
    BY <1>1, <1>11 DEF Tells, Through, Concluded, InFlight, Committed, Open
  <2>2. i = j
    BY <1>6, <1>7, <2>1
  <2>3. QED BY <1>3, <1>11, <2>2
<1>12. QED BY <1>8, <1>9, <1>10, <1>11

\* Only the installed app of a machine with no transaction open is seen, and
\* there the journals say which it is.
LEMMA HiddenStep ==
  ASSUME ev' = ev, Open = {} => app = Newest, Open' = {} => app' = Newest'
  PROVE  Installed' = Installed /\ InTransit' = InTransit
<1>1. Open' = Open /\ Newest' = Newest
  BY DEF Open, Newest, Committed
<1>2. QED BY <1>1 DEF Installed, InTransit

(* The controllers implement the chain of releases: as seen through the    *)
(* pointers and journals, a release is committed or reverted one version   *)
(* at a time, within a transaction of its own, whatever dies or fails in   *)
(* between.                                                                *)
THEOREM ReleasesImplemented ==
  ASSUME Requests # "any"
  PROVE  Spec => ImplementsReleases
<1>1. IInv' => MappedFacts'
  BY Mapped, PTL
<1>2. Init => Releases!Init
  <2>1. ASSUME Init PROVE Installed \in 0..8 /\ InTransit = 0
    BY <2>1, InitStep, Mapped DEF MappedFacts
  <2>2. QED BY <2>1 DEF Releases!Init, Installed, InTransit
<1>3. ASSUME IInv, Next PROVE Releases!Next \/ UNCHANGED <<Installed, InTransit>>
  <2>1. IInv' /\ MappedFacts /\ MappedFacts'
    BY <1>1, <1>3, Mapped, NextStep
  <2>2. CASE ev' = ev
    BY <2>1, <2>2, HiddenStep DEF MappedFacts
  <2>3. ASSUME NEW v \in Versions, Tells(v)
        PROVE  Releases!Next \/ UNCHANGED <<Installed, InTransit>>
    <3>1. \/ InTransit = 0 /\ InTransit' = v /\ Installed \in {v - 1, v} /\ Installed' = v - 1
          \/ InTransit = v /\ InTransit' = 0 /\ Installed' \in {v - 1, v}
          \/ Installed = Installed' /\ InTransit = InTransit'
      BY <2>1, <2>3, ReleaseStep DEF MappedFacts
    <3>2. ASSUME InTransit = 0, InTransit' = v, Installed \in {v - 1, v}, Installed' = v - 1
          PROVE  Releases!Opens(v)
      BY <3>2 DEF Releases!Opens, Installed, InTransit
    <3>3. ASSUME InTransit = v, InTransit' = 0, Installed' \in {v - 1, v}
          PROVE  Releases!Closes(v)
      BY <3>3 DEF Releases!Closes, Installed, InTransit
    <3>4. QED BY <3>1, <3>2, <3>3 DEF Releases!Next
  <2>4. QED BY <1>3, <2>2, <2>3, NextStep
<1>4. IInv /\ [Next]_vars => [Releases!Next]_(Releases!chain)
  <2>1. ASSUME UNCHANGED <<Installed, InTransit>> PROVE UNCHANGED Releases!chain
    BY <2>1 DEF Releases!chain, Installed, InTransit
  <2>2. ASSUME UNCHANGED vars PROVE UNCHANGED <<Installed, InTransit>>
    BY <2>2 DEF vars, Installed, InTransit, Open, Newest, Committed
  <2>3. QED BY <1>3, <2>1, <2>2
<1>5. QED BY <1>2, <1>4, Invariance, PTL DEF Spec, ImplementsReleases, Releases!Spec
=============================================================================
