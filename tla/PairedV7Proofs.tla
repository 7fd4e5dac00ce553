--------------------------- MODULE PairedV7Proofs ---------------------------
(***************************************************************************)
(* Safety of PairedV7Update for every set of processes that may die or be  *)
(* late, every way an append may fail, every operator, and any number of   *)
(* deaths and faults: the previous host runs only without the new driver,  *)
(* a journal that says the driver was restored is true, and nothing is     *)
(* moved under a running host.                                             *)
(*                                                                         *)
(* Four kinds of process act.  The proof describes what a command may do   *)
(* to the controller that gives it (Steered) and what an operation of      *)
(* root's may do to the driver (Turned) once; the rest is a lemma for      *)
(* each action.                                                            *)
(***************************************************************************)
EXTENDS PairedV7Update, TLAPS

(* The inductive invariant: types.                                         *)

Evidence ==
  [state : V7States, tail : V7States \cup {"clean", "corrupt"},
   ptr : {"none", "pending", "active", "retired"}, root : BOOLEAN,
   stage : {"none", "exported", "built", "reference", "driver", "probes"},
   hold : {"absent", "empty", "exact"}, kept : -1..8, failed : -1..8,
   quarantine : BOOLEAN, reserve : {"none", "full", "released"},
   result : {"none", "success", "warning", "failed", "rolledBack", "critical"}]

Planned == {"forward", "unwind", "undoCommit", "rollback", "retire"}

Control ==
  [who : Sides \cup {"none", "main"}, run : Planned \cup {"none", "install"},
   why : {"none", "failure", "explicit", "proxy"}, at : Nat, sent : BOOLEAN,
   locked : BOOLEAN, stopped : BOOLEAN, state : V7States, healthy : BOOLEAN,
   exp : {"absent", "present"}]

Clients ==
  [at : {"none", "open", "closed", "dropped", "deaf", "gone"}, pub : BOOLEAN,
   q : Seq(Lines), r : SUBSET Lines]

ProxyPlaces == {"off", "await", "loop", "begin", "bootout", "drain", "undo", "endpoints",
                "finish", "report", "lock", "rollback"}

ProxyStates ==
  [at : ProxyPlaces, pub : BOOLEAN, rdy : BOOLEAN, begun : {"no", "yes", "error"},
   dead : BOOLEAN, want : Lines \cup {"none"}, goal : {"none", "reject", "orphan", "serve"},
   code : {"none", "ok", "err"}]

RootStates ==
  [at : {"off", "ready", "cleanup"}, pub : BOOLEAN, rdy : BOOLEAN,
   cmd : Lines \cup {"none"}, reply : Lines \cup {"none"}]

Drivers == {"staged", "partial", "hold", "canonical", "failed", "abandoned"}

HostType ==
  /\ app \in {-1, 6, 7} /\ proc \in {-1, 6, 7}
  /\ job \in BOOLEAN /\ seen \in BOOLEAN /\ marked \in BOOLEAN /\ pairing \in BOOLEAN
  /\ crashes \in 0..MaxCrashes /\ faults \in 0..MaxFaults
  /\ intact \subseteq Retentions /\ kit \in {Retry4RootV3Stage[i] : i \in 1..7}

DriverType == drv \in Drivers /\ audio \in {"none", "product"}

ProcessType ==
  /\ cli \in [Sides -> Clients] /\ px \in [Sides -> ProxyStates] /\ rt \in [Sides -> RootStates]

Types == HostType /\ DriverType /\ ProcessType /\ ev \in [All -> Evidence] /\ ctl \in Control

(* What the three processes of a side say to each other.                   *)

\* The elements of a sequence.
Queued(q) == {q[i] : i \in DOMAIN q}

\* The commands of a side.
Words(p) == IF p = "broker"
            THEN {"PREPARE", "PING", "PUBLISH", "PREPARE_COMMIT", "COMMIT", "ABANDON", "ROLLBACK"}
            ELSE {"VERIFY", "PING", "RESTORE", "ABORT"}

\* What a proxy that has left its loop asks for.
Cleaning(p) == IF p = "broker" THEN {"PING", "COMMIT", "ABANDON", "ROLLBACK"} ELSE {"RESTORE", "ABORT"}

\* The vocabulary of the side p with client k, proxy x and root r.
Spoken(p, k, x, r) ==
  /\ Queued(k.q) \subseteq Words(p)
  /\ x.want \in Words(p) \cup {"none"} /\ r.cmd \in Words(p) \cup {"none"}
  /\ x.at = "await" => x.want # "none" /\ (x.goal # "none" => x.want \in Cleaning(p))
  /\ x.at = "loop" => x.goal = "none"

(* Where the driver is.                                                    *)

\* The new driver is undone for good: no operation brings it back.
Gone == drv \in {"failed", "abandoned"} /\ audio = "none"

\* Commands that undo the driver.
Undoing == {"ABANDON", "ROLLBACK", "RESTORE"}

\* Places of a proxy behind the driver's undoing.
Behind == {"endpoints", "finish", "report", "lock", "rollback"}

\* The side says that the driver is undone.
Announces(k, x, r) ==
  x.at \in Behind \/ r.reply \in Undoing \/ \E m \in Undoing \cup {"RESTORED"} : m \in k.r

Sound(p, k, x, r, gone) == Spoken(p, k, x, r) /\ (Announces(k, x, r) => gone)

\* What the sides say is in their vocabulary, and true.
Sides7 == \A p \in Sides : Sound(p, cli[p], px[p], rt[p], Gone)

\* The driver is where it was before its publication.
Fresh == {"staged", "partial", "hold"}

\* Root has been asked to publish the driver, or will be.
Publishing(k, r) == "PUBLISH" \in Queued(k.q) \/ r.cmd = "PUBLISH"

\* While v6 is installed the driver is not published, and will not be.
Published ==
  /\ audio = "product" => drv \in {"canonical", "failed"}
  /\ app = 6 => Gone \/ (drv \in Fresh /\ ~Publishing(cli["broker"], rt["broker"]))

(* Where the plans are.                                                    *)

\* How long they are.
PlanLength == [forward |-> 52, unwind |-> 8, undoCommit |-> 5, rollback |-> 31, retire |-> 4]

\* What a plan r at its command number at has done: the lock it has, the app
\* a, and whether the driver is undone.
Posed(r, at, locked, a, gone) ==
  /\ r = "forward" =>
       /\ at <= 25 => a = 6
       /\ 25 < at /\ at <= 34 => a = Nothing
       /\ 34 < at => a = 7
       /\ 22 < at /\ at <= 38 => locked
  /\ r = "rollback" => (9 < at /\ at <= 21 => locked) /\ (at > 12 => gone)
  /\ r = "unwind" /\ at > 5 => gone
  /\ r = "undoCommit" /\ at > 4 => gone

Controls ==
  /\ Running <=> ctl.run # "none"
  /\ ctl.locked => Running /\ proc = Nothing
  /\ ctl.run \in Planned => ctl.at \in 1..PlanLength[ctl.run]
  /\ Posed(ctl.run, ctl.at, ctl.locked, app, Gone)
  /\ ctl.run = "retire" => ctl.why = "explicit"
  /\ Running /\ ctl.state \in DriverRestored => Gone

Placed ==
  /\ ev[7].kept \in {-1, 6} /\ BaselineInOnePlace
  /\ proc # Nothing => proc = app
  /\ ~ev[7].root => app = 6 /\ ctl.run \in {"none", "install"} /\ ev[7].state = "BEGUN"
  /\ ev[7].state \in DriverRestored => Gone

IInv == Types /\ Sides7 /\ Published /\ Controls /\ Placed

-----------------------------------------------------------------------------
(* The journal's alphabet.                                                 *)

\* The journal states.
LEMMA Alphabet ==
  /\ V7States = {"BEGUN", "SOURCE_EXPORTED", "BUILD_VERIFIED", "INSTALL_HOLD_VERIFIED",
                 "DRIVER_PREPARED", "STOP_INITIATED", "CURRENT_STOPPED", "CURRENT_HELD",
                 "DRIVER_PUBLISHED", "PROBES_VERIFIED", "NEW_PUBLISHED",
                 "PERSISTENT_BOOTSTRAPPED", "READY_VERIFIED", "COMMITTED", "ROLLBACK_STARTED",
                 "CRITICAL_FAILURE"} \cup DriverRestored
  /\ DOMAIN V7State = 1..21
<1>1. DOMAIN V7State = 1..21
  BY DEF V7State
<1> DEFINE S == {"BEGUN", "SOURCE_EXPORTED", "BUILD_VERIFIED", "INSTALL_HOLD_VERIFIED",
                 "DRIVER_PREPARED", "STOP_INITIATED", "CURRENT_STOPPED", "CURRENT_HELD",
                 "DRIVER_PUBLISHED", "PROBES_VERIFIED", "NEW_PUBLISHED",
                 "PERSISTENT_BOOTSTRAPPED", "READY_VERIFIED", "COMMITTED", "ROLLBACK_STARTED",
                 "CRITICAL_FAILURE"} \cup DriverRestored
<1>2. ASSUME NEW i \in 1..21 PROVE V7State[i] \in S
  BY DEF V7State, DriverRestored
<1>3. ASSUME NEW s \in S PROVE \E i \in 1..21 : V7State[i] = s
  <2>1. /\ V7State[1] = "BEGUN" /\ V7State[2] = "SOURCE_EXPORTED" /\ V7State[3] = "BUILD_VERIFIED"
        /\ V7State[4] = "INSTALL_HOLD_VERIFIED" /\ V7State[5] = "DRIVER_PREPARED"
        /\ V7State[6] = "STOP_INITIATED" /\ V7State[7] = "CURRENT_STOPPED"
        /\ V7State[8] = "CURRENT_HELD" /\ V7State[9] = "DRIVER_PUBLISHED"
        /\ V7State[10] = "PROBES_VERIFIED" /\ V7State[11] = "NEW_PUBLISHED"
        /\ V7State[12] = "PERSISTENT_BOOTSTRAPPED" /\ V7State[13] = "READY_VERIFIED"
        /\ V7State[14] = "COMMITTED" /\ V7State[15] = "ROLLBACK_STARTED"
        /\ V7State[16] = "DRIVER_RESTORED" /\ V7State[17] = "FAILED_NEW_ARCHIVED"
        /\ V7State[18] = "CURRENT_RESTORED" /\ V7State[19] = "CURRENT_BOOTSTRAPPED"
        /\ V7State[20] = "ROLLED_BACK" /\ V7State[21] = "CRITICAL_FAILURE"
    BY DEF V7State
  <2>2. QED BY <2>1 DEF DriverRestored
<1>4. V7States = S
  BY <1>1, <1>2, <1>3 DEF V7States
<1>5. QED BY <1>1, <1>4

\* Each journal state has its rank.
LEMMA RankOf ==
  /\ V7Rank("BEGUN") = 1 /\ V7Rank("SOURCE_EXPORTED") = 2 /\ V7Rank("BUILD_VERIFIED") = 3
  /\ V7Rank("INSTALL_HOLD_VERIFIED") = 4 /\ V7Rank("DRIVER_PREPARED") = 5
  /\ V7Rank("STOP_INITIATED") = 6 /\ V7Rank("CURRENT_STOPPED") = 7
  /\ V7Rank("CURRENT_HELD") = 8 /\ V7Rank("DRIVER_PUBLISHED") = 9
  /\ V7Rank("PROBES_VERIFIED") = 10 /\ V7Rank("NEW_PUBLISHED") = 11
  /\ V7Rank("PERSISTENT_BOOTSTRAPPED") = 12 /\ V7Rank("READY_VERIFIED") = 13
  /\ V7Rank("COMMITTED") = 14 /\ V7Rank("ROLLBACK_STARTED") = 15
  /\ V7Rank("DRIVER_RESTORED") = 16 /\ V7Rank("FAILED_NEW_ARCHIVED") = 17
  /\ V7Rank("CURRENT_RESTORED") = 18 /\ V7Rank("CURRENT_BOOTSTRAPPED") = 19
  /\ V7Rank("ROLLED_BACK") = 20 /\ V7Rank("CRITICAL_FAILURE") = 21
<1>1. ASSUME NEW i \in 1..21 PROVE V7Rank(V7State[i]) = i
  <2>1. \A j \in 1..21 : V7State[j] = V7State[i] => j = i
    BY DEF V7State
  <2>2. QED BY <2>1, Alphabet DEF V7Rank
<1>2. /\ V7State[1] = "BEGUN" /\ V7State[2] = "SOURCE_EXPORTED" /\ V7State[3] = "BUILD_VERIFIED"
      /\ V7State[4] = "INSTALL_HOLD_VERIFIED" /\ V7State[5] = "DRIVER_PREPARED"
      /\ V7State[6] = "STOP_INITIATED" /\ V7State[7] = "CURRENT_STOPPED"
      /\ V7State[8] = "CURRENT_HELD" /\ V7State[9] = "DRIVER_PUBLISHED"
      /\ V7State[10] = "PROBES_VERIFIED" /\ V7State[11] = "NEW_PUBLISHED"
      /\ V7State[12] = "PERSISTENT_BOOTSTRAPPED" /\ V7State[13] = "READY_VERIFIED"
      /\ V7State[14] = "COMMITTED" /\ V7State[15] = "ROLLBACK_STARTED"
      /\ V7State[16] = "DRIVER_RESTORED" /\ V7State[17] = "FAILED_NEW_ARCHIVED"
      /\ V7State[18] = "CURRENT_RESTORED" /\ V7State[19] = "CURRENT_BOOTSTRAPPED"
      /\ V7State[20] = "ROLLED_BACK" /\ V7State[21] = "CRITICAL_FAILURE"
  BY DEF V7State
<1>3. QED BY <1>1, <1>2

-----------------------------------------------------------------------------
(* The plans, read once: where in them the commands are.                   *)

\* A command of a plan.
Entry(p, at) == p[at]

\* The update's plan, command by command.
ForwardEntry(at, c) ==
  \/ (at = 1 /\ c = "export") \/ (at = 2 /\ c = "SOURCE_EXPORTED")
  \/ (at = 3 /\ c = "build") \/ (at = 4 /\ c = "reference") \/ (at = 5 /\ c = "driver")
  \/ (at = 6 /\ c = "probeBinaries") \/ (at = 7 /\ c = "BUILD_VERIFIED")
  \/ (at = 8 /\ c = "prepareHold") \/ (at = 9 /\ c = "INSTALL_HOLD_VERIFIED")
  \/ (at = 10 /\ c = "boundary") \/ (at = 11 /\ c = "startBroker")
  \/ (at = 12 /\ c = "DRIVER_PREPARED") \/ (at = 13 /\ c = "preStop")
  \/ (at = 14 /\ c = "PING") \/ (at = 15 /\ c = "reserve")
  \/ (at = 16 /\ c = "STOP_INITIATED") \/ (at = 17 /\ c = "pendingPointer")
  \/ (at = 18 /\ c = "activePointer") \/ (at = 19 /\ c = "pointed")
  \/ (at = 20 /\ c = "bootout") \/ (at = 21 /\ c = "drained") \/ (at = 22 /\ c = "takeLock")
  \/ (at = 23 /\ c = "stopped") \/ (at = 24 /\ c = "CURRENT_STOPPED")
  \/ (at = 25 /\ c = "holdCurrent") \/ (at = 26 /\ c = "currentHeld")
  \/ (at = 27 /\ c = "CURRENT_HELD") \/ (at = 28 /\ c = "PUBLISH")
  \/ (at = 29 /\ c = "DRIVER_PUBLISHED") \/ (at = 30 /\ c = "PING")
  \/ (at = 31 /\ c = "probes") \/ (at = 32 /\ c = "PING")
  \/ (at = 33 /\ c = "PROBES_VERIFIED") \/ (at = 34 /\ c = "publishNew")
  \/ (at = 35 /\ c = "removeHoldRoot") \/ (at = 36 /\ c = "installed")
  \/ (at = 37 /\ c = "NEW_PUBLISHED") \/ (at = 38 /\ c = "dropLock")
  \/ (at = 39 /\ c = "PING") \/ (at = 40 /\ c = "bootstrap")
  \/ (at = 41 /\ c = "PERSISTENT_BOOTSTRAPPED") \/ (at = 42 /\ c = "observe")
  \/ (at = 43 /\ c = "PING") \/ (at = 44 /\ c = "deployment") \/ (at = 45 /\ c = "ready")
  \/ (at = 46 /\ c = "READY_VERIFIED") \/ (at = 47 /\ c = "releaseReserve")
  \/ (at = 48 /\ c = "PREPARE_COMMIT") \/ (at = 49 /\ c = "committable")
  \/ (at = 50 /\ c = "COMMITTED") \/ (at = 51 /\ c = "COMMIT")
  \/ (at = 52 /\ c = "resultSuccess")

\* The rollback's plan, command by command.
RollbackEntry(at, c) ==
  \/ (at = 1 /\ c = "resumed") \/ (at = 2 /\ c = "startRestore") \/ (at = 3 /\ c = "PING")
  \/ (at = 4 /\ c = "ROLLBACK_STARTED") \/ (at = 5 /\ c = "releaseReserve")
  \/ (at = 6 /\ c = "guarded") \/ (at = 7 /\ c = "bootoutIfLoaded")
  \/ (at = 8 /\ c = "drained") \/ (at = 9 /\ c = "takeLock") \/ (at = 10 /\ c = "held")
  \/ (at = 11 /\ c = "RESTORE") \/ (at = 12 /\ c = "driverRestored")
  \/ (at = 13 /\ c = "archiveHold") \/ (at = 14 /\ c = "topology")
  \/ (at = 15 /\ c = "archiveNew") \/ (at = 16 /\ c = "FAILED_NEW_ARCHIVED")
  \/ (at = 17 /\ c = "restoreCurrent") \/ (at = 18 /\ c = "currentApp")
  \/ (at = 19 /\ c = "CURRENT_RESTORED") \/ (at = 20 /\ c = "resumable")
  \/ (at = 21 /\ c = "dropLock") \/ (at = 22 /\ c = "currentApp")
  \/ (at = 23 /\ c = "bootstrap") \/ (at = 24 /\ c = "CURRENT_BOOTSTRAPPED")
  \/ (at = 25 /\ c = "observe") \/ (at = 26 /\ c = "baselineDeployment")
  \/ (at = 27 /\ c = "pairing") \/ (at = 28 /\ c = "ROLLED_BACK")
  \/ (at = 29 /\ c = "runtime") \/ (at = 30 /\ c = "resultRolledBack")
  \/ (at = 31 /\ c = "retirePointer")

\* The commands of the update by their places.
ForwardText(at, c) ==
  /\ c = "startBroker" <=> at = 11
  /\ c = "takeLock" <=> at = 22
  /\ c = "holdCurrent" <=> at = 25
  /\ c = "PUBLISH" <=> at = 28
  /\ c = "publishNew" <=> at = 34
  /\ c = "dropLock" <=> at = 38
  /\ c = "bootstrap" <=> at = 40
  /\ c = "PREPARE_COMMIT" <=> at = 48
  /\ c = "committable" <=> at = 49
  /\ c = "COMMITTED" <=> at = 50
  /\ c = "COMMIT" <=> at = 51
  /\ c = "resultSuccess" <=> at = 52
  /\ c = "PING" => at \in {14, 30, 32, 39, 43}
  /\ c \in V7States => at < 51 /\ c \notin DriverRestored \cup {"ROLLBACK_STARTED"}
  /\ c \notin {"startRestore", "RESTORE", "undo", "reopen", "archiveNew", "restoreCurrent",
               "driverRestored", "bootoutIfLoaded", "tryBootout", "tryDrain"}

RollbackText(at, c) ==
  /\ c = "resumed" <=> at = 1
  /\ c = "startRestore" <=> at = 2
  /\ c = "PING" <=> at = 3
  /\ c = "ROLLBACK_STARTED" <=> at = 4
  /\ c = "takeLock" <=> at = 9
  /\ c = "RESTORE" <=> at = 11
  /\ c = "driverRestored" <=> at = 12
  /\ c = "archiveNew" <=> at = 15
  /\ c = "restoreCurrent" <=> at = 17
  /\ c = "dropLock" <=> at = 21
  /\ c = "bootstrap" <=> at = 23
  /\ c \in V7States => (c = "ROLLBACK_STARTED" /\ at = 4) \/ (c \in DriverRestored /\ 12 < at)
  /\ c \notin {"startBroker", "PUBLISH", "PREPARE_COMMIT", "COMMIT", "undo", "reopen",
               "holdCurrent", "publishNew", "tryBootout", "tryDrain"}

UnwindText(at, c) ==
  \/ (at = 1 /\ c = "reopen") \/ (at = 2 /\ c = "ROLLBACK_STARTED")
  \/ (at = 3 /\ c = "tryBootout") \/ (at = 4 /\ c = "tryDrain") \/ (at = 5 /\ c = "undo")
  \/ (at = 6 /\ c = "reopen") \/ (at = 7 /\ c = "DRIVER_RESTORED") \/ (at = 8 /\ c = "undone")

UndoCommitText(at, c) ==
  \/ (at = 1 /\ c = "ROLLBACK_STARTED") \/ (at = 2 /\ c = "bootoutIfLoaded")
  \/ (at = 3 /\ c = "drained") \/ (at = 4 /\ c = "undo") \/ (at = 5 /\ c = "DRIVER_RESTORED")

RetireText(at, c) ==
  \/ (at = 1 /\ c = "runtime") \/ (at = 2 /\ c = "pairing")
  \/ (at = 3 /\ c = "ensureResult") \/ (at = 4 /\ c = "retirePointer")

\* The update's plan.
LEMMA ForwardPlan ==
  /\ Len(perform_paired_v7_update) = 52
  /\ \A at \in 1..52 : /\ ForwardEntry(at, Entry(perform_paired_v7_update, at))
                       /\ ForwardText(at, Entry(perform_paired_v7_update, at))
<1> DEFINE P(i) == Entry(perform_paired_v7_update, i)
<1>1. Len(perform_paired_v7_update) = 52
  BY DEF perform_paired_v7_update, Preparation, Transaction, Commitment
<1>2.
      /\ P(1) = "export" /\ P(2) = "SOURCE_EXPORTED" /\ P(3) = "build" /\ P(4) = "reference"
      /\ P(5) = "driver" /\ P(6) = "probeBinaries" /\ P(7) = "BUILD_VERIFIED"
      /\ P(8) = "prepareHold" /\ P(9) = "INSTALL_HOLD_VERIFIED" /\ P(10) = "boundary"
      /\ P(11) = "startBroker" /\ P(12) = "DRIVER_PREPARED" /\ P(13) = "preStop" /\ P(14) = "PING"
      /\ P(15) = "reserve" /\ P(16) = "STOP_INITIATED" /\ P(17) = "pendingPointer"
      /\ P(18) = "activePointer" /\ P(19) = "pointed" /\ P(20) = "bootout" /\ P(21) = "drained"
      /\ P(22) = "takeLock" /\ P(23) = "stopped" /\ P(24) = "CURRENT_STOPPED"
      /\ P(25) = "holdCurrent" /\ P(26) = "currentHeld" /\ P(27) = "CURRENT_HELD"
      /\ P(28) = "PUBLISH" /\ P(29) = "DRIVER_PUBLISHED" /\ P(30) = "PING" /\ P(31) = "probes"
      /\ P(32) = "PING" /\ P(33) = "PROBES_VERIFIED" /\ P(34) = "publishNew"
      /\ P(35) = "removeHoldRoot" /\ P(36) = "installed" /\ P(37) = "NEW_PUBLISHED"
      /\ P(38) = "dropLock" /\ P(39) = "PING" /\ P(40) = "bootstrap"
      /\ P(41) = "PERSISTENT_BOOTSTRAPPED" /\ P(42) = "observe" /\ P(43) = "PING"
      /\ P(44) = "deployment" /\ P(45) = "ready" /\ P(46) = "READY_VERIFIED"
      /\ P(47) = "releaseReserve" /\ P(48) = "PREPARE_COMMIT" /\ P(49) = "committable"
      /\ P(50) = "COMMITTED" /\ P(51) = "COMMIT" /\ P(52) = "resultSuccess"
  BY DEF perform_paired_v7_update, Preparation, Transaction, Commitment, Entry
<1> HIDE DEF P
<1>3. ASSUME NEW at \in 1..52 PROVE ForwardEntry(at, P(at)) /\ ForwardText(at, P(at))
  <2> DEFINE c == P(at)
  <2>1. ForwardEntry(at, c)
    BY <1>2 DEF ForwardEntry
  <2> HIDE DEF c
  <2>2. c \in V7States => at < 51 /\ c \notin DriverRestored \cup {"ROLLBACK_STARTED"}
    BY <2>1, Alphabet DEF ForwardEntry, DriverRestored
  <2>3. ForwardText(at, c)
    BY <2>1, <2>2 DEF ForwardEntry, ForwardText
  <2>4. QED BY <2>1, <2>3 DEF c
<1>4. QED BY <1>1, <1>3 DEF P


\* The rollback.
LEMMA RollbackPlan ==
  /\ Len(rollback_to_current_baseline) = 31
  /\ \A at \in 1..31 : /\ RollbackEntry(at, Entry(rollback_to_current_baseline, at))
                       /\ RollbackText(at, Entry(rollback_to_current_baseline, at))
<1> DEFINE P(i) == Entry(rollback_to_current_baseline, i)
<1>1. Len(rollback_to_current_baseline) = 31
  BY DEF rollback_to_current_baseline
<1>2.
      /\ P(1) = "resumed" /\ P(2) = "startRestore" /\ P(3) = "PING" /\ P(4) = "ROLLBACK_STARTED"
      /\ P(5) = "releaseReserve" /\ P(6) = "guarded" /\ P(7) = "bootoutIfLoaded"
      /\ P(8) = "drained" /\ P(9) = "takeLock" /\ P(10) = "held" /\ P(11) = "RESTORE"
      /\ P(12) = "driverRestored" /\ P(13) = "archiveHold" /\ P(14) = "topology"
      /\ P(15) = "archiveNew" /\ P(16) = "FAILED_NEW_ARCHIVED" /\ P(17) = "restoreCurrent"
      /\ P(18) = "currentApp" /\ P(19) = "CURRENT_RESTORED" /\ P(20) = "resumable"
      /\ P(21) = "dropLock" /\ P(22) = "currentApp" /\ P(23) = "bootstrap"
      /\ P(24) = "CURRENT_BOOTSTRAPPED" /\ P(25) = "observe" /\ P(26) = "baselineDeployment"
      /\ P(27) = "pairing" /\ P(28) = "ROLLED_BACK" /\ P(29) = "runtime"
      /\ P(30) = "resultRolledBack" /\ P(31) = "retirePointer"
  BY DEF rollback_to_current_baseline, Entry
<1> HIDE DEF P
<1>3. ASSUME NEW at \in 1..31 PROVE RollbackEntry(at, P(at)) /\ RollbackText(at, P(at))
  <2> DEFINE c == P(at)
  <2>1. RollbackEntry(at, c)
    BY <1>2 DEF RollbackEntry
  <2> HIDE DEF c
  <2>2. c \in V7States => (c = "ROLLBACK_STARTED" /\ at = 4) \/ (c \in DriverRestored /\ 12 < at)
    BY <2>1, Alphabet DEF RollbackEntry, DriverRestored
  <2>3. RollbackText(at, c)
    BY <2>1, <2>2 DEF RollbackEntry, RollbackText
  <2>4. QED BY <2>1, <2>3 DEF c
<1>4. QED BY <1>1, <1>3 DEF P


\* The unwinding of a failed transaction.
LEMMA UnwindPlan ==
  /\ Len(unwind_transaction) = 8
  /\ \A at \in 1..8 : UnwindText(at, Entry(unwind_transaction, at))
  BY DEF unwind_transaction, Entry, UnwindText

\* The undoing of a failed commit.
LEMMA UndoCommitPlan ==
  /\ Len(rollback_ready_commit_failure) = 5
  /\ \A at \in 1..5 : UndoCommitText(at, Entry(rollback_ready_commit_failure, at))
  BY DEF rollback_ready_commit_failure, Entry, UndoCommitText

\* The retirement of an update that was rolled back.
LEMMA RetirePlan ==
  /\ Len(already_rolled_back) = 4
  /\ \A at \in 1..4 : RetireText(at, Entry(already_rolled_back, at))
  BY DEF already_rolled_back, Entry, RetireText

\* The command of a plan that is under way.
LEMMA Commands ==
  ASSUME Controls, Running, ctl.run \in Planned
  PROVE  /\ ctl.at \in 1..PlanLength[ctl.run] /\ Len(Plan) = PlanLength[ctl.run]
         /\ ctl.run = "forward" => ForwardText(ctl.at, Cmd)
         /\ ctl.run = "rollback" => RollbackText(ctl.at, Cmd)
         /\ ctl.run = "unwind" => UnwindText(ctl.at, Cmd)
         /\ ctl.run = "undoCommit" => UndoCommitText(ctl.at, Cmd)
         /\ ctl.run = "retire" => RetireText(ctl.at, Cmd)
<1>1. ctl.at \in 1..PlanLength[ctl.run]
  BY DEF Controls
<1>2. Cmd = Entry(Plan, ctl.at)
  BY DEF Cmd, Entry, Planned
<1>3. CASE ctl.run = "forward"
  BY <1>1, <1>2, <1>3, ForwardPlan DEF Plan, PlanLength
<1>4. CASE ctl.run = "rollback"
  BY <1>1, <1>2, <1>4, RollbackPlan DEF Plan, PlanLength
<1>5. CASE ctl.run = "unwind"
  BY <1>1, <1>2, <1>5, UnwindPlan DEF Plan, PlanLength
<1>6. CASE ctl.run = "undoCommit"
  BY <1>1, <1>2, <1>6, UndoCommitPlan DEF Plan, PlanLength
<1>7. CASE ctl.run = "retire"
  BY <1>1, <1>2, <1>7, RetirePlan DEF Plan, PlanLength
<1>8. QED BY <1>3, <1>4, <1>5, <1>6, <1>7 DEF Planned

\* Only a running plan has commands.
LEMMA Commanding ==
  ASSUME Types, Controls, Cmd # "none" PROVE Running /\ ctl.run \in Planned
  BY DEF Types, Controls, Control, Cmd

-----------------------------------------------------------------------------
(* What root may do to the driver.                                         *)

\* Everything the invariants need to know of an outcome o of the operation c.
Turned(c, o) ==
  /\ o.drv \in Drivers /\ o.audio \in {"none", "product"}
  /\ o.audio = "product" => o.drv \in {"canonical", "failed"}
  /\ Gone => o.drv \in {"failed", "abandoned"} /\ o.audio = "none"
  /\ drv \in Fresh /\ c # "PUBLISH" =>
       o.drv \in Fresh \/ (o.drv \in {"failed", "abandoned"} /\ o.audio = "none")
  /\ o.ok /\ c \in Undoing => o.drv \in {"failed", "abandoned"} /\ o.audio = "none"
  /\ o.drv # drv /\ "canonical" \in {drv, o.drv} => proc = Nothing
  /\ o.ok /\ c = "PUBLISH" => o.drv = "canonical"
  /\ c \in {"PING", "VERIFY", "ABORT", "PREPARE_COMMIT", "COMMIT"} => o.drv = drv
  /\ o.ok /\ c = "PREPARE_COMMIT" => o.drv = "canonical"
  /\ drv = "canonical" /\ c \in {"PREPARE", "ABANDON"} => o.drv = drv

\* The operations, one by one.
LEMMA Operations ==
  ASSUME DriverType, audio = "product" => drv \in {"canonical", "failed"},
         NEW c, NEW o \in Operation(c)
  PROVE  Turned(c, o)
<1>1. CASE c = "PREPARE"
  <2>1. o \in root_driver_prepare
    BY <1>1 DEF Operation
  <2>2. o = Refused \/ (drv = "staged" /\ o \in {Broke(drv, audio), Did("hold", audio), Broke("partial", audio)})
    BY <2>1 DEF root_driver_prepare, verify_root_production_driver
  <2>3. QED BY <1>1, <2>2 DEF Turned, Refused, Broke, Did, DriverType, Drivers, Gone, Fresh, Undoing
<1>2. CASE c \in {"VERIFY", "ABORT"}
  <2>1. o \in {Refused, Did(drv, audio), Broke(drv, audio)}
    BY <1>2 DEF Operation, root_driver_verify_existing_restore_ready
  <2>2. QED BY <1>2, <2>1 DEF Turned, Refused, Broke, Did, DriverType, Drivers, Gone, Fresh, Undoing
<1>3. CASE c = "PUBLISH"
  <2>1. o \in root_driver_publish_reload
    BY <1>3 DEF Operation
  <2>2. \/ o = Refused
        \/ /\ drv = "hold" /\ proc = Nothing
           /\ o \in {Did("canonical", "product"), Broke(drv, audio), Broke("canonical", audio),
                     Broke("failed", "none"), Broke("failed", "product")}
    BY <2>1 DEF root_driver_publish_reload, reload_core_audio_root,
       require_no_host_process_for_root_driver_mutation
  <2>3. QED BY <1>3, <2>2 DEF Turned, Refused, Broke, Did, DriverType, Drivers, Gone, Fresh, Undoing
<1>4. CASE c \in {"PREPARE_COMMIT", "COMMIT"}
  <2>1. o = Refused \/ (drv = "canonical" /\ o \in {Did(drv, audio), Broke(drv, audio)})
    BY <1>4 DEF Operation, root_driver_verify_commit_ready
  <2>2. QED BY <1>4, <2>1 DEF Turned, Refused, Broke, Did, DriverType, Drivers, Gone, Fresh, Undoing
<1>5. ASSUME o \in root_driver_abandon_prepare, c \in {"ABANDON", "RESTORE"} PROVE Turned(c, o)
  <2>1. o = Refused \/ (drv = "hold" /\ o \in {Did("abandoned", audio), Broke(drv, audio),
                                               Broke("abandoned", audio)})
    BY <1>5 DEF root_driver_abandon_prepare
  <2>2. QED BY <1>5, <2>1 DEF Turned, Refused, Broke, Did, DriverType, Drivers, Gone, Fresh, Undoing
<1>6. ASSUME o \in root_driver_rollback_reload, c \in {"ROLLBACK", "RESTORE"} PROVE Turned(c, o)
  <2>1. \/ o = Refused
        \/ /\ drv \in {"canonical", "failed"} /\ proc = Nothing
           /\ o \in {Did("failed", "none"), Broke(drv, audio), Broke("failed", audio)}
    BY <1>6 DEF root_driver_rollback_reload, reload_core_audio_root,
       require_no_host_process_for_root_driver_mutation
  <2>2. QED BY <1>6, <2>1 DEF Turned, Refused, Broke, Did, DriverType, Drivers, Gone, Fresh, Undoing
<1>7. CASE c = "RESTORE"
  <2>1. o \in root_driver_restore_or_abandon_existing
    BY <1>7 DEF Operation
  <2>2. \/ o \in root_driver_abandon_prepare \/ o \in root_driver_rollback_reload
        \/ drv = "abandoned" /\ o \in {Did(drv, audio), Refused}
    BY <2>1 DEF root_driver_restore_or_abandon_existing
  <2>3. CASE drv = "abandoned" /\ o \in {Did(drv, audio), Refused}
    BY <1>7, <2>3 DEF Turned, Refused, Broke, Did, DriverType, Drivers, Gone, Fresh, Undoing
  <2>4. QED BY <1>5, <1>6, <1>7, <2>2, <2>3
<1>8. CASE c \notin {"PREPARE", "VERIFY", "ABORT", "PUBLISH", "ABANDON", "ROLLBACK",
                     "PREPARE_COMMIT", "COMMIT", "RESTORE"}
  <2>1. o = Did(drv, audio)
    BY <1>8 DEF Operation
  <2>2. QED BY <1>8, <2>1 DEF Turned, Did, DriverType, Drivers, Gone, Fresh, Undoing
<1>9. CASE c = "ABANDON"
  BY <1>5, <1>9 DEF Operation
<1>10. CASE c = "ROLLBACK"
  BY <1>6, <1>10 DEF Operation
<1>11. QED BY <1>1, <1>2, <1>3, <1>4, <1>7, <1>8, <1>9, <1>10

\* The broker's cleanup is the restore broker's operation.
LEMMA CleanupIs == root_broker_cleanup_after_failure = Operation("RESTORE")
  BY DEF root_broker_cleanup_after_failure, Operation

\* What an operation spends.
LEMMA Taking ==
  ASSUME HostType, NEW o, Takes(o)
  PROVE  drv' = o.drv /\ audio' = o.audio /\ faults' \in 0..MaxFaults
  BY PairedAssumption DEF HostType, Takes, Spend

\* Why a step counts one more fault, or none.
LEMMA Counting ==
  ASSUME HostType, Spend \/ UNCHANGED faults
  PROVE  faults' \in 0..MaxFaults
  BY PairedAssumption DEF HostType, Spend

-----------------------------------------------------------------------------
(* Commands on their way.                                                  *)

\* Reading and writing a pipe.
LEMMA Pipe ==
  ASSUME NEW q \in Seq(Lines)
  PROVE  /\ \A c \in Lines : Append(q, c) \in Seq(Lines) /\ Queued(Append(q, c)) = Queued(q) \cup {c}
         /\ q # <<>> => /\ Head(q) \in Lines /\ Head(q) \in Queued(q)
                        /\ Tail(q) \in Seq(Lines) /\ Queued(Tail(q)) \subseteq Queued(q)
         /\ Queued(<<>>) = {} /\ <<>> \in Seq(Lines)
         /\ Queued(q) \subseteq Lines
<1>1. ASSUME NEW c \in Lines
      PROVE  Append(q, c) \in Seq(Lines) /\ Queued(Append(q, c)) = Queued(q) \cup {c}
  <2>1. Append(q, c) \in Seq(Lines)
    OBVIOUS
  <2>2. ASSUME NEW x \in Queued(Append(q, c)) PROVE x \in Queued(q) \cup {c}
    BY DEF Queued
  <2>3. ASSUME NEW x \in Queued(q) PROVE x \in Queued(Append(q, c))
    <3>1. PICK i \in DOMAIN q : x = q[i]
      BY DEF Queued
    <3>2. i \in DOMAIN Append(q, c) /\ Append(q, c)[i] = x
      BY <3>1
    <3>3. QED BY <3>2 DEF Queued
  <2>4. c \in Queued(Append(q, c))
    <3>1. Len(q) + 1 \in DOMAIN Append(q, c) /\ Append(q, c)[Len(q) + 1] = c
      OBVIOUS
    <3>2. QED BY <3>1 DEF Queued
  <2>5. QED BY <2>1, <2>2, <2>3, <2>4
<1>2. ASSUME q # <<>>
      PROVE  /\ Head(q) \in Lines /\ Head(q) \in Queued(q)
             /\ Tail(q) \in Seq(Lines) /\ Queued(Tail(q)) \subseteq Queued(q)
  <2>1. 1 \in DOMAIN q /\ Head(q) = q[1]
    BY <1>2
  <2>2. Head(q) \in Queued(q) /\ Head(q) \in Lines
    BY <2>1 DEF Queued
  <2>3. Tail(q) \in Seq(Lines)
    BY <1>2
  <2>4. ASSUME NEW x \in Queued(Tail(q)) PROVE x \in Queued(q)
    <3>1. PICK i \in DOMAIN Tail(q) : x = Tail(q)[i]
      BY DEF Queued
    <3>2. i + 1 \in DOMAIN q /\ q[i + 1] = x
      BY <1>2, <3>1
    <3>3. QED BY <3>2 DEF Queued
  <2>5. QED BY <2>2, <2>3, <2>4
<1>3. Queued(<<>>) = {} /\ <<>> \in Seq(Lines)
  BY DEF Queued
<1>4. Queued(q) \subseteq Lines
  BY DEF Queued
<1>5. QED BY <1>1, <1>2, <1>3, <1>4

-----------------------------------------------------------------------------
(* How a command ends.                                                     *)

\* The controller, at c, is gone; its clients and its proxy are as it left them.
Left ==
  /\ ctl' = Idled
  /\ cli' \in [Sides -> Clients] /\ px' \in [Sides -> ProxyStates]
  /\ \A p \in Sides :
       /\ cli'[p] = cli[p] \/ (cli[p].at # "none" /\ cli'[p] = [cli[p] EXCEPT !.at = "gone"])
       /\ px'[p] = px[p] \/ (p = ctl.who /\ px'[p] \in {Exit(px[p], "ok"), Exit(px[p], "err")})

\* The evidence e with its result written, its reserve released, its hold
\* archived.
Concluded(e) ==
  /\ ev' \in [All -> Evidence]
  /\ ev'[7].kept = e[7].kept /\ ev'[7].root = e[7].root
  /\ ev'[7].state = e[7].state /\ ev'[7].tail = e[7].tail

\* The evidence e with the failure of a rollback recorded.
Critical(c, e) ==
  /\ ctl.run = "rollback" /\ c.healthy /\ validate_v7_transition(c.state, "CRITICAL_FAILURE")
  /\ ev' \in [All -> Evidence]
  /\ ev'[7].kept = e[7].kept /\ ev'[7].root = e[7].root
  /\ ev'[7].state = "CRITICAL_FAILURE"
  /\ ev'[7].tail = V7Journal_record(e[7], "CRITICAL_FAILURE").tail

\* What becomes of the controller c with the evidence e when a command fails,
\* or when a plan ends.
Steered(c, e) ==
  \/ Left /\ (Concluded(e) \/ Critical(c, e))
  \/ /\ ctl.run = "forward" /\ ctl.at \in 14..47
     /\ ctl' = [c EXCEPT !.run = "unwind", !.at = 1, !.sent = FALSE, !.locked = FALSE]
     /\ ev' = e /\ UNCHANGED <<cli, px>>
  \/ /\ ctl.run = "forward" /\ Cmd \in {"PREPARE_COMMIT", "committable", "COMMITTED"}
     /\ ctl' = [c EXCEPT !.run = "undoCommit", !.at = 1, !.sent = FALSE]
     /\ ev' = e /\ UNCHANGED <<cli, px>>
  \/ /\ ctl.run = "forward" /\ Cmd = "COMMIT"
     /\ ctl' = [c EXCEPT !.stopped = FALSE] /\ ev' = e
     /\ cli' = [cli EXCEPT !["broker"].at = "closed"] /\ UNCHANGED px
  \/ /\ ctl.run \in {"forward", "unwind", "undoCommit"}
     /\ c.state # "COMMITTED" /\ crossed_stop(c.state, e)
     /\ Concluded(e)
     /\ \E x \in {"present", "absent"} :
          ctl' = [c EXCEPT !.run = "rollback", !.why = "failure", !.at = 1, !.sent = FALSE,
                           !.locked = FALSE, !.exp = x]
     /\ cli' = Dropped(cli, "broker") /\ UNCHANGED px

\* The next command of the plan.
Onward(c, e) ==
  /\ c.at < PlanLength[ctl.run]
  /\ ctl' = [c EXCEPT !.at = c.at + 1, !.sent = FALSE] /\ ev' = e /\ UNCHANGED <<cli, px>>

\* An exchange of the evidence.
LEMMA Wrote ==
  ASSUME NEW e \in [All -> Evidence], NEW r \in Evidence
  PROVE  [e EXCEPT ![7] = r] \in [All -> Evidence] /\ [e EXCEPT ![7] = r][7] = r
  BY DEF All

\* A record appended to the journal.
LEMMA Appends ==
  ASSUME NEW r \in Evidence, NEW s \in V7States
  PROVE  /\ V7Journal_record(r, s) \in Evidence
         /\ V7Journal_record(r, s).kept = r.kept /\ V7Journal_record(r, s).root = r.root
         /\ V7Journal_record(r, s).ptr = r.ptr /\ V7Journal_record(r, s).state = s
         /\ V7Journal_record(r, s).tail =
              IF r.tail = "clean" /\ validate_v7_transition(r.state, s) THEN r.tail ELSE "corrupt"
<1> DEFINE t == IF r.tail = "clean" /\ validate_v7_transition(r.state, s) THEN r.tail ELSE "corrupt"
<1>1. V7Journal_record(r, s) = [r EXCEPT !.state = s, !.tail = t]
  BY DEF V7Journal_record
<1>2. t \in V7States \cup {"clean", "corrupt"}
  BY DEF Evidence
<1> HIDE DEF t
<1>3. /\ [r EXCEPT !.state = s, !.tail = t] \in Evidence
      /\ [r EXCEPT !.state = s, !.tail = t].kept = r.kept
      /\ [r EXCEPT !.state = s, !.tail = t].root = r.root
      /\ [r EXCEPT !.state = s, !.tail = t].ptr = r.ptr
      /\ [r EXCEPT !.state = s, !.tail = t].state = s
      /\ [r EXCEPT !.state = s, !.tail = t].tail = t
  BY <1>2 DEF Evidence
<1>4. QED BY <1>1, <1>3 DEF t

\* Writing the result changes nothing else.
LEMMA WriteResult ==
  ASSUME NEW e \in [All -> Evidence], NEW x \in {"success", "warning", "failed", "rolledBack", "critical"}
  PROVE  /\ write_result(e, 7, x) \in [All -> Evidence]
         /\ write_result(e, 7, x)[7] = [e[7] EXCEPT !.result = x]
<1>1. e[7] \in Evidence
  BY DEF All
<1>2. [e[7] EXCEPT !.result = x] \in Evidence
  BY <1>1 DEF Evidence
<1>3. write_result(e, 7, x) = [e EXCEPT ![7] = [e[7] EXCEPT !.result = x]]
  BY DEF write_result
<1>4. QED BY <1>2, <1>3, Wrote

\* A process leaves.
LEMMA Leaving ==
  ASSUME ProcessType, NEW code \in {"ok", "err"}, Leaves(code)
  PROVE  Left
<1>1. CASE ctl.who = "main"
  <2>1. /\ ctl' = Idled /\ px' = px
        /\ cli' = [p \in Sides |-> IF cli[p].at = "none" THEN cli[p]
                                   ELSE [cli[p] EXCEPT !.at = "gone"]]
    BY <1>1 DEF Leaves
  <2>2. cli' \in [Sides -> Clients]
    BY <2>1 DEF ProcessType, Clients
  <2>3. QED BY <2>1, <2>2 DEF Left, ProcessType
<1>2. CASE ctl.who # "main"
  <2>1. ctl' = Idled /\ cli' = cli /\ px' = [px EXCEPT ![ctl.who] = Exit(@, code)]
    BY <1>2 DEF Leaves
  <2>2. ASSUME NEW p \in Sides
        PROVE  px'[p] = px[p] \/ (p = ctl.who /\ px'[p] = Exit(px[p], code))
    BY <2>1 DEF ProcessType
  <2>3. px' \in [Sides -> ProxyStates]
    <3>1. ASSUME NEW x \in ProxyStates PROVE Exit(x, code) \in ProxyStates
      BY DEF ProxyStates, Exit, ProxyPlaces
    <3>2. \A p \in Sides : px'[p] \in ProxyStates
      BY <2>2, <3>1 DEF ProcessType
    <3>3. px' = [p \in Sides |-> px'[p]]
      BY <2>1 DEF ProcessType
    <3>4. QED BY <3>2, <3>3
  <2>4. QED BY <2>1, <2>2, <2>3 DEF Left, ProcessType
<1>3. QED BY <1>1, <1>2

\* The evidence of the error path.
LEMMA OuterWrites ==
  ASSUME NEW e \in [All -> Evidence]
  PROVE  /\ \A x \in {"success", "warning", "failed", "rolledBack", "critical"} :
              ev' = write_result(e, 7, x) => Concluded(e)
         /\ ev' = e => Concluded(e)
         /\ ev' = retire_exact_retry_v7_pending_pointer_after_parent_crash(e) => Concluded(e)
         /\ ev' = write_result([release_rollback_reserve(e, 7)
                                  EXCEPT ![7] = IF install_hold_archivable
                                                THEN archive_v7_install_hold_root(@) ELSE @],
                               7, "failed") => Concluded(e)
<1>1. e[7] \in Evidence
  BY DEF All
<1>2. ASSUME NEW f \in [All -> Evidence],
             f[7].kept = e[7].kept, f[7].root = e[7].root, f[7].state = e[7].state, f[7].tail = e[7].tail,
             NEW x \in {"success", "warning", "failed", "rolledBack", "critical"},
             ev' = write_result(f, 7, x)
      PROVE  Concluded(e)
  <2>1. ev' \in [All -> Evidence] /\ ev'[7] = [f[7] EXCEPT !.result = x]
    BY <1>2, WriteResult
  <2>2. f[7] \in Evidence
    BY DEF All
  <2>3. ev'[7].kept = f[7].kept /\ ev'[7].root = f[7].root /\ ev'[7].state = f[7].state
        /\ ev'[7].tail = f[7].tail
    BY <2>1, <2>2 DEF Evidence
  <2>4. QED BY <1>2, <2>1, <2>3 DEF Concluded
<1>3. ev' = e => Concluded(e)
  BY DEF Concluded
<1>4. ASSUME ev' = retire_exact_retry_v7_pending_pointer_after_parent_crash(e)
      PROVE  Concluded(e)
  <2> DEFINE r == [e[7] EXCEPT !.ptr = IF @ = "pending" THEN "retired" ELSE @]
  <2>1. r \in Evidence /\ r.kept = e[7].kept /\ r.root = e[7].root /\ r.state = e[7].state
        /\ r.tail = e[7].tail
    BY <1>1 DEF Evidence
  <2>2. ev' = [e EXCEPT ![7] = r]
    BY <1>4 DEF retire_exact_retry_v7_pending_pointer_after_parent_crash
  <2> HIDE DEF r
  <2>3. ev' \in [All -> Evidence] /\ ev'[7] = r
    BY <2>1, <2>2, Wrote
  <2>4. QED BY <2>1, <2>3 DEF Concluded
<1>5. ASSUME ev' = write_result([release_rollback_reserve(e, 7)
                                   EXCEPT ![7] = IF install_hold_archivable
                                                 THEN archive_v7_install_hold_root(@) ELSE @],
                                7, "failed")
      PROVE  Concluded(e)
  <2> DEFINE r == [e[7] EXCEPT !.reserve = IF @ = "none" THEN "none" ELSE "released"]
             s == IF install_hold_archivable THEN archive_v7_install_hold_root(r) ELSE r
             g == [e EXCEPT ![7] = r]
             f == [g EXCEPT ![7] = IF install_hold_archivable
                                   THEN archive_v7_install_hold_root(@) ELSE @]
  <2>1. r \in Evidence /\ r.kept = e[7].kept /\ r.root = e[7].root /\ r.state = e[7].state
        /\ r.tail = e[7].tail
    BY <1>1 DEF Evidence
  <2>2. g = release_rollback_reserve(e, 7)
    BY DEF release_rollback_reserve
  <2>3. ev' = write_result(f, 7, "failed")
    BY <1>5, <2>2
  <2> HIDE DEF r
  <2>4. /\ s \in Evidence /\ s.kept = r.kept /\ s.root = r.root /\ s.state = r.state /\ s.tail = r.tail
    <3>1. s = r \/ s = [r EXCEPT !.hold = "absent", !.quarantine = TRUE]
      BY DEF archive_v7_install_hold_root
    <3> HIDE DEF s
    <3>2. CASE s = r
      BY <2>1, <3>2
    <3>3. CASE s = [r EXCEPT !.hold = "absent", !.quarantine = TRUE]
      BY <2>1, <3>3 DEF Evidence
    <3>4. QED BY <3>1, <3>2, <3>3
  <2>5. g \in [All -> Evidence] /\ g[7] = r
    BY <2>1, Wrote
  <2>6. f = [g EXCEPT ![7] = s]
    BY <2>5
  <2> HIDE DEF s, g, f
  <2>7. f \in [All -> Evidence] /\ f[7] = s
    BY <2>4, <2>5, <2>6, Wrote
  <2>8. QED BY <1>2, <2>1, <2>3, <2>4, <2>7
<1>6. \A x \in {"success", "warning", "failed", "rolledBack", "critical"} :
        ev' = write_result(e, 7, x) => Concluded(e)
  BY <1>2
<1>7. QED BY <1>3, <1>4, <1>5, <1>6

\* The failure of a rollback is recorded.
LEMMA CriticalWrites ==
  ASSUME NEW e \in [All -> Evidence], NEW c, ctl.run = "rollback", c.healthy,
         validate_v7_transition(c.state, "CRITICAL_FAILURE"),
         ev' = write_result([e EXCEPT ![7] = V7Journal_record(@, "CRITICAL_FAILURE")], 7, "critical")
  PROVE  Critical(c, e)
<1> DEFINE r == V7Journal_record(e[7], "CRITICAL_FAILURE")
           f == [e EXCEPT ![7] = r]
<1>1. e[7] \in Evidence
  BY DEF All
<1>2. r \in Evidence /\ r.kept = e[7].kept /\ r.root = e[7].root /\ r.state = "CRITICAL_FAILURE"
  BY <1>1, Alphabet, Appends
<1>3. ev' = write_result(f, 7, "critical")
  BY <1>1
<1> HIDE DEF r
<1>4. f \in [All -> Evidence] /\ f[7] = r
  BY <1>2, Wrote
<1> HIDE DEF f
<1>5. ev' \in [All -> Evidence] /\ ev'[7] = [f[7] EXCEPT !.result = "critical"]
  BY <1>3, <1>4, WriteResult
<1>6. ev'[7].kept = r.kept /\ ev'[7].root = r.root /\ ev'[7].state = r.state /\ ev'[7].tail = r.tail
  BY <1>2, <1>4, <1>5 DEF Evidence
<1>7. QED BY <1>2, <1>5, <1>6 DEF Critical, r

\* The error path of an update.
LEMMA OuterSteers ==
  ASSUME ProcessType, ctl.run \in {"forward", "unwind", "undoCommit"}, NEW c,
         NEW e \in [All -> Evidence], Outer(c, e)
  PROVE  Steered(c, e)
<1>1. CASE c.state = "COMMITTED"
  <2>1. ev' = write_result(e, 7, "warning") /\ Leaves("err")
    BY <1>1 DEF Outer
  <2>2. Concluded(e) /\ Left
    BY <2>1, OuterWrites, Leaving
  <2>3. QED BY <2>2 DEF Steered
<1>2. CASE c.state # "COMMITTED" /\ crossed_stop(c.state, e)
  <2>1. /\ ev' = e \/ ev' = retire_exact_retry_v7_pending_pointer_after_parent_crash(e)
        /\ ctl' = [c EXCEPT !.run = "rollback", !.why = "failure", !.at = 1, !.sent = FALSE,
                            !.locked = FALSE,
                            !.exp = IF e[7].ptr = "active" THEN "present" ELSE "absent"]
        /\ cli' = Dropped(cli, "broker") /\ UNCHANGED px
    BY <1>2 DEF Outer
  <2>2. Concluded(e)
    BY <2>1, OuterWrites
  <2>3. \E x \in {"present", "absent"} :
          ctl' = [c EXCEPT !.run = "rollback", !.why = "failure", !.at = 1, !.sent = FALSE,
                           !.locked = FALSE, !.exp = x]
    BY <2>1
  <2>4. QED BY <1>2, <2>1, <2>2, <2>3 DEF Steered
<1>3. CASE ~(c.state = "COMMITTED" \/ crossed_stop(c.state, e))
  <2>1. /\ ev' = write_result([release_rollback_reserve(e, 7)
                                 EXCEPT ![7] = IF install_hold_archivable
                                               THEN archive_v7_install_hold_root(@) ELSE @],
                              7, "failed")
        /\ Leaves("err")
    BY <1>3 DEF Outer
  <2>2. Concluded(e) /\ Left
    BY <2>1, OuterWrites, Leaving
  <2>3. QED BY <2>2 DEF Steered
<1>4. QED BY <1>1, <1>2, <1>3

\* A command that fails.
LEMMA FailSteers ==
  ASSUME ProcessType, ctl.run \in Planned, ctl.run = "retire" => ctl.why = "explicit",
         NEW c, NEW e \in [All -> Evidence], Fails(c, e)
  PROVE  Steered(c, e)
<1>1. CASE ctl.run = "forward" /\ InTransaction(ctl.at)
  <2>1. ctl.at \in 14..47
    BY <1>1 DEF InTransaction, Preparation, Transaction
  <2>2. QED BY <1>1, <2>1 DEF Fails, Steered
<1>2. CASE ctl.run = "forward" /\ ~InTransaction(ctl.at)
           /\ Cmd \in {"PREPARE_COMMIT", "committable", "COMMITTED"}
  BY <1>2 DEF Fails, Steered
<1>3. CASE ctl.run = "forward" /\ ~InTransaction(ctl.at) /\ Cmd = "COMMIT" /\ c.stopped
  BY <1>3 DEF Fails, Steered
<1>4. CASE ctl.run = "rollback" /\ ctl.why = "failure" /\ Cmd \notin {"resultRolledBack", "retirePointer"}
  <2> DEFINE critical == c.healthy /\ validate_v7_transition(c.state, "CRITICAL_FAILURE")
  <2>1. /\ ev' = write_result(IF critical
                              THEN [e EXCEPT ![7] = V7Journal_record(@, "CRITICAL_FAILURE")]
                              ELSE e, 7, "critical")
        /\ Leaves("err")
    BY <1>4 DEF Fails
  <2>2. Left
    BY <2>1, Leaving
  <2>3. CASE critical
    BY <1>4, <2>1, <2>2, <2>3, CriticalWrites DEF Steered
  <2>4. CASE ~critical
    BY <2>1, <2>2, <2>4, OuterWrites DEF Steered
  <2>5. QED BY <2>3, <2>4
<1>5. CASE /\ ctl.run \in {"rollback", "retire"}
           /\ ~(ctl.run = "rollback" /\ ctl.why = "failure" /\ Cmd \notin {"resultRolledBack", "retirePointer"})
  <2>1. ~(ctl.why = "failure" /\ Cmd \notin {"resultRolledBack", "retirePointer"})
    BY <1>5
  <2>2. ev' = e /\ Leaves("err")
    BY <1>5, <2>1 DEF Fails
  <2>3. QED BY <2>2, OuterWrites, Leaving DEF Steered
<1>6. CASE /\ ctl.run \in {"forward", "unwind", "undoCommit"}
           /\ ~(ctl.run = "forward" /\ InTransaction(ctl.at))
           /\ ~(ctl.run = "forward" /\ Cmd \in {"PREPARE_COMMIT", "committable", "COMMITTED"})
           /\ ~(ctl.run = "forward" /\ Cmd = "COMMIT" /\ c.stopped)
  <2>1. Outer(c, e)
    BY <1>6 DEF Fails
  <2>2. QED BY <1>6, <2>1, OuterSteers
<1>7. QED BY <1>1, <1>2, <1>3, <1>4, <1>5, <1>6 DEF Planned

\* A command that is done.
LEMMA GoSteers ==
  ASSUME ProcessType, Controls, Running, ctl.run \in Planned,
         NEW c, c.at = ctl.at, NEW e \in [All -> Evidence], Goes(c, e)
  PROVE  Onward(c, e) \/ Steered(c, e)
<1>1. Len(Plan) = PlanLength[ctl.run]
  BY Commands
<1>2. CASE c.at < Len(Plan)
  BY <1>1, <1>2 DEF Goes, Onward
<1>3. CASE ~(c.at < Len(Plan)) /\ ctl.run \in {"unwind", "undoCommit"}
  <2>1. Outer(c, e)
    BY <1>3 DEF Goes
  <2>2. QED BY <1>3, <2>1, OuterSteers
<1>4. CASE ~(c.at < Len(Plan)) /\ ctl.run \notin {"unwind", "undoCommit"}
  <2>1. ev' = e /\ Leaves("ok")
    BY <1>4 DEF Goes
  <2>2. QED BY <2>1, OuterWrites, Leaving DEF Steered
<1>5. QED BY <1>2, <1>3, <1>4

\* A side of which only the client's pipe and a proxy's end changed.
Quieter(p) ==
  /\ cli'[p].q = cli[p].q /\ cli'[p].r = cli[p].r
  /\ px'[p] = px[p] \/ (px'[p].at = "off" /\ px'[p].want = px[p].want)

\* A controller that leaves says nothing.
LEMMA LeftQuietly ==
  ASSUME ProcessType, Left
  PROVE  /\ cli' \in [Sides -> Clients] /\ px' \in [Sides -> ProxyStates]
         /\ \A p \in Sides : Quieter(p)
<1>1. cli' \in [Sides -> Clients] /\ px' \in [Sides -> ProxyStates]
  BY DEF Left
<1>2. ASSUME NEW p \in Sides PROVE Quieter(p)
  <2>1. cli'[p] = cli[p] \/ cli'[p] = [cli[p] EXCEPT !.at = "gone"]
    BY DEF Left
  <2>2. cli'[p].q = cli[p].q /\ cli'[p].r = cli[p].r
    BY <2>1 DEF ProcessType, Clients
  <2>3. px'[p] = px[p] \/ px'[p] = Exit(px[p], "ok") \/ px'[p] = Exit(px[p], "err")
    BY DEF Left
  <2>4. px'[p] = px[p] \/ (px'[p].at = "off" /\ px'[p].want = px[p].want)
    BY <2>3 DEF ProcessType, ProxyStates, Exit
  <2>5. QED BY <2>2, <2>4 DEF Quieter
<1>3. QED BY <1>1, <1>2

\* A controller that leaves, or hangs up, says nothing.
LEMMA SteeredQuietly ==
  ASSUME ProcessType, NEW c, NEW e, Steered(c, e) \/ Onward(c, e)
  PROVE  /\ cli' \in [Sides -> Clients] /\ px' \in [Sides -> ProxyStates]
         /\ \A p \in Sides : Quieter(p)
<1>1. CASE Left
  BY <1>1, LeftQuietly
<1>2. CASE UNCHANGED <<cli, px>>
  BY <1>2 DEF ProcessType, Quieter
<1>3. CASE cli' = [cli EXCEPT !["broker"].at = "closed"] /\ UNCHANGED px
  <2>1. cli' \in [Sides -> Clients]
    BY <1>3 DEF ProcessType, Clients, Sides
  <2>2. ASSUME NEW p \in Sides PROVE cli'[p].q = cli[p].q /\ cli'[p].r = cli[p].r
    BY <1>3 DEF ProcessType, Clients, Sides
  <2>3. QED BY <1>3, <2>1, <2>2 DEF Quieter, ProcessType
<1>4. CASE cli' = Dropped(cli, "broker") /\ UNCHANGED px
  <2> DEFINE a == IF cli["broker"].at \in {"open", "closed"} THEN "dropped" ELSE cli["broker"].at
  <2>1. cli' = [cli EXCEPT !["broker"].at = a]
    BY <1>4 DEF Dropped
  <2>2. a \in {"none", "open", "closed", "dropped", "deaf", "gone"}
    BY DEF ProcessType, Clients, Sides
  <2> HIDE DEF a
  <2>3. cli' \in [Sides -> Clients]
    BY <2>1, <2>2 DEF ProcessType, Clients, Sides
  <2>4. ASSUME NEW p \in Sides PROVE cli'[p].q = cli[p].q /\ cli'[p].r = cli[p].r
    BY <2>1 DEF ProcessType, Clients, Sides
  <2>5. QED BY <1>4, <2>3, <2>4 DEF Quieter, ProcessType
<1>5. QED BY <1>1, <1>2, <1>3, <1>4 DEF Steered, Onward

\* What sides say that say nothing new.
LEMMA QuietSides ==
  ASSUME ProcessType, Sides7, UNCHANGED <<drv, audio, rt>>, \A p \in Sides : Quieter(p)
  PROVE  /\ Sides7'
         /\ Publishing(cli["broker"], rt["broker"])' <=> Publishing(cli["broker"], rt["broker"])
<1>1. Gone' <=> Gone
  BY DEF Gone
<1>2. ASSUME NEW p \in Sides PROVE Sound(p, cli'[p], px'[p], rt'[p], Gone')
  <2>1. Sound(p, cli[p], px[p], rt[p], Gone) /\ rt'[p] = rt[p]
    BY DEF Sides7
  <2>2. Quieter(p)
    OBVIOUS
  <2>3. Spoken(p, cli'[p], px'[p], rt'[p])
    BY <2>1, <2>2 DEF Quieter, Sound, Spoken
  <2>4. Announces(cli'[p], px'[p], rt'[p]) => Announces(cli[p], px[p], rt[p])
    BY <2>1, <2>2 DEF Quieter, Announces, Behind
  <2>5. QED BY <1>1, <2>1, <2>3, <2>4 DEF Sound
<1>3. Sides7'
  BY <1>2 DEF Sides7
<1>4. QED BY <1>3 DEF Publishing, Quieter, Sides

\* The controller c is the running one but for what it knows and holds.
SamePlace(c) ==
  /\ c \in Control
  /\ c.who = ctl.who /\ c.run = ctl.run /\ c.why = ctl.why /\ c.at = ctl.at

\* The evidence e and the installed app after a command.
Consistent(e) ==
  /\ e \in [All -> Evidence] /\ e[7].root /\ e[7].kept \in {-1, 6}
  /\ (app' = 6) # (e[7].kept = 6)
  /\ e[7].state \in DriverRestored => Gone

\* The machine around a command that moves at most the app.
Around == HostType' /\ UNCHANGED <<proc, drv, audio, rt>> /\ (app' = 6 => app = 6 \/ Gone)
          /\ (proc # Nothing => proc = app')

\* Wherever a command leads, if what it leaves is consistent.
LEMMA SteerKeeps ==
  ASSUME IInv, Running, ctl.run \in Planned, NEW c, SamePlace(c), NEW e, Consistent(e), Around,
         c.locked => proc = Nothing, c.state \in DriverRestored => Gone,
         \/ Onward(c, e) /\ Posed(c.run, c.at + 1, c.locked, app', Gone)
         \/ Steered(c, e) /\ (Cmd = "COMMIT" => Posed(c.run, c.at, c.locked, app', Gone))
  PROVE  IInv'
<1>1. /\ cli' \in [Sides -> Clients] /\ px' \in [Sides -> ProxyStates]
      /\ \A p \in Sides : Quieter(p)
  BY SteeredQuietly DEF IInv, Types
<1>2. Sides7' /\ (Publishing(cli["broker"], rt["broker"])' <=> Publishing(cli["broker"], rt["broker"]))
  BY <1>1, QuietSides DEF IInv, Types, Around
<1>3. Gone' <=> Gone
  BY DEF Around, Gone
<1>4. Published'
  <2>1. drv' = drv /\ audio' = audio /\ (app' = 6 => app = 6 \/ Gone)
    BY DEF Around
  <2>2. QED BY <1>2, <1>3, <2>1 DEF IInv, Published
<1>5. /\ ev' \in [All -> Evidence] /\ ev'[7].kept = e[7].kept /\ ev'[7].root = e[7].root
      /\ ev'[7].state = e[7].state \/ ev'[7].state = "CRITICAL_FAILURE"
  BY DEF Steered, Onward, Concluded, Critical, Consistent
<1>6. /\ ctl' \in Control /\ Controls'
  <2>1. CASE ctl' = Idled
    <3>1. ctl' \in Control
      BY <2>1, Alphabet DEF Idled, Control
    <3>2. ctl'.run = "none" /\ ctl'.who = "none" /\ ~ctl'.locked
      BY <2>1 DEF Idled
    <3>3. QED BY <3>1, <3>2 DEF Controls, Running, Posed, Planned
  <2>2. CASE Onward(c, e) /\ Posed(c.run, c.at + 1, c.locked, app', Gone)
    <3>1. /\ ctl' \in Control /\ ctl'.run = ctl.run /\ ctl'.at = c.at + 1 /\ ctl'.locked = c.locked
          /\ ctl'.who = ctl.who /\ ctl'.why = ctl.why /\ ctl'.state = c.state
      <4> DEFINE n == c.at + 1
      <4>1. ctl' = [c EXCEPT !.at = n, !.sent = FALSE] /\ n \in Nat
        BY <2>2 DEF Onward, SamePlace, Control
      <4> HIDE DEF n
      <4>2. /\ ctl' \in Control /\ ctl'.run = c.run /\ ctl'.at = n /\ ctl'.locked = c.locked
            /\ ctl'.who = c.who /\ ctl'.why = c.why /\ ctl'.state = c.state
        BY <4>1 DEF SamePlace, Control
      <4>3. QED BY <4>2 DEF n, SamePlace
    <3>2. c.at + 1 \in 1..PlanLength[ctl.run]
      <4>1. c.at \in Nat /\ c.at < PlanLength[ctl.run]
        BY <2>2 DEF Onward, SamePlace, Control
      <4>2. PlanLength[ctl.run] \in Nat
        BY DEF PlanLength, Planned
      <4>3. QED BY <4>1, <4>2
    <3>3. Posed(ctl'.run, ctl'.at, ctl'.locked, app', Gone')
      BY <1>3, <2>2, <3>1 DEF SamePlace, Posed
    <3>4. proc' = proc
      BY DEF Around
    <3>5. QED BY <1>3, <3>1, <3>2, <3>3, <3>4 DEF IInv, Controls, Running
  <2>3. CASE \E r \in {"unwind", "undoCommit", "rollback"}, x \in {"present", "absent"},
                w \in {"failure", c.why}, l \in {FALSE, c.locked} :
               ctl' = [c EXCEPT !.run = r, !.why = w, !.at = 1, !.sent = FALSE, !.locked = l, !.exp = x]
    <3>1. PICK r \in {"unwind", "undoCommit", "rollback"}, x \in {"present", "absent"},
               w \in {"failure", c.why}, l \in {FALSE, c.locked} :
             ctl' = [c EXCEPT !.run = r, !.why = w, !.at = 1, !.sent = FALSE, !.locked = l, !.exp = x]
      BY <2>3
    <3>2. /\ ctl' \in Control /\ ctl'.run = r /\ ctl'.at = 1 /\ ctl'.locked = l
          /\ ctl'.who = ctl.who /\ ctl'.state = c.state
      BY <3>1 DEF SamePlace, Control, Planned
    <3>3. Posed(ctl'.run, ctl'.at, ctl'.locked, app', Gone')
      BY <3>2 DEF Posed
    <3>4. 1 \in 1..PlanLength[r]
      BY DEF PlanLength
    <3>5. proc' = proc
      BY DEF Around
    <3>6. QED BY <1>3, <3>2, <3>3, <3>4, <3>5 DEF IInv, Controls, Running
  <2>4. CASE ctl' = [c EXCEPT !.stopped = FALSE] /\ Posed(c.run, c.at, c.locked, app', Gone)
    <3>1. /\ ctl' \in Control /\ ctl'.run = ctl.run /\ ctl'.at = ctl.at /\ ctl'.locked = c.locked
          /\ ctl'.who = ctl.who /\ ctl'.why = ctl.why /\ ctl'.state = c.state
      BY <2>4 DEF SamePlace, Control
    <3>2. Posed(ctl'.run, ctl'.at, ctl'.locked, app', Gone')
      BY <1>3, <2>4, <3>1 DEF SamePlace, Posed
    <3>3. proc' = proc
      BY DEF Around
    <3>4. QED BY <1>3, <3>1, <3>2, <3>3 DEF IInv, Controls, Running
  <2>5. CASE Steered(c, e) /\ (Cmd = "COMMIT" => Posed(c.run, c.at, c.locked, app', Gone))
    <3>1. CASE Left
      BY <2>1, <3>1 DEF Left
    <3>2. CASE ctl' = [c EXCEPT !.run = "unwind", !.at = 1, !.sent = FALSE, !.locked = FALSE]
      <4>1. ctl' = [c EXCEPT !.run = "unwind", !.why = c.why, !.at = 1, !.sent = FALSE,
                             !.locked = FALSE, !.exp = c.exp] /\ c.exp \in {"present", "absent"}
        BY <3>2 DEF SamePlace, Control
      <4>2. QED BY <2>3, <4>1
    <3>3. CASE ctl' = [c EXCEPT !.run = "undoCommit", !.at = 1, !.sent = FALSE]
      <4>1. ctl' = [c EXCEPT !.run = "undoCommit", !.why = c.why, !.at = 1, !.sent = FALSE,
                             !.locked = c.locked, !.exp = c.exp] /\ c.exp \in {"present", "absent"}
        BY <3>3 DEF SamePlace, Control
      <4>2. QED BY <2>3, <4>1
    <3>4. CASE ctl' = [c EXCEPT !.stopped = FALSE] /\ Cmd = "COMMIT"
      BY <2>4, <2>5, <3>4
    <3>5. CASE \E x \in {"present", "absent"} :
                 ctl' = [c EXCEPT !.run = "rollback", !.why = "failure", !.at = 1, !.sent = FALSE,
                                  !.locked = FALSE, !.exp = x]
      BY <2>3, <3>5
    <3>6. QED BY <2>5, <3>1, <3>2, <3>3, <3>4, <3>5 DEF Steered
  <2>6. QED BY <2>2, <2>5
<1>7. Placed'
  <2>1. proc' = proc /\ (proc # Nothing => proc = app')
    BY DEF Around
  <2>2. "CRITICAL_FAILURE" \notin DriverRestored
    BY DEF DriverRestored
  <2>3. QED BY <1>3, <1>5, <2>1, <2>2 DEF Consistent, Placed, BaselineInOnePlace
<1>8. Types'
  <2>1. HostType' /\ drv' = drv /\ audio' = audio /\ rt' = rt
    BY DEF Around
  <2>2. QED BY <1>1, <1>5, <1>6, <2>1 DEF IInv, Types, DriverType, ProcessType
<1>9. QED BY <1>2, <1>4, <1>6, <1>7, <1>8 DEF IInv

-----------------------------------------------------------------------------
(* What commands leave behind.                                             *)

\* A command that fails.
LEMMA FailKeeps ==
  ASSUME IInv, Running, ctl.run \in Planned, NEW c, SamePlace(c), c.locked = ctl.locked,
         NEW e, Consistent(e), Around, Fails(c, e), app' = app \/ Cmd # "COMMIT",
         c.state \in DriverRestored => Gone
  PROVE  IInv'
<1>1. Steered(c, e)
  BY FailSteers DEF IInv, Types, Controls, Consistent
<1>2. Cmd = "COMMIT" => Posed(c.run, c.at, c.locked, app', Gone)
  BY DEF IInv, Controls, SamePlace
<1>3. c.locked => proc = Nothing
  BY DEF IInv, Controls
<1>4. QED BY <1>1, <1>2, <1>3, SteerKeeps

\* A command that succeeds, if its plan may go on from there.
LEMMA GoKeeps ==
  ASSUME IInv, Running, ctl.run \in Planned, NEW c, SamePlace(c), c.locked => proc = Nothing,
         NEW e, Consistent(e), Around, Goes(c, e),
         Cmd # "COMMIT" \/ (app' = app /\ c.locked = ctl.locked),
         c.state \in DriverRestored => Gone, Posed(c.run, c.at + 1, c.locked, app', Gone)
  PROVE  IInv'
<1>1. Onward(c, e) \/ Steered(c, e)
  BY GoSteers DEF IInv, Types, SamePlace, Consistent
<1>2. Cmd = "COMMIT" => Posed(c.run, c.at, c.locked, app', Gone)
  BY DEF IInv, Controls, SamePlace
<1>3. QED BY <1>1, <1>2, SteerKeeps

\* Commands after which a plan has something new.
Marks == {"takeLock", "holdCurrent", "publishNew", "undo", "driverRestored"}

\* Past every other command the plan has what it had before.
LEMMA NextPose ==
  ASSUME IInv, Running, ctl.run \in Planned, Cmd \notin Marks
  PROVE  Posed(ctl.run, ctl.at + 1, ctl.locked, app, Gone)
<1>1. Posed(ctl.run, ctl.at, ctl.locked, app, Gone) /\ ctl.at \in Nat
  BY DEF IInv, Controls, Types, Control
<1>2. CASE ctl.run = "forward"
  <2>1. ctl.at \notin {22, 25, 34}
    BY <1>2, Commands DEF IInv, ForwardText, Marks
  <2>2. QED BY <1>1, <1>2, <2>1 DEF Posed
<1>3. CASE ctl.run = "rollback"
  <2>1. ctl.at \notin {9, 12}
    BY <1>3, Commands DEF IInv, RollbackText, Marks
  <2>2. QED BY <1>1, <1>3, <2>1 DEF Posed
<1>4. CASE ctl.run = "unwind"
  <2>1. ctl.at # 5
    BY <1>4, Commands DEF IInv, UnwindText, Marks
  <2>2. QED BY <1>1, <1>4, <2>1 DEF Posed
<1>5. CASE ctl.run = "undoCommit"
  <2>1. ctl.at # 4
    BY <1>5, Commands DEF IInv, UndoCommitText, Marks
  <2>2. QED BY <1>1, <1>5, <2>1 DEF Posed
<1>6. CASE ctl.run = "retire"
  BY <1>6 DEF Posed
<1>7. QED BY <1>2, <1>3, <1>4, <1>5, <1>6 DEF Planned

\* Where the driver is undone, the plans that undo it may go on.
LEMMA GonePose ==
  ASSUME IInv, Running, ctl.run \in Planned, Cmd \in {"undo", "driverRestored"}, Gone
  PROVE  Posed(ctl.run, ctl.at + 1, ctl.locked, app, Gone)
<1>1. Posed(ctl.run, ctl.at, ctl.locked, app, Gone) /\ ctl.at \in Nat
  BY DEF IInv, Controls, Types, Control
<1>2. ctl.run # "forward"
  BY Commands DEF IInv, ForwardText
<1>3. ctl.run = "rollback" => ctl.at = 12
  BY Commands DEF IInv, RollbackText
<1>4. QED BY <1>1, <1>2, <1>3 DEF Posed

\* The controller, having learned something.
LEMMA Learned ==
  ASSUME IInv, Running, ctl.run \in Planned
  PROVE  /\ SamePlace(ctl) /\ (ctl.state \in DriverRestored => Gone)
         /\ \A s \in V7States, h \in BOOLEAN :
              /\ SamePlace([ctl EXCEPT !.state = s, !.healthy = h])
              /\ [ctl EXCEPT !.state = s, !.healthy = h].state = s
              /\ [ctl EXCEPT !.state = s, !.healthy = h].healthy = h
              /\ [ctl EXCEPT !.state = s, !.healthy = h].locked = ctl.locked
         /\ \A b \in BOOLEAN :
              /\ SamePlace([ctl EXCEPT !.locked = b]) /\ [ctl EXCEPT !.locked = b].locked = b
              /\ [ctl EXCEPT !.locked = b].state = ctl.state
              /\ SamePlace([ctl EXCEPT !.stopped = b]) /\ [ctl EXCEPT !.stopped = b].locked = ctl.locked
              /\ [ctl EXCEPT !.stopped = b].state = ctl.state
  BY DEF IInv, Types, Controls, SamePlace, Control

\* The evidence of a running plan.
LEMMA EvidenceIs ==
  ASSUME IInv, Running, ctl.run \in Planned
  PROVE  /\ ev[7] \in Evidence /\ ev[7].root
         /\ app' = app => Consistent(ev)
         /\ \A r \in Evidence :
              r.kept = ev[7].kept /\ r.root = ev[7].root /\ app' = app
              /\ (r.state \in DriverRestored => Gone) => Consistent([ev EXCEPT ![7] = r])
<1>1. ev \in [All -> Evidence] /\ ev[7] \in Evidence /\ ev[7].root /\ Placed
  BY DEF IInv, Types, Placed, All, Planned
<1>2. app' = app => Consistent(ev)
  BY <1>1 DEF Consistent, Placed, BaselineInOnePlace
<1>3. ASSUME NEW r \in Evidence, r.kept = ev[7].kept, r.root = ev[7].root, app' = app,
             r.state \in DriverRestored => Gone
      PROVE  Consistent([ev EXCEPT ![7] = r])
  <2> DEFINE f == [ev EXCEPT ![7] = r]
  <2>1. f \in [All -> Evidence] /\ f[7] = r
    BY <1>1, Wrote
  <2> HIDE DEF f
  <2>2. Consistent(f)
    BY <1>1, <1>3, <2>1 DEF Consistent, Placed, BaselineInOnePlace
  <2>3. QED BY <2>2 DEF f
<1>4. QED BY <1>1, <1>2, <1>3

\* A command that leaves the machine alone.
LEMMA Unmoved ==
  ASSUME IInv, UNCHANGED <<host, root>>, Spend \/ UNCHANGED faults
  PROVE  Around /\ app' = app
<1>1. faults' \in 0..MaxFaults
  BY Counting DEF IInv, Types
<1>2. QED BY <1>1 DEF IInv, Types, HostType, Around, host, root, Placed

\* One that loads or unloads the job, or sees the host.
LEMMA Unmoved2 ==
  ASSUME IInv, UNCHANGED <<app, proc, marked, child, pairing, repo, crashes, root>>,
         job' \in BOOLEAN, seen' \in BOOLEAN, Spend \/ UNCHANGED faults
  PROVE  Around /\ app' = app
<1>1. faults' \in 0..MaxFaults
  BY Counting DEF IInv, Types
<1>2. QED BY <1>1 DEF IInv, Types, HostType, Around, root, Placed

\* An ordinary command goes on with the evidence e, or fails with it.
LEMMA Ordinary ==
  ASSUME IInv, Running, ctl.run \in Planned, Around, app' = app,
         NEW c, SamePlace(c), c.locked = ctl.locked, c.state \in DriverRestored => Gone,
         NEW e, Consistent(e), (Goes(c, e) /\ (Cmd \notin Marks \/ (Gone /\ Cmd \in {"undo", "driverRestored"}))) \/ Fails(c, e)
  PROVE  IInv'
<1>1. CASE Goes(c, e) /\ (Cmd \notin Marks \/ (Gone /\ Cmd \in {"undo", "driverRestored"}))
  <2>1. Posed(ctl.run, ctl.at + 1, ctl.locked, app, Gone)
    BY <1>1, NextPose, GonePose
  <2>2. Posed(c.run, c.at + 1, c.locked, app', Gone)
    BY <2>1 DEF SamePlace
  <2>3. c.locked => proc = Nothing
    BY DEF IInv, Controls
  <2>4. QED BY <1>1, <2>2, <2>3, GoKeeps
<1>2. CASE Fails(c, e)
  BY <1>2, FailKeeps
<1>3. QED BY <1>1, <1>2

-----------------------------------------------------------------------------
(* The commands.                                                           *)

\* A command that a plan no longer calls for.
LEMMA SkipStep == IInv /\ Skip => IInv'
<1> SUFFICES ASSUME IInv, Skip PROVE IInv'
  OBVIOUS
<1>1. /\ Running /\ ctl.run \in Planned /\ ~due(Cmd) /\ ctl.run \in {"rollback", "unwind", "undoCommit"}
      /\ Goes(ctl, ev) /\ UNCHANGED faults /\ UNCHANGED <<host, root>>
  BY DEF Skip, Skips, Advance, Planned
<1>2. Cmd \in Marks => Cmd = "undo" /\ Gone
  <2>1. Cmd \in Marks => Cmd = "undo"
    BY <1>1 DEF due, Marks
  <2>2. Cmd = "undo" => ctl.state \in DriverRestored
    BY <1>1 DEF due
  <2>3. QED BY <1>1, <2>1, <2>2 DEF IInv, Controls
<1>3. Around /\ app' = app
  BY <1>1, Unmoved
<1>4. Consistent(ev)
  BY <1>1, <1>3, EvidenceIs
<1>5. QED BY <1>1, <1>2, <1>3, <1>4, Ordinary, Learned

\* A journal state that says the driver is undone is recorded behind its undoing.
LEMMA RecordedTruly ==
  ASSUME IInv, Running, ctl.run \in Planned, Cmd \in DriverRestored PROVE Gone
<1>1. Posed(ctl.run, ctl.at, ctl.locked, app, Gone)
  BY DEF IInv, Controls
<1>2. CASE ctl.run = "forward"
  BY <1>2, Commands, Alphabet DEF IInv, ForwardText
<1>3. CASE ctl.run = "rollback"
  <2>1. 12 < ctl.at
    BY <1>3, Commands, Alphabet DEF IInv, RollbackText, DriverRestored
  <2>2. QED BY <1>1, <1>3, <2>1 DEF Posed, IInv, Types, Control
<1>4. CASE ctl.run = "unwind"
  <2>1. ctl.at = 7
    BY <1>4, Commands DEF IInv, UnwindText, DriverRestored
  <2>2. QED BY <1>1, <1>4, <2>1 DEF Posed
<1>5. CASE ctl.run = "undoCommit"
  <2>1. ctl.at = 5
    BY <1>5, Commands DEF IInv, UndoCommitText, DriverRestored
  <2>2. QED BY <1>1, <1>5, <2>1 DEF Posed
<1>6. CASE ctl.run = "retire"
  BY <1>6, Commands DEF IInv, RetireText, DriverRestored
<1>7. QED BY <1>2, <1>3, <1>4, <1>5, <1>6 DEF Planned

\* The commands that are not journal states.
LEMMA NotStates == "none" \notin V7States /\ Marks \cap V7States = {} /\ "COMMIT" \notin V7States
  BY Alphabet DEF Marks, DriverRestored

\* A journal record, written or not.
LEMMA RecordStep == IInv /\ Record => IInv'
<1> SUFFICES ASSUME IInv, Record PROVE IInv'
  OBVIOUS
<1>1. Cmd \in V7States /\ UNCHANGED <<host, root>>
  BY DEF Record
<1>2. Running /\ ctl.run \in Planned
  BY <1>1, Commanding, NotStates DEF IInv
<1>3. Cmd \in DriverRestored => Gone
  BY <1>2, RecordedTruly
<1> DEFINE r == V7Journal_record(ev[7], Cmd)
           t == [ev[7] EXCEPT !.tail = Cmd]
<1>4. /\ r \in Evidence /\ r.kept = ev[7].kept /\ r.root = ev[7].root /\ r.state = Cmd
  BY <1>1, <1>2, EvidenceIs, Appends
<1>5. t \in Evidence /\ t.kept = ev[7].kept /\ t.root = ev[7].root /\ t.state = ev[7].state
  BY <1>1, <1>2, EvidenceIs DEF Evidence
<1>6. ev[7].state \in DriverRestored => Gone
  BY DEF IInv, Placed
<1> HIDE DEF r, t
<1>7. app' = app => Consistent(ev) /\ Consistent([ev EXCEPT ![7] = r]) /\ Consistent([ev EXCEPT ![7] = t])
  BY <1>2, <1>3, <1>4, <1>5, <1>6, EvidenceIs
<1>8. \/ /\ Goes([ctl EXCEPT !.state = Cmd], [ev EXCEPT ![7] = r]) /\ UNCHANGED faults
      \/ \E h \in BOOLEAN, e \in {ev, [ev EXCEPT ![7] = r], [ev EXCEPT ![7] = t]} :
           (Spend \/ UNCHANGED faults) /\ Fails([ctl EXCEPT !.healthy = h], e)
  <2>1. \/ /\ Goes([ctl EXCEPT !.state = Cmd], [ev EXCEPT ![7] = V7Journal_record(@, Cmd)])
           /\ UNCHANGED faults
        \/ \E w \in (IF CanAppend THEN AppendFaults ELSE {"refused"}) :
             /\ IF w = "refused" THEN UNCHANGED faults ELSE Spend
             /\ LET e == CASE w = "torn" -> [ev EXCEPT ![7].tail = Cmd]
                           [] w = "kept" -> [ev EXCEPT ![7] = V7Journal_record(@, Cmd)]
                           [] OTHER -> ev
                IN Fails([ctl EXCEPT !.healthy = @ /\ w \in {"refused", "restored"}], e)
    BY DEF Record
  <2>2. [ev EXCEPT ![7] = V7Journal_record(@, Cmd)] = [ev EXCEPT ![7] = r]
    BY DEF r
  <2>3. [ev EXCEPT ![7].tail = Cmd] = [ev EXCEPT ![7] = t]
    BY DEF t
  <2>4. CASE \E w \in (IF CanAppend THEN AppendFaults ELSE {"refused"}) :
               /\ IF w = "refused" THEN UNCHANGED faults ELSE Spend
               /\ LET e == CASE w = "torn" -> [ev EXCEPT ![7].tail = Cmd]
                             [] w = "kept" -> [ev EXCEPT ![7] = V7Journal_record(@, Cmd)]
                             [] OTHER -> ev
                  IN Fails([ctl EXCEPT !.healthy = @ /\ w \in {"refused", "restored"}], e)
    <3>1. PICK w \in (IF CanAppend THEN AppendFaults ELSE {"refused"}) :
                 /\ IF w = "refused" THEN UNCHANGED faults ELSE Spend
                 /\ LET e == CASE w = "torn" -> [ev EXCEPT ![7].tail = Cmd]
                               [] w = "kept" -> [ev EXCEPT ![7] = V7Journal_record(@, Cmd)]
                               [] OTHER -> ev
                    IN Fails([ctl EXCEPT !.healthy = @ /\ w \in {"refused", "restored"}], e)
      BY <2>4
    <3> DEFINE h == ctl.healthy /\ w \in {"refused", "restored"}
    <3>2. Spend \/ UNCHANGED faults
      BY <3>1
    <3>3. h \in BOOLEAN
      OBVIOUS
    <3>4. \E e \in {ev, [ev EXCEPT ![7] = r], [ev EXCEPT ![7] = t]} :
            Fails([ctl EXCEPT !.healthy = h], e)
      <4>1. CASE w = "torn"
        BY <2>3, <3>1, <4>1
      <4>2. CASE w = "kept"
        BY <2>2, <3>1, <4>2
      <4>3. CASE w \notin {"torn", "kept"}
        BY <3>1, <4>3
      <4>4. QED BY <4>1, <4>2, <4>3
    <3> HIDE DEF h
    <3>5. QED BY <3>2, <3>3, <3>4
  <2>5. QED BY <2>1, <2>2, <2>4
<1>9. Around /\ app' = app
  BY <1>1, <1>8, Unmoved
<1>10. CASE Goes([ctl EXCEPT !.state = Cmd], [ev EXCEPT ![7] = r])
  <2> DEFINE c == [ctl EXCEPT !.state = Cmd]
  <2>1. SamePlace(c) /\ c.locked = ctl.locked /\ (c.state \in DriverRestored => Gone)
    BY <1>1, <1>2, <1>3 DEF IInv, Types, SamePlace, Control
  <2>2. Cmd \notin Marks
    BY <1>1, NotStates
  <2> HIDE DEF c
  <2>3. Goes(c, [ev EXCEPT ![7] = r])
    BY <1>10 DEF c
  <2>4. QED BY <1>2, <1>7, <1>9, <2>1, <2>2, <2>3, Ordinary
<1>11. CASE \E h \in BOOLEAN, e \in {ev, [ev EXCEPT ![7] = r], [ev EXCEPT ![7] = t]} :
              Fails([ctl EXCEPT !.healthy = h], e)
  <2>1. PICK h \in BOOLEAN, e \in {ev, [ev EXCEPT ![7] = r], [ev EXCEPT ![7] = t]} :
               Fails([ctl EXCEPT !.healthy = h], e)
    BY <1>11
  <2> DEFINE c == [ctl EXCEPT !.healthy = h]
  <2>2. SamePlace(c) /\ c.locked = ctl.locked /\ (c.state \in DriverRestored => Gone)
    BY <1>2 DEF IInv, Types, SamePlace, Control, Controls
  <2>3. Consistent(e)
    BY <1>7, <1>9
  <2> HIDE DEF c
  <2>4. Fails(c, e)
    BY <2>1 DEF c
  <2>5. QED BY <1>2, <1>9, <2>2, <2>3, <2>4, Ordinary
<1>12. QED BY <1>8, <1>10, <1>11

\* The journal without what a torn append left.
LEMMA Opened ==
  ASSUME NEW r \in Evidence
  PROVE  /\ V7Journal_open(r) \in Evidence
         /\ V7Journal_open(r).kept = r.kept /\ V7Journal_open(r).root = r.root
         /\ V7Journal_open(r).ptr = r.ptr /\ V7Journal_open(r).state = r.state
         /\ V7Journal_open(r).tail = "clean"
  BY DEF V7Journal_open, Evidence

\* The unwinding controller reads its journal again.
LEMMA ReopenStep == IInv /\ Reopen => IInv'
<1> SUFFICES ASSUME IInv, Reopen PROVE IInv'
  OBVIOUS
<1>1. Cmd = "reopen" /\ UNCHANGED <<host, root, faults>>
  BY DEF Reopen
<1>2. Running /\ ctl.run \in Planned
  BY <1>1, Commanding DEF IInv
<1>3. Around /\ app' = app
  BY <1>1, Unmoved
<1> DEFINE r == V7Journal_open(ev[7])
           c == [ctl EXCEPT !.state = ev[7].state, !.healthy = TRUE]
<1>4. r \in Evidence /\ r.kept = ev[7].kept /\ r.root = ev[7].root /\ r.state = ev[7].state
  BY <1>2, EvidenceIs, Opened
<1>5. ev[7].state \in DriverRestored => Gone
  BY DEF IInv, Placed
<1>6. (Goes(c, [ev EXCEPT ![7] = r])) \/ Fails(ctl, ev)
  BY DEF Reopen, Fail
<1>7. SamePlace(c) /\ c.locked = ctl.locked /\ c.state = ev[7].state
  <2>1. ev[7].state \in V7States
    BY <1>2, EvidenceIs DEF Evidence
  <2>2. QED BY <1>2, <2>1, Learned
<1> HIDE DEF r, c
<1>8. Consistent(ev) /\ Consistent([ev EXCEPT ![7] = r])
  BY <1>2, <1>3, <1>4, <1>5, EvidenceIs
<1>9. CASE Goes(c, [ev EXCEPT ![7] = r])
  BY <1>1, <1>2, <1>3, <1>5, <1>7, <1>8, <1>9, Ordinary DEF Marks
<1>10. CASE Fails(ctl, ev)
  BY <1>2, <1>3, <1>8, <1>10, Ordinary, Learned
<1>11. QED BY <1>6, <1>9, <1>10

\* A proof that a plan requires.
LEMMA CheckStep == IInv /\ Check => IInv'
<1> SUFFICES ASSUME IInv, Check PROVE IInv'
  OBVIOUS
<1>1. Cmd \in Gates /\ UNCHANGED <<host, root>>
  BY DEF Check
<1>2. Running /\ ctl.run \in Planned
  BY <1>1, Commanding DEF IInv, Gates
<1>3. \/ Holds(Cmd) /\ Goes(ctl, ev) /\ UNCHANGED faults
      \/ Fails(ctl, ev) /\ (Spend \/ UNCHANGED faults)
  BY DEF Check, Advance, Fail
<1>4. Around /\ app' = app
  BY <1>1, <1>3, Unmoved
<1>5. Consistent(ev)
  BY <1>2, <1>4, EvidenceIs
<1>6. CASE Holds(Cmd) /\ Goes(ctl, ev)
  <2>1. Cmd \in Marks => Cmd = "driverRestored"
    BY <1>1 DEF Gates, Marks
  <2>2. Cmd = "driverRestored" => Gone
    BY <1>2, <1>6, Learned DEF Holds
  <2>3. QED BY <1>2, <1>4, <1>5, <1>6, <2>1, <2>2, Ordinary, Learned
<1>7. CASE Fails(ctl, ev)
  BY <1>2, <1>4, <1>5, <1>7, Ordinary, Learned
<1>8. QED BY <1>3, <1>6, <1>7

\* A wait for the host.
LEMMA WaitStep == IInv /\ Wait => IInv'
<1> SUFFICES ASSUME IInv, Wait PROVE IInv'
  OBVIOUS
<1>1. Cmd \in Waits /\ UNCHANGED <<host, root>>
  BY DEF Wait
<1>2. Running /\ ctl.run \in Planned /\ Cmd \notin Marks
  BY <1>1, Commanding DEF IInv, Waits, Marks
<1>3. (Goes(ctl, ev) \/ Fails(ctl, ev)) /\ (Spend \/ UNCHANGED faults)
  BY DEF Wait, Advance, Fail
<1>4. Around /\ app' = app
  BY <1>1, <1>3, Unmoved
<1>5. Consistent(ev)
  BY <1>2, <1>4, EvidenceIs
<1>6. QED BY <1>2, <1>3, <1>4, <1>5, Ordinary, Learned

\* The controller takes note of the host's generation.
LEMMA ObserveStep == IInv /\ Observe => IInv'
<1> SUFFICES ASSUME IInv, Observe PROVE IInv'
  OBVIOUS
<1>1. Cmd = "observe" /\ UNCHANGED <<app, job, proc, marked, child, pairing, repo, crashes, root>>
      /\ (seen' = TRUE \/ seen' = seen)
  BY DEF Observe
<1>2. Running /\ ctl.run \in Planned /\ Cmd \notin Marks
  BY <1>1, Commanding DEF IInv, Marks
<1>3. (Goes(ctl, ev) \/ Fails(ctl, ev)) /\ (Spend \/ UNCHANGED faults)
  BY DEF Observe, Advance, Fail
<1>4. Around /\ app' = app
  BY <1>1, <1>3, Unmoved2 DEF IInv, Types, HostType
<1>5. Consistent(ev)
  BY <1>2, <1>4, EvidenceIs
<1>6. QED BY <1>2, <1>3, <1>4, <1>5, Ordinary, Learned

\* What a write changes: neither the journal nor where the hosts are.
LEMMA WrittenIs ==
  ASSUME IInv, Running, ctl.run \in Planned, Cmd \in Writes
  PROVE  \E r \in Evidence :
           /\ Written(Cmd) = [ev EXCEPT ![7] = r]
           /\ r.kept = ev[7].kept /\ r.root = ev[7].root /\ r.state = ev[7].state /\ r.tail = ev[7].tail
<1> DEFINE o == ev[7]
           Same(r) == /\ r \in Evidence
                      /\ r.kept = o.kept /\ r.root = o.root /\ r.state = o.state /\ r.tail = o.tail
<1>1. o \in Evidence
  BY EvidenceIs
<1>2. ev = [ev EXCEPT ![7] = o] /\ Same(o)
  BY <1>1 DEF IInv, Types
<1> HIDE DEF o
<1>3. /\ \A x \in {"exported", "built", "reference", "driver", "probes"} : Same([o EXCEPT !.stage = x])
      /\ \A x \in {"absent", "exact"} : Same([o EXCEPT !.hold = x])
      /\ \A x \in {"pending", "active", "retired"} : Same([o EXCEPT !.ptr = x])
      /\ \A x \in {"full", "released", "none"} : Same([o EXCEPT !.reserve = x])
      /\ \A x \in {"success", "rolledBack"} : Same([o EXCEPT !.result = x])
      /\ Same([o EXCEPT !.hold = "absent", !.quarantine = TRUE])
  <2>1. ASSUME NEW x \in {"exported", "built", "reference", "driver", "probes"}
        PROVE  Same([o EXCEPT !.stage = x])
    BY <1>1 DEF Evidence
  <2>2. ASSUME NEW x \in {"absent", "exact"} PROVE Same([o EXCEPT !.hold = x])
    BY <1>1 DEF Evidence
  <2>3. ASSUME NEW x \in {"pending", "active", "retired"} PROVE Same([o EXCEPT !.ptr = x])
    BY <1>1 DEF Evidence
  <2>4. ASSUME NEW x \in {"full", "released", "none"} PROVE Same([o EXCEPT !.reserve = x])
    BY <1>1 DEF Evidence
  <2>5. ASSUME NEW x \in {"success", "rolledBack"} PROVE Same([o EXCEPT !.result = x])
    BY <1>1 DEF Evidence
  <2>6. Same([o EXCEPT !.hold = "absent", !.quarantine = TRUE])
    BY <1>1 DEF Evidence
  <2> HIDE DEF Same
  <2>7. QED BY <2>1, <2>2, <2>3, <2>4, <2>5, <2>6
<1> HIDE DEF Same
<1>4. ASSUME Cmd \in {"export", "build", "reference", "driver", "probeBinaries", "prepareHold"}
      PROVE  \E r : Same(r) /\ Written(Cmd) = [ev EXCEPT ![7] = r]
  <2>1. \E r \in {[o EXCEPT !.stage = "exported"], [o EXCEPT !.stage = "built"],
                  [o EXCEPT !.stage = "reference"], [o EXCEPT !.stage = "driver"],
                  [o EXCEPT !.stage = "probes"], [o EXCEPT !.hold = "exact"]} :
          Written(Cmd) = [ev EXCEPT ![7] = r]
    BY <1>4 DEF Written, export_v7_source, build_and_verify_v7_staged_app,
       prepare_v7_deployment_reference, materialize_reviewed_production_driver,
       build_and_verify_v7_probe_binaries, prepare_v7_install_hold, o
  <2>2. QED BY <1>3, <2>1
<1>5. ASSUME Cmd \in {"pendingPointer", "activePointer", "removeHoldRoot"}
      PROVE  \E r : Same(r) /\ Written(Cmd) = [ev EXCEPT ![7] = r]
  <2>1. \E r \in {[o EXCEPT !.ptr = "pending"], [o EXCEPT !.ptr = "active"], [o EXCEPT !.hold = "absent"]} :
          Written(Cmd) = [ev EXCEPT ![7] = r]
    BY <1>5 DEF Written, o
  <2>2. QED BY <1>3, <2>1
<1>6. ASSUME Cmd \in {"reserve", "releaseReserve"}
      PROVE  \E r : Same(r) /\ Written(Cmd) = [ev EXCEPT ![7] = r]
  <2>1. \E x \in {"full", "none", "released"} : Written(Cmd) = [ev EXCEPT ![7] = [o EXCEPT !.reserve = x]]
    BY <1>6 DEF Written, allocate_rollback_reserve, release_rollback_reserve, o
  <2>2. QED BY <1>3, <2>1
<1>7. ASSUME Cmd = "archiveHold"
      PROVE  \E r : Same(r) /\ Written(Cmd) = [ev EXCEPT ![7] = r]
  <2>1. \E r \in {o, [o EXCEPT !.hold = "absent", !.quarantine = TRUE]} : Written(Cmd) = [ev EXCEPT ![7] = r]
    BY <1>7 DEF Written, archive_v7_install_hold_root, o
  <2>2. QED BY <1>2, <1>3, <2>1
<1>8. ASSUME Cmd \in {"resultSuccess", "resultRolledBack", "ensureResult", "retirePointer"}
      PROVE  \E r : Same(r) /\ Written(Cmd) = [ev EXCEPT ![7] = r]
  <2>1. \/ Written(Cmd) = ev
        \/ \E r \in {[o EXCEPT !.result = "success"], [o EXCEPT !.result = "rolledBack"],
                     [o EXCEPT !.ptr = "retired"]} : Written(Cmd) = [ev EXCEPT ![7] = r]
    BY <1>8 DEF Written, write_result, ensure_rolled_back_result, retire_update_pointer_at, o
  <2>2. QED BY <1>2, <1>3, <2>1
<1>9. \E r : Same(r) /\ Written(Cmd) = [ev EXCEPT ![7] = r]
  BY <1>4, <1>5, <1>6, <1>7, <1>8 DEF Writes
<1>10. QED BY <1>9 DEF Same, o

\* A file is written.
LEMMA WriteStep == IInv /\ Write => IInv'
<1> SUFFICES ASSUME IInv, Write PROVE IInv'
  OBVIOUS
<1>1. Cmd \in Writes /\ UNCHANGED <<host, root>>
  BY DEF Write
<1>2. Running /\ ctl.run \in Planned /\ Cmd \notin Marks
  BY <1>1, Commanding DEF IInv, Writes, Marks
<1>3. \E e \in {ev, Written(Cmd)} : (Goes(ctl, e) \/ Fails(ctl, e)) /\ (Spend \/ UNCHANGED faults)
  BY DEF Write, Acted, Advance, Fail
<1>4. Around /\ app' = app
  BY <1>1, <1>3, Unmoved
<1>5. ev[7].state \in DriverRestored => Gone
  BY DEF IInv, Placed
<1>6. Consistent(ev) /\ Consistent(Written(Cmd))
  BY <1>1, <1>2, <1>4, <1>5, EvidenceIs, WrittenIs
<1>7. PICK e \in {ev, Written(Cmd)} : Goes(ctl, e) \/ Fails(ctl, e)
  BY <1>3
<1>8. Consistent(e)
  BY <1>6
<1>9. QED BY <1>2, <1>4, <1>7, <1>8, Ordinary, Learned

\* The places of the commands that move an app, and what is known there.
LEMMA MovesAt ==
  ASSUME IInv, Cmd \in {"holdCurrent", "publishNew", "archiveNew", "restoreCurrent"}
  PROVE  /\ Running /\ ctl.run \in Planned /\ ctl.locked /\ proc = Nothing
         /\ Cmd = "holdCurrent" => ctl.run = "forward" /\ ctl.at = 25 /\ app = 6
         /\ Cmd = "publishNew" => ctl.run = "forward" /\ ctl.at = 34 /\ app = Nothing /\ ev[7].kept = 6
         /\ Cmd = "archiveNew" => ctl.run = "rollback" /\ ctl.at = 15 /\ Gone
         /\ Cmd = "restoreCurrent" => ctl.run = "rollback" /\ ctl.at = 17 /\ Gone
<1>1. Running /\ ctl.run \in Planned
  BY Commanding DEF IInv
<1>2. Posed(ctl.run, ctl.at, ctl.locked, app, Gone) /\ Placed
  BY DEF IInv, Controls
<1>3. ctl.run \notin {"unwind", "undoCommit", "retire"}
  BY <1>1, Commands DEF IInv, UnwindText, UndoCommitText, RetireText
<1>4. CASE ctl.run = "forward"
  <2>1. ForwardText(ctl.at, Cmd)
    BY <1>1, <1>4, Commands DEF IInv
  <2>2. (Cmd = "holdCurrent" /\ ctl.at = 25) \/ (Cmd = "publishNew" /\ ctl.at = 34)
    <3>1. /\ Cmd \notin {"archiveNew", "restoreCurrent"}
          /\ Cmd = "holdCurrent" => ctl.at = 25
          /\ Cmd = "publishNew" => ctl.at = 34
      BY <2>1 DEF ForwardText
    <3>2. QED BY <3>1
  <2>3. ctl.locked /\ (ctl.at = 25 => app = 6) /\ (ctl.at = 34 => app = Nothing)
    BY <1>2, <1>4, <2>2 DEF Posed
  <2>4. proc = Nothing
    BY <2>3 DEF IInv, Controls
  <2>5. app = Nothing => ev[7].kept = 6
    BY <1>2 DEF Placed, BaselineInOnePlace, Nothing
  <2>6. QED BY <1>1, <1>4, <2>2, <2>3, <2>4, <2>5
<1>5. CASE ctl.run = "rollback"
  <2>1. RollbackText(ctl.at, Cmd)
    BY <1>1, <1>5, Commands DEF IInv
  <2>2. (Cmd = "archiveNew" /\ ctl.at = 15) \/ (Cmd = "restoreCurrent" /\ ctl.at = 17)
    <3>1. /\ Cmd \notin {"holdCurrent", "publishNew"}
          /\ Cmd = "archiveNew" => ctl.at = 15
          /\ Cmd = "restoreCurrent" => ctl.at = 17
      BY <2>1 DEF RollbackText
    <3>2. QED BY <3>1
  <2>3. ctl.locked /\ Gone
    BY <1>2, <1>5, <2>2 DEF Posed
  <2>4. proc = Nothing
    BY <2>3 DEF IInv, Controls
  <2>5. QED BY <1>1, <1>5, <2>2, <2>3, <2>4
<1>6. QED BY <1>1, <1>3, <1>4, <1>5 DEF Planned

\* A move that was done, whatever becomes of the command.
LEMMA MovedStep ==
  ASSUME IInv, Cmd \in {"holdCurrent", "publishNew", "archiveNew", "restoreCurrent"},
         NEW a \in {-1, 6, 7}, NEW r \in Evidence, app' = a, r.root = ev[7].root, r.state = ev[7].state,
         r.kept \in {-1, 6}, (a = 6) # (r.kept = 6), a = 6 => Gone,
         UNCHANGED <<job, proc, seen, marked, child, pairing, repo, crashes, root>>,
         Spend \/ UNCHANGED faults,
         \/ Goes(ctl, [ev EXCEPT ![7] = r]) /\ Posed(ctl.run, ctl.at + 1, ctl.locked, a, Gone)
         \/ Fails(ctl, [ev EXCEPT ![7] = r])
  PROVE  IInv'
<1>1. Running /\ ctl.run \in Planned /\ proc = Nothing
  BY MovesAt
<1>2. faults' \in 0..MaxFaults
  BY Counting DEF IInv, Types
<1>3. Around
  BY <1>1, <1>2 DEF IInv, Types, HostType, Around, root
<1> DEFINE f == [ev EXCEPT ![7] = r]
<1>4. f \in [All -> Evidence] /\ f[7] = r
  BY Wrote DEF IInv, Types
<1> HIDE DEF f
<1>5. Consistent(f)
  <2>1. ev[7].root
    BY <1>1, EvidenceIs
  <2>2. ev[7].state \in DriverRestored => Gone
    BY DEF IInv, Placed
  <2>3. QED BY <1>4, <2>1, <2>2 DEF Consistent
<1>6. Cmd # "COMMIT"
  OBVIOUS
<1>7. CASE Goes(ctl, f) /\ Posed(ctl.run, ctl.at + 1, ctl.locked, a, Gone)
  BY <1>1, <1>3, <1>5, <1>6, <1>7, GoKeeps, Learned
<1>8. CASE Fails(ctl, f)
  BY <1>1, <1>3, <1>5, <1>6, <1>8, FailKeeps, Learned
<1>9. QED BY <1>7, <1>8 DEF f

\* An app is moved, or not.
LEMMA MoveAppStep == IInv /\ MoveApp => IInv'
<1> SUFFICES ASSUME IInv, MoveApp PROVE IInv'
  OBVIOUS
<1>1. /\ Cmd \in {"holdCurrent", "publishNew", "archiveNew", "restoreCurrent"}
      /\ UNCHANGED <<job, proc, seen, marked, child, pairing, repo, crashes, root>>
  BY DEF MoveApp
<1>2. Running /\ ctl.run \in Planned
  BY <1>1, MovesAt
<1> DEFINE r == CASE Cmd = "holdCurrent" -> [ev[7] EXCEPT !.kept = app]
                  [] Cmd = "publishNew" -> [ev[7] EXCEPT !.hold = "empty"]
                  [] Cmd = "archiveNew" -> [ev[7] EXCEPT !.failed = app]
                  [] Cmd = "restoreCurrent" -> [ev[7] EXCEPT !.kept = Nothing]
           a == CASE Cmd = "holdCurrent" -> Nothing
                  [] Cmd = "publishNew" -> 7
                  [] Cmd = "archiveNew" -> Nothing
                  [] Cmd = "restoreCurrent" -> ev[7].kept
           needed == CASE Cmd \in {"holdCurrent", "publishNew"} -> TRUE
                       [] Cmd = "archiveNew" -> ev[7].kept # Nothing /\ app # Nothing
                       [] Cmd = "restoreCurrent" -> ev[7].kept # Nothing
<1>3. Move(needed, a, [ev EXCEPT ![7] = r])
  BY DEF MoveApp
<1>4. needed => /\ a \in {-1, 6, 7} /\ r \in Evidence /\ r.root = ev[7].root /\ r.state = ev[7].state
                /\ r.kept \in {-1, 6} /\ (a = 6) # (r.kept = 6) /\ (a = 6 => Gone)
                /\ Cmd \in {"holdCurrent", "publishNew"} =>
                     Posed(ctl.run, ctl.at + 1, ctl.locked, a, Gone)
                /\ Cmd \in {"archiveNew", "restoreCurrent"} =>
                     Posed(ctl.run, ctl.at + 1, ctl.locked, a, Gone)
  <2> SUFFICES ASSUME needed
               PROVE  /\ a \in {-1, 6, 7} /\ r \in Evidence /\ r.root = ev[7].root /\ r.state = ev[7].state
                      /\ r.kept \in {-1, 6} /\ (a = 6) # (r.kept = 6) /\ (a = 6 => Gone)
                      /\ Posed(ctl.run, ctl.at + 1, ctl.locked, a, Gone)
    OBVIOUS
  <2>1. ev[7] \in Evidence /\ Placed /\ app \in {-1, 6, 7}
    BY <1>2, EvidenceIs DEF IInv, Types, HostType
  <2>2. CASE Cmd = "holdCurrent"
    <3>1. ctl.run = "forward" /\ ctl.at = 25 /\ ctl.locked /\ app = 6
      BY <1>1, <2>2, MovesAt
    <3>2. a = -1 /\ r = [ev[7] EXCEPT !.kept = app]
      BY <2>2 DEF Nothing
    <3> HIDE DEF a, r
    <3>3. r \in Evidence /\ r.root = ev[7].root /\ r.state = ev[7].state /\ r.kept = 6
      BY <2>1, <3>1, <3>2 DEF Evidence
    <3>4. Posed(ctl.run, ctl.at + 1, ctl.locked, a, Gone)
      BY <3>1, <3>2 DEF Posed, Nothing
    <3>5. QED BY <3>2, <3>3, <3>4
  <2>3. CASE Cmd = "publishNew"
    <3>1. ctl.run = "forward" /\ ctl.at = 34 /\ ctl.locked /\ ev[7].kept = 6
      BY <1>1, <2>3, MovesAt
    <3>2. a = 7 /\ r = [ev[7] EXCEPT !.hold = "empty"]
      BY <2>3
    <3> HIDE DEF a, r
    <3>3. r \in Evidence /\ r.root = ev[7].root /\ r.state = ev[7].state /\ r.kept = 6
      BY <2>1, <3>1, <3>2 DEF Evidence
    <3>4. Posed(ctl.run, ctl.at + 1, ctl.locked, a, Gone)
      BY <3>1, <3>2 DEF Posed
    <3>5. QED BY <3>2, <3>3, <3>4
  <2>4. CASE Cmd = "archiveNew"
    <3>1. ctl.run = "rollback" /\ ctl.at = 15 /\ ctl.locked /\ Gone
      BY <1>1, <2>4, MovesAt
    <3>2. a = -1 /\ r = [ev[7] EXCEPT !.failed = app] /\ ev[7].kept # -1
      BY <2>4 DEF Nothing
    <3>3. ev[7].kept = 6
      BY <2>1, <3>2 DEF Placed
    <3> HIDE DEF a, r
    <3>4. r \in Evidence /\ r.root = ev[7].root /\ r.state = ev[7].state /\ r.kept = 6
      BY <2>1, <3>2, <3>3 DEF Evidence
    <3>5. Posed(ctl.run, ctl.at + 1, ctl.locked, a, Gone)
      BY <3>1 DEF Posed
    <3>6. QED BY <3>2, <3>4, <3>5
  <2>5. CASE Cmd = "restoreCurrent"
    <3>1. ctl.run = "rollback" /\ ctl.at = 17 /\ ctl.locked /\ Gone
      BY <1>1, <2>5, MovesAt
    <3>2. a = ev[7].kept /\ r = [ev[7] EXCEPT !.kept = Nothing] /\ ev[7].kept # -1
      BY <2>5 DEF Nothing
    <3>3. a = 6
      BY <2>1, <3>2 DEF Placed
    <3> HIDE DEF a, r
    <3>4. r \in Evidence /\ r.root = ev[7].root /\ r.state = ev[7].state /\ r.kept = -1
      BY <2>1, <3>2 DEF Evidence, Nothing
    <3>5. Posed(ctl.run, ctl.at + 1, ctl.locked, a, Gone)
      BY <3>1 DEF Posed
    <3>6. (a = 6) # (r.kept = 6) /\ r.kept \in {-1, 6}
      BY <3>3, <3>4
    <3>7. QED BY <3>1, <3>3, <3>4, <3>5, <3>6
  <2>6. QED BY <1>1, <2>2, <2>3, <2>4, <2>5
<1>5. ~needed => Cmd \in {"archiveNew", "restoreCurrent"}
  BY <1>1
<1> HIDE DEF a, r, needed
<1>6. ASSUME needed, app' = a,
             \/ Goes(ctl, [ev EXCEPT ![7] = r]) /\ UNCHANGED faults
             \/ Fails(ctl, [ev EXCEPT ![7] = r]) /\ Spend
      PROVE  IInv'
  BY <1>1, <1>4, <1>6, MovedStep
<1>7. ASSUME app' = app,
             \/ Cmd \notin Marks /\ Goes(ctl, ev) /\ UNCHANGED faults
             \/ Fails(ctl, ev) /\ Spend
      PROVE  IInv'
  <2>1. UNCHANGED <<host, root>>
    BY <1>1, <1>7 DEF host
  <2>2. Around
    BY <1>7, <2>1, Unmoved
  <2>3. Consistent(ev)
    BY <1>2, <1>7, EvidenceIs
  <2>4. QED BY <1>2, <1>7, <2>2, <2>3, Ordinary, Learned
<1>8. CASE needed
  <2>1. \/ app' = a /\ Goes(ctl, [ev EXCEPT ![7] = r]) /\ UNCHANGED faults
        \/ app' = a /\ Fails(ctl, [ev EXCEPT ![7] = r]) /\ Spend
        \/ app' = app /\ Fails(ctl, ev) /\ Spend
    BY <1>3, <1>8 DEF Move, Advance, Fail
  <2>2. CASE app' = a /\ Goes(ctl, [ev EXCEPT ![7] = r]) /\ UNCHANGED faults
    BY <1>6, <1>8, <2>2
  <2>3. CASE app' = a /\ Fails(ctl, [ev EXCEPT ![7] = r]) /\ Spend
    BY <1>6, <1>8, <2>3
  <2>4. CASE app' = app /\ Fails(ctl, ev) /\ Spend
    BY <1>7, <2>4
  <2>5. QED BY <2>1, <2>2, <2>3, <2>4
<1>9. CASE ~needed
  <2>1. app' = app /\ Goes(ctl, ev) /\ UNCHANGED faults
    BY <1>3, <1>9 DEF Move, Advance
  <2>2. Cmd \notin Marks
    BY <1>5, <1>9 DEF Marks
  <2>3. QED BY <1>7, <2>1, <2>2
<1>10. QED BY <1>8, <1>9

\* The job is loaded or unloaded.
LEMMA LaunchctlStep == IInv /\ Launchctl => IInv'
<1> SUFFICES ASSUME IInv, Launchctl PROVE IInv'
  OBVIOUS
<1>1. /\ Cmd \in {"bootout", "bootstrap", "bootoutIfLoaded"} /\ job' \in {job, TRUE, FALSE}
      /\ UNCHANGED <<app, proc, seen, marked, child, pairing, repo, crashes, root>>
      /\ (Goes(ctl, ev) \/ Fails(ctl, ev)) /\ (Spend \/ UNCHANGED faults)
  BY DEF Launchctl, Advance, Fail
<1>2. Running /\ ctl.run \in Planned /\ Cmd \notin Marks
  BY <1>1, Commanding DEF IInv, Marks
<1>3. job' \in BOOLEAN /\ seen' \in BOOLEAN
  BY <1>1 DEF IInv, Types, HostType
<1>4. Around /\ app' = app
  BY <1>1, <1>3, Unmoved2
<1>5. Consistent(ev)
  BY <1>2, <1>4, EvidenceIs
<1>6. QED BY <1>1, <1>2, <1>4, <1>5, Ordinary, Learned

\* The unwinding controller tries to stop the host.
LEMMA TryStopStep == IInv /\ TryStop => IInv'
<1> SUFFICES ASSUME IInv, TryStop PROVE IInv'
  OBVIOUS
<1>1. /\ Cmd \in {"tryBootout", "tryDrain"} /\ job' \in {job, FALSE}
      /\ UNCHANGED <<app, proc, seen, marked, child, pairing, repo, crashes, root>>
      /\ (\E c \in {ctl, [ctl EXCEPT !.stopped = FALSE]} : Goes(c, ev)) /\ (Spend \/ UNCHANGED faults)
  BY DEF TryStop, Advance
<1>2. Running /\ ctl.run \in Planned /\ Cmd \notin Marks
  BY <1>1, Commanding DEF IInv, Marks
<1>3. job' \in BOOLEAN /\ seen' \in BOOLEAN
  BY <1>1 DEF IInv, Types, HostType
<1>4. Around /\ app' = app
  BY <1>1, <1>3, Unmoved2
<1>5. Consistent(ev)
  BY <1>2, <1>4, EvidenceIs
<1>6. PICK c \in {ctl, [ctl EXCEPT !.stopped = FALSE]} : Goes(c, ev)
  BY <1>1
<1>7. SamePlace(c) /\ c.locked = ctl.locked /\ (c.state \in DriverRestored => Gone)
  BY <1>2, Learned
<1>8. QED BY <1>2, <1>4, <1>5, <1>6, <1>7, Ordinary

\* The lock of the host is free only when no host runs.
LEMMA LockNeeds == acquire_unowned_shared_lock => proc = Nothing
<1>1. "canonical" \in {p \in {"canonical"} : proc # Nothing} <=> proc # Nothing
  OBVIOUS
<1>2. QED BY <1>1 DEF acquire_unowned_shared_lock, require_no_capture_servers, capture_server_processes

\* The host's lock is taken and given back.
LEMMA HostLockStep == IInv /\ HostLock => IInv'
<1> SUFFICES ASSUME IInv, HostLock PROVE IInv'
  OBVIOUS
<1>1. /\ UNCHANGED <<host, root>> /\ (Spend \/ UNCHANGED faults)
      /\ \/ Cmd = "takeLock" /\ proc = Nothing /\ Goes([ctl EXCEPT !.locked = TRUE], ev)
         \/ Cmd = "takeLock" /\ Fails(ctl, ev)
         \/ Cmd = "dropLock" /\ Goes([ctl EXCEPT !.locked = FALSE], ev)
  BY LockNeeds DEF HostLock, Fail
<1>2. Running /\ ctl.run \in Planned
  BY <1>1, Commanding DEF IInv
<1>3. Around /\ app' = app
  BY <1>1, Unmoved
<1>4. Consistent(ev)
  BY <1>2, <1>3, EvidenceIs
<1>5. Posed(ctl.run, ctl.at, ctl.locked, app, Gone)
  BY DEF IInv, Controls
<1>6. /\ ctl.run \in {"forward", "rollback"}
      /\ Cmd = "takeLock" => ctl.at = IF ctl.run = "forward" THEN 22 ELSE 9
      /\ Cmd = "dropLock" => ctl.at = IF ctl.run = "forward" THEN 38 ELSE 21
  BY <1>1, <1>2, Commands DEF IInv, ForwardText, RollbackText, UnwindText, UndoCommitText, RetireText, Planned
<1>7. CASE Cmd = "takeLock" /\ proc = Nothing /\ Goes([ctl EXCEPT !.locked = TRUE], ev)
  <2> DEFINE c == [ctl EXCEPT !.locked = TRUE]
  <2>1. SamePlace(c) /\ c.locked = TRUE /\ (c.state \in DriverRestored => Gone)
    BY <1>2, Learned
  <2> HIDE DEF c
  <2>2. Posed(c.run, c.at + 1, c.locked, app', Gone)
    BY <1>3, <1>5, <1>6, <1>7, <2>1 DEF SamePlace, Posed
  <2>3. Goes(c, ev) /\ Cmd # "COMMIT"
    BY <1>7 DEF c
  <2>4. QED BY <1>2, <1>3, <1>4, <1>7, <2>1, <2>2, <2>3, GoKeeps
<1>8. CASE Cmd = "takeLock" /\ Fails(ctl, ev)
  BY <1>2, <1>3, <1>4, <1>8, Ordinary, Learned
<1>9. CASE Cmd = "dropLock" /\ Goes([ctl EXCEPT !.locked = FALSE], ev)
  <2> DEFINE c == [ctl EXCEPT !.locked = FALSE]
  <2>1. SamePlace(c) /\ c.locked = FALSE /\ (c.state \in DriverRestored => Gone)
    BY <1>2, Learned
  <2> HIDE DEF c
  <2>2. Posed(c.run, c.at + 1, c.locked, app', Gone)
    BY <1>3, <1>5, <1>6, <1>9, <2>1 DEF SamePlace, Posed
  <2>3. Goes(c, ev) /\ Cmd # "COMMIT"
    BY <1>9 DEF c
  <2>4. QED BY <1>2, <1>3, <1>4, <2>1, <2>2, <2>3, GoKeeps
<1>10. QED BY <1>1, <1>7, <1>8, <1>9


-----------------------------------------------------------------------------
(* Steps of one side.                                                      *)

\* Only the side p changed, and what it says is true.
LEMMA OneSide ==
  ASSUME IInv, NEW p \in Sides, NEW k \in Clients, NEW x \in ProxyStates, NEW r \in RootStates,
         cli' = [cli EXCEPT ![p] = k], px' = [px EXCEPT ![p] = x], rt' = [rt EXCEPT ![p] = r],
         Gone => Gone', Sound(p, k, x, r, Gone')
  PROVE  ProcessType' /\ Sides7' /\ cli'[p] = k /\ px'[p] = x /\ rt'[p] = r
<1>1. /\ cli \in [Sides -> Clients] /\ px \in [Sides -> ProxyStates] /\ rt \in [Sides -> RootStates]
  BY DEF IInv, Types, ProcessType
<1>2. ProcessType'
  BY <1>1 DEF ProcessType
<1>3. cli'[p] = k /\ px'[p] = x /\ rt'[p] = r
  BY <1>1
<1>4. ASSUME NEW s \in Sides PROVE Sound(s, cli'[s], px'[s], rt'[s], Gone')
  <2>1. CASE s = p
    BY <1>3, <2>1
  <2>2. CASE s # p
    <3>1. cli'[s] = cli[s] /\ px'[s] = px[s] /\ rt'[s] = rt[s]
      BY <1>1, <2>2
    <3>2. Sound(s, cli[s], px[s], rt[s], Gone)
      BY DEF IInv, Sides7
    <3>3. QED BY <3>1, <3>2 DEF Sound
  <2>3. QED BY <2>1, <2>2
<1>5. QED BY <1>2, <1>3, <1>4 DEF Sides7

\* Plans under which the driver is undone, or nothing happens to it.
LEMMA ControlsStay ==
  ASSUME IInv, UNCHANGED <<app, ctl>>, Gone => Gone', proc' = Nothing \/ ~ctl.locked
  PROVE  ctl' \in Control /\ Controls'
<1>1. ctl' \in Control
  BY DEF IInv, Types
<1>2. Posed(ctl.run, ctl.at, ctl.locked, app, Gone)
  BY DEF IInv, Controls
<1>3. Posed(ctl'.run, ctl'.at, ctl'.locked, app', Gone')
  BY <1>2 DEF Posed
<1>4. QED BY <1>1, <1>3 DEF IInv, Controls, Running

\* A command on its way to the proxy.
LEMMA ControlsSent ==
  ASSUME IInv, UNCHANGED <<app, proc, drv, audio>>, ctl' = [ctl EXCEPT !.sent = TRUE]
  PROVE  ctl' \in Control /\ Controls'
<1>1. /\ ctl' \in Control /\ ctl'.who = ctl.who /\ ctl'.run = ctl.run /\ ctl'.why = ctl.why
      /\ ctl'.at = ctl.at /\ ctl'.locked = ctl.locked /\ ctl'.state = ctl.state
  BY DEF IInv, Types, Control
<1>2. Posed(ctl.run, ctl.at, ctl.locked, app, Gone)
  BY DEF IInv, Controls
<1>3. Gone' <=> Gone
  BY DEF Gone
<1>4. Posed(ctl'.run, ctl'.at, ctl'.locked, app', Gone')
  BY <1>1, <1>2, <1>3 DEF Posed
<1>5. QED BY <1>1, <1>3, <1>4 DEF IInv, Controls, Running

\* The driver as it was.
LEMMA DriverStays ==
  ASSUME IInv, UNCHANGED <<drv, audio>>
  PROVE  DriverType' /\ (Gone' <=> Gone) /\ (Gone => Gone') /\ (audio' = "product" => drv' \in {"canonical", "failed"})
  BY DEF IInv, Types, DriverType, Gone, Published

\* No publication on its way that was not before.
LEMMA PublishedStays ==
  ASSUME IInv, UNCHANGED <<drv, audio>>,
         app' = 6 => app = 6 /\ (Publishing(cli["broker"], rt["broker"])' => Publishing(cli["broker"], rt["broker"]))
  PROVE  Published'
  BY DriverStays DEF IInv, Published

\* The evidence and the hosts as they were, but for the journal.
LEMMA PlacedStays ==
  ASSUME IInv, UNCHANGED app, Gone => Gone', proc' # Nothing => proc' = app,
         ev'[7].kept = ev[7].kept, ev'[7].root = ev[7].root,
         ev'[7].state = ev[7].state \/ ev[7].root, ev'[7].state \in DriverRestored => Gone',
         ctl'.run = ctl.run \/ ev[7].root
  PROVE  Placed'
  BY DEF IInv, Placed, BaselineInOnePlace

\* The same with the evidence untouched.
LEMMA PlacedSame ==
  ASSUME IInv, UNCHANGED <<app, ev>>, Gone => Gone', proc' # Nothing => proc' = app,
         ctl'.run = ctl.run \/ ev[7].root
  PROVE  Placed' /\ ev' \in [All -> Evidence]
<1>1. ev' \in [All -> Evidence]
  BY DEF IInv, Types
<1>2. ev'[7].state \in DriverRestored => Gone'
  BY DEF IInv, Placed
<1>3. Placed'
  BY <1>2, PlacedStays
<1>4. QED BY <1>1, <1>3

\* What belongs to the invariant.
LEMMA Together ==
  ASSUME HostType', DriverType', ProcessType', ev' \in [All -> Evidence], ctl' \in Control,
         Sides7', Published', Controls', Placed'
  PROVE  IInv'
  BY DEF IInv, Types

\* A process of the kind p, read from the invariant.
LEMMA SideIs ==
  ASSUME IInv, NEW p \in Sides
  PROVE  /\ cli[p] \in Clients /\ px[p] \in ProxyStates /\ rt[p] \in RootStates
         /\ Sound(p, cli[p], px[p], rt[p], Gone)
         /\ cli = [cli EXCEPT ![p] = cli[p]] /\ px = [px EXCEPT ![p] = px[p]]
         /\ rt = [rt EXCEPT ![p] = rt[p]]
  BY DEF IInv, Types, ProcessType, Sides7

-----------------------------------------------------------------------------
(* The controller and its proxy.                                           *)

\* The commands of the plans to a proxy: there is always one more after them.
LEMMA RequestIs ==
  ASSUME IInv, Running, ctl.run \in Planned, Cmd \in Requests7 \cup {"startBroker", "startRestore"}
  PROVE  /\ ctl.at + 1 \in 1..PlanLength[ctl.run] /\ Side \in Sides
         /\ Cmd \in Requests7 => Request7 \in Words(Side)
         /\ Cmd = "PUBLISH" => app = Nothing /\ Side = "broker"
         /\ Cmd = "startBroker" => Side = "broker"
         /\ Cmd = "startRestore" => Side = "restore"
         /\ Request7 = "PUBLISH" <=> Cmd = "PUBLISH"
         /\ Cmd = "undo" => Side = "broker" /\ Marker \in Undoing
<1>1. Posed(ctl.run, ctl.at, ctl.locked, app, Gone)
  BY DEF IInv, Controls
<1>2. Request7 = "PUBLISH" <=> Cmd = "PUBLISH"
  BY DEF Request7
<1>3. CASE ctl.run = "forward"
  <2>1. ForwardText(ctl.at, Cmd)
    BY <1>3, Commands DEF IInv
  <2>2. /\ ctl.at \in {11, 14, 28, 30, 32, 39, 43, 48, 51}
        /\ Cmd \in {"startBroker", "PING", "PUBLISH", "PREPARE_COMMIT", "COMMIT"}
        /\ Cmd = "PUBLISH" => ctl.at = 28
    <3>1. Cmd \in {"startBroker", "PING", "PUBLISH", "PREPARE_COMMIT", "COMMIT"}
      <4>1. Cmd \notin {"startRestore", "RESTORE", "undo"}
        BY <2>1 DEF ForwardText
      <4>2. QED BY <4>1 DEF Requests7
    <3>2. /\ Cmd = "startBroker" => ctl.at = 11
          /\ Cmd = "PING" => ctl.at \in {14, 30, 32, 39, 43}
          /\ Cmd = "PUBLISH" => ctl.at = 28
          /\ Cmd = "PREPARE_COMMIT" => ctl.at = 48
          /\ Cmd = "COMMIT" => ctl.at = 51
      BY <2>1 DEF ForwardText
    <3>3. QED BY <3>1, <3>2
  <2>3. ctl.at + 1 \in 1..PlanLength[ctl.run]
    BY <1>3, <2>2 DEF PlanLength
  <2>4. Side = "broker"
    BY <1>3 DEF Side
  <2>5. Cmd = "PUBLISH" => app = Nothing
    BY <1>1, <1>3, <2>2 DEF Posed
  <2>6. Cmd \in Requests7 => Request7 \in Words(Side)
    BY <2>2, <2>4 DEF Request7, Words, Requests7
  <2>7. QED BY <1>2, <2>2, <2>3, <2>4, <2>5, <2>6 DEF Sides
<1>4. CASE ctl.run = "rollback"
  <2>1. RollbackText(ctl.at, Cmd)
    BY <1>4, Commands DEF IInv
  <2>2. ctl.at \in {2, 3, 11} /\ Cmd \in {"startRestore", "PING", "RESTORE"}
    <3>1. Cmd \in {"startRestore", "PING", "RESTORE"}
      <4>1. Cmd \notin {"startBroker", "PUBLISH", "PREPARE_COMMIT", "COMMIT", "undo"}
        BY <2>1 DEF RollbackText
      <4>2. QED BY <4>1 DEF Requests7
    <3>2. /\ Cmd = "startRestore" => ctl.at = 2
          /\ Cmd = "PING" => ctl.at = 3
          /\ Cmd = "RESTORE" => ctl.at = 11
      BY <2>1 DEF RollbackText
    <3>3. QED BY <3>1, <3>2
  <2>3. ctl.at + 1 \in 1..PlanLength[ctl.run]
    BY <1>4, <2>2 DEF PlanLength
  <2>4. Side = "restore"
    BY <1>4 DEF Side
  <2>5. Cmd \in Requests7 => Request7 \in Words(Side)
    BY <2>2, <2>4 DEF Request7, Words, Requests7
  <2>6. QED BY <1>2, <2>2, <2>3, <2>4, <2>5 DEF Sides
<1>5. CASE ctl.run \in {"unwind", "undoCommit"}
  <2>1. Cmd = "undo" /\ ctl.at + 1 \in 1..PlanLength[ctl.run]
    <3>1. CASE ctl.run = "unwind"
      <4>1. Cmd = "undo" /\ ctl.at = 5
        BY <3>1, Commands DEF IInv, UnwindText, Requests7
      <4>2. QED BY <3>1, <4>1 DEF PlanLength
    <3>2. CASE ctl.run = "undoCommit"
      <4>1. Cmd = "undo" /\ ctl.at = 4
        BY <3>2, Commands DEF IInv, UndoCommitText, Requests7
      <4>2. QED BY <3>2, <4>1 DEF PlanLength
    <3>3. QED BY <1>5, <3>1, <3>2
  <2>2. Side = "broker"
    BY <1>5 DEF Side
  <2>3. Request7 \in {"ROLLBACK", "ABANDON"} /\ Marker = Request7
    BY <2>1 DEF Request7, Marker
  <2>4. QED BY <1>2, <2>1, <2>2, <2>3 DEF Sides, Words, Undoing
<1>6. CASE ctl.run = "retire"
  BY <1>6, Commands DEF IInv, RetireText, Requests7
<1>7. QED BY <1>3, <1>4, <1>5, <1>6 DEF Planned

\* A client is started, with its proxy and root's half.
LEMMA StartClientStep == IInv /\ StartClient => IInv'
<1> SUFFICES ASSUME IInv, StartClient PROVE IInv'
  OBVIOUS
<1>1. /\ Cmd \in {"startBroker", "startRestore"} /\ UNCHANGED <<host, kit, intact, drv, audio>>
  BY DEF StartClient
<1>2. Running /\ ctl.run \in Planned /\ Cmd \notin Marks /\ ev[7].root
  BY <1>1, Commanding, EvidenceIs DEF IInv, Marks
<1>3. CASE verify_root_owned_v7_controller_for_restore
  <2> DEFINE c == IF Side = "broker" THEN "PREPARE" ELSE "VERIFY"
             k == [NoClient EXCEPT !.at = "open"]
             x == [NoProxy EXCEPT !.at = "await", !.want = c]
             r == [NoRoot EXCEPT !.at = "ready", !.cmd = c]
             p == Side
  <2>1. /\ cli' = [cli EXCEPT ![p] = k] /\ px' = [px EXCEPT ![p] = x] /\ rt' = [rt EXCEPT ![p] = r]
        /\ ctl' = [ctl EXCEPT !.sent = TRUE] /\ UNCHANGED <<ev, faults>>
    BY <1>3 DEF StartClient
  <2>2. p \in Sides
    BY <1>1, <1>2, RequestIs
  <2>3. /\ k \in Clients /\ k.q = <<>> /\ k.r = {}
    <3>1. <<>> \in Seq(Lines)
      OBVIOUS
    <3>2. NoClient \in Clients /\ NoClient.q = <<>> /\ NoClient.r = {}
      BY <3>1 DEF NoClient, Clients
    <3>3. QED BY <3>2 DEF Clients
  <2>4. /\ x \in ProxyStates /\ x.at = "await" /\ x.want = c /\ x.goal = "none"
    BY DEF NoProxy, ProxyStates, ProxyPlaces, Lines
  <2>5. /\ r \in RootStates /\ r.cmd = c /\ r.reply = "none"
    BY DEF NoRoot, RootStates, Lines
  <2>6. c \in Words(p) /\ c # "none" /\ c # "PUBLISH"
    BY <2>2 DEF Words, Sides
  <2> HIDE DEF c, k, x, r, p
  <2>7. Sound(p, k, x, r, Gone')
    <3>1. Queued(k.q) = {}
      BY <2>3 DEF Queued
    <3>2. Spoken(p, k, x, r)
      BY <2>4, <2>5, <2>6, <3>1 DEF Spoken
    <3>3. ~Announces(k, x, r)
      BY <2>3, <2>4, <2>5 DEF Announces, Behind, Undoing
    <3>4. QED BY <3>2, <3>3 DEF Sound
  <2>8. DriverType' /\ (Gone => Gone')
    BY <1>1, DriverStays
  <2>9. ProcessType' /\ Sides7' /\ cli'[p] = k /\ rt'[p] = r
    BY <2>1, <2>2, <2>3, <2>4, <2>5, <2>7, <2>8, OneSide, ZenonT(60)
  <2>10. Publishing(cli["broker"], rt["broker"])' => Publishing(cli["broker"], rt["broker"])
    <3>1. CASE p = "broker"
      <4>1. Queued(k.q) = {}
        BY <2>3 DEF Queued
      <4>2. QED BY <2>5, <2>6, <2>9, <3>1, <4>1 DEF Publishing
    <3>2. CASE p # "broker"
      BY <2>1, <3>2 DEF Publishing, IInv, Types, ProcessType, Sides
    <3>3. QED BY <3>1, <3>2
  <2>11. Published'
    BY <1>1, <2>10, PublishedStays DEF host
  <2>12. ctl' \in Control /\ Controls'
    BY <1>1, <2>1, ControlsSent DEF host
  <2>13. Placed' /\ ev' \in [All -> Evidence]
    BY <1>1, <1>2, <2>1, <2>8, PlacedSame DEF host, IInv, Placed
  <2>14. HostType'
    BY <1>1, <2>1 DEF IInv, Types, HostType, host
  <2>15. QED BY <2>8, <2>9, <2>11, <2>12, <2>13, <2>14, Together
<1>4. CASE ~verify_root_owned_v7_controller_for_restore
  <2>1. Fails(ctl, ev) /\ UNCHANGED <<rt, faults>>
    BY <1>4 DEF StartClient, Fail
  <2>2. Around /\ app' = app
    BY <1>1, <2>1, Unmoved DEF root
  <2>3. Consistent(ev)
    BY <1>2, <2>2, EvidenceIs
  <2>4. QED BY <1>2, <2>1, <2>2, <2>3, Ordinary, Learned
<1>5. QED BY <1>3, <1>4

\* A client that writes, reads or hangs up, for a side that goes on as it is.
LEMMA ClientStep ==
  ASSUME IInv, NEW p \in Sides, NEW k \in Clients, cli' = [cli EXCEPT ![p] = k], UNCHANGED <<px, rt>>,
         UNCHANGED <<host, drv, audio, ev, faults, kit, intact>>,
         Queued(k.q) \subseteq Queued(cli[p].q) \cup Words(p), k.r \subseteq cli[p].r,
         app = 6 => ("PUBLISH" \in Queued(k.q) => "PUBLISH" \in Queued(cli[p].q)),
         ctl' \in Control, Controls', ctl'.run = ctl.run \/ ev[7].root
  PROVE  IInv'
<1>1. /\ cli[p] \in Clients /\ px[p] \in ProxyStates /\ rt[p] \in RootStates
      /\ Sound(p, cli[p], px[p], rt[p], Gone)
      /\ px' = [px EXCEPT ![p] = px[p]] /\ rt' = [rt EXCEPT ![p] = rt[p]]
  BY SideIs
<1>2. DriverType' /\ (Gone => Gone') /\ (Gone' <=> Gone)
  BY DriverStays
<1>3. Sound(p, k, px[p], rt[p], Gone')
  <2>1. Spoken(p, k, px[p], rt[p])
    BY <1>1 DEF Sound, Spoken
  <2>2. Announces(k, px[p], rt[p]) => Announces(cli[p], px[p], rt[p])
    BY DEF Announces
  <2>3. QED BY <1>1, <1>2, <2>1, <2>2 DEF Sound
<1>4. ProcessType' /\ Sides7' /\ cli'[p] = k
  BY <1>1, <1>2, <1>3, OneSide, ZenonT(60)
<1>5. Published'
  <2>1. app' = app
    BY DEF host
  <2>2. app = 6 => (Publishing(cli["broker"], rt["broker"])' => Publishing(cli["broker"], rt["broker"]))
    <3>1. CASE p = "broker"
      BY <1>4, <3>1 DEF Publishing
    <3>2. CASE p # "broker"
      BY <3>2 DEF Publishing, IInv, Types, ProcessType, Sides
    <3>3. QED BY <3>1, <3>2
  <2>3. QED BY <2>1, <2>2, PublishedStays
<1>6. Placed' /\ ev' \in [All -> Evidence]
  BY <1>2, PlacedSame DEF host, IInv, Placed
<1>7. HostType'
  BY DEF IInv, Types, HostType, host
<1>8. QED BY <1>2, <1>4, <1>5, <1>6, <1>7, Together

\* A command is written to the proxy.
LEMMA SendStep == IInv /\ Send => IInv'
<1> SUFFICES ASSUME IInv, Send PROVE IInv'
  OBVIOUS
<1>1. Cmd \in Requests7 /\ UNCHANGED <<host, root, faults>>
  BY DEF Send
<1>2. Running /\ ctl.run \in Planned
  BY <1>1, Commanding DEF IInv, Requests7
<1>3. CASE cli[Side].at = "open" /\ px[Side].at # "off"
  <2> DEFINE p == Side
             m == Request7
             q == Append(cli[p].q, m)
             s == cli[p].r \ {Marker}
             k == [cli[p] EXCEPT !.q = q, !.r = s]
  <2>1. /\ p \in Sides /\ m \in Words(p) /\ (m = "PUBLISH" => app = Nothing)
    BY <1>1, <1>2, RequestIs
  <2>2. /\ cli' = [cli EXCEPT ![p].q = q, ![p].r = s] /\ ctl' = [ctl EXCEPT !.sent = TRUE]
        /\ UNCHANGED <<ev, px>>
    BY <1>3 DEF Send
  <2>3. cli[p] \in Clients /\ cli \in [Sides -> Clients]
    BY <2>1 DEF IInv, Types, ProcessType
  <2>4. q \in Seq(Lines) /\ Queued(q) = Queued(cli[p].q) \cup {m}
    <3>1. m \in Lines
      BY <2>1 DEF Words, Lines
    <3>2. QED BY <2>3, <3>1, Pipe DEF Clients
  <2>5. cli' = [cli EXCEPT ![p] = k]
    BY <2>1, <2>2, <2>3 DEF Clients
  <2> HIDE DEF q, m, p
  <2>6. s \subseteq Lines /\ s \subseteq cli[p].r
    BY <2>3 DEF Clients
  <2> HIDE DEF s
  <2>7. k \in Clients /\ k.q = q /\ k.r = s
    BY <2>3, <2>4, <2>6 DEF Clients
  <2> HIDE DEF k
  <2>8. ctl' \in Control /\ Controls'
    BY <1>1, <2>2, ControlsSent DEF host, root
  <2>9. ev[7].root
    BY <1>2, EvidenceIs
  <2>10. app = 6 => m # "PUBLISH"
    BY <2>1 DEF Nothing
  <2>11. Queued(k.q) \subseteq Queued(cli[p].q) \cup Words(p)
    BY <2>1, <2>4, <2>7
  <2>12. app = 6 => ("PUBLISH" \in Queued(k.q) => "PUBLISH" \in Queued(cli[p].q))
    BY <2>4, <2>7, <2>10
  <2>13. QED BY <1>1, <2>1, <2>2, <2>5, <2>6, <2>7, <2>8, <2>9, <2>11, <2>12, ClientStep DEF root
<1>4. CASE ~(cli[Side].at = "open" /\ px[Side].at # "off")
  <2>1. Fails(ctl, ev)
    BY <1>4 DEF Send, Fail
  <2>2. Around /\ app' = app
    BY <1>1, Unmoved
  <2>3. Consistent(ev)
    BY <1>2, <2>2, EvidenceIs
  <2>4. QED BY <1>2, <2>1, <2>2, <2>3, Ordinary, Learned
<1>5. QED BY <1>3, <1>4

\* The pipe is closed instead.
LEMMA ClosePipeStep == IInv /\ ClosePipe => IInv'
<1> SUFFICES ASSUME IInv, ClosePipe PROVE IInv'
  OBVIOUS
<1> DEFINE p == "broker"
           s == cli[p].r \ {Marker}
           k == [cli[p] EXCEPT !.at = "closed", !.r = s]
<1>1. /\ Cmd = "undo" /\ UNCHANGED <<host, root, ev, px, faults>>
      /\ cli' = [cli EXCEPT ![p].at = "closed", ![p].r = s] /\ ctl' = [ctl EXCEPT !.sent = TRUE]
  BY DEF ClosePipe
<1>2. Running /\ ctl.run \in Planned
  BY <1>1, Commanding DEF IInv
<1>3. p \in Sides /\ cli[p] \in Clients /\ cli \in [Sides -> Clients]
  BY DEF IInv, Types, ProcessType, Sides
<1>4. cli' = [cli EXCEPT ![p] = k]
  BY <1>1, <1>3 DEF Clients
<1> HIDE DEF p
<1>5. s \subseteq Lines /\ s \subseteq cli[p].r
  BY <1>3 DEF Clients
<1> HIDE DEF s
<1>6. k \in Clients /\ k.q = cli[p].q /\ k.r = s
  BY <1>3, <1>5 DEF Clients
<1> HIDE DEF k
<1>7. ctl' \in Control /\ Controls'
  BY <1>1, ControlsSent DEF host, root
<1>8. ev[7].root
  BY <1>2, EvidenceIs
<1>9. QED BY <1>1, <1>3, <1>4, <1>5, <1>6, <1>7, <1>8, ClientStep DEF root

\* The answer arrives, or does not.
LEMMA AnsweredStep == IInv /\ Answered7 => IInv'
<1> SUFFICES ASSUME IInv, Answered7 PROVE IInv'
  OBVIOUS
<1> DEFINE p == Side
           m == IF Cmd \in {"startBroker", "startRestore"} THEN Started ELSE Marker
           last == Cmd \in {"COMMIT", "undo", "RESTORE"}
           good == m \in cli[Side].r /\ (last => px[Side].at = "off" /\ px[Side].code = "ok")
           b == cli[p].pub \/ Cmd = "PUBLISH"
           s == cli[p].r \ {m}
           k == [cli[p] EXCEPT !.pub = b, !.r = s]
           n == ctl.at + 1
           z == IF Cmd = "RESTORE" THEN ev[7].state ELSE ctl.state
<1>1. Cmd \in Requests7 \cup {"startBroker", "startRestore"} /\ UNCHANGED <<host, root>>
  BY DEF Answered7
<1>2. Running /\ ctl.run \in Planned
  BY <1>1, Commanding DEF IInv, Requests7
<1>3. \/ /\ good /\ UNCHANGED <<ev, px, faults>>
         /\ cli' = [cli EXCEPT ![p].pub = b, ![p].r = s]
         /\ ctl' = [ctl EXCEPT !.at = n, !.sent = FALSE, !.stopped = TRUE, !.state = z]
      \/ Fails(ctl, ev) /\ (Spend \/ UNCHANGED faults)
  BY DEF Answered7, Fail
<1>4. CASE /\ good /\ UNCHANGED <<ev, px, faults>>
           /\ cli' = [cli EXCEPT ![p].pub = b, ![p].r = s]
           /\ ctl' = [ctl EXCEPT !.at = n, !.sent = FALSE, !.stopped = TRUE, !.state = z]
  <2>1. /\ p \in Sides /\ n \in 1..PlanLength[ctl.run]
        /\ Cmd = "undo" => Marker \in Undoing
    BY <1>1, <1>2, RequestIs
  <2>2. cli[p] \in Clients /\ cli \in [Sides -> Clients]
    BY <2>1 DEF IInv, Types, ProcessType
  <2>3. cli' = [cli EXCEPT ![p] = k]
    BY <1>4, <2>1, <2>2 DEF Clients
  <2>4. b \in BOOLEAN /\ s \subseteq Lines /\ s \subseteq cli[p].r
    BY <2>2 DEF Clients
  <2>5. Cmd = "undo" => Gone
    <3>1. Cmd = "undo" => Marker \in cli[p].r
      BY <1>4
    <3>2. Sound(p, cli[p], px[p], rt[p], Gone)
      BY <2>1, SideIs
    <3>3. Cmd = "undo" => Announces(cli[p], px[p], rt[p])
      BY <2>1, <3>1 DEF Announces
    <3>4. QED BY <3>2, <3>3 DEF Sound
  <2>6. z \in V7States /\ (z \in DriverRestored => Gone)
    BY <1>2, EvidenceIs DEF IInv, Types, Control, Evidence, Controls, Placed
  <2> HIDE DEF b, s, z, m
  <2>7. k \in Clients /\ k.q = cli[p].q /\ k.r = s
    BY <2>2, <2>4 DEF Clients
  <2>8. /\ ctl' \in Control /\ ctl'.run = ctl.run /\ ctl'.at = n /\ ctl'.locked = ctl.locked
        /\ ctl'.who = ctl.who /\ ctl'.why = ctl.why /\ ctl'.state = z
    <3>1. n \in Nat
      BY DEF IInv, Types, Control
    <3> HIDE DEF n
    <3>2. QED BY <1>4, <2>6, <3>1 DEF IInv, Types, Control
  <2>9. Gone' <=> Gone
    BY <1>1, DriverStays DEF root
  <2>10. Controls'
    <3>1. Cmd \in Marks => Cmd = "undo"
      BY <1>1 DEF Marks, Requests7
    <3>2. Posed(ctl.run, n, ctl.locked, app, Gone)
      BY <1>2, <2>5, <3>1, NextPose, GonePose
    <3>3. app' = app /\ proc' = proc
      BY <1>1 DEF host
    <3>4. Posed(ctl'.run, ctl'.at, ctl'.locked, app', Gone')
      BY <2>8, <2>9, <3>2, <3>3
    <3>5. QED BY <1>2, <2>1, <2>6, <2>8, <2>9, <3>3, <3>4 DEF IInv, Controls, Running
  <2> HIDE DEF k, n, p
  <2>11. QED BY <1>1, <1>4, <2>1, <2>3, <2>4, <2>7, <2>8, <2>10, ClientStep DEF root
<1>5. CASE Fails(ctl, ev) /\ (Spend \/ UNCHANGED faults)
  <2>1. Around /\ app' = app
    BY <1>1, <1>5, Unmoved
  <2>2. Consistent(ev)
    BY <1>2, <2>1, EvidenceIs
  <2>3. QED BY <1>2, <1>5, <2>1, <2>2, Ordinary, Learned
<1>6. QED BY <1>3, <1>4, <1>5

\* Every command.
LEMMA CommandStep == IInv /\ Command => IInv'
  BY SkipStep, RecordStep, ReopenStep, CheckStep, WaitStep, ObserveStep, WriteStep, MoveAppStep,
     LaunchctlStep, TryStopStep, HostLockStep, StartClientStep, SendStep, ClosePipeStep, AnsweredStep
     DEF Command

-----------------------------------------------------------------------------
(* Proxies.                                                                *)

\* The evidence after a process has opened or extended the journal.
Journaled ==
  /\ ev' \in [All -> Evidence] /\ ev'[7].kept = ev[7].kept /\ ev'[7].root = ev[7].root
  /\ ev'[7].state = ev[7].state \/ (ev[7].root /\ (ev'[7].state \in DriverRestored => Gone))

\* A step of the processes of the side p that leaves the driver alone.
LEMMA SideStep ==
  ASSUME IInv, NEW p \in Sides, NEW k \in Clients, NEW x \in ProxyStates, NEW r \in RootStates,
         cli' = [cli EXCEPT ![p] = k], px' = [px EXCEPT ![p] = x], rt' = [rt EXCEPT ![p] = r],
         UNCHANGED <<world, drv, audio>>, job' \in BOOLEAN, Spend \/ UNCHANGED faults,
         Sound(p, k, x, r, Gone), Publishing(k, r) => Publishing(cli[p], rt[p]),
         Journaled, ctl' \in Control, Controls', ctl'.run = ctl.run \/ ev[7].root
  PROVE  IInv'
<1>1. DriverType' /\ (Gone' <=> Gone) /\ (Gone => Gone')
  BY DriverStays
<1>2. Sound(p, k, x, r, Gone')
  BY <1>1 DEF Sound
<1>3. ProcessType' /\ Sides7' /\ cli'[p] = k /\ rt'[p] = r
  BY <1>1, <1>2, OneSide, ZenonT(60)
<1>4. Published'
  <2>1. Publishing(cli["broker"], rt["broker"])' => Publishing(cli["broker"], rt["broker"])
    <3>1. CASE p = "broker"
      BY <1>3, <3>1 DEF Publishing
    <3>2. CASE p # "broker"
      BY <3>2 DEF Publishing, IInv, Types, ProcessType, Sides
    <3>3. QED BY <3>1, <3>2
  <2>2. QED BY <2>1, PublishedStays DEF world
<1>5. Placed'
  <2>1. ev'[7].state \in DriverRestored => Gone'
    BY <1>1 DEF Journaled, IInv, Placed
  <2>2. app' = app /\ (proc' # Nothing => proc' = app)
    BY DEF world, IInv, Placed
  <2>3. QED BY <1>1, <2>1, <2>2, PlacedStays DEF Journaled
<1>6. HostType'
  <2>1. faults' \in 0..MaxFaults
    BY Counting DEF IInv, Types
  <2>2. QED BY <2>1 DEF IInv, Types, HostType, world
<1>7. ev' \in [All -> Evidence]
  BY DEF Journaled
<1>8. QED BY <1>1, <1>3, <1>4, <1>5, <1>6, <1>7, Together

\* One beside the controller.
LEMMA BesideStep ==
  ASSUME IInv, NEW p \in Sides, NEW k \in Clients, NEW x \in ProxyStates, NEW r \in RootStates,
         cli' = [cli EXCEPT ![p] = k], px' = [px EXCEPT ![p] = x], rt' = [rt EXCEPT ![p] = r],
         UNCHANGED <<world, ctl, drv, audio>>, job' \in BOOLEAN, Spend \/ UNCHANGED faults,
         Sound(p, k, x, r, Gone), Publishing(k, r) => Publishing(cli[p], rt[p]), Journaled
  PROVE  IInv'
<1>1. Gone => Gone'
  BY DriverStays
<1>2. ctl' \in Control /\ Controls'
  <2>1. app' = app /\ (proc' = Nothing \/ ~ctl.locked)
    BY DEF world, IInv, Controls
  <2>2. QED BY <1>1, <2>1, ControlsStay
<1>3. QED BY <1>2, SideStep

\* The journal left alone.
LEMMA JournalAlone ==
  ASSUME IInv, UNCHANGED ev PROVE Journaled
  BY DEF IInv, Types, Journaled

\* The journal opened, and extended with the intent or, behind the undoing of
\* the driver, with its success.
LEMMA JournalWritten ==
  ASSUME IInv, NEW s \in {"ROLLBACK_STARTED", "DRIVER_RESTORED"}, s = "DRIVER_RESTORED" => Gone
  PROVE  /\ ev' = [ev EXCEPT ![7] = V7Journal_open(ev[7])] => Journaled
         /\ ev[7].state # "BEGUN"
            /\ ev' = [ev EXCEPT ![7] = V7Journal_record(V7Journal_open(ev[7]), s)] => Journaled
<1> DEFINE o == V7Journal_open(ev[7])
           w == V7Journal_record(o, s)
<1>1. ev \in [All -> Evidence] /\ ev[7] \in Evidence
  BY DEF IInv, Types, All
<1>2. /\ o \in Evidence /\ o.kept = ev[7].kept /\ o.root = ev[7].root /\ o.state = ev[7].state
  BY <1>1, Opened
<1> HIDE DEF o
<1>3. w \in Evidence /\ w.kept = ev[7].kept /\ w.root = ev[7].root /\ w.state = s
  <2>1. s \in V7States
    BY Alphabet DEF DriverRestored
  <2>2. QED BY <1>2, <2>1, Appends
<1> HIDE DEF w
<1>4. ASSUME ev' = [ev EXCEPT ![7] = o] PROVE Journaled
  <2>1. ev' \in [All -> Evidence] /\ ev'[7] = o
    BY <1>1, <1>2, <1>4, Wrote
  <2>2. QED BY <1>2, <2>1 DEF Journaled
<1>5. ASSUME ev[7].state # "BEGUN", ev' = [ev EXCEPT ![7] = w] PROVE Journaled
  <2>1. ev' \in [All -> Evidence] /\ ev'[7] = w
    BY <1>1, <1>3, <1>5, Wrote
  <2>2. ev[7].root
    BY <1>5 DEF IInv, Placed
  <2>3. s \in DriverRestored => Gone
    BY DEF DriverRestored
  <2>4. QED BY <1>3, <2>1, <2>2, <2>3 DEF Journaled
<1>6. QED BY <1>4, <1>5 DEF o, w

\* A proxy that ends.
LEMMA Exits ==
  ASSUME NEW x \in ProxyStates, NEW code \in {"ok", "err"}
  PROVE  /\ Exit(x, code) \in ProxyStates /\ Exit(x, code).at = "off"
         /\ Exit(x, code).want = x.want /\ Exit(x, code).goal = x.goal
  BY DEF Exit, ProxyStates, ProxyPlaces

\* The proxy x of a side stays within its vocabulary where it does not wait, and
\* behind the undoing only if the driver is undone.
LEMMA ProxyTurns ==
  ASSUME IInv, NEW p \in Sides, NEW x \in ProxyStates, x.want = px[p].want,
         x.at \notin {"await", "loop"}, x.at \in Behind => Gone
  PROVE  Sound(p, cli[p], x, rt[p], Gone)
<1>1. Sound(p, cli[p], px[p], rt[p], Gone)
  BY SideIs
<1>2. Spoken(p, cli[p], x, rt[p])
  BY <1>1 DEF Sound, Spoken
<1>3. Announces(cli[p], x, rt[p]) => Gone
  BY <1>1 DEF Sound, Announces
<1>4. QED BY <1>2, <1>3 DEF Sound

\* A proxy acts alone.
LEMMA AloneStep ==
  ASSUME IInv, NEW p \in Sides, NEW x \in ProxyStates, px' = [px EXCEPT ![p] = x],
         x.want = px[p].want, x.at \notin {"await", "loop"}, x.at \in Behind => Gone,
         UNCHANGED <<world, ctl, drv, audio, cli, rt>>, job' \in BOOLEAN, Spend \/ UNCHANGED faults,
         Journaled
  PROVE  IInv'
<1>1. /\ cli[p] \in Clients /\ rt[p] \in RootStates
      /\ cli' = [cli EXCEPT ![p] = cli[p]] /\ rt' = [rt EXCEPT ![p] = rt[p]]
  BY SideIs
<1>2. Sound(p, cli[p], x, rt[p], Gone)
  BY ProxyTurns
<1>3. QED BY <1>1, <1>2, BesideStep

\* A proxy asks root.
LEMMA AskStep ==
  ASSUME IInv, NEW p \in Sides, NEW k \in Clients, cli' = [cli EXCEPT ![p] = k],
         Queued(k.q) \subseteq Queued(cli[p].q), k.r \subseteq cli[p].r,
         NEW x \in ProxyStates, NEW c \in Words(p), Ask(p, x, c),
         x.goal # "none" => c \in Cleaning(p), c = "PUBLISH" => "PUBLISH" \in Queued(cli[p].q),
         UNCHANGED <<world, job, ctl, drv, audio>>, Spend \/ UNCHANGED faults, Journaled
  PROVE  IInv'
<1> DEFINE y == [x EXCEPT !.at = "await", !.want = c]
           d == IF rt[p].at = "ready" THEN c ELSE "none"
           r == [rt[p] EXCEPT !.cmd = d, !.reply = "none"]
<1>1. /\ rt[p] \in RootStates /\ rt \in [Sides -> RootStates]
      /\ Sound(p, cli[p], px[p], rt[p], Gone)
  BY SideIs DEF IInv, Types, ProcessType
<1>2. px' = [px EXCEPT ![p] = y] /\ rt' = [rt EXCEPT ![p].cmd = d, ![p].reply = "none"]
  BY DEF Ask
<1>3. rt' = [rt EXCEPT ![p] = r]
  BY <1>1, <1>2 DEF RootStates
<1>4. c \in Lines /\ c # "none"
  BY DEF Words, Lines, Sides
<1>5. y \in ProxyStates /\ y.at = "await" /\ y.want = c /\ y.goal = x.goal
  BY <1>4 DEF ProxyStates, ProxyPlaces
<1>6. d \in {c, "none"}
  OBVIOUS
<1> HIDE DEF y, d
<1>7. r \in RootStates /\ r.cmd = d /\ r.reply = "none"
  BY <1>1, <1>4, <1>6 DEF RootStates
<1> HIDE DEF r
<1>8. Spoken(p, k, y, r)
  BY <1>1, <1>4, <1>5, <1>6, <1>7 DEF Sound, Spoken
<1>9. Announces(k, y, r) => Announces(cli[p], px[p], rt[p])
  BY <1>5, <1>7 DEF Announces, Behind, Undoing
<1>10. Sound(p, k, y, r, Gone)
  BY <1>1, <1>8, <1>9 DEF Sound
<1>11. Publishing(k, r) => Publishing(cli[p], rt[p])
  BY <1>6, <1>7 DEF Publishing
<1>12. job' \in BOOLEAN
  BY DEF IInv, Types, HostType
<1>13. QED BY <1>2, <1>3, <1>5, <1>7, <1>10, <1>11, <1>12, BesideStep

\* Where root's answer takes a proxy.
LEMMA AnsweredIs ==
  ASSUME IInv, NEW p \in Sides, px[p].at = "await", rt[p].reply = px[p].want
  PROVE  /\ Answered(p) \in ProxyStates /\ Answered(p).want = px[p].want
         /\ Answered(p).at # "await" /\ (Answered(p).at = "loop" => Answered(p).goal = "none")
         /\ Answered(p).at \in Behind => Gone
         /\ px[p].want \in Undoing \cup {"RESTORED"} => Gone
         /\ px[p].want \in Lines
<1> DEFINE x == px[p]
           c == x.want
           b == x.pub \/ c = "PUBLISH"
           d == x.rdy \/ c = "PREPARE_COMMIT"
           y == [x EXCEPT !.pub = b, !.rdy = d]
           u == IF y.pub THEN "bootout" ELSE "undo"
<1>1. x \in ProxyStates /\ Sound(p, cli[p], x, rt[p], Gone)
  BY SideIs
<1>2. c # "none" /\ c \in Words(p) /\ (x.goal # "none" => c \in Cleaning(p))
  BY <1>1 DEF Sound, Spoken
<1>3. c \in Undoing => Gone
  BY <1>1 DEF Sound, Announces
<1>4. y \in ProxyStates /\ y.want = c /\ y.goal = x.goal
  <2>1. b \in BOOLEAN /\ d \in BOOLEAN
    OBVIOUS
  <2> HIDE DEF b, d
  <2>2. QED BY <1>1, <2>1 DEF ProxyStates
<1>5. Answered(p) = IF x.goal = "none"
                    THEN IF c \in Terminal THEN Exit(y, "ok") ELSE [y EXCEPT !.at = "loop"]
                    ELSE CASE c \in {"COMMIT", "ABORT"} -> Exit(y, "ok")
                           [] c = "PING" /\ p = "broker" -> [y EXCEPT !.at = u]
                           [] c = "RESTORE" -> [y EXCEPT !.at = "endpoints"]
                           [] OTHER -> [y EXCEPT !.at = "finish"]
  BY DEF Answered
<1>6. u \in {"bootout", "undo"}
  OBVIOUS
<1> HIDE DEF y, u, x, c
<1>7. \/ Answered(p) = Exit(y, "ok")
      \/ x.goal = "none" /\ Answered(p) = [y EXCEPT !.at = "loop"]
      \/ \E a \in {"bootout", "undo"} : Answered(p) = [y EXCEPT !.at = a]
      \/ c \in Undoing /\ \E a \in {"endpoints", "finish"} : Answered(p) = [y EXCEPT !.at = a]
  <2>1. x.goal # "none" /\ c \notin {"COMMIT", "ABORT"} /\ ~(c = "PING" /\ p = "broker") => c \in Undoing
    BY <1>2 DEF Cleaning, Undoing
  <2>2. CASE x.goal = "none"
    BY <1>5, <2>2
  <2>3. CASE x.goal # "none" /\ c \in {"COMMIT", "ABORT"}
    BY <1>5, <2>3
  <2>4. CASE x.goal # "none" /\ c \notin {"COMMIT", "ABORT"} /\ c = "PING" /\ p = "broker"
    BY <1>5, <1>6, <2>4
  <2>5. CASE x.goal # "none" /\ c \notin {"COMMIT", "ABORT"} /\ ~(c = "PING" /\ p = "broker")
    BY <1>5, <2>1, <2>5
  <2>6. QED BY <2>2, <2>3, <2>4, <2>5
<1>8. CASE Answered(p) = Exit(y, "ok")
  <2>1. /\ Answered(p) \in ProxyStates /\ Answered(p).at = "off" /\ Answered(p).want = c
    BY <1>4, <1>8, Exits
  <2>2. QED BY <1>2, <1>3, <2>1 DEF Behind, Words, Lines, x, c
<1>9. CASE x.goal = "none" /\ Answered(p) = [y EXCEPT !.at = "loop"]
  <2>1. /\ Answered(p) \in ProxyStates /\ Answered(p).at = "loop" /\ Answered(p).want = c
        /\ Answered(p).goal = "none"
    BY <1>4, <1>9 DEF ProxyStates, ProxyPlaces
  <2>2. QED BY <1>2, <1>3, <2>1 DEF Behind, Words, Lines, x, c
<1>10. CASE \E a \in {"bootout", "undo"} : Answered(p) = [y EXCEPT !.at = a]
  <2>1. /\ Answered(p) \in ProxyStates /\ Answered(p).at \in {"bootout", "undo"} /\ Answered(p).want = c
    BY <1>4, <1>10 DEF ProxyStates, ProxyPlaces
  <2>2. QED BY <1>2, <1>3, <2>1 DEF Behind, Words, Lines, x, c
<1>11. CASE c \in Undoing /\ \E a \in {"endpoints", "finish"} : Answered(p) = [y EXCEPT !.at = a]
  <2>1. /\ Answered(p) \in ProxyStates /\ Answered(p).at \in {"endpoints", "finish"} /\ Answered(p).want = c
    BY <1>4, <1>11 DEF ProxyStates, ProxyPlaces
  <2>2. QED BY <1>2, <1>3, <1>11, <2>1 DEF Words, Lines, x, c
<1>12. QED BY <1>7, <1>8, <1>9, <1>10, <1>11

\* A line on standard output: the proxy goes on as x, or ends.
LEMMA RelayIs ==
  ASSUME IInv, NEW p \in Sides, NEW line \in Lines, NEW x, Relayed(p, line, x)
  PROVE  /\ px' = [px EXCEPT ![p] = x] \/ px' = [px EXCEPT ![p] = Exit(px[p], "err")]
         /\ \E k \in Clients : /\ cli' = [cli EXCEPT ![p] = k] /\ k.q = cli[p].q
                               /\ k.r \subseteq cli[p].r \cup {line}
<1>1. cli[p] \in Clients /\ cli \in [Sides -> Clients] /\ cli = [cli EXCEPT ![p] = cli[p]]
  BY SideIs DEF IInv, Types, ProcessType
<1>2. CASE cli' = [cli EXCEPT ![p].r = @ \cup {line}] /\ px' = [px EXCEPT ![p] = x]
  <2> DEFINE s == cli[p].r \cup {line}
             k == [cli[p] EXCEPT !.r = s]
  <2>1. cli' = [cli EXCEPT ![p] = k]
    BY <1>1, <1>2
  <2>2. s \subseteq Lines
    BY <1>1 DEF Clients
  <2> HIDE DEF s
  <2>3. k \in Clients /\ k.q = cli[p].q /\ k.r = s
    BY <1>1, <2>2 DEF Clients
  <2> HIDE DEF k
  <2>4. QED BY <1>2, <2>1, <2>3 DEF s
<1>3. CASE cli' = [cli EXCEPT ![p].at = "deaf"] /\ px' = [px EXCEPT ![p] = x]
  <2> DEFINE k == [cli[p] EXCEPT !.at = "deaf"]
  <2>1. cli' = [cli EXCEPT ![p] = k]
    BY <1>1, <1>3
  <2>2. k \in Clients /\ k.q = cli[p].q /\ k.r = cli[p].r
    BY <1>1 DEF Clients
  <2> HIDE DEF k
  <2>3. QED BY <1>3, <2>1, <2>2
<1>4. CASE cli' = cli /\ (px' = [px EXCEPT ![p] = x] \/ px' = [px EXCEPT ![p] = Exit(px[p], "err")])
  BY <1>1, <1>4
<1>5. QED BY <1>2, <1>3, <1>4 DEF Relayed

\* A proxy relays what is true.
LEMMA RelayStep ==
  ASSUME IInv, NEW p \in Sides, NEW line \in Lines, NEW x \in ProxyStates, Relayed(p, line, x),
         x.want = px[p].want, x.at # "await", x.at = "loop" => x.goal = "none",
         x.at \in Behind => Gone, line \in Undoing \cup {"RESTORED"} => Gone,
         UNCHANGED <<world, job, ev, ctl, drv, audio, rt>>, Spend \/ UNCHANGED faults
  PROVE  IInv'
<1>1. /\ rt[p] \in RootStates /\ px[p] \in ProxyStates /\ rt' = [rt EXCEPT ![p] = rt[p]]
      /\ Sound(p, cli[p], px[p], rt[p], Gone)
  BY SideIs
<1>2. PICK k \in Clients : /\ cli' = [cli EXCEPT ![p] = k] /\ k.q = cli[p].q
                           /\ k.r \subseteq cli[p].r \cup {line}
  BY RelayIs
<1>3. PICK y \in {x, Exit(px[p], "err")} : px' = [px EXCEPT ![p] = y]
  BY RelayIs
<1>4. /\ y \in ProxyStates /\ y.want = px[p].want /\ y.at # "await"
      /\ y.at = "loop" => y.goal = "none"
      /\ y.at \in Behind => Gone
  <2>1. CASE y = x
    BY <2>1
  <2>2. CASE y = Exit(px[p], "err")
    <3>1. y \in ProxyStates /\ y.at = "off" /\ y.want = px[p].want
      BY <1>1, <2>2, Exits
    <3>2. QED BY <3>1 DEF Behind
  <2>3. QED BY <1>3, <2>1, <2>2
<1>5. Spoken(p, k, y, rt[p])
  BY <1>1, <1>2, <1>4 DEF Sound, Spoken
<1>6. Announces(k, y, rt[p]) => Gone
  BY <1>1, <1>2, <1>4 DEF Sound, Announces
<1>7. Sound(p, k, y, rt[p], Gone)
  BY <1>5, <1>6 DEF Sound
<1>8. Publishing(k, rt[p]) => Publishing(cli[p], rt[p])
  BY <1>2 DEF Publishing
<1>9. job' \in BOOLEAN /\ Journaled
  BY JournalAlone DEF IInv, Types, HostType
<1>10. QED BY <1>1, <1>2, <1>3, <1>4, <1>7, <1>8, <1>9, BesideStep

\* A proxy ends.
LEMMA ExitStep ==
  ASSUME IInv, NEW p \in Sides, NEW code \in {"ok", "err"}, px' = [px EXCEPT ![p] = Exit(px[p], code)],
         UNCHANGED <<world, ctl, drv, audio, cli, rt>>, job' \in BOOLEAN, Spend \/ UNCHANGED faults,
         Journaled
  PROVE  IInv'
<1> DEFINE x == Exit(px[p], code)
<1>1. px[p] \in ProxyStates
  BY SideIs
<1>2. x \in ProxyStates /\ x.at = "off" /\ x.want = px[p].want
  BY <1>1, Exits
<1> HIDE DEF x
<1>3. px' = [px EXCEPT ![p] = x]
  BY DEF x
<1>4. x.at \notin {"await", "loop"} /\ x.at \notin Behind
  BY <1>2 DEF Behind
<1>5. QED BY <1>2, <1>3, <1>4, AloneStep

\* A proxy goes to the place a.
LEMMA PlaceStep ==
  ASSUME IInv, NEW p \in Sides, NEW a \in ProxyPlaces, px' = [px EXCEPT ![p].at = a],
         a \notin {"await", "loop"}, a \in Behind => Gone,
         UNCHANGED <<world, ctl, drv, audio, cli, rt>>, job' \in BOOLEAN, Spend \/ UNCHANGED faults,
         Journaled
  PROVE  IInv'
<1> DEFINE x == [px[p] EXCEPT !.at = a]
<1>1. px[p] \in ProxyStates
  BY SideIs
<1>2. x \in ProxyStates /\ x.at = a /\ x.want = px[p].want
  BY <1>1 DEF ProxyStates
<1>3. px' = [px EXCEPT ![p] = x]
  BY <1>1
<1> HIDE DEF x
<1>4. QED BY <1>2, <1>3, AloneStep

\* Root's answer is relayed.
LEMMA RequestStep == \A p \in Sides : IInv /\ proxy_root_request(p) => IInv'
<1> SUFFICES ASSUME NEW p \in Sides, IInv, proxy_root_request(p) PROVE IInv'
  OBVIOUS
<1>1. /\ px[p].at = "await" /\ UNCHANGED <<world, job, ev, ctl, drv, audio, rt>>
      /\ \/ rt[p].reply = px[p].want /\ Relayed(p, px[p].want, Answered(p)) /\ UNCHANGED faults
         \/ /\ px' = [px EXCEPT ![p] = Exit(px[p], "err")] /\ UNCHANGED cli
            /\ (Spend \/ UNCHANGED faults)
  BY DEF proxy_root_request
<1>2. CASE rt[p].reply = px[p].want /\ Relayed(p, px[p].want, Answered(p)) /\ UNCHANGED faults
  BY <1>1, <1>2, AnsweredIs, RelayStep
<1>3. CASE /\ px' = [px EXCEPT ![p] = Exit(px[p], "err")] /\ UNCHANGED cli
           /\ (Spend \/ UNCHANGED faults)
  <2>1. job' \in BOOLEAN /\ Journaled
    BY <1>1, JournalAlone DEF IInv, Types, HostType
  <2>2. QED BY <1>1, <1>3, <2>1, ExitStep
<1>4. QED BY <1>1, <1>2, <1>3

\* A command of the live controller.
LEMMA ServesStep == \A p \in Sides : IInv /\ ProxyServes(p) => IInv'
<1> SUFFICES ASSUME NEW p \in Sides, IInv, ProxyServes(p) PROVE IInv'
  OBVIOUS
<1> DEFINE c == Head(cli[p].q)
           x == px[p]
           t == Tail(cli[p].q)
           k == [cli[p] EXCEPT !.q = t]
<1>1. /\ x.at = "loop" /\ cli[p].q # <<>> /\ cli' = [cli EXCEPT ![p].q = t]
      /\ UNCHANGED <<world, job, ev, ctl, drv, audio, faults>>
      /\ \/ (p = "broker" \/ c = "PING") /\ Ask(p, x, c)
         \/ p = "broker" /\ Ask(p, [x EXCEPT !.goal = "reject"], "PING")
         \/ px' = [px EXCEPT ![p] = [x EXCEPT !.goal = "serve", !.at = "begin"]] /\ UNCHANGED rt
  BY DEF ProxyServes
<1>2. /\ cli[p] \in Clients /\ px[p] \in ProxyStates /\ rt[p] \in RootStates
      /\ Sound(p, cli[p], px[p], rt[p], Gone) /\ rt = [rt EXCEPT ![p] = rt[p]]
  BY SideIs
<1>3. c \in Queued(cli[p].q) /\ t \in Seq(Lines) /\ Queued(t) \subseteq Queued(cli[p].q)
  BY <1>1, <1>2, Pipe DEF Clients
<1>4. c \in Words(p) /\ x.goal = "none"
  BY <1>1, <1>2, <1>3 DEF Sound, Spoken
<1>5. cli' = [cli EXCEPT ![p] = k]
  BY <1>1 DEF IInv, Types, ProcessType
<1> HIDE DEF t, c
<1>6. k \in Clients /\ k.q = t /\ k.r = cli[p].r
  BY <1>2, <1>3 DEF Clients
<1> HIDE DEF k
<1>7. Journaled /\ job' \in BOOLEAN
  BY <1>1, JournalAlone DEF IInv, Types, HostType
<1>8. CASE Ask(p, x, c)
  <2>1. x.goal # "none" => c \in Cleaning(p)
    BY <1>4
  <2>2. c = "PUBLISH" => "PUBLISH" \in Queued(cli[p].q)
    BY <1>3
  <2>3. QED BY <1>1, <1>2, <1>3, <1>4, <1>5, <1>6, <1>7, <1>8, <2>1, <2>2, AskStep
<1>9. CASE p = "broker" /\ Ask(p, [x EXCEPT !.goal = "reject"], "PING")
  <2> DEFINE y == [x EXCEPT !.goal = "reject"]
  <2>1. y \in ProxyStates /\ y.goal = "reject"
    BY <1>2 DEF ProxyStates
  <2> HIDE DEF y
  <2>2. Ask(p, y, "PING")
    BY <1>9 DEF y
  <2>3. "PING" \in Words(p) /\ "PING" \in Cleaning(p)
    BY <1>9 DEF Words, Cleaning
  <2>4. QED BY <1>1, <1>3, <1>5, <1>6, <1>7, <2>1, <2>2, <2>3, AskStep
<1>10. CASE px' = [px EXCEPT ![p] = [x EXCEPT !.goal = "serve", !.at = "begin"]] /\ UNCHANGED rt
  <2> DEFINE y == [x EXCEPT !.goal = "serve", !.at = "begin"]
  <2>1. y \in ProxyStates /\ y.at = "begin" /\ y.want = x.want
    BY <1>2 DEF ProxyStates, ProxyPlaces
  <2> HIDE DEF y
  <2>2. px' = [px EXCEPT ![p] = y] /\ rt' = [rt EXCEPT ![p] = rt[p]]
    BY <1>2, <1>10 DEF y
  <2>3. Spoken(p, k, y, rt[p])
    BY <1>2, <1>3, <1>6, <2>1 DEF Sound, Spoken
  <2>4. Announces(k, y, rt[p]) => Announces(cli[p], x, rt[p])
    BY <1>6, <2>1 DEF Announces, Behind
  <2>5. Sound(p, k, y, rt[p], Gone)
    BY <1>2, <2>3, <2>4 DEF Sound
  <2>6. Publishing(k, rt[p]) => Publishing(cli[p], rt[p])
    BY <1>3, <1>6 DEF Publishing
  <2>7. QED BY <1>1, <1>2, <1>5, <1>6, <1>7, <2>1, <2>2, <2>5, <2>6, BesideStep
<1>11. QED BY <1>1, <1>8, <1>9, <1>10

\* The command pipe is closed.
LEMMA OrphanedStep == \A p \in Sides : IInv /\ ProxyOrphaned(p) => IInv'
<1> SUFFICES ASSUME NEW p \in Sides, IInv, ProxyOrphaned(p) PROVE IInv'
  OBVIOUS
<1> DEFINE x == [px[p] EXCEPT !.goal = "orphan", !.dead = ~ParentAlive(p)]
<1>1. /\ UNCHANGED <<world, job, ev, ctl, drv, audio, cli>> /\ (Spend \/ UNCHANGED faults)
      /\ \/ p = "restore" /\ Ask(p, x, "ABORT")
         \/ p = "broker" /\ Ask(p, x, "COMMIT")
         \/ px' = [px EXCEPT ![p] = Exit(px[p], "err")] /\ UNCHANGED rt
         \/ px' = [px EXCEPT ![p] = [x EXCEPT !.at = "begin"]] /\ UNCHANGED rt
  <2>1. /\ UNCHANGED <<world, job, ev, ctl, drv, audio, cli>> /\ (Spend \/ UNCHANGED faults)
    BY DEF ProxyOrphaned
  <2>2. \/ (p = "restore" \/ (x.pub /\ x.rdy)) /\ Ask(p, x, IF p = "broker" THEN "COMMIT" ELSE "ABORT")
        \/ px' = [px EXCEPT ![p] = Exit(px[p], "err")] /\ UNCHANGED rt
        \/ px' = [px EXCEPT ![p] = [x EXCEPT !.at = "begin"]] /\ UNCHANGED rt
    BY DEF ProxyOrphaned
  <2>3. ASSUME Ask(p, x, IF p = "broker" THEN "COMMIT" ELSE "ABORT")
        PROVE  (p = "restore" /\ Ask(p, x, "ABORT")) \/ (p = "broker" /\ Ask(p, x, "COMMIT"))
    <3>1. CASE p = "broker"
      BY <2>3, <3>1
    <3>2. CASE p = "restore"
      BY <2>3, <3>2
    <3>3. QED BY <3>1, <3>2 DEF Sides
  <2>4. QED BY <2>1, <2>2, <2>3
<1>2. /\ px[p] \in ProxyStates /\ rt[p] \in RootStates /\ cli[p] \in Clients
      /\ cli' = [cli EXCEPT ![p] = cli[p]]
  BY <1>1, SideIs
<1>3. x \in ProxyStates /\ x.goal = "orphan" /\ x.want = px[p].want
  <2> DEFINE d == ~ParentAlive(p)
  <2>1. d \in BOOLEAN
    OBVIOUS
  <2> HIDE DEF d
  <2>2. QED BY <1>2, <2>1 DEF ProxyStates
<1> HIDE DEF x
<1>4. Journaled /\ job' \in BOOLEAN
  BY <1>1, JournalAlone DEF IInv, Types, HostType
<1>5. ASSUME NEW c \in Cleaning(p) \cap Words(p), c # "PUBLISH", Ask(p, x, c) PROVE IInv'
  BY <1>1, <1>2, <1>3, <1>4, <1>5, AskStep
<1>6. CASE p = "restore" /\ Ask(p, x, "ABORT")
  <2>1. "ABORT" \in Cleaning(p) \cap Words(p)
    BY <1>6 DEF Cleaning, Words
  <2>2. QED BY <1>5, <1>6, <2>1
<1>7. CASE p = "broker" /\ Ask(p, x, "COMMIT")
  <2>1. "COMMIT" \in Cleaning(p) \cap Words(p)
    BY <1>7 DEF Cleaning, Words
  <2>2. QED BY <1>5, <1>7, <2>1
<1>8. CASE px' = [px EXCEPT ![p] = Exit(px[p], "err")] /\ UNCHANGED rt
  BY <1>1, <1>4, <1>8, ExitStep
<1>9. CASE px' = [px EXCEPT ![p] = [x EXCEPT !.at = "begin"]] /\ UNCHANGED rt
  <2> DEFINE y == [x EXCEPT !.at = "begin"]
  <2>1. y \in ProxyStates /\ y.at = "begin" /\ y.want = px[p].want
    BY <1>3 DEF ProxyStates, ProxyPlaces
  <2> HIDE DEF y
  <2>2. px' = [px EXCEPT ![p] = y]
    BY <1>9 DEF y
  <2>3. y.at \notin Behind
    BY <2>1 DEF Behind
  <2>4. QED BY <1>1, <1>4, <1>9, <2>1, <2>2, <2>3, AloneStep
<1>10. QED BY <1>1, <1>6, <1>7, <1>8, <1>9

\* The intent is journaled before the driver is touched.
LEMMA BeginStep == \A p \in Sides : IInv /\ uid_proxy_begin_driver_rollback(p) => IInv'
<1> SUFFICES ASSUME NEW p \in Sides, IInv, uid_proxy_begin_driver_rollback(p) PROVE IInv'
  OBVIOUS
<1> DEFINE Then(b) ==
             IF p = "broker" THEN Ask(p, [px[p] EXCEPT !.begun = b], "PING")
             ELSE /\ px' = [px EXCEPT ![p] = IF b = "yes" THEN [@ EXCEPT !.begun = b, !.at = "bootout"]
                                             ELSE Exit(@, "err")]
                  /\ UNCHANGED rt
<1>1. /\ UNCHANGED <<world, job, ctl, drv, audio, cli>>
      /\ \/ Then("error") /\ UNCHANGED <<ev, faults>>
         \/ /\ BeginsRollback /\ Then("yes") /\ UNCHANGED faults
            /\ ev' = [ev EXCEPT ![7] = V7Journal_record(V7Journal_open(ev[7]), "ROLLBACK_STARTED")]
         \/ ev' = [ev EXCEPT ![7] = V7Journal_open(ev[7])] /\ Spend /\ Then("error")
         \/ /\ ev' = [ev EXCEPT ![7] = V7Journal_open(ev[7])] /\ UNCHANGED faults
            /\ Then(IF ev[7].state = "ROLLBACK_STARTED" THEN "yes" ELSE "no")
  BY DEF uid_proxy_begin_driver_rollback
<1>2. BeginsRollback => ev[7].state # "BEGUN"
  BY RankOf DEF BeginsRollback, Before
<1>3. Journaled
  BY <1>1, <1>2, JournalAlone, JournalWritten
<1>4. (Spend \/ UNCHANGED faults) /\ job' \in BOOLEAN
  BY <1>1 DEF IInv, Types, HostType
<1>5. \E b \in {"yes", "no", "error"} : Then(b)
  <2> HIDE DEF Then
  <2>1. CASE Then(IF ev[7].state = "ROLLBACK_STARTED" THEN "yes" ELSE "no")
    <3>1. CASE ev[7].state = "ROLLBACK_STARTED"
      BY <2>1, <3>1
    <3>2. CASE ev[7].state # "ROLLBACK_STARTED"
      BY <2>1, <3>2
    <3>3. QED BY <3>1, <3>2
  <2>2. QED BY <1>1, <2>1
<1>6. PICK b \in {"yes", "no", "error"} : Then(b)
  BY <1>5
<1>7. px[p] \in ProxyStates /\ cli' = [cli EXCEPT ![p] = cli[p]] /\ cli[p] \in Clients
  BY <1>1, SideIs
<1>8. CASE p = "broker"
  <2> DEFINE x == [px[p] EXCEPT !.begun = b]
  <2>1. x \in ProxyStates
    BY <1>7 DEF ProxyStates
  <2>2. Ask(p, x, "PING")
    BY <1>6, <1>8
  <2> HIDE DEF x
  <2>3. "PING" \in Cleaning(p) /\ "PING" \in Words(p)
    BY <1>8 DEF Cleaning, Words
  <2> HIDE DEF Then
  <2>4. QED BY <1>1, <1>3, <1>4, <1>7, <2>1, <2>2, <2>3, AskStep
<1>9. CASE p # "broker" /\ b = "yes"
  <2> DEFINE x == [px[p] EXCEPT !.begun = b, !.at = "bootout"]
  <2>1. x \in ProxyStates /\ x.at = "bootout" /\ x.want = px[p].want
    BY <1>7, <1>9 DEF ProxyStates, ProxyPlaces
  <2>2. px' = [px EXCEPT ![p] = x] /\ UNCHANGED rt
    BY <1>6, <1>9
  <2> HIDE DEF x
  <2>3. x.at \notin Behind
    BY <2>1 DEF Behind
  <2> HIDE DEF Then
  <2>4. QED BY <1>1, <1>3, <1>4, <2>1, <2>2, <2>3, AloneStep
<1>10. CASE p # "broker" /\ b # "yes"
  <2>1. px' = [px EXCEPT ![p] = Exit(px[p], "err")] /\ UNCHANGED rt
    BY <1>6, <1>10
  <2> HIDE DEF Then
  <2>2. QED BY <1>1, <1>3, <1>4, <2>1, ExitStep
<1>11. QED BY <1>8, <1>9, <1>10

\* The host is stopped.
LEMMA StopsStep == \A p \in Sides : IInv /\ ProxyStopsHost(p) => IInv'
<1> SUFFICES ASSUME NEW p \in Sides, IInv, ProxyStopsHost(p) PROVE IInv'
  OBVIOUS
<1>1. /\ UNCHANGED <<world, ev, ctl, drv, audio, cli, rt>> /\ job' \in {job, FALSE}
      /\ (Spend \/ UNCHANGED faults)
      /\ \/ px' = [px EXCEPT ![p] = Exit(px[p], "err")]
         \/ px' = [px EXCEPT ![p].at = "drain"] \/ px' = [px EXCEPT ![p].at = "undo"]
  BY DEF ProxyStopsHost
<1>2. Journaled /\ job' \in BOOLEAN
  BY <1>1, JournalAlone DEF IInv, Types, HostType
<1>3. /\ "drain" \in ProxyPlaces /\ "undo" \in ProxyPlaces
      /\ "drain" \notin {"await", "loop"} \cup Behind /\ "undo" \notin {"await", "loop"} \cup Behind
  BY DEF ProxyPlaces, Behind
<1>4. CASE px' = [px EXCEPT ![p] = Exit(px[p], "err")]
  BY <1>1, <1>2, <1>4, ExitStep
<1>5. CASE px' = [px EXCEPT ![p].at = "drain"]
  BY <1>1, <1>2, <1>3, <1>5, PlaceStep
<1>6. CASE px' = [px EXCEPT ![p].at = "undo"]
  BY <1>1, <1>2, <1>3, <1>6, PlaceStep
<1>7. QED BY <1>1, <1>4, <1>5, <1>6

\* Root is asked to restore the driver.
LEMMA RestoresStep == \A p \in Sides : IInv /\ ProxyRestoresDriver(p) => IInv'
<1> SUFFICES ASSUME NEW p \in Sides, IInv, ProxyRestoresDriver(p) PROVE IInv'
  OBVIOUS
<1> DEFINE c == CASE p = "restore" -> "RESTORE"
                  [] p = "broker" /\ px[p].pub -> "ROLLBACK"
                  [] p = "broker" /\ ~px[p].pub -> "ABANDON"
<1>1. Ask(p, px[p], c) /\ UNCHANGED <<world, job, ev, ctl, drv, audio, cli, faults>>
  BY DEF ProxyRestoresDriver
<1>2. c \in Words(p) /\ c \in Cleaning(p) /\ c # "PUBLISH"
  <2>1. CASE p = "restore"
    <3>1. c = "RESTORE"
      BY <2>1
    <3> HIDE DEF c
    <3>2. QED BY <2>1, <3>1 DEF Words, Cleaning
  <2>2. CASE p = "broker" /\ px[p].pub
    BY <2>2 DEF Words, Cleaning
  <2>3. CASE p = "broker" /\ ~px[p].pub
    BY <2>3 DEF Words, Cleaning
  <2>4. QED BY <2>1, <2>2, <2>3 DEF Sides
<1> HIDE DEF c
<1>3. px[p] \in ProxyStates /\ cli' = [cli EXCEPT ![p] = cli[p]] /\ cli[p] \in Clients
  BY <1>1, SideIs
<1>4. Journaled
  BY <1>1, JournalAlone
<1>5. QED BY <1>1, <1>2, <1>3, <1>4, AskStep

\* What is behind the undoing says so.
LEMMA BehindGone ==
  ASSUME IInv, NEW p \in Sides, px[p].at \in Behind PROVE Gone
<1>1. Sound(p, cli[p], px[p], rt[p], Gone)
  BY SideIs
<1>2. QED BY <1>1 DEF Sound, Announces

\* The absence of the product endpoints.
LEMMA EndpointsStep == \A p \in Sides : IInv /\ verify_product_endpoints_absent(p) => IInv'
<1> SUFFICES ASSUME NEW p \in Sides, IInv, verify_product_endpoints_absent(p) PROVE IInv'
  OBVIOUS
<1>1. /\ px[p].at = "endpoints" /\ UNCHANGED <<world, job, ev, ctl, drv, audio, cli, rt>>
      /\ (Spend \/ UNCHANGED faults)
      /\ px' = [px EXCEPT ![p].at = "finish"] \/ px' = [px EXCEPT ![p] = Exit(px[p], "err")]
  BY DEF verify_product_endpoints_absent
<1>2. Gone
  BY <1>1, BehindGone DEF Behind
<1>3. Journaled /\ job' \in BOOLEAN
  BY <1>1, JournalAlone DEF IInv, Types, HostType
<1>4. CASE px' = [px EXCEPT ![p].at = "finish"]
  <2>1. "finish" \in ProxyPlaces /\ "finish" \notin {"await", "loop"}
    BY DEF ProxyPlaces
  <2>2. QED BY <1>1, <1>2, <1>3, <1>4, <2>1, PlaceStep
<1>5. CASE px' = [px EXCEPT ![p] = Exit(px[p], "err")]
  BY <1>1, <1>3, <1>5, ExitStep
<1>6. QED BY <1>1, <1>4, <1>5

\* Where a proxy goes with the driver restored.
LEMMA FinishedIs ==
  ASSUME NEW p, px[p] \in ProxyStates
  PROVE  /\ Finished(p) \in ProxyStates /\ Finished(p).at \notin {"await", "loop"}
         /\ Finished(p).want = px[p].want
<1>1. \/ \E a \in {"report", "lock"} : Finished(p) = [px[p] EXCEPT !.at = a]
      \/ Finished(p) = Exit(px[p], "err")
  BY DEF Finished
<1>2. CASE \E a \in {"report", "lock"} : Finished(p) = [px[p] EXCEPT !.at = a]
  BY <1>2 DEF ProxyStates, ProxyPlaces
<1>3. CASE Finished(p) = Exit(px[p], "err")
  BY <1>3, Exits
<1>4. QED BY <1>1, <1>2, <1>3

\* The undoing of the driver is journaled.
LEMMA FinishStep == \A p \in Sides : IInv /\ uid_proxy_finish_driver_rollback(p) => IInv'
<1> SUFFICES ASSUME NEW p \in Sides, IInv, uid_proxy_finish_driver_rollback(p) PROVE IInv'
  OBVIOUS
<1>1. /\ px[p].at = "finish" /\ UNCHANGED <<world, job, ctl, drv, audio, cli, rt>>
      /\ (Spend \/ UNCHANGED faults)
      /\ px' = [px EXCEPT ![p] = Finished(p)] \/ px' = [px EXCEPT ![p] = Exit(px[p], "err")]
      /\ \/ UNCHANGED ev
         \/ ev' = [ev EXCEPT ![7] = V7Journal_open(ev[7])]
         \/ /\ ev[7].state = "ROLLBACK_STARTED"
            /\ ev' = [ev EXCEPT ![7] = V7Journal_record(V7Journal_open(ev[7]), "DRIVER_RESTORED")]
  BY DEF uid_proxy_finish_driver_rollback
<1>2. Gone
  BY <1>1, BehindGone DEF Behind
<1>3. Journaled /\ job' \in BOOLEAN
  <2>1. Journaled
    BY <1>1, <1>2, JournalAlone, JournalWritten
  <2>2. QED BY <1>1, <2>1 DEF IInv, Types, HostType
<1>4. CASE px' = [px EXCEPT ![p] = Finished(p)]
  <2>1. px[p] \in ProxyStates
    BY SideIs
  <2>2. QED BY <1>1, <1>2, <1>3, <1>4, <2>1, FinishedIs, AloneStep
<1>5. CASE px' = [px EXCEPT ![p] = Exit(px[p], "err")]
  BY <1>1, <1>3, <1>5, ExitStep
<1>6. QED BY <1>1, <1>4, <1>5

\* The restore proxy reports it.
LEMMA ReportStep == IInv /\ ProxyReports => IInv'
<1> SUFFICES ASSUME IInv, ProxyReports PROVE IInv'
  OBVIOUS
<1> DEFINE p == "restore"
           x == Exit(px[p], "ok")
<1>1. /\ px[p].at = "report" /\ Relayed(p, "RESTORED", x) /\ p \in Sides
      /\ UNCHANGED <<world, job, ev, ctl, drv, audio, rt, faults>>
  BY DEF ProxyReports, Sides
<1> HIDE DEF p
<1>2. px[p] \in ProxyStates
  BY <1>1, SideIs
<1>3. Gone
  BY <1>1, BehindGone DEF Behind
<1>4. x \in ProxyStates /\ x.at = "off" /\ x.want = px[p].want
  BY <1>2, Exits
<1>5. "RESTORED" \in Lines
  BY DEF Lines
<1> HIDE DEF x
<1>6. QED BY <1>1, <1>3, <1>4, <1>5, RelayStep

\* The pending pointer of a dead controller is retired.
LEMMA PointerRetired ==
  ASSUME IInv, NEW e \in {ev, retire_exact_retry_v7_pending_pointer_after_parent_crash(ev)}
  PROVE  /\ e \in [All -> Evidence] /\ e[7] \in Evidence /\ e[7].kept = ev[7].kept
         /\ e[7].root = ev[7].root /\ e[7].state = ev[7].state /\ e[7].tail = ev[7].tail
<1> DEFINE r == [ev[7] EXCEPT !.ptr = IF @ = "pending" THEN "retired" ELSE @]
<1>1. ev \in [All -> Evidence] /\ ev[7] \in Evidence
  BY DEF IInv, Types, All
<1>2. r \in Evidence /\ r.kept = ev[7].kept /\ r.root = ev[7].root /\ r.state = ev[7].state
      /\ r.tail = ev[7].tail
  BY <1>1 DEF Evidence
<1>3. e = ev \/ e = [ev EXCEPT ![7] = r]
  BY DEF retire_exact_retry_v7_pending_pointer_after_parent_crash
<1> HIDE DEF r
<1>4. CASE e = ev
  BY <1>1, <1>4
<1>5. CASE e = [ev EXCEPT ![7] = r]
  <2>1. e \in [All -> Evidence] /\ e[7] = r
    BY <1>1, <1>2, <1>5, Wrote
  <2>2. QED BY <1>2, <2>1
<1>6. QED BY <1>3, <1>4, <1>5

\* The proxy of a lost controller takes over.
LEMMA CompletesStep == \A p \in Sides : IInv /\ uid_proxy_complete_host_crash_rollback(p) => IInv'
<1> SUFFICES ASSUME NEW p \in Sides, IInv, uid_proxy_complete_host_crash_rollback(p) PROVE IInv'
  OBVIOUS
<1> DEFINE e == IF ev[7].ptr = "active" THEN ev
                ELSE retire_exact_retry_v7_pending_pointer_after_parent_crash(ev)
           z == IF ev[7].ptr = "active" THEN "present" ELSE "absent"
<1>1. /\ px[p].at = "lock" /\ UNCHANGED <<world, job, drv, audio, cli, rt>>
      /\ \/ /\ ev' = [e EXCEPT ![7] = V7Journal_open(@)] /\ ev[7].state = "DRIVER_RESTORED"
            /\ ctl' = [Idled EXCEPT !.who = p, !.run = "rollback", !.why = "proxy", !.at = 1,
                                    !.state = "DRIVER_RESTORED", !.exp = z]
            /\ px' = [px EXCEPT ![p].at = "rollback"] /\ UNCHANGED faults
         \/ /\ (Spend \/ UNCHANGED faults)
            /\ px' = [px EXCEPT ![p] = Exit(px[p], "err")] /\ UNCHANGED ctl /\ ev' \in {ev, e}
  BY DEF uid_proxy_complete_host_crash_rollback
<1>2. e \in {ev, retire_exact_retry_v7_pending_pointer_after_parent_crash(ev)} /\ z \in {"present", "absent"}
  OBVIOUS
<1> HIDE DEF e, z
<1>3. /\ e \in [All -> Evidence] /\ e[7] \in Evidence /\ e[7].kept = ev[7].kept
      /\ e[7].root = ev[7].root /\ e[7].state = ev[7].state
  BY <1>2, PointerRetired
<1>4. Gone
  BY <1>1, BehindGone DEF Behind
<1>5. CASE /\ ev' = [e EXCEPT ![7] = V7Journal_open(@)] /\ ev[7].state = "DRIVER_RESTORED"
           /\ ctl' = [Idled EXCEPT !.who = p, !.run = "rollback", !.why = "proxy", !.at = 1,
                                   !.state = "DRIVER_RESTORED", !.exp = z]
           /\ px' = [px EXCEPT ![p].at = "rollback"] /\ UNCHANGED faults
  <2> DEFINE o == V7Journal_open(e[7])
             x == [px[p] EXCEPT !.at = "rollback"]
  <2>1. o \in Evidence /\ o.kept = ev[7].kept /\ o.root = ev[7].root /\ o.state = ev[7].state
    BY <1>3, Opened
  <2>2. ev' = [e EXCEPT ![7] = o]
    BY <1>5
  <2> HIDE DEF o
  <2>3. ev' \in [All -> Evidence] /\ ev'[7] = o
    BY <1>3, <2>1, <2>2, Wrote
  <2>4. Journaled
    BY <2>1, <2>3 DEF Journaled
  <2>5. ev[7].root
    BY <1>5 DEF IInv, Placed
  <2>6. /\ ctl' \in Control /\ ctl'.who = p /\ ctl'.run = "rollback" /\ ctl'.at = 1
        /\ ctl'.locked = FALSE
    <3>1. "DRIVER_RESTORED" \in V7States
      BY Alphabet DEF DriverRestored
    <3>2. ctl' = [who |-> p, run |-> "rollback", why |-> "proxy", at |-> 1, sent |-> FALSE,
                  locked |-> FALSE, stopped |-> TRUE, state |-> "DRIVER_RESTORED",
                  healthy |-> TRUE, exp |-> z]
      BY <1>5 DEF Idled
    <3>3. QED BY <1>2, <3>1, <3>2 DEF Control, Planned
  <2>7. Gone'
    BY <1>1, <1>4, DriverStays
  <2>8. Controls'
    <3>1. ctl'.who # "none"
      BY <2>6 DEF Sides
    <3>2. Posed(ctl'.run, ctl'.at, ctl'.locked, app', Gone')
      BY <2>6 DEF Posed
    <3>3. 1 \in 1..PlanLength["rollback"]
      BY DEF PlanLength
    <3>4. QED BY <2>6, <2>7, <3>1, <3>2, <3>3 DEF Controls, Running
  <2>9. /\ px[p] \in ProxyStates /\ cli[p] \in Clients /\ rt[p] \in RootStates
        /\ cli' = [cli EXCEPT ![p] = cli[p]] /\ rt' = [rt EXCEPT ![p] = rt[p]]
    BY <1>1, SideIs
  <2>10. x \in ProxyStates /\ x.at = "rollback" /\ x.want = px[p].want
    BY <2>9 DEF ProxyStates, ProxyPlaces
  <2>11. px' = [px EXCEPT ![p] = x]
    BY <1>5
  <2> HIDE DEF x
  <2>12. Sound(p, cli[p], x, rt[p], Gone)
    BY <1>4, <2>10, ProxyTurns
  <2>13. /\ job' \in BOOLEAN /\ (Spend \/ UNCHANGED faults) /\ UNCHANGED <<world, drv, audio>>
         /\ Publishing(cli[p], rt[p]) => Publishing(cli[p], rt[p])
    BY <1>1, <1>5 DEF IInv, Types, HostType
  <2>14. ctl' \in Control /\ (ctl'.run = ctl.run \/ ev[7].root)
    BY <2>5, <2>6
  <2>15. QED BY <2>4, <2>8, <2>9, <2>10, <2>11, <2>12, <2>13, <2>14, SideStep
<1>6. CASE /\ (Spend \/ UNCHANGED faults)
           /\ px' = [px EXCEPT ![p] = Exit(px[p], "err")] /\ UNCHANGED ctl /\ ev' \in {ev, e}
  <2>1. Journaled
    <3>1. ev' = ev \/ ev' = e
      BY <1>6
    <3>2. CASE ev' = ev
      BY <3>2, JournalAlone
    <3>3. CASE ev' = e
      BY <1>3, <3>3 DEF Journaled
    <3>4. QED BY <3>1, <3>2, <3>3
  <2>2. job' \in BOOLEAN
    BY <1>1 DEF IInv, Types, HostType
  <2>3. QED BY <1>1, <1>6, <2>1, <2>2, ExitStep
<1>7. QED BY <1>1, <1>5, <1>6

\* Every step of a proxy.
LEMMA ProxiesStep == IInv /\ Proxies => IInv'
<1> SUFFICES ASSUME IInv, Proxies PROVE IInv'
  OBVIOUS
<1>1. CASE verify_product_endpoints_absent("restore")
  <2>1. "restore" \in Sides
    BY DEF Sides
  <2>2. QED BY <1>1, <2>1, EndpointsStep
<1>2. CASE ProxyReports
  BY <1>2, ReportStep
<1>3. ASSUME NEW p \in Sides, uid501_driver_broker_proxy(p) PROVE IInv'
  BY <1>3, RequestStep, ServesStep, OrphanedStep, BeginStep, StopsStep, RestoresStep, FinishStep,
     CompletesStep DEF uid501_driver_broker_proxy
<1>4. QED BY <1>1, <1>2, <1>3 DEF Proxies, uid501_driver_restore_proxy

-----------------------------------------------------------------------------
(* Root.                                                                   *)

\* A step of root's half r of the side p, with an outcome o of the operation c.
LEMMA RootStep ==
  ASSUME IInv, NEW p \in Sides, NEW r \in RootStates, rt' = [rt EXCEPT ![p] = r],
         UNCHANGED <<world, job, ev, ctl, cli, px>>, faults' \in 0..MaxFaults,
         NEW c, NEW o, Turned(c, o), drv' = o.drv, audio' = o.audio,
         c = "PUBLISH" => rt["broker"].cmd = "PUBLISH",
         r.cmd \in {rt[p].cmd, "none"}, r.reply \in Undoing => rt[p].reply \in Undoing \/ Gone'
  PROVE  IInv'
<1>1. /\ cli[p] \in Clients /\ px[p] \in ProxyStates /\ Sound(p, cli[p], px[p], rt[p], Gone)
      /\ cli' = [cli EXCEPT ![p] = cli[p]] /\ px' = [px EXCEPT ![p] = px[p]]
  BY SideIs
<1>2. DriverType' /\ (Gone => Gone') /\ (audio' = "product" => drv' \in {"canonical", "failed"})
  BY DEF Turned, DriverType, Gone
<1>3. Sound(p, cli[p], px[p], r, Gone')
  <2>1. Spoken(p, cli[p], px[p], r)
    BY <1>1 DEF Sound, Spoken
  <2>2. Announces(cli[p], px[p], r) => Announces(cli[p], px[p], rt[p]) \/ Gone'
    BY DEF Announces
  <2>3. QED BY <1>1, <1>2, <2>1, <2>2 DEF Sound
<1>4. ProcessType' /\ Sides7' /\ cli'[p] = cli[p] /\ rt'[p] = r
  <2> DEFINE k == cli[p]
             x == px[p]
  <2>1. /\ k \in Clients /\ x \in ProxyStates /\ cli' = [cli EXCEPT ![p] = k]
        /\ px' = [px EXCEPT ![p] = x] /\ Sound(p, k, x, r, Gone')
    BY <1>1, <1>3
  <2> HIDE DEF k, x
  <2>2. ProcessType' /\ Sides7' /\ cli'[p] = k /\ rt'[p] = r
    BY <1>2, <2>1, OneSide, ZenonT(60)
  <2>3. QED BY <2>2 DEF k
<1>5. Publishing(cli["broker"], rt["broker"])' => Publishing(cli["broker"], rt["broker"])
  <2>1. CASE p = "broker"
    BY <1>4, <2>1 DEF Publishing
  <2>2. CASE p # "broker"
    BY <2>2 DEF Publishing, IInv, Types, ProcessType, Sides
  <2>3. QED BY <2>1, <2>2
<1>6. Published'
  <2>1. drv \in Fresh /\ ~Publishing(cli["broker"], rt["broker"]) => Gone' \/ drv' \in Fresh
    BY DEF Turned, Publishing, Gone
  <2>2. app' = app
    BY DEF world
  <2>3. QED BY <1>2, <1>5, <2>1, <2>2 DEF IInv, Published
<1>7. ctl' \in Control /\ Controls'
  <2>1. app' = app /\ (proc' = Nothing \/ ~ctl.locked)
    BY DEF world, IInv, Controls
  <2>2. QED BY <1>2, <2>1, ControlsStay
<1>8. Placed' /\ ev' \in [All -> Evidence]
  <2>1. app' = app /\ (proc' # Nothing => proc' = app)
    BY DEF world, IInv, Placed
  <2>2. QED BY <1>2, <2>1, PlacedSame
<1>9. HostType'
  BY DEF IInv, Types, HostType, world
<1>10. QED BY <1>2, <1>4, <1>6, <1>7, <1>8, <1>9, Together

\* Nothing done to the driver.
LEMMA NothingDone ==
  ASSUME IInv PROVE Turned("PING", Did(drv, audio)) /\ Did(drv, audio).drv = drv /\ Did(drv, audio).audio = audio
<1>1. Did(drv, audio) \in Operation("PING")
  BY DEF Operation
<1>2. Turned("PING", Did(drv, audio))
  BY <1>1, Operations DEF IInv, Types, Published
<1>3. QED BY <1>2 DEF Did

\* An answer that is read, or not.
LEMMA AnswerIs ==
  ASSUME IInv, NEW p \in Sides, NEW r \in RootStates, NEW at \in {"off", "ready"}
  PROVE  /\ Answer(p, r, at) \in RootStates /\ Answer(p, r, at).cmd = "none"
         /\ Answer(p, r, at).reply \in {rt[p].cmd, "none"}
<1>1. rt[p].cmd \in Lines \cup {"none"}
  BY DEF IInv, Types, ProcessType, RootStates
<1>2. CASE px[p].at = "off"
  <2>1. Answer(p, r, at) = NoRoot
    BY <1>2 DEF Answer
  <2>2. QED BY <2>1 DEF NoRoot, RootStates
<1>3. CASE px[p].at # "off"
  <2> DEFINE w == rt[p].cmd
             n == [r EXCEPT !.at = at, !.reply = w, !.cmd = "none"]
  <2>1. Answer(p, r, at) = n
    BY <1>3 DEF Answer
  <2> HIDE DEF w
  <2>2. n \in RootStates /\ n.cmd = "none" /\ n.reply = w
    BY <1>1 DEF RootStates, w
  <2>3. QED BY <2>1, <2>2 DEF w
<1>4. QED BY <1>2, <1>3

\* Root's answer to the outcome o of the command it was given.
LEMMA OutcomeIs ==
  ASSUME IInv, NEW p \in Sides, NEW o, Turned(rt[p].cmd, o), drv' = o.drv, audio' = o.audio,
         NEW r \in RootStates, r.cmd = "none",
         r.reply \in {rt[p].reply, "none"} \/ (o.ok /\ r.reply = rt[p].cmd)
  PROVE  r.reply \in Undoing => rt[p].reply \in Undoing \/ Gone'
<1>1. "none" \notin Undoing
  BY DEF Undoing
<1>2. CASE r.reply \in {rt[p].reply, "none"}
  BY <1>1, <1>2
<1>3. CASE o.ok /\ r.reply = rt[p].cmd
  <2>1. r.reply \in Undoing => o.drv \in {"failed", "abandoned"} /\ o.audio = "none"
    BY <1>3 DEF Turned
  <2>2. QED BY <2>1 DEF Gone
<1>4. QED BY <1>2, <1>3

\* One command of the update.
LEMMA BrokerStep == IInv /\ root_driver_broker => IInv'
<1> SUFFICES ASSUME IInv, root_driver_broker PROVE IInv'
  OBVIOUS
<1> DEFINE p == "broker"
           c == rt[p].cmd
           b == rt[p].pub \/ c = "PUBLISH"
           d == rt[p].rdy \/ c = "PREPARE_COMMIT"
           t == IF c \in Terminal THEN "off" ELSE "ready"
           a == IF c = "PUBLISH" THEN "cleanup" ELSE "off"
           u == [rt[p] EXCEPT !.pub = @ \/ c = "PUBLISH", !.rdy = @ \/ c = "PREPARE_COMMIT"]
           served == Answer(p, u, t)
           failed == [rt[p] EXCEPT !.cmd = "none", !.at = a]
           reject == [rt[p] EXCEPT !.at = "cleanup", !.cmd = "none"]
<1>1. UNCHANGED <<world, job, ev, ctl, cli, px>>
  BY DEF root_driver_broker
<1>2. p \in Sides /\ rt[p] \in RootStates /\ rt \in [Sides -> RootStates]
  BY DEF Sides, IInv, Types, ProcessType
<1>3. \/ \E o \in Operation(c) : /\ Takes(o)
                                 /\ rt' = [rt EXCEPT ![p] = IF o.ok THEN served ELSE failed]
      \/ rt' = [rt EXCEPT ![p] = reject] /\ UNCHANGED <<drv, audio, faults>>
  <2>1. CASE c = "PREPARE" \/ InSequence(rt[p], c)
    <3>1. \E o \in Operation(c) :
            /\ Takes(o)
            /\ rt' = [rt EXCEPT ![p] = IF o.ok THEN served ELSE failed]
      BY <2>1 DEF root_driver_broker
    <3>2. QED BY <3>1
  <2>2. CASE ~(c = "PREPARE" \/ InSequence(rt[p], c))
    <3>1. /\ rt' = [rt EXCEPT ![p].at = "cleanup", ![p].cmd = "none"]
          /\ UNCHANGED <<drv, audio, faults>>
      BY <2>2 DEF root_driver_broker
    <3>2. rt' = [rt EXCEPT ![p] = reject]
      BY <1>2, <3>1 DEF RootStates
    <3>3. QED BY <3>1, <3>2
  <2>3. QED BY <2>1, <2>2
<1>4. served \in RootStates /\ served.cmd = "none" /\ served.reply \in {c, "none"}
  <2> DEFINE r == [rt[p] EXCEPT !.pub = b, !.rdy = d]
  <2>0. u = r
    OBVIOUS
  <2>1. b \in BOOLEAN /\ d \in BOOLEAN /\ t \in {"off", "ready"}
    OBVIOUS
  <2> HIDE DEF b, d, t
  <2>2. r \in RootStates
    BY <1>2, <2>1 DEF RootStates
  <2>3. u \in RootStates
    BY <2>0, <2>2
  <2> HIDE DEF r, u
  <2>4. QED BY <1>2, <2>1, <2>3, AnswerIs
<1>5. failed \in RootStates /\ failed.cmd = "none" /\ failed.reply = rt[p].reply
  <2>1. a \in {"cleanup", "off"}
    OBVIOUS
  <2> HIDE DEF a
  <2>2. QED BY <1>2, <2>1 DEF RootStates
<1>6. reject \in RootStates /\ reject.cmd = "none" /\ reject.reply = rt[p].reply
  BY <1>2 DEF RootStates
<1> HIDE DEF served, failed, reject
<1>7. CASE rt' = [rt EXCEPT ![p] = reject] /\ UNCHANGED <<drv, audio, faults>>
  <2>1. faults' \in 0..MaxFaults
    BY <1>7 DEF IInv, Types, HostType
  <2>2. reject.reply \in Undoing => rt[p].reply \in Undoing \/ Gone'
    BY <1>6
  <2> DEFINE o == Did(drv, audio)
  <2>3. Turned("PING", o) /\ drv' = o.drv /\ audio' = o.audio
    BY <1>7, NothingDone
  <2> HIDE DEF o, p
  <2>4. QED BY <1>1, <1>2, <1>6, <1>7, <2>1, <2>2, <2>3, RootStep
<1>8. ASSUME NEW o \in Operation(c), Takes(o), rt' = [rt EXCEPT ![p] = IF o.ok THEN served ELSE failed]
      PROVE  IInv'
  <2>1. Turned(c, o)
    BY Operations DEF IInv, Types, Published
  <2>2. drv' = o.drv /\ audio' = o.audio /\ faults' \in 0..MaxFaults
    BY <1>8, Taking DEF IInv, Types
  <2> DEFINE r == IF o.ok THEN served ELSE failed
  <2>3. /\ r \in RootStates /\ r.cmd = "none"
        /\ r.reply \in {rt[p].reply, "none"} \/ (o.ok /\ r.reply = c)
    BY <1>4, <1>5
  <2>4. rt' = [rt EXCEPT ![p] = r]
    BY <1>8
  <2> HIDE DEF r
  <2>5. r.reply \in Undoing => rt[p].reply \in Undoing \/ Gone'
    BY <1>2, <2>1, <2>2, <2>3, OutcomeIs
  <2>6. c = "PUBLISH" => rt["broker"].cmd = "PUBLISH"
    OBVIOUS
  <2> HIDE DEF p, c
  <2>7. QED BY <1>1, <1>2, <2>1, <2>2, <2>3, <2>4, <2>5, <2>6, RootStep
<1>9. QED BY <1>3, <1>7, <1>8

\* One command of the restore.
LEMMA RestoreBrokerStep == IInv /\ root_driver_restore_broker => IInv'
<1> SUFFICES ASSUME IInv, root_driver_restore_broker PROVE IInv'
  OBVIOUS
<1> DEFINE p == "restore"
           c == rt[p].cmd
           t == IF c \in Terminal THEN "off" ELSE "ready"
           served == Answer(p, rt[p], t)
           failed == [rt[p] EXCEPT !.cmd = "none", !.at = "off"]
<1>1. UNCHANGED <<world, job, ev, ctl, cli, px>>
  BY DEF root_driver_restore_broker
<1>2. p \in Sides /\ rt[p] \in RootStates /\ rt \in [Sides -> RootStates]
  BY DEF Sides, IInv, Types, ProcessType
<1>3. \E o \in Operation(c) : Takes(o) /\ rt' = [rt EXCEPT ![p] = IF o.ok THEN served ELSE failed]
  BY DEF root_driver_restore_broker
<1>4. served \in RootStates /\ served.cmd = "none" /\ served.reply \in {c, "none"}
  <2>1. t \in {"off", "ready"}
    OBVIOUS
  <2> HIDE DEF t
  <2>2. QED BY <1>2, <2>1, AnswerIs
<1>5. failed \in RootStates /\ failed.cmd = "none" /\ failed.reply = rt[p].reply
  BY <1>2 DEF RootStates
<1>6. c # "PUBLISH"
  <2>1. Sound(p, cli[p], px[p], rt[p], Gone)
    BY <1>2, SideIs
  <2>2. QED BY <2>1 DEF Sound, Spoken, Words
<1> HIDE DEF served, failed
<1>7. ASSUME NEW o \in Operation(c), Takes(o), rt' = [rt EXCEPT ![p] = IF o.ok THEN served ELSE failed]
      PROVE  IInv'
  <2>1. Turned(c, o)
    BY Operations DEF IInv, Types, Published
  <2>2. drv' = o.drv /\ audio' = o.audio /\ faults' \in 0..MaxFaults
    BY <1>7, Taking DEF IInv, Types
  <2> DEFINE r == IF o.ok THEN served ELSE failed
  <2>3. /\ r \in RootStates /\ r.cmd = "none"
        /\ r.reply \in {rt[p].reply, "none"} \/ (o.ok /\ r.reply = c)
    BY <1>4, <1>5
  <2>4. rt' = [rt EXCEPT ![p] = r]
    BY <1>7
  <2> HIDE DEF r
  <2>5. r.reply \in Undoing => rt[p].reply \in Undoing \/ Gone'
    BY <1>2, <2>1, <2>2, <2>3, OutcomeIs
  <2> HIDE DEF p, c
  <2>6. QED BY <1>1, <1>2, <1>6, <2>1, <2>2, <2>3, <2>4, <2>5, RootStep
<1>8. QED BY <1>3, <1>7

\* Root loses its proxy.
LEMMA LosesStep == \A p \in Sides : IInv /\ RootLosesProxy(p) => IInv'
<1> SUFFICES ASSUME NEW p \in Sides, IInv, RootLosesProxy(p) PROVE IInv'
  OBVIOUS
<1> DEFINE a == IF p = "broker" THEN "cleanup" ELSE "off"
           r == [rt[p] EXCEPT !.at = a]
<1>1. /\ (Spend \/ UNCHANGED faults) /\ rt' = [rt EXCEPT ![p].at = a]
      /\ UNCHANGED <<world, job, ev, ctl, drv, audio, cli, px>>
  BY DEF RootLosesProxy
<1>2. rt[p] \in RootStates /\ rt \in [Sides -> RootStates]
  BY DEF IInv, Types, ProcessType
<1>3. a \in {"cleanup", "off"} /\ rt' = [rt EXCEPT ![p] = r]
  BY <1>1, <1>2
<1> HIDE DEF a
<1>4. r \in RootStates /\ r.cmd = rt[p].cmd /\ r.reply = rt[p].reply
  BY <1>2, <1>3 DEF RootStates
<1> HIDE DEF r
<1>5. faults' \in 0..MaxFaults
  BY <1>1, Counting DEF IInv, Types
<1> DEFINE o == Did(drv, audio)
<1>6. Turned("PING", o) /\ drv' = o.drv /\ audio' = o.audio
  BY <1>1, NothingDone
<1> HIDE DEF o
<1>7. QED BY <1>1, <1>3, <1>4, <1>5, <1>6, RootStep

\* Root cleans up.
LEMMA CleansUpStep == IInv /\ RootCleansUp => IInv'
<1> SUFFICES ASSUME IInv, RootCleansUp PROVE IInv'
  OBVIOUS
<1> DEFINE p == "broker"
           r == [rt[p] EXCEPT !.at = "off"]
<1>1. /\ \E o \in Operation("RESTORE") : Takes(o)
      /\ rt' = [rt EXCEPT ![p].at = "off"] /\ UNCHANGED <<world, job, ev, ctl, cli, px>>
  BY CleanupIs DEF RootCleansUp
<1>2. p \in Sides /\ rt[p] \in RootStates /\ rt \in [Sides -> RootStates]
  BY DEF Sides, IInv, Types, ProcessType
<1>3. rt' = [rt EXCEPT ![p] = r]
  BY <1>1, <1>2
<1>4. r \in RootStates /\ r.cmd = rt[p].cmd /\ r.reply = rt[p].reply
  BY <1>2 DEF RootStates
<1> HIDE DEF r, p
<1>5. PICK o \in Operation("RESTORE") : Takes(o)
  BY <1>1
<1>6. Turned("RESTORE", o) /\ drv' = o.drv /\ audio' = o.audio /\ faults' \in 0..MaxFaults
  BY <1>5, Operations, Taking DEF IInv, Types, Published
<1>7. QED BY <1>1, <1>2, <1>3, <1>4, <1>6, RootStep

\* Every step of root.
LEMMA RootSteps == IInv /\ Root => IInv'
  BY BrokerStep, RestoreBrokerStep, LosesStep, CleansUpStep DEF Root

-----------------------------------------------------------------------------
(* launchd, the host, Core Audio, deaths.                                  *)

\* The host or what is around it changes.
LEMMA HostStep ==
  ASSUME IInv, UNCHANGED <<app, ev, ctl, drv, audio, cli, px, rt>>, HostType',
         proc' = Nothing \/ (proc' = app /\ ~ctl.locked) \/ proc' = proc
  PROVE  IInv'
<1>1. DriverType' /\ (Gone => Gone')
  BY DriverStays
<1>2. ProcessType'
  BY DEF IInv, Types, ProcessType
<1>3. Sides7' /\ (Publishing(cli["broker"], rt["broker"])' <=> Publishing(cli["broker"], rt["broker"]))
  <2>1. \A p \in Sides : Quieter(p)
    BY DEF Quieter
  <2>2. QED BY <2>1, QuietSides DEF IInv, Types
<1>4. Published'
  BY <1>3, PublishedStays
<1>5. ctl' \in Control /\ Controls'
  <2>1. proc' = Nothing \/ ~ctl.locked
    BY DEF IInv, Controls
  <2>2. QED BY <1>1, <2>1, ControlsStay
<1>6. Placed' /\ ev' \in [All -> Evidence]
  <2>1. proc' # Nothing => proc' = app
    BY DEF IInv, Placed
  <2>2. QED BY <1>1, <2>1, PlacedSame
<1>7. QED BY <1>1, <1>2, <1>3, <1>4, <1>5, <1>6, Together

\* launchd starts the host, the host logs or exits, retained evidence is
\* disturbed, the repository moves.
LEMMA HostSteps ==
  IInv /\ (HostStarts \/ HostLogsMarker \/ HostExits \/ EvidenceDisturbed \/ RepositoryMoves) => IInv'
<1> SUFFICES ASSUME IInv,
                    HostStarts \/ HostLogsMarker \/ HostExits \/ EvidenceDisturbed \/ RepositoryMoves
             PROVE  IInv'
  OBVIOUS
<1>1. HostType
  BY DEF IInv, Types
<1>2. CASE HostStarts
  <2>1. HostType'
    BY <1>1, <1>2 DEF HostStarts, HostType, brokers
  <2>2. QED BY <1>2, <2>1, HostStep DEF HostStarts, brokers
<1>3. CASE HostLogsMarker
  <2>1. HostType'
    BY <1>1, <1>3 DEF HostLogsMarker, HostType, brokers
  <2>2. QED BY <1>3, <2>1, HostStep DEF HostLogsMarker, brokers
<1>4. CASE HostExits
  <2>1. faults' \in 0..MaxFaults
    BY <1>1, <1>4, Counting DEF HostExits
  <2>2. HostType'
    BY <1>1, <1>4, <2>1 DEF HostExits, HostType, brokers, Nothing
  <2>3. QED BY <1>4, <2>2, HostStep DEF HostExits, brokers
<1>5. CASE EvidenceDisturbed
  <2>1. faults' \in 0..MaxFaults
    BY <1>1, <1>5, Counting DEF EvidenceDisturbed
  <2>2. HostType'
    BY <1>1, <1>5, <2>1 DEF EvidenceDisturbed, HostType, host
  <2>3. QED BY <1>5, <2>2, HostStep DEF EvidenceDisturbed, host
<1>6. CASE RepositoryMoves
  <2>1. faults' \in 0..MaxFaults
    BY <1>1, <1>6, Counting DEF RepositoryMoves
  <2>2. HostType'
    BY <1>1, <1>6, <2>1 DEF RepositoryMoves, HostType, brokers
  <2>3. QED BY <1>6, <2>2, HostStep DEF RepositoryMoves, brokers
<1>7. QED BY <1>2, <1>3, <1>4, <1>5, <1>6

\* Core Audio restarts with what is at the canonical path.
LEMMA AudioStep == IInv /\ CoreAudioRestarts => IInv'
<1> SUFFICES ASSUME IInv, CoreAudioRestarts PROVE IInv'
  OBVIOUS
<1> DEFINE p == "restore"
           o == Did(drv, audio')
<1>1. UNCHANGED <<vars, kit, intact, drv, cli, px, rt>> /\ audio' = reload_core_audio_root(drv)
  BY DEF CoreAudioRestarts
<1>2. p \in Sides /\ rt[p] \in RootStates /\ rt' = [rt EXCEPT ![p] = rt[p]]
  BY <1>1 DEF Sides, IInv, Types, ProcessType
<1>3. Turned("PING", o)
  BY <1>1 DEF Turned, Did, reload_core_audio_root, IInv, Types, DriverType, Drivers, Gone, Fresh, Undoing
<1>4. drv' = o.drv /\ audio' = o.audio
  BY <1>1 DEF Did
<1>5. rt[p].reply \in Undoing => rt[p].reply \in Undoing \/ Gone'
  OBVIOUS
<1>6. UNCHANGED <<world, job, ev, ctl, cli, px>> /\ faults' \in 0..MaxFaults
  BY <1>1 DEF vars, world, IInv, Types, HostType
<1> HIDE DEF o, p
<1>7. QED BY <1>2, <1>3, <1>4, <1>5, <1>6, RootStep

\* A journal that may be torn, and is otherwise as it was.
LEMMA TornIs ==
  ASSUME IInv, ev' \in Torn
  PROVE  /\ ev' \in [All -> Evidence] /\ ev'[7].kept = ev[7].kept /\ ev'[7].root = ev[7].root
         /\ ev'[7].state = ev[7].state
<1>1. ev \in [All -> Evidence] /\ ev[7] \in Evidence
  BY DEF IInv, Types, All
<1>2. CASE ev' = ev
  BY <1>1, <1>2
<1>3. CASE ev' # ev
  <2> DEFINE r == [ev[7] EXCEPT !.tail = Cmd]
  <2>1. Cmd \in V7States /\ ev' = [ev EXCEPT ![7] = r]
    BY <1>1, <1>3 DEF Torn
  <2>2. /\ r \in Evidence /\ r.kept = ev[7].kept /\ r.root = ev[7].root /\ r.state = ev[7].state
    BY <1>1, <2>1 DEF Evidence
  <2> HIDE DEF r
  <2>3. ev' \in [All -> Evidence] /\ ev'[7] = r
    BY <1>1, <2>1, <2>2, Wrote
  <2>4. QED BY <2>2, <2>3
<1>4. QED BY <1>2, <1>3

\* Nobody holds the transaction lock.
LEMMA Resting == ctl' = Idled => ctl' \in Control /\ Controls' /\ ctl'.run = "none"
<1> SUFFICES ASSUME ctl' = Idled PROVE ctl' \in Control /\ Controls' /\ ctl'.run = "none"
  OBVIOUS
<1>1. /\ ctl'.run = "none" /\ ctl'.who = "none" /\ ctl'.locked = FALSE /\ ctl'.state = "BEGUN"
      /\ ctl' \in Control
  BY Alphabet DEF Idled, Control
<1>2. QED BY <1>1 DEF Controls, Running, Posed, Planned

\* A process dies, with what it holds, or leaves.
LEMMA DeathStep ==
  ASSUME IInv, UNCHANGED <<app, proc, drv, audio, rt>>, HostType', \A p \in Sides : Quieter(p),
         cli' \in [Sides -> Clients], px' \in [Sides -> ProxyStates],
         ev' \in Torn, ctl' = Idled \/ ctl' = ctl
  PROVE  IInv'
<1>1. DriverType' /\ (Gone' <=> Gone) /\ (Gone => Gone')
  BY DriverStays
<1>2. ProcessType'
  BY DEF IInv, Types, ProcessType
<1>3. Sides7' /\ (Publishing(cli["broker"], rt["broker"])' <=> Publishing(cli["broker"], rt["broker"]))
  BY QuietSides DEF IInv, Types
<1>4. Published'
  BY <1>3, PublishedStays
<1>5. ctl' \in Control /\ Controls'
  <2>1. proc' = Nothing \/ ~ctl.locked
    BY DEF IInv, Controls
  <2>2. QED BY <1>1, <2>1, ControlsStay, Resting
<1>6. Placed' /\ ev' \in [All -> Evidence]
  <2>1. /\ ev' \in [All -> Evidence] /\ ev'[7].kept = ev[7].kept /\ ev'[7].root = ev[7].root
        /\ ev'[7].state = ev[7].state
    BY TornIs
  <2>2. ctl'.run \in {"none", ctl.run}
    BY Resting
  <2>3. QED BY <1>1, <2>1, <2>2 DEF IInv, Placed, BaselineInOnePlace
<1>7. QED BY <1>1, <1>2, <1>3, <1>4, <1>5, <1>6, Together

\* The controller dies, or the proxy that took over.
LEMMA MainStep == IInv /\ MainDies => IInv'
<1> SUFFICES ASSUME IInv, MainDies PROVE IInv'
  OBVIOUS
<1>1. /\ ev' \in Torn /\ Leaves("err") /\ crashes < MaxCrashes /\ crashes' = crashes + 1
      /\ faults < MaxFaults /\ faults' = faults + 1
      /\ UNCHANGED <<app, job, proc, seen, marked, child, pairing, repo, root>>
  BY DEF MainDies, Crash, Spend
<1>2. HostType'
  BY <1>1, PairedAssumption DEF IInv, Types, HostType, root
<1>3. Left
  BY <1>1, Leaving DEF IInv, Types
<1>4. /\ cli' \in [Sides -> Clients] /\ px' \in [Sides -> ProxyStates]
      /\ \A p \in Sides : Quieter(p)
  BY <1>3, LeftQuietly DEF IInv, Types
<1>5. ctl' = Idled
  BY <1>3 DEF Left
<1>6. QED BY <1>1, <1>2, <1>4, <1>5, DeathStep DEF root

\* A proxy dies.
LEMMA ProxyStep == \A p \in Sides : IInv /\ ProxyDies(p) => IInv'
<1> SUFFICES ASSUME NEW p \in Sides, IInv, ProxyDies(p) PROVE IInv'
  OBVIOUS
<1>1. /\ px' = [px EXCEPT ![p] = Exit(px[p], "err")] /\ UNCHANGED <<ev, cli, root>>
      /\ UNCHANGED <<app, job, proc, seen, marked, child, pairing, repo>>
      /\ crashes < MaxCrashes /\ crashes' = crashes + 1 /\ (ctl' = Idled \/ ctl' = ctl)
      /\ faults < MaxFaults /\ faults' = faults + 1
  BY DEF ProxyDies, Crash, Spend
<1>2. HostType'
  BY <1>1, PairedAssumption DEF IInv, Types, HostType, root
<1>3. px \in [Sides -> ProxyStates] /\ cli \in [Sides -> Clients]
  BY DEF IInv, Types, ProcessType
<1>4. /\ Exit(px[p], "err") \in ProxyStates /\ Exit(px[p], "err").at = "off"
      /\ Exit(px[p], "err").want = px[p].want
  BY <1>3, Exits
<1>5. px' \in [Sides -> ProxyStates]
  BY <1>1, <1>3, <1>4
<1>6. ASSUME NEW s \in Sides PROVE Quieter(s)
  BY <1>1, <1>3, <1>4 DEF Quieter
<1>7. ev' \in Torn
  BY <1>1 DEF Torn
<1>8. QED BY <1>1, <1>2, <1>3, <1>5, <1>6, <1>7, DeathStep DEF root

\* The Mac restarts.
LEMMA MachineStep == IInv /\ MachineDies => IInv'
<1> SUFFICES ASSUME IInv, MachineDies PROVE IInv'
  OBVIOUS
<1>1. /\ ctl' = Idled /\ ev' \in Torn /\ proc' = Nothing /\ drv' = drv /\ app' = app
      /\ audio' = reload_core_audio_root(drv) /\ px' = [p \in Sides |-> [px[p] EXCEPT !.at = "off"]]
      /\ rt' = [p \in Sides |-> NoRoot] /\ cli' = [p \in Sides |-> NoClient]
  BY DEF MachineDies, Torn
<1>2. HostType'
  <2>1. /\ job' = TRUE /\ proc' = Nothing /\ seen' = FALSE /\ marked' = FALSE
        /\ UNCHANGED <<app, pairing, kit, intact>>
        /\ crashes < MaxCrashes /\ crashes' = crashes + 1
        /\ faults < MaxFaults /\ faults' = faults + 1
    BY DEF MachineDies, Crash, Spend
  <2>2. crashes' \in 0..MaxCrashes /\ faults' \in 0..MaxFaults
    BY <2>1, PairedAssumption DEF IInv, Types, HostType
  <2>3. QED BY <2>1, <2>2 DEF IInv, Types, HostType, Nothing
<1>3. DriverType' /\ (Gone => Gone') /\ (audio' = "product" => drv' = "canonical")
  BY <1>1 DEF IInv, Types, DriverType, Gone, reload_core_audio_root
<1>4. /\ NoClient \in Clients /\ NoClient.q = <<>> /\ NoClient.r = {}
      /\ NoRoot \in RootStates /\ NoRoot.cmd = "none" /\ NoRoot.reply = "none"
  <2>1. <<>> \in Seq(Lines)
    OBVIOUS
  <2>2. QED BY <2>1 DEF NoClient, Clients, NoRoot, RootStates
<1>5. ASSUME NEW p \in Sides
      PROVE  /\ px'[p] \in ProxyStates /\ px'[p].at = "off" /\ px'[p].want = px[p].want
             /\ cli'[p] = NoClient /\ rt'[p] = NoRoot
  <2>1. px[p] \in ProxyStates /\ px'[p] = [px[p] EXCEPT !.at = "off"]
    BY <1>1 DEF IInv, Types, ProcessType
  <2>2. QED BY <1>1, <2>1 DEF ProxyStates, ProxyPlaces
<1>6. ProcessType'
  BY <1>1, <1>4, <1>5 DEF ProcessType
<1>7. Queued(<<>>) = {}
  BY DEF Queued
<1>8. ASSUME NEW p \in Sides PROVE Sound(p, cli'[p], px'[p], rt'[p], Gone')
  <2>1. Sound(p, cli[p], px[p], rt[p], Gone)
    BY SideIs
  <2>2. Spoken(p, cli'[p], px'[p], rt'[p])
    BY <1>4, <1>5, <1>7, <2>1 DEF Sound, Spoken
  <2>3. ~Announces(cli'[p], px'[p], rt'[p])
    BY <1>4, <1>5 DEF Announces, Behind, Undoing
  <2>4. QED BY <2>2, <2>3 DEF Sound
<1>9. Sides7'
  BY <1>8 DEF Sides7
<1>10. Published'
  <2>1. ~Publishing(cli'["broker"], rt'["broker"])
    BY <1>4, <1>5, <1>7 DEF Publishing, Sides
  <2>2. QED BY <1>1, <1>3, <2>1 DEF IInv, Published
<1>11. ctl' \in Control /\ Controls' /\ ctl'.run = "none"
  BY <1>1, Resting
<1>12. Placed' /\ ev' \in [All -> Evidence]
  <2>1. /\ ev' \in [All -> Evidence] /\ ev'[7].kept = ev[7].kept /\ ev'[7].root = ev[7].root
        /\ ev'[7].state = ev[7].state
    BY <1>1, TornIs
  <2>2. QED BY <1>1, <1>3, <1>11, <2>1 DEF IInv, Placed, BaselineInOnePlace
<1>13. QED BY <1>2, <1>3, <1>6, <1>9, <1>10, <1>11, <1>12, Together

\* Everything that happens around the processes.
LEMMA EnvironmentStep == IInv /\ Environment => IInv'
  BY HostSteps, AudioStep, MainStep, MachineStep, ProxyStep DEF Environment

-----------------------------------------------------------------------------
(* Names.                                                                  *)

\* How far the root-owned controller may be installed.
LEMMA Kits ==
  {Retry4RootV3Stage[i] : i \in 1..7} =
     {"absent", "empty", "pending", "controller", "pinPrefix", "recordsPrefix", "sealed"}
<1> DEFINE K == {"absent", "empty", "pending", "controller", "pinPrefix", "recordsPrefix", "sealed"}
<1>1. /\ Retry4RootV3Stage[1] = "absent" /\ Retry4RootV3Stage[2] = "empty"
      /\ Retry4RootV3Stage[3] = "pending" /\ Retry4RootV3Stage[4] = "controller"
      /\ Retry4RootV3Stage[5] = "pinPrefix" /\ Retry4RootV3Stage[6] = "recordsPrefix"
      /\ Retry4RootV3Stage[7] = "sealed"
  BY DEF Retry4RootV3Stage
<1>2. \A i \in 1..7 : i = 1 \/ i = 2 \/ i = 3 \/ i = 4 \/ i = 5 \/ i = 6 \/ i = 7
  OBVIOUS
<1>3. \A i \in 1..7 : Retry4RootV3Stage[i] \in K
  BY <1>1, <1>2
<1>4. \A k \in K : \E i \in 1..7 : Retry4RootV3Stage[i] = k
  BY <1>1
<1>5. QED BY <1>3, <1>4

\* A journal that has begun, or asks for the rollback, restored nothing.
LEMMA NotRestored == "BEGUN" \notin DriverRestored /\ "ROLLBACK_STARTED" \notin DriverRestored
  BY DEF DriverRestored

-----------------------------------------------------------------------------
(* Entry points.                                                           *)

\* A process takes the transaction lock, or the installation goes on.
LEMMA EntryStep ==
  ASSUME IInv, UNCHANGED <<app, proc, drv, audio, cli, px, rt>>, HostType',
         ctl' \in Control, Controls', ev' \in [All -> Evidence], Placed'
  PROVE  IInv'
<1>1. DriverType'
  BY DriverStays
<1>2. ProcessType'
  BY DEF IInv, Types, ProcessType
<1>3. Sides7' /\ (Publishing(cli["broker"], rt["broker"])' <=> Publishing(cli["broker"], rt["broker"]))
  <2>1. \A p \in Sides : Quieter(p)
    BY DEF Quieter
  <2>2. QED BY <2>1, QuietSides DEF IInv, Types
<1>4. Published'
  BY <1>3, PublishedStays
<1>5. QED BY <1>1, <1>2, <1>3, <1>4, Together

\* The update begins.
LEMMA BeginsStep == IInv /\ Begin => IInv'
<1> SUFFICES ASSUME IInv, Begin PROVE IInv'
  OBVIOUS
<1>1. /\ ctl' = [Idled EXCEPT !.who = "main", !.run = "install"] /\ seen' = TRUE /\ ~Running
      /\ UNCHANGED <<app, job, proc, marked, child, pairing, repo, ev, crashes, faults>>
      /\ UNCHANGED <<kit, intact, drv, audio, cli, px, rt>>
  BY DEF Begin, brokers
<1>2. /\ ctl' \in Control /\ ctl'.who = "main" /\ ctl'.run = "install" /\ ctl'.locked = FALSE
      /\ ctl'.state = "BEGUN"
  BY <1>1, Alphabet DEF Idled, Control
<1>3. Controls'
  BY <1>2, NotRestored DEF Controls, Running, Posed, Planned
<1>4. HostType'
  BY <1>1 DEF IInv, Types, HostType
<1>5. ev' \in [All -> Evidence]
  BY <1>1 DEF IInv, Types
<1>6. Placed'
  <2>1. Gone' <=> Gone
    BY <1>1 DEF Gone
  <2>2. QED BY <1>1, <1>2, <2>1 DEF IInv, Placed, BaselineInOnePlace
<1>7. QED BY <1>1, <1>2, <1>3, <1>4, <1>5, <1>6, EntryStep

\* A new evidence directory.
LEMMA FreshIs ==
  /\ NoEvidence \in Evidence /\ NoEvidence.kept = Nothing /\ NoEvidence.state = "BEGUN"
  /\ ~NoEvidence.root
  /\ FreshEvidence \in Evidence /\ FreshEvidence.kept = Nothing /\ FreshEvidence.state = "BEGUN"
  /\ FreshEvidence.root /\ FreshEvidence.tail = "clean"
<1>1. "BEGUN" \in V7States /\ -1 \in -1..8
  BY Alphabet
<1>2. /\ NoEvidence \in Evidence /\ NoEvidence.kept = Nothing /\ NoEvidence.state = "BEGUN"
      /\ ~NoEvidence.root /\ NoEvidence.tail = "clean"
  BY <1>1 DEF NoEvidence, Evidence, Nothing
<1>3. QED BY <1>2 DEF FreshEvidence, Evidence

\* The root-owned controller and the evidence directory are created.
LEMMA InstallStep == IInv /\ Install => IInv'
<1> SUFFICES ASSUME IInv, Install PROVE IInv'
  OBVIOUS
<1>1. /\ ctl.who = "main" /\ ctl.run = "install"
      /\ UNCHANGED <<app, job, proc, seen, marked, child, pairing, repo, crashes, intact, drv, audio, rt>>
  BY DEF Install
<1>2. CASE kit # "sealed"
  <2>1. kit' = bootstrap_root_owned_v7_controller_for_prepare /\ UNCHANGED <<ctl, ev, cli, px, faults>>
    BY <1>2 DEF Install
  <2>2. kit' \in {Retry4RootV3Stage[i] : i \in 1..7}
    <3>1. {Retry4RootV3Stage[i] : i \in 1..7} =
            {"absent", "empty", "pending", "controller", "pinPrefix", "recordsPrefix", "sealed"}
      BY Kits
    <3>2. kit \in {"absent", "empty", "pending", "controller", "pinPrefix", "recordsPrefix"}
      BY <1>2, <3>1 DEF IInv, Types, HostType
    <3>3. kit' \in {"empty", "pending", "controller", "pinPrefix", "recordsPrefix", "sealed"}
      BY <2>1, <3>2 DEF bootstrap_root_owned_v7_controller_for_prepare,
         bootstrap_root_controller_identity, publish_root_controller
    <3>4. QED BY <3>1, <3>3
  <2>3. HostType'
    BY <1>1, <2>1, <2>2 DEF IInv, Types, HostType
  <2>4. ctl' \in Control /\ Controls'
    <3>1. proc' = Nothing \/ ~ctl.locked
      BY <1>1 DEF IInv, Controls
    <3>2. QED BY <1>1, <2>1, <3>1, DriverStays, ControlsStay
  <2>5. Placed' /\ ev' \in [All -> Evidence]
    BY <1>1, <2>1, DriverStays, PlacedSame DEF IInv, Placed
  <2>6. QED BY <1>1, <2>1, <2>3, <2>4, <2>5, EntryStep
<1>3. CASE /\ kit = "sealed" /\ require_v7_retry_admission_ready
           /\ ev' = [ev EXCEPT ![7] = FreshEvidence]
           /\ ctl' = [ctl EXCEPT !.run = "forward", !.at = 1] /\ UNCHANGED <<kit, cli, px, faults>>
  <2>1. ~ev[7].root
    BY <1>3 DEF require_v7_retry_admission_ready
  <2>2. app = 6
    BY <2>1 DEF IInv, Placed
  <2>3. ev' \in [All -> Evidence] /\ ev'[7] = FreshEvidence
    BY <1>3, FreshIs, Wrote DEF IInv, Types
  <2>4. /\ ctl' \in Control /\ ctl'.run = "forward" /\ ctl'.at = 1 /\ ctl'.locked = ctl.locked
        /\ ctl'.who = ctl.who /\ ctl'.state = ctl.state
    BY <1>3 DEF IInv, Types, Control, Planned
  <2>5. Gone' <=> Gone
    BY <1>1 DEF Gone
  <2>6. Controls'
    <3>1. Posed(ctl'.run, ctl'.at, ctl'.locked, app', Gone')
      BY <1>1, <2>2, <2>4 DEF Posed
    <3>2. 1 \in 1..PlanLength["forward"]
      BY DEF PlanLength
    <3>3. QED BY <1>1, <2>4, <2>5, <3>1, <3>2 DEF IInv, Controls, Running
  <2>7. HostType'
    BY <1>1, <1>3 DEF IInv, Types, HostType
  <2>8. Placed'
    BY <1>1, <2>2, <2>3, <2>5, FreshIs, NotRestored DEF IInv, Placed, BaselineInOnePlace, Nothing
  <2>9. QED BY <1>1, <1>3, <2>3, <2>4, <2>6, <2>7, <2>8, EntryStep
<1>4. CASE kit' = kit /\ (Spend \/ UNCHANGED faults) /\ UNCHANGED ev /\ Leaves("err")
  <2>1. Left
    BY <1>4, Leaving DEF IInv, Types
  <2>2. faults' \in 0..MaxFaults
    BY <1>4, Counting DEF IInv, Types
  <2>3. HostType'
    BY <1>1, <1>4, <2>2 DEF IInv, Types, HostType
  <2>4. /\ cli' \in [Sides -> Clients] /\ px' \in [Sides -> ProxyStates]
        /\ \A p \in Sides : Quieter(p)
    BY <2>1, LeftQuietly DEF IInv, Types
  <2>5. ev' \in Torn
    BY <1>4 DEF Torn
  <2>6. ctl' = Idled
    BY <2>1 DEF Left
  <2>7. QED BY <1>1, <2>3, <2>4, <2>5, <2>6, DeathStep
<1>5. \/ kit # "sealed"
      \/ /\ kit = "sealed" /\ require_v7_retry_admission_ready
         /\ ev' = [ev EXCEPT ![7] = FreshEvidence]
         /\ ctl' = [ctl EXCEPT !.run = "forward", !.at = 1] /\ UNCHANGED <<kit, cli, px, faults>>
      \/ kit' = kit /\ (Spend \/ UNCHANGED faults) /\ UNCHANGED ev /\ Leaves("err")
  BY DEF Install
<1>6. QED BY <1>2, <1>3, <1>4, <1>5

\* The operator asks for the rollback.
LEMMA RequestedStep == IInv /\ Request => IInv'
<1> SUFFICES ASSUME IInv, Request PROVE IInv'
  OBVIOUS
<1> DEFINE s == ev[7].state
           r == IF s = "ROLLED_BACK" THEN "retire" ELSE "rollback"
           o == V7Journal_open(ev[7])
<1>1. /\ rollback_existing_paired_v7_update /\ ev' = [ev EXCEPT ![7] = o] /\ seen' = FALSE
      /\ ctl' = [Idled EXCEPT !.who = "main", !.why = "explicit", !.at = 1, !.exp = "present",
                              !.state = s, !.run = r]
      /\ UNCHANGED <<app, job, proc, marked, child, pairing, repo, crashes, faults>>
      /\ UNCHANGED <<kit, intact, drv, audio, cli, px, rt>>
  BY DEF Request, brokers
<1>2. ev[7].root
  BY <1>1 DEF rollback_existing_paired_v7_update, require_current_retry_v7_layout
<1>3. ev \in [All -> Evidence] /\ ev[7] \in Evidence
  BY DEF IInv, Types, All
<1>4. /\ o \in Evidence /\ o.kept = ev[7].kept /\ o.root = ev[7].root /\ o.state = ev[7].state
  BY <1>3, Opened
<1> HIDE DEF o
<1>5. ev' \in [All -> Evidence] /\ ev'[7] = o
  BY <1>1, <1>3, <1>4, Wrote
<1>6. s \in V7States /\ r \in {"rollback", "retire"}
  BY <1>3 DEF Evidence
<1>7. Gone' <=> Gone
  BY <1>1 DEF Gone
<1>8. s \in DriverRestored => Gone'
  BY <1>7 DEF IInv, Placed
<1> HIDE DEF s, r
<1>9. /\ ctl' \in Control /\ ctl'.run = r /\ ctl'.at = 1 /\ ctl'.locked = FALSE
      /\ ctl'.who = "main" /\ ctl'.state = s /\ ctl'.why = "explicit"
  BY <1>1, <1>6 DEF Idled, Control, Planned
<1>10. Controls'
  <2>1. Posed(ctl'.run, ctl'.at, ctl'.locked, app', Gone')
    BY <1>6, <1>9 DEF Posed
  <2>2. 1 \in 1..PlanLength[r]
    BY <1>6 DEF PlanLength
  <2>3. QED BY <1>6, <1>8, <1>9, <2>1, <2>2 DEF Controls, Running
<1>11. HostType'
  BY <1>1 DEF IInv, Types, HostType
<1>12. Placed'
  BY <1>1, <1>2, <1>4, <1>5, <1>7 DEF IInv, Placed, BaselineInOnePlace
<1>13. QED BY <1>1, <1>5, <1>9, <1>10, <1>11, <1>12, EntryStep

-----------------------------------------------------------------------------
(* The invariant.                                                          *)

\* The initial evidence.
LEMMA InitialEvidence ==
  ASSUME ev = [u \in All |-> IF u <= 6 THEN CommittedEvidence(u) ELSE NoEvidence]
  PROVE  ev \in [All -> Evidence] /\ ev[7] = NoEvidence
<1>1. ASSUME NEW u \in All, u <= 6 PROVE CommittedEvidence(u) \in Evidence
  <2> DEFINE k == u - 1
  <2>1. k \in -1..8
    BY DEF All
  <2> HIDE DEF k
  <2>2. ASSUME NEW e \in Evidence, NEW t \in V7States
        PROVE  [e EXCEPT !.state = t, !.ptr = "active", !.stage = "reference"] \in Evidence
    BY DEF Evidence
  <2>3. ASSUME NEW e \in Evidence
        PROVE  [e EXCEPT !.kept = k, !.reserve = "released", !.result = "success"] \in Evidence
    <3> DEFINE d == [e EXCEPT !.kept = k]
               f == [d EXCEPT !.reserve = "released"]
    <3>1. d \in Evidence
      BY <2>1 DEF Evidence
    <3> HIDE DEF d
    <3>2. f \in Evidence
      BY <3>1 DEF Evidence
    <3> HIDE DEF f
    <3>3. [f EXCEPT !.result = "success"] \in Evidence
      BY <3>2 DEF Evidence
    <3>4. QED BY <3>3 DEF d, f
  <2> DEFINE f == [FreshEvidence EXCEPT !.state = "COMMITTED", !.ptr = "active", !.stage = "reference"]
  <2>4. f \in Evidence
    BY <2>2, FreshIs, Alphabet
  <2>5. CommittedEvidence(u) = [f EXCEPT !.kept = k, !.reserve = "released", !.result = "success"]
    BY FreshIs DEF CommittedEvidence, k, Evidence
  <2> HIDE DEF f
  <2>6. QED BY <2>3, <2>4, <2>5
<1>2. QED BY <1>1, FreshIs DEF All

\* Initially.
LEMMA InitStep == Init => IInv
<1> SUFFICES ASSUME Init PROVE IInv
  OBVIOUS
<1>1. ev \in [All -> Evidence] /\ ev[7] = NoEvidence
  BY InitialEvidence DEF Init
<1>2. HostType
  <2>1. kit \in {Retry4RootV3Stage[i] : i \in 1..7}
    BY Kits DEF Init
  <2>2. 0 \in 0..MaxCrashes /\ 0 \in 0..MaxFaults
    BY PairedAssumption
  <2>3. /\ app = 6 /\ proc = 6 /\ job = TRUE /\ seen = FALSE /\ marked = TRUE /\ pairing = TRUE
        /\ intact = Retentions /\ crashes = 0 /\ faults = 0
    BY DEF Init
  <2>4. QED BY <2>1, <2>2, <2>3 DEF HostType
<1>3. DriverType /\ drv = "staged" /\ audio = "none"
  BY DEF Init, DriverType, Drivers
<1>4. /\ NoClient \in Clients /\ NoClient.q = <<>> /\ NoClient.r = {}
      /\ NoRoot \in RootStates /\ NoRoot.cmd = "none" /\ NoRoot.reply = "none"
      /\ NoProxy \in ProxyStates /\ NoProxy.at = "off" /\ NoProxy.want = "none"
  <2>1. <<>> \in Seq(Lines)
    OBVIOUS
  <2>2. QED BY <2>1 DEF NoClient, Clients, NoRoot, RootStates, NoProxy, ProxyStates, ProxyPlaces
<1>5. \A p \in Sides : cli[p] = NoClient /\ px[p] = NoProxy /\ rt[p] = NoRoot
  BY DEF Init
<1>6. ProcessType
  BY <1>4 DEF Init, ProcessType
<1>7. Queued(<<>>) = {}
  BY DEF Queued
<1>8. ASSUME NEW p \in Sides PROVE Sound(p, cli[p], px[p], rt[p], Gone)
  <2>1. Spoken(p, NoClient, NoProxy, NoRoot)
    BY <1>4, <1>7 DEF Spoken
  <2>2. ~Announces(NoClient, NoProxy, NoRoot)
    BY <1>4 DEF Announces, Behind, Undoing
  <2>3. QED BY <1>5, <2>1, <2>2 DEF Sound
<1>9. Published
  BY <1>3, <1>4, <1>5, <1>7 DEF Published, Publishing, Fresh, Sides
<1>10. ctl \in Control /\ Controls
  <2>1. /\ ctl.run = "none" /\ ctl.who = "none" /\ ctl.locked = FALSE /\ ctl.state = "BEGUN"
        /\ ctl \in Control
    BY Alphabet DEF Init, Idled, Control
  <2>2. QED BY <2>1 DEF Controls, Running, Posed, Planned
<1>11. Placed
  <2>1. app = 6 /\ proc = 6 /\ ctl.run = "none"
    BY DEF Init, Idled
  <2>2. QED BY <1>1, <2>1, FreshIs, NotRestored DEF Placed, BaselineInOnePlace, Nothing
<1>12. QED BY <1>1, <1>2, <1>3, <1>6, <1>8, <1>9, <1>10, <1>11 DEF IInv, Types, Sides7

\* Every step.
LEMMA NextStep == IInv /\ [Next]_allVars => IInv'
<1> SUFFICES ASSUME IInv, [Next]_allVars PROVE IInv'
  OBVIOUS
<1>1. CASE UNCHANGED allVars
  <2>1. UNCHANGED <<app, ev, ctl, drv, audio, cli, px, rt>> /\ proc' = proc
    BY <1>1 DEF allVars, vars, brokers
  <2>2. HostType'
    BY <1>1 DEF allVars, vars, brokers, IInv, Types, HostType
  <2>3. QED BY <2>1, <2>2, HostStep
<1>2. CASE Next
  BY <1>2, BeginsStep, InstallStep, RequestedStep, CommandStep, ProxiesStep, RootSteps, EnvironmentStep
     DEF Next
<1>3. QED BY <1>1, <1>2

\* The inductive invariant, from which the theorems below follow.
LEMMA Invariance == Spec => []IInv
<1>1. Init => IInv
  BY InitStep
<1>2. IInv /\ [Next]_allVars => IInv'
  BY NextStep
<1>3. QED BY <1>1, <1>2, PTL DEF Spec

-----------------------------------------------------------------------------
(* What follows.                                                           *)

\* The state keeps its types, for every choice of the constants.
THEOREM TypeInvariance == Spec => []TypeOK
<1>1. IInv => TypeOK
  <2> SUFFICES ASSUME IInv PROVE TypeOK
    OBVIOUS
  <2>1. ev[7] \in Evidence
    BY DEF IInv, Types, All
  <2>2. /\ app \in {-1, 6, 7} /\ proc \in {-1, 6, 7} /\ {job, seen, marked, pairing} \subseteq BOOLEAN
        /\ intact \subseteq Retentions /\ kit \in {Retry4RootV3Stage[i] : i \in 1..7}
        /\ crashes \in 0..MaxCrashes /\ faults \in 0..MaxFaults
    BY DEF IInv, Types, HostType
  <2>3. /\ ev[7].state \in V7States /\ ev[7].tail \in V7States \cup {"clean", "corrupt"}
        /\ ev[7].ptr \in {"none", "pending", "active", "retired"}
    BY <2>1 DEF Evidence
  <2>4. /\ drv \in {"staged", "partial", "hold", "canonical", "failed", "abandoned"}
        /\ audio \in {"none", "product"}
    BY DEF IInv, Types, DriverType, Drivers
  <2>5. ctl.who \in Sides \cup {"none", "main"} /\ ctl.state \in V7States
    BY DEF IInv, Types, Control
  <2>6. ASSUME NEW p \in Sides
        PROVE  /\ cli[p].at \in {"none", "open", "closed", "dropped", "deaf", "gone"}
               /\ cli[p].q \in Seq(Lines) /\ cli[p].r \subseteq Lines
               /\ px[p].at \in {"off", "await", "loop", "begin", "bootout", "drain", "undo",
                                "endpoints", "finish", "report", "lock", "rollback"}
               /\ rt[p].at \in {"off", "ready", "cleanup"}
    BY SideIs DEF Clients, ProxyStates, ProxyPlaces, RootStates
  <2>7. QED BY <2>2, <2>3, <2>4, <2>5, <2>6 DEF TypeOK
<1>2. QED BY <1>1, Invariance, PTL

\* The previous host runs only without the product driver, and a journal that
\* says DRIVER_RESTORED, or anything behind it, is true: whichever of the
\* controller, the proxies and root die, are late, or fail, and how often.
THEOREM Restoration == Spec => []RollbackRestoresDriver
<1>1. IInv => RollbackRestoresDriver
  <2> SUFFICES ASSUME IInv PROVE RollbackRestoresDriver
    OBVIOUS
  <2>1. RestoredMeansRestored
    BY DEF IInv, Placed, RestoredMeansRestored, Gone
  <2>2. OldHostOldDriver
    <3> SUFFICES ASSUME proc = 6 PROVE audio = "none"
      BY DEF OldHostOldDriver
    <3>1. app = 6
      BY DEF IInv, Placed, Nothing
    <3>2. Gone \/ drv \in Fresh
      BY <3>1 DEF IInv, Published
    <3>3. CASE Gone
      BY <3>3 DEF Gone
    <3>4. CASE drv \in Fresh
      BY <3>4 DEF IInv, Published, Types, DriverType, Fresh
    <3>5. QED BY <3>2, <3>3, <3>4
  <2>3. QED BY <2>1, <2>2 DEF RollbackRestoresDriver
<1>2. QED BY <1>1, Invariance, PTL

\* The previous host is in exactly one place, installed or held, whatever
\* becomes of the processes that move it.
THEOREM OnePlace == Spec => []BaselineInOnePlace
<1>1. IInv => BaselineInOnePlace
  BY DEF IInv, Placed
<1>2. QED BY <1>1, Invariance, PTL

-----------------------------------------------------------------------------
(* Nothing is moved under a running host.                                  *)

\* Only the controller moves the app, and only under the host's lock.
LEMMA AppMoves == IInv /\ [Next]_allVars /\ app' # app => ctl.locked /\ proc = Nothing
<1> SUFFICES ASSUME IInv, [Next]_allVars, app' # app PROVE ctl.locked /\ proc = Nothing
  OBVIOUS
<1>1. Next
  BY DEF allVars, vars
<1>2. ~Begin /\ ~Install /\ ~Request
  BY DEF Begin, Install, Request
<1>3. ~Environment
  BY DEF Environment, HostStarts, HostLogsMarker, HostExits, CoreAudioRestarts, EvidenceDisturbed,
     RepositoryMoves, MainDies, MachineDies, ProxyDies, vars, host
<1>4. ~Root
  BY DEF Root, root_driver_broker, root_driver_restore_broker, RootCleansUp, RootLosesProxy, world
<1>5. ~Proxies
  <2>1. ~uid501_driver_restore_proxy
    BY DEF uid501_driver_restore_proxy, verify_product_endpoints_absent, ProxyReports, world
  <2>2. ASSUME NEW p \in Sides PROVE ~uid501_driver_broker_proxy(p)
    <3>1. ~proxy_root_request(p) /\ ~ProxyServes(p) /\ ~ProxyOrphaned(p)
      BY DEF proxy_root_request, ProxyServes, ProxyOrphaned, world
    <3>2. ~uid_proxy_begin_driver_rollback(p) /\ ~ProxyStopsHost(p) /\ ~ProxyRestoresDriver(p)
      BY DEF uid_proxy_begin_driver_rollback, ProxyStopsHost, ProxyRestoresDriver, world
    <3>3. ~uid_proxy_finish_driver_rollback(p) /\ ~uid_proxy_complete_host_crash_rollback(p)
      BY DEF uid_proxy_finish_driver_rollback, uid_proxy_complete_host_crash_rollback, world
    <3>4. QED BY <3>1, <3>2, <3>3 DEF uid501_driver_broker_proxy
  <2>3. QED BY <2>1, <2>2 DEF Proxies
<1>6. MoveApp
  <2>1. Command
    BY <1>1, <1>2, <1>3, <1>4, <1>5 DEF Next
  <2>2. ~Skip /\ ~Record /\ ~Reopen /\ ~Check /\ ~Wait /\ ~Write /\ ~HostLock /\ ~StartClient /\ ~Send
        /\ ~ClosePipe /\ ~Answered7
    BY DEF Skip, Record, Reopen, Check, Wait, Write, HostLock, StartClient, Send, ClosePipe, Answered7, host
  <2>3. ~Observe /\ ~Launchctl /\ ~TryStop
    BY DEF Observe, Launchctl, TryStop
  <2>4. QED BY <2>1, <2>2, <2>3 DEF Command
<1>7. Cmd \in {"holdCurrent", "publishNew", "archiveNew", "restoreCurrent"}
  BY <1>6 DEF MoveApp
<1>8. QED BY <1>7, MovesAt DEF IInv, Controls

\* Root moves the published driver only while no host runs.
LEMMA DriverMoves ==
  IInv /\ [Next]_allVars /\ drv # drv' /\ "canonical" \in {drv, drv'} => proc = Nothing
<1> SUFFICES ASSUME IInv, [Next]_allVars, drv # drv', "canonical" \in {drv, drv'} PROVE proc = Nothing
  OBVIOUS
<1>1. Next
  BY DEF allVars, brokers
<1>2. ~Begin /\ ~Install /\ ~Request
  BY DEF Begin, Install, Request, brokers
<1>3. ~Environment
  BY DEF Environment, HostStarts, HostLogsMarker, HostExits, CoreAudioRestarts, EvidenceDisturbed,
     RepositoryMoves, MainDies, MachineDies, ProxyDies, brokers, root
<1>4. ~Command
  BY DEF Command, Skip, Record, Reopen, Check, Wait, Observe, Write, MoveApp, Launchctl, TryStop,
     HostLock, StartClient, Send, ClosePipe, Answered7, root
<1>5. ~Proxies
  <2>1. ~uid501_driver_restore_proxy
    BY DEF uid501_driver_restore_proxy, verify_product_endpoints_absent, ProxyReports
  <2>2. ASSUME NEW p \in Sides PROVE ~uid501_driver_broker_proxy(p)
    <3>1. ~proxy_root_request(p) /\ ~ProxyServes(p) /\ ~ProxyOrphaned(p)
      BY DEF proxy_root_request, ProxyServes, ProxyOrphaned
    <3>2. ~uid_proxy_begin_driver_rollback(p) /\ ~ProxyStopsHost(p) /\ ~ProxyRestoresDriver(p)
      BY DEF uid_proxy_begin_driver_rollback, ProxyStopsHost, ProxyRestoresDriver
    <3>3. ~uid_proxy_finish_driver_rollback(p) /\ ~uid_proxy_complete_host_crash_rollback(p)
      BY DEF uid_proxy_finish_driver_rollback, uid_proxy_complete_host_crash_rollback
    <3>4. QED BY <3>1, <3>2, <3>3 DEF uid501_driver_broker_proxy
  <2>3. QED BY <2>1, <2>2 DEF Proxies
<1>6. \E c : \E o \in Operation(c) : Takes(o)
  <2>1. Root
    BY <1>1, <1>2, <1>3, <1>4, <1>5 DEF Next
  <2>2. ~(\E p \in Sides : RootLosesProxy(p))
    BY DEF RootLosesProxy
  <2>3. CASE root_driver_broker
    BY <2>3 DEF root_driver_broker
  <2>4. CASE root_driver_restore_broker
    BY <2>4 DEF root_driver_restore_broker
  <2>5. CASE RootCleansUp
    BY <2>5, CleanupIs DEF RootCleansUp
  <2>6. QED BY <2>1, <2>2, <2>3, <2>4, <2>5 DEF Root
<1>7. PICK c : \E o \in Operation(c) : Takes(o)
  BY <1>6
<1>8. PICK o \in Operation(c) : Takes(o)
  BY <1>7
<1>9. Turned(c, o) /\ drv' = o.drv
  BY <1>8, Operations, Taking DEF IInv, Types, Published
<1>10. QED BY <1>9 DEF Turned

\* Neither the host's app nor the published driver is exchanged under a running
\* host, by whichever process.
THEOREM HostlessMoves == Spec => MovesHostless
<1>1. IInv /\ [Next]_allVars => [app' # app => ctl.locked /\ proc = Nothing]_allVars
  BY AppMoves
<1>2. IInv /\ [Next]_allVars => [drv # drv' /\ "canonical" \in {drv, drv'} => proc = Nothing]_allVars
  BY DriverMoves
<1>3. Spec => MovesUnderLock
  BY <1>1, Invariance, PTL DEF Spec, MovesUnderLock
<1>4. Spec => DriverMovesHostless
  BY <1>2, Invariance, PTL DEF Spec, DriverMovesHostless
<1>5. QED BY <1>3, <1>4 DEF MovesHostless
=============================================================================
