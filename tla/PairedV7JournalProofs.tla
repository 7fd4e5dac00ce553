----------------------- MODULE PairedV7JournalProofs -----------------------
(***************************************************************************)
(* The journal of PairedV7Update: two processes append to it without a     *)
(* common lock.  A durable COMMITTED has to keep the new driver though     *)
(* proxies and root go on beside a controller that has died, and no        *)
(* schedule may leave records behind that the next controller refuses.     *)
(*                                                                         *)
(* It rests on who may write when.  A proxy writes only once it has been   *)
(* left to itself, which a controller that keeps its deadlines does on     *)
(* purpose (Penned).  The update therefore has one command on its way at a *)
(* time and finds broker and root at rest when it commits (Lined, Poised); *)
(* what is left running after the commit then keeps to it (Committed).  A  *)
(* controller that goes back knows the journal, or is behind it by a       *)
(* single DRIVER_RESTORED while it has nothing to append (Viewed).          *)
(***************************************************************************)
EXTENDS PairedV7Proofs

(* The update alone has the pen.                                           *)

\* A broker proxy that serves, or that rejects a command: it writes nothing.
Meek(x) == x.goal \in {"none", "reject"} /\ x.at \notin {"begin", "lock", "rollback"} /\ x.begun = "no"

\* The client k holds its proxy x.
Held(k, x) == x.at = "off" \/ (k.at = "open" /\ Meek(x))

\* The proxy x and root's half r of a side that has not been started.
Unused(x, r) == x.at = "off" /\ r.at = "off"

\* What the update knows of the journal at its command number at.
Kept(c, r) ==
  /\ c.healthy /\ c.stopped /\ r.tail = "clean" /\ c.state = r.state
  /\ c.at <= 16 => Before(c.state, "STOP_INITIATED")
  /\ c.at <= 50 => Before(c.state, "COMMITTED")
  /\ 46 < c.at /\ c.at <= 50 => c.state = "READY_VERIFIED"

\* Only the update and the rollback of a controller write to the journal.
Penned ==
  /\ ~ev[7].root => \A p \in Sides : cli[p] = NoClient /\ Unused(px[p], rt[p])
  /\ ctl.run = "install" => ctl.state = "BEGUN" /\ ctl.healthy /\ ctl.stopped
  /\ ctl.run \in {"forward", "unwind", "undoCommit"} => Unused(px["restore"], rt["restore"])
  /\ ctl.run = "forward" /\ ctl.at <= 50 => Kept(ctl, ev[7]) /\ Held(cli["broker"], px["broker"])
  /\ ctl.run = "forward" /\ ctl.at > 50 => ctl.state = "COMMITTED" /\ ev[7].state = "COMMITTED"

(* The commit.                                                             *)

\* Broker and root are at rest with a verified driver.
Poised(k, x, r) ==
  /\ k.q = <<>> /\ x.at = "loop" /\ x.pub /\ x.rdy
  /\ r.at = "ready" /\ r.cmd = "none" /\ r.pub /\ r.rdy /\ drv = "canonical"

\* The marker that the update waits for.
Awaiting == IF Cmd = "startBroker" THEN "PREPARE" ELSE Cmd

\* One command at a time is on its way.
InLine(k, x) ==
  \/ x.at = "loop" /\ k.q = <<>>
  \/ ctl.sent /\ x.at = "loop" /\ k.q = <<Awaiting>> /\ Awaiting \notin k.r
  \/ ctl.sent /\ x.at = "await" /\ x.want = Awaiting /\ k.q = <<>> /\ Awaiting \notin k.r

\* Root has verified the driver for the commit.
Verified(x, r) ==
  x.at # "off" /\ r.reply = "PREPARE_COMMIT" =>
    r.at = "ready" /\ r.cmd = "none" /\ r.pub /\ r.rdy /\ drv = "canonical"

\* A broker proxy that waits for PREPARE_COMMIT has published the driver.
Preparing == px["broker"].at = "await" /\ px["broker"].want = "PREPARE_COMMIT" => px["broker"].pub

\* The update has one command on its way, or none.
LinedUp ==
  /\ px["broker"].at # "off" /\ px["broker"].goal = "none" => InLine(cli["broker"], px["broker"])
  /\ Verified(px["broker"], rt["broker"])
  /\ "PREPARE_COMMIT" \in cli["broker"].r =>
       ctl.at = 48 /\ ctl.sent /\ Poised(cli["broker"], px["broker"], rt["broker"])
  /\ ctl.at > 48 => Poised(cli["broker"], px["broker"], rt["broker"])

\* The commands of an update are in line until it has committed.
Lined == Preparing /\ (ctl.run = "forward" /\ ctl.at <= 50 => LinedUp)

\* The broker keeps the committed driver.
Keeping(k, x, r) ==
  \/ r.at = "off"
  \/ /\ r.at = "ready" /\ r.pub /\ r.rdy
     /\ \/ r.cmd = "COMMIT" /\ (x.at = "off" \/ (x.at = "await" /\ x.want = "COMMIT"))
        \/ r.cmd = "none" /\ x.at = "loop" /\ x.pub /\ x.rdy /\ Queued(k.q) \subseteq {"COMMIT"}

\* A restore that has not been asked for anything.
Restful(k, x, r) ==
  /\ r.at = "off" \/ r.cmd # "RESTORE"
  /\ x.at \in {"off", "await", "loop"} /\ (x.at = "await" => x.want # "RESTORE")
  /\ x.at # "off" => Queued(k.q) \subseteq {"PING"}

\* What the controllers' plans may be at with a durable COMMITTED.
Settled7(c, committed) ==
  /\ c.run # "rollback" \/ committed => c.who \in {"none", "main"}
  /\ c.run \in {"unwind", "retire"} => ~committed
  /\ c.run = "undoCommit" => IF c.healthy THEN ~committed ELSE c.at = 1 /\ c.state = "READY_VERIFIED"
  /\ c.run = "rollback" => IF c.healthy THEN committed => c.state = "COMMITTED" /\ c.at <= 4 ELSE c.at = 1

\* The new host is in its place, its driver in use, and nobody is to undo them.
Durable ==
  /\ drv = "canonical" /\ app = 7
  /\ Keeping(cli["broker"], px["broker"], rt["broker"])
  /\ Restful(cli["restore"], px["restore"], rt["restore"])

\* Nobody undoes what is durably committed.
Committed ==
  /\ Settled7(ctl, ev[7].state = "COMMITTED")
  /\ ev[7].state = "COMMITTED" => ev[7].tail \in {"clean", "ROLLBACK_STARTED"} /\ Durable

\* The inductive invariant of the commit.
KInv == IInv /\ Penned /\ Lined /\ Committed

-----------------------------------------------------------------------------
(* The journal stays readable.                                             *)

\* A proxy put down that the driver was restored, and the controller c has not
\* read it yet in the journal r.
Unread(c, r) == c.state = "ROLLBACK_STARTED" /\ r.state = "DRIVER_RESTORED"

\* The intent is journaled, or the transaction stopped before it mattered.
Intended(s) == s = "ROLLBACK_STARTED" \/ Before(s, "STOP_INITIATED")

\* A restore side, of the client k and the proxy x, that may only be pinged.
Waiting(k, x) ==
  x.at = "off" \/ (k.at = "open" /\ Queued(k.q) \subseteq {"PING"} /\ x.at \in {"await", "loop"} /\ x.goal = "none")

\* What an unwinding controller c, with its broker's client k and proxy x,
\* knows of the journal r.
Unwinding(c, r, k, x) ==
  /\ c.at = 1 => Before(r.state, "COMMITTED")
  /\ c.at = 2 => Before(c.state, "COMMITTED")
  /\ c.at > 2 => Intended(c.state) \/ (c.at > 6 /\ c.state = "DRIVER_RESTORED")
  /\ c.at <= 5 => Held(k, x) \/ (c.at = 5 /\ c.sent)
  /\ c.at > 5 => x.at = "off"
  /\ c.at > 1 =>
       /\ c.healthy /\ r.tail = "clean"
       /\ c.state = r.state \/ (c.at \in {5, 6} /\ Unread(c, r))

\* The same of one that undoes its commit.
Uncommitting(c, r, k, x) ==
  /\ c.stopped /\ r.tail = "clean" /\ c.state = r.state
  /\ c.at = 1 => c.state = "READY_VERIFIED"
  /\ c.at > 1 => c.state = "ROLLBACK_STARTED"
  /\ c.at <= 4 => Held(k, x)
  /\ c.at > 4 => x.at = "off"

\* The same of one that rolls back, with the broker's proxy x and the restore
\* broker's client k and proxy y.
Reverting(c, r, x, k, y) ==
  /\ r.tail = "clean" /\ (c.state = r.state \/ Unread(c, r))
  /\ c.state \notin DriverRestored \cup {"ROLLBACK_STARTED"} =>
       c.why = "explicit" /\ c.at <= 4 /\ x.at = "off" /\ Waiting(k, y)

\* What every controller that may write knows of the journal.
Viewed ==
  /\ ctl.run = "unwind" => Unwinding(ctl, ev[7], cli["broker"], px["broker"])
  /\ ctl.run = "undoCommit" /\ ctl.healthy => Uncommitting(ctl, ev[7], cli["broker"], px["broker"])
  /\ ctl.run = "rollback" /\ ctl.healthy =>
       Reverting(ctl, ev[7], px["broker"], cli["restore"], px["restore"])

\* The journal parses, and its writers know where they are in it: the inductive
\* invariant of the rollback.
Legible == Penned /\ Viewed /\ parse_v7_journal

-----------------------------------------------------------------------------
(* Which record may follow which.                                          *)

\* Ranks and states.
LEMMA Ranks ==
  /\ \A i \in 1..21 : V7State[i] \in V7States /\ V7Rank(V7State[i]) = i
  /\ \A s \in V7States : V7Rank(s) \in 1..21 /\ V7State[V7Rank(s)] = s
<1>1. ASSUME NEW i \in 1..21 PROVE V7State[i] \in V7States /\ V7Rank(V7State[i]) = i
  <2>1. V7State[i] \in V7States
    BY Alphabet DEF V7States
  <2>2. \A j \in 1..21 : V7State[j] = V7State[i] => j = i
    BY DEF V7State
  <2>3. QED BY <2>1, <2>2, Alphabet DEF V7Rank
<1>2. ASSUME NEW s \in V7States PROVE V7Rank(s) \in 1..21 /\ V7State[V7Rank(s)] = s
  <2>1. \E i \in 1..21 : V7State[i] = s
    BY Alphabet DEF V7States
  <2>2. QED BY <1>1, <2>1
<1>3. QED BY <1>1, <1>2

\* A step of the part of the alphabet from a to b goes to the next rank.
NextRank(a, b, p, n) ==
  <<p, n>> \in Steps(SubSeq(V7State, a, b)) <=>
    a <= V7Rank(p) /\ V7Rank(p) < b /\ V7Rank(n) = V7Rank(p) + 1

\* The steps of a part of the alphabet lead from each rank to the next.
LEMMA PartSteps ==
  ASSUME NEW a \in 1..21, NEW b \in 1..21, a <= b, NEW p \in V7States, NEW n \in V7States
  PROVE  NextRank(a, b, p, n)
<1> DEFINE q == SubSeq(V7State, a, b)
<1>1. V7State \in Seq(V7States) /\ Len(V7State) = 21
  <2>1. V7State = [i \in 1..21 |-> V7State[i]]
    BY DEF V7State
  <2>2. \A i \in 1..21 : V7State[i] \in V7States
    BY Ranks
  <2>3. ASSUME NEW s, s = [i \in 1..21 |-> s[i]], \A i \in 1..21 : s[i] \in V7States
        PROVE  s \in Seq(V7States) /\ Len(s) = 21
    BY <2>3
  <2>4. QED BY <2>1, <2>2, <2>3
<1>2. Len(q) = b - a + 1 /\ \A i \in 1..(b - a + 1) : q[i] = V7State[a + i - 1]
  BY <1>1
<1> HIDE DEF q
<1>3. ASSUME NEW i \in 1..(Len(q) - 1), p = q[i], n = q[i + 1]
      PROVE  a <= V7Rank(p) /\ V7Rank(p) < b /\ V7Rank(n) = V7Rank(p) + 1
  <2>1. p = V7State[a + i - 1] /\ n = V7State[a + i] /\ a + i - 1 \in 1..21 /\ a + i \in 1..21
    BY <1>2, <1>3
  <2>2. V7Rank(p) = a + i - 1 /\ V7Rank(n) = a + i
    BY <2>1, Ranks
  <2>3. QED BY <1>2, <2>2
<1>4. ASSUME a <= V7Rank(p), V7Rank(p) < b, V7Rank(n) = V7Rank(p) + 1
      PROVE  \E i \in 1..(Len(q) - 1) : p = q[i] /\ n = q[i + 1]
  <2> DEFINE i == V7Rank(p) - a + 1
  <2>1. V7Rank(p) \in 1..21 /\ V7State[V7Rank(p)] = p /\ V7State[V7Rank(n)] = n
    BY Ranks
  <2>2. i \in 1..(b - a) /\ i + 1 \in 1..(b - a + 1) /\ a + i - 1 = V7Rank(p) /\ a + (i + 1) - 1 = V7Rank(n)
    BY <1>4, <2>1
  <2>3. q[i] = p /\ q[i + 1] = n
    <3>1. q[i] = V7State[a + i - 1] /\ q[i + 1] = V7State[a + (i + 1) - 1]
      BY <1>2, <2>2
    <3>2. QED BY <2>1, <2>2, <3>1
  <2>4. 1..(Len(q) - 1) = 1..(b - a)
    <3>1. Len(q) = b - a + 1
      BY <1>2
    <3>2. a \in Int /\ b \in Int
      OBVIOUS
    <3>3. (b - a + 1) - 1 = b - a
      BY <3>2
    <3>4. QED BY <3>1, <3>3
  <2>5. QED BY <2>2, <2>3, <2>4
<1>5. <<p, n>> \in Steps(q) <=> \E i \in 1..(Len(q) - 1) : p = q[i] /\ n = q[i + 1]
  BY DEF Steps
<1>6. QED BY <1>3, <1>4, <1>5 DEF q, NextRank

\* What may follow, by rank.
LEMMA Following ==
  ASSUME NEW p \in V7States, NEW n \in V7States
  PROVE  validate_v7_transition(p, n) <=>
           \/ V7Rank(p) < 14 /\ V7Rank(n) = V7Rank(p) + 1
           \/ n = "ROLLBACK_STARTED" /\ (V7Rank(p) \in 6..14 \/ p = "CRITICAL_FAILURE")
           \/ 15 <= V7Rank(p) /\ V7Rank(p) < 20 /\ V7Rank(n) = V7Rank(p) + 1
           \/ p = "DRIVER_RESTORED" /\ n \in {"CURRENT_RESTORED", "ROLLED_BACK"}
           \/ n = "CRITICAL_FAILURE" /\ V7Rank(p) \in 15..19
<1>1. <<p, n>> \in Steps(SubSeq(V7State, 1, V7Rank("COMMITTED"))) <=>
        V7Rank(p) < 14 /\ V7Rank(n) = V7Rank(p) + 1
  <2>1. <<p, n>> \in Steps(SubSeq(V7State, 1, 14)) <=>
          1 <= V7Rank(p) /\ V7Rank(p) < 14 /\ V7Rank(n) = V7Rank(p) + 1
    <3> DEFINE a == 1
               b == 14
    <3>1. a \in 1..21 /\ b \in 1..21 /\ a <= b
      OBVIOUS
    <3> HIDE DEF a, b
    <3>2. NextRank(a, b, p, n)
      BY <3>1, PartSteps
    <3>3. QED BY <3>2 DEF a, b, NextRank
  <2>2. QED BY <2>1, RankOf, Ranks
<1>2. <<p, n>> \in Steps(SubSeq(V7State, V7Rank("ROLLBACK_STARTED"), V7Rank("ROLLED_BACK"))) <=>
        15 <= V7Rank(p) /\ V7Rank(p) < 20 /\ V7Rank(n) = V7Rank(p) + 1
  <2>1. <<p, n>> \in Steps(SubSeq(V7State, 15, 20)) <=>
          15 <= V7Rank(p) /\ V7Rank(p) < 20 /\ V7Rank(n) = V7Rank(p) + 1
    <3> DEFINE a == 15
               b == 20
    <3>1. a \in 1..21 /\ b \in 1..21 /\ a <= b
      OBVIOUS
    <3> HIDE DEF a, b
    <3>2. NextRank(a, b, p, n)
      BY <3>1, PartSteps
    <3>3. QED BY <3>2 DEF a, b, NextRank
  <2>2. QED BY <2>1, RankOf
<1>3. ~Before(p, "STOP_INITIATED") /\ ~Before("COMMITTED", p) <=> V7Rank(p) \in 6..14
  BY RankOf, Ranks DEF Before
<1>4. ~Before(p, "ROLLBACK_STARTED") /\ Before(p, "ROLLED_BACK") <=> V7Rank(p) \in 15..19
  BY RankOf, Ranks DEF Before
<1>5. QED BY <1>1, <1>2, <1>3, <1>4 DEF validate_v7_transition

\* A state is known by its rank.
LEMMA OneRank ==
  ASSUME NEW s \in V7States, NEW t \in V7States, V7Rank(s) = V7Rank(t) PROVE s = t
  BY Ranks

\* The transitions the proofs look at.
LEMMA Transitions ==
  ASSUME NEW p \in V7States
  PROVE  /\ \A n \in V7States \ (DriverRestored \cup {"ROLLBACK_STARTED", "CRITICAL_FAILURE"}) :
              validate_v7_transition(p, n) => V7Rank(p) < 14 /\ V7Rank(n) = V7Rank(p) + 1
         /\ validate_v7_transition(p, "ROLLBACK_STARTED") <=> V7Rank(p) \in 6..14 \/ p = "CRITICAL_FAILURE"
         /\ validate_v7_transition(p, "CRITICAL_FAILURE") => V7Rank(p) \in 15..19
         /\ validate_v7_transition(p, "DRIVER_RESTORED") <=> p = "ROLLBACK_STARTED"
         /\ \A n \in DriverRestored \ {"DRIVER_RESTORED"} :
              validate_v7_transition(p, n) => p \in DriverRestored
         /\ p \in {"ROLLBACK_STARTED", "DRIVER_RESTORED"} => validate_v7_transition(p, "CRITICAL_FAILURE")
<1>1. /\ "ROLLBACK_STARTED" \in V7States /\ "CRITICAL_FAILURE" \in V7States
      /\ DriverRestored \subseteq V7States /\ "COMMITTED" \in V7States
      /\ DriverRestored = {"DRIVER_RESTORED", "FAILED_NEW_ARCHIVED", "CURRENT_RESTORED",
                           "CURRENT_BOOTSTRAPPED", "ROLLED_BACK"}
  BY Alphabet DEF DriverRestored
<1>2. ASSUME NEW n \in V7States
      PROVE  /\ V7Rank(n) = 15 <=> n = "ROLLBACK_STARTED"
             /\ V7Rank(n) = 16 <=> n = "DRIVER_RESTORED"
             /\ V7Rank(n) = 21 <=> n = "CRITICAL_FAILURE"
             /\ V7Rank(n) \in 16..20 <=> n \in DriverRestored
  <2>1. V7Rank(n) \in 1..21
    BY Ranks
  <2>2. \A t \in V7States : V7Rank(n) = V7Rank(t) <=> n = t
    BY OneRank
  <2>3. /\ V7Rank(n) = 15 <=> n = "ROLLBACK_STARTED"
        /\ V7Rank(n) = 16 <=> n = "DRIVER_RESTORED"
        /\ V7Rank(n) = 17 <=> n = "FAILED_NEW_ARCHIVED"
        /\ V7Rank(n) = 18 <=> n = "CURRENT_RESTORED"
        /\ V7Rank(n) = 19 <=> n = "CURRENT_BOOTSTRAPPED"
        /\ V7Rank(n) = 20 <=> n = "ROLLED_BACK"
        /\ V7Rank(n) = 21 <=> n = "CRITICAL_FAILURE"
    BY <1>1, <2>2, RankOf
  <2>4. V7Rank(n) \in 16..20 <=> n \in DriverRestored
    BY <1>1, <2>1, <2>3
  <2>5. QED BY <2>3, <2>4
<1>3. V7Rank(p) \in 1..21 /\ \A n \in V7States : V7Rank(n) \in 1..21
  BY Ranks
<1>4. ASSUME NEW n \in V7States \ (DriverRestored \cup {"ROLLBACK_STARTED", "CRITICAL_FAILURE"}),
             validate_v7_transition(p, n)
      PROVE  V7Rank(p) < 14 /\ V7Rank(n) = V7Rank(p) + 1
  <2>1. V7Rank(n) \notin 15..21
    BY <1>2, <1>3
  <2>2. QED BY <1>1, <1>3, <1>4, <2>1, Following
<1>5. validate_v7_transition(p, "ROLLBACK_STARTED") <=> V7Rank(p) \in 6..14 \/ p = "CRITICAL_FAILURE"
  <2>1. V7Rank("ROLLBACK_STARTED") = 15
    BY RankOf
  <2>2. QED BY <1>1, <1>3, <2>1, Following
<1>6. validate_v7_transition(p, "CRITICAL_FAILURE") <=> V7Rank(p) \in 15..19
  <2>1. V7Rank("CRITICAL_FAILURE") = 21
    BY RankOf
  <2>2. QED BY <1>1, <1>3, <2>1, Following
<1>7. validate_v7_transition(p, "DRIVER_RESTORED") <=> p = "ROLLBACK_STARTED"
  <2>1. V7Rank("DRIVER_RESTORED") = 16
    BY RankOf
  <2>2. QED BY <1>1, <1>2, <1>3, <2>1, Following
<1>8. ASSUME NEW n \in DriverRestored \ {"DRIVER_RESTORED"}, validate_v7_transition(p, n)
      PROVE  p \in DriverRestored
  <2>1. n \in V7States /\ V7Rank(n) \in 17..20 /\ n \notin {"ROLLBACK_STARTED", "CRITICAL_FAILURE"}
    BY <1>1, <1>2, <1>3
  <2>2. V7Rank(p) \in 16..20 \/ p = "DRIVER_RESTORED"
    BY <1>3, <1>8, <2>1, Following
  <2>3. QED BY <1>1, <1>2, <2>2
<1>9. p \in {"ROLLBACK_STARTED", "DRIVER_RESTORED"} => V7Rank(p) \in 15..19
  BY RankOf
<1>10. QED BY <1>4, <1>5, <1>6, <1>7, <1>8, <1>9

-----------------------------------------------------------------------------
(* What a command may do.                                                  *)

\* The commands that the broker or the restore broker answers.
Asking == Requests7 \cup {"startBroker", "startRestore"}

\* A command goes on or fails, with the controller c and the evidence e.
Course(c, e) ==
  /\ Running /\ ctl.run \in Planned /\ SamePlace(c)
  /\ e \in [All -> Evidence] /\ e[7].root /\ UNCHANGED <<drv, rt>>
  /\ app' = app \/ (ctl.run = "forward" /\ ctl.at \in {25, 34}) \/ (ctl.run = "rollback" /\ ctl.at > 12)
  /\ ctl.run = "forward" /\ ctl.at \in 14..50 => ctl'.run # "rollback"

\* The journal of the evidence e is as it was.
SameJournal(e) == e[7].state = ev[7].state /\ e[7].tail = ev[7].tail

\* The evidence e has the record s as well.
Appended(e, s) ==
  /\ e[7].state = s
  /\ e[7].tail = IF ev[7].tail = "clean" /\ validate_v7_transition(ev[7].state, s) THEN "clean" ELSE "corrupt"

\* The journal is left alone.
Plainly(c, e) ==
  /\ c.state = ctl.state /\ c.healthy = ctl.healthy /\ SameJournal(e)
  /\ c.stopped = ctl.stopped \/ Cmd \in {"tryBootout", "tryDrain"}
  /\ Cmd = "reopen" => ~parse_v7_journal
  /\ Cmd \in V7States => Skips
  /\ \/ Steered(c, e)
     \/ /\ Onward(c, e) /\ Cmd # "reopen" /\ (Cmd = "resumed" => ctl.healthy)
        /\ Cmd \notin V7States \cup Asking \/ Skips

\* The command is a state and is journaled.
Recorded(c, e) ==
  /\ Cmd \in V7States /\ ~Skips /\ CanAppend
  /\ Onward(c, e) \/ (Steered(c, e) /\ ctl.run # "forward")
  /\ c.state = Cmd /\ c.healthy = ctl.healthy /\ c.stopped = ctl.stopped /\ Appended(e, Cmd)

\* It is refused, or the append fails.
Unrecorded(c, e) ==
  /\ Cmd \in V7States /\ ~Skips /\ Steered(c, e)
  /\ c.state = ctl.state /\ c.stopped = ctl.stopped
  /\ \/ c.healthy = ctl.healthy /\ SameJournal(e) /\ (CanAppend => "restored" \in AppendFaults)
     \/ /\ CanAppend /\ ~c.healthy
        /\ SameJournal(e) \/ Appended(e, Cmd) \/ (e[7].state = ev[7].state /\ e[7].tail = Cmd)

\* The journal is read again.
Reopened(c, e) ==
  /\ Cmd = "reopen" /\ Onward(c, e) /\ parse_v7_journal
  /\ c.state = ev[7].state /\ c.healthy /\ c.stopped = ctl.stopped
  /\ e[7].state = ev[7].state /\ e[7].tail = "clean"

\* What a command does to the journal.
Taken(c, e) == Plainly(c, e) \/ Recorded(c, e) \/ Unrecorded(c, e) \/ Reopened(c, e)

\* The requests that get on their way, and the answers that come.
Spawned ==
  LET c == IF Side = "broker" THEN "PREPARE" ELSE "VERIFY"
  IN /\ Cmd \in {"startBroker", "startRestore"} /\ ~Skips /\ ~ctl.sent
     /\ cli' = [cli EXCEPT ![Side] = [NoClient EXCEPT !.at = "open"]]
     /\ px' = [px EXCEPT ![Side] = [NoProxy EXCEPT !.at = "await", !.want = c]]
     /\ rt' = [rt EXCEPT ![Side] = [NoRoot EXCEPT !.at = "ready", !.cmd = c]]
     /\ ctl' = [ctl EXCEPT !.sent = TRUE] /\ UNCHANGED <<ev, drv, app>>

\* A request is on the pipe.
Posted ==
  /\ Cmd \in Requests7 /\ ~Skips /\ ~ctl.sent /\ (Cmd = "undo" => ctl.stopped)
  /\ cli[Side].at = "open" /\ px[Side].at # "off"
  /\ cli' = [cli EXCEPT ![Side].q = Append(@, Request7), ![Side].r = @ \ {Marker}]
  /\ ctl' = [ctl EXCEPT !.sent = TRUE] /\ UNCHANGED <<ev, px, rt, drv, app>>

\* The pipe is closed.
Hung ==
  /\ Cmd = "undo" /\ ~Skips /\ ~ctl.sent /\ ~ctl.stopped
  /\ cli' = [cli EXCEPT !["broker"].at = "closed", !["broker"].r = @ \ {Marker}]
  /\ ctl' = [ctl EXCEPT !.sent = TRUE] /\ UNCHANGED <<ev, px, rt, drv, app>>

\* The marker that the controller waits for.
Reply == IF Cmd \in {"startBroker", "startRestore"} THEN Started ELSE Marker

\* The answer has been read.
Heard ==
  /\ Cmd \in Asking /\ ctl.sent /\ Reply \in cli[Side].r
  /\ Cmd \in {"COMMIT", "undo", "RESTORE"} => px[Side].at = "off"
  /\ cli' = [cli EXCEPT ![Side].pub = @ \/ Cmd = "PUBLISH", ![Side].r = @ \ {Reply}]
  /\ ctl' = [ctl EXCEPT !.at = @ + 1, !.sent = FALSE, !.stopped = TRUE,
                        !.state = IF Cmd = "RESTORE" THEN ev[7].state ELSE @]
  /\ UNCHANGED <<ev, px, rt, drv, app>>

\* The update's command at its place.
LEMMA ForwardCommand ==
  ASSUME IInv, ctl.run = "forward"
  PROVE  /\ Running /\ ctl.run \in Planned /\ ctl.at \in 1..52 /\ ForwardEntry(ctl.at, Cmd) /\ ForwardText(ctl.at, Cmd)
<1>1. Running /\ ctl.run \in Planned /\ ctl.at \in 1..52
  BY DEF IInv, Controls, Planned, PlanLength
<1>2. Cmd = Entry(Plan, ctl.at)
  BY <1>1 DEF Cmd, Entry, Planned
<1>3. Plan = perform_paired_v7_update
  BY DEF Plan
<1>4. QED BY <1>1, <1>2, <1>3, ForwardPlan

\* An update that is past its preparation and has not committed is unwound, or
\* its commit undone, before it is rolled back.
LEMMA NoWayBack ==
  ASSUME IInv, Running, NEW c, SamePlace(c), NEW e, Goes(c, e) \/ Fails(c, e)
  PROVE  ctl.run = "forward" /\ ctl.at \in 14..50 => ctl'.run # "rollback"
<1> SUFFICES ASSUME ctl.run = "forward", ctl.at \in 14..50 PROVE ctl'.run # "rollback"
  OBVIOUS
<1>1. c \in Control /\ c.run = "forward" /\ c.at = ctl.at
  BY DEF SamePlace
<1>2. Len(Plan) = 52 /\ ForwardEntry(ctl.at, Cmd)
  BY ForwardCommand, ForwardPlan DEF Plan
<1>3. CASE Goes(c, e)
  <2>1. c.at < Len(Plan)
    BY <1>1, <1>2
  <2>2. ctl' = [c EXCEPT !.at = c.at + 1, !.sent = FALSE]
    BY <1>3, <2>1 DEF Goes
  <2>3. QED BY <1>1, <2>2 DEF Control
<1>4. CASE Fails(c, e) /\ ctl.at \in 14..47
  <2>1. InTransaction(ctl.at)
    BY <1>4 DEF InTransaction, Preparation, Transaction
  <2>2. Cmd \notin {"PREPARE_COMMIT", "committable", "COMMITTED", "COMMIT"}
    BY <1>2, <1>4 DEF ForwardEntry
  <2>3. ctl' = [c EXCEPT !.run = "unwind", !.at = 1, !.sent = FALSE, !.locked = FALSE]
    BY <1>4, <2>1, <2>2 DEF Fails
  <2>4. QED BY <1>1, <2>3 DEF Control
<1>5. CASE Fails(c, e) /\ ctl.at \in 48..50
  <2>1. ~InTransaction(ctl.at)
    BY <1>5 DEF InTransaction, Preparation, Transaction
  <2>2. Cmd \in {"PREPARE_COMMIT", "committable", "COMMITTED"}
    BY <1>2, <1>5 DEF ForwardEntry
  <2>3. ctl' = [c EXCEPT !.run = "undoCommit", !.at = 1, !.sent = FALSE]
    BY <1>5, <2>1, <2>2 DEF Fails
  <2>4. QED BY <1>1, <2>3 DEF Control
<1>6. QED BY <1>3, <1>4, <1>5

\* A command that does not write the journal takes its course.
LEMMA PlainCourse ==
  ASSUME IInv, Running, ctl.run \in Planned, NEW c, SamePlace(c), c.state = ctl.state,
         c.healthy = ctl.healthy, c.stopped = ctl.stopped \/ Cmd \in {"tryBootout", "tryDrain"},
         NEW e \in [All -> Evidence], e[7].root, SameJournal(e), UNCHANGED <<drv, rt>>,
         app' = app \/ (ctl.run = "forward" /\ ctl.at \in {25, 34}) \/ (ctl.run = "rollback" /\ ctl.at > 12),
         Cmd = "reopen" => ~parse_v7_journal, Cmd \in V7States => Skips,
         \/ /\ Goes(c, e) /\ Cmd # "reopen" /\ (Cmd = "resumed" => ctl.healthy)
            /\ Cmd \notin V7States \cup Asking \/ Skips
         \/ Fails(c, e)
  PROVE  Course(c, e) /\ Plainly(c, e)
<1>1. ProcessType /\ Controls /\ (ctl.run = "retire" => ctl.why = "explicit") /\ c.at = ctl.at
  BY DEF IInv, Types, Controls, SamePlace
<1>0. ctl.run = "forward" /\ ctl.at \in 14..50 => ctl'.run # "rollback"
  BY NoWayBack
<1>2. CASE Fails(c, e)
  <2>1. Steered(c, e)
    BY <1>1, <1>2, FailSteers
  <2>2. QED BY <1>0, <2>1 DEF Course, Plainly
<1>3. CASE /\ Goes(c, e) /\ Cmd # "reopen" /\ (Cmd = "resumed" => ctl.healthy)
           /\ Cmd \notin V7States \cup Asking \/ Skips
  <2>1. Onward(c, e) \/ Steered(c, e)
    BY <1>1, <1>3, GoSteers
  <2>2. QED BY <1>0, <1>3, <2>1 DEF Course, Plainly
<1>4. QED BY <1>2, <1>3

\* The controller with one of its fields set.
LEMMA FieldSet ==
  ASSUME IInv, Running, ctl.run \in Planned, NEW b \in BOOLEAN
  PROVE  /\ SamePlace(ctl)
         /\ SamePlace([ctl EXCEPT !.locked = b]) /\ [ctl EXCEPT !.locked = b].state = ctl.state
         /\ [ctl EXCEPT !.locked = b].healthy = ctl.healthy
         /\ [ctl EXCEPT !.locked = b].stopped = ctl.stopped
         /\ SamePlace([ctl EXCEPT !.stopped = b]) /\ [ctl EXCEPT !.stopped = b].state = ctl.state
         /\ [ctl EXCEPT !.stopped = b].healthy = ctl.healthy
<1>1. ctl \in Control
  BY DEF IInv, Types
<1>2. /\ [ctl EXCEPT !.locked = b].state = ctl.state
      /\ [ctl EXCEPT !.locked = b].healthy = ctl.healthy
      /\ [ctl EXCEPT !.locked = b].stopped = ctl.stopped
  BY <1>1 DEF Control
<1>3. /\ [ctl EXCEPT !.stopped = b].state = ctl.state
      /\ [ctl EXCEPT !.stopped = b].healthy = ctl.healthy
  BY <1>1 DEF Control
<1>4. QED BY <1>2, <1>3, Learned

\* A command that changes neither the journal nor the app.
LEMMA EvenCourse ==
  ASSUME IInv, Running, ctl.run \in Planned, UNCHANGED <<app, drv, rt>>,
         NEW e \in {ev, Written(Cmd)}, e = ev \/ Cmd \in Writes, Cmd # "reopen", Cmd \in V7States => Skips,
         \/ /\ Goes(ctl, e) /\ (Cmd = "resumed" => ctl.healthy)
            /\ Cmd \notin V7States \cup Asking \/ Skips
         \/ Fails(ctl, e)
  PROVE  Course(ctl, e) /\ Plainly(ctl, e)
<1>1. SamePlace(ctl)
  BY Learned
<1>2. e \in [All -> Evidence] /\ e[7].root /\ SameJournal(e)
  <2>1. ev \in [All -> Evidence] /\ ev[7].root
    BY EvidenceIs DEF IInv, Types
  <2>2. ASSUME Cmd \in Writes
        PROVE  Written(Cmd) \in [All -> Evidence] /\ Written(Cmd)[7].root /\ SameJournal(Written(Cmd))
    <3>1. PICK r \in Evidence :
            /\ Written(Cmd) = [ev EXCEPT ![7] = r]
            /\ r.kept = ev[7].kept /\ r.root = ev[7].root /\ r.state = ev[7].state /\ r.tail = ev[7].tail
      BY <2>2, WrittenIs
    <3>2. Written(Cmd) \in [All -> Evidence] /\ Written(Cmd)[7] = r
      BY <2>1, <3>1, Wrote
    <3>3. QED BY <2>1, <3>1, <3>2 DEF SameJournal
  <2>3. QED BY <2>1, <2>2 DEF SameJournal
<1>3. QED BY <1>1, <1>2, PlainCourse

\* What is known of a command other than a request under way.
Coursed == \E c, e : Course(c, e) /\ Taken(c, e)

\* A command that this controller skips takes its course.
LEMMA SkipCourse == IInv /\ Skip => Coursed
<1> SUFFICES ASSUME IInv, Skip PROVE Coursed
  OBVIOUS
<1>1. Running /\ ctl.run \in Planned /\ Skips /\ ~due(Cmd) /\ Goes(ctl, ev) /\ UNCHANGED <<host, root>>
  BY DEF Skip, Skips, Advance, Planned
<1>2. Cmd \notin {"reopen", "resumed"}
  BY <1>1 DEF due
<1>3. UNCHANGED <<app, drv, rt>>
  BY <1>1 DEF host, root
<1>4. QED BY <1>1, <1>2, <1>3, EvenCourse DEF Coursed, Taken

\* The requests are not states, nor reads of the journal.
LEMMA Askings == Asking \cap V7States = {} /\ "reopen" \notin Asking \cup V7States
                 /\ "resumed" \notin Asking \cup V7States
                 /\ (Gates \cup Waits \cup Writes) \cap V7States = {}
                 /\ (Gates \cup Waits \cup Writes) \cap (Asking \cup {"reopen"}) = {}
                 /\ {"observe", "bootout", "bootstrap", "bootoutIfLoaded", "tryBootout", "tryDrain", "takeLock",
                     "dropLock", "holdCurrent", "publishNew", "archiveNew", "restoreCurrent", "resumed"}
                      \cap (V7States \cup Asking \cup {"reopen"}) = {}
  BY Alphabet DEF Asking, Requests7, DriverRestored, Gates, Waits, Writes

\* A check takes its course: it passes or it fails.
LEMMA CheckCourse == IInv /\ Check => Coursed
<1> SUFFICES ASSUME IInv, Check PROVE Coursed
  OBVIOUS
<1>1. Cmd \in Gates /\ UNCHANGED <<host, root>>
  BY DEF Check
<1>2. Running /\ ctl.run \in Planned
  BY <1>1, Commanding DEF IInv, Gates
<1>3. Cmd \notin V7States \cup Asking \cup {"reopen"}
  BY <1>1, Askings
<1>4. (Goes(ctl, ev) /\ (Cmd = "resumed" => ctl.healthy)) \/ Fails(ctl, ev)
  BY DEF Check, Advance, Fail, Holds
<1>5. UNCHANGED <<app, drv, rt>>
  BY <1>1 DEF host, root
<1>6. QED BY <1>2, <1>3, <1>4, <1>5, EvenCourse DEF Coursed, Taken

\* A wait takes its course: it ends or it times out.
LEMMA WaitCourse == IInv /\ Wait => Coursed
<1> SUFFICES ASSUME IInv, Wait PROVE Coursed
  OBVIOUS
<1>1. Cmd \in Waits /\ UNCHANGED <<host, root>>
  BY DEF Wait
<1>2. Running /\ ctl.run \in Planned /\ Cmd # "resumed"
  BY <1>1, Commanding DEF IInv, Waits
<1>3. Cmd \notin V7States \cup Asking \cup {"reopen"}
  BY <1>1, Askings
<1>4. Goes(ctl, ev) \/ Fails(ctl, ev)
  BY DEF Wait, Advance, Fail
<1>5. UNCHANGED <<app, drv, rt>>
  BY <1>1 DEF host, root
<1>6. QED BY <1>2, <1>3, <1>4, <1>5, EvenCourse DEF Coursed, Taken

\* An observation of the host takes its course.
LEMMA ObserveCourse == IInv /\ Observe => Coursed
<1> SUFFICES ASSUME IInv, Observe PROVE Coursed
  OBVIOUS
<1>1. Cmd = "observe"
  BY DEF Observe
<1>2. Running /\ ctl.run \in Planned /\ Cmd # "resumed"
  BY <1>1, Commanding DEF IInv
<1>3. Cmd \notin V7States \cup Asking \cup {"reopen"}
  BY <1>1, Askings
<1>4. Goes(ctl, ev) \/ Fails(ctl, ev)
  BY DEF Observe, Advance, Fail
<1>5. UNCHANGED <<app, drv, rt>>
  BY DEF Observe, root
<1>6. QED BY <1>2, <1>3, <1>4, <1>5, EvenCourse DEF Coursed, Taken

\* A write of the evidence takes its course, beside the journal.
LEMMA WriteCourse == IInv /\ Write => Coursed
<1> SUFFICES ASSUME IInv, Write PROVE Coursed
  OBVIOUS
<1>1. Cmd \in Writes /\ UNCHANGED <<host, root>>
  BY DEF Write
<1>2. Running /\ ctl.run \in Planned /\ Cmd # "resumed"
  BY <1>1, Commanding DEF IInv, Writes
<1>3. Cmd \notin V7States \cup Asking \cup {"reopen"}
  BY <1>1, Askings
<1>4. PICK e \in {ev, Written(Cmd)} : Goes(ctl, e) \/ Fails(ctl, e)
  BY DEF Write, Acted, Advance, Fail
<1>5. UNCHANGED <<app, drv, rt>>
  BY <1>1 DEF host, root
<1>6. QED BY <1>1, <1>2, <1>3, <1>4, <1>5, EvenCourse DEF Coursed, Taken

\* A launchctl command takes its course.
LEMMA LaunchctlCourse == IInv /\ Launchctl => Coursed
<1> SUFFICES ASSUME IInv, Launchctl PROVE Coursed
  OBVIOUS
<1>1. Cmd \in {"bootout", "bootstrap", "bootoutIfLoaded"}
  BY DEF Launchctl
<1>2. Running /\ ctl.run \in Planned /\ Cmd # "resumed"
  BY <1>1, Commanding DEF IInv
<1>3. Cmd \notin V7States \cup Asking \cup {"reopen"}
  BY <1>1, Askings
<1>4. Goes(ctl, ev) \/ Fails(ctl, ev)
  BY DEF Launchctl, Advance, Fail
<1>5. UNCHANGED <<app, drv, rt>>
  BY DEF Launchctl, root
<1>6. QED BY <1>2, <1>3, <1>4, <1>5, EvenCourse DEF Coursed, Taken

\* A stop of the host takes its course: it may only fail to be noticed.
LEMMA TryStopCourse == IInv /\ TryStop => Coursed
<1> SUFFICES ASSUME IInv, TryStop PROVE Coursed
  OBVIOUS
<1>1. Cmd \in {"tryBootout", "tryDrain"}
  BY DEF TryStop
<1>2. Running /\ ctl.run \in Planned /\ Cmd # "resumed"
  BY <1>1, Commanding DEF IInv
<1>3. Cmd \notin V7States \cup Asking \cup {"reopen"}
  BY <1>1, Askings
<1>4. Goes(ctl, ev) \/ Goes([ctl EXCEPT !.stopped = FALSE], ev)
  BY DEF TryStop, Advance
<1>5. UNCHANGED <<app, drv, rt>>
  BY DEF TryStop, root
<1>6. CASE Goes(ctl, ev)
  BY <1>2, <1>3, <1>5, <1>6, EvenCourse DEF Coursed, Taken
<1>7. CASE Goes([ctl EXCEPT !.stopped = FALSE], ev)
  <2> DEFINE c == [ctl EXCEPT !.stopped = FALSE]
  <2>1. SamePlace(c) /\ c.state = ctl.state /\ c.healthy = ctl.healthy
    BY <1>2, FieldSet
  <2>2. Goes(c, ev)
    BY <1>7
  <2> HIDE DEF c
  <2>3. ev \in [All -> Evidence] /\ ev[7].root /\ SameJournal(ev)
    BY <1>2, EvidenceIs DEF IInv, Types, SameJournal
  <2>4. Course(c, ev) /\ Plainly(c, ev)
    BY <1>1, <1>2, <1>3, <1>5, <2>1, <2>2, <2>3, PlainCourse
  <2>5. QED BY <2>4 DEF Coursed, Taken
<1>8. QED BY <1>4, <1>6, <1>7

\* The host's lock, taken or released, takes its course.
LEMMA HostLockCourse == IInv /\ HostLock => Coursed
<1> SUFFICES ASSUME IInv, HostLock PROVE Coursed
  OBVIOUS
<1>1. Cmd \in {"takeLock", "dropLock"} /\ UNCHANGED <<host, root>>
  BY DEF HostLock
<1>2. Running /\ ctl.run \in Planned /\ Cmd # "resumed"
  BY <1>1, Commanding DEF IInv
<1>3. Cmd \notin V7States \cup Asking \cup {"reopen"}
  BY <1>1, Askings
<1>4. Fails(ctl, ev) \/ \E b \in BOOLEAN : Goes([ctl EXCEPT !.locked = b], ev)
  BY DEF HostLock, Fail
<1>5. UNCHANGED <<app, drv, rt>>
  BY <1>1 DEF host, root
<1>6. CASE Fails(ctl, ev)
  BY <1>2, <1>3, <1>5, <1>6, EvenCourse DEF Coursed, Taken
<1>7. CASE \E b \in BOOLEAN : Goes([ctl EXCEPT !.locked = b], ev)
  <2>0. PICK b \in BOOLEAN : Goes([ctl EXCEPT !.locked = b], ev)
    BY <1>7
  <2> DEFINE c == [ctl EXCEPT !.locked = b]
  <2>1. SamePlace(c) /\ c.state = ctl.state /\ c.healthy = ctl.healthy /\ c.stopped = ctl.stopped
    BY <1>2, FieldSet
  <2>2. Goes(c, ev)
    BY <2>0
  <2> HIDE DEF c
  <2>3. ev \in [All -> Evidence] /\ ev[7].root /\ SameJournal(ev)
    BY <1>2, EvidenceIs DEF IInv, Types, SameJournal
  <2>4. Course(c, ev) /\ Plainly(c, ev)
    BY <1>2, <1>3, <1>5, <2>1, <2>2, <2>3, PlainCourse
  <2>5. QED BY <2>4 DEF Coursed, Taken
<1>8. QED BY <1>4, <1>6, <1>7

\* A move of the app takes its course.
LEMMA MoveAppCourse == IInv /\ MoveApp => Coursed
<1> SUFFICES ASSUME IInv, MoveApp PROVE Coursed
  OBVIOUS
<1>1. Cmd \in {"holdCurrent", "publishNew", "archiveNew", "restoreCurrent"}
  BY DEF MoveApp
<1>2. /\ Running /\ ctl.run \in Planned
      /\ (ctl.run = "forward" /\ ctl.at \in {25, 34}) \/ (ctl.run = "rollback" /\ ctl.at > 12)
  <2>1. CASE Cmd \in {"holdCurrent", "publishNew"}
    BY <1>1, <2>1, MovesAt
  <2>2. CASE Cmd \in {"archiveNew", "restoreCurrent"}
    BY <1>1, <2>2, MovesAt
  <2>3. QED BY <1>1, <2>1, <2>2
<1>3. Cmd \notin V7States \cup Asking \cup {"reopen", "resumed"}
  BY <1>1, Askings
<1> DEFINE o == ev[7]
           Es == {[o EXCEPT !.kept = app], [o EXCEPT !.hold = "empty"], [o EXCEPT !.failed = app],
                  [o EXCEPT !.kept = Nothing]}
<1>4. \E r \in Es \cup {o} : Goes(ctl, [ev EXCEPT ![7] = r]) \/ Fails(ctl, [ev EXCEPT ![7] = r])
  <2> DEFINE Put7(r) == [ev EXCEPT ![7] = r]
             r1 == [o EXCEPT !.kept = app]
             r2 == [o EXCEPT !.hold = "empty"]
             r3 == [o EXCEPT !.failed = app]
             r4 == [o EXCEPT !.kept = Nothing]
  <2>1. ev = Put7(o)
    BY DEF IInv, Types
  <2>2. \E e \in {ev, [ev EXCEPT ![7].kept = app], [ev EXCEPT ![7].hold = "empty"],
                  [ev EXCEPT ![7].failed = app], [ev EXCEPT ![7].kept = Nothing]} :
          Goes(ctl, e) \/ Fails(ctl, e)
    BY DEF MoveApp, Move, Advance, Fail
  <2>3. \E e \in {ev, Put7(r1), Put7(r2), Put7(r3), Put7(r4)} : Goes(ctl, e) \/ Fails(ctl, e)
    BY <2>2
  <2>4. {r1, r2, r3, r4} = Es
    OBVIOUS
  <2>5. SUFFICES \E r \in {r1, r2, r3, r4, o} : Goes(ctl, Put7(r)) \/ Fails(ctl, Put7(r))
    BY <2>4
  <2> HIDE DEF Put7, r1, r2, r3, r4, Es, o
  <2>6. QED BY <2>1, <2>3
<1>5. ASSUME NEW r \in Es \cup {o}
      PROVE  r \in Evidence /\ r.root = o.root /\ r.state = o.state /\ r.tail = o.tail
  <2>1. o \in Evidence /\ app \in -1..8 /\ Nothing \in -1..8
    BY <1>2, EvidenceIs DEF IInv, Types, HostType, Nothing
  <2> HIDE DEF o
  <2>2. CASE r = [o EXCEPT !.kept = app]
    BY <2>1, <2>2 DEF Evidence
  <2>3. CASE r = [o EXCEPT !.hold = "empty"]
    BY <2>1, <2>3 DEF Evidence
  <2>4. CASE r = [o EXCEPT !.failed = app]
    BY <2>1, <2>4 DEF Evidence
  <2>5. CASE r = [o EXCEPT !.kept = Nothing]
    BY <2>1, <2>5 DEF Evidence
  <2>6. QED BY <1>5, <2>1, <2>2, <2>3, <2>4, <2>5
<1>6. PICK r \in Es \cup {o} : Goes(ctl, [ev EXCEPT ![7] = r]) \/ Fails(ctl, [ev EXCEPT ![7] = r])
  BY <1>4
<1> DEFINE e == [ev EXCEPT ![7] = r]
<1>7. e \in [All -> Evidence] /\ e[7] = r
  BY <1>5, <1>6, Wrote DEF IInv, Types
<1>8. e[7].root /\ SameJournal(e)
  <2>1. ev[7].root
    BY <1>2, EvidenceIs
  <2> HIDE DEF e
  <2>2. QED BY <1>5, <1>6, <1>7, <2>1 DEF SameJournal
<1>9. Goes(ctl, e) \/ Fails(ctl, e)
  BY <1>6
<1>10. UNCHANGED <<drv, rt>>
  BY DEF MoveApp, root
<1> HIDE DEF e, Es, o
<1>11. Course(ctl, e) /\ Plainly(ctl, e)
  BY <1>2, <1>3, <1>7, <1>8, <1>9, <1>10, Learned, PlainCourse
<1>12. QED BY <1>11 DEF Coursed, Taken

\* A rollback reads the journal that it goes on with.
LEMMA ReopenCourse == IInv /\ Reopen => Coursed
<1> SUFFICES ASSUME IInv, Reopen PROVE Coursed
  OBVIOUS
<1>1. Cmd = "reopen" /\ UNCHANGED <<host, root, faults>>
  BY DEF Reopen
<1>2. Running /\ ctl.run \in Planned
  BY <1>1, Commanding DEF IInv
<1>3. UNCHANGED <<app, drv, rt>>
  BY <1>1 DEF host, root
<1> DEFINE r == V7Journal_open(ev[7])
           c == [ctl EXCEPT !.state = ev[7].state, !.healthy = TRUE]
           e == [ev EXCEPT ![7] = r]
<1>4. r \in Evidence /\ r.root = ev[7].root /\ r.state = ev[7].state /\ r.tail = "clean" /\ ev[7].root
  BY <1>2, EvidenceIs, Opened
<1>5. (parse_v7_journal /\ Goes(c, e)) \/ (~parse_v7_journal /\ Fails(ctl, ev))
  BY DEF Reopen, Fail
<1>6. SamePlace(c) /\ c.state = ev[7].state /\ c.healthy /\ c.stopped = ctl.stopped
  <2>1. ev[7].state \in V7States
    BY <1>2, EvidenceIs DEF Evidence
  <2>2. c.stopped = ctl.stopped
    BY DEF IInv, Types, Control
  <2>3. SamePlace(c) /\ c.state = ev[7].state /\ c.healthy
    BY <1>2, <2>1, Learned
  <2>4. QED BY <2>2, <2>3
<1>7. e \in [All -> Evidence] /\ e[7] = r
  BY <1>4, Wrote DEF IInv, Types
<1> HIDE DEF r, c, e
<1>8. CASE parse_v7_journal /\ Goes(c, e)
  <2>1. ctl.run = "unwind" /\ ctl.at \in {1, 6} /\ c.at = ctl.at /\ Len(Plan) = 8
    <3>1. ctl.run # "forward" /\ ctl.run # "rollback"
      BY <1>1, <1>2, Commands DEF IInv, ForwardText, RollbackText
    <3>2. ctl.run # "undoCommit" /\ ctl.run # "retire"
      BY <1>1, <1>2, Commands DEF IInv, UndoCommitText, RetireText
    <3>3. ctl.run = "unwind"
      BY <1>2, <3>1, <3>2 DEF Planned
    <3>4. ctl.at \in {1, 6} /\ Len(Plan) = 8
      BY <1>1, <1>2, <3>3, Commands DEF IInv, UnwindText, PlanLength
    <3>5. QED BY <1>6, <3>3, <3>4 DEF SamePlace
  <2>2. Onward(c, e)
    BY <1>8, <2>1 DEF Goes, Onward, PlanLength
  <2>3. Reopened(c, e)
    BY <1>1, <1>4, <1>6, <1>7, <1>8, <2>2 DEF Reopened
  <2>4. ctl.run = "forward" /\ ctl.at \in 14..50 => ctl'.run # "rollback"
    BY <1>2, <1>6, <1>8, NoWayBack
  <2>5. Course(c, e)
    BY <1>2, <1>3, <1>4, <1>6, <1>7, <2>4 DEF Course
  <2>6. QED BY <2>3, <2>5 DEF Coursed, Taken
<1>9. CASE ~parse_v7_journal /\ Fails(ctl, ev)
  <2>1. ev \in [All -> Evidence] /\ ev[7].root /\ SameJournal(ev)
    BY <1>2, EvidenceIs DEF IInv, Types, SameJournal
  <2>2. Course(ctl, ev) /\ Plainly(ctl, ev)
    BY <1>1, <1>2, <1>3, <1>9, <2>1, Askings, Learned, PlainCourse
  <2>3. QED BY <2>2 DEF Coursed, Taken
<1>10. QED BY <1>5, <1>8, <1>9

\* A record is appended, refused, or torn.
LEMMA RecordCourse == IInv /\ Record => Coursed
<1> SUFFICES ASSUME IInv, Record PROVE Coursed
  OBVIOUS
<1>1. Cmd \in V7States /\ ~Skips /\ UNCHANGED <<host, root>>
  BY DEF Record
<1>2. Running /\ ctl.run \in Planned
  BY <1>1, Commanding, NotStates DEF IInv
<1>3. UNCHANGED <<app, drv, rt>>
  BY <1>1 DEF host, root
<1> DEFINE r == V7Journal_record(ev[7], Cmd)
           t == [ev[7] EXCEPT !.tail = Cmd]
           er == [ev EXCEPT ![7] = r]
           et == [ev EXCEPT ![7] = t]
<1>4. ev \in [All -> Evidence] /\ ev[7] \in Evidence /\ ev[7].root /\ SameJournal(ev)
  BY <1>2, EvidenceIs DEF IInv, Types, SameJournal
<1>5. er \in [All -> Evidence] /\ er[7].root /\ Appended(er, Cmd)
  <2>1. /\ r \in Evidence /\ r.root = ev[7].root /\ r.state = Cmd
        /\ r.tail = IF ev[7].tail = "clean" /\ validate_v7_transition(ev[7].state, Cmd) THEN ev[7].tail ELSE "corrupt"
    BY <1>1, <1>4, Appends
  <2>2. er \in [All -> Evidence] /\ er[7] = r
    BY <1>4, <2>1, Wrote
  <2> HIDE DEF r, er
  <2>3. QED BY <1>4, <2>1, <2>2 DEF Appended
<1>6. et \in [All -> Evidence] /\ et[7].root /\ et[7].state = ev[7].state /\ et[7].tail = Cmd
  <2>1. t \in Evidence /\ t.root = ev[7].root /\ t.state = ev[7].state /\ t.tail = Cmd
    BY <1>1, <1>4 DEF Evidence
  <2>2. et \in [All -> Evidence] /\ et[7] = t
    BY <1>4, <2>1, Wrote
  <2> HIDE DEF t, et
  <2>3. QED BY <1>4, <2>1, <2>2
<1> DEFINE cs == [ctl EXCEPT !.state = Cmd]
<1>7. \/ CanAppend /\ Goes(cs, er)
      \/ \E w \in (IF CanAppend THEN AppendFaults ELSE {"refused"}) :
           \E e \in {ev, er, et} :
             /\ Fails([ctl EXCEPT !.healthy = @ /\ w \in {"refused", "restored"}], e)
             /\ w \in {"refused", "restored"} => e = ev
  <2>1. \/ CanAppend /\ Goes([ctl EXCEPT !.state = Cmd], [ev EXCEPT ![7] = V7Journal_record(@, Cmd)])
        \/ \E w \in (IF CanAppend THEN AppendFaults ELSE {"refused"}) :
             LET e == CASE w = "torn" -> [ev EXCEPT ![7].tail = Cmd]
                        [] w = "kept" -> [ev EXCEPT ![7] = V7Journal_record(@, Cmd)]
                        [] OTHER -> ev
             IN Fails([ctl EXCEPT !.healthy = @ /\ w \in {"refused", "restored"}], e)
    BY DEF Record
  <2>2. [ev EXCEPT ![7] = V7Journal_record(@, Cmd)] = er /\ [ev EXCEPT ![7].tail = Cmd] = et
    OBVIOUS
  <2>3. ASSUME NEW w,
               LET e == CASE w = "torn" -> [ev EXCEPT ![7].tail = Cmd]
                          [] w = "kept" -> [ev EXCEPT ![7] = V7Journal_record(@, Cmd)]
                          [] OTHER -> ev
               IN Fails([ctl EXCEPT !.healthy = @ /\ w \in {"refused", "restored"}], e)
        PROVE  \E e \in {ev, er, et} :
                 /\ Fails([ctl EXCEPT !.healthy = @ /\ w \in {"refused", "restored"}], e)
                 /\ w \in {"refused", "restored"} => e = ev
    <3>1. CASE w = "torn"
      BY <2>2, <2>3, <3>1
    <3>2. CASE w = "kept"
      BY <2>2, <2>3, <3>2
    <3>3. CASE w \notin {"torn", "kept"}
      BY <2>3, <3>3
    <3>4. QED BY <3>1, <3>2, <3>3
  <2> HIDE DEF er, et
  <2>4. QED BY <2>1, <2>2, <2>3
<1>8. CASE CanAppend /\ Goes(cs, er)
  <2>1. /\ SamePlace(cs) /\ cs.state = Cmd /\ cs.healthy = ctl.healthy /\ cs.stopped = ctl.stopped
        /\ cs.at = ctl.at
    BY <1>1 DEF IInv, Types, SamePlace, Control
  <2>2. Goes(cs, er)
    BY <1>8
  <2> HIDE DEF cs, er
  <2>3. Onward(cs, er) \/ (Steered(cs, er) /\ ctl.run # "forward")
    <3>1. CASE ctl.run # "forward"
      BY <1>2, <1>5, <2>1, <2>2, <3>1, GoSteers DEF IInv, Types
    <3>2. CASE ctl.run = "forward"
      <4>1. cs.at = ctl.at /\ ctl.at \in 1..50 /\ Len(Plan) = 52 /\ PlanLength[ctl.run] = 52
        BY <1>1, <1>2, <2>1, <3>2, Commands DEF IInv, ForwardText, PlanLength
      <4>2. cs.at < Len(Plan) /\ cs.at < PlanLength[ctl.run]
        BY <4>1
      <4>3. QED BY <2>2, <4>2 DEF Goes, Onward
    <3>3. QED BY <3>1, <3>2
  <2>4. Recorded(cs, er)
    BY <1>1, <1>5, <1>8, <2>1, <2>3 DEF Recorded
  <2>5. Course(cs, er)
    <3>1. ctl.run = "forward" /\ ctl.at \in 14..50 => ctl'.run # "rollback"
      BY <1>2, <2>1, <2>2, NoWayBack
    <3>2. QED BY <1>2, <1>3, <1>5, <2>1, <3>1 DEF Course
  <2>6. QED BY <2>4, <2>5 DEF Coursed, Taken
<1>9. ASSUME NEW w \in (IF CanAppend THEN AppendFaults ELSE {"refused"}), NEW e \in {ev, er, et},
             Fails([ctl EXCEPT !.healthy = @ /\ w \in {"refused", "restored"}], e),
             w \in {"refused", "restored"} => e = ev
      PROVE  Coursed
  <2> DEFINE h == ctl.healthy /\ w \in {"refused", "restored"}
             c == [ctl EXCEPT !.healthy = h]
  <2>1. /\ SamePlace(c) /\ c.state = ctl.state /\ c.healthy = h /\ c.stopped = ctl.stopped
        /\ c.run = ctl.run /\ ctl.healthy \in BOOLEAN
    BY DEF IInv, Types, SamePlace, Control
  <2>2. Fails(c, e)
    BY <1>9
  <2>3. e \in [All -> Evidence] /\ e[7].root
    BY <1>4, <1>5, <1>6, <1>9
  <2>4. SameJournal(e) \/ Appended(e, Cmd) \/ (e[7].state = ev[7].state /\ e[7].tail = Cmd)
    BY <1>4, <1>5, <1>6, <1>9
  <2> HIDE DEF c, er, et
  <2>5. Steered(c, e)
    BY <1>2, <2>2, <2>3, FailSteers DEF IInv, Types, Controls
  <2>6. Unrecorded(c, e)
    <3>1. CASE w \in {"refused", "restored"}
      <4>1. c.healthy = ctl.healthy /\ SameJournal(e)
        BY <1>4, <1>9, <2>1, <3>1
      <4>2. CanAppend => "restored" \in AppendFaults
        BY <1>9, <3>1, PairedAssumption
      <4>3. QED BY <1>1, <2>1, <2>5, <4>1, <4>2 DEF Unrecorded
    <3>2. CASE w \notin {"refused", "restored"}
      <4>1. ~c.healthy /\ CanAppend
        BY <1>9, <2>1, <3>2
      <4>2. QED BY <1>1, <2>1, <2>4, <2>5, <4>1 DEF Unrecorded
    <3>3. QED BY <3>1, <3>2
  <2>7. Course(c, e)
    <3>1. ctl.run = "forward" /\ ctl.at \in 14..50 => ctl'.run # "rollback"
      BY <1>2, <2>1, <2>2, NoWayBack
    <3>2. QED BY <1>2, <1>3, <2>1, <2>3, <3>1 DEF Course
  <2>8. QED BY <2>6, <2>7 DEF Coursed, Taken
<1> HIDE DEF er, et, cs
<1>10. QED BY <1>7, <1>8, <1>9

\* A client is started with its proxy and root, or fails to.
LEMMA StartClientCourse == IInv /\ StartClient => Coursed \/ Spawned
<1> SUFFICES ASSUME IInv, StartClient, ~Spawned PROVE Coursed
  OBVIOUS
<1>1. Cmd \in {"startBroker", "startRestore"} /\ UNCHANGED <<host, kit, intact, drv, audio>>
  BY DEF StartClient
<1>2. Running /\ ctl.run \in Planned
  BY <1>1, Commanding DEF IInv
<1>3. Cmd \notin {"reopen", "resumed"} /\ Cmd \notin V7States
  BY <1>1, Askings DEF Asking
<1>4. Fails(ctl, ev) /\ UNCHANGED rt
  BY DEF StartClient, Spawned, Fail, host
<1>5. UNCHANGED <<app, drv, rt>>
  BY <1>1, <1>4 DEF host
<1>6. QED BY <1>2, <1>3, <1>4, <1>5, EvenCourse DEF Coursed, Taken

\* A request is put on the pipe, or there is nobody to read it.
LEMMA SendCourse == IInv /\ Send => Coursed \/ Posted
<1> SUFFICES ASSUME IInv, Send, ~Posted PROVE Coursed
  OBVIOUS
<1>1. Cmd \in Requests7 /\ UNCHANGED <<host, root>>
  BY DEF Send
<1>2. Running /\ ctl.run \in Planned
  BY <1>1, Commanding DEF IInv, Requests7
<1>3. Cmd \notin {"reopen", "resumed"} /\ Cmd \notin V7States
  BY <1>1, Askings DEF Asking, Requests7
<1>4. UNCHANGED <<app, drv, rt>>
  BY <1>1 DEF host, root
<1>5. Fails(ctl, ev)
  BY <1>4 DEF Send, Posted, Fail
<1>6. QED BY <1>2, <1>3, <1>4, <1>5, EvenCourse DEF Coursed, Taken

\* The pipe of a broker that shall undo its driver is closed.
LEMMA ClosePipeCourse == ClosePipe => Hung
  BY DEF ClosePipe, Hung, host, root

\* An answer is read, or none comes any more.
LEMMA AnsweredCourse == IInv /\ Answered7 => Coursed \/ Heard
<1> SUFFICES ASSUME IInv, Answered7, ~Heard PROVE Coursed
  OBVIOUS
<1>1. Cmd \in Asking /\ UNCHANGED <<host, root>>
  BY DEF Answered7, Asking
<1>2. Running /\ ctl.run \in Planned
  BY <1>1, Commanding DEF IInv, Requests7, Asking
<1>3. Cmd \notin {"reopen", "resumed"} /\ Cmd \notin V7States
  BY <1>1, Askings DEF Requests7, Asking
<1>4. UNCHANGED <<app, drv, rt>>
  BY <1>1 DEF host, root
<1>5. Fails(ctl, ev)
  BY <1>1, <1>4 DEF Answered7, Heard, Fail, Reply, Asking
<1>6. QED BY <1>2, <1>3, <1>4, <1>5, EvenCourse DEF Coursed, Taken

\* Every command takes one of these courses.
LEMMA CommandCourse == IInv /\ Command => Coursed \/ Spawned \/ Posted \/ Hung \/ Heard
  BY SkipCourse, RecordCourse, ReopenCourse, CheckCourse, WaitCourse, ObserveCourse, WriteCourse,
     MoveAppCourse, LaunchctlCourse, TryStopCourse, HostLockCourse, StartClientCourse, SendCourse,
     ClosePipeCourse, AnsweredCourse DEF Command

-----------------------------------------------------------------------------
(* The update alone has the pen: commands.                                 *)

\* The journal states among the commands of the update.
LEMMA ForwardStates ==
  ASSUME IInv, ctl.run = "forward"
  PROVE  /\ Cmd \in V7States =>
              /\ ctl.at <= 50
              /\ ctl.at <= 15 => Before(Cmd, "STOP_INITIATED")
              /\ ctl.at <= 49 => Before(Cmd, "COMMITTED") /\ Cmd # "COMMITTED"
              /\ 46 <= ctl.at /\ ctl.at <= 49 => Cmd = "READY_VERIFIED"
              /\ ctl.at = 50 => Cmd = "COMMITTED"
              /\ ctl.at = 16 => Cmd = "STOP_INITIATED"
         /\ ctl.at \in {16, 46, 50} => Cmd \in V7States
         /\ 50 < ctl.at => Cmd \in {"COMMIT", "resultSuccess"}
<1>1. ctl.at \in 1..52 /\ ForwardEntry(ctl.at, Cmd)
  BY ForwardCommand
<1>2. ctl.at \in {16, 46, 50} => Cmd \in {"STOP_INITIATED", "READY_VERIFIED", "COMMITTED"}
  BY <1>1 DEF ForwardEntry
<1>3. ctl.at <= 15 =>
        Cmd \in {"export", "SOURCE_EXPORTED", "build", "reference", "driver", "probeBinaries",
                 "BUILD_VERIFIED", "prepareHold", "INSTALL_HOLD_VERIFIED", "boundary",
                 "startBroker", "DRIVER_PREPARED", "preStop", "PING", "reserve"}
  BY <1>1 DEF ForwardEntry
<1>4. 16 <= ctl.at /\ ctl.at <= 45 =>
        Cmd \in {"STOP_INITIATED", "pendingPointer", "activePointer", "pointed", "bootout",
                 "drained", "takeLock", "stopped", "CURRENT_STOPPED", "holdCurrent", "currentHeld",
                 "CURRENT_HELD", "PUBLISH", "DRIVER_PUBLISHED", "PING", "probes", "PROBES_VERIFIED",
                 "publishNew", "removeHoldRoot", "installed", "NEW_PUBLISHED", "dropLock",
                 "bootstrap", "PERSISTENT_BOOTSTRAPPED", "observe", "deployment", "ready"}
  BY <1>1 DEF ForwardEntry
<1>5. /\ 46 <= ctl.at /\ ctl.at <= 49 =>
           Cmd \in {"READY_VERIFIED", "releaseReserve", "PREPARE_COMMIT", "committable"}
      /\ ctl.at = 50 => Cmd = "COMMITTED"
      /\ ctl.at = 16 => Cmd = "STOP_INITIATED"
      /\ 50 < ctl.at => Cmd \in {"COMMIT", "resultSuccess"}
  BY <1>1 DEF ForwardEntry
<1>6. /\ Before("SOURCE_EXPORTED", "STOP_INITIATED") /\ Before("BUILD_VERIFIED", "STOP_INITIATED")
      /\ Before("INSTALL_HOLD_VERIFIED", "STOP_INITIATED") /\ Before("DRIVER_PREPARED", "STOP_INITIATED")
  BY RankOf DEF Before
<1>7. /\ Before("SOURCE_EXPORTED", "COMMITTED") /\ Before("BUILD_VERIFIED", "COMMITTED")
      /\ Before("INSTALL_HOLD_VERIFIED", "COMMITTED") /\ Before("DRIVER_PREPARED", "COMMITTED")
      /\ Before("STOP_INITIATED", "COMMITTED") /\ Before("CURRENT_STOPPED", "COMMITTED")
      /\ Before("CURRENT_HELD", "COMMITTED") /\ Before("DRIVER_PUBLISHED", "COMMITTED")
      /\ Before("PROBES_VERIFIED", "COMMITTED") /\ Before("NEW_PUBLISHED", "COMMITTED")
      /\ Before("PERSISTENT_BOOTSTRAPPED", "COMMITTED") /\ Before("READY_VERIFIED", "COMMITTED")
  BY RankOf DEF Before
<1>8. ASSUME ctl.at <= 15, Cmd \in V7States
      PROVE  Cmd \in {"SOURCE_EXPORTED", "BUILD_VERIFIED", "INSTALL_HOLD_VERIFIED", "DRIVER_PREPARED"}
  BY <1>3, <1>8, Alphabet DEF DriverRestored
<1>9. ASSUME 16 <= ctl.at, ctl.at <= 45, Cmd \in V7States
      PROVE  Cmd \in {"STOP_INITIATED", "CURRENT_STOPPED", "CURRENT_HELD", "DRIVER_PUBLISHED",
                      "PROBES_VERIFIED", "NEW_PUBLISHED", "PERSISTENT_BOOTSTRAPPED"}
  BY <1>4, <1>9, Alphabet DEF DriverRestored
<1>10. ASSUME 46 <= ctl.at, ctl.at <= 49, Cmd \in V7States PROVE Cmd = "READY_VERIFIED"
  BY <1>5, <1>10, Alphabet DEF DriverRestored
<1>11. {"STOP_INITIATED", "READY_VERIFIED", "COMMITTED"} \subseteq V7States
       /\ "COMMIT" \notin V7States /\ "resultSuccess" \notin V7States
  BY Alphabet DEF DriverRestored
<1>12. Cmd \in V7States => ctl.at <= 50
  BY <1>1, <1>5, <1>11
<1>13. Cmd \in V7States /\ ctl.at <= 15 => Before(Cmd, "STOP_INITIATED")
  BY <1>6, <1>8
<1>14. Cmd \in V7States /\ ctl.at <= 49 => Before(Cmd, "COMMITTED") /\ Cmd # "COMMITTED"
  BY <1>1, <1>7, <1>8, <1>9, <1>10
<1>15. QED BY <1>2, <1>5, <1>10, <1>11, <1>12, <1>13, <1>14

\* A command that goes on does not fail.
LEMMA OneCourse ==
  ASSUME IInv, NEW c, NEW e, Course(c, e), Onward(c, e)
  PROVE  /\ ~Steered(c, e)
         /\ ctl'.run = ctl.run /\ ctl'.at = ctl.at + 1 /\ ctl'.state = c.state
         /\ ctl'.healthy = c.healthy /\ ctl'.stopped = c.stopped /\ ctl'.why = ctl.why
         /\ ctl'.who = ctl.who /\ ctl'.sent = FALSE /\ ev' = e /\ UNCHANGED <<cli, px, drv, rt>>
<1>1. /\ c \in Control /\ c.run = ctl.run /\ c.at = ctl.at /\ c.why = ctl.why /\ c.who = ctl.who
      /\ ctl.run \in Planned /\ ctl.at \in Nat
  BY DEF Course, SamePlace, IInv, Types, Control
<1>2. /\ ctl' = [c EXCEPT !.at = c.at + 1, !.sent = FALSE] /\ ev' = e
      /\ UNCHANGED <<cli, px, drv, rt>>
  BY DEF Onward, Course
<1>3. /\ ctl'.run = ctl.run /\ ctl'.at = ctl.at + 1 /\ ctl'.state = c.state
      /\ ctl'.healthy = c.healthy /\ ctl'.stopped = c.stopped /\ ctl'.why = ctl.why
      /\ ctl'.who = ctl.who /\ ctl'.sent = FALSE
  BY <1>1, <1>2 DEF Control
<1>4. ASSUME Steered(c, e) PROVE FALSE
  <2>1. ctl' # Idled /\ ctl'.at # ctl.at
    BY <1>1, <1>3 DEF Idled, Planned
  <2>2. ctl' # [c EXCEPT !.stopped = FALSE]
    BY <1>1, <2>1 DEF Control
  <2>3. /\ ctl' # [c EXCEPT !.run = "undoCommit", !.at = 1, !.sent = FALSE] \/ ctl.run # "forward"
        /\ ctl' # [c EXCEPT !.run = "unwind", !.at = 1, !.sent = FALSE, !.locked = FALSE] \/ ctl.run # "forward"
    BY <1>1, <1>3 DEF Control
  <2>4. ASSUME NEW x, ctl.run # "rollback"
        PROVE  ctl' # [c EXCEPT !.run = "rollback", !.why = "failure", !.at = 1, !.sent = FALSE,
                                !.locked = FALSE, !.exp = x]
    BY <1>1, <1>3, <2>4 DEF Control
  <2>5. QED BY <1>4, <2>1, <2>2, <2>3, <2>4 DEF Steered, Left
<1>5. QED BY <1>2, <1>3, <1>4

\* The update goes on, and its view of the journal with it.
LEMMA KeptOnward ==
  ASSUME IInv, Penned, ctl.run = "forward", NEW c, NEW e, Course(c, e), Taken(c, e), Onward(c, e)
  PROVE  /\ ctl'.run = "forward" /\ ctl'.at = ctl.at + 1
         /\ ctl'.at <= 50 => Kept(ctl', ev'[7])
         /\ ctl'.at > 50 => ctl'.state = "COMMITTED" /\ ev'[7].state = "COMMITTED"
<1>1. /\ c \in Control /\ c.run = "forward" /\ c.at = ctl.at /\ ctl.at \in 1..52 /\ ~Skips
      /\ c.healthy \in BOOLEAN /\ c.stopped \in BOOLEAN
  BY ForwardCommand DEF Course, SamePlace, Skips, Control
<1>2. /\ ctl'.run = c.run /\ ctl'.at = c.at + 1 /\ ctl'.state = c.state /\ ctl'.healthy = c.healthy
      /\ ctl'.stopped = c.stopped /\ ev' = e /\ ~Steered(c, e)
  BY <1>1, OneCourse
<1>3. Cmd \notin {"tryBootout", "tryDrain", "reopen"}
  BY ForwardCommand DEF ForwardText
<1>4. CASE ctl.at <= 50
  <2>1. Kept(ctl, ev[7])
    BY <1>4 DEF Penned
  <2>2. ctl.state = ev[7].state /\ ctl.healthy /\ ctl.stopped /\ ev[7].tail = "clean"
    BY <2>1 DEF Kept
  <2>3. CASE Plainly(c, e)
    <3>1. Cmd \notin V7States /\ c.state = ctl.state /\ c.healthy /\ c.stopped /\ SameJournal(e)
      BY <1>1, <1>2, <1>3, <2>2, <2>3 DEF Plainly
    <3>2. ctl.at \notin {16, 46, 50}
      BY <3>1, ForwardStates
    <3>3. QED BY <1>1, <1>2, <1>4, <2>1, <2>2, <3>1, <3>2 DEF Kept, SameJournal
  <2>4. CASE Recorded(c, e)
    <3>1. Cmd \in V7States /\ c.state = Cmd /\ c.healthy /\ c.stopped /\ Appended(e, Cmd)
          /\ validate_v7_transition(ev[7].state, Cmd)
      BY <2>2, <2>4 DEF Recorded, CanAppend
    <3>2. e[7].state = Cmd /\ e[7].tail = "clean"
      BY <2>2, <3>1 DEF Appended
    <3>3. QED BY <1>1, <1>2, <1>4, <3>1, <3>2, ForwardStates DEF Kept
  <2>5. CASE Unrecorded(c, e)
    BY <1>2, <2>5 DEF Unrecorded
  <2>6. CASE Reopened(c, e)
    BY <1>3, <2>6 DEF Reopened
  <2>7. QED BY <2>3, <2>4, <2>5, <2>6 DEF Taken
<1>5. CASE ctl.at > 50
  <2>1. ctl.state = "COMMITTED" /\ ev[7].state = "COMMITTED"
    BY <1>5 DEF Penned
  <2>2. Cmd \notin V7States
    BY <1>1, <1>5, ForwardStates
  <2>3. Plainly(c, e)
    BY <1>3, <2>2 DEF Taken, Recorded, Unrecorded, Reopened
  <2>4. QED BY <1>1, <1>2, <1>5, <2>1, <2>3 DEF Plainly, SameJournal
<1>6. QED BY <1>1, <1>2, <1>4, <1>5

\* A command that fails: where the controller is afterwards.
LEMMA SteeredTo ==
  ASSUME IInv, NEW c, NEW e, Course(c, e), Steered(c, e)
  PROVE  /\ ev' \in [All -> Evidence] /\ ev'[7].root
         /\ \/ Left /\ (Concluded(e) \/ Critical(c, e)) /\ ctl'.run = "none"
            \/ /\ UNCHANGED px /\ cli'["restore"] = cli["restore"] /\ cli'["broker"].q = cli["broker"].q
               /\ ev'[7].state = e[7].state /\ ev'[7].tail = e[7].tail
               /\ ctl'.state = c.state /\ ctl'.healthy = c.healthy /\ ctl'.who = ctl.who
               /\ \/ /\ ctl.run = "forward" /\ ctl'.run = "unwind" /\ ctl.at \in 14..47 /\ ctl'.at = 1
                     /\ ctl'.stopped = c.stopped /\ UNCHANGED cli
                  \/ /\ ctl.run = "forward" /\ ctl'.run = "undoCommit" /\ ctl.at \in 48..50 /\ ctl'.at = 1
                     /\ ctl'.stopped = c.stopped /\ UNCHANGED cli
                  \/ ctl.run = "forward" /\ ctl'.run = "forward" /\ ctl.at = 51 /\ ctl'.at = 51
                  \/ /\ ctl.run \in {"forward", "unwind", "undoCommit"} /\ ctl'.run = "rollback"
                     /\ ctl'.at = 1 /\ c.state # "COMMITTED" /\ crossed_stop(c.state, e) /\ ctl'.why = "failure"
<1>1. /\ c \in Control /\ c.run = ctl.run /\ c.at = ctl.at /\ c.why = ctl.why /\ c.who = ctl.who
      /\ e \in [All -> Evidence] /\ e[7].root /\ ctl.run \in Planned
  BY DEF Course, SamePlace
<1>2. cli \in [Sides -> Clients] /\ "broker" \in Sides /\ "restore" \in Sides /\ cli["broker"] \in Clients
  BY SideIs DEF IInv, Types, ProcessType, Sides
<1>3. ASSUME NEW k \in Clients, NEW a
      PROVE  [k EXCEPT !.at = a].q = k.q
  BY DEF Clients
<1>4. CASE Left /\ (Concluded(e) \/ Critical(c, e))
  BY <1>1, <1>4 DEF Left, Concluded, Critical, Idled
<1>5. CASE /\ ctl.run = "forward" /\ ctl.at \in 14..47
           /\ ctl' = [c EXCEPT !.run = "unwind", !.at = 1, !.sent = FALSE, !.locked = FALSE]
           /\ ev' = e /\ UNCHANGED <<cli, px>>
  <2>1. ctl'.run = "unwind" /\ ctl'.at = 1 /\ ctl'.state = c.state /\ ctl'.healthy = c.healthy
        /\ ctl'.who = c.who /\ ctl'.stopped = c.stopped
    BY <1>1, <1>5 DEF Control
  <2>2. QED BY <1>1, <1>5, <2>1
<1>6. CASE /\ ctl.run = "forward" /\ Cmd \in {"PREPARE_COMMIT", "committable", "COMMITTED"}
           /\ ctl' = [c EXCEPT !.run = "undoCommit", !.at = 1, !.sent = FALSE]
           /\ ev' = e /\ UNCHANGED <<cli, px>>
  <2>1. ctl'.run = "undoCommit" /\ ctl'.at = 1 /\ ctl'.state = c.state /\ ctl'.healthy = c.healthy
        /\ ctl'.who = c.who /\ ctl'.stopped = c.stopped
    BY <1>1, <1>6 DEF Control
  <2>2. ctl.at \in 48..50
    BY <1>6, ForwardCommand DEF ForwardText
  <2>3. QED BY <1>1, <1>6, <2>1, <2>2
<1>7. CASE /\ ctl.run = "forward" /\ Cmd = "COMMIT"
           /\ ctl' = [c EXCEPT !.stopped = FALSE] /\ ev' = e
           /\ cli' = [cli EXCEPT !["broker"].at = "closed"] /\ UNCHANGED px
  <2>1. ctl'.run = "forward" /\ ctl'.at = ctl.at /\ ctl'.state = c.state /\ ctl'.healthy = c.healthy
        /\ ctl'.who = c.who
    BY <1>1, <1>7 DEF Control
  <2>2. ctl.at = 51
    BY <1>7, ForwardCommand DEF ForwardText
  <2>3. cli'["restore"] = cli["restore"] /\ cli'["broker"].q = cli["broker"].q
    BY <1>2, <1>3, <1>7
  <2>4. QED BY <1>1, <1>7, <2>1, <2>2, <2>3
<1>8. CASE /\ ctl.run \in {"forward", "unwind", "undoCommit"}
           /\ c.state # "COMMITTED" /\ crossed_stop(c.state, e)
           /\ Concluded(e)
           /\ \E x \in {"present", "absent"} :
                ctl' = [c EXCEPT !.run = "rollback", !.why = "failure", !.at = 1, !.sent = FALSE,
                                 !.locked = FALSE, !.exp = x]
           /\ cli' = Dropped(cli, "broker") /\ UNCHANGED px
  <2>1. /\ ctl'.run = "rollback" /\ ctl'.at = 1 /\ ctl'.state = c.state /\ ctl'.healthy = c.healthy
        /\ ctl'.who = c.who /\ ctl'.why = "failure"
    <3>1. PICK x \in {"present", "absent"} :
            ctl' = [c EXCEPT !.run = "rollback", !.why = "failure", !.at = 1, !.sent = FALSE,
                             !.locked = FALSE, !.exp = x]
      BY <1>8
    <3>2. QED BY <1>1, <3>1 DEF Control
  <2>2. cli'["restore"] = cli["restore"] /\ cli'["broker"].q = cli["broker"].q
    <3>1. \E a : cli' = [cli EXCEPT !["broker"] = [cli["broker"] EXCEPT !.at = a]]
      <4>1. cli' = [cli EXCEPT !["broker"].at = IF @ \in {"open", "closed"} THEN "dropped" ELSE @]
        BY <1>8 DEF Dropped
      <4> DEFINE a == IF cli["broker"].at \in {"open", "closed"} THEN "dropped" ELSE cli["broker"].at
      <4>2. cli' = [cli EXCEPT !["broker"] = [cli["broker"] EXCEPT !.at = a]]
        BY <4>1
      <4> HIDE DEF a
      <4>3. QED BY <4>2
    <3>2. QED BY <1>2, <1>3, <3>1
  <2>3. QED BY <1>1, <1>8, <2>1, <2>2 DEF Concluded
<1>9. QED BY <1>4, <1>5, <1>6, <1>7, <1>8 DEF Steered

\* A command leaves the pen with the update.
LEMMA PennedCourse == IInv /\ Penned /\ Coursed => Penned'
<1> SUFFICES ASSUME IInv, Penned, NEW c, NEW e, Course(c, e), Taken(c, e) PROVE Penned'
  BY DEF Coursed
<1>1. /\ c.state \in V7States /\ c.run = ctl.run /\ c.at = ctl.at /\ ctl.run \in Planned
      /\ e[7].root /\ UNCHANGED rt
  BY DEF Course, SamePlace, Control
<1>2. CASE Onward(c, e)
  <2>1. /\ ctl'.run = ctl.run /\ ev' = e /\ UNCHANGED <<cli, px, rt>> /\ ctl'.at = ctl.at + 1
    BY <1>2, OneCourse
  <2>2. ctl.run = "forward" =>
          /\ ctl'.at <= 50 => Kept(ctl', ev'[7])
          /\ ctl'.at > 50 => ctl'.state = "COMMITTED" /\ ev'[7].state = "COMMITTED"
    BY <1>2, KeptOnward
  <2>3. ctl.run = "forward" => ctl.at \in 1..52
    BY ForwardCommand
  <2>4. QED BY <1>1, <2>1, <2>2, <2>3 DEF Penned, Planned
<1>3. CASE Steered(c, e)
  <2>1. ev'[7].root
    BY <1>3, SteeredTo
  <2>2. ASSUME ctl'.run \in {"forward", "unwind", "undoCommit"}
        PROVE  ctl.run \in {"forward", "unwind", "undoCommit"} /\ UNCHANGED <<px, rt>>
    BY <1>1, <1>3, <2>2, SteeredTo
  <2>3. ASSUME ctl'.run = "forward"
        PROVE  ctl'.at = 51 /\ ctl'.state = "COMMITTED" /\ ev'[7].state = "COMMITTED"
    <3>1. ctl.run = "forward" /\ ctl.at = 51 /\ ctl'.at = 51 /\ ctl'.state = c.state /\ ev'[7].state = e[7].state
      BY <1>3, <2>3, SteeredTo
    <3>2. ctl.state = "COMMITTED" /\ ev[7].state = "COMMITTED"
      BY <3>1 DEF Penned
    <3>3. Cmd = "COMMIT"
      BY <3>1, ForwardCommand DEF ForwardText
    <3>4. Plainly(c, e)
      BY <3>3, NotStates DEF Taken, Recorded, Unrecorded, Reopened
    <3>5. QED BY <3>1, <3>2, <3>4 DEF Plainly, SameJournal
  <2>4. ctl'.run # "install"
    BY <1>3, SteeredTo
  <2>5. QED BY <2>1, <2>2, <2>3, <2>4 DEF Penned
<1>4. QED BY <1>2, <1>3 DEF Taken, Plainly, Recorded, Unrecorded, Reopened

\* Where the plans ask the brokers.
LEMMA Asked ==
  ASSUME IInv, Cmd \in Asking
  PROVE  /\ Running /\ ctl.run \in {"forward", "rollback", "unwind", "undoCommit"}
         /\ ctl.run = "forward" =>
              /\ Side = "broker" /\ ctl.at \in {11, 14, 28, 30, 32, 39, 43, 48, 51}
              /\ Cmd \in {"startBroker", "PING", "PUBLISH", "PREPARE_COMMIT", "COMMIT"}
              /\ (Cmd = "startBroker") = (ctl.at = 11) /\ (Cmd = "PREPARE_COMMIT") = (ctl.at = 48)
              /\ (Cmd = "COMMIT") = (ctl.at = 51)
         /\ ctl.run = "rollback" =>
              /\ Side = "restore" /\ ctl.at \in {2, 3, 11}
              /\ (Cmd = "startRestore") = (ctl.at = 2) /\ (Cmd = "PING") = (ctl.at = 3)
              /\ (Cmd = "RESTORE") = (ctl.at = 11)
         /\ ctl.run = "unwind" => Side = "broker" /\ ctl.at = 5 /\ Cmd = "undo"
         /\ ctl.run = "undoCommit" => Side = "broker" /\ ctl.at = 4 /\ Cmd = "undo"
<1>1. Running /\ ctl.run \in Planned
  BY Commanding DEF IInv, Asking, Requests7
<1>2. Cmd \in {"PING", "PUBLISH", "PREPARE_COMMIT", "COMMIT", "undo", "RESTORE", "startBroker", "startRestore"}
  BY DEF Asking, Requests7
<1>3. ASSUME ctl.run = "forward"
      PROVE  /\ Side = "broker" /\ ctl.at \in {11, 14, 28, 30, 32, 39, 43, 48, 51}
             /\ Cmd \in {"startBroker", "PING", "PUBLISH", "PREPARE_COMMIT", "COMMIT"}
             /\ (Cmd = "startBroker") = (ctl.at = 11) /\ (Cmd = "PREPARE_COMMIT") = (ctl.at = 48)
             /\ (Cmd = "COMMIT") = (ctl.at = 51)
  BY <1>2, <1>3, ForwardCommand DEF ForwardText, Side
<1>4. ASSUME ctl.run = "rollback"
      PROVE  /\ Side = "restore" /\ ctl.at \in {2, 3, 11}
             /\ (Cmd = "startRestore") = (ctl.at = 2) /\ (Cmd = "PING") = (ctl.at = 3)
             /\ (Cmd = "RESTORE") = (ctl.at = 11)
  BY <1>1, <1>2, <1>4, Commands DEF IInv, RollbackText, Side
<1>5. ASSUME ctl.run = "unwind" PROVE Side = "broker" /\ ctl.at = 5 /\ Cmd = "undo"
  BY <1>1, <1>2, <1>5, Commands DEF IInv, UnwindText, Side
<1>6. ASSUME ctl.run = "undoCommit" PROVE Side = "broker" /\ ctl.at = 4 /\ Cmd = "undo"
  BY <1>1, <1>2, <1>6, Commands DEF IInv, UndoCommitText, Side
<1>7. ctl.run # "retire"
  BY <1>1, <1>2, Commands DEF IInv, RetireText
<1>8. QED BY <1>1, <1>3, <1>4, <1>5, <1>6, <1>7 DEF Planned

\* A request is on its way: the controller is where it was.
LEMMA Sending ==
  ASSUME IInv, ctl' = [ctl EXCEPT !.sent = TRUE]
  PROVE  /\ ctl'.who = ctl.who /\ ctl'.run = ctl.run /\ ctl'.why = ctl.why /\ ctl'.at = ctl.at
         /\ ctl'.stopped = ctl.stopped /\ ctl'.state = ctl.state /\ ctl'.healthy = ctl.healthy
         /\ ctl'.sent = TRUE
  BY DEF IInv, Types, Control

\* An answer is read: the controller goes on.
LEMMA Hearing ==
  ASSUME IInv, Heard
  PROVE  /\ ctl'.who = ctl.who /\ ctl'.run = ctl.run /\ ctl'.why = ctl.why /\ ctl'.at = ctl.at + 1
         /\ ctl'.stopped = TRUE /\ ctl'.healthy = ctl.healthy /\ ctl'.sent = FALSE
         /\ ctl'.state = IF Cmd = "RESTORE" THEN ev[7].state ELSE ctl.state
         /\ Side \in Sides
         /\ cli' = [cli EXCEPT ![Side] = cli'[Side]]
         /\ cli'[Side].at = cli[Side].at /\ cli'[Side].q = cli[Side].q
         /\ cli'[Side].r = cli[Side].r \ {Reply}
<1>1. /\ ctl'.who = ctl.who /\ ctl'.run = ctl.run /\ ctl'.why = ctl.why /\ ctl'.at = ctl.at + 1
      /\ ctl'.stopped = TRUE /\ ctl'.healthy = ctl.healthy /\ ctl'.sent = FALSE
      /\ ctl'.state = IF Cmd = "RESTORE" THEN ev[7].state ELSE ctl.state
  <2>1. ctl' = [ctl EXCEPT !.at = ctl.at + 1, !.sent = FALSE, !.stopped = TRUE,
                           !.state = IF Cmd = "RESTORE" THEN ev[7].state ELSE ctl.state]
    BY DEF Heard
  <2>2. ctl \in Control
    BY DEF IInv, Types
  <2>3. QED BY <2>1, <2>2 DEF Control
<1>2. Side \in Sides
  BY DEF Side, Sides
<1>3. cli[Side] \in Clients /\ cli \in [Sides -> Clients]
  BY <1>2, SideIs DEF IInv, Types, ProcessType
<1> DEFINE k == [cli[Side] EXCEPT !.pub = cli[Side].pub \/ Cmd = "PUBLISH", !.r = cli[Side].r \ {Reply}]
<1>4. cli' = [cli EXCEPT ![Side] = k]
  BY DEF Heard
<1>5. k.at = cli[Side].at /\ k.q = cli[Side].q /\ k.r = cli[Side].r \ {Reply}
  BY <1>3 DEF Clients
<1> HIDE DEF k
<1>6. QED BY <1>1, <1>2, <1>3, <1>4, <1>5

\* A client that sends has what it is sending in its pipe.
LEMMA Posting ==
  ASSUME IInv, Posted
  PROVE  /\ Side \in Sides /\ cli' = [cli EXCEPT ![Side] = cli'[Side]]
         /\ cli'[Side].at = "open" /\ cli'[Side].q = Append(cli[Side].q, Request7)
         /\ cli'[Side].r = cli[Side].r \ {Marker}
<1>1. Side \in Sides
  BY DEF Side, Sides
<1>2. cli[Side] \in Clients /\ cli \in [Sides -> Clients]
  BY <1>1, SideIs DEF IInv, Types, ProcessType
<1> DEFINE k == [cli[Side] EXCEPT !.q = Append(cli[Side].q, Request7), !.r = cli[Side].r \ {Marker}]
<1>3. cli' = [cli EXCEPT ![Side] = k] /\ cli[Side].at = "open"
  BY DEF Posted
<1>4. k.at = cli[Side].at /\ k.q = Append(cli[Side].q, Request7) /\ k.r = cli[Side].r \ {Marker}
  BY <1>2 DEF Clients
<1> HIDE DEF k
<1>5. QED BY <1>1, <1>2, <1>3, <1>4

\* A client whose pipe is closed.
LEMMA Hanging ==
  ASSUME IInv, Hung
  PROVE  /\ cli' = [cli EXCEPT !["broker"] = cli'["broker"]]
         /\ cli'["broker"].at = "closed" /\ cli'["broker"].q = cli["broker"].q
         /\ cli'["broker"].r = cli["broker"].r \ {Marker}
<1>1. cli["broker"] \in Clients /\ cli \in [Sides -> Clients] /\ "broker" \in Sides
  BY SideIs DEF IInv, Types, ProcessType, Sides
<1> DEFINE k == [cli["broker"] EXCEPT !.at = "closed", !.r = cli["broker"].r \ {Marker}]
<1>2. cli' = [cli EXCEPT !["broker"] = k]
  BY DEF Hung
<1>3. k.at = "closed" /\ k.q = cli["broker"].q /\ k.r = cli["broker"].r \ {Marker}
  BY <1>1 DEF Clients
<1> HIDE DEF k
<1>4. QED BY <1>1, <1>2, <1>3

\* The new side's processes.
LEMMA Spawning ==
  ASSUME IInv, Spawned
  PROVE  /\ Side \in Sides
         /\ cli' = [cli EXCEPT ![Side] = cli'[Side]] /\ px' = [px EXCEPT ![Side] = px'[Side]]
         /\ rt' = [rt EXCEPT ![Side] = rt'[Side]]
         /\ cli'[Side].at = "open" /\ cli'[Side].q = <<>> /\ cli'[Side].r = {}
         /\ px'[Side].at = "await" /\ px'[Side].want = Started /\ px'[Side].goal = "none"
         /\ px'[Side].begun = "no"
         /\ rt'[Side].at = "ready" /\ rt'[Side].cmd = Started /\ rt'[Side].reply = "none"
<1>1. Side \in Sides /\ cli \in [Sides -> Clients] /\ px \in [Sides -> ProxyStates] /\ rt \in [Sides -> RootStates]
  BY DEF Side, Sides, IInv, Types, ProcessType
<1> DEFINE k == [NoClient EXCEPT !.at = "open"]
           x == [NoProxy EXCEPT !.at = "await", !.want = Started]
           r == [NoRoot EXCEPT !.at = "ready", !.cmd = Started]
<1>2. cli' = [cli EXCEPT ![Side] = k] /\ px' = [px EXCEPT ![Side] = x] /\ rt' = [rt EXCEPT ![Side] = r]
  BY DEF Spawned, Started
<1>3. /\ k.at = "open" /\ k.q = <<>> /\ k.r = {}
      /\ x.at = "await" /\ x.want = Started /\ x.goal = "none" /\ x.begun = "no"
      /\ r.at = "ready" /\ r.cmd = Started /\ r.reply = "none"
  BY DEF NoClient, NoProxy, NoRoot
<1> HIDE DEF k, x, r
<1>4. QED BY <1>1, <1>2, <1>3

\* A request leaves the pen with the update.
LEMMA PennedSpawned == IInv /\ Penned /\ Spawned => Penned'
<1> SUFFICES ASSUME IInv, Penned, Spawned PROVE Penned'
  OBVIOUS
<1>1. Cmd \in {"startBroker", "startRestore"} /\ UNCHANGED ev /\ ctl' = [ctl EXCEPT !.sent = TRUE]
  BY DEF Spawned
<1>2. Cmd \in Asking
  BY <1>1 DEF Asking
<1>3. Running /\ ctl.run \in Planned
  BY <1>2, Asked DEF Planned
<1>4. ev[7].root
  BY <1>3, EvidenceIs
<1>5. ctl.run = "forward" => Side = "broker" /\ ctl.at = 11
  BY <1>1, <1>2, Asked
<1>6. ctl.run \notin {"unwind", "undoCommit"}
  BY <1>1, <1>2, Asked
<1>7. ctl'.run = "forward" =>
        /\ UNCHANGED <<cli["restore"], px["restore"], rt["restore"]>>
        /\ Held(cli'["broker"], px'["broker"])
  <2>1. ASSUME ctl'.run = "forward"
        PROVE  /\ UNCHANGED <<cli["restore"], px["restore"], rt["restore"]>>
               /\ Held(cli'["broker"], px'["broker"])
    <3>1. Side = "broker"
      BY <1>1, <1>5, <2>1, Sending
    <3>2. UNCHANGED <<cli["restore"], px["restore"], rt["restore"]>>
      <4>1. /\ "restore" \in Sides /\ cli \in [Sides -> Clients] /\ px \in [Sides -> ProxyStates]
            /\ rt \in [Sides -> RootStates]
        BY DEF Sides, IInv, Types, ProcessType
      <4>2. QED BY <3>1, <4>1, Spawning
    <3>3. Held(cli'["broker"], px'["broker"])
      BY <3>1, Spawning DEF Held, Meek
    <3>4. QED BY <3>2, <3>3
  <2>2. QED BY <2>1
<1>8. ctl'.run = ctl.run /\ ctl'.at = ctl.at /\ ctl'.state = ctl.state /\ ctl'.healthy = ctl.healthy
      /\ ctl'.stopped = ctl.stopped
  BY <1>1, Sending
<1>9. ctl'.run = "forward" => Unused(px["restore"], rt["restore"])'
  BY <1>7, <1>8 DEF Penned, Unused
<1>10. ctl'.run = "forward" => Kept(ctl', ev'[7]) /\ ctl'.at = 11
  BY <1>1, <1>5, <1>8 DEF Penned, Kept
<1>11. QED BY <1>1, <1>3, <1>4, <1>6, <1>7, <1>8, <1>9, <1>10 DEF Penned, Planned

\* Requests and answers leave the pen with the update.
LEMMA PennedClient == IInv /\ Penned /\ (Posted \/ Hung \/ Heard) => Penned'
<1> SUFFICES ASSUME IInv, Penned, Posted \/ Hung \/ Heard PROVE Penned'
  OBVIOUS
<1>1. Cmd \in Asking /\ UNCHANGED <<ev, px, rt>>
  BY DEF Posted, Hung, Heard, Asking, Requests7
<1>2. Running /\ ctl.run \in Planned
  BY <1>1, Asked DEF Planned
<1>3. ev[7].root
  BY <1>2, EvidenceIs
<1>4. /\ ctl'.healthy = ctl.healthy /\ (ctl'.at = ctl.at \/ (ctl'.at = ctl.at + 1 /\ Heard))
      /\ ctl'.stopped = TRUE \/ ctl'.stopped = ctl.stopped
  <2>1. CASE Posted \/ Hung
    BY <2>1, Sending DEF Posted, Hung
  <2>2. CASE Heard
    BY <2>2, Hearing
  <2>3. QED BY <2>1, <2>2
<1>5. ctl'.run = ctl.run
  BY Sending, Hearing DEF Posted, Hung
<1>6. ASSUME ctl.run = "forward"
      PROVE  /\ ctl'.state = ctl.state
             /\ ctl.at \in {11, 14, 28, 30, 32, 39, 43, 48, 51}
             /\ cli'["broker"].at = cli["broker"].at
  <2>1. Cmd # "RESTORE" /\ ctl.at \in {11, 14, 28, 30, 32, 39, 43, 48, 51} /\ Cmd # "undo" /\ Side = "broker"
    BY <1>1, <1>6, Asked
  <2>2. ctl'.state = ctl.state
    BY <2>1, Sending, Hearing DEF Posted, Hung
  <2>3. cli'["broker"].at = cli["broker"].at
    BY <2>1, Posting, Hearing DEF Posted, Hung
  <2>4. QED BY <2>1, <2>2, <2>3
<1>7. ctl.run = "forward" /\ ctl'.at <= 50 =>
        Kept(ctl', ev'[7]) /\ Held(cli'["broker"], px'["broker"])
  <2>1. SUFFICES ASSUME ctl.run = "forward", ctl'.at <= 50
                 PROVE  Kept(ctl', ev'[7]) /\ Held(cli'["broker"], px'["broker"])
    OBVIOUS
  <2>2. ctl.at \in {11, 14, 28, 30, 32, 39, 43, 48}
    BY <1>4, <1>6, <2>1
  <2>3. Kept(ctl, ev[7]) /\ Held(cli["broker"], px["broker"])
    BY <2>1, <2>2 DEF Penned
  <2>4. Held(cli'["broker"], px'["broker"])
    BY <1>1, <1>6, <2>1, <2>3 DEF Held
  <2>5. Kept(ctl', ev'[7])
    <3>1. /\ ctl.healthy /\ ctl.stopped /\ ev[7].tail = "clean" /\ ctl.state = ev[7].state
          /\ Before(ctl.state, "COMMITTED")
          /\ ctl.at \in {11, 14} => Before(ctl.state, "STOP_INITIATED")
          /\ ctl.at = 48 => ctl.state = "READY_VERIFIED"
      BY <2>2, <2>3 DEF Kept
    <3>2. /\ ctl'.healthy /\ ctl'.stopped /\ ctl'.state = ctl.state
          /\ ev'[7].tail = "clean" /\ ctl'.state = ev'[7].state
      BY <1>1, <1>4, <1>6, <2>1, <3>1
    <3>3. \/ ctl'.at \in {11, 14, 12, 15} /\ ctl.at \in {11, 14}
          \/ ctl'.at \in {28, 30, 32, 39, 43, 29, 31, 33, 40, 44}
          \/ ctl'.at \in {48, 49} /\ ctl.at = 48
      BY <1>4, <2>2
    <3>4. /\ ctl'.at <= 16 => ctl.at \in {11, 14}
          /\ 46 < ctl'.at => ctl.at = 48
      BY <3>3
    <3>5. QED BY <3>1, <3>2, <3>4 DEF Kept
  <2>6. QED BY <2>4, <2>5
<1>8. ctl.run = "forward" /\ ctl'.at > 50 => ctl'.state = "COMMITTED" /\ ev'[7].state = "COMMITTED"
  <2>1. SUFFICES ASSUME ctl.run = "forward", ctl'.at > 50
                 PROVE  ctl'.state = "COMMITTED" /\ ev'[7].state = "COMMITTED"
    OBVIOUS
  <2>2. ctl.at = 51
    BY <1>4, <1>6, <2>1
  <2>3. QED BY <1>1, <1>6, <2>1, <2>2 DEF Penned
<1>9. QED BY <1>1, <1>2, <1>3, <1>5, <1>7, <1>8 DEF Penned, Planned

-----------------------------------------------------------------------------
(* What a proxy may do.                                                    *)

\* A step of the side p alone: the driver, the app and the states of the
\* journal that matter to a committed update are left as they are.
Aside(p) ==
  /\ \A s \in Sides \ {p} : cli'[s] = cli[s] /\ px'[s] = px[s] /\ rt'[s] = rt[s]
  /\ UNCHANGED <<app, drv>> /\ ev'[7].root = ev[7].root
  /\ cli[p].at = "open" => cli'[p].at = "open"
  /\ rt'[p].at = rt[p].at /\ rt'[p].pub = rt[p].pub /\ rt'[p].rdy = rt[p].rdy

\* What the proxy p writes to the journal: the intent, or that the driver is
\* restored, when it has just read what it may follow.
Appending(p) ==
  \/ ev'[7].state = ev[7].state /\ ev'[7].tail \in {"clean", ev[7].tail}
  \/ /\ px[p].at = "begin" /\ BeginsRollback
     /\ ev'[7].state = "ROLLBACK_STARTED" /\ ev'[7].tail = "clean"
  \/ /\ px[p].at = "finish" /\ ev[7].state = "ROLLBACK_STARTED"
     /\ ev'[7].state = "DRIVER_RESTORED" /\ ev'[7].tail = "clean"

\* The journal and the controller beside a step of the side p.
Writing(p) ==
  /\ ev'[7].state = "COMMITTED" <=> ev[7].state = "COMMITTED"
  /\ ev[7].state = "COMMITTED" => ev'[7].tail \in {"clean", ev[7].tail}
  /\ px[p].at \in {"begin", "lock"} \/ (px[p].at = "finish" /\ px[p].goal # "reject" /\ px[p].begun = "yes")
     \/ SameJournal(ev')
  /\ \/ ctl' = ctl
     \/ /\ px[p].at = "lock" /\ ev'[7].state = "DRIVER_RESTORED" /\ ev'[7].tail = "clean"
        /\ ctl'.who = p /\ ctl'.run = "rollback" /\ ctl'.at = 1 /\ ctl'.healthy
        /\ ctl'.state = "DRIVER_RESTORED"
  /\ Appending(p)

\* The side's pipe is closed, or its controller is late.
Orphan(p) == cli[p].q = <<>> /\ (cli[p].at = "open" => "controller" \in Slow)

\* The proxy of the side p ends.
Ends(p) ==
  /\ px[p].at # "off" /\ px'[p].at = "off" /\ rt'[p] = rt[p] /\ cli'[p].q = cli[p].q
  /\ "PREPARE_COMMIT" \in cli'[p].r => "PREPARE_COMMIT" \in cli[p].r
  /\ px[p].at = "loop" => Orphan(p) /\ p = "broker" /\ ~(px[p].pub /\ px[p].rdy)

\* It has relayed an answer and is back in its loop.
Returns(p) ==
  /\ px[p].at = "await" /\ px[p].goal = "none" /\ rt[p].reply = px[p].want /\ px[p].want \notin Terminal
  /\ px'[p].at = "loop" /\ px'[p].goal = "none" /\ px'[p].begun = px[p].begun
  /\ px'[p].pub = (px[p].pub \/ px[p].want = "PUBLISH")
  /\ px'[p].rdy = (px[p].rdy \/ px[p].want = "PREPARE_COMMIT")
  /\ rt'[p] = rt[p] /\ cli'[p].q = cli[p].q /\ cli'[p].r \subseteq cli[p].r \cup {px[p].want}

\* Where a proxy takes the command c from that it asks root for.
Source(p, c) ==
  \/ /\ px[p].at = "loop" /\ cli[p].q # <<>> /\ c = Head(cli[p].q) /\ cli'[p].q = Tail(cli[p].q)
     /\ IF p = "broker" THEN InSequence(px[p], c) ELSE c = "PING"
     /\ px'[p].goal = px[p].goal /\ px'[p].begun = px[p].begun
  \/ /\ px[p].at = "loop" /\ cli[p].q # <<>> /\ c = "PING" /\ cli'[p].q = Tail(cli[p].q)
     /\ p = "broker" /\ ~InSequence(px[p], Head(cli[p].q))
     /\ px'[p].goal = "reject" /\ px'[p].begun = px[p].begun
  \/ /\ px[p].at = "loop" /\ Orphan(p) /\ uid_proxy_journal_committed /\ cli'[p].q = cli[p].q
     /\ IF p = "broker" THEN px[p].pub /\ px[p].rdy /\ c = "COMMIT" ELSE c = "ABORT"
  \/ /\ px[p].at \in {"begin", "undo"} /\ c \in {"PING", "ROLLBACK", "ABANDON", "RESTORE"}
     /\ cli'[p].q = cli[p].q /\ px'[p].goal = px[p].goal
     /\ px[p].at = "undo" => px'[p].begun = px[p].begun

\* It asks root and waits.
Asks(p) ==
  \E c \in Words(p) :
    /\ px'[p].at = "await" /\ px'[p].want = c /\ px'[p].pub = px[p].pub /\ px'[p].rdy = px[p].rdy
    /\ rt'[p].cmd = (IF rt[p].at = "ready" THEN c ELSE "none") /\ rt'[p].reply = "none"
    /\ cli'[p].r = cli[p].r /\ Source(p, c)

\* It goes on with its cleanup or its rollback.
Wanders(p) ==
  /\ px[p].at # "off" /\ px'[p].at \notin {"off", "await", "loop"} /\ rt'[p] = rt[p]
  /\ "PREPARE_COMMIT" \in cli'[p].r => "PREPARE_COMMIT" \in cli[p].r
  /\ IF px[p].at = "loop"
     THEN \/ p = "restore" /\ cli[p].q # <<>> /\ Head(cli[p].q) # "PING"
          \/ Orphan(p) /\ ~uid_proxy_journal_committed
     ELSE /\ px'[p].goal = px[p].goal /\ px'[p].at # "begin"
          /\ px[p].at # "begin" => px'[p].begun = px[p].begun
          /\ px'[p].at = "lock" => px[p].begun = "yes"
          /\ px'[p].at = "rollback" => px[p].at = "lock"
          /\ px[p].at = "await" => px[p].goal # "none" /\ px[p].want \notin {"COMMIT", "ABORT"}

\* What a step of the proxy p may do.
Stepped(p) == Aside(p) /\ Writing(p) /\ (Ends(p) \/ Returns(p) \/ Asks(p) \/ Wanders(p))

\* A proxy's step that leaves the clients and root alone.
LEMMA AloneAside ==
  ASSUME IInv, NEW p \in Sides, NEW x, px' = [px EXCEPT ![p] = x],
         UNCHANGED <<app, drv, cli, rt>>, ev'[7].root = ev[7].root
  PROVE  Aside(p) /\ px'[p] = x /\ cli'[p] = cli[p] /\ rt'[p] = rt[p]
<1>1. px \in [Sides -> ProxyStates]
  BY DEF IInv, Types, ProcessType
<1>2. px'[p] = x /\ \A s \in Sides \ {p} : px'[s] = px[s]
  BY <1>1
<1>3. QED BY <1>2 DEF Aside

\* A step that does not touch the journal.
LEMMA EvenWriting == ASSUME UNCHANGED <<ev, ctl>>, NEW p PROVE Writing(p) /\ ev'[7].root = ev[7].root
  BY DEF Writing, Appending, SameJournal

\* A question to root.
LEMMA AskAside ==
  ASSUME IInv, NEW p \in Sides, NEW k, cli' = [cli EXCEPT ![p] = k], k.at = cli[p].at,
         NEW x \in ProxyStates, NEW c \in Words(p), Ask(p, x, c),
         UNCHANGED <<app, drv>>, ev'[7].root = ev[7].root
  PROVE  /\ Aside(p) /\ cli'[p] = k
         /\ px'[p].at = "await" /\ px'[p].want = c /\ px'[p].pub = x.pub /\ px'[p].rdy = x.rdy
         /\ px'[p].goal = x.goal /\ px'[p].begun = x.begun
         /\ rt'[p].cmd = (IF rt[p].at = "ready" THEN c ELSE "none") /\ rt'[p].reply = "none"
<1> DEFINE y == [x EXCEPT !.at = "await", !.want = c]
           d == IF rt[p].at = "ready" THEN c ELSE "none"
           r == [rt[p] EXCEPT !.cmd = d, !.reply = "none"]
<1>1. /\ rt[p] \in RootStates /\ rt \in [Sides -> RootStates] /\ px \in [Sides -> ProxyStates]
      /\ cli \in [Sides -> Clients]
  BY SideIs DEF IInv, Types, ProcessType
<1>2. px' = [px EXCEPT ![p] = y] /\ rt' = [rt EXCEPT ![p].cmd = d, ![p].reply = "none"]
  BY DEF Ask
<1>3. rt' = [rt EXCEPT ![p] = r]
  BY <1>1, <1>2 DEF RootStates
<1>4. /\ y.at = "await" /\ y.want = c /\ y.pub = x.pub /\ y.rdy = x.rdy /\ y.goal = x.goal
      /\ y.begun = x.begun
  BY DEF ProxyStates
<1>5. /\ r.cmd = d /\ r.reply = "none" /\ r.at = rt[p].at /\ r.pub = rt[p].pub /\ r.rdy = rt[p].rdy
  BY <1>1 DEF RootStates
<1> HIDE DEF y, r
<1>6. px'[p] = y /\ rt'[p] = r /\ cli'[p] = k
      /\ \A s \in Sides \ {p} : cli'[s] = cli[s] /\ px'[s] = px[s] /\ rt'[s] = rt[s]
  BY <1>1, <1>2, <1>3
<1>7. Aside(p)
  BY <1>5, <1>6 DEF Aside
<1>8. QED BY <1>4, <1>5, <1>6, <1>7

\* A line on standard output.
LEMMA RelayAside ==
  ASSUME IInv, NEW p \in Sides, NEW line, NEW x, Relayed(p, line, x), UNCHANGED <<app, drv, ev, ctl, rt>>
  PROVE  /\ Aside(p) /\ Writing(p) /\ rt'[p] = rt[p]
         /\ px'[p] = x \/ (px'[p] = Exit(px[p], "err") /\ cli'[p] = cli[p])
         /\ cli'[p].q = cli[p].q /\ cli'[p].r \subseteq cli[p].r \cup {line}
<1>1. cli[p] \in Clients /\ cli \in [Sides -> Clients] /\ px \in [Sides -> ProxyStates]
  BY SideIs DEF IInv, Types, ProcessType
<1>2. px'[p] = x \/ (px'[p] = Exit(px[p], "err") /\ cli' = cli)
  BY <1>1 DEF Relayed
<1>3. \A s \in Sides \ {p} : px'[s] = px[s]
  BY <1>1 DEF Relayed
<1>4. /\ \A s \in Sides \ {p} : cli'[s] = cli[s]
      /\ cli[p].at = "open" => cli'[p].at = "open"
      /\ cli'[p].q = cli[p].q /\ cli'[p].r \subseteq cli[p].r \cup {line}
  <2>1. CASE cli' = [cli EXCEPT ![p].r = @ \cup {line}]
    <3> DEFINE l == cli[p].r \cup {line}
               k == [cli[p] EXCEPT !.r = l]
    <3>1. cli' = [cli EXCEPT ![p] = k]
      BY <2>1
    <3> HIDE DEF l
    <3>2. k.q = cli[p].q /\ k.r = l /\ k.at = cli[p].at
      BY <1>1 DEF Clients
    <3> HIDE DEF k
    <3>3. QED BY <1>1, <3>1, <3>2 DEF l
  <2>2. CASE cli[p].at = "dropped" /\ cli' = [cli EXCEPT ![p].at = "deaf"]
    <3> DEFINE k == [cli[p] EXCEPT !.at = "deaf"]
    <3>1. cli' = [cli EXCEPT ![p] = k]
      BY <2>2
    <3>2. k.q = cli[p].q /\ k.r = cli[p].r
      BY <1>1 DEF Clients
    <3> HIDE DEF k
    <3>3. QED BY <1>1, <2>2, <3>1, <3>2
  <2>3. CASE UNCHANGED cli
    BY <2>3
  <2>4. QED BY <2>1, <2>2, <2>3 DEF Relayed
<1>5. Writing(p) /\ ev'[7].root = ev[7].root
  BY EvenWriting
<1>6. Aside(p)
  BY <1>3, <1>4, <1>5 DEF Aside
<1>7. QED BY <1>2, <1>4, <1>5, <1>6

\* Where root's answer takes a proxy.
LEMMA AnsweredShape ==
  ASSUME IInv, NEW p \in Sides, px[p].at = "await", rt[p].reply = px[p].want
  PROVE  LET z == Answered(p)
         IN \/ z.at = "off" /\ px[p].want # "PREPARE_COMMIT"
            \/ /\ px[p].goal = "none" /\ px[p].want \notin Terminal
               /\ z.at = "loop" /\ z.goal = "none" /\ z.begun = px[p].begun
               /\ z.pub = (px[p].pub \/ px[p].want = "PUBLISH")
               /\ z.rdy = (px[p].rdy \/ px[p].want = "PREPARE_COMMIT")
            \/ /\ px[p].goal # "none" /\ px[p].want \notin {"COMMIT", "ABORT", "PREPARE_COMMIT"}
               /\ z.at \in {"bootout", "undo", "endpoints", "finish"}
               /\ z.goal = px[p].goal /\ z.begun = px[p].begun
<1> DEFINE x == px[p]
           c == x.want
           b == x.pub \/ c = "PUBLISH"
           d == x.rdy \/ c = "PREPARE_COMMIT"
           y == [x EXCEPT !.pub = b, !.rdy = d]
           u == IF y.pub THEN "bootout" ELSE "undo"
           z == Answered(p)
<1>1. x \in ProxyStates /\ Sound(p, cli[p], x, rt[p], Gone)
  BY SideIs
<1>2. x.goal # "none" => c \in Cleaning(p) /\ c # "PREPARE_COMMIT"
  BY <1>1 DEF Sound, Spoken, Cleaning
<1>3. /\ y \in ProxyStates /\ y.want = c /\ y.goal = x.goal /\ y.begun = x.begun /\ y.pub = b /\ y.rdy = d
  <2>1. b \in BOOLEAN /\ d \in BOOLEAN
    OBVIOUS
  <2> HIDE DEF b, d
  <2>2. QED BY <1>1, <2>1 DEF ProxyStates
<1>4. z = IF x.goal = "none"
          THEN IF c \in Terminal THEN Exit(y, "ok") ELSE [y EXCEPT !.at = "loop"]
          ELSE CASE c \in {"COMMIT", "ABORT"} -> Exit(y, "ok")
                 [] c = "PING" /\ p = "broker" -> [y EXCEPT !.at = u]
                 [] c = "RESTORE" -> [y EXCEPT !.at = "endpoints"]
                 [] OTHER -> [y EXCEPT !.at = "finish"]
  BY DEF Answered
<1>5. u \in {"bootout", "undo"} /\ "PREPARE_COMMIT" \notin Terminal
  BY DEF Terminal
<1> HIDE DEF y, u, x, c, z, b, d
<1>6. \A a \in ProxyPlaces : LET v == [y EXCEPT !.at = a]
                             IN v.at = a /\ v.goal = x.goal /\ v.begun = x.begun /\ v.pub = b /\ v.rdy = d
  BY <1>3 DEF ProxyStates
<1>7. Exit(y, "ok").at = "off"
  BY <1>3, Exits
<1>8. \/ z = Exit(y, "ok") /\ c # "PREPARE_COMMIT"
      \/ x.goal = "none" /\ c \notin Terminal /\ z = [y EXCEPT !.at = "loop"]
      \/ /\ x.goal # "none" /\ c \notin {"COMMIT", "ABORT"}
         /\ \E a \in {"bootout", "undo", "endpoints", "finish"} : z = [y EXCEPT !.at = a]
  <2>1. CASE x.goal = "none"
    BY <1>4, <1>5, <2>1
  <2>2. CASE x.goal # "none" /\ c \in {"COMMIT", "ABORT"}
    BY <1>4, <2>2
  <2>3. CASE x.goal # "none" /\ c \notin {"COMMIT", "ABORT"} /\ c = "PING" /\ p = "broker"
    BY <1>4, <1>5, <2>3
  <2>4. CASE x.goal # "none" /\ c \notin {"COMMIT", "ABORT"} /\ ~(c = "PING" /\ p = "broker")
    BY <1>4, <2>4
  <2>5. QED BY <2>1, <2>2, <2>3, <2>4
<1>9. {"bootout", "undo", "endpoints", "finish", "loop"} \subseteq ProxyPlaces
  BY DEF ProxyPlaces
<1>10. CASE z = Exit(y, "ok") /\ c # "PREPARE_COMMIT"
  BY <1>7, <1>10 DEF z, x, c
<1>11. CASE x.goal = "none" /\ c \notin Terminal /\ z = [y EXCEPT !.at = "loop"]
  <2>1. z.at = "loop" /\ z.goal = x.goal /\ z.begun = x.begun /\ z.pub = b /\ z.rdy = d
    BY <1>6, <1>9, <1>11
  <2>2. QED BY <1>11, <2>1 DEF z, x, c, b, d
<1>12. CASE /\ x.goal # "none" /\ c \notin {"COMMIT", "ABORT"}
            /\ \E a \in {"bootout", "undo", "endpoints", "finish"} : z = [y EXCEPT !.at = a]
  <2>1. PICK a \in {"bootout", "undo", "endpoints", "finish"} : z = [y EXCEPT !.at = a]
    BY <1>12
  <2>2. z.at = a /\ z.goal = x.goal /\ z.begun = x.begun
    BY <1>6, <1>9, <2>1
  <2>3. QED BY <1>2, <1>12, <2>2 DEF z, x, c
<1>13. QED BY <1>8, <1>10, <1>11, <1>12

\* A proxy that ends does not return.
LEMMA Ending ==
  ASSUME IInv, NEW p \in Sides, px[p].at \notin {"off", "loop"}, NEW code \in {"ok", "err"},
         px' = [px EXCEPT ![p] = Exit(px[p], code)], UNCHANGED <<app, drv, cli, rt>>, ev'[7].root = ev[7].root
  PROVE  Aside(p) /\ Ends(p)
<1> DEFINE x == Exit(px[p], code)
<1>1. x.at = "off"
  BY SideIs, Exits
<1> HIDE DEF x
<1>2. Aside(p) /\ px'[p] = x /\ cli'[p] = cli[p] /\ rt'[p] = rt[p]
  BY AloneAside DEF x
<1>3. QED BY <1>1, <1>2 DEF Ends

\* Root's answer, or none.
LEMMA RequestShape == \A p \in Sides : IInv /\ proxy_root_request(p) => Stepped(p)
<1> SUFFICES ASSUME NEW p \in Sides, IInv, proxy_root_request(p) PROVE Stepped(p)
  OBVIOUS
<1>1. /\ px[p].at = "await" /\ UNCHANGED <<app, ev, ctl, drv, rt>>
      /\ \/ rt[p].reply = px[p].want /\ Relayed(p, px[p].want, Answered(p))
         \/ px' = [px EXCEPT ![p] = Exit(px[p], "err")] /\ UNCHANGED cli
  BY DEF proxy_root_request, world
<1>2. Writing(p) /\ ev'[7].root = ev[7].root
  BY <1>1, EvenWriting
<1>3. CASE px' = [px EXCEPT ![p] = Exit(px[p], "err")] /\ UNCHANGED cli
  BY <1>1, <1>2, <1>3, Ending DEF Stepped
<1>4. CASE rt[p].reply = px[p].want /\ Relayed(p, px[p].want, Answered(p))
  <2> DEFINE z == Answered(p)
  <2>1. /\ Aside(p) /\ rt'[p] = rt[p] /\ cli'[p].q = cli[p].q
        /\ px'[p] = z \/ (px'[p] = Exit(px[p], "err") /\ cli'[p] = cli[p])
        /\ cli'[p].r \subseteq cli[p].r \cup {px[p].want}
    BY <1>1, <1>4, RelayAside
  <2>2. Exit(px[p], "err").at = "off"
    BY SideIs, Exits
  <2>3. CASE px'[p] = Exit(px[p], "err") /\ cli'[p] = cli[p]
    BY <1>1, <1>2, <2>1, <2>2, <2>3 DEF Stepped, Ends
  <2>4. CASE px'[p] = z
    <3> HIDE DEF z
    <3>1. \/ z.at = "off" /\ px[p].want # "PREPARE_COMMIT"
          \/ /\ px[p].goal = "none" /\ px[p].want \notin Terminal
             /\ z.at = "loop" /\ z.goal = "none" /\ z.begun = px[p].begun
             /\ z.pub = (px[p].pub \/ px[p].want = "PUBLISH")
             /\ z.rdy = (px[p].rdy \/ px[p].want = "PREPARE_COMMIT")
          \/ /\ px[p].goal # "none" /\ px[p].want \notin {"COMMIT", "ABORT", "PREPARE_COMMIT"}
             /\ z.at \in {"bootout", "undo", "endpoints", "finish"}
             /\ z.goal = px[p].goal /\ z.begun = px[p].begun
      BY <1>1, <1>4, AnsweredShape DEF z
    <3>2. CASE z.at = "off" /\ px[p].want # "PREPARE_COMMIT"
      <4>1. Ends(p)
        BY <1>1, <2>1, <2>4, <3>2 DEF Ends
      <4>2. QED BY <1>2, <2>1, <4>1 DEF Stepped
    <3>3. CASE z.at = "loop"
      <4>1. Returns(p)
        BY <1>1, <1>4, <2>1, <2>4, <3>1, <3>3 DEF Returns
      <4>2. QED BY <1>2, <2>1, <4>1 DEF Stepped
    <3>4. CASE z.at \in {"bootout", "undo", "endpoints", "finish"}
      <4>1. /\ px[p].goal # "none" /\ px[p].want \notin {"COMMIT", "ABORT", "PREPARE_COMMIT"}
            /\ z.goal = px[p].goal /\ z.begun = px[p].begun
        BY <3>1, <3>4
      <4>2. Wanders(p)
        BY <1>1, <2>1, <2>4, <3>4, <4>1 DEF Wanders
      <4>3. QED BY <1>2, <2>1, <4>2 DEF Stepped
    <3>5. QED BY <3>1, <3>2, <3>3, <3>4
  <2>5. QED BY <2>1, <2>3, <2>4
<1>5. QED BY <1>1, <1>3, <1>4

\* A command of the live controller.
LEMMA ServesShape == \A p \in Sides : IInv /\ ProxyServes(p) => Stepped(p)
<1> SUFFICES ASSUME NEW p \in Sides, IInv, ProxyServes(p) PROVE Stepped(p)
  OBVIOUS
<1> DEFINE c == Head(cli[p].q)
           x == px[p]
           t == Tail(cli[p].q)
           k == [cli[p] EXCEPT !.q = t]
<1>1. /\ x.at = "loop" /\ cli[p].q # <<>> /\ cli' = [cli EXCEPT ![p].q = t]
      /\ UNCHANGED <<app, ev, ctl, drv>>
      /\ \/ (IF p = "broker" THEN InSequence(x, c) ELSE c = "PING") /\ Ask(p, x, c)
         \/ p = "broker" /\ ~InSequence(x, c) /\ Ask(p, [x EXCEPT !.goal = "reject"], "PING")
         \/ /\ p = "restore" /\ c # "PING"
            /\ px' = [px EXCEPT ![p] = [x EXCEPT !.goal = "serve", !.at = "begin"]] /\ UNCHANGED rt
  <2>1. /\ x.at = "loop" /\ cli[p].q # <<>> /\ cli' = [cli EXCEPT ![p].q = t]
        /\ UNCHANGED <<app, ev, ctl, drv>>
    BY DEF ProxyServes, world
  <2>2. CASE p = "broker" /\ InSequence(x, c)
    BY <2>1, <2>2 DEF ProxyServes, InSequence
  <2>3. CASE p = "broker" /\ ~InSequence(x, c)
    BY <2>1, <2>3 DEF ProxyServes, InSequence
  <2>4. CASE p = "restore"
    BY <2>1, <2>4 DEF ProxyServes
  <2>5. QED BY <2>2, <2>3, <2>4 DEF Sides
<1>2. /\ cli[p] \in Clients /\ px[p] \in ProxyStates /\ Sound(p, cli[p], px[p], rt[p], Gone)
      /\ cli \in [Sides -> Clients] /\ px \in [Sides -> ProxyStates]
  BY SideIs DEF IInv, Types, ProcessType
<1>3. c \in Queued(cli[p].q)
  BY <1>1, <1>2, Pipe DEF Clients
<1>4. c \in Words(p) /\ x.goal = "none"
  BY <1>1, <1>2, <1>3 DEF Sound, Spoken
<1>5. cli' = [cli EXCEPT ![p] = k]
  BY <1>1, <1>2
<1> HIDE DEF t, c
<1>6. k.q = t /\ k.r = cli[p].r /\ k.at = cli[p].at
  BY <1>2 DEF Clients
<1> HIDE DEF k
<1>7. Writing(p) /\ ev'[7].root = ev[7].root
  BY <1>1, EvenWriting
<1>8. CASE (IF p = "broker" THEN InSequence(x, c) ELSE c = "PING") /\ Ask(p, x, c)
  <2>1. /\ Aside(p) /\ cli'[p] = k
        /\ px'[p].at = "await" /\ px'[p].want = c /\ px'[p].pub = x.pub /\ px'[p].rdy = x.rdy
        /\ px'[p].goal = x.goal /\ px'[p].begun = x.begun
        /\ rt'[p].cmd = (IF rt[p].at = "ready" THEN c ELSE "none") /\ rt'[p].reply = "none"
    BY <1>1, <1>2, <1>4, <1>5, <1>6, <1>7, <1>8, AskAside
  <2>2. Source(p, c)
    BY <1>1, <1>6, <1>8, <2>1 DEF Source, t, c
  <2>3. Asks(p)
    BY <1>4, <1>6, <2>1, <2>2 DEF Asks
  <2>4. QED BY <1>7, <2>1, <2>3 DEF Stepped
<1>9. CASE p = "broker" /\ ~InSequence(x, c) /\ Ask(p, [x EXCEPT !.goal = "reject"], "PING")
  <2> DEFINE y == [x EXCEPT !.goal = "reject"]
             a == "PING"
  <2>1. y \in ProxyStates /\ y.goal = "reject" /\ y.pub = x.pub /\ y.rdy = x.rdy /\ y.begun = x.begun
    BY <1>2 DEF ProxyStates
  <2>2. a \in Words(p)
    BY <1>9 DEF Words
  <2>3. Ask(p, y, a)
    BY <1>9
  <2> HIDE DEF y, a
  <2>4. /\ Aside(p) /\ cli'[p] = k
        /\ px'[p].at = "await" /\ px'[p].want = a /\ px'[p].pub = y.pub /\ px'[p].rdy = y.rdy
        /\ px'[p].goal = y.goal /\ px'[p].begun = y.begun
        /\ rt'[p].cmd = (IF rt[p].at = "ready" THEN a ELSE "none") /\ rt'[p].reply = "none"
    BY <1>1, <1>5, <1>6, <1>7, <2>1, <2>2, <2>3, AskAside
  <2>5. Source(p, a)
    BY <1>1, <1>6, <1>9, <2>1, <2>4 DEF Source, t, c, a
  <2>6. Asks(p)
    BY <1>6, <2>1, <2>2, <2>4, <2>5 DEF Asks
  <2>7. QED BY <1>7, <2>4, <2>6 DEF Stepped
<1>10. CASE /\ p = "restore" /\ c # "PING"
            /\ px' = [px EXCEPT ![p] = [x EXCEPT !.goal = "serve", !.at = "begin"]] /\ UNCHANGED rt
  <2> DEFINE y == [x EXCEPT !.goal = "serve", !.at = "begin"]
  <2>1. y.at = "begin"
    BY <1>2 DEF ProxyStates
  <2>2. px' = [px EXCEPT ![p] = y]
    BY <1>10
  <2> HIDE DEF y
  <2>3. px'[p] = y /\ cli'[p] = k /\ rt'[p] = rt[p]
        /\ \A s \in Sides \ {p} : cli'[s] = cli[s] /\ px'[s] = px[s] /\ rt'[s] = rt[s]
    BY <1>2, <1>5, <1>10, <2>2
  <2>4. Aside(p)
    BY <1>1, <1>6, <1>7, <2>3 DEF Aside
  <2>5. Wanders(p)
    BY <1>1, <1>6, <1>10, <2>1, <2>3 DEF Wanders, c
  <2>6. QED BY <1>7, <2>4, <2>5 DEF Stepped
<1>11. QED BY <1>1, <1>8, <1>9, <1>10

\* The command pipe is closed.
LEMMA OrphanedShape == \A p \in Sides : IInv /\ ProxyOrphaned(p) => Stepped(p)
<1> SUFFICES ASSUME NEW p \in Sides, IInv, ProxyOrphaned(p) PROVE Stepped(p)
  OBVIOUS
<1> DEFINE x == [px[p] EXCEPT !.goal = "orphan", !.dead = ~ParentAlive(p)]
           d == ~ParentAlive(p)
           c == IF p = "broker" THEN "COMMIT" ELSE "ABORT"
<1>1. /\ px[p].at = "loop" /\ Orphan(p) /\ UNCHANGED <<app, ev, ctl, drv, cli>>
      /\ \/ /\ uid_proxy_journal_committed /\ (p = "restore" \/ (x.pub /\ x.rdy)) /\ Ask(p, x, c)
         \/ /\ uid_proxy_journal_committed /\ ~(p = "restore" \/ (x.pub /\ x.rdy))
            /\ px' = [px EXCEPT ![p] = Exit(px[p], "err")] /\ UNCHANGED rt
         \/ /\ ~uid_proxy_journal_committed
            /\ px' = [px EXCEPT ![p] = [x EXCEPT !.at = "begin"]] /\ UNCHANGED rt
  <2>1. px[p].at = "loop" /\ Orphan(p) /\ UNCHANGED <<app, ev, ctl, drv, cli>>
    BY DEF ProxyOrphaned, world, Orphan
  <2>2. \/ /\ uid_proxy_journal_committed /\ (p = "restore" \/ (x.pub /\ x.rdy)) /\ Ask(p, x, c)
        \/ /\ uid_proxy_journal_committed /\ ~(p = "restore" \/ (x.pub /\ x.rdy))
           /\ px' = [px EXCEPT ![p] = Exit(px[p], "err")] /\ UNCHANGED rt
        \/ /\ ~uid_proxy_journal_committed
           /\ px' = [px EXCEPT ![p] = [x EXCEPT !.at = "begin"]] /\ UNCHANGED rt
    BY DEF ProxyOrphaned
  <2>3. QED BY <2>1, <2>2
<1>2. px[p] \in ProxyStates /\ cli' = [cli EXCEPT ![p] = cli[p]]
  BY <1>1, SideIs
<1>3. x \in ProxyStates /\ x.pub = px[p].pub /\ x.rdy = px[p].rdy
  <2>1. d \in BOOLEAN
    OBVIOUS
  <2>2. x = [px[p] EXCEPT !.goal = "orphan", !.dead = d]
    OBVIOUS
  <2> HIDE DEF d, x
  <2>3. QED BY <1>2, <2>1, <2>2 DEF ProxyStates
<1> HIDE DEF x, d
<1>4. Writing(p) /\ ev'[7].root = ev[7].root
  BY <1>1, EvenWriting
<1>5. c \in Words(p) /\ (c = IF p = "broker" THEN "COMMIT" ELSE "ABORT")
  BY DEF Words, Sides
<1>6. CASE uid_proxy_journal_committed /\ (p = "restore" \/ (x.pub /\ x.rdy)) /\ Ask(p, x, c)
  <2> DEFINE k == cli[p]
  <2>0. Ask(p, x, c) /\ c \in Words(p) /\ cli' = [cli EXCEPT ![p] = k] /\ k.at = cli[p].at /\ UNCHANGED <<app, drv>>
    BY <1>1, <1>2, <1>5, <1>6
  <2> HIDE DEF c, k
  <2>1. /\ Aside(p) /\ cli'[p] = k
        /\ px'[p].at = "await" /\ px'[p].want = c /\ px'[p].pub = x.pub /\ px'[p].rdy = x.rdy
        /\ rt'[p].cmd = (IF rt[p].at = "ready" THEN c ELSE "none") /\ rt'[p].reply = "none"
    BY <1>3, <1>4, <2>0, AskAside, ZenonT(60)
  <2> USE DEF k
  <2>2. Source(p, c)
    <3>1. CASE p = "broker"
      BY <1>1, <1>3, <1>5, <1>6, <2>1, <3>1 DEF Source
    <3>2. CASE p # "broker"
      BY <1>1, <1>5, <1>6, <2>1, <3>2 DEF Source
    <3>3. QED BY <3>1, <3>2
  <2>3. Asks(p)
    BY <1>3, <1>5, <2>1, <2>2 DEF Asks
  <2>4. QED BY <1>4, <2>1, <2>3 DEF Stepped
<1>7. CASE /\ uid_proxy_journal_committed /\ ~(p = "restore" \/ (x.pub /\ x.rdy))
           /\ px' = [px EXCEPT ![p] = Exit(px[p], "err")] /\ UNCHANGED rt
  <2> DEFINE z == Exit(px[p], "err")
  <2>1. z.at = "off"
    BY <1>2, Exits
  <2> HIDE DEF z
  <2>2. Aside(p) /\ px'[p] = z /\ cli'[p] = cli[p] /\ rt'[p] = rt[p]
    BY <1>1, <1>4, <1>7, AloneAside DEF z
  <2>3. Ends(p)
    BY <1>1, <1>3, <1>7, <2>1, <2>2 DEF Ends, Sides
  <2>4. QED BY <1>4, <2>2, <2>3 DEF Stepped
<1>8. CASE /\ ~uid_proxy_journal_committed
           /\ px' = [px EXCEPT ![p] = [x EXCEPT !.at = "begin"]] /\ UNCHANGED rt
  <2> DEFINE y == [x EXCEPT !.at = "begin"]
  <2>1. y.at = "begin"
    BY <1>3 DEF ProxyStates
  <2> HIDE DEF y
  <2>2. Aside(p) /\ px'[p] = y /\ cli'[p] = cli[p] /\ rt'[p] = rt[p]
    BY <1>1, <1>4, <1>8, AloneAside DEF y
  <2>3. Wanders(p)
    BY <1>1, <1>8, <2>1, <2>2 DEF Wanders
  <2>4. QED BY <1>4, <2>2, <2>3 DEF Stepped
<1>9. QED BY <1>1, <1>6, <1>7, <1>8

\* A proxy goes from where it does not wait to the place a.
LEMMA Wandering ==
  ASSUME IInv, NEW p \in Sides, px[p].at \notin {"off", "loop", "await"},
         NEW a \in {"bootout", "drain", "undo", "finish", "report", "lock", "rollback"},
         NEW b \in {"no", "yes", "error"}, b = px[p].begun \/ px[p].at = "begin",
         px' = [px EXCEPT ![p] = [px[p] EXCEPT !.at = a, !.begun = b]],
         a = "lock" => px[p].begun = "yes", a = "rollback" => px[p].at = "lock",
         UNCHANGED <<app, drv, cli, rt>>, ev'[7].root = ev[7].root
  PROVE  Aside(p) /\ Wanders(p)
<1> DEFINE y == [px[p] EXCEPT !.at = a, !.begun = b]
<1>1. px[p] \in ProxyStates
  BY SideIs
<1>2. y.at = a /\ y.begun = b /\ y.goal = px[p].goal
  BY <1>1 DEF ProxyStates
<1> HIDE DEF y
<1>3. Aside(p) /\ px'[p] = y /\ cli'[p] = cli[p] /\ rt'[p] = rt[p]
  BY AloneAside DEF y
<1>4. Wanders(p)
  BY <1>2, <1>3 DEF Wanders
<1>5. QED BY <1>3, <1>4

\* The same with the place alone.
LEMMA Going ==
  ASSUME IInv, NEW p \in Sides, px[p].at \notin {"off", "loop", "await"},
         NEW a \in {"bootout", "drain", "undo", "finish", "report", "lock", "rollback"},
         px' = [px EXCEPT ![p] = [px[p] EXCEPT !.at = a]],
         a = "lock" => px[p].begun = "yes", a = "rollback" => px[p].at = "lock",
         UNCHANGED <<app, drv, cli, rt>>, ev'[7].root = ev[7].root
  PROVE  Aside(p) /\ Wanders(p)
<1> DEFINE b == px[p].begun
<1>1. px[p] \in ProxyStates
  BY SideIs
<1>2. b \in {"no", "yes", "error"} /\ [px[p] EXCEPT !.at = a, !.begun = b] = [px[p] EXCEPT !.at = a]
  BY <1>1 DEF ProxyStates
<1> HIDE DEF b
<1>3. QED BY <1>2, Wandering DEF b

\* The host is stopped.
LEMMA StopsShape == \A p \in Sides : IInv /\ ProxyStopsHost(p) => Stepped(p)
<1> SUFFICES ASSUME NEW p \in Sides, IInv, ProxyStopsHost(p) PROVE Stepped(p)
  OBVIOUS
<1>1. /\ UNCHANGED <<app, ev, ctl, drv, cli, rt>> /\ px[p].at \in {"bootout", "drain"}
      /\ \/ px' = [px EXCEPT ![p] = Exit(px[p], "err")]
         \/ \E a \in {"drain", "undo"} : px' = [px EXCEPT ![p] = [px[p] EXCEPT !.at = a]]
  BY DEF ProxyStopsHost, world
<1>2. Writing(p) /\ ev'[7].root = ev[7].root
  BY <1>1, EvenWriting
<1>3. CASE px' = [px EXCEPT ![p] = Exit(px[p], "err")]
  BY <1>1, <1>2, <1>3, Ending DEF Stepped
<1>4. CASE \E a \in {"drain", "undo"} : px' = [px EXCEPT ![p] = [px[p] EXCEPT !.at = a]]
  BY <1>1, <1>2, <1>4, Going DEF Stepped
<1>5. QED BY <1>1, <1>3, <1>4

\* Root is asked to restore the driver.
LEMMA RestoresShape == \A p \in Sides : IInv /\ ProxyRestoresDriver(p) => Stepped(p)
<1> SUFFICES ASSUME NEW p \in Sides, IInv, ProxyRestoresDriver(p) PROVE Stepped(p)
  OBVIOUS
<1> DEFINE c == CASE p = "restore" -> "RESTORE"
                  [] p = "broker" /\ px[p].pub -> "ROLLBACK"
                  [] p = "broker" /\ ~px[p].pub -> "ABANDON"
<1>1. px[p].at = "undo" /\ Ask(p, px[p], c) /\ UNCHANGED <<app, ev, ctl, drv, cli>>
  BY DEF ProxyRestoresDriver, world
<1>2. c \in Words(p) /\ c \in {"PING", "ROLLBACK", "ABANDON", "RESTORE"}
  <2>1. CASE p = "restore"
    <3>1. c = "RESTORE"
      BY <2>1
    <3> HIDE DEF c
    <3>2. QED BY <2>1, <3>1 DEF Words
  <2>2. CASE p = "broker" /\ px[p].pub
    BY <2>2 DEF Words
  <2>3. CASE p = "broker" /\ ~px[p].pub
    BY <2>3 DEF Words
  <2>4. QED BY <2>1, <2>2, <2>3 DEF Sides
<1> HIDE DEF c
<1>3. px[p] \in ProxyStates /\ cli' = [cli EXCEPT ![p] = cli[p]]
  BY <1>1, SideIs
<1>4. Writing(p) /\ ev'[7].root = ev[7].root
  BY <1>1, EvenWriting
<1>5. /\ Aside(p) /\ cli'[p] = cli[p]
      /\ px'[p].at = "await" /\ px'[p].want = c /\ px'[p].pub = px[p].pub /\ px'[p].rdy = px[p].rdy
      /\ px'[p].goal = px[p].goal /\ px'[p].begun = px[p].begun
      /\ rt'[p].cmd = (IF rt[p].at = "ready" THEN c ELSE "none") /\ rt'[p].reply = "none"
  BY <1>1, <1>2, <1>3, <1>4, AskAside
<1>6. Source(p, c)
  BY <1>1, <1>2, <1>5 DEF Source
<1>7. Asks(p)
  BY <1>2, <1>5, <1>6 DEF Asks
<1>8. QED BY <1>4, <1>5, <1>7 DEF Stepped

\* The absence of the product endpoints.
LEMMA EndpointsShape == \A p \in Sides : IInv /\ verify_product_endpoints_absent(p) => Stepped(p)
<1> SUFFICES ASSUME NEW p \in Sides, IInv, verify_product_endpoints_absent(p) PROVE Stepped(p)
  OBVIOUS
<1>1. /\ px[p].at = "endpoints" /\ UNCHANGED <<app, ev, ctl, drv, cli, rt>>
      /\ \/ px' = [px EXCEPT ![p] = Exit(px[p], "err")]
         \/ \E a \in {"finish"} : px' = [px EXCEPT ![p] = [px[p] EXCEPT !.at = a]]
  BY DEF verify_product_endpoints_absent, world
<1>2. Writing(p) /\ ev'[7].root = ev[7].root
  BY <1>1, EvenWriting
<1>3. CASE px' = [px EXCEPT ![p] = Exit(px[p], "err")]
  BY <1>1, <1>2, <1>3, Ending DEF Stepped
<1>4. CASE \E a \in {"finish"} : px' = [px EXCEPT ![p] = [px[p] EXCEPT !.at = a]]
  BY <1>1, <1>2, <1>4, Going DEF Stepped
<1>5. QED BY <1>1, <1>3, <1>4

\* The restore proxy reports.
LEMMA ReportsShape == IInv /\ ProxyReports => Stepped("restore")
<1> SUFFICES ASSUME IInv, ProxyReports PROVE Stepped("restore")
  OBVIOUS
<1> DEFINE p == "restore"
           x == Exit(px[p], "ok")
           l == "RESTORED"
<1>1. /\ px[p].at = "report" /\ Relayed(p, l, x) /\ p \in Sides
      /\ UNCHANGED <<app, ev, ctl, drv, rt>>
  BY DEF ProxyReports, Sides, world
<1>2. l # "PREPARE_COMMIT"
  OBVIOUS
<1> HIDE DEF p, l
<1>3. x.at = "off" /\ Exit(px[p], "err").at = "off"
  BY <1>1, SideIs, Exits
<1> HIDE DEF x
<1>4. /\ Aside(p) /\ Writing(p) /\ rt'[p] = rt[p]
      /\ px'[p] = x \/ (px'[p] = Exit(px[p], "err") /\ cli'[p] = cli[p])
      /\ cli'[p].q = cli[p].q /\ cli'[p].r \subseteq cli[p].r \cup {l}
  BY <1>1, RelayAside
<1>5. Ends(p)
  BY <1>1, <1>2, <1>3, <1>4 DEF Ends
<1>6. Stepped(p)
  BY <1>4, <1>5 DEF Stepped
<1>7. QED BY <1>6 DEF p

\* The journal opened, or left alone.
LEMMA OpenedWriting ==
  ASSUME IInv, NEW p, ev' = ev \/ ev' = [ev EXCEPT ![7] = V7Journal_open(ev[7])], UNCHANGED ctl,
         px[p].at \in {"begin", "lock"} \/ (px[p].at = "finish" /\ px[p].goal # "reject" /\ px[p].begun = "yes")
         \/ ev' = ev
  PROVE  Writing(p) /\ ev'[7].root = ev[7].root
<1> DEFINE r == V7Journal_open(ev[7])
<1>1. ev \in [All -> Evidence] /\ ev[7] \in Evidence
  BY DEF IInv, Types, All
<1>2. CASE ev' = ev
  BY <1>2 DEF Writing, Appending, SameJournal
<1>3. CASE ev' = [ev EXCEPT ![7] = r]
  <2>1. r.state = ev[7].state /\ r.tail = "clean" /\ r.root = ev[7].root
    BY <1>1 DEF V7Journal_open, Evidence
  <2> HIDE DEF r
  <2>2. ev'[7] = r
    BY <1>1, <1>3 DEF All
  <2>3. QED BY <1>3, <2>1, <2>2 DEF Writing, Appending, SameJournal
<1>4. QED BY <1>2, <1>3

\* A record of a proxy that has just opened the journal.
LEMMA WrittenOnce ==
  ASSUME IInv, NEW p, NEW s \in {"ROLLBACK_STARTED", "DRIVER_RESTORED"}, UNCHANGED ctl,
         ev' = [ev EXCEPT ![7] = V7Journal_record(V7Journal_open(ev[7]), s)],
         \/ s = "ROLLBACK_STARTED" /\ px[p].at = "begin" /\ BeginsRollback
         \/ /\ s = "DRIVER_RESTORED" /\ px[p].at = "finish" /\ ev[7].state = "ROLLBACK_STARTED"
            /\ px[p].goal # "reject" /\ px[p].begun = "yes"
  PROVE  Writing(p) /\ ev'[7].root = ev[7].root
<1> DEFINE o == V7Journal_open(ev[7])
           r == V7Journal_record(o, s)
<1>1. ev \in [All -> Evidence] /\ ev[7] \in Evidence /\ s \in V7States /\ s # "COMMITTED"
      /\ ev[7].state \in V7States
  BY Alphabet DEF IInv, Types, All, DriverRestored, Evidence
<1>2. o \in Evidence /\ o.root = ev[7].root /\ o.state = ev[7].state /\ o.tail = "clean"
  BY <1>1 DEF V7Journal_open, Evidence
<1> HIDE DEF o
<1>3. /\ r.state = s /\ r.root = ev[7].root
      /\ r.tail = IF o.tail = "clean" /\ validate_v7_transition(o.state, s) THEN o.tail ELSE "corrupt"
  BY <1>1, <1>2, Appends
<1> HIDE DEF r
<1>4. ev'[7] = r
  BY <1>1 DEF All, r, o
<1>5. validate_v7_transition(ev[7].state, s) /\ ev[7].state # "COMMITTED"
  <2>1. CASE s = "ROLLBACK_STARTED" /\ BeginsRollback
    <3>1. V7Rank(ev[7].state) \in 1..21
      BY <1>1, Ranks
    <3>2. V7Rank("STOP_INITIATED") = 6 /\ V7Rank("ROLLBACK_STARTED") = 15
      BY RankOf
    <3>3. ~Before(ev[7].state, "STOP_INITIATED") /\ Before(ev[7].state, "ROLLBACK_STARTED")
          /\ ev[7].state # "COMMITTED"
      BY <2>1 DEF BeginsRollback
    <3>4. V7Rank(ev[7].state) \in 6..14
      BY <3>1, <3>2, <3>3 DEF Before
    <3>5. QED BY <1>1, <2>1, <3>3, <3>4, Transitions
  <2>2. CASE s = "DRIVER_RESTORED" /\ ev[7].state = "ROLLBACK_STARTED"
    BY <1>1, <2>2, Transitions
  <2>3. QED BY <2>1, <2>2
<1>6. ev'[7].state = s /\ ev'[7].tail = "clean" /\ ev'[7].root = ev[7].root
  BY <1>2, <1>3, <1>4, <1>5
<1>7. QED BY <1>1, <1>5, <1>6 DEF Writing, Appending

\* Where a proxy goes with the intent journaled or not.
LEMMA BegunShape ==
  ASSUME IInv, NEW p \in Sides, px[p].at = "begin", NEW b \in {"no", "yes", "error"},
         p = "broker" => Ask(p, [px[p] EXCEPT !.begun = b], "PING"),
         p = "restore" => /\ px' = [px EXCEPT ![p] = IF b = "yes" THEN [@ EXCEPT !.begun = b, !.at = "bootout"]
                                                     ELSE Exit(@, "err")]
                          /\ UNCHANGED rt,
         UNCHANGED <<app, drv, cli>>, ev'[7].root = ev[7].root, Writing(p)
  PROVE  Stepped(p)
<1>1. px[p] \in ProxyStates /\ px \in [Sides -> ProxyStates]
  BY SideIs DEF IInv, Types, ProcessType
<1>2. CASE p = "broker"
  <2> DEFINE y == [px[p] EXCEPT !.begun = b]
             c == "PING"
             k == cli[p]
  <2>1. y \in ProxyStates /\ y.begun = b /\ y.pub = px[p].pub /\ y.rdy = px[p].rdy /\ y.goal = px[p].goal
    BY <1>1 DEF ProxyStates
  <2>2. /\ c \in Words(p) /\ c \in {"PING", "ROLLBACK", "ABANDON", "RESTORE"} /\ Ask(p, y, c)
        /\ cli' = [cli EXCEPT ![p] = k] /\ k.at = cli[p].at /\ UNCHANGED <<app, drv>>
    BY <1>2, SideIs DEF Words
  <2> HIDE DEF y, c, k
  <2>3. /\ Aside(p) /\ cli'[p] = k
        /\ px'[p].at = "await" /\ px'[p].want = c /\ px'[p].pub = y.pub /\ px'[p].rdy = y.rdy
        /\ px'[p].goal = y.goal /\ px'[p].begun = y.begun
        /\ rt'[p].cmd = (IF rt[p].at = "ready" THEN c ELSE "none") /\ rt'[p].reply = "none"
    BY <2>1, <2>2, AskAside, ZenonT(60)
  <2> USE DEF k
  <2>4. Source(p, c)
    BY <2>1, <2>2, <2>3 DEF Source
  <2>5. Asks(p)
    BY <2>1, <2>2, <2>3, <2>4 DEF Asks
  <2>6. QED BY <2>3, <2>5 DEF Stepped
<1>3. CASE p = "restore" /\ b = "yes"
  <2> DEFINE a == "bootout"
  <2>1. [px[p] EXCEPT !.begun = b, !.at = a] = [px[p] EXCEPT !.at = a, !.begun = b]
    BY <1>1 DEF ProxyStates
  <2>2. px' = [px EXCEPT ![p] = [px[p] EXCEPT !.at = a, !.begun = b]] /\ UNCHANGED rt
    BY <1>3, <2>1
  <2>3. a \in {"bootout", "drain", "undo", "finish", "report", "lock", "rollback"} /\ a # "lock" /\ a # "rollback"
    OBVIOUS
  <2> HIDE DEF a
  <2>4. Aside(p) /\ Wanders(p)
    BY <2>2, <2>3, Wandering
  <2>5. QED BY <2>4 DEF Stepped
<1>4. CASE p = "restore" /\ b # "yes"
  <2>1. px' = [px EXCEPT ![p] = Exit(px[p], "err")] /\ UNCHANGED rt
    BY <1>4
  <2>2. Aside(p) /\ Ends(p)
    BY <2>1, Ending
  <2>3. QED BY <2>2 DEF Stepped
<1>5. QED BY <1>2, <1>3, <1>4 DEF Sides

\* The intent is journaled before the driver is touched.
LEMMA BeginShape == \A p \in Sides : IInv /\ uid_proxy_begin_driver_rollback(p) => Stepped(p)
<1> SUFFICES ASSUME NEW p \in Sides, IInv, uid_proxy_begin_driver_rollback(p) PROVE Stepped(p)
  OBVIOUS
<1> DEFINE opened == V7Journal_open(ev[7])
           Then(b) == /\ p = "broker" => Ask(p, [px[p] EXCEPT !.begun = b], "PING")
                      /\ p = "restore" =>
                           /\ px' = [px EXCEPT ![p] = IF b = "yes" THEN [@ EXCEPT !.begun = b, !.at = "bootout"]
                                                      ELSE Exit(@, "err")]
                           /\ UNCHANGED rt
<1>1. px[p].at = "begin" /\ UNCHANGED <<app, ctl, drv, cli>>
  BY DEF uid_proxy_begin_driver_rollback, world
<1>2. \E b \in {"no", "yes", "error"} :
        /\ Then(b)
        /\ \/ ev' = ev \/ ev' = [ev EXCEPT ![7] = opened]
           \/ /\ BeginsRollback
              /\ ev' = [ev EXCEPT ![7] = V7Journal_record(opened, "ROLLBACK_STARTED")]
  <2> HIDE DEF opened
  <2>1. CASE ~parse_v7_journal
    <3>1. Then("error") /\ ev' = ev
      BY <2>1 DEF uid_proxy_begin_driver_rollback, opened
    <3>2. QED BY <3>1
  <2>2. CASE parse_v7_journal /\ BeginsRollback
    <3>1. BeginsRollback
      BY <2>2
    <3>2. \/ Then("yes") /\ ev' = [ev EXCEPT ![7] = V7Journal_record(opened, "ROLLBACK_STARTED")]
          \/ Then("error") /\ ev' = [ev EXCEPT ![7] = opened]
      BY <2>2 DEF uid_proxy_begin_driver_rollback, opened
    <3>3. QED BY <3>1, <3>2
  <2>3. CASE parse_v7_journal /\ ~BeginsRollback
    <3> DEFINE b == IF ev[7].state = "ROLLBACK_STARTED" THEN "yes" ELSE "no"
    <3>1. Then(b) /\ ev' = [ev EXCEPT ![7] = opened]
      BY <2>3 DEF uid_proxy_begin_driver_rollback, opened
    <3>2. b \in {"no", "yes", "error"}
      OBVIOUS
    <3> HIDE DEF b, Then
    <3>3. QED BY <3>1, <3>2
  <2>4. QED BY <2>1, <2>2, <2>3
<1>3. PICK b \in {"no", "yes", "error"} :
        /\ Then(b)
        /\ \/ ev' = ev \/ ev' = [ev EXCEPT ![7] = opened]
           \/ /\ BeginsRollback
              /\ ev' = [ev EXCEPT ![7] = V7Journal_record(opened, "ROLLBACK_STARTED")]
  BY <1>2
<1>4. Writing(p) /\ ev'[7].root = ev[7].root
  BY <1>1, <1>3, OpenedWriting, WrittenOnce
<1>5. QED BY <1>1, <1>3, <1>4, BegunShape

\* Where a proxy goes with the driver restored and journaled.
LEMMA FinishedShape ==
  ASSUME IInv, NEW p \in Sides, px[p].at \in {"finish"}, px' = [px EXCEPT ![p] = Finished(p)],
         UNCHANGED <<app, drv, cli, rt>>, ev'[7].root = ev[7].root
  PROVE  Aside(p) /\ (Ends(p) \/ Wanders(p))
<1>1. CASE px[p].goal = "serve"
  <2> DEFINE a == "report"
  <2>1. px' = [px EXCEPT ![p] = [px[p] EXCEPT !.at = a]]
    BY <1>1 DEF Finished
  <2>2. a \in {"bootout", "drain", "undo", "finish", "report", "lock", "rollback"} /\ a # "lock" /\ a # "rollback"
    OBVIOUS
  <2> HIDE DEF a
  <2>3. QED BY <2>1, <2>2, Going
<1>2. CASE px[p].goal # "serve" /\ px[p].goal = "orphan" /\ px[p].begun = "yes" /\ px[p].dead
  <2> DEFINE a == "lock"
  <2>1. px' = [px EXCEPT ![p] = [px[p] EXCEPT !.at = a]]
    BY <1>2 DEF Finished
  <2>2. a \in {"bootout", "drain", "undo", "finish", "report", "lock", "rollback"} /\ a # "rollback"
    OBVIOUS
  <2> HIDE DEF a
  <2>3. QED BY <1>2, <2>1, <2>2, Going
<1>3. CASE px[p].goal # "serve" /\ ~(px[p].goal = "orphan" /\ px[p].begun = "yes" /\ px[p].dead)
  <2>1. px' = [px EXCEPT ![p] = Exit(px[p], "err")]
    BY <1>3 DEF Finished
  <2>2. QED BY <2>1, Ending
<1>4. QED BY <1>1, <1>2, <1>3

\* The undoing of the driver is journaled.
LEMMA FinishShape == \A p \in Sides : IInv /\ uid_proxy_finish_driver_rollback(p) => Stepped(p)
<1> SUFFICES ASSUME NEW p \in Sides, IInv, uid_proxy_finish_driver_rollback(p) PROVE Stepped(p)
  OBVIOUS
<1> DEFINE opened == V7Journal_open(ev[7])
<1>1. px[p].at = "finish" /\ UNCHANGED <<app, ctl, drv, cli, rt>>
  BY DEF uid_proxy_finish_driver_rollback, world
<1>2. /\ px' = [px EXCEPT ![p] = Exit(px[p], "err")] \/ px' = [px EXCEPT ![p] = Finished(p)]
      /\ \/ ev' = ev
         \/ /\ px[p].goal # "reject" /\ px[p].begun = "yes"
            /\ \/ ev' = [ev EXCEPT ![7] = opened]
               \/ /\ ev[7].state = "ROLLBACK_STARTED"
                  /\ ev' = [ev EXCEPT ![7] = V7Journal_record(opened, "DRIVER_RESTORED")]
  <2> HIDE DEF opened
  <2>1. CASE px[p].goal = "reject" \/ px[p].begun # "yes"
    BY <2>1 DEF uid_proxy_finish_driver_rollback
  <2>2. CASE px[p].goal # "reject" /\ px[p].begun = "yes" /\ parse_v7_journal /\ ev[7].state = "ROLLBACK_STARTED"
    BY <2>2 DEF uid_proxy_finish_driver_rollback, opened
  <2>3. CASE px[p].goal # "reject" /\ px[p].begun = "yes" /\ ~(parse_v7_journal /\ ev[7].state = "ROLLBACK_STARTED")
    BY <2>3 DEF uid_proxy_finish_driver_rollback
  <2>4. QED BY <2>1, <2>2, <2>3
<1>3. Writing(p) /\ ev'[7].root = ev[7].root
  BY <1>1, <1>2, OpenedWriting, WrittenOnce
<1>4. CASE px' = [px EXCEPT ![p] = Exit(px[p], "err")]
  BY <1>1, <1>3, <1>4, Ending DEF Stepped
<1>5. CASE px' = [px EXCEPT ![p] = Finished(p)]
  BY <1>1, <1>3, <1>5, FinishedShape DEF Stepped
<1>6. QED BY <1>2, <1>4, <1>5

\* The proxy of a lost controller takes over.
LEMMA CompletesShape == \A p \in Sides : IInv /\ uid_proxy_complete_host_crash_rollback(p) => Stepped(p)
<1> SUFFICES ASSUME NEW p \in Sides, IInv, uid_proxy_complete_host_crash_rollback(p) PROVE Stepped(p)
  OBVIOUS
<1> DEFINE e == IF ev[7].ptr = "active" THEN ev
                ELSE retire_exact_retry_v7_pending_pointer_after_parent_crash(ev)
           x == IF ev[7].ptr = "active" THEN "present" ELSE "absent"
<1>1. /\ px[p].at = "lock" /\ UNCHANGED <<app, drv, cli, rt>>
      /\ \/ /\ ev[7].state = "DRIVER_RESTORED" /\ ev' = [e EXCEPT ![7] = V7Journal_open(@)]
            /\ ctl' = [Idled EXCEPT !.who = p, !.run = "rollback", !.why = "proxy", !.at = 1,
                                     !.state = "DRIVER_RESTORED", !.exp = x]
            /\ px' = [px EXCEPT ![p] = [px[p] EXCEPT !.at = "rollback"]]
         \/ px' = [px EXCEPT ![p] = Exit(px[p], "err")] /\ UNCHANGED ctl /\ ev' \in {ev, e}
  <2> HIDE DEF e
  <2>1. QED BY DEF uid_proxy_complete_host_crash_rollback, world, e
<1>2. e \in {ev, retire_exact_retry_v7_pending_pointer_after_parent_crash(ev)}
  OBVIOUS
<1> HIDE DEF e
<1>3. e \in [All -> Evidence] /\ e[7] \in Evidence /\ e[7].root = ev[7].root /\ e[7].state = ev[7].state
      /\ e[7].tail = ev[7].tail
  BY <1>2, PointerRetired
<1>4. CASE /\ ev[7].state = "DRIVER_RESTORED" /\ ev' = [e EXCEPT ![7] = V7Journal_open(@)]
           /\ ctl' = [Idled EXCEPT !.who = p, !.run = "rollback", !.why = "proxy", !.at = 1,
                                    !.state = "DRIVER_RESTORED", !.exp = x]
           /\ px' = [px EXCEPT ![p] = [px[p] EXCEPT !.at = "rollback"]]
  <2> DEFINE r == V7Journal_open(e[7])
             a == "rollback"
  <2>1. r.state = ev[7].state /\ r.tail = "clean" /\ r.root = ev[7].root
    BY <1>3 DEF V7Journal_open, Evidence
  <2>2. a \in {"bootout", "drain", "undo", "finish", "report", "lock", "rollback"} /\ a # "lock"
        /\ px' = [px EXCEPT ![p] = [px[p] EXCEPT !.at = a]]
    BY <1>4
  <2> HIDE DEF r, a
  <2>3. ev'[7] = r
    BY <1>3, <1>4 DEF All, r
  <2> HIDE DEF x
  <2>4. ctl'.who = p /\ ctl'.run = "rollback" /\ ctl'.at = 1 /\ ctl'.healthy /\ ctl'.state = "DRIVER_RESTORED"
    BY <1>4 DEF Idled
  <2>5. Writing(p) /\ ev'[7].root = ev[7].root
    BY <1>1, <1>4, <2>1, <2>3, <2>4 DEF Writing, Appending
  <2>6. Aside(p) /\ Wanders(p)
    BY <1>1, <2>2, <2>5, Going
  <2>7. QED BY <2>5, <2>6 DEF Stepped
<1>5. CASE px' = [px EXCEPT ![p] = Exit(px[p], "err")] /\ UNCHANGED ctl /\ ev' \in {ev, e}
  <2>1. ev'[7].state = ev[7].state /\ ev'[7].tail = ev[7].tail /\ ev'[7].root = ev[7].root
    BY <1>3, <1>5
  <2>2. Writing(p)
    BY <1>1, <1>5, <2>1 DEF Writing, Appending
  <2>3. QED BY <1>1, <1>5, <2>1, <2>2, Ending DEF Stepped
<1>6. QED BY <1>1, <1>4, <1>5

\* Every step of a proxy.
LEMMA ProxySteps == IInv /\ Proxies => \E p \in Sides : Stepped(p)
<1>1. "restore" \in Sides
  BY DEF Sides
<1>2. QED BY <1>1, RequestShape, ServesShape, OrphanedShape, BeginShape, StopsShape, RestoresShape,
             EndpointsShape, FinishShape, CompletesShape, ReportsShape
          DEF Proxies, uid501_driver_restore_proxy, uid501_driver_broker_proxy

-----------------------------------------------------------------------------
(* The update alone has the pen: proxies, root, deaths, entry points.      *)

\* A proxy that acts is there.
LEMMA Acting == ASSUME NEW p \in Sides, Stepped(p) PROVE px[p].at # "off"
  BY DEF Stepped, Ends, Returns, Asks, Source, Wanders

\* Beside a plan that is not a rollback it is the broker's, and the controller
\* stays where it is.
LEMMA BrokerActs ==
  ASSUME IInv, Penned, NEW p \in Sides, Stepped(p), ctl'.run \in {"install", "forward", "unwind", "undoCommit"}
  PROVE  /\ ctl' = ctl /\ (ctl.run # "install" => p = "broker")
         /\ px'["restore"] = px["restore"] \/ ctl.run = "install"
         /\ rt'["restore"] = rt["restore"] \/ ctl.run = "install"
<1>1. ctl' = ctl
  BY DEF Stepped, Writing
<1>2. ctl.run # "install" => p = "broker"
  BY <1>1, Acting DEF Penned, Unused, Sides
<1>3. QED BY <1>1, <1>2 DEF Stepped, Aside, Sides

\* A meek proxy of a live controller that keeps its deadlines stays so, and
\* leaves the journal alone.
LEMMA MeekStep ==
  ASSUME "controller" \notin Slow, NEW p \in Sides, p = "broker", Stepped(p), Held(cli[p], px[p])
  PROVE  Held(cli'[p], px'[p]) /\ SameJournal(ev')
<1>1. cli[p].at = "open" /\ Meek(px[p]) /\ ~Orphan(p)
  BY Acting DEF Held, Orphan
<1>2. cli'[p].at = "open"
  BY <1>1 DEF Stepped, Aside
<1>3. SameJournal(ev')
  BY <1>1 DEF Stepped, Writing, Meek
<1>4. CASE Ends(p)
  BY <1>3, <1>4 DEF Ends, Held
<1>5. CASE Returns(p)
  BY <1>1, <1>2, <1>3, <1>5 DEF Returns, Held, Meek
<1>6. CASE Asks(p)
  <2>1. PICK c \in Words(p) : px'[p].at = "await" /\ Source(p, c)
    BY <1>6 DEF Asks
  <2>2. px'[p].goal \in {"none", "reject"} /\ px'[p].begun = "no"
    BY <1>1, <2>1 DEF Source, Meek
  <2>3. QED BY <1>2, <1>3, <2>1, <2>2 DEF Held, Meek
<1>7. CASE Wanders(p)
  <2>1. px[p].at # "loop"
    BY <1>1, <1>7 DEF Wanders
  <2>2. QED BY <1>1, <1>2, <1>3, <1>7, <2>1 DEF Wanders, Held, Meek
<1>8. QED BY <1>4, <1>5, <1>6, <1>7 DEF Stepped

\* A proxy leaves the pen with the update.
LEMMA PennedStepped ==
  ASSUME "controller" \notin Slow, IInv, Penned, NEW p \in Sides, Stepped(p)
  PROVE  Penned'
<1>1. ev'[7].root /\ ev[7].root
  BY Acting DEF Penned, Unused, Stepped, Aside
<1>2. ctl'.run = "install" => ctl'.state = "BEGUN" /\ ctl'.healthy /\ ctl'.stopped
  BY BrokerActs DEF Penned
<1>3. ctl'.run \in {"forward", "unwind", "undoCommit"} => Unused(px'["restore"], rt'["restore"])
  BY BrokerActs DEF Penned
<1>4. ASSUME ctl'.run = "forward", ctl'.at <= 50
      PROVE  Kept(ctl', ev'[7]) /\ Held(cli'["broker"], px'["broker"])
  <2>1. ctl' = ctl /\ p = "broker"
    BY <1>4, BrokerActs
  <2>2. Kept(ctl, ev[7]) /\ Held(cli[p], px[p])
    BY <1>4, <2>1 DEF Penned
  <2>3. Held(cli'[p], px'[p]) /\ SameJournal(ev')
    BY <2>1, <2>2, MeekStep
  <2>4. QED BY <2>1, <2>2, <2>3 DEF Kept, SameJournal
<1>5. ctl'.run = "forward" /\ ctl'.at > 50 => ctl'.state = "COMMITTED" /\ ev'[7].state = "COMMITTED"
  BY BrokerActs DEF Penned, Stepped, Writing
<1>6. QED BY <1>1, <1>2, <1>3, <1>4, <1>5 DEF Penned

\* What a step of root's half of the side p leaves alone.
RootMoves(p) ==
  /\ rt[p].at # "off" /\ \A s \in Sides \ {p} : rt'[s] = rt[s]
  /\ UNCHANGED <<app, ev, ctl, cli, px>>

\* Root's steps are of one side.
LEMMA RootMoved == IInv /\ Root => \E p \in Sides : RootMoves(p)
<1> SUFFICES ASSUME IInv, Root PROVE \E p \in Sides : RootMoves(p)
  OBVIOUS
<1>1. rt \in [Sides -> RootStates] /\ "broker" \in Sides /\ "restore" \in Sides
  BY DEF IInv, Types, ProcessType, Sides
<1>2. CASE root_driver_broker
  <2>1. /\ rt["broker"].at = "ready" /\ (\E r : rt' = [rt EXCEPT !["broker"] = r])
        /\ UNCHANGED <<app, ev, ctl, cli, px>>
    BY <1>2 DEF root_driver_broker, world
  <2>2. QED BY <1>1, <2>1 DEF RootMoves
<1>3. CASE root_driver_restore_broker
  <2>1. /\ rt["restore"].at = "ready" /\ (\E r : rt' = [rt EXCEPT !["restore"] = r])
        /\ UNCHANGED <<app, ev, ctl, cli, px>>
    BY <1>3 DEF root_driver_restore_broker, world
  <2>2. QED BY <1>1, <2>1 DEF RootMoves
<1>4. CASE RootCleansUp
  <2>1. /\ rt["broker"].at = "cleanup" /\ (\E r : rt' = [rt EXCEPT !["broker"] = r])
        /\ UNCHANGED <<app, ev, ctl, cli, px>>
    BY <1>4 DEF RootCleansUp, world
  <2>2. QED BY <1>1, <2>1 DEF RootMoves
<1>5. ASSUME NEW p \in Sides, RootLosesProxy(p) PROVE RootMoves(p)
  <2>1. /\ rt[p].at = "ready" /\ (\E r : rt' = [rt EXCEPT ![p] = r])
        /\ UNCHANGED <<app, ev, ctl, cli, px>>
    BY <1>5 DEF RootLosesProxy, world
  <2>2. QED BY <1>1, <2>1 DEF RootMoves
<1>6. QED BY <1>2, <1>3, <1>4, <1>5 DEF Root

\* Root leaves the pen with the update.
LEMMA PennedRoot == IInv /\ Penned /\ Root => Penned'
<1> SUFFICES ASSUME IInv, Penned, NEW p \in Sides, RootMoves(p) PROVE Penned'
  BY RootMoved
<1>1. UNCHANGED <<ev, ctl, cli, px>> /\ ev[7].root
  BY DEF RootMoves, Penned, Unused
<1>2. ctl.run \in {"forward", "unwind", "undoCommit"} => Unused(px'["restore"], rt'["restore"])
  BY <1>1 DEF RootMoves, Penned, Unused, Sides
<1>3. QED BY <1>1, <1>2 DEF Penned

\* Nobody holds the transaction lock any more.
LEMMA PennedIdle ==
  ASSUME ctl'.run \in {"none", "rollback", "retire"},
         ~ev'[7].root => \A p \in Sides : cli'[p] = NoClient /\ Unused(px'[p], rt'[p])
  PROVE  Penned'
  BY DEF Penned

\* A controller that leaves an update that has not begun leaves nothing.
LEMMA LeftUnbegun ==
  ASSUME IInv, Penned, Left, UNCHANGED rt, ctl.who \notin Sides, ~ev[7].root
  PROVE  \A p \in Sides : cli'[p] = NoClient /\ Unused(px'[p], rt'[p])
<1> SUFFICES ASSUME NEW p \in Sides PROVE cli'[p] = NoClient /\ Unused(px'[p], rt'[p])
  OBVIOUS
<1>1. cli[p] = NoClient /\ Unused(px[p], rt[p]) /\ NoClient.at = "none"
  BY DEF Penned, NoClient
<1>2. cli'[p] = cli[p] /\ px'[p] = px[p]
  BY <1>1 DEF Left
<1>3. QED BY <1>1, <1>2

\* What happens around the processes.
LEMMA PennedEnvironment == IInv /\ Penned /\ Environment => Penned'
<1> SUFFICES ASSUME IInv, Penned, Environment PROVE Penned'
  OBVIOUS
<1>1. ASSUME UNCHANGED <<ev, ctl, cli, px, rt>> PROVE Penned'
  BY <1>1 DEF Penned
<1>2. CASE HostStarts \/ HostLogsMarker \/ HostExits \/ CoreAudioRestarts \/ EvidenceDisturbed \/ RepositoryMoves
  BY <1>1, <1>2 DEF HostStarts, HostLogsMarker, HostExits, CoreAudioRestarts, EvidenceDisturbed,
       RepositoryMoves, brokers, vars
<1>3. CASE MainDies
  <2>1. ctl.who = "main" /\ ev' \in Torn /\ Leaves("err") /\ UNCHANGED rt
    BY <1>3 DEF MainDies, root
  <2>2. Left /\ ctl.who \notin Sides
    BY <2>1, Leaving DEF IInv, Types, Sides
  <2>3. ctl'.run = "none"
    BY <2>2 DEF Left, Idled
  <2>4. ev'[7].root = ev[7].root
    BY <2>1, TornIs
  <2>5. QED BY <2>1, <2>2, <2>3, <2>4, LeftUnbegun, PennedIdle
<1>4. CASE MachineDies
  <2>1. /\ ctl' = Idled /\ px' = [p \in Sides |-> [px[p] EXCEPT !.at = "off"]]
        /\ rt' = [p \in Sides |-> NoRoot] /\ cli' = [p \in Sides |-> NoClient]
    BY <1>4 DEF MachineDies
  <2>2. ASSUME NEW p \in Sides PROVE cli'[p] = NoClient /\ Unused(px'[p], rt'[p])
    BY <2>1, SideIs DEF Unused, NoRoot, ProxyStates
  <2>3. QED BY <2>1, <2>2, PennedIdle DEF Idled
<1>5. ASSUME NEW p \in Sides, ProxyDies(p) PROVE Penned'
  <2>1. /\ px[p].at # "off" /\ px' = [px EXCEPT ![p] = Exit(px[p], "err")] /\ UNCHANGED <<ev, cli, rt>>
        /\ ctl' = Idled \/ ctl' = ctl
    BY <1>5 DEF ProxyDies, root
  <2>2. px \in [Sides -> ProxyStates] /\ Exit(px[p], "err").at = "off"
    BY SideIs, Exits DEF IInv, Types, ProcessType
  <2>3. px'[p].at = "off" /\ (\A s \in Sides \ {p} : px'[s] = px[s]) /\ ev[7].root
    BY <2>1, <2>2 DEF Penned, Unused
  <2>4. CASE ctl' = Idled
    BY <2>1, <2>3, <2>4, PennedIdle DEF Idled
  <2>5. CASE ctl' = ctl
    <3>1. \A s \in Sides : px'[s] = px[s] \/ px'[s].at = "off"
      BY <2>3
    <3>2. "broker" \in Sides /\ "restore" \in Sides
      BY DEF Sides
    <3>3. Unused(px["restore"], rt["restore"]) => Unused(px'["restore"], rt'["restore"])
      BY <2>1, <3>1, <3>2 DEF Unused
    <3>4. Held(cli["broker"], px["broker"]) => Held(cli'["broker"], px'["broker"])
      BY <2>1, <3>1, <3>2 DEF Held
    <3>5. QED BY <2>1, <2>3, <2>5, <3>3, <3>4 DEF Penned
  <2>6. QED BY <2>1, <2>4, <2>5
<1>6. QED BY <1>2, <1>3, <1>4, <1>5 DEF Environment

\* A process takes the transaction lock.
LEMMA PennedEntry == IInv /\ Penned /\ (Begin \/ Install \/ Request) => Penned'
<1> SUFFICES ASSUME IInv, Penned, Begin \/ Install \/ Request PROVE Penned'
  OBVIOUS
<1>1. CASE Begin
  <2>1. UNCHANGED <<ev, cli, px, rt>> /\ ctl' = [Idled EXCEPT !.who = "main", !.run = "install"]
    BY <1>1 DEF Begin, brokers
  <2>2. ctl'.run = "install" /\ ctl'.state = "BEGUN" /\ ctl'.healthy /\ ctl'.stopped
    BY <2>1 DEF Idled
  <2>3. QED BY <2>1, <2>2 DEF Penned
<1>2. CASE Request
  <2>1. /\ UNCHANGED <<cli, px, rt>> /\ ev[7].root /\ ev' = [ev EXCEPT ![7] = V7Journal_open(ev[7])]
        /\ ctl' = [Idled EXCEPT !.who = "main", !.why = "explicit", !.at = 1, !.exp = "present",
                                !.state = ev[7].state,
                                !.run = IF ev[7].state = "ROLLED_BACK" THEN "retire" ELSE "rollback"]
    BY <1>2 DEF Request, brokers, rollback_existing_paired_v7_update, require_current_retry_v7_layout
  <2>2. ctl'.run \in {"retire", "rollback"}
    BY <2>1 DEF Idled
  <2>3. ev'[7].root
    BY <2>1 DEF V7Journal_open, IInv, Types, Evidence, All
  <2>4. QED BY <2>2, <2>3, PennedIdle
<1>3. CASE Install
  <2>1. ctl.who = "main" /\ ctl.run = "install" /\ UNCHANGED rt
    BY <1>3 DEF Install
  <2>2. CASE UNCHANGED <<ctl, ev, cli, px>>
    BY <2>1, <2>2 DEF Penned
  <2>3. CASE UNCHANGED ev /\ Leaves("err")
    <3>1. Left /\ ctl.who \notin Sides
      BY <2>1, <2>3, Leaving DEF IInv, Types, Sides
    <3>2. QED BY <2>1, <2>3, <3>1, LeftUnbegun, PennedIdle DEF Left, Idled
  <2>4. CASE /\ require_v7_retry_admission_ready /\ ev' = [ev EXCEPT ![7] = FreshEvidence]
             /\ ctl' = [ctl EXCEPT !.run = "forward", !.at = 1] /\ UNCHANGED <<cli, px>>
    <3>1. ev'[7] = FreshEvidence
      BY <2>4 DEF IInv, Types, All
    <3>2. \A p \in Sides : Unused(px'[p], rt'[p])
      BY <2>1, <2>4 DEF Penned, require_v7_retry_admission_ready
    <3>3. ctl'.run = "forward" /\ ctl'.at = 1 /\ ctl'.state = "BEGUN" /\ ctl'.healthy /\ ctl'.stopped
      BY <2>1, <2>4 DEF Penned, IInv, Types, Control
    <3>4. Before("BEGUN", "STOP_INITIATED") /\ Before("BEGUN", "COMMITTED")
      BY RankOf DEF Before
    <3>5. FreshEvidence.root /\ FreshEvidence.tail = "clean" /\ FreshEvidence.state = "BEGUN"
      BY FreshIs
    <3>6. Kept(ctl', ev'[7])
      BY <3>1, <3>3, <3>4, <3>5 DEF Kept
    <3>7. QED BY <3>1, <3>2, <3>3, <3>5, <3>6 DEF Penned, Held, Unused, Sides
  <2>5. QED BY <1>3, <2>2, <2>3, <2>4 DEF Install
<1>4. QED BY <1>1, <1>2, <1>3

\* Every step leaves the pen with the update.
LEMMA PennedStep == "controller" \notin Slow /\ IInv /\ Penned /\ Next => Penned'
<1>1. IInv /\ Penned /\ Command => Penned'
  BY CommandCourse, PennedCourse, PennedSpawned, PennedClient
<1>2. QED BY <1>1, ProxySteps, PennedStepped, PennedRoot, PennedEnvironment, PennedEntry DEF Next

-----------------------------------------------------------------------------
(* One command at a time: proxies and root.                                *)

\* The command is the same while the controller stays at its place.
LEMMA SameCommand ==
  ASSUME ctl'.who = ctl.who, ctl'.run = ctl.run, ctl'.at = ctl.at
  PROVE  Cmd' = Cmd /\ Awaiting' = Awaiting
  BY DEF Cmd, Awaiting, Running, Plan, perform_paired_v7_update, unwind_transaction, rollback_ready_commit_failure,
         rollback_to_current_baseline, already_rolled_back, Preparation, Transaction, Commitment

\* The proxy asks for PREPARE_COMMIT only behind the publication.
LEMMA PreparingStepped == ASSUME Preparing, NEW p \in Sides, Stepped(p) PROVE Preparing'
<1>1. CASE p # "broker"
  BY <1>1 DEF Preparing, Stepped, Aside, Sides
<1>2. CASE p = "broker" /\ Ends(p)
  BY <1>2 DEF Preparing, Ends
<1>3. CASE p = "broker" /\ Returns(p)
  BY <1>3 DEF Preparing, Returns
<1>4. CASE p = "broker" /\ Wanders(p)
  BY <1>4 DEF Preparing, Wanders
<1>5. CASE p = "broker" /\ Asks(p)
  <2>1. PICK c \in Words(p) : px'[p].want = c /\ px'[p].pub = px[p].pub /\ Source(p, c)
    BY <1>5 DEF Asks
  <2>2. c = "PREPARE_COMMIT" => px[p].pub
    BY <1>5, <2>1 DEF Source, InSequence
  <2>3. QED BY <1>5, <2>1, <2>2 DEF Preparing
<1>6. QED BY <1>1, <1>2, <1>3, <1>4, <1>5 DEF Stepped

\* A proxy at rest beside a live controller that keeps its deadlines stays so.
LEMMA AtRest ==
  ASSUME "controller" \notin Slow, NEW p \in Sides, p = "broker", Stepped(p), Held(cli[p], px[p]),
         px[p].at = "loop", cli[p].q = <<>>
  PROVE  FALSE
<1>1. ~Orphan(p)
  BY DEF Held, Orphan
<1>2. QED BY <1>1 DEF Stepped, Ends, Returns, Asks, Source, Wanders

\* A proxy serves one command of the update at a time.
LEMMA LinedStepped ==
  ASSUME "controller" \notin Slow, IInv, Penned, Lined, NEW p \in Sides, Stepped(p) PROVE Lined'
<1>1. Preparing'
  BY PreparingStepped DEF Lined
<1>2. ASSUME ctl'.run = "forward", ctl'.at <= 50 PROVE LinedUp'
  <2>1. ctl' = ctl /\ p = "broker"
    BY <1>2, BrokerActs
  <2>2. Held(cli[p], px[p]) /\ LinedUp /\ Preparing
    BY <1>2, <2>1 DEF Penned, Lined
  <2>3. ~(px[p].at = "loop" /\ cli[p].q = <<>>)
    BY <2>1, <2>2, AtRest
  <2>4. ctl.at <= 48 /\ "PREPARE_COMMIT" \notin cli[p].r
    BY <2>1, <2>2, <2>3 DEF LinedUp, Poised, IInv, Types, Control
  <2>5. ~Orphan(p) /\ px[p].at # "off"
    BY <2>2, Acting DEF Held, Orphan
  <2>6. px[p].goal = "none" =>
          \/ ctl.sent /\ px[p].at = "loop" /\ cli[p].q = <<Awaiting>> /\ Awaiting \notin cli[p].r
          \/ ctl.sent /\ px[p].at = "await" /\ px[p].want = Awaiting /\ cli[p].q = <<>> /\ Awaiting \notin cli[p].r
    BY <2>1, <2>2, <2>3, <2>5 DEF LinedUp, InLine
  <2>7. Awaiting' = Awaiting /\ ctl'.sent = ctl.sent /\ ctl'.at = ctl.at /\ UNCHANGED drv
    BY <2>1, SameCommand DEF Stepped, Aside
  <2>8. CASE Ends(p)
    <3>1. px'[p].at = "off" /\ "PREPARE_COMMIT" \notin cli'[p].r
      BY <2>4, <2>8 DEF Ends
    <3>2. QED BY <2>1, <2>4, <2>7, <3>1 DEF LinedUp, Verified, IInv, Types, Control
  <2>9. CASE Returns(p)
    <3>1. /\ px[p].at = "await" /\ px[p].want = Awaiting /\ cli[p].q = <<>> /\ ctl.sent
          /\ px'[p].at = "loop" /\ cli'[p].q = <<>> /\ rt'[p] = rt[p] /\ rt[p].reply = Awaiting
      BY <2>6, <2>9 DEF Returns
    <3>2. InLine(cli[p], px[p])'
      BY <3>1 DEF InLine
    <3>3. Verified(px[p], rt[p])'
      BY <2>1, <2>2, <2>5, <2>7, <3>1 DEF LinedUp, Verified
    <3>4. ASSUME "PREPARE_COMMIT" \in cli'[p].r
          PROVE  ctl.at = 48 /\ Poised(cli[p], px[p], rt[p])'
      <4>1. Awaiting = "PREPARE_COMMIT"
        BY <2>4, <2>9, <3>1, <3>4 DEF Returns
      <4>2. Cmd = "PREPARE_COMMIT" /\ ctl.at = 48
        BY <1>2, <2>1, <4>1, ForwardCommand DEF Awaiting, ForwardText
      <4>3. px[p].pub
        BY <2>1, <2>2, <3>1, <4>1 DEF Preparing
      <4>4. px'[p].pub /\ px'[p].rdy
        BY <2>9, <3>1, <4>1, <4>3 DEF Returns
      <4>5. rt[p].at = "ready" /\ rt[p].cmd = "none" /\ rt[p].pub /\ rt[p].rdy /\ drv = "canonical"
        BY <2>1, <2>2, <2>5, <3>1, <4>1 DEF LinedUp, Verified
      <4>6. QED BY <2>7, <3>1, <4>2, <4>4, <4>5 DEF Poised
    <3>5. QED BY <2>1, <2>4, <2>7, <3>1, <3>2, <3>3, <3>4 DEF LinedUp, IInv, Types, Control
  <2>10. CASE Asks(p)
    <3>1. PICK c \in Words(p) : /\ px'[p].at = "await" /\ px'[p].want = c /\ rt'[p].reply = "none"
                                /\ cli'[p].r = cli[p].r /\ Source(p, c)
      BY <2>10 DEF Asks
    <3>2. ASSUME px'[p].goal = "none" PROVE InLine(cli[p], px[p])'
      <4>1. px[p].goal = "none"
        BY <2>5, <3>1, <3>2 DEF Source
      <4>2. px[p].at = "loop" /\ cli[p].q = <<Awaiting>> /\ ctl.sent /\ Awaiting \notin cli[p].r
        BY <2>6, <3>1, <4>1 DEF Source
      <4>3. Head(cli[p].q) = Awaiting /\ Tail(cli[p].q) = <<>>
        BY <4>2
      <4>4. c = Awaiting /\ cli'[p].q = <<>>
        BY <2>5, <3>1, <3>2, <4>2, <4>3 DEF Source
      <4>5. QED BY <2>7, <3>1, <4>2, <4>4 DEF InLine
    <3>3. Verified(px[p], rt[p])'
      BY <3>1 DEF Verified
    <3>4. QED BY <2>1, <2>4, <2>7, <3>1, <3>2, <3>3 DEF LinedUp, IInv, Types, Control
  <2>11. CASE Wanders(p)
    <3>1. px[p].at # "loop" /\ px'[p].goal = px[p].goal /\ px[p].goal # "none"
      BY <2>1, <2>5, <2>6, <2>11 DEF Wanders
    <3>2. "PREPARE_COMMIT" \notin cli'[p].r /\ rt'[p] = rt[p]
      BY <2>4, <2>11 DEF Wanders
    <3>3. Verified(px[p], rt[p])'
      BY <2>1, <2>2, <2>5, <2>7, <3>2 DEF LinedUp, Verified
    <3>4. QED BY <2>1, <2>4, <2>7, <3>1, <3>2, <3>3 DEF LinedUp, IInv, Types, Control
  <2>12. QED BY <2>8, <2>9, <2>10, <2>11 DEF Stepped
<1>3. QED BY <1>1, <1>2 DEF Lined

\* A step of root's half of the broker leaves it verified, and at rest.
LEMMA BrokerRoots ==
  ASSUME "proxy" \notin Slow, IInv, root_driver_broker \/ RootLosesProxy("broker") \/ RootCleansUp,
         Verified(px["broker"], rt["broker"])
  PROVE  /\ Verified(px["broker"], rt["broker"])'
         /\ \A k : ~Poised(k, px["broker"], rt["broker"])
<1>0. px'["broker"] = px["broker"]
  BY DEF root_driver_broker, RootLosesProxy, RootCleansUp
<1> SUFFICES ASSUME NEW x, x = px["broker"], Verified(x, rt["broker"])
             PROVE  /\ Verified(x, rt["broker"])'
                    /\ \A k : ~Poised(k, x, rt["broker"])
  BY <1>0
<1> DEFINE p == "broker"
           c == rt[p].cmd
           sp == rt[p].pub \/ c = "PUBLISH"
           sr == rt[p].rdy \/ c = "PREPARE_COMMIT"
<1>1. rt \in [Sides -> RootStates] /\ rt[p] \in RootStates /\ p \in Sides /\ px' = px
  BY SideIs DEF IInv, Types, ProcessType, Sides, root_driver_broker, RootLosesProxy, RootCleansUp
<1>2. CASE root_driver_broker
  <2>1. rt[p].at = "ready" /\ c # "none"
    BY <1>2 DEF root_driver_broker
  <2>2. x.at # "off" => rt[p].reply # "PREPARE_COMMIT"
    BY <2>1 DEF Verified
  <2>3. CASE (c = "PREPARE" \/ InSequence(rt[p], c)) /\ x.at # "off"
    <3>1. PICK o \in Operation(c) :
            /\ Takes(o)
            /\ o.ok => rt' = [rt EXCEPT ![p] = Answer(p, [rt[p] EXCEPT !.pub = sp, !.rdy = sr],
                                                    IF c \in Terminal THEN "off" ELSE "ready")]
            /\ ~o.ok => rt' = [rt EXCEPT ![p] = [rt[p] EXCEPT !.cmd = "none",
                                                    !.at = IF c = "PUBLISH" THEN "cleanup" ELSE "off"]]
      BY <1>2, <2>3 DEF root_driver_broker
    <3>2. CASE ~o.ok
      <4> DEFINE a == IF c = "PUBLISH" THEN "cleanup" ELSE "off"
                 r == [rt[p] EXCEPT !.cmd = "none", !.at = a]
      <4>1. r.reply = rt[p].reply
        BY <1>1 DEF RootStates
      <4>2. rt' = [rt EXCEPT ![p] = r]
        BY <3>1, <3>2
      <4> HIDE DEF r
      <4>3. rt'[p].reply = rt[p].reply
        BY <1>1, <4>1, <4>2
      <4>4. QED BY <1>1, <2>1, <2>2, <2>3, <4>3 DEF Verified, Poised
    <3>3. CASE o.ok
      <4> DEFINE a == IF c \in Terminal THEN "off" ELSE "ready"
                 s == [rt[p] EXCEPT !.pub = sp, !.rdy = sr]
                 r == [s EXCEPT !.at = a, !.reply = c, !.cmd = "none"]
      <4>1. /\ r.at = a /\ r.reply = c /\ r.cmd = "none" /\ r.pub = sp /\ r.rdy = sr
        <5>1. sp \in BOOLEAN /\ sr \in BOOLEAN
          OBVIOUS
        <5> HIDE DEF sp, sr, a
        <5>2. s.pub = sp /\ s.rdy = sr /\ s \in RootStates
          BY <1>1, <5>1 DEF RootStates
        <5> HIDE DEF s
        <5>3. QED BY <5>2 DEF RootStates
      <4>2. rt' = [rt EXCEPT ![p] = r]
        BY <2>3, <3>1, <3>3 DEF Answer
      <4> HIDE DEF r, s
      <4>3. rt'[p] = r
        BY <1>1, <4>2
      <4>4. c = "PREPARE_COMMIT" => a = "ready" /\ sr /\ sp
        BY <2>3 DEF InSequence, Terminal
      <4>5. c = "PREPARE_COMMIT" => drv' = "canonical"
        <5>1. Turned(c, o)
          BY Operations DEF IInv, Types, Published
        <5>2. drv' = o.drv
          BY <3>1, Taking DEF IInv, Types
        <5>3. QED BY <3>3, <5>1, <5>2 DEF Turned
      <4> HIDE DEF a, sp, sr
      <4>6. QED BY <1>1, <2>1, <4>1, <4>3, <4>4, <4>5 DEF Verified, Poised
    <3>4. QED BY <3>2, <3>3
  <2>4. CASE ~(c = "PREPARE" \/ InSequence(rt[p], c)) /\ x.at # "off"
    <3> DEFINE r == [rt[p] EXCEPT !.at = "cleanup", !.cmd = "none"]
    <3>1. r.reply = rt[p].reply
      BY <1>1 DEF RootStates
    <3>2. rt' = [rt EXCEPT ![p] = r]
      BY <1>1, <1>2, <2>4 DEF root_driver_broker, RootStates
    <3> HIDE DEF r
    <3>3. rt'[p].reply = rt[p].reply
      BY <1>1, <3>1, <3>2
    <3>4. QED BY <1>1, <2>1, <2>2, <2>4, <3>3 DEF Verified, Poised
  <2>5. CASE x.at = "off"
    BY <1>1, <2>5 DEF Verified, Poised
  <2>6. QED BY <2>3, <2>4, <2>5
<1>3. CASE RootLosesProxy(p)
  BY <1>1, <1>3 DEF RootLosesProxy, Verified, Poised
<1>4. CASE RootCleansUp
  <2> DEFINE r == [rt[p] EXCEPT !.at = "off"]
  <2>1. rt[p].at = "cleanup" /\ rt' = [rt EXCEPT ![p] = r]
    BY <1>4 DEF RootCleansUp
  <2>2. r.reply = rt[p].reply
    BY <1>1 DEF RootStates
  <2> HIDE DEF r
  <2>3. rt'[p].reply = rt[p].reply
    BY <1>1, <2>1, <2>2
  <2>4. QED BY <1>1, <2>1, <2>3 DEF Verified, Poised
<1>5. QED BY <1>2, <1>3, <1>4

\* Root answers one command of the update at a time.
LEMMA LinedRoot == "proxy" \notin Slow /\ IInv /\ Penned /\ Lined /\ Root => Lined'
<1> SUFFICES ASSUME "proxy" \notin Slow, IInv, Penned, Lined, Root PROVE Lined'
  OBVIOUS
<1>1. UNCHANGED <<app, ev, ctl, cli, px>>
  BY RootMoved DEF RootMoves
<1>2. Preparing'
  BY <1>1 DEF Lined, Preparing
<1>3. ASSUME ctl'.run = "forward", ctl'.at <= 50 PROVE LinedUp'
  <2>1. LinedUp /\ rt["restore"].at = "off"
    BY <1>1, <1>3 DEF Lined, Penned, Unused
  <2>2. root_driver_broker \/ RootLosesProxy("broker") \/ RootCleansUp
    BY <2>1 DEF Root, root_driver_restore_broker, RootLosesProxy, Sides
  <2>3. Verified(px["broker"], rt["broker"])
    BY <2>1 DEF LinedUp
  <2>4. Verified(px["broker"], rt["broker"])' /\ \A k : ~Poised(k, px["broker"], rt["broker"])
    BY <2>2, <2>3, BrokerRoots
  <2>5. "PREPARE_COMMIT" \notin cli["broker"].r /\ ~(ctl.at > 48)
    BY <2>1, <2>4 DEF LinedUp
  <2>6. Awaiting' = Awaiting
    BY <1>1, SameCommand
  <2>7. InLine(cli["broker"], px["broker"]) => InLine(cli["broker"], px["broker"])'
    BY <1>1, <2>6 DEF InLine
  <2>8. QED BY <1>1, <2>1, <2>4, <2>5, <2>7 DEF LinedUp
<1>4. QED BY <1>2, <1>3 DEF Lined

\* Everything that the line of commands is about is as it was.
LEMMA LinedAlone ==
  ASSUME Lined, UNCHANGED <<cli["broker"], px["broker"], rt["broker"], drv>>,
         ctl'.run # "forward" \/ ctl' = ctl
  PROVE  Lined'
<1>1. Preparing'
  BY DEF Lined, Preparing
<1>2. ASSUME ctl' = ctl, LinedUp PROVE LinedUp'
  <2>1. Awaiting' = Awaiting
    BY <1>2, SameCommand
  <2>2. InLine(cli["broker"], px["broker"]) => InLine(cli["broker"], px["broker"])'
    BY <1>2, <2>1 DEF InLine
  <2>3. Poised(cli["broker"], px["broker"], rt["broker"]) => Poised(cli["broker"], px["broker"], rt["broker"])'
    BY DEF Poised
  <2>4. Verified(px["broker"], rt["broker"]) => Verified(px["broker"], rt["broker"])'
    BY DEF Verified
  <2>5. QED BY <1>2, <2>2, <2>3, <2>4 DEF LinedUp
<1>3. QED BY <1>1, <1>2 DEF Lined

\* What happens around the processes.
LEMMA LinedEnvironment == "broker" \notin Killed /\ IInv /\ Penned /\ Lined /\ Environment => Lined'
<1> SUFFICES ASSUME "broker" \notin Killed, IInv, Penned, Lined, Environment PROVE Lined'
  OBVIOUS
<1>1. CASE HostStarts \/ HostLogsMarker \/ HostExits \/ CoreAudioRestarts \/ EvidenceDisturbed \/ RepositoryMoves
  <2>1. UNCHANGED <<ctl, cli, px, rt, drv>>
    BY <1>1 DEF HostStarts, HostLogsMarker, HostExits, CoreAudioRestarts, EvidenceDisturbed,
       RepositoryMoves, brokers, vars
  <2>2. QED BY <2>1, LinedAlone
<1>2. CASE MainDies
  <2>1. ctl.who = "main" /\ Leaves("err")
    BY <1>2 DEF MainDies
  <2>2. ctl'.run # "forward" /\ px' = px
    BY <2>1 DEF Leaves, Idled
  <2>3. QED BY <2>2 DEF Lined, Preparing
<1>3. CASE MachineDies
  <2>1. ctl' = Idled /\ px' = [p \in Sides |-> [px[p] EXCEPT !.at = "off"]]
    BY <1>3 DEF MachineDies
  <2>2. px'["broker"].at = "off" /\ ctl'.run = "none"
    BY <2>1, SideIs DEF Idled, ProxyStates, Sides
  <2>3. QED BY <2>2 DEF Lined, Preparing
<1>4. ASSUME NEW p \in Sides, ProxyDies(p) PROVE Lined'
  <2>1. /\ p \in Killed /\ px[p].at # "off" /\ px' = [px EXCEPT ![p] = Exit(px[p], "err")]
        /\ UNCHANGED <<cli, rt, drv>> /\ (ctl' = Idled \/ ctl' = ctl)
    BY <1>4 DEF ProxyDies, Crash, root
  <2>2. px'["broker"] = px["broker"]
    BY <2>1 DEF Sides, IInv, Types, ProcessType
  <2>3. QED BY <2>1, <2>2, LinedAlone DEF Idled
<1>5. QED BY <1>1, <1>2, <1>3, <1>4 DEF Environment

\* A process takes the transaction lock.
LEMMA LinedEntry == IInv /\ Penned /\ Lined /\ (Begin \/ Install \/ Request) => Lined'
<1> SUFFICES ASSUME IInv, Penned, Lined, Begin \/ Install \/ Request PROVE Lined'
  OBVIOUS
<1>1. CASE Begin
  <2>1. UNCHANGED <<cli, px, rt, drv>> /\ ctl'.run = "install"
    BY <1>1 DEF Begin, brokers, Idled
  <2>2. QED BY <2>1, LinedAlone
<1>2. CASE Request
  <2>1. /\ UNCHANGED <<cli, px, rt, drv>>
        /\ ctl' = [Idled EXCEPT !.who = "main", !.why = "explicit", !.at = 1, !.exp = "present",
                                !.state = ev[7].state,
                                !.run = IF ev[7].state = "ROLLED_BACK" THEN "retire" ELSE "rollback"]
    BY <1>2 DEF Request, brokers
  <2>2. ctl'.run \in {"retire", "rollback"}
    BY <2>1 DEF Idled
  <2>3. QED BY <2>1, <2>2, LinedAlone
<1>3. CASE Install
  <2>1. ctl.who = "main" /\ ctl.run = "install" /\ UNCHANGED <<rt, drv>>
    BY <1>3 DEF Install
  <2>2. CASE UNCHANGED <<ctl, ev, cli, px>>
    BY <2>1, <2>2, LinedAlone
  <2>3. CASE UNCHANGED ev /\ Leaves("err")
    <3>1. ctl'.run # "forward" /\ px' = px
      BY <2>1, <2>3 DEF Leaves, Idled
    <3>2. QED BY <3>1 DEF Lined, Preparing
  <2>4. CASE /\ require_v7_retry_admission_ready /\ ev' = [ev EXCEPT ![7] = FreshEvidence]
             /\ ctl' = [ctl EXCEPT !.run = "forward", !.at = 1] /\ UNCHANGED <<cli, px>>
    <3>1. cli'["broker"] = NoClient /\ px'["broker"].at = "off"
      BY <2>4 DEF Penned, require_v7_retry_admission_ready, Unused, Sides
    <3>2. ctl'.at = 1
      BY <2>4 DEF IInv, Types, Control
    <3>3. QED BY <3>1, <3>2 DEF Lined, LinedUp, Preparing, Verified, NoClient
  <2>5. QED BY <1>3, <2>2, <2>3, <2>4 DEF Install
<1>4. QED BY <1>1, <1>2, <1>3

\* The command that the broker answers to is not on its way where the update
\* is at another one.
LEMMA NotAwaiting ==
  ASSUME IInv, ctl.run = "forward", Cmd \notin Asking, InLine(cli["broker"], px["broker"])
  PROVE  px["broker"].at = "loop" /\ cli["broker"].q = <<>>
<1> DEFINE p == "broker"
<1>1. /\ Sound(p, cli[p], px[p], rt[p], Gone) /\ cli[p] \in Clients
  BY SideIs DEF Sides
<1>2. Awaiting = Cmd /\ Cmd \notin {"PING", "PUBLISH", "PREPARE_COMMIT", "COMMIT"}
  BY DEF Awaiting, Asking, Requests7
<1>3. Cmd \notin {"PREPARE", "ABANDON", "ROLLBACK", "none"}
  BY ForwardCommand DEF ForwardEntry
<1>4. Cmd \notin Words(p) \cup {"none"}
  BY <1>2, <1>3 DEF Words
<1>5. px[p].at = "await" => px[p].want \in Words(p)
  BY <1>1 DEF Sound, Spoken
<1>6. cli[p].q # <<Awaiting>>
  <2>1. ASSUME cli[p].q = <<Awaiting>> PROVE FALSE
    <3>1. cli[p].q[1] = Awaiting /\ 1 \in DOMAIN cli[p].q
      BY <2>1
    <3>2. Awaiting \in Queued(cli[p].q)
      BY <3>1 DEF Queued
    <3>3. QED BY <1>1, <1>2, <1>4, <3>2 DEF Sound, Spoken
  <2>2. QED BY <2>1
<1>7. QED BY <1>2, <1>4, <1>5, <1>6 DEF InLine

\* A command other than a request.
LEMMA LinedCourse == IInv /\ Penned /\ Lined /\ Coursed => Lined'
<1> SUFFICES ASSUME IInv, Penned, Lined, NEW c, NEW e, Course(c, e), Taken(c, e) PROVE Lined'
  BY DEF Coursed
<1>1. UNCHANGED <<drv, rt>> /\ ctl.run \in Planned
  BY DEF Course
<1>2. CASE Onward(c, e)
  <2>1. ctl'.run = ctl.run /\ ctl'.at = ctl.at + 1 /\ UNCHANGED <<cli, px, drv, rt>>
    BY <1>2, OneCourse
  <2>2. ASSUME ctl.run = "forward", ctl'.at <= 50 PROVE LinedUp'
    <3>1. ~Skips /\ Cmd \notin Asking
      <4>1. ~Skips /\ ~Steered(c, e)
        BY <1>2, <2>2, OneCourse DEF Skips
      <4>2. QED BY <4>1, Askings DEF Taken, Plainly, Recorded, Unrecorded, Reopened
    <3>2. ctl.at <= 50 /\ ctl.at \in 1..52 /\ ctl.at # 48
      BY <2>1, <2>2, <3>1, ForwardCommand DEF ForwardText, Asking, Requests7
    <3>3. LinedUp
      BY <2>2, <3>2 DEF Lined
    <3>4. "PREPARE_COMMIT" \notin cli["broker"].r
      BY <3>2, <3>3 DEF LinedUp
    <3>5. ctl'.at > 48 => Poised(cli["broker"], px["broker"], rt["broker"])
      BY <2>1, <3>2, <3>3 DEF LinedUp
    <3>6. px["broker"].at # "off" /\ px["broker"].goal = "none" => px["broker"].at = "loop" /\ cli["broker"].q = <<>>
      BY <2>2, <3>1, <3>3, NotAwaiting DEF LinedUp
    <3>7. Verified(px["broker"], rt["broker"])
      BY <3>3 DEF LinedUp
    <3>8. QED BY <2>1, <3>4, <3>5, <3>6, <3>7 DEF LinedUp, InLine, Verified, Poised
  <2>3. Preparing'
    BY <2>1 DEF Lined, Preparing
  <2>4. QED BY <2>1, <2>2, <2>3 DEF Lined
<1>3. CASE Steered(c, e)
  <2>1. CASE Left
    <3>1. px'["broker"] = px["broker"] \/ px'["broker"].at = "off"
      BY <2>1, SideIs, Exits DEF Left, Sides
    <3>2. ctl'.run = "none"
      BY <2>1 DEF Left, Idled
    <3>3. QED BY <3>1, <3>2 DEF Lined, Preparing
  <2>2. CASE ~Left
    <3>1. UNCHANGED px /\ (ctl'.run # "forward" \/ ctl'.at = 51)
      BY <1>3, <2>2, SteeredTo
    <3>2. QED BY <3>1 DEF Lined, Preparing
  <2>3. QED BY <2>1, <2>2
<1>4. Onward(c, e) \/ Steered(c, e)
  BY DEF Taken, Plainly, Recorded, Unrecorded, Reopened
<1>5. QED BY <1>2, <1>3, <1>4

\* The broker is started.
LEMMA LinedSpawned == IInv /\ Lined /\ Spawned => Lined'
<1> SUFFICES ASSUME IInv, Lined, Spawned PROVE Lined'
  OBVIOUS
<1>1. /\ Cmd \in {"startBroker", "startRestore"} /\ Cmd \in Asking /\ ctl' = [ctl EXCEPT !.sent = TRUE]
      /\ UNCHANGED drv
  BY DEF Spawned, Asking
<1>2. ctl'.run = ctl.run /\ ctl'.at = ctl.at /\ ctl'.sent /\ Cmd' = Cmd /\ Awaiting' = Awaiting
  BY <1>1, Sending, SameCommand
<1>3. /\ cli \in [Sides -> Clients] /\ px \in [Sides -> ProxyStates] /\ rt \in [Sides -> RootStates]
  BY DEF IInv, Types, ProcessType
<1>4. CASE ctl.run = "forward"
  <2>1. Side = "broker" /\ ctl.at = 11 /\ Cmd = "startBroker"
    BY <1>1, <1>4, Asked
  <2>2. Started = "PREPARE" /\ Awaiting = "PREPARE"
    BY <2>1 DEF Started, Awaiting
  <2>3. /\ cli'["broker"].q = <<>> /\ cli'["broker"].r = {} /\ px'["broker"].at = "await"
        /\ px'["broker"].want = "PREPARE" /\ rt'["broker"].reply = "none"
    BY <2>1, <2>2, Spawning
  <2>4. QED BY <1>2, <2>1, <2>2, <2>3 DEF Lined, LinedUp, Preparing, InLine, Verified
<1>5. CASE ctl.run # "forward"
  <2>1. Side = "restore"
    BY <1>1, <1>5, Asked
  <2>2. px'["broker"] = px["broker"]
    BY <1>3, <2>1, Spawning, Zenon DEF Sides
  <2>3. QED BY <1>2, <1>5, <2>2 DEF Lined, Preparing
<1>6. QED BY <1>4, <1>5

\* A command of the update is written.
LEMMA LinedPosted == IInv /\ Lined /\ Posted => Lined'
<1> SUFFICES ASSUME IInv, Lined, Posted PROVE Lined'
  OBVIOUS
<1>1. /\ Cmd \in Requests7 /\ Cmd \in Asking /\ ctl' = [ctl EXCEPT !.sent = TRUE] /\ UNCHANGED <<px, rt, drv>>
      /\ ~ctl.sent
  BY DEF Posted, Asking
<1>2. ctl'.run = ctl.run /\ ctl'.at = ctl.at /\ ctl'.sent /\ Cmd' = Cmd /\ Awaiting' = Awaiting
  BY <1>1, Sending, SameCommand
<1>3. Preparing'
  BY <1>1 DEF Lined, Preparing
<1>4. ASSUME ctl.run = "forward", ctl.at <= 50 PROVE LinedUp'
  <2>1. /\ Side = "broker" /\ ctl.at <= 48 /\ ctl.at # 11 /\ Cmd # "startBroker"
        /\ Cmd \in {"PING", "PUBLISH", "PREPARE_COMMIT", "COMMIT"}
    BY <1>1, <1>4, Asked DEF Requests7
  <2>2. LinedUp
    BY <1>4 DEF Lined
  <2>3. Awaiting = Cmd /\ Request7 = Cmd /\ Marker = Cmd
    BY <2>1 DEF Awaiting, Request7, Marker
  <2>4. cli'["broker"].q = Append(cli["broker"].q, Cmd) /\ cli'["broker"].r = cli["broker"].r \ {Cmd}
    BY <2>1, <2>3, Posting
  <2>5. ASSUME px["broker"].at # "off", px["broker"].goal = "none" PROVE InLine(cli["broker"], px["broker"])'
    <3>1. px["broker"].at = "loop" /\ cli["broker"].q = <<>>
      BY <1>1, <2>2, <2>5 DEF LinedUp, InLine
    <3>2. cli'["broker"].q = <<Cmd>> /\ Cmd \notin cli'["broker"].r
      BY <2>4, <3>1
    <3>3. QED BY <1>1, <1>2, <2>3, <3>1, <3>2 DEF InLine
  <2>6. "PREPARE_COMMIT" \notin cli'["broker"].r
    BY <1>1, <2>2, <2>4 DEF LinedUp
  <2>7. Verified(px["broker"], rt["broker"])'
    BY <1>1, <2>2 DEF LinedUp, Verified
  <2>8. ~(ctl'.at > 48)
    BY <1>2, <2>1, ForwardCommand, <1>4
  <2>9. QED BY <1>1, <2>5, <2>6, <2>7, <2>8 DEF LinedUp
<1>5. QED BY <1>2, <1>3, <1>4 DEF Lined

\* The update never hangs up on its broker.
LEMMA LinedHung == IInv /\ Lined /\ Hung => Lined'
<1> SUFFICES ASSUME IInv, Lined, Hung PROVE Lined'
  OBVIOUS
<1>1. Cmd = "undo" /\ Cmd \in Asking /\ ctl' = [ctl EXCEPT !.sent = TRUE] /\ UNCHANGED px
  BY DEF Hung, Asking, Requests7
<1>2. ctl'.run # "forward"
  BY <1>1, Asked, Sending
<1>3. QED BY <1>1, <1>2 DEF Lined, Preparing

\* An answer is read: at the commit the broker is at rest.
LEMMA LinedHeard == IInv /\ Lined /\ Heard => Lined'
<1> SUFFICES ASSUME IInv, Lined, Heard PROVE Lined'
  OBVIOUS
<1>1. Cmd \in Asking /\ ctl.sent /\ Reply \in cli[Side].r /\ UNCHANGED <<px, rt, drv>>
  BY DEF Heard
<1>2. ctl'.run = ctl.run /\ ctl'.at = ctl.at + 1
  BY Hearing
<1>3. Preparing'
  BY <1>1 DEF Lined, Preparing
<1>4. ASSUME ctl.run = "forward", ctl.at + 1 <= 50 PROVE LinedUp'
  <2>1. /\ Side = "broker" /\ ctl.at \in {11, 14, 28, 30, 32, 39, 43, 48}
        /\ Cmd \in {"startBroker", "PING", "PUBLISH", "PREPARE_COMMIT", "COMMIT"}
        /\ (Cmd = "PREPARE_COMMIT") = (ctl.at = 48)
    BY <1>1, <1>4, Asked
  <2>2. LinedUp
    BY <1>4, <2>1 DEF Lined
  <2>3. Awaiting = Reply
    BY <2>1 DEF Awaiting, Reply, Request7, Marker, Started
  <2>4. cli'["broker"].q = cli["broker"].q /\ cli'["broker"].r = cli["broker"].r \ {Reply}
    BY <2>1, Hearing
  <2>5. px["broker"].at # "off" /\ px["broker"].goal = "none" => InLine(cli["broker"], px["broker"])'
    BY <1>1, <2>1, <2>2, <2>3, <2>4 DEF LinedUp, InLine
  <2>6. Verified(px["broker"], rt["broker"])'
    BY <1>1, <2>2 DEF LinedUp, Verified
  <2>7. ASSUME ctl.at = 48 \/ "PREPARE_COMMIT" \in cli["broker"].r
        PROVE  "PREPARE_COMMIT" \notin cli'["broker"].r /\ Poised(cli["broker"], px["broker"], rt["broker"])'
    <3>1. ctl.at = 48
      BY <2>2, <2>7 DEF LinedUp
    <3>2. Reply = "PREPARE_COMMIT"
      BY <2>1, <2>3, <3>1 DEF Awaiting
    <3>3. Poised(cli["broker"], px["broker"], rt["broker"])
      BY <1>1, <2>1, <2>2, <3>2 DEF LinedUp
    <3>4. QED BY <1>1, <2>4, <3>2, <3>3 DEF Poised
  <2>8. QED BY <1>1, <1>2, <2>1, <2>4, <2>5, <2>6, <2>7 DEF LinedUp
<1>5. QED BY <1>2, <1>3, <1>4 DEF Lined

\* Every step keeps the update's commands in line.
LEMMA LinedStep ==
  /\ "controller" \notin Slow /\ "proxy" \notin Slow /\ "broker" \notin Killed
  /\ IInv /\ Penned /\ Lined /\ Next
  => Lined'
<1>1. IInv /\ Penned /\ Lined /\ Command => Lined'
  BY CommandCourse, LinedCourse, LinedSpawned, LinedPosted, LinedHung, LinedHeard
<1>2. QED BY <1>1, ProxySteps, LinedStepped, LinedRoot, LinedEnvironment, LinedEntry DEF Next

-----------------------------------------------------------------------------
(* The commit is kept: proxies and root.                                   *)

\* A durable COMMITTED is read back, though the intent to roll back was torn.
LEMMA CommittedParses ==
  ASSUME ev[7].state = "COMMITTED", ev[7].tail \in {"clean", "ROLLBACK_STARTED"}
  PROVE  parse_v7_journal
<1>1. "COMMITTED" \in V7States /\ V7Rank("COMMITTED") = 14
  BY Alphabet, RankOf
<1>2. validate_v7_transition("COMMITTED", "ROLLBACK_STARTED")
  BY <1>1, Transitions
<1>3. "ROLLBACK_STARTED" \in V7States
  BY Alphabet
<1>4. QED BY <1>2, <1>3 DEF parse_v7_journal, is_plausible_v7_torn_tail

\* The broker proxy keeps the committed driver.
LEMMA KeepingStepped ==
  ASSUME IInv, NEW p \in Sides, p = "broker", Stepped(p), ev[7].state = "COMMITTED", parse_v7_journal,
         Keeping(cli[p], px[p], rt[p])
  PROVE  Keeping(cli'[p], px'[p], rt'[p])
<1>1. px[p].at # "off" /\ rt'[p].at = rt[p].at /\ rt'[p].pub = rt[p].pub /\ rt'[p].rdy = rt[p].rdy
  BY Acting DEF Stepped, Aside
<1>2. CASE rt[p].at = "off"
  BY <1>1, <1>2 DEF Keeping
<1>3. CASE /\ rt[p].at = "ready" /\ rt[p].pub /\ rt[p].rdy
           /\ rt[p].cmd = "COMMIT" /\ px[p].at = "await" /\ px[p].want = "COMMIT"
  <2>1. Ends(p)
    BY <1>3 DEF Stepped, Returns, Asks, Source, Wanders, Terminal
  <2>2. QED BY <1>3, <2>1 DEF Ends, Keeping
<1>4. CASE /\ rt[p].at = "ready" /\ rt[p].pub /\ rt[p].rdy
           /\ rt[p].cmd = "none" /\ px[p].at = "loop" /\ px[p].pub /\ px[p].rdy /\ Queued(cli[p].q) \subseteq {"COMMIT"}
  <2>1. cli[p].q \in Seq(Lines)
    BY SideIs DEF Clients
  <2>2. cli[p].q # <<>> => Head(cli[p].q) = "COMMIT"
    BY <1>4, <2>1, Pipe
  <2>3. Asks(p)
    BY <1>4 DEF Stepped, Ends, Returns, Wanders, uid_proxy_journal_committed
  <2>4. PICK c \in Words(p) :
          /\ px'[p].at = "await" /\ px'[p].want = c
          /\ rt'[p].cmd = (IF rt[p].at = "ready" THEN c ELSE "none") /\ Source(p, c)
    BY <2>3 DEF Asks
  <2>5. InSequence(px[p], "COMMIT")
    BY <1>4 DEF InSequence
  <2>6. c = "COMMIT"
    BY <1>4, <2>2, <2>4, <2>5 DEF Source
  <2>7. QED BY <1>1, <1>4, <2>4, <2>6 DEF Keeping
<1>5. QED BY <1>1, <1>2, <1>3, <1>4 DEF Keeping

\* The restore proxy has not been asked for anything, nor does it ask.
LEMMA RestfulStepped ==
  ASSUME IInv, NEW p \in Sides, p = "restore", Stepped(p), ev[7].state = "COMMITTED", parse_v7_journal,
         Restful(cli[p], px[p], rt[p])
  PROVE  Restful(cli'[p], px'[p], rt'[p])
<1>1. px[p].at \in {"await", "loop"} /\ rt'[p].at = rt[p].at /\ Queued(cli[p].q) \subseteq {"PING"}
      /\ (px[p].at = "await" => px[p].want # "RESTORE") /\ (rt[p].at = "off" \/ rt[p].cmd # "RESTORE")
  BY Acting DEF Stepped, Aside, Restful
<1>2. cli[p].q \in Seq(Lines) /\ Sound(p, cli[p], px[p], rt[p], Gone)
  BY SideIs DEF Clients
<1>3. cli[p].q # <<>> => Head(cli[p].q) = "PING" /\ Queued(Tail(cli[p].q)) \subseteq {"PING"}
  BY <1>1, <1>2, Pipe
<1>4. CASE Ends(p)
  BY <1>1, <1>4 DEF Ends, Restful
<1>5. CASE Returns(p)
  BY <1>1, <1>5 DEF Returns, Restful
<1>6. CASE Asks(p)
  <2>1. PICK c \in Words(p) :
          /\ px'[p].at = "await" /\ px'[p].want = c
          /\ rt'[p].cmd = (IF rt[p].at = "ready" THEN c ELSE "none") /\ Source(p, c)
    BY <1>6 DEF Asks
  <2>2. c \in {"PING", "ABORT"} /\ Queued(cli'[p].q) \subseteq {"PING"}
    BY <1>1, <1>3, <2>1 DEF Source
  <2>3. QED BY <2>1, <2>2 DEF Restful
<1>7. CASE Wanders(p)
  <2>1. CASE px[p].at = "loop"
    BY <1>3, <1>7, <2>1 DEF Wanders, uid_proxy_journal_committed
  <2>2. CASE px[p].at = "await"
    <3>1. px[p].goal # "none" /\ px[p].want \notin {"COMMIT", "ABORT"}
      BY <1>7, <2>2 DEF Wanders
    <3>2. px[p].want \in {"RESTORE", "ABORT"}
      BY <1>2, <2>2, <3>1 DEF Sound, Spoken, Cleaning
    <3>3. QED BY <1>1, <2>2, <3>1, <3>2
  <2>3. QED BY <1>1, <2>1, <2>2
<1>8. QED BY <1>4, <1>5, <1>6, <1>7 DEF Stepped

\* Proxies keep the commit.
LEMMA CommittedStepped ==
  ASSUME IInv, Committed, NEW p \in Sides, Stepped(p) PROVE Committed'
<1>1. Settled7(ctl', ev'[7].state = "COMMITTED")
  <2>1. CASE ctl' = ctl
    <3>1. ev'[7].state = "COMMITTED" <=> ev[7].state = "COMMITTED"
      BY DEF Stepped, Writing
    <3>2. QED BY <2>1, <3>1 DEF Committed, Settled7
  <2>2. CASE /\ ev'[7].state = "DRIVER_RESTORED" /\ ctl'.run = "rollback" /\ ctl'.at = 1 /\ ctl'.healthy
    BY <2>2 DEF Settled7
  <2>3. QED BY <2>1, <2>2 DEF Stepped, Writing
<1>2. ASSUME ev'[7].state = "COMMITTED"
      PROVE  ev'[7].tail \in {"clean", "ROLLBACK_STARTED"} /\ Durable'
  <2>1. ev[7].state = "COMMITTED" /\ ev[7].tail \in {"clean", "ROLLBACK_STARTED"} /\ Durable
    BY <1>2 DEF Stepped, Writing, Committed
  <2>2. parse_v7_journal
    BY <2>1, CommittedParses
  <2>3. ev'[7].tail \in {"clean", "ROLLBACK_STARTED"} /\ app' = app /\ drv' = drv
    BY <2>1 DEF Stepped, Writing, Aside
  <2>4. \A s \in Sides \ {p} : cli'[s] = cli[s] /\ px'[s] = px[s] /\ rt'[s] = rt[s]
    BY DEF Stepped, Aside
  <2>5. CASE p = "broker"
    <3>1. Keeping(cli'[p], px'[p], rt'[p])
      BY <2>1, <2>2, <2>5, KeepingStepped DEF Durable
    <3>2. cli'["restore"] = cli["restore"] /\ px'["restore"] = px["restore"] /\ rt'["restore"] = rt["restore"]
      BY <2>4, <2>5 DEF Sides
    <3>3. QED BY <2>1, <2>3, <2>5, <3>1, <3>2 DEF Durable
  <2>6. CASE p = "restore"
    <3>1. Restful(cli'[p], px'[p], rt'[p])
      BY <2>1, <2>2, <2>6, RestfulStepped DEF Durable
    <3>2. cli'["broker"] = cli["broker"] /\ px'["broker"] = px["broker"] /\ rt'["broker"] = rt["broker"]
      BY <2>4, <2>6 DEF Sides
    <3>3. QED BY <2>1, <2>3, <2>6, <3>1, <3>2 DEF Durable
  <2>7. QED BY <2>5, <2>6 DEF Sides
<1>3. QED BY <1>1, <1>2 DEF Committed

\* Root's half of the broker verifies the committed driver or ends.
LEMMA KeepingRoot ==
  ASSUME IInv, root_driver_broker, Durable
  PROVE  drv' = drv /\ rt'["broker"].at = "off" /\ rt'["restore"] = rt["restore"]
<1> DEFINE p == "broker"
           s == [rt[p] EXCEPT !.pub = @ \/ "COMMIT" = "PUBLISH", !.rdy = @ \/ "COMMIT" = "PREPARE_COMMIT"]
           failed == [rt[p] EXCEPT !.cmd = "none", !.at = "off"]
<1>1. rt \in [Sides -> RootStates] /\ rt[p] \in RootStates /\ p \in Sides /\ "restore" \in Sides
  BY DEF IInv, Types, ProcessType, Sides
<1>2. rt[p].cmd = "COMMIT" /\ InSequence(rt[p], "COMMIT")
  BY DEF root_driver_broker, Durable, Keeping, InSequence
<1>3. PICK o \in Operation("COMMIT") :
        Takes(o) /\ rt' = [rt EXCEPT ![p] = IF o.ok THEN Answer(p, s, "off") ELSE failed]
  BY <1>2 DEF root_driver_broker, Terminal
<1>4. drv' = drv
  <2>1. Turned("COMMIT", o)
    BY Operations DEF IInv, Types, Published
  <2>2. o.drv = drv
    BY <2>1 DEF Turned
  <2>3. QED BY <1>3, <2>2 DEF Takes
<1>5. failed.at = "off"
  BY <1>1 DEF RootStates
<1>6. Answer(p, s, "off").at = "off"
  <2>1. s = rt[p]
    BY <1>1 DEF RootStates
  <2> DEFINE m == rt[p].cmd
             r == [rt[p] EXCEPT !.at = "off", !.reply = m, !.cmd = "none"]
  <2>2. r.at = "off" /\ NoRoot.at = "off"
    BY <1>1 DEF RootStates, NoRoot
  <2>3. Answer(p, s, "off") \in {NoRoot, r}
    BY <2>1 DEF Answer
  <2> HIDE DEF r, s
  <2>4. QED BY <2>2, <2>3
<1> HIDE DEF s, failed
<1>7. rt'[p].at = "off" /\ rt'["restore"] = rt["restore"]
  BY <1>1, <1>3, <1>5, <1>6
<1>8. QED BY <1>4, <1>7

\* Root's half of the restore only looks at the driver, unless it is asked to
\* restore it.
LEMMA RestfulRoot ==
  ASSUME IInv, root_driver_restore_broker, Durable
  PROVE  drv' = drv /\ rt'["restore"].cmd = "none" /\ rt'["broker"] = rt["broker"]
<1> DEFINE p == "restore"
           c == rt[p].cmd
           t == IF c \in Terminal THEN "off" ELSE "ready"
           served == Answer(p, rt[p], t)
           failed == [rt[p] EXCEPT !.cmd = "none", !.at = "off"]
<1>1. p \in Sides /\ "broker" \in Sides /\ rt[p] \in RootStates /\ rt \in [Sides -> RootStates]
  BY DEF Sides, IInv, Types, ProcessType
<1>2. c \in {"VERIFY", "PING", "ABORT"}
  <2>1. Sound(p, cli[p], px[p], rt[p], Gone)
    BY <1>1, SideIs
  <2>2. rt[p].at = "ready" /\ c # "none" /\ c # "RESTORE"
    BY DEF root_driver_restore_broker, Durable, Restful
  <2>3. QED BY <2>1, <2>2 DEF Sound, Spoken, Words
<1>3. PICK o \in Operation(c) : Takes(o) /\ rt' = [rt EXCEPT ![p] = IF o.ok THEN served ELSE failed]
  BY DEF root_driver_restore_broker
<1>4. served.cmd = "none"
  <2>1. t \in {"off", "ready"}
    OBVIOUS
  <2> HIDE DEF t
  <2>2. QED BY <1>1, <2>1, AnswerIs
<1>5. failed.cmd = "none"
  BY <1>1 DEF RootStates
<1>6. drv' = drv
  <2>1. Turned(c, o)
    BY Operations DEF IInv, Types, Published
  <2>2. o.drv = drv
    BY <1>2, <2>1 DEF Turned
  <2>3. QED BY <1>3, <2>2 DEF Takes
<1> HIDE DEF served, failed
<1>7. rt'[p].cmd = "none" /\ rt'["broker"] = rt["broker"]
  BY <1>1, <1>3, <1>4, <1>5
<1>8. QED BY <1>6, <1>7

\* Root that is not left by a proxy that is alive keeps the commit.
LEMMA CommittedRoot == "proxy" \notin Slow /\ IInv /\ Committed /\ Root => Committed'
<1> SUFFICES ASSUME "proxy" \notin Slow, IInv, Committed, Root PROVE Committed'
  OBVIOUS
<1>1. UNCHANGED <<app, ev, ctl, cli, px>>
  BY RootMoved DEF RootMoves
<1>2. ASSUME Durable PROVE Durable'
  <2>1. rt \in [Sides -> RootStates] /\ "broker" \in Sides /\ "restore" \in Sides
    BY DEF IInv, Types, ProcessType, Sides
  <2>2. CASE root_driver_broker
    <3>1. drv' = drv /\ rt'["broker"].at = "off" /\ rt'["restore"] = rt["restore"]
      BY <1>2, <2>2, KeepingRoot
    <3>2. QED BY <1>1, <1>2, <3>1 DEF Durable, Keeping
  <2>3. CASE root_driver_restore_broker
    <3>1. drv' = drv /\ rt'["restore"].cmd = "none" /\ rt'["broker"] = rt["broker"]
      BY <1>2, <2>3, RestfulRoot
    <3>2. QED BY <1>1, <1>2, <3>1 DEF Durable, Restful
  <2>4. CASE RootCleansUp
    BY <1>2, <2>4 DEF RootCleansUp, Durable, Keeping
  <2>5. CASE RootLosesProxy("broker")
    BY <1>2, <2>5 DEF RootLosesProxy, Durable, Keeping
  <2>6. CASE RootLosesProxy("restore")
    <3> DEFINE r == [rt["restore"] EXCEPT !.at = "off"]
    <3>1. drv' = drv /\ rt' = [rt EXCEPT !["restore"] = r]
      BY <2>6 DEF RootLosesProxy
    <3>2. r.at = "off"
      BY <2>1 DEF RootStates
    <3> HIDE DEF r
    <3>3. rt'["restore"].at = "off" /\ rt'["broker"] = rt["broker"]
      BY <2>1, <3>1, <3>2
    <3>4. QED BY <1>1, <1>2, <3>1, <3>3 DEF Durable, Restful
  <2>7. QED BY <2>2, <2>3, <2>4, <2>5, <2>6 DEF Root, Sides
<1>3. QED BY <1>1, <1>2 DEF Committed

-----------------------------------------------------------------------------
(* The commit is kept: deaths and entry points.                            *)

\* Idle processes, or a transaction that has just begun, want nothing undone.
LEMMA SettledIdle ==
  ASSUME NEW committed \in BOOLEAN, ctl' = Idled PROVE Settled7(ctl', committed)
  BY DEF Settled7, Idled

\* The driver, the app, root and the proxies are as they were.
LEMMA DurableAlone ==
  ASSUME Durable, UNCHANGED <<app, drv, px, rt>>, \A p \in Sides : cli'[p].q = cli[p].q
  PROVE  Durable'
  BY DEF Durable, Keeping, Restful, Sides

\* The only record that may still follow COMMITTED.
LEMMA TornCommand ==
  ASSUME IInv, Penned, Committed, ev[7].state = "COMMITTED", Cmd \in V7States, ~Skips, CanAppend
  PROVE  Cmd = "ROLLBACK_STARTED" /\ ctl.run = "rollback" /\ ctl.healthy /\ ctl.at = 4
<1>1. Running /\ ctl.run \in Planned /\ ctl.healthy
  BY Commanding, NotStates DEF IInv, CanAppend
<1>2. ctl.run # "forward"
  <2>1. ASSUME ctl.run = "forward" PROVE FALSE
    <3>1. ctl.at \in 1..52 /\ ctl.at < 51
      BY <2>1, ForwardCommand DEF ForwardText
    <3>2. ctl.at <= 50
      BY <3>1
    <3>3. ctl.state = "COMMITTED" /\ Before(ctl.state, "COMMITTED")
      BY <2>1, <3>2 DEF Penned, Kept
    <3>4. QED BY <3>3, RankOf DEF Before
  <2>2. QED BY <2>1
<1>3. ctl.run = "rollback" /\ ctl.at <= 4
  BY <1>1, <1>2 DEF Committed, Settled7, Planned
<1>4. RollbackText(ctl.at, Cmd) /\ ctl.at \in Nat
  BY <1>1, <1>3, Commands DEF IInv, Types, Control
<1>5. QED BY <1>1, <1>3, <1>4 DEF RollbackText

\* What a death leaves of the journal.
LEMMA TornTail ==
  ASSUME IInv, Penned, Committed, ev' \in Torn, ev'[7].state = "COMMITTED"
  PROVE  ev[7].state = "COMMITTED" /\ ev'[7].tail \in {"clean", "ROLLBACK_STARTED"}
<1>1. ev[7].state = "COMMITTED" /\ ev[7].tail \in {"clean", "ROLLBACK_STARTED"}
  BY TornIs DEF Committed
<1>2. CASE ev' = ev
  BY <1>1, <1>2
<1>3. CASE ev' # ev
  <2>1. Cmd \in V7States /\ ~Skips /\ CanAppend /\ ev' = [ev EXCEPT ![7].tail = Cmd]
    BY <1>3 DEF Torn
  <2>2. Cmd = "ROLLBACK_STARTED"
    BY <1>1, <2>1, TornCommand
  <2> DEFINE r == [ev[7] EXCEPT !.tail = Cmd]
  <2>3. ev' = [ev EXCEPT ![7] = r] /\ ev \in [All -> Evidence] /\ 7 \in All
    BY <2>1 DEF IInv, Types, All
  <2>4. r.tail = Cmd
    BY <2>3 DEF Evidence
  <2> HIDE DEF r
  <2>5. ev'[7].tail = Cmd
    BY <2>3, <2>4
  <2>6. QED BY <1>1, <2>2, <2>5
<1>4. QED BY <1>2, <1>3

\* Somebody dies.
LEMMA CommittedEnvironment ==
  "broker" \notin Killed /\ IInv /\ Penned /\ Committed /\ Environment => Committed'
<1> SUFFICES ASSUME "broker" \notin Killed, IInv, Penned, Committed, Environment PROVE Committed'
  OBVIOUS
<1>1. CASE HostStarts \/ HostLogsMarker \/ HostExits \/ CoreAudioRestarts \/ EvidenceDisturbed \/ RepositoryMoves
  <2>1. UNCHANGED <<app, ev, ctl, cli, px, rt, drv>>
    BY <1>1 DEF HostStarts, HostLogsMarker, HostExits, CoreAudioRestarts, EvidenceDisturbed,
       RepositoryMoves, brokers, vars, host
  <2>2. Durable => Durable'
    BY <2>1, DurableAlone
  <2>3. QED BY <2>1, <2>2 DEF Committed
<1>2. CASE MainDies
  <2>1. ctl.who = "main" /\ ev' \in Torn /\ Leaves("err") /\ UNCHANGED <<app, rt, drv>>
    BY <1>2 DEF MainDies, root
  <2>2. ctl' = Idled /\ UNCHANGED px
    BY <2>1 DEF Leaves
  <2>3. \A p \in Sides : cli'[p].q = cli[p].q
    BY <2>1, Leaving, LeftQuietly DEF IInv, Types, Quieter
  <2>4. ev'[7].state = "COMMITTED" => ev[7].state = "COMMITTED" /\ ev'[7].tail \in {"clean", "ROLLBACK_STARTED"}
    BY <2>1, TornTail
  <2>5. Durable => Durable'
    BY <2>1, <2>2, <2>3, DurableAlone
  <2>6. QED BY <2>2, <2>4, <2>5, SettledIdle DEF Committed
<1>3. CASE MachineDies
  <2>1. /\ ctl' = Idled /\ px' = [p \in Sides |-> [px[p] EXCEPT !.at = "off"]]
        /\ rt' = [p \in Sides |-> NoRoot] /\ UNCHANGED <<app, drv>> /\ ev' \in Torn
    BY <1>3 DEF MachineDies, Torn
  <2>2. ev'[7].state = "COMMITTED" => ev[7].state = "COMMITTED" /\ ev'[7].tail \in {"clean", "ROLLBACK_STARTED"}
    BY <2>1, TornTail
  <2>3. px'["restore"].at = "off" /\ rt'["restore"].at = "off" /\ rt'["broker"].at = "off"
    BY <2>1, SideIs DEF ProxyStates, NoRoot, Sides
  <2>4. Durable => Durable'
    BY <2>1, <2>3 DEF Durable, Keeping, Restful
  <2>5. QED BY <2>1, <2>2, <2>4, SettledIdle DEF Committed
<1>4. ASSUME NEW p \in Sides, ProxyDies(p) PROVE Committed'
  <2>1. /\ p \in Killed /\ px' = [px EXCEPT ![p] = Exit(px[p], "err")]
        /\ UNCHANGED <<app, ev, cli, rt, drv>> /\ (ctl' = Idled \/ ctl' = ctl)
    BY <1>4 DEF ProxyDies, Crash, root
  <2>2. px \in [Sides -> ProxyStates] /\ Exit(px[p], "err").at = "off" /\ p = "restore"
    BY <2>1, SideIs, Exits DEF IInv, Types, ProcessType, Sides
  <2>3. px'["restore"].at = "off" /\ px'["broker"] = px["broker"]
    BY <2>1, <2>2 DEF Sides
  <2>4. Durable => Durable'
    BY <2>1, <2>3 DEF Durable, Restful
  <2>5. Settled7(ctl', ev'[7].state = "COMMITTED")
    BY <2>1, SettledIdle DEF Committed
  <2>6. QED BY <2>1, <2>4, <2>5 DEF Committed
<1>5. QED BY <1>1, <1>2, <1>3, <1>4 DEF Environment

\* A process takes the transaction lock.
LEMMA CommittedEntry == IInv /\ Penned /\ Committed /\ (Begin \/ Install \/ Request) => Committed'
<1> SUFFICES ASSUME IInv, Penned, Committed, Begin \/ Install \/ Request PROVE Committed'
  OBVIOUS
<1>1. CASE Begin
  <2>1. UNCHANGED <<app, ev, cli, px, rt, drv>> /\ ctl'.run = "install" /\ ctl'.who = "main"
    BY <1>1 DEF Begin, brokers, Idled
  <2>2. Durable => Durable'
    BY <2>1, DurableAlone
  <2>3. QED BY <2>1, <2>2 DEF Committed, Settled7
<1>2. CASE Request
  <2>1. /\ UNCHANGED <<app, cli, px, rt, drv>> /\ ev' = [ev EXCEPT ![7] = V7Journal_open(ev[7])]
        /\ ctl' = [Idled EXCEPT !.who = "main", !.why = "explicit", !.at = 1, !.exp = "present",
                                !.state = ev[7].state,
                                !.run = IF ev[7].state = "ROLLED_BACK" THEN "retire" ELSE "rollback"]
    BY <1>2 DEF Request, brokers
  <2>2. /\ ctl'.who = "main" /\ ctl'.at = 1 /\ ctl'.state = ev[7].state /\ ctl'.healthy
        /\ ctl'.run = IF ev[7].state = "ROLLED_BACK" THEN "retire" ELSE "rollback"
    BY <2>1 DEF Idled
  <2>3. ev'[7].state = ev[7].state /\ ev'[7].tail = "clean"
    <3>1. ev \in [All -> Evidence] /\ ev[7] \in Evidence /\ 7 \in All
      BY DEF IInv, Types, All
    <3>2. V7Journal_open(ev[7]).state = ev[7].state /\ V7Journal_open(ev[7]).tail = "clean"
      BY <3>1, Opened
    <3>3. QED BY <2>1, <3>1, <3>2
  <2>4. Settled7(ctl', ev'[7].state = "COMMITTED")
    BY <2>2, <2>3 DEF Settled7
  <2>5. Durable => Durable'
    BY <2>1, DurableAlone
  <2>6. QED BY <2>3, <2>4, <2>5 DEF Committed
<1>3. CASE Install
  <2>1. ctl.who = "main" /\ ctl.run = "install" /\ UNCHANGED <<app, rt, drv>>
    BY <1>3 DEF Install
  <2>2. CASE UNCHANGED <<ctl, ev, cli, px>>
    <3>1. Durable => Durable'
      BY <2>1, <2>2, DurableAlone
    <3>2. QED BY <2>2, <3>1 DEF Committed
  <2>3. CASE UNCHANGED ev /\ Leaves("err")
    <3>1. ctl' = Idled /\ UNCHANGED px
      BY <2>1, <2>3 DEF Leaves
    <3>2. \A p \in Sides : cli'[p].q = cli[p].q
      BY <2>3, Leaving, LeftQuietly DEF IInv, Types, Quieter
    <3>3. Durable => Durable'
      BY <2>1, <3>1, <3>2, DurableAlone
    <3>4. QED BY <2>3, <3>1, <3>3, SettledIdle DEF Committed
  <2>4. CASE /\ require_v7_retry_admission_ready /\ ev' = [ev EXCEPT ![7] = FreshEvidence]
             /\ ctl' = [ctl EXCEPT !.run = "forward", !.at = 1] /\ UNCHANGED <<cli, px>>
    <3>1. ev'[7].state # "COMMITTED"
      <4>1. ev'[7] = FreshEvidence
        BY <2>4 DEF IInv, Types, All
      <4>2. QED BY <4>1, FreshIs
    <3>2. ctl'.run = "forward" /\ ctl'.who = "main"
      BY <2>1, <2>4 DEF IInv, Types, Control
    <3>3. QED BY <3>1, <3>2 DEF Committed, Settled7
  <2>5. QED BY <1>3, <2>2, <2>3, <2>4 DEF Install
<1>4. QED BY <1>1, <1>2, <1>3

-----------------------------------------------------------------------------
(* The commit is kept: requests.                                           *)

\* Up to its record the update has not committed.
LEMMA ForwardUncommitted ==
  ASSUME Penned, ctl.run = "forward", ctl.at <= 50 PROVE ev[7].state # "COMMITTED"
<1>1. Before(ev[7].state, "COMMITTED")
  BY DEF Penned, Kept
<1>2. QED BY <1>1, RankOf DEF Before

\* The controller is where it was.
LEMMA SettledSame ==
  ASSUME Committed, UNCHANGED ev, ctl'.who = ctl.who, ctl'.run = ctl.run, ctl'.at = ctl.at,
         ctl'.state = ctl.state, ctl'.healthy = ctl.healthy
  PROVE  Settled7(ctl', ev'[7].state = "COMMITTED")
  BY DEF Committed, Settled7

\* What is asked of the brokers behind a durable COMMITTED.
LEMMA AskedCommitted ==
  ASSUME IInv, Penned, Committed, ev[7].state = "COMMITTED", Cmd \in Asking
  PROVE  \/ ctl.run = "forward" /\ Side = "broker" /\ Cmd = "COMMIT"
         \/ ctl.run = "rollback" /\ Side = "restore" /\ ctl.at = 2 /\ Cmd = "startRestore"
         \/ ctl.run = "rollback" /\ Side = "restore" /\ ctl.at = 3 /\ Cmd = "PING"
<1>1. ctl.run \in {"forward", "rollback", "unwind", "undoCommit"}
  BY Asked
<1>2. CASE ctl.run = "forward"
  <2>1. Side = "broker" /\ ctl.at \in {11, 14, 28, 30, 32, 39, 43, 48, 51} /\ (Cmd = "COMMIT") = (ctl.at = 51)
    BY <1>2, Asked
  <2>2. ctl.at = 51
    BY <1>2, <2>1, ForwardUncommitted
  <2>3. QED BY <1>2, <2>1, <2>2
<1>3. CASE ctl.run = "rollback"
  <2>1. /\ Side = "restore" /\ ctl.at \in {2, 3, 11}
        /\ (Cmd = "startRestore") = (ctl.at = 2) /\ (Cmd = "PING") = (ctl.at = 3)
    BY <1>3, Asked
  <2>2. ctl.at <= 4
    BY <1>3, <2>1 DEF Committed, Settled7
  <2>3. QED BY <1>3, <2>1, <2>2
<1>4. CASE ctl.run \in {"unwind", "undoCommit"}
  <2>1. ctl.run = "undoCommit" /\ ctl.at = 4
    BY <1>4, Asked DEF Committed, Settled7
  <2>2. QED BY <2>1 DEF Committed, Settled7
<1>5. QED BY <1>1, <1>2, <1>3, <1>4

\* A restore that is started has been asked for nothing yet.
LEMMA CommittedSpawned == IInv /\ Penned /\ Committed /\ Spawned => Committed'
<1> SUFFICES ASSUME IInv, Penned, Committed, Spawned PROVE Committed'
  OBVIOUS
<1>1. /\ Cmd \in {"startBroker", "startRestore"} /\ Cmd \in Asking /\ ctl' = [ctl EXCEPT !.sent = TRUE]
      /\ UNCHANGED <<ev, drv, app>>
  BY DEF Spawned, Asking
<1>2. Settled7(ctl', ev'[7].state = "COMMITTED")
  BY <1>1, Sending, SettledSame
<1>3. ASSUME ev[7].state = "COMMITTED" PROVE Durable'
  <2>1. ctl.run = "rollback" /\ Side = "restore"
    BY <1>1, <1>3, AskedCommitted
  <2>2. Started = "VERIFY"
    BY <2>1 DEF Started
  <2>3. /\ cli \in [Sides -> Clients] /\ px \in [Sides -> ProxyStates] /\ rt \in [Sides -> RootStates]
        /\ "broker" \in Sides
    BY DEF IInv, Types, ProcessType, Sides
  <2>4. /\ cli' = [cli EXCEPT !["restore"] = cli'["restore"]] /\ px' = [px EXCEPT !["restore"] = px'["restore"]]
        /\ rt' = [rt EXCEPT !["restore"] = rt'["restore"]]
        /\ cli'["restore"].q = <<>> /\ px'["restore"].at = "await" /\ px'["restore"].want = "VERIFY"
        /\ rt'["restore"].cmd = "VERIFY"
    BY <2>1, <2>2, Spawning
  <2>5. cli'["broker"] = cli["broker"] /\ px'["broker"] = px["broker"] /\ rt'["broker"] = rt["broker"]
    BY <2>3, <2>4, Zenon
  <2>6. Queued(cli'["restore"].q) = {}
    BY <2>4 DEF Queued
  <2>7. QED BY <1>1, <1>3, <2>4, <2>5, <2>6 DEF Committed, Durable, Restful
<1>4. QED BY <1>1, <1>2, <1>3 DEF Committed

\* The update asks its broker for COMMIT, a rollback sends PING.
LEMMA CommittedPosted == IInv /\ Penned /\ Committed /\ Posted => Committed'
<1> SUFFICES ASSUME IInv, Penned, Committed, Posted PROVE Committed'
  OBVIOUS
<1>1. /\ Cmd \in Requests7 /\ Cmd \in Asking /\ ctl' = [ctl EXCEPT !.sent = TRUE]
      /\ UNCHANGED <<ev, px, rt, drv, app>> /\ px[Side].at # "off"
  BY DEF Posted, Asking
<1>2. Settled7(ctl', ev'[7].state = "COMMITTED")
  BY <1>1, Sending, SettledSame
<1>3. ASSUME ev[7].state = "COMMITTED" PROVE Durable'
  <2>1. \/ Side = "broker" /\ Cmd = "COMMIT"
        \/ Side = "restore" /\ Cmd = "PING"
    BY <1>1, <1>3, AskedCommitted DEF Requests7
  <2>2. Request7 = Cmd /\ Cmd \in Lines
    BY <2>1 DEF Request7, Lines
  <2>3. cli \in [Sides -> Clients] /\ Side \in Sides /\ "broker" \in Sides /\ "restore" \in Sides
    BY <2>1 DEF IInv, Types, ProcessType, Sides
  <2>4. cli[Side].q \in Seq(Lines)
    BY <2>3 DEF Clients
  <2>5. cli' = [cli EXCEPT ![Side] = cli'[Side]] /\ Queued(cli'[Side].q) = Queued(cli[Side].q) \cup {Cmd}
    BY <2>2, <2>4, Posting, Pipe
  <2>6. CASE Side = "broker" /\ Cmd = "COMMIT"
    <3>1. cli'["restore"] = cli["restore"]
      BY <2>3, <2>5, <2>6, Zenon
    <3>2. QED BY <1>1, <1>3, <2>5, <2>6, <3>1 DEF Committed, Durable, Keeping
  <2>7. CASE Side = "restore" /\ Cmd = "PING"
    <3>1. cli'["broker"] = cli["broker"]
      BY <2>3, <2>5, <2>7, Zenon
    <3>2. QED BY <1>1, <1>3, <2>5, <2>7, <3>1 DEF Committed, Durable, Restful
  <2>8. QED BY <2>1, <2>6, <2>7
<1>4. QED BY <1>1, <1>2, <1>3 DEF Committed

\* Nobody hangs up on the broker of a committed update.
LEMMA CommittedHung == IInv /\ Penned /\ Committed /\ Hung => Committed'
<1> SUFFICES ASSUME IInv, Penned, Committed, Hung PROVE Committed'
  OBVIOUS
<1>1. Cmd = "undo" /\ Cmd \in Asking /\ ctl' = [ctl EXCEPT !.sent = TRUE] /\ UNCHANGED ev
  BY DEF Hung, Asking, Requests7
<1>2. ev[7].state # "COMMITTED"
  BY <1>1, AskedCommitted
<1>3. Settled7(ctl', ev'[7].state = "COMMITTED")
  BY <1>1, Sending, SettledSame
<1>4. QED BY <1>1, <1>2, <1>3 DEF Committed

\* An answer is read.
LEMMA CommittedHeard == IInv /\ Penned /\ Committed /\ Heard => Committed'
<1> SUFFICES ASSUME IInv, Penned, Committed, Heard PROVE Committed'
  OBVIOUS
<1>1. Cmd \in Asking /\ UNCHANGED <<ev, px, rt, drv, app>>
  BY DEF Heard
<1>2. /\ ctl'.who = ctl.who /\ ctl'.run = ctl.run /\ ctl'.at = ctl.at + 1 /\ ctl'.healthy = ctl.healthy
      /\ ctl'.state = IF Cmd = "RESTORE" THEN ev[7].state ELSE ctl.state
      /\ Side \in Sides /\ cli' = [cli EXCEPT ![Side] = cli'[Side]] /\ cli'[Side].q = cli[Side].q
  BY Hearing
<1>3. ctl.run = "rollback" => ctl.at \in {2, 3, 11} /\ ctl.healthy
  <2>1. ctl.run = "rollback" => ctl.at \in {2, 3, 11}
    BY <1>1, Asked
  <2>2. QED BY <2>1 DEF Committed, Settled7
<1>4. ctl.run = "undoCommit" => ctl.healthy
  <2>1. ctl.run = "undoCommit" => ctl.at = 4
    BY <1>1, Asked
  <2>2. QED BY <2>1 DEF Committed, Settled7
<1>5. ev[7].state = "COMMITTED" /\ ctl.run = "rollback" => ctl.at \in {2, 3} /\ Cmd # "RESTORE"
  BY <1>1, AskedCommitted
<1>6. Settled7(ctl', ev'[7].state = "COMMITTED")
  BY <1>1, <1>2, <1>3, <1>4, <1>5 DEF Committed, Settled7
<1>7. Durable => Durable'
  <2>1. cli \in [Sides -> Clients]
    BY DEF IInv, Types, ProcessType
  <2>2. \A p \in Sides : cli'[p].q = cli[p].q
    BY <1>2, <2>1
  <2>3. QED BY <1>1, <2>2, DurableAlone
<1>8. QED BY <1>1, <1>6, <1>7 DEF Committed

-----------------------------------------------------------------------------
(* The commit is kept: commands.                                           *)

\* The update commits with broker, root, driver and host in their places.
LEMMA Committing ==
  ASSUME IInv, Penned, Lined, Committed, Cmd = "COMMITTED"
  PROVE  /\ ctl.run = "forward" /\ ctl.at = 50 /\ Durable /\ ctl.who \in {"none", "main"}
         /\ ev[7].tail = "clean" /\ ctl.state = ev[7].state
<1>1. Running /\ ctl.run \in Planned
  BY Commanding DEF IInv
<1>2. Cmd \in V7States /\ Cmd \notin DriverRestored \cup {"ROLLBACK_STARTED"}
  BY Alphabet DEF DriverRestored
<1>3. ctl.run = "forward" /\ ctl.at = 50
  <2>1. ctl.run # "rollback"
    BY <1>1, <1>2, Commands DEF IInv, RollbackText
  <2>2. ctl.run \notin {"unwind", "undoCommit"}
    BY <1>1, Commands DEF IInv, UnwindText, UndoCommitText
  <2>3. ctl.run # "retire"
    BY <1>1, Commands DEF IInv, RetireText
  <2>4. ctl.run = "forward"
    BY <1>1, <2>1, <2>2, <2>3 DEF Planned
  <2>5. QED BY <2>4, ForwardCommand DEF ForwardText
<1>4. ev[7].tail = "clean" /\ ctl.state = ev[7].state /\ Unused(px["restore"], rt["restore"])
  BY <1>3 DEF Penned, Kept
<1>5. Poised(cli["broker"], px["broker"], rt["broker"])
  BY <1>3 DEF Lined, LinedUp
<1>6. app = 7
  BY <1>3 DEF IInv, Controls, Posed
<1>7. Queued(<<>>) = {}
  BY DEF Queued
<1>8. Durable
  BY <1>4, <1>5, <1>6, <1>7 DEF Durable, Keeping, Restful, Unused, Poised
<1>9. ctl.who \in {"none", "main"}
  BY <1>3 DEF Committed, Settled7
<1>10. QED BY <1>3, <1>4, <1>8, <1>9

\* Behind the commit no command moves the host.
LEMMA AppCourse ==
  ASSUME IInv, Penned, Committed, NEW c, NEW e, Course(c, e), ev[7].state = "COMMITTED" PROVE app' = app
<1>1. ctl.at \in Nat
  BY DEF IInv, Types, Control
<1>2. ctl.run = "forward" => ctl.at \notin {25, 34}
  BY ForwardUncommitted
<1>3. ctl.run = "rollback" => ~(ctl.at > 12)
  BY <1>1 DEF Committed, Settled7
<1>4. QED BY <1>2, <1>3 DEF Course

\* A command that leaves a durable COMMITTED found it, or is the commit.
LEMMA Standing ==
  ASSUME IInv, Penned, Lined, Committed, NEW c, NEW e, Course(c, e), Taken(c, e), e[7].state = "COMMITTED"
  PROVE  /\ Durable /\ app' = app /\ ctl.who \in {"none", "main"} /\ e[7].tail \in {"clean", "ROLLBACK_STARTED"}
         /\ \/ ev[7].state = "COMMITTED"
            \/ ctl.run = "forward" /\ ctl.at = 50 /\ (Onward(c, e) \/ ~c.healthy)
<1>1. ASSUME ev[7].state = "COMMITTED"
      PROVE  Durable /\ app' = app /\ ctl.who \in {"none", "main"} /\ ev[7].tail \in {"clean", "ROLLBACK_STARTED"}
  BY <1>1, AppCourse DEF Committed, Settled7
<1>2. CASE SameJournal(e)
  BY <1>1, <1>2 DEF SameJournal
<1>3. CASE CanAppend /\ Appended(e, Cmd) /\ (Onward(c, e) \/ ctl.run # "forward" \/ ~c.healthy)
  <2>1. Cmd = "COMMITTED"
    BY <1>3 DEF Appended
  <2>2. /\ ctl.run = "forward" /\ ctl.at = 50 /\ Durable /\ ctl.who \in {"none", "main"}
        /\ ev[7].tail = "clean" /\ ctl.state = ev[7].state
    BY <2>1, Committing
  <2>3. e[7].tail = "clean"
    BY <1>3, <2>2 DEF Appended, CanAppend
  <2>4. app' = app
    BY <2>2 DEF Course
  <2>5. QED BY <1>3, <2>2, <2>3, <2>4
<1>4. CASE CanAppend /\ Cmd \in V7States /\ ~Skips /\ e[7].state = ev[7].state /\ e[7].tail = Cmd
  <2>1. Cmd = "ROLLBACK_STARTED"
    BY <1>4, TornCommand
  <2>2. QED BY <1>1, <1>4, <2>1
<1>5. CASE e[7].state = ev[7].state /\ e[7].tail = "clean"
  BY <1>1, <1>5
<1>6. QED BY <1>2, <1>3, <1>4, <1>5 DEF Taken, Plainly, Recorded, Unrecorded, Reopened

\* A command asks no broker and leaves root and the driver alone.
LEMMA DurableCourse ==
  ASSUME IInv, Durable, UNCHANGED app, ctl.who \in {"none", "main"}, NEW c, NEW e, Course(c, e),
         Onward(c, e) \/ Steered(c, e)
  PROVE  Durable'
<1>1. UNCHANGED <<drv, rt>> /\ px \in [Sides -> ProxyStates] /\ cli \in [Sides -> Clients]
  BY DEF Course, IInv, Types, ProcessType
<1>2. CASE Onward(c, e)
  BY <1>1, <1>2, DurableAlone DEF Onward
<1>3. CASE Steered(c, e)
  <2>1. CASE Left
    <3>1. \A p \in Sides : px'[p] = px[p] /\ cli'[p].q = cli[p].q
      BY <2>1, LeftQuietly DEF IInv, Types, Quieter, Left, Sides
    <3>2. "broker" \in Sides /\ "restore" \in Sides
      BY DEF Sides
    <3>3. QED BY <1>1, <3>1, <3>2 DEF Durable, Keeping, Restful
  <2>2. CASE ~Left
    <3>1. UNCHANGED px /\ cli'["restore"] = cli["restore"] /\ cli'["broker"].q = cli["broker"].q
      BY <1>3, <2>2, SteeredTo
    <3>2. \A p \in Sides : cli'[p].q = cli[p].q
      BY <3>1 DEF Sides
    <3>3. QED BY <1>1, <3>1, <3>2, DurableAlone
  <2>3. QED BY <2>1, <2>2
<1>4. QED BY <1>2, <1>3

\* A record or a step that a plan calls for is not skipped: an undone commit
\* journals its intent first, and so does a rollback of a committed update.
LEMMA IntentDue ==
  ASSUME IInv, Running, ctl.run \in Planned,
         \/ ctl.run = "undoCommit" /\ ctl.at = 1 /\ ctl.state = "READY_VERIFIED"
         \/ ctl.run = "rollback" /\ ctl.at = 4 /\ ctl.state = "COMMITTED"
  PROVE  Cmd \in V7States /\ ~Skips
<1>1. Cmd = "ROLLBACK_STARTED"
  <2>1. ctl.run = "undoCommit" => UndoCommitText(ctl.at, Cmd)
    BY Commands DEF IInv
  <2>2. ctl.run = "rollback" => RollbackText(ctl.at, Cmd)
    BY Commands DEF IInv
  <2>3. CASE ctl.run = "undoCommit" /\ ctl.at = 1
    BY <2>1, <2>3 DEF UndoCommitText
  <2>4. CASE ctl.run = "rollback" /\ ctl.at = 4
    BY <2>2, <2>4 DEF RollbackText
  <2>5. QED BY <2>3, <2>4
<1>2. due("ROLLBACK_STARTED")
  BY RankOf DEF due, DriverRestored, Before
<1>3. "ROLLBACK_STARTED" \in V7States
  BY Alphabet
<1>4. QED BY <1>1, <1>2, <1>3 DEF Skips

\* A command that goes on.
LEMMA SettledOnward ==
  ASSUME IInv, Penned, Lined, Committed, NEW c, NEW e, Course(c, e), Taken(c, e), Onward(c, e)
  PROVE  Settled7(ctl', ev'[7].state = "COMMITTED")
<1>1. /\ ctl'.run = ctl.run /\ ctl'.at = ctl.at + 1 /\ ctl'.state = c.state /\ ctl'.healthy = c.healthy
      /\ ctl'.who = ctl.who /\ ev' = e /\ ~Steered(c, e)
  BY OneCourse
<1>2. Running /\ ctl.run \in Planned /\ ctl.at \in Nat
  BY DEF Course, IInv, Types, Control
<1>3. CASE Plainly(c, e)
  <2>1. /\ c.state = ctl.state /\ c.healthy = ctl.healthy /\ e[7].state = ev[7].state
        /\ (Cmd = "resumed" => ctl.healthy) /\ (Cmd \notin V7States \/ Skips)
    BY <1>1, <1>3 DEF Plainly, SameJournal
  <2>2. ctl.run = "undoCommit" => ctl.healthy
    BY <1>2, <2>1, IntentDue DEF Committed, Settled7
  <2>3. ctl.run = "rollback" => ctl.healthy
    <3>1. ctl.run = "rollback" /\ ctl.at = 1 => Cmd = "resumed"
      BY <1>2, Commands DEF IInv, RollbackText
    <3>2. QED BY <2>1, <3>1 DEF Committed, Settled7
  <2>4. ctl.run = "rollback" /\ ev[7].state = "COMMITTED" => ctl.at <= 3
    <3>1. ctl.run = "rollback" /\ ev[7].state = "COMMITTED" => ctl.at # 4 /\ ctl.at <= 4
      BY <1>2, <2>1, <2>3, IntentDue DEF Committed, Settled7
    <3>2. QED BY <1>2, <3>1
  <2>5. QED BY <1>1, <1>2, <2>1, <2>2, <2>3, <2>4 DEF Committed, Settled7
<1>4. CASE Recorded(c, e)
  <2>1. ctl.healthy /\ c.healthy = ctl.healthy /\ e[7].state = Cmd
    BY <1>4 DEF Recorded, CanAppend, Appended
  <2>2. CASE Cmd = "COMMITTED"
    <3>1. ctl.run = "forward" /\ ctl.who \in {"none", "main"}
      BY <2>2, Committing
    <3>2. QED BY <1>1, <3>1 DEF Settled7
  <2>3. CASE Cmd # "COMMITTED"
    <3>1. ev'[7].state # "COMMITTED" /\ ctl'.healthy
      BY <1>1, <2>1, <2>3
    <3>2. QED BY <1>1, <3>1 DEF Committed, Settled7
  <2>4. QED BY <2>2, <2>3
<1>5. CASE Reopened(c, e)
  <2>1. ctl.run = "unwind"
    <3>1. Cmd = "reopen"
      BY <1>5 DEF Reopened
    <3>2. ctl.run # "forward" /\ ctl.run # "rollback"
      BY <1>2, <3>1, Commands DEF IInv, ForwardText, RollbackText
    <3>3. ctl.run # "undoCommit" /\ ctl.run # "retire"
      BY <1>2, <3>1, Commands DEF IInv, UndoCommitText, RetireText
    <3>4. QED BY <1>2, <3>2, <3>3 DEF Planned
  <2>2. e[7].state = ev[7].state
    BY <1>5 DEF Reopened
  <2>3. QED BY <1>1, <2>1, <2>2 DEF Committed, Settled7
<1>6. QED BY <1>1, <1>3, <1>4, <1>5 DEF Taken, Unrecorded

\* A command that fails.
LEMMA SettledSteered ==
  ASSUME IInv, Penned, Lined, Committed, NEW c, NEW e, Course(c, e), Taken(c, e), Steered(c, e)
  PROVE  Settled7(ctl', ev'[7].state = "COMMITTED")
<1>1. ~Onward(c, e)
  BY OneCourse
<1>2. (c.state = ctl.state \/ ctl.run # "forward") /\ (c.healthy => ctl.healthy)
  BY <1>1 DEF Taken, Plainly, Recorded, Unrecorded, Reopened
<1>3. e[7].state = "COMMITTED" => ev[7].state = "COMMITTED" \/ (ctl.run = "forward" /\ ctl.at = 50 /\ ~c.healthy)
  BY <1>1, Standing
<1>4. CASE Left
  BY <1>4, SettledIdle DEF Left
<1>5. ctl.run # "rollback" => ctl.who \in {"none", "main"}
  BY DEF Committed, Settled7
<1>6. CASE /\ ctl'.who = ctl.who /\ ev'[7].state = e[7].state
           /\ ctl.run = "forward" /\ ctl'.run = "unwind" /\ ctl.at \in 14..47
  <2>1. e[7].state # "COMMITTED"
    BY <1>3, <1>6, ForwardUncommitted
  <2>2. QED BY <1>5, <1>6, <2>1 DEF Settled7
<1>7. CASE /\ ctl'.who = ctl.who /\ ev'[7].state = e[7].state
           /\ ctl'.state = c.state /\ ctl'.healthy = c.healthy
           /\ ctl.run = "forward" /\ ctl'.run = "undoCommit" /\ ctl.at \in 48..50 /\ ctl'.at = 1
  <2>1. ctl.state = "READY_VERIFIED" /\ ev[7].state # "COMMITTED"
    BY <1>7, ForwardUncommitted DEF Penned, Kept
  <2>2. QED BY <1>2, <1>3, <1>5, <1>7, <2>1 DEF Settled7
<1>8. CASE ctl'.who = ctl.who /\ ctl.run = "forward" /\ ctl'.run = "forward"
  BY <1>5, <1>8 DEF Settled7
<1>9. CASE /\ ctl'.who = ctl.who /\ ev'[7].state = e[7].state
           /\ ctl'.state = c.state /\ ctl'.healthy = c.healthy
           /\ ctl.run \in {"forward", "unwind", "undoCommit"} /\ ctl'.run = "rollback"
           /\ ctl'.at = 1 /\ c.state # "COMMITTED"
  <2>1. ASSUME c.healthy PROVE e[7].state # "COMMITTED"
    <3>1. SUFFICES ASSUME ev[7].state = "COMMITTED" PROVE FALSE
      BY <1>3, <2>1
    <3>2. ctl.run = "forward"
      BY <1>2, <1>9, <2>1, <3>1 DEF Committed, Settled7
    <3>3. ctl.state = "COMMITTED"
      <4>1. ctl.at \in Nat
        BY DEF IInv, Types, Control
      <4>2. ctl.at > 50
        BY <3>1, <3>2, <4>1, ForwardUncommitted
      <4>3. QED BY <3>2, <4>2 DEF Penned
    <3>4. QED BY <1>2, <1>9, <3>2, <3>3
  <2>2. QED BY <1>5, <1>9, <2>1 DEF Settled7
<1>10. QED BY <1>4, <1>6, <1>7, <1>8, <1>9, SteeredTo

\* Every command but a request keeps the commit.
LEMMA CommittedCourse == IInv /\ Penned /\ Lined /\ Committed /\ Coursed => Committed'
<1> SUFFICES ASSUME IInv, Penned, Lined, Committed, NEW c, NEW e, Course(c, e), Taken(c, e) PROVE Committed'
  BY DEF Coursed
<1>1. Onward(c, e) \/ Steered(c, e)
  BY DEF Taken, Plainly, Recorded, Unrecorded, Reopened
<1>2. Settled7(ctl', ev'[7].state = "COMMITTED")
  BY <1>1, SettledOnward, SettledSteered
<1>3. ASSUME ev'[7].state = "COMMITTED" PROVE e[7].state = "COMMITTED" /\ ev'[7].tail = e[7].tail
  <2>1. CASE Onward(c, e)
    BY <1>3, <2>1 DEF Onward
  <2>2. CASE Steered(c, e)
    <3>1. ~(Left /\ Critical(c, e))
      BY <1>3 DEF Critical
    <3>2. QED BY <1>3, <2>2, <3>1, SteeredTo DEF Concluded
  <2>3. QED BY <1>1, <2>1, <2>2
<1>4. ASSUME ev'[7].state = "COMMITTED"
      PROVE  ev'[7].tail \in {"clean", "ROLLBACK_STARTED"} /\ Durable'
  <2>1. /\ Durable /\ app' = app /\ ctl.who \in {"none", "main"}
        /\ e[7].tail \in {"clean", "ROLLBACK_STARTED"}
    BY <1>3, <1>4, Standing
  <2>2. Durable'
    BY <1>1, <2>1, DurableCourse
  <2>3. QED BY <1>3, <1>4, <2>1, <2>2
<1>5. QED BY <1>2, <1>4 DEF Committed

\* Every step keeps what is committed.
LEMMA CommittedStep ==
  /\ "controller" \notin Slow /\ "proxy" \notin Slow /\ "broker" \notin Killed
  /\ IInv /\ Penned /\ Lined /\ Committed /\ Next
  => Committed'
<1>1. IInv /\ Penned /\ Lined /\ Committed /\ Command => Committed'
  BY CommandCourse, CommittedCourse, CommittedSpawned, CommittedPosted, CommittedHung, CommittedHeard
<1>2. QED BY <1>1, ProxySteps, CommittedStepped, CommittedRoot, CommittedEnvironment, CommittedEntry DEF Next

-----------------------------------------------------------------------------
(* The commit is kept: the invariant and the theorem.                      *)

\* Initially nothing has begun and nobody runs.
LEMMA JournalInit == Init => KInv
<1> SUFFICES ASSUME Init PROVE KInv
  OBVIOUS
<1>1. IInv
  BY InitStep
<1>2. ev[7].state = "BEGUN" /\ ~ev[7].root
  BY InitialEvidence, FreshIs DEF Init
<1>3. \A p \in Sides : cli[p] = NoClient /\ px[p] = NoProxy /\ rt[p] = NoRoot
  BY DEF Init
<1>4. ctl.run = "none" /\ ctl.who = "none" /\ NoProxy.at = "off" /\ NoRoot.at = "off" /\ "broker" \in Sides
  BY DEF Init, Idled, NoProxy, NoRoot, Sides
<1>5. Penned
  BY <1>3, <1>4 DEF Penned, Unused
<1>6. Lined
  BY <1>3, <1>4 DEF Lined, Preparing
<1>7. Committed
  BY <1>2, <1>4 DEF Committed, Settled7
<1>8. QED BY <1>1, <1>5, <1>6, <1>7 DEF KInv

\* Nothing happens.
LEMMA JournalStutter == KInv /\ UNCHANGED allVars => Penned' /\ Lined' /\ Committed'
<1> SUFFICES ASSUME KInv, UNCHANGED allVars PROVE Penned' /\ Lined' /\ Committed'
  OBVIOUS
<1>1. UNCHANGED <<app, ev, ctl, drv, cli, px, rt>>
  BY DEF allVars, vars, brokers
<1>2. Penned'
  BY <1>1 DEF KInv, Penned, Unused, Kept, Held
<1>3. Lined'
  BY <1>1, LinedAlone DEF KInv
<1>4. Committed'
  BY <1>1, DurableAlone, SettledSame DEF KInv, Committed
<1>5. QED BY <1>2, <1>3, <1>4

\* The invariant is inductive where the controller and the proxies keep their
\* deadlines and nobody kills the broker's proxy.
LEMMA JournalNext ==
  "controller" \notin Slow /\ "proxy" \notin Slow /\ "broker" \notin Killed /\ KInv /\ [Next]_allVars => KInv'
<1> SUFFICES ASSUME "controller" \notin Slow, "proxy" \notin Slow, "broker" \notin Killed,
                    KInv, [Next]_allVars
             PROVE  KInv'
  OBVIOUS
<1>1. IInv'
  BY NextStep DEF KInv
<1>2. CASE Next
  BY <1>1, <1>2, PennedStep, LinedStep, CommittedStep DEF KInv
<1>3. CASE UNCHANGED allVars
  BY <1>1, <1>3, JournalStutter DEF KInv
<1>4. QED BY <1>2, <1>3

\* The commit is final for the product: once the journal durably says
\* COMMITTED, the new host and its driver are in their places and stay there,
\* whenever the controller dies or the machine restarts and however often,
\* given that the controller and the proxies keep their deadlines and the
\* broker's proxy is not killed on its own.
THEOREM CommitSafety ==
  ASSUME "controller" \notin Slow, "proxy" \notin Slow, "broker" \notin Killed
  PROVE  Spec => []CommitKeepsDriver
<1>1. Init => KInv
  BY JournalInit
<1>2. KInv /\ [Next]_allVars => KInv'
  BY JournalNext
<1>3. KInv => CommitKeepsDriver
  BY DEF KInv, Committed, Durable, CommitKeepsDriver
<1>4. QED BY <1>1, <1>2, <1>3, PTL DEF Spec

-----------------------------------------------------------------------------
(* The journal stays readable: proxies, root.                              *)

\* Which journals parse.
LEMMA Parses ==
  /\ ev[7].tail = "clean" => parse_v7_journal
  /\ ev[7].tail \in V7States /\ validate_v7_transition(ev[7].state, ev[7].tail) => parse_v7_journal
<1>1. "corrupt" \notin V7States
  BY Alphabet DEF DriverRestored
<1>2. QED BY <1>1 DEF parse_v7_journal, is_plausible_v7_torn_tail

\* The same, of the journal after a step.
LEMMA ParsesNext ==
  /\ ev'[7].tail = "clean" => parse_v7_journal'
  /\ ev'[7].tail \in V7States /\ validate_v7_transition(ev'[7].state, ev'[7].tail) => parse_v7_journal'
  /\ parse_v7_journal /\ ev'[7].state = ev[7].state /\ ev'[7].tail = ev[7].tail => parse_v7_journal'
<1>1. "corrupt" \notin V7States
  BY Alphabet DEF DriverRestored
<1>2. QED BY <1>1 DEF parse_v7_journal, is_plausible_v7_torn_tail

\* The states around the rollback's beginning.
LEMMA Beginnings ==
  ASSUME NEW s \in V7States
  PROVE  /\ ~Before(s, "STOP_INITIATED") /\ Before(s, "ROLLBACK_STARTED") =>
              s \notin DriverRestored \cup {"ROLLBACK_STARTED"}
         /\ Before(s, "STOP_INITIATED") => s \notin DriverRestored \cup {"ROLLBACK_STARTED"}
         /\ Before(s, "COMMITTED") => s \notin DriverRestored \cup {"ROLLBACK_STARTED", "COMMITTED"}
         /\ ~Before("ROLLBACK_STARTED", "STOP_INITIATED") /\ ~Before("DRIVER_RESTORED", "STOP_INITIATED")
<1>1. V7Rank(s) \in 1..21
  BY Ranks
<1>2. s \in DriverRestored \cup {"ROLLBACK_STARTED"} => V7Rank(s) \in 15..20
  BY RankOf DEF DriverRestored
<1>3. QED BY <1>1, <1>2, RankOf DEF Before

\* A restore side that may only be pinged stays so.
LEMMA WaitingStep ==
  ASSUME IInv, "controller" \notin Slow, NEW p \in Sides, p = "restore", Stepped(p), Waiting(cli[p], px[p])
  PROVE  Waiting(cli'[p], px'[p]) /\ px[p].at \notin {"begin", "finish", "lock"}
<1>1. /\ cli[p].at = "open" /\ Queued(cli[p].q) \subseteq {"PING"} /\ px[p].at \in {"await", "loop"}
      /\ px[p].goal = "none" /\ ~Orphan(p)
  BY Acting DEF Waiting, Orphan
<1>2. cli'[p].at = "open" /\ cli[p].q \in Seq(Lines)
  BY <1>1, SideIs DEF Stepped, Aside, Clients
<1>3. CASE Ends(p)
  BY <1>1, <1>3 DEF Ends, Waiting
<1>4. CASE Returns(p)
  BY <1>1, <1>2, <1>4 DEF Returns, Waiting
<1>5. CASE Asks(p)
  <2>1. PICK c \in Words(p) : px'[p].at = "await" /\ Source(p, c)
    BY <1>5 DEF Asks
  <2>2. /\ px'[p].goal = "none"
        /\ (cli[p].q # <<>> /\ cli'[p].q = Tail(cli[p].q)) \/ cli'[p].q = cli[p].q
    BY <1>1, <2>1 DEF Source
  <2>3. Queued(cli'[p].q) \subseteq {"PING"}
    BY <1>1, <1>2, <2>2, Pipe
  <2>4. QED BY <1>1, <1>2, <2>1, <2>2, <2>3 DEF Waiting
<1>6. CASE Wanders(p)
  <2>1. cli[p].q # <<>> => Head(cli[p].q) = "PING"
    BY <1>1, <1>2, Pipe
  <2>2. QED BY <1>1, <1>6, <2>1 DEF Wanders
<1>7. QED BY <1>1, <1>3, <1>4, <1>5, <1>6 DEF Stepped

\* A proxy begins a rollback only where none is begun.
LEMMA BeginsWhere ==
  ASSUME IInv, BeginsRollback
  PROVE  /\ ev[7].state \notin DriverRestored \cup {"ROLLBACK_STARTED"}
         /\ ~Intended(ev[7].state)
<1>1. ev[7].state \in V7States
  BY DEF IInv, Types, Evidence, All
<1>2. QED BY <1>1, Beginnings DEF BeginsRollback, Intended

\* A proxy's step beside a controller that unwinds.
LEMMA UnwindingStepped ==
  ASSUME "controller" \notin Slow, IInv, Penned, NEW p \in Sides, Stepped(p), ctl' = ctl, ctl.run = "unwind",
         Unwinding(ctl, ev[7], cli["broker"], px["broker"])
  PROVE  Unwinding(ctl', ev'[7], cli'["broker"], px'["broker"])
<1>1. p = "broker" /\ px[p].at # "off" /\ ctl.at \in Nat
  BY BrokerActs, Acting DEF IInv, Types, Control
<1>2. CASE Held(cli[p], px[p])
  <2>1. Held(cli'[p], px'[p]) /\ SameJournal(ev')
    BY <1>1, <1>2, MeekStep
  <2>2. ctl.at <= 5
    BY <1>1 DEF Unwinding
  <2>3. QED BY <1>1, <2>1, <2>2 DEF Unwinding, SameJournal, Unread
<1>3. CASE ~Held(cli[p], px[p])
  <2>1. /\ ctl.at = 5 /\ ctl.sent /\ ctl.healthy /\ ev[7].tail = "clean" /\ Intended(ctl.state)
        /\ ctl.state = ev[7].state \/ Unread(ctl, ev[7])
    BY <1>1, <1>3 DEF Unwinding
  <2>2. ~BeginsRollback
    BY <2>1, BeginsWhere DEF Unread, DriverRestored
  <2>3. ev'[7].tail = "clean" /\ (ctl.state = ev'[7].state \/ Unread(ctl, ev'[7]))
    BY <2>1, <2>2 DEF Stepped, Writing, Appending, Unread
  <2>4. QED BY <1>1, <2>1, <2>3 DEF Unwinding, Unread
<1>4. QED BY <1>2, <1>3

\* A proxy's step beside a controller that undoes its commit.
LEMMA UncommittingStepped ==
  ASSUME "controller" \notin Slow, IInv, Penned, NEW p \in Sides, Stepped(p), ctl' = ctl, ctl.run = "undoCommit",
         Uncommitting(ctl, ev[7], cli["broker"], px["broker"])
  PROVE  Uncommitting(ctl', ev'[7], cli'["broker"], px'["broker"])
<1>1. p = "broker" /\ px[p].at # "off" /\ ctl.at \in Nat
  BY BrokerActs, Acting DEF IInv, Types, Control
<1>2. Held(cli[p], px[p])
  BY <1>1 DEF Uncommitting
<1>3. Held(cli'[p], px'[p]) /\ SameJournal(ev')
  BY <1>1, <1>2, MeekStep
<1>4. ctl.at <= 4
  BY <1>1 DEF Uncommitting
<1>5. QED BY <1>1, <1>3, <1>4 DEF Uncommitting, SameJournal

\* A proxy's step beside a controller that rolls back.
LEMMA RevertingStepped ==
  ASSUME "controller" \notin Slow, IInv, NEW p \in Sides, Stepped(p), ctl' = ctl,
         Reverting(ctl, ev[7], px["broker"], cli["restore"], px["restore"])
  PROVE  Reverting(ctl', ev'[7], px'["broker"], cli'["restore"], px'["restore"])
<1>1. px[p].at # "off"
  BY Acting
<1>2. CASE ctl.state \notin DriverRestored \cup {"ROLLBACK_STARTED"}
  <2>1. p = "restore" /\ Waiting(cli[p], px[p]) /\ ctl.state = ev[7].state /\ ev[7].tail = "clean"
    BY <1>1, <1>2 DEF Reverting, Unread, Sides
  <2>2. Waiting(cli'[p], px'[p]) /\ px[p].at \notin {"begin", "finish", "lock"}
    BY <2>1, WaitingStep
  <2>3. SameJournal(ev') /\ px'["broker"] = px["broker"]
    BY <2>1, <2>2 DEF Stepped, Writing, Aside, Sides
  <2>4. QED BY <1>2, <2>1, <2>2, <2>3 DEF Reverting, SameJournal
<1>3. CASE ctl.state \in DriverRestored \cup {"ROLLBACK_STARTED"}
  <2>1. ev[7].tail = "clean" /\ (ctl.state = ev[7].state \/ Unread(ctl, ev[7]))
    BY DEF Reverting
  <2>2. ~BeginsRollback
    BY <1>3, <2>1, BeginsWhere DEF Unread, DriverRestored
  <2>3. ev'[7].tail = "clean" /\ (ctl.state = ev'[7].state \/ Unread(ctl, ev'[7]))
    BY <2>1, <2>2 DEF Stepped, Writing, Appending, Unread
  <2>4. QED BY <1>3, <2>3 DEF Reverting, Unread
<1>4. QED BY <1>2, <1>3

\* A proxy leaves the journal readable.
LEMMA LegibleStepped ==
  ASSUME "controller" \notin Slow, IInv, Legible, NEW p \in Sides, Stepped(p)
  PROVE  Legible'
<1>1. Penned'
  BY PennedStepped DEF Legible
<1>2. parse_v7_journal'
  <2>1. CASE ev'[7].tail = "clean"
    BY <2>1, ParsesNext
  <2>2. CASE ev'[7].tail # "clean"
    BY <2>2, ParsesNext DEF Legible, Stepped, Writing, Appending
  <2>3. QED BY <2>1, <2>2
<1>3. CASE ctl' = ctl
  <2>1. ASSUME ctl'.run = "unwind" PROVE Unwinding(ctl', ev'[7], cli'["broker"], px'["broker"])
    <3>1. ctl.run = "unwind" /\ Unwinding(ctl, ev[7], cli["broker"], px["broker"])
      BY <1>3, <2>1 DEF Legible, Viewed
    <3>2. QED BY <1>3, <3>1, UnwindingStepped DEF Legible
  <2>2. ASSUME ctl'.run = "undoCommit", ctl'.healthy
        PROVE  Uncommitting(ctl', ev'[7], cli'["broker"], px'["broker"])
    <3>1. ctl.run = "undoCommit" /\ Uncommitting(ctl, ev[7], cli["broker"], px["broker"])
      BY <1>3, <2>2 DEF Legible, Viewed
    <3>2. QED BY <1>3, <3>1, UncommittingStepped DEF Legible
  <2>3. ASSUME ctl'.run = "rollback", ctl'.healthy
        PROVE  Reverting(ctl', ev'[7], px'["broker"], cli'["restore"], px'["restore"])
    <3>1. Reverting(ctl, ev[7], px["broker"], cli["restore"], px["restore"])
      BY <1>3, <2>3 DEF Legible, Viewed
    <3>2. QED BY <1>3, <3>1, RevertingStepped
  <2>4. QED BY <1>1, <1>2, <2>1, <2>2, <2>3 DEF Legible, Viewed
<1>4. CASE ctl' # ctl
  <2>1. /\ ev'[7].state = "DRIVER_RESTORED" /\ ev'[7].tail = "clean"
        /\ ctl'.run = "rollback" /\ ctl'.state = "DRIVER_RESTORED"
    BY <1>4 DEF Stepped, Writing
  <2>2. Reverting(ctl', ev'[7], px'["broker"], cli'["restore"], px'["restore"])
    BY <2>1 DEF Reverting, DriverRestored
  <2>3. ctl'.run # "unwind" /\ ctl'.run # "undoCommit"
    BY <2>1
  <2>4. QED BY <1>1, <1>2, <2>2, <2>3 DEF Legible, Viewed
<1>5. QED BY <1>3, <1>4

\* Root leaves the journal readable.
LEMMA LegibleRoot == IInv /\ Legible /\ Root => Legible'
<1> SUFFICES ASSUME IInv, Legible, Root PROVE Legible'
  OBVIOUS
<1>1. UNCHANGED <<ev, ctl, cli, px>>
  BY RootMoved DEF RootMoves
<1>2. Penned'
  BY PennedRoot DEF Legible
<1>3. parse_v7_journal'
  BY <1>1 DEF Legible, parse_v7_journal, is_plausible_v7_torn_tail
<1>4. Viewed'
  BY <1>1 DEF Legible, Viewed
<1>5. QED BY <1>2, <1>3, <1>4 DEF Legible

-----------------------------------------------------------------------------
(* The journal stays readable: what happens around the processes.          *)

\* What a proxy puts down for itself the controller never appends.
LEMMA UnreadAppends ==
  ASSUME IInv, ctl.run = "rollback", Cmd \in V7States, ~Skips, CanAppend
  PROVE  ctl.state # "ROLLBACK_STARTED"
<1> SUFFICES ASSUME ctl.state = "ROLLBACK_STARTED" PROVE FALSE
  OBVIOUS
<1>1. Running /\ ctl.run \in Planned
  BY Commanding, NotStates DEF IInv
<1>2. ctl.at \in 1..31 /\ Cmd = Entry(rollback_to_current_baseline, ctl.at)
  BY <1>1, Commands DEF IInv, PlanLength, Cmd, Entry, Plan, Planned
<1>3. RollbackEntry(ctl.at, Cmd) /\ RollbackText(ctl.at, Cmd)
  BY <1>2, RollbackPlan
<1>4. due(Cmd)
  BY DEF Skips
<1>5. Cmd # "ROLLBACK_STARTED"
  BY <1>4 DEF due
<1>6. Cmd \in DriverRestored /\ Cmd # "DRIVER_RESTORED"
  BY <1>3, <1>5 DEF RollbackText, RollbackEntry
<1>7. "ROLLBACK_STARTED" \in DriverRestored
  BY <1>6, Alphabet, Transitions DEF CanAppend
<1>8. QED BY <1>7, NotRestored

\* A controller that appends knows the end of the journal.
LEMMA KnowsTheEnd ==
  ASSUME IInv, Legible, Cmd \in V7States, ~Skips, CanAppend
  PROVE  ctl.state = ev[7].state /\ ev[7].tail = "clean" /\ ctl.healthy /\ Running /\ ctl.run \in Planned
<1>1. Running /\ ctl.run \in Planned /\ ctl.healthy
  BY Commanding, NotStates DEF IInv, CanAppend
<1>2. CASE ctl.run = "forward"
  <2>1. ctl.at <= 50
    BY <1>2, ForwardStates
  <2>2. QED BY <1>1, <1>2, <2>1 DEF Legible, Penned, Kept
<1>3. CASE ctl.run = "unwind"
  <2>1. ctl.at \in {2, 7}
    BY <1>1, <1>3, Commands, Alphabet DEF IInv, UnwindText, DriverRestored
  <2>2. QED BY <1>1, <1>3, <2>1 DEF Legible, Viewed, Unwinding
<1>4. CASE ctl.run = "undoCommit"
  BY <1>1, <1>4 DEF Legible, Viewed, Uncommitting
<1>5. CASE ctl.run = "rollback"
  BY <1>1, <1>5, UnreadAppends DEF Legible, Viewed, Reverting, Unread
<1>6. CASE ctl.run = "retire"
  BY <1>1, <1>6, Commands, Alphabet DEF IInv, RetireText, DriverRestored
<1>7. QED BY <1>1, <1>2, <1>3, <1>4, <1>5, <1>6 DEF Planned

\* What a death leaves of the journal is readable.
LEMMA TornParses == IInv /\ Legible /\ ev' \in Torn => parse_v7_journal'
<1> SUFFICES ASSUME IInv, Legible, ev' \in Torn PROVE parse_v7_journal'
  OBVIOUS
<1>1. CASE ev' = ev
  BY <1>1, ParsesNext DEF Legible
<1>2. CASE ev' # ev
  <2>1. Cmd \in V7States /\ ~Skips /\ CanAppend /\ ev' = [ev EXCEPT ![7].tail = Cmd]
    BY <1>2 DEF Torn
  <2>2. ctl.state = ev[7].state /\ validate_v7_transition(ctl.state, Cmd)
    BY <2>1, KnowsTheEnd DEF CanAppend
  <2> DEFINE r == [ev[7] EXCEPT !.tail = Cmd]
  <2>3. ev' = [ev EXCEPT ![7] = r] /\ ev \in [All -> Evidence] /\ 7 \in All /\ ev[7] \in Evidence
    BY <2>1 DEF IInv, Types, All
  <2>4. r.tail = Cmd /\ r.state = ev[7].state
    BY <2>3 DEF Evidence
  <2> HIDE DEF r
  <2>5. ev'[7].tail = Cmd /\ ev'[7].state = ev[7].state
    BY <2>3, <2>4
  <2>6. QED BY <2>1, <2>2, <2>5, ParsesNext
<1>3. QED BY <1>1, <1>2

\* Nobody writes the journal, and it parses.
LEMMA LegibleIdle ==
  ASSUME Penned', parse_v7_journal', ctl'.run \notin {"unwind", "undoCommit", "rollback"}
  PROVE  Legible'
  BY DEF Legible, Viewed

\* What a controller knows of the journal is still so when proxies end.
LEMMA FewerProxies ==
  ASSUME IInv, Legible, UNCHANGED <<ev, ctl, cli>>, \A s \in Sides : px'[s] = px[s] \/ px'[s].at = "off"
  PROVE  Viewed' /\ parse_v7_journal'
<1>1. parse_v7_journal'
  BY ParsesNext DEF Legible
<1>2. px'["broker"] = px["broker"] \/ px'["broker"].at = "off"
  BY DEF Sides
<1>3. px'["restore"] = px["restore"] \/ px'["restore"].at = "off"
  BY DEF Sides
<1>4. ASSUME ctl.run = "unwind" PROVE Unwinding(ctl, ev[7], cli["broker"], px'["broker"])
  <2>1. Unwinding(ctl, ev[7], cli["broker"], px["broker"])
    BY <1>4 DEF Legible, Viewed
  <2>2. QED BY <1>2, <2>1 DEF Unwinding, Held
<1>5. ASSUME ctl.run = "undoCommit", ctl.healthy PROVE Uncommitting(ctl, ev[7], cli["broker"], px'["broker"])
  <2>1. Uncommitting(ctl, ev[7], cli["broker"], px["broker"])
    BY <1>5 DEF Legible, Viewed
  <2>2. QED BY <1>2, <2>1 DEF Uncommitting, Held
<1>6. ASSUME ctl.run = "rollback", ctl.healthy
      PROVE  Reverting(ctl, ev[7], px'["broker"], cli["restore"], px'["restore"])
  <2>1. Reverting(ctl, ev[7], px["broker"], cli["restore"], px["restore"])
    BY <1>6 DEF Legible, Viewed
  <2>2. QED BY <1>2, <1>3, <2>1 DEF Reverting, Waiting
<1>7. QED BY <1>1, <1>4, <1>5, <1>6 DEF Viewed

\* What happens around the processes leaves the journal readable.
LEMMA LegibleEnvironment == IInv /\ Legible /\ Environment => Legible'
<1> SUFFICES ASSUME IInv, Legible, Environment PROVE Legible'
  OBVIOUS
<1>1. Penned'
  BY PennedEnvironment DEF Legible
<1>2. CASE HostStarts \/ HostLogsMarker \/ HostExits \/ CoreAudioRestarts \/ EvidenceDisturbed \/ RepositoryMoves
  <2>1. UNCHANGED <<ev, ctl, cli, px>>
    BY <1>2 DEF HostStarts, HostLogsMarker, HostExits, CoreAudioRestarts, EvidenceDisturbed,
         RepositoryMoves, brokers, vars
  <2>2. QED BY <1>1, <2>1, FewerProxies DEF Legible
<1>3. CASE MainDies
  <2>1. ev' \in Torn /\ Leaves("err")
    BY <1>3 DEF MainDies
  <2>2. ctl'.run = "none"
    BY <2>1, Leaving DEF IInv, Types, Left, Idled
  <2>3. QED BY <1>1, <2>1, <2>2, TornParses, LegibleIdle
<1>4. CASE MachineDies
  <2>1. ev' \in Torn /\ ctl'.run = "none"
    BY <1>4 DEF MachineDies, Torn, Idled
  <2>2. QED BY <1>1, <2>1, TornParses, LegibleIdle
<1>5. ASSUME NEW p \in Sides, ProxyDies(p) PROVE Legible'
  <2>1. /\ px' = [px EXCEPT ![p] = Exit(px[p], "err")] /\ UNCHANGED <<ev, cli>>
        /\ ctl' = Idled \/ ctl' = ctl
    BY <1>5 DEF ProxyDies
  <2>2. px \in [Sides -> ProxyStates] /\ Exit(px[p], "err").at = "off"
    BY SideIs, Exits DEF IInv, Types, ProcessType
  <2>3. \A s \in Sides : px'[s] = px[s] \/ px'[s].at = "off"
    BY <2>1, <2>2
  <2>4. CASE ctl' = ctl
    BY <1>1, <2>1, <2>3, <2>4, FewerProxies DEF Legible
  <2>5. CASE ctl' = Idled
    <3>1. ev' \in Torn /\ ctl'.run = "none"
      BY <2>1, <2>5 DEF Torn, Idled
    <3>2. QED BY <1>1, <3>1, TornParses, LegibleIdle
  <2>6. QED BY <2>1, <2>4, <2>5
<1>6. QED BY <1>2, <1>3, <1>4, <1>5 DEF Environment

\* An entry point leaves the journal readable, if the operator waits.
LEMMA LegibleEntry ==
  Operator = "late" /\ IInv /\ Legible /\ (Begin \/ Install \/ Request) => Legible'
<1> SUFFICES ASSUME Operator = "late", IInv, Legible, Begin \/ Install \/ Request PROVE Legible'
  OBVIOUS
<1>1. Penned'
  BY PennedEntry DEF Legible
<1>2. CASE Begin
  <2>1. UNCHANGED ev /\ ctl' = [Idled EXCEPT !.who = "main", !.run = "install"]
    BY <1>2 DEF Begin
  <2>2. ctl'.run = "install"
    BY <2>1 DEF Idled
  <2>3. parse_v7_journal'
    BY <2>1, ParsesNext DEF Legible
  <2>4. QED BY <1>1, <2>2, <2>3, LegibleIdle
<1>3. CASE Request
  <2> DEFINE o == V7Journal_open(ev[7])
  <2>1. /\ UNCHANGED <<cli, px>> /\ Quiet /\ ev' = [ev EXCEPT ![7] = o]
        /\ ctl' = [Idled EXCEPT !.who = "main", !.why = "explicit", !.at = 1, !.exp = "present",
                                !.state = ev[7].state,
                                !.run = IF ev[7].state = "ROLLED_BACK" THEN "retire" ELSE "rollback"]
    BY <1>3 DEF Request, brokers
  <2>2. ctl'.why = "explicit" /\ ctl'.at = 1 /\ ctl'.state = ev[7].state /\ ctl'.run \in {"retire", "rollback"}
    BY <2>1 DEF Idled
  <2>3. o.tail = "clean" /\ o.state = ev[7].state
    BY DEF V7Journal_open, IInv, Types, Evidence, All
  <2> HIDE DEF o
  <2>4. ev'[7].tail = "clean" /\ ev'[7].state = ev[7].state
    BY <2>1, <2>3 DEF IInv, Types, All
  <2>5. px'["broker"].at = "off" /\ px'["restore"].at = "off"
    BY <2>1 DEF Quiet, Sides
  <2>6. Reverting(ctl', ev'[7], px'["broker"], cli'["restore"], px'["restore"])
    BY <2>2, <2>4, <2>5 DEF Reverting, Waiting
  <2>7. parse_v7_journal'
    BY <2>4, ParsesNext
  <2>8. QED BY <1>1, <2>2, <2>6, <2>7 DEF Legible, Viewed
<1>4. CASE Install
  <2>1. CASE UNCHANGED <<ctl, ev, cli, px>>
    BY <1>1, <2>1, FewerProxies DEF Legible
  <2>2. CASE UNCHANGED ev /\ Leaves("err")
    <3>1. ctl'.run = "none"
      BY <2>2, Leaving DEF IInv, Types, Left, Idled
    <3>2. parse_v7_journal'
      BY <2>2, ParsesNext DEF Legible
    <3>3. QED BY <1>1, <3>1, <3>2, LegibleIdle
  <2>3. CASE ev' = [ev EXCEPT ![7] = FreshEvidence] /\ ctl' = [ctl EXCEPT !.run = "forward", !.at = 1]
    <3>1. ev'[7].tail = "clean"
      BY <2>3, FreshIs DEF IInv, Types, All
    <3>2. ctl'.run = "forward"
      BY <2>3 DEF IInv, Types, Control
    <3>3. QED BY <1>1, <3>1, <3>2, ParsesNext, LegibleIdle
  <2>4. QED BY <1>4, <2>1, <2>2, <2>3 DEF Install
<1>5. QED BY <1>2, <1>3, <1>4

-----------------------------------------------------------------------------
(* The journal stays readable: requests and answers.                       *)

\* A rollback's request to the restore broker.
LEMMA RevertingAsked ==
  ASSUME IInv, ctl.run = "rollback", Spawned \/ Posted \/ Hung \/ Heard,
         Reverting(ctl, ev[7], px["broker"], cli["restore"], px["restore"])
  PROVE  Reverting(ctl', ev'[7], px'["broker"], cli'["restore"], px'["restore"])
<1>1. Cmd \in Asking /\ UNCHANGED ev
  BY DEF Spawned, Posted, Hung, Heard, Asking, Requests7
<1>2. /\ Side = "restore" /\ ctl.at \in {2, 3, 11}
      /\ (Cmd = "startRestore") = (ctl.at = 2) /\ (Cmd = "PING") = (ctl.at = 3)
      /\ (Cmd = "RESTORE") = (ctl.at = 11)
  BY <1>1, Asked
<1>3. cli["restore"] \in Clients /\ cli \in [Sides -> Clients] /\ px \in [Sides -> ProxyStates] /\ "restore" \in Sides
  BY SideIs DEF IInv, Types, ProcessType, Sides
<1>4. CASE Spawned
  <2>1. ctl'.state = ctl.state /\ ctl'.why = ctl.why /\ ctl'.at = ctl.at /\ ctl.at = 2
    BY <1>2, <1>4, Sending DEF Spawned
  <2>2. /\ cli'["restore"].at = "open" /\ cli'["restore"].q = <<>> /\ px'["broker"] = px["broker"]
        /\ px'["restore"].at = "await" /\ px'["restore"].goal = "none"
    BY <1>2, <1>3, <1>4, Spawning DEF Sides
  <2>3. Waiting(cli'["restore"], px'["restore"])
    BY <2>2 DEF Waiting, Queued
  <2>4. QED BY <1>1, <2>1, <2>2, <2>3 DEF Reverting, Unread
<1>5. CASE Posted
  <2>1. ctl'.state = ctl.state /\ ctl'.why = ctl.why /\ ctl'.at = ctl.at /\ px' = px
    BY <1>5, Sending DEF Posted
  <2>2. ASSUME ctl.at <= 4, Waiting(cli["restore"], px["restore"])
        PROVE  Waiting(cli'["restore"], px'["restore"])
    <3>1. Cmd = "PING"
      BY <1>2, <1>5, <2>2 DEF Posted, Requests7
    <3>2. Request7 = "PING"
      BY <3>1 DEF Request7
    <3>3. cli'["restore"].at = "open" /\ cli'["restore"].q = Append(cli["restore"].q, "PING")
      BY <1>2, <1>5, <3>2, Posting
    <3>4. Queued(cli'["restore"].q) = Queued(cli["restore"].q) \cup {"PING"}
      <4>1. cli["restore"].q \in Seq(Lines) /\ "PING" \in Lines
        BY <1>3 DEF Clients, Lines
      <4>2. QED BY <3>3, <4>1, Pipe
    <3>5. QED BY <2>1, <2>2, <3>3, <3>4 DEF Waiting
  <2>3. QED BY <1>1, <2>1, <2>2 DEF Reverting, Unread
<1>6. CASE Hung
  BY <1>2, <1>6 DEF Hung
<1>7. CASE Heard
  <2>1. /\ ctl'.why = ctl.why /\ ctl'.at = ctl.at + 1 /\ px' = px
        /\ ctl'.state = IF Cmd = "RESTORE" THEN ev[7].state ELSE ctl.state
        /\ cli'["restore"].at = cli["restore"].at /\ cli'["restore"].q = cli["restore"].q
    BY <1>2, <1>7, Hearing DEF Heard
  <2>2. CASE Cmd = "RESTORE"
    <3>1. ctl.at = 11 /\ ctl.state \in DriverRestored \cup {"ROLLBACK_STARTED"}
      BY <1>2, <2>2 DEF Reverting
    <3>2. ev[7].state \in DriverRestored \cup {"ROLLBACK_STARTED"}
      BY <3>1 DEF Reverting, Unread, DriverRestored
    <3>3. QED BY <1>1, <2>1, <2>2, <3>2 DEF Reverting
  <2>3. CASE Cmd # "RESTORE"
    <3>1. ctl.at \in {2, 3} /\ ctl'.state = ctl.state
      BY <1>2, <2>1, <2>3
    <3>2. Waiting(cli["restore"], px["restore"]) => Waiting(cli'["restore"], px'["restore"])
      BY <2>1 DEF Waiting
    <3>3. QED BY <1>1, <2>1, <3>1, <3>2 DEF Reverting, Unread
  <2>4. QED BY <2>2, <2>3
<1>8. QED BY <1>4, <1>5, <1>6, <1>7

\* A request to undo the driver, of a controller that unwinds.
LEMMA UnwindingAsked ==
  ASSUME IInv, ctl.run = "unwind", Spawned \/ Posted \/ Hung \/ Heard,
         Unwinding(ctl, ev[7], cli["broker"], px["broker"])
  PROVE  Unwinding(ctl', ev'[7], cli'["broker"], px'["broker"])
<1>1. Cmd \in Asking /\ UNCHANGED ev
  BY DEF Spawned, Posted, Hung, Heard, Asking, Requests7
<1>2. Side = "broker" /\ ctl.at = 5 /\ Cmd = "undo"
  BY <1>1, Asked
<1>3. CASE Posted \/ Hung
  <2>1. /\ ctl'.state = ctl.state /\ ctl'.healthy = ctl.healthy /\ ctl'.at = ctl.at /\ ctl'.sent = TRUE
    BY <1>3, Sending DEF Posted, Hung
  <2>2. QED BY <1>1, <1>2, <2>1 DEF Unwinding, Unread
<1>4. CASE Heard
  <2>1. /\ ctl'.state = ctl.state /\ ctl'.healthy = ctl.healthy /\ ctl'.at = 6 /\ px'["broker"].at = "off"
    BY <1>2, <1>4, Hearing DEF Heard
  <2>2. QED BY <1>1, <1>2, <2>1 DEF Unwinding, Unread
<1>5. ~Spawned
  BY <1>2 DEF Spawned
<1>6. QED BY <1>3, <1>4, <1>5

\* The same of one that undoes its commit.
LEMMA UncommittingAsked ==
  ASSUME IInv, ctl.run = "undoCommit", Spawned \/ Posted \/ Hung \/ Heard,
         Uncommitting(ctl, ev[7], cli["broker"], px["broker"])
  PROVE  Uncommitting(ctl', ev'[7], cli'["broker"], px'["broker"])
<1>1. Cmd \in Asking /\ UNCHANGED ev
  BY DEF Spawned, Posted, Hung, Heard, Asking, Requests7
<1>2. Side = "broker" /\ ctl.at = 4 /\ Cmd = "undo"
  BY <1>1, Asked
<1>3. CASE Posted
  <2>1. /\ ctl'.state = ctl.state /\ ctl'.stopped = ctl.stopped /\ ctl'.at = ctl.at /\ px' = px
    BY <1>3, Sending DEF Posted
  <2>2. cli'["broker"].at = "open"
    BY <1>2, <1>3, Posting
  <2>3. Held(cli'["broker"], px'["broker"])
    BY <1>2, <2>1, <2>2 DEF Uncommitting, Held
  <2>4. QED BY <1>1, <1>2, <2>1, <2>3 DEF Uncommitting
<1>4. CASE Heard
  <2>1. /\ ctl'.state = ctl.state /\ ctl'.stopped = TRUE /\ ctl'.at = 5 /\ px'["broker"].at = "off"
    BY <1>2, <1>4, Hearing DEF Heard
  <2>2. QED BY <1>1, <1>2, <2>1 DEF Uncommitting
<1>5. ~Spawned /\ ~Hung
  BY <1>2 DEF Spawned, Hung, Uncommitting
<1>6. QED BY <1>3, <1>4, <1>5

\* Requests and answers leave the journal readable.
LEMMA LegibleAsked == IInv /\ Legible /\ (Spawned \/ Posted \/ Hung \/ Heard) => Legible'
<1> SUFFICES ASSUME IInv, Legible, Spawned \/ Posted \/ Hung \/ Heard PROVE Legible'
  OBVIOUS
<1>1. Penned'
  BY PennedSpawned, PennedClient DEF Legible
<1>2. parse_v7_journal'
  <2>1. UNCHANGED ev
    BY DEF Spawned, Posted, Hung, Heard
  <2>2. QED BY <2>1, ParsesNext DEF Legible
<1>3. ctl'.run = ctl.run /\ ctl'.healthy = ctl.healthy
  <2>1. CASE Heard
    BY <2>1, Hearing
  <2>2. CASE Spawned \/ Posted \/ Hung
    BY <2>2, Sending DEF Spawned, Posted, Hung
  <2>3. QED BY <2>1, <2>2
<1>4. ctl'.run = "unwind" => Unwinding(ctl', ev'[7], cli'["broker"], px'["broker"])
  BY <1>3, UnwindingAsked DEF Legible, Viewed
<1>5. ctl'.run = "undoCommit" /\ ctl'.healthy => Uncommitting(ctl', ev'[7], cli'["broker"], px'["broker"])
  BY <1>3, UncommittingAsked DEF Legible, Viewed
<1>6. ctl'.run = "rollback" /\ ctl'.healthy =>
        Reverting(ctl', ev'[7], px'["broker"], cli'["restore"], px'["restore"])
  BY <1>3, RevertingAsked DEF Legible, Viewed
<1>7. QED BY <1>1, <1>2, <1>4, <1>5, <1>6 DEF Legible, Viewed

-----------------------------------------------------------------------------
(* The journal stays readable: commands.                                   *)

\* The command has been left alone.
LeftAlone(c, e) ==
  /\ c.state = ctl.state /\ SameJournal(e)
  /\ c.stopped = ctl.stopped \/ Cmd \in {"tryBootout", "tryDrain"}
  /\ Cmd \in V7States => Skips \/ ~validate_v7_transition(ctl.state, Cmd)
  /\ Onward(c, e) => Cmd \notin V7States \cup Asking \/ Skips

\* The command is a state that has been journaled.
Noted(c, e) ==
  /\ Cmd \in V7States /\ ~Skips /\ c.state = Cmd /\ c.stopped = ctl.stopped
  /\ e[7].state = Cmd /\ e[7].tail = "clean"

\* A command after which the controller still trusts its view of the journal.
LEMMA Trusting ==
  ASSUME IInv, Legible, "restored" \notin AppendFaults, NEW c, NEW e, Course(c, e), Taken(c, e),
         c.healthy, Cmd # "reopen"
  PROVE  ctl.healthy /\ (LeftAlone(c, e) \/ Noted(c, e))
<1>1. CASE Plainly(c, e)
  <2>1. ctl.healthy
    BY <1>1 DEF Plainly
  <2>2. Onward(c, e) => Cmd \notin V7States \cup Asking \/ Skips
    BY <1>1, OneCourse DEF Plainly
  <2>3. QED BY <1>1, <2>1, <2>2 DEF Plainly, LeftAlone
<1>2. CASE Recorded(c, e)
  <2>1. ctl.healthy /\ ev[7].tail = "clean" /\ validate_v7_transition(ev[7].state, Cmd)
    BY <1>2, KnowsTheEnd DEF Recorded, CanAppend
  <2>2. QED BY <1>2, <2>1 DEF Recorded, Appended, Noted
<1>3. CASE Unrecorded(c, e)
  <2>1. ctl.healthy /\ SameJournal(e) /\ ~CanAppend /\ ~Onward(c, e)
    BY <1>3, OneCourse DEF Unrecorded
  <2>2. QED BY <1>3, <2>1 DEF Unrecorded, LeftAlone, CanAppend
<1>4. CASE Reopened(c, e)
  BY <1>4 DEF Reopened
<1>5. QED BY <1>1, <1>2, <1>3, <1>4 DEF Taken

\* What a command leaves of the journal is readable.
LEMMA TakenParses ==
  ASSUME IInv, Legible, NEW c, NEW e, Taken(c, e)
  PROVE  e[7].tail = "clean" \/ (e[7].tail \in V7States /\ validate_v7_transition(e[7].state, e[7].tail))
<1>1. ev[7].tail = "clean" \/ (ev[7].tail \in V7States /\ validate_v7_transition(ev[7].state, ev[7].tail))
  BY DEF Legible, parse_v7_journal, is_plausible_v7_torn_tail
<1>2. Cmd \in V7States /\ ~Skips /\ CanAppend =>
        ev[7].tail = "clean" /\ validate_v7_transition(ev[7].state, Cmd)
  BY KnowsTheEnd DEF CanAppend
<1>3. QED BY <1>1, <1>2 DEF Taken, Plainly, Recorded, Unrecorded, Reopened, SameJournal, Appended

\* What a rollback knows of the journal when a command is done.
LEMMA RevertingTaken ==
  ASSUME IInv, Legible, "restored" \notin AppendFaults, NEW c, NEW e, Course(c, e), Taken(c, e),
         ctl.run = "rollback", c.healthy
  PROVE  /\ Reverting(ctl, ev[7], px["broker"], cli["restore"], px["restore"])
         /\ e[7].tail = "clean" /\ (c.state = e[7].state \/ Unread(c, e[7]))
         /\ c.state \notin DriverRestored \cup {"ROLLBACK_STARTED"} =>
              c.state = ctl.state /\ (Onward(c, e) => ctl.at # 4)
<1>1. Running /\ RollbackText(ctl.at, Cmd)
  BY Commands DEF IInv, Course
<1>2. ctl.healthy /\ (LeftAlone(c, e) \/ Noted(c, e))
  BY <1>1, Trusting DEF RollbackText
<1>3. Reverting(ctl, ev[7], px["broker"], cli["restore"], px["restore"])
  BY <1>2 DEF Legible, Viewed
<1>4. CASE LeftAlone(c, e)
  <2>1. e[7].tail = "clean" /\ (c.state = e[7].state \/ Unread(c, e[7]))
    BY <1>3, <1>4 DEF Reverting, Unread, LeftAlone, SameJournal
  <2>2. ASSUME c.state \notin DriverRestored \cup {"ROLLBACK_STARTED"}, Onward(c, e), ctl.at = 4
        PROVE  FALSE
    <3>1. Cmd = "ROLLBACK_STARTED"
      BY <1>1, <2>2 DEF RollbackText
    <3>2. Skips
      BY <1>4, <2>2, <3>1, Alphabet DEF LeftAlone
    <3>3. QED BY <1>4, <2>2, <3>1, <3>2 DEF LeftAlone, Skips, due
  <2>3. QED BY <1>3, <1>4, <2>1, <2>2 DEF LeftAlone
<1>5. CASE Noted(c, e)
  BY <1>1, <1>3, <1>5 DEF Noted, RollbackText
<1>6. QED BY <1>2, <1>4, <1>5

\* The rollback goes on.
LEMMA RevertingOnward ==
  ASSUME IInv, Legible, "restored" \notin AppendFaults, NEW c, NEW e, Course(c, e), Taken(c, e),
         Onward(c, e), ctl.run = "rollback", c.healthy
  PROVE  Reverting(ctl', ev'[7], px'["broker"], cli'["restore"], px'["restore"])
<1>1. /\ ctl'.at = ctl.at + 1 /\ ctl'.state = c.state /\ ctl'.why = ctl.why
      /\ ev' = e /\ UNCHANGED <<cli, px>> /\ ctl.at \in Nat
  <2>1. ctl.at \in Nat
    BY DEF IInv, Types, Control
  <2>2. QED BY <2>1, OneCourse
<1>2. /\ Reverting(ctl, ev[7], px["broker"], cli["restore"], px["restore"])
      /\ e[7].tail = "clean" /\ (c.state = e[7].state \/ Unread(c, e[7]))
      /\ c.state \notin DriverRestored \cup {"ROLLBACK_STARTED"} => c.state = ctl.state /\ ctl.at # 4
  BY RevertingTaken
<1>3. QED BY <1>1, <1>2 DEF Reverting, Unread

\* The rollback fails, and may record that.
LEMMA CriticalParses ==
  ASSUME IInv, Legible, "restored" \notin AppendFaults, NEW c, NEW e, Course(c, e), Taken(c, e), Critical(c, e)
  PROVE  parse_v7_journal'
<1>1. /\ ctl.run = "rollback" /\ c.healthy /\ validate_v7_transition(c.state, "CRITICAL_FAILURE")
      /\ ev'[7].tail = V7Journal_record(e[7], "CRITICAL_FAILURE").tail
  BY DEF Critical
<1>2. e[7].tail = "clean" /\ (c.state = e[7].state \/ Unread(c, e[7]))
  BY <1>1, RevertingTaken
<1>3. validate_v7_transition(e[7].state, "CRITICAL_FAILURE")
  <2>1. "DRIVER_RESTORED" \in V7States
    BY Alphabet DEF DriverRestored
  <2>2. validate_v7_transition("DRIVER_RESTORED", "CRITICAL_FAILURE")
    BY <2>1, Transitions
  <2>3. QED BY <1>1, <1>2, <2>2 DEF Unread
<1>4. e[7] \in Evidence
  BY DEF Course, All
<1>5. V7Journal_record(e[7], "CRITICAL_FAILURE").tail = "clean"
  BY <1>2, <1>3, <1>4 DEF V7Journal_record, Evidence
<1>6. QED BY <1>1, <1>5, ParsesNext

\* The journal parses after a command.
LEMMA CourseParses ==
  ASSUME IInv, Legible, "restored" \notin AppendFaults, NEW c, NEW e, Course(c, e), Taken(c, e)
  PROVE  parse_v7_journal'
<1>1. e[7].tail = "clean" \/ (e[7].tail \in V7States /\ validate_v7_transition(e[7].state, e[7].tail))
  BY TakenParses
<1>2. CASE Onward(c, e)
  <2>1. ev' = e
    BY <1>2 DEF Onward
  <2>2. QED BY <1>1, <2>1, ParsesNext
<1>3. CASE Steered(c, e)
  <2>1. CASE Critical(c, e)
    BY <2>1, CriticalParses
  <2>2. CASE ev'[7].state = e[7].state /\ ev'[7].tail = e[7].tail
    BY <1>1, <2>2, ParsesNext
  <2>3. QED BY <1>3, <2>1, <2>2, SteeredTo DEF Concluded
<1>4. QED BY <1>2, <1>3 DEF Taken, Plainly, Recorded, Unrecorded, Reopened

\* The states in which the driver is not restored, or must be.
LEMMA Crossings ==
  ASSUME NEW s \in V7States
  PROVE  /\ v7_crossed_stop_without_durable_commit(s) <=>
              ~Before(s, "STOP_INITIATED") /\ s # "COMMITTED" /\ s # "ROLLED_BACK"
         /\ Before(s, "COMMITTED") => Before(s, "ROLLBACK_STARTED") /\ s # "COMMITTED" /\ s # "ROLLED_BACK"
         /\ ~Before(s, "STOP_INITIATED") /\ Before(s, "COMMITTED") => validate_v7_transition(s, "ROLLBACK_STARTED")
         /\ Intended(s) => s \notin DriverRestored
<1>1. V7Rank(s) \in 1..21
  BY Ranks
<1>2. validate_v7_transition(s, "ROLLBACK_STARTED") <=> V7Rank(s) \in 6..14 \/ s = "CRITICAL_FAILURE"
  BY Transitions
<1>3. Intended(s) => s \notin DriverRestored
  BY Beginnings, NotRestored DEF Intended
<1>4. QED BY <1>1, <1>2, <1>3, RankOf DEF Before, v7_crossed_stop_without_durable_commit

\* The unwinding goes on.
LEMMA UnwindingOnward ==
  ASSUME IInv, Legible, "restored" \notin AppendFaults, NEW c, NEW e, Course(c, e), Taken(c, e),
         Onward(c, e), ctl.run = "unwind"
  PROVE  Unwinding(ctl', ev'[7], cli'["broker"], px'["broker"])
<1>1. /\ ctl'.at = ctl.at + 1 /\ ctl'.state = c.state /\ ctl'.healthy = c.healthy
      /\ ev' = e /\ UNCHANGED <<cli, px>> /\ ~Steered(c, e)
  BY OneCourse
<1>2. Running /\ UnwindText(ctl.at, Cmd) /\ ctl.at \in 1..8
  BY Commands DEF IInv, Course, PlanLength
<1>3. ctl.at < 8 /\ ctl.state \in V7States /\ ev[7].state \in V7States
  BY <1>2 DEF Onward, Course, SamePlace, PlanLength, IInv, Types, Control, Evidence, All
<1>4. Unwinding(ctl, ev[7], cli["broker"], px["broker"])
  BY DEF Legible, Viewed
<1>5. CASE ctl.at \in {1, 6}
  <2>1. Cmd = "reopen"
    BY <1>2, <1>5 DEF UnwindText
  <2>2. Reopened(c, e)
    BY <2>1, Askings DEF Taken, Plainly, Recorded, Unrecorded, Legible
  <2>3. c.state = ev[7].state /\ c.healthy /\ e[7].state = ev[7].state /\ e[7].tail = "clean"
    BY <2>2 DEF Reopened
  <2>4. CASE ctl.at = 1
    BY <1>1, <1>4, <2>3, <2>4 DEF Unwinding
  <2>5. CASE ctl.at = 6
    <3>1. px["broker"].at = "off" /\ (Intended(c.state) \/ c.state = "DRIVER_RESTORED")
      BY <1>4, <2>3, <2>5 DEF Unwinding, Unread
    <3>2. QED BY <1>1, <2>3, <2>5, <3>1 DEF Unwinding
  <2>6. QED BY <1>5, <2>4, <2>5
<1>6. CASE ctl.at = 2
  <2>1. /\ Cmd = "ROLLBACK_STARTED" /\ Cmd # "reopen" /\ ctl.healthy /\ Before(ctl.state, "COMMITTED")
        /\ ctl.state = ev[7].state /\ ev[7].tail = "clean" /\ Held(cli["broker"], px["broker"])
    BY <1>2, <1>4, <1>6 DEF UnwindText, Unwinding
  <2>2. CASE Plainly(c, e)
    <3>1. ~due("ROLLBACK_STARTED") /\ c.state = ctl.state /\ c.healthy /\ SameJournal(e)
      BY <2>1, <2>2, Alphabet DEF Plainly, Skips
    <3>2. Intended(ctl.state)
      BY <1>3, <2>1, <3>1, Crossings DEF due, Intended
    <3>3. QED BY <1>1, <1>6, <2>1, <3>1, <3>2 DEF Unwinding, SameJournal
  <2>3. CASE Recorded(c, e)
    <3>1. ev[7].tail = "clean" /\ validate_v7_transition(ev[7].state, Cmd)
      BY <2>3, KnowsTheEnd DEF Recorded, CanAppend
    <3>2. e[7].state = Cmd /\ e[7].tail = "clean" /\ c.state = Cmd /\ c.healthy
      BY <2>1, <2>3, <3>1 DEF Recorded, Appended
    <3>3. QED BY <1>1, <1>6, <2>1, <3>2 DEF Unwinding, Intended
  <2>4. QED BY <1>1, <2>1, <2>2, <2>3 DEF Taken, Unrecorded, Reopened
<1>7. CASE ctl.at \in {3, 4}
  <2>1. Cmd \notin V7States /\ Cmd # "reopen"
    BY <1>2, <1>7, Alphabet DEF UnwindText, DriverRestored
  <2>2. Plainly(c, e)
    BY <2>1 DEF Taken, Recorded, Unrecorded, Reopened
  <2>3. /\ c.state = ctl.state /\ c.healthy = ctl.healthy /\ SameJournal(e)
    BY <2>2 DEF Plainly
  <2>4. QED BY <1>1, <1>4, <1>7, <2>3 DEF Unwinding, SameJournal, Unread
<1>8. CASE ctl.at = 5
  <2>1. Cmd = "undo" /\ Cmd \notin V7States /\ Cmd \in Asking
    BY <1>2, <1>8, Askings DEF UnwindText, Asking, Requests7
  <2>2. Intended(ctl.state)
    BY <1>4, <1>8 DEF Unwinding
  <2>3. ~Skips
    BY <1>3, <2>1, <2>2, Crossings DEF Skips, due
  <2>4. QED BY <1>1, <2>1, <2>3 DEF Taken, Plainly, Recorded, Unrecorded, Reopened
<1>9. CASE ctl.at = 7
  <2>1. /\ Cmd = "DRIVER_RESTORED" /\ Cmd # "reopen" /\ ctl.healthy /\ px["broker"].at = "off"
        /\ ctl.state = ev[7].state /\ ev[7].tail = "clean"
        /\ Intended(ctl.state) \/ ctl.state = "DRIVER_RESTORED"
    BY <1>2, <1>4, <1>9 DEF UnwindText, Unwinding
  <2>2. CASE Plainly(c, e)
    BY <1>1, <1>9, <2>1, <2>2 DEF Plainly, SameJournal, Unwinding
  <2>3. CASE Recorded(c, e)
    <3>1. ev[7].tail = "clean" /\ validate_v7_transition(ev[7].state, Cmd)
      BY <2>3, KnowsTheEnd DEF Recorded, CanAppend
    <3>2. e[7].state = Cmd /\ e[7].tail = "clean" /\ c.state = Cmd /\ c.healthy
      BY <2>1, <2>3, <3>1 DEF Recorded, Appended
    <3>3. QED BY <1>1, <1>9, <2>1, <3>2 DEF Unwinding
  <2>4. QED BY <1>1, <2>1, <2>2, <2>3 DEF Taken, Unrecorded, Reopened
<1>10. ctl.at \in {1, 2, 3, 4, 5, 6, 7}
  BY <1>2, <1>3
<1>11. QED BY <1>5, <1>6, <1>7, <1>8, <1>9, <1>10

\* What one that undoes its commit knows of the journal when a command is done.
LEMMA UncommittingTaken ==
  ASSUME IInv, Legible, "restored" \notin AppendFaults, NEW c, NEW e, Course(c, e), Taken(c, e),
         ctl.run = "undoCommit", c.healthy
  PROVE  /\ Uncommitting(ctl, ev[7], cli["broker"], px["broker"])
         /\ c.stopped /\ e[7].tail = "clean" /\ c.state = e[7].state
         /\ c.state = "DRIVER_RESTORED" => ctl.at = 5
         /\ c.state \in {"ROLLBACK_STARTED", "DRIVER_RESTORED"}
         /\ Onward(c, e) => ctl.at # 4
<1>1. Running /\ UndoCommitText(ctl.at, Cmd) /\ ctl.at \in 1..5
  BY Commands DEF IInv, Course, PlanLength
<1>2. Cmd # "reopen" /\ Cmd \notin {"tryBootout", "tryDrain"}
  BY <1>1 DEF UndoCommitText
<1>3. ctl.healthy /\ (LeftAlone(c, e) \/ Noted(c, e))
  BY <1>2, Trusting
<1>4. Uncommitting(ctl, ev[7], cli["broker"], px["broker"])
  BY <1>3 DEF Legible, Viewed
<1>5. Onward(c, e) => ctl.at # 4
  <2>1. SUFFICES ASSUME Onward(c, e), ctl.at = 4 PROVE FALSE
    OBVIOUS
  <2>2. Cmd = "undo" /\ Cmd \notin V7States /\ Cmd \in Asking
    BY <1>1, <2>1, Askings DEF UndoCommitText, Asking, Requests7
  <2>3. ~Skips
    BY <2>2 DEF Skips, due
  <2>4. QED BY <1>3, <2>1, <2>2, <2>3 DEF LeftAlone, Noted
<1>6. CASE LeftAlone(c, e)
  <2>1. c.state = ctl.state /\ SameJournal(e) /\ c.stopped = ctl.stopped
    BY <1>2, <1>6 DEF LeftAlone
  <2>2. ctl.at # 1
    <3>1. SUFFICES ASSUME ctl.at = 1 PROVE FALSE
      OBVIOUS
    <3>2. Cmd \in V7States /\ ~Skips /\ Cmd = "ROLLBACK_STARTED" /\ ctl.state = "READY_VERIFIED"
      BY <1>1, <1>4, <3>1, IntentDue DEF Course, UndoCommitText, Uncommitting
    <3>3. validate_v7_transition("READY_VERIFIED", "ROLLBACK_STARTED")
      BY RankOf, Transitions, Alphabet
    <3>4. QED BY <1>6, <3>2, <3>3 DEF LeftAlone
  <2>3. QED BY <1>1, <1>4, <1>5, <2>1, <2>2 DEF Uncommitting, SameJournal
<1>7. CASE Noted(c, e)
  <2>1. Cmd \in {"ROLLBACK_STARTED", "DRIVER_RESTORED"} /\ (Cmd = "DRIVER_RESTORED" => ctl.at = 5)
    BY <1>1, <1>7, Alphabet DEF UndoCommitText, Noted, DriverRestored
  <2>2. QED BY <1>4, <1>5, <1>7, <2>1 DEF Uncommitting, Noted
<1>8. QED BY <1>3, <1>6, <1>7

\* The undoing of a commit goes on.
LEMMA UncommittingOnward ==
  ASSUME IInv, Legible, "restored" \notin AppendFaults, NEW c, NEW e, Course(c, e), Taken(c, e),
         Onward(c, e), ctl.run = "undoCommit", c.healthy
  PROVE  Uncommitting(ctl', ev'[7], cli'["broker"], px'["broker"])
<1>1. /\ ctl'.at = ctl.at + 1 /\ ctl'.state = c.state /\ ctl'.stopped = c.stopped
      /\ ev' = e /\ UNCHANGED <<cli, px>>
  BY OneCourse
<1>2. ctl.at \in 1..5 /\ ctl.at < 5
  BY Commands DEF IInv, Course, PlanLength, Onward, SamePlace
<1>3. /\ Uncommitting(ctl, ev[7], cli["broker"], px["broker"])
      /\ c.stopped /\ e[7].tail = "clean" /\ c.state = e[7].state
      /\ c.state = "ROLLBACK_STARTED" /\ ctl.at # 4
  BY <1>2, UncommittingTaken
<1>4. QED BY <1>1, <1>2, <1>3 DEF Uncommitting

\* A rollback that follows a failure: the intent is journaled.
LEMMA FallsBack ==
  ASSUME IInv, Legible, "restored" \notin AppendFaults, NEW c, NEW e, Course(c, e), Taken(c, e),
         Steered(c, e), ctl.run \in {"forward", "unwind", "undoCommit"}, ctl'.run = "rollback", c.healthy
  PROVE  /\ e[7].tail = "clean" /\ (c.state = e[7].state \/ Unread(c, e[7]))
         /\ c.state \in DriverRestored \cup {"ROLLBACK_STARTED"}
<1>1. c.state # "COMMITTED" /\ crossed_stop(c.state, e) /\ ~Onward(c, e)
  BY SteeredTo, OneCourse
<1>2. c.state \in V7States /\ ctl.state \in V7States /\ ctl.at \in Nat /\ Running
  BY DEF Course, SamePlace, IInv, Types, Control
<1>3. ~Before(c.state, "STOP_INITIATED")
  BY <1>1, <1>2, Crossings DEF crossed_stop
<1>4. CASE ctl.run = "forward"
  <2>1. Cmd # "reopen" /\ ctl.at \in 1..52
    BY <1>4, ForwardCommand DEF ForwardText
  <2>2. c.state = ctl.state
    BY <1>1, <1>4, <2>1 DEF Taken, Plainly, Recorded, Unrecorded, Reopened
  <2>3. ctl.at \notin 14..50
    BY <1>4 DEF Course
  <2>4. CASE ctl.at <= 13
    BY <1>2, <1>3, <1>4, <2>2, <2>4 DEF Legible, Penned, Kept
  <2>5. CASE ctl.at > 50
    BY <1>1, <1>4, <2>2, <2>5 DEF Legible, Penned
  <2>6. QED BY <2>1, <2>3, <2>4, <2>5
<1>5. CASE ctl.run = "unwind"
  <2>1. UnwindText(ctl.at, Cmd) /\ ctl.at \in 1..8
    BY <1>2, <1>5, Commands DEF IInv, PlanLength, Planned
  <2>2. Unwinding(ctl, ev[7], cli["broker"], px["broker"])
    BY <1>5 DEF Legible, Viewed
  <2>3. Cmd # "reopen"
    <3>1. ~Plainly(c, e) \/ Cmd # "reopen"
      BY DEF Legible, Plainly
    <3>2. QED BY <1>1, <3>1, Askings DEF Taken, Recorded, Unrecorded, Reopened
  <2>4. LeftAlone(c, e) \/ Noted(c, e)
    BY <2>3, Trusting
  <2>5. ctl.at > 1 /\ ctl.healthy /\ ev[7].tail = "clean" /\ (ctl.state = ev[7].state \/ Unread(ctl, ev[7]))
    BY <2>1, <2>2, <2>3 DEF UnwindText, Unwinding
  <2>6. CASE LeftAlone(c, e)
    <3>1. c.state = ctl.state /\ SameJournal(e)
      BY <2>6 DEF LeftAlone
    <3>2. ctl.at # 2
      <4>1. SUFFICES ASSUME ctl.at = 2 PROVE FALSE
        OBVIOUS
      <4>2. Cmd = "ROLLBACK_STARTED" /\ Before(ctl.state, "COMMITTED")
        BY <2>1, <2>2, <4>1 DEF UnwindText, Unwinding
      <4>3. due("ROLLBACK_STARTED") /\ validate_v7_transition(ctl.state, "ROLLBACK_STARTED")
        BY <1>2, <1>3, <1>5, <3>1, <4>2, Crossings DEF due
      <4>4. QED BY <2>6, <4>2, <4>3, Alphabet DEF LeftAlone, Skips
    <3>3. c.state \in {"ROLLBACK_STARTED", "DRIVER_RESTORED"}
      BY <1>3, <2>1, <2>2, <2>5, <3>1, <3>2 DEF Unwinding, Intended
    <3>4. QED BY <2>5, <3>1, <3>3 DEF SameJournal, Unread, DriverRestored
  <2>7. CASE Noted(c, e)
    <3>1. Cmd \in {"ROLLBACK_STARTED", "DRIVER_RESTORED"}
      BY <2>1, <2>7, Alphabet DEF UnwindText, Noted, DriverRestored
    <3>2. QED BY <2>7, <3>1 DEF Noted, DriverRestored
  <2>8. QED BY <2>4, <2>6, <2>7
<1>6. CASE ctl.run = "undoCommit"
  BY <1>6, UncommittingTaken DEF DriverRestored
<1>7. QED BY <1>4, <1>5, <1>6

\* A failed transaction is unwound.
LEMMA UnwindingBegins ==
  ASSUME IInv, Legible, NEW c, NEW e, Course(c, e), Taken(c, e), Steered(c, e), ctl'.run = "unwind"
  PROVE  Unwinding(ctl', ev'[7], cli'["broker"], px'["broker"])
<1>1. /\ ctl.run = "forward" /\ ctl.at \in 14..47 /\ ctl'.at = 1 /\ UNCHANGED <<cli, px>>
      /\ ev'[7].state = e[7].state
  BY SteeredTo DEF Planned, Course
<1>2. Kept(ctl, ev[7]) /\ Held(cli["broker"], px["broker"])
  BY <1>1 DEF Legible, Penned
<1>3. Before(ev[7].state, "COMMITTED")
  BY <1>1, <1>2 DEF Kept
<1>4. Cmd \in V7States => Before(Cmd, "COMMITTED")
  BY <1>1, ForwardStates
<1>5. Before(e[7].state, "COMMITTED")
  BY <1>3, <1>4 DEF Taken, Plainly, Recorded, Unrecorded, Reopened, SameJournal, Appended
<1>6. QED BY <1>1, <1>2, <1>5 DEF Unwinding

\* A failed commit is undone.
LEMMA UncommittingBegins ==
  ASSUME IInv, Legible, "restored" \notin AppendFaults, NEW c, NEW e, Course(c, e), Taken(c, e), Steered(c, e),
         ctl'.run = "undoCommit", c.healthy
  PROVE  Uncommitting(ctl', ev'[7], cli'["broker"], px'["broker"])
<1>1. /\ ctl.run = "forward" /\ ctl.at \in 48..50 /\ ctl'.at = 1 /\ UNCHANGED <<cli, px>>
      /\ ev'[7].state = e[7].state /\ ev'[7].tail = e[7].tail
      /\ ctl'.state = c.state /\ ctl'.stopped = c.stopped
  BY SteeredTo DEF Planned, Course
<1>2. Kept(ctl, ev[7]) /\ Held(cli["broker"], px["broker"])
  BY <1>1 DEF Legible, Penned
<1>3. Cmd \notin {"tryBootout", "tryDrain", "reopen"}
  BY <1>1, ForwardCommand DEF ForwardText
<1>4. c.state = ctl.state /\ SameJournal(e) /\ c.stopped = ctl.stopped
  <2>1. ~Recorded(c, e) /\ ~Reopened(c, e)
    BY <1>1, OneCourse DEF Recorded, Reopened
  <2>2. CASE Plainly(c, e)
    BY <1>3, <2>2 DEF Plainly
  <2>3. CASE Unrecorded(c, e)
    BY <2>3 DEF Unrecorded
  <2>4. QED BY <2>1, <2>2, <2>3 DEF Taken
<1>5. ctl.state = "READY_VERIFIED" /\ ctl.stopped /\ ev[7].tail = "clean" /\ ctl.state = ev[7].state
  BY <1>1, <1>2 DEF Kept
<1>6. QED BY <1>1, <1>2, <1>4, <1>5 DEF Uncommitting, SameJournal

\* Every command but a request leaves the journal readable.
LEMMA LegibleCourse == "restored" \notin AppendFaults /\ IInv /\ Legible /\ Coursed => Legible'
<1> SUFFICES ASSUME "restored" \notin AppendFaults, IInv, Legible, NEW c, NEW e, Course(c, e), Taken(c, e)
             PROVE  Legible'
  BY DEF Coursed
<1>1. Penned'
  BY PennedCourse DEF Legible, Coursed
<1>2. parse_v7_journal'
  BY CourseParses
<1>3. ctl.run \in Planned
  BY DEF Course
<1>4. CASE Onward(c, e)
  <2>1. ctl'.run = ctl.run /\ ctl'.healthy = c.healthy
    BY <1>4, OneCourse
  <2>2. ctl'.run = "unwind" => Unwinding(ctl', ev'[7], cli'["broker"], px'["broker"])
    BY <1>4, <2>1, UnwindingOnward
  <2>3. ctl'.run = "undoCommit" /\ ctl'.healthy => Uncommitting(ctl', ev'[7], cli'["broker"], px'["broker"])
    BY <1>4, <2>1, UncommittingOnward
  <2>4. ctl'.run = "rollback" /\ ctl'.healthy =>
          Reverting(ctl', ev'[7], px'["broker"], cli'["restore"], px'["restore"])
    BY <1>4, <2>1, RevertingOnward
  <2>5. QED BY <1>1, <1>2, <2>2, <2>3, <2>4 DEF Legible, Viewed
<1>5. CASE Steered(c, e)
  <2>1. ctl'.run = "unwind" => Unwinding(ctl', ev'[7], cli'["broker"], px'["broker"])
    BY <1>5, UnwindingBegins
  <2>2. ASSUME ctl'.run = "undoCommit", ctl'.healthy
        PROVE  Uncommitting(ctl', ev'[7], cli'["broker"], px'["broker"])
    <3>1. c.healthy
      BY <1>5, <2>2, SteeredTo
    <3>2. QED BY <1>5, <2>2, <3>1, UncommittingBegins
  <2>3. ASSUME ctl'.run = "rollback", ctl'.healthy
        PROVE  Reverting(ctl', ev'[7], px'["broker"], cli'["restore"], px'["restore"])
    <3>1. /\ c.healthy /\ ctl.run \in {"forward", "unwind", "undoCommit"} /\ ctl'.state = c.state
          /\ ev'[7].state = e[7].state /\ ev'[7].tail = e[7].tail
      BY <1>5, <2>3, SteeredTo
    <3>2. /\ e[7].tail = "clean" /\ (c.state = e[7].state \/ Unread(c, e[7]))
          /\ c.state \in DriverRestored \cup {"ROLLBACK_STARTED"}
      BY <1>5, <2>3, <3>1, FallsBack
    <3>3. QED BY <3>1, <3>2 DEF Reverting, Unread
  <2>4. QED BY <1>1, <1>2, <2>1, <2>2, <2>3 DEF Legible, Viewed
<1>6. QED BY <1>4, <1>5 DEF Taken, Plainly, Recorded, Unrecorded, Reopened

-----------------------------------------------------------------------------
(* The journal stays readable: the invariant and the theorem.              *)

\* Every step leaves the journal readable.
LEMMA LegibleStep ==
  ASSUME "controller" \notin Slow, Operator = "late", "restored" \notin AppendFaults, IInv, Legible, [Next]_allVars
  PROVE  Legible'
<1>1. CASE Command
  BY <1>1, CommandCourse, LegibleCourse, LegibleAsked
<1>2. CASE Proxies
  BY <1>2, ProxySteps, LegibleStepped
<1>3. CASE Root
  BY <1>3, LegibleRoot
<1>4. CASE Environment
  BY <1>4, LegibleEnvironment
<1>5. CASE Begin \/ Install \/ Request
  BY <1>5, LegibleEntry
<1>6. CASE UNCHANGED allVars
  <2>1. UNCHANGED <<ev, ctl, cli, px, rt>>
    BY <1>6 DEF allVars, vars, brokers
  <2>2. Penned'
    BY <2>1 DEF Legible, Penned
  <2>3. QED BY <2>1, <2>2, FewerProxies DEF Legible
<1>7. QED BY <1>1, <1>2, <1>3, <1>4, <1>5, <1>6 DEF Next

\* A rollback stays possible: the journal can always be read and the previous
\* host is in one place, whoever dies and whatever part of a record an append
\* leaves behind, given that the controller keeps its deadlines, that the
\* operator asks for a rollback only when no proxy and no root process is left,
\* and that a failed append is not taken back unnoticed.
THEOREM RollbackReadiness ==
  ASSUME "controller" \notin Slow, Operator = "late", "restored" \notin AppendFaults
  PROVE  Spec => []RollbackPossible
<1>1. Init => Legible
  <2>1. SUFFICES ASSUME Init PROVE Legible
    OBVIOUS
  <2>2. Penned
    BY <2>1, JournalInit DEF KInv
  <2>3. ctl.run = "none" /\ ev[7].tail = "clean"
    BY <2>1, InitialEvidence DEF Init, Idled, NoEvidence
  <2>4. QED BY <2>2, <2>3, Parses DEF Legible, Viewed
<1>2. IInv /\ Legible /\ [Next]_allVars => Legible'
  BY LegibleStep
<1>3. Legible => JournalReadable
  BY DEF Legible, JournalReadable
<1>4. Spec => [](JournalReadable)
  BY <1>1, <1>2, <1>3, Invariance, PTL DEF Spec
<1>5. TypeOK /\ JournalReadable /\ BaselineInOnePlace => RollbackPossible
  BY DEF RollbackPossible
<1>6. QED BY <1>4, <1>5, TypeInvariance, OnePlace, PTL
============================================================================
