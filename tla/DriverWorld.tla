---------------------------- MODULE DriverWorld ----------------------------
(* What the three diagnostic-driver programs share: the v8 host under        *)
(* launchd, Core Audio, the default routes, the product driver, the files    *)
(* the programs leave behind, and the processes that are at work on them.    *)
(*                                                                           *)
(* The programs are run by the user (the v1 controller, the v2 controller,   *)
(* v2's rollback, the resume stager), one at a time because of their lock    *)
(* files.  They start root processes with sudo; such a process outlives the  *)
(* program that started it, and only the root lock keeps two apart.          *)
(*                                                                           *)
(* Data abstraction: a host generation (pid, start time, nonce, lock file)   *)
(* and a Core Audio generation (pid, runs) are numbers, a driver bundle is   *)
(* "v7" or "candidate", a file is absent, incomplete or exact.               *)
EXTENDS Integers, Sequences, FiniteSets

CONSTANTS
    MaxTroubles, \* failing commands, writes and deadlines, deaths of a program
                 \* or of a root process, and events explored, all together
    Events,      \* what may happen by itself: the "host" dies, "audio"
                 \* restarts, the default "routes" change, "files" are disturbed
    Things       \* the files and records that may be disturbed

Checked == {"candidate", "host bytes", "legacy", "pairing", "release", "retained", "reader"}

ASSUME WorldAssumption ==
    /\ MaxTroubles \in Nat
    /\ Events \subseteq {"host", "audio", "routes", "files"} /\ Things \subseteq Checked

VARIABLES
    host,    \* the launchd job and the generation of the host, 0 if none runs
    births,  \* host generations so far
    audio,   \* Core Audio's generation and the driver it has loaded
    routes,  \* default routes
    drv,     \* the driver bundle at each of the four paths
    intact,  \* what nobody has disturbed
    tries,   \* the user evidence of the v1 and v2 attempts
    pin,     \* generations the resume stager has pinned, of v2's failed attempt
    stage,   \* root-owned files that are complete and sealed
    cut,     \* root-owned files that are incomplete
    tx,      \* the root transaction's directory, lock, pointer, reserve, results
    jnl,     \* its journal
    st,      \* its state file
    usr,     \* the user's program
    rp,      \* the root process that holds the root lock
    waiting, \* root processes that were started and have not tried the lock yet
    out,     \* what the root process of the user's program answered
    troubles \* so far

world == <<host, births, audio, routes, drv, intact>>
disk == <<tries, pin, stage, cut, tx, jnl, st>>
procs == <<usr, rp, waiting, out>>
vars == <<world, disk, procs, troubles>>

UpdateState ==
    {"BEGUN", "AUTHENTICATED", "PRESTOP_ABORTED", "HOST_STOP_INITIATED", "HOST_STOPPED",
     "PRIOR_DRIVER_RETAINED", "CANDIDATE_PUBLISHED", "COREAUDIO_RELOADED", "DRIVER_VALIDATED",
     "HOST_BOOTSTRAPPED", "READY_VERIFIED", "COMMITTED", "ROLLBACK_STARTED",
     "FAILED_DRIVER_ARCHIVED", "PRIOR_DRIVER_RESTORED", "ROLLBACK_COREAUDIO_RELOAD_INITIATED",
     "ROLLBACK_COREAUDIO_RELOADED", "HOST_REBOOTSTRAPPED", "ROLLED_BACK", "CRITICAL_FAILURE"}

\* Sealed root-owned files; "locator0" is v1's, left at mode 0400.
Files == {"locator0", "locator", "parent", "support", "tx", "txPin", "txId", "boot",
          "rec", "recPin", "intent", "abort"}

NoUser == [who |-> "none", at |-> "none", host |-> 0, audio |-> 0, routes |-> "base",
           driver |-> "v7", fresh |-> FALSE, sub |-> "none"]
NoRoot == [kind |-> "none", op |-> "none", at |-> 0, half |-> FALSE, mem |-> "BEGUN", init |-> 0,
           audio |-> 0, routes |-> "base", own |-> FALSE, done |-> {}, seen |-> 0,
           first |-> FALSE, calm |-> TRUE, what |-> "none"]
NoAnswer == [is |-> "none", what |-> "none", host |-> 0, first |-> FALSE, calm |-> FALSE]

WorldInit ==
    /\ host = [loaded |-> TRUE, gen |-> 1, first |-> TRUE] /\ births = 1
    /\ audio = [gen |-> 1, drv |-> "v7"] /\ routes = "base"
    /\ drv = [canonical |-> "v7", stage |-> "none", prior |-> "none", failed |-> "none"]
    /\ intact = Checked
    /\ tries = [v1 |-> "none", v2 |-> "none"] /\ pin = [host |-> 0, audio |-> 0]
    /\ stage = {} /\ cut = {}
    /\ tx = [dir |-> FALSE, lock |-> FALSE, ptr |-> "absent", reserve |-> "absent",
             result |-> "none", recovery |-> "none", aborted |-> 0]
    /\ jnl = [at |-> "absent", pend |-> "none", inits |-> 0, old |-> 0]
    /\ st = [at |-> "none", init |-> 0, routes |-> "base", reserve |-> FALSE]
    /\ usr = NoUser /\ rp = NoRoot /\ waiting = {} /\ out = NoAnswer
    /\ troubles = 0

----------------------------------------------------------------------------
(* The world by itself                                                       *)

Spend == troubles < MaxTroubles /\ troubles' = troubles + 1
Happens(e) == e \in Events /\ Spend

HostDies ==
    /\ Happens("host") /\ host.gen # 0 /\ host' = [host EXCEPT !.gen = 0]
    /\ UNCHANGED <<births, audio, routes, drv, intact, disk, procs>>

\* launchd keeps a loaded host alive.
HostRestarts ==
    /\ host.loaded /\ host.gen = 0
    /\ host' = [host EXCEPT !.gen = births + 1, !.first = FALSE] /\ births' = births + 1
    /\ UNCHANGED <<audio, routes, drv, intact, disk, procs, troubles>>

\* A host that outlived the bootout of its job.
HostExits ==
    /\ ~host.loaded /\ host.gen # 0 /\ host' = [host EXCEPT !.gen = 0]
    /\ UNCHANGED <<births, audio, routes, drv, intact, disk, procs, troubles>>

AudioRestarts ==
    /\ Happens("audio") /\ audio' = [gen |-> audio.gen + 1, drv |-> drv.canonical]
    /\ UNCHANGED <<host, births, routes, drv, intact, disk, procs>>

RoutesChange ==
    /\ Happens("routes") /\ routes' = IF routes = "base" THEN "drifted" ELSE "base"
    /\ UNCHANGED <<host, births, audio, drv, intact, disk, procs>>

Disturb ==
    /\ Happens("files") /\ \E t \in Things \cap intact : intact' = intact \ {t}
    /\ UNCHANGED <<host, births, audio, routes, drv, disk, procs>>

----------------------------------------------------------------------------
(* A user program and the root process it starts                             *)

Orphaned(P) == {[p EXCEPT !.own = FALSE] : p \in P}

\* The program goes on, starts a root process, or ends; whatever it started
\* before goes on without it.
UserGoes(u) == usr' = u /\ UNCHANGED <<rp, waiting, out>>
UserStarts(kind, u) ==
    /\ usr' = u /\ waiting' = Orphaned(waiting) \cup {[kind |-> kind, own |-> TRUE]}
    /\ rp' = [rp EXCEPT !.own = FALSE] /\ out' = NoAnswer
UserLeaves ==
    usr' = NoUser /\ waiting' = Orphaned(waiting) /\ rp' = [rp EXCEPT !.own = FALSE] /\ out' = NoAnswer

UserDies ==
    /\ usr.who # "none" /\ Spend /\ UserLeaves
    /\ UNCHANGED <<world, disk>>
=============================================================================
