# opensteamer (Beluga): a TLA+ model of pairing, rendezvous and host updates

opensteamer streams the screen and audio of a Mac ("host", Beluga Host) to an
iPhone ("viewer") over WebRTC. Two parts of the program carry most of its own
control logic, and these TLA+ modules model both:

- before any media flows the two devices find each other through a rendezvous
  service, pair once with a one-time invitation, keep a durable record of the pair
  on both sides, and authorize each session with a signed reconnect request;
- the host and its virtual audio driver are installed, migrated and updated by a
  family of journaled controllers (Rust programs under `macOS/scripts`), which
  replace a running service and a system driver under launchd and Core Audio and
  must be able to go back from any point at which they, their root halves or the
  Mac may die.

Both are places where processes, sockets, alarms, files and messages interleave,
and where a lost step does lasting damage.

All paths below are relative to the repository root; line numbers refer to the
commit under `src/`. `PROJECT.json` holds the exact correspondence between definitions
and lines (`map`), the hazards, the runs and the theorems.

## 1. Inventory

| component | state it keeps | operations | what is hard | correct means |
|---|---|---|---|---|
| Rendezvous Worker, invitation and pairing channels (`services/RendezvousWorker/src/index.js`) | one stored invitation record (phase, generation, pairing attempt, acknowledgement progress, deadline), one alarm, socket attachments | join, message, close callback, reconcile, alarm | close callbacks after a replacement, an await inside a join, an alarm outside the queue, loss of the actor between two writes | one use per invitation, one socket per role, progress never outlives its attempt |
| Rendezvous Worker, availability channels (same file) | attachments with role, connection, exchange, sequence | join with replacement or forced reset, signal, host probe, departure | zombie sockets, failed sends to one of two ends, late callbacks | no half exchange, sequences belong to one exchange, retrying ends find each other |
| Pairing record (`shared/.../RemotePairedDevice.swift`) | commit state, recovery commit, reconnect counters | prepare, accept, begin and answer a reconnect | crash between any two saves or sends, replays | both records agree on the phase order; sequences never reused |
| Host bootstrap and coordinator (`macOS/.../WorldwidePairingBootstrap.swift`, `WorldwideHostCoordinator.swift`, `WorldwideHostLifecycle.swift`) | handshake, record in memory, current client and exchange | handshake, commit, recovery, reconnect, retry | slow awaits in a handler while the client goes on parsing; memory older than disk | an interrupted pairing is finished; a busy handler does not damage the next exchange |
| Viewer coordinator and pairing state (`iOS/.../WorldwideViewerConnectionCoordinator.swift`, `ViewerPairingState.swift`) | record, current attempt, outstanding request | pair, recover, connect, retry, cancel, forget | deadlines racing late answers, forget during an await | as above, seen from the viewer |
| Signaling clients (`shared/.../PairedAvailabilitySignalingClient.swift`, `PairingBootstrapSignalingClient.swift`) | exchange, cipher, sequences, event buffer | connect, send, parse, probe, close | reentrancy around connect and close | events in order, sends in the current exchange |
| Media signaling client (`RendezvousSignalingClient.swift`) | state, sequences, pending candidates | connect, send, parse, close | reentrancy around connect and close | offer, answer and candidates in order |
| Viewer pairing store (`iOS/.../ViewerPairingStore.swift`, `KeychainStore.swift`) | Keychain items of one namespace | load, save, delete, select namespace | failure between two of several items | never half a pair |
| Host process lock (`WorldwideHostProcessLock.swift`) | a lock file | acquire, hand over, release | two hosts starting at once | one host process |
| Self-hosted rendezvous (`services/Rendezvous/src/*.mjs`) | sessions, rate buckets, TURN credentials | join, relay, expire, limit | buckets at their limit, timers racing closes | one use, bounded tables |
| Screen suspension, shared clock recovery, ICE recovery, playout queue, liveness | small state machines | see their files | callbacks of replaced generations | only the current generation acts |
| Audio routing and safe output, virtual display supervision | leases on system devices and processes | acquire, verify, restore | restore after failure of one of several steps | the user's devices are always given back |
| Virtual audio driver core (`OpensteamerVirtualAudioCore.c`) | lock-free ring with epochs | write, read, reset | memory races between real-time threads | a reader never mixes epochs |
| Host migration controller (`macOS/scripts/opensteamer-host-migration-controller.rs`) | journal, active pointer, rollback reserve, launchd labels, app and plist paths | install, run, commit, roll back, recover | death between an effect and its record, launchd restarting either host, torn appends | never both hosts; COMMIT and ROLLED_BACK true; a host in service in the end |
| Paired host update controllers v1 (post-v20), v2 ... v6, v8 | per version: journal, pointer, install hold, retained host, reserve, result | preflight on the committed chain, update, rollback, retire | as above, and a chain of versions each trusting the evidence of all earlier ones | previous host always in one place; one open update; an interrupted one is settled |
| Paired v7 host and driver update controller | as above, the product driver, two chains of client, proxy and root broker | update, driver publication and reload, commit, rollback, detached recovery | two processes append to one journal; a proxy takes over when its controller is lost; answers that come late | the previous host never runs with the new driver; what is journaled is true; settled in the end |
| Diagnostic driver v1 and v2 update controllers, v2 resume stager | user evidence, root-owned files, a root transaction with pointer, journal, state file and results | stage, forward transaction, prestop abort, rollback, sealed recovery, resume | root processes that outlive the program that started them; journal and state file as separate writes | v7 driver kept; host only with a loaded driver; recoverable; started once |
| Local mono trial controller, physical validation oracle (Rust) | a broker protocol; none | one-off trial; evidence checks | - | - |
| Capture, encoding, TCP streaming, iOS UI, scripts | mostly framework calls and I/O | - | - | - |

How they interact: host and viewer each hold one WebSocket to the channel object of
the invitation (pairing) or of the pair (availability). The object pairs them in an
*attempt* or *exchange*, forwards sealed messages with per-exchange sequence
numbers, and tells one end when the other is gone. Host and viewer run one event
loop per connection over the events their client has parsed; records are written to
the Keychain (or the host's data store) before the message that depends on them is
sent.

The controllers are run by hand, one at a time because of a lock file, in the
order migration, v1, v2, ... v8, diagnostic driver. Each starts from the evidence the ones before
it left on disk (their journals, pointers and retained bundles) and refuses to run
if it is not exactly as committed. They act on the host through launchd (which
restarts a loaded host by itself) and learn its state from launchd, the host's lock
file and its log. The v7 and driver controllers start root processes that act on
the driver and on Core Audio.

## 2. Modules

| module | models | composed of |
|---|---|---|
| `RendezvousInvitation` | the Durable Object in invitation (legacy) and pairing mode | instantiates `OneUseInvitation` |
| `OneUseInvitation` | abstract: an invitation is issued, used by one attempt, expires or is retired | |
| `RendezvousAvailability` | the Durable Object in availability mode | |
| `PairingCommit` | host, viewer and a channel between them: handshake, durable commit, recovery, reconnect | takes the channel's observable behaviour from the two modules above |
| `RendezvousInvitationProofs`, `RendezvousAvailabilityProofs`, `PairingCommitProofs`, `HostMigrationProofs`, `PairedUpdatesProofs`, `PairedV7Proofs`, `PairedV7JournalProofs`, `DriverDeliveryProofs` | the theorems of section 6 | each extends the module it is named after (`PairedV7Proofs`: `PairedV7Update`, `PairedV7JournalProofs`: `PairedV7Proofs`) |
| `HostMigration` | the v20 migration transaction | instantiates `HostCutover` |
| `HostCutover` | abstract: one decision between two hosts | |
| `PairedBase` | state and evidence all update controllers share | |
| `PairedV1` ... `PairedV6`, `PairedV8` | one controller each: what it checks, and its plans | extend `PairedBase` |
| `PairedUpdates` | the controllers at work: launchd, hosts, deaths, faults | instantiates the seven above and `HostReleases` |
| `HostReleases` | abstract: a chain of releases, committed or reverted one at a time | |
| `PairedV7` | the v7 controller's checks, journal and plans | extends `PairedBase` |
| `DriverBroker` | product driver, root brokers, detached proxies | extends `PairedV7` |
| `PairedV7Update` | controller, proxies, root, launchd and deaths together | extends `DriverBroker` |
| `DriverWorld` | host, Core Audio, driver paths, files and processes of the driver delivery | |
| `DriverRoot` | the root transaction's proofs, journal, tables and plans | extends `DriverWorld` |
| `DriverTransaction` | a root process executing those plans, failing and dying | extends `DriverRoot` |
| `DriverV1`, `DriverV2`, `DriverResume` | the three user programs | over `DriverWorld` |
| `DriverDelivery` | all of them over one machine | composes the six above |
| `MC...` | model-checking roots (symmetry sets) | |

### RendezvousInvitation
`invitation` is `this.invitation` with its stored copy (they are equal at the end of
every handler), `sock` the sockets with `readyState` and serialized attachment,
`joining` the join that is suspended in `iceServersForJoin`, `alarmSet` the single
alarm, `hist` a history of what was forwarded and admitted. `handleJoin` is split by
outcome (`HostIssues`, `ViewerFindsExpired`, `RefuseJoin`, `HostWaits`,
`StartPairing`, `JoinAwaitsICE` then `ICEArrives` or `ICERefused`);
`handleInvitationMessage` is `RejectMessage`, `UndeliveredMessage`,
`ForwardMessage`; `webSocketClose`/`webSocketError` is `Departure`; `alarm` is
`Alarm`. Handlers on `mutationQueue` are single actions, because Cloudflare's input
gate delivers nothing while an object awaits its own storage; the actor being lost
at such an await is a `...Lost` action (constant `Crashes`). Deliberately left out:
an attachment write that throws and is swallowed on the invitation side, and HTTP
refusals before the object is reached.

### RendezvousAvailability
`sock[s].live` says whether the client end still exists; the edge may keep a socket
open without one. `StartExchange`, `ViewerForcesReset`, `HostWaits`, `ReadyFails`
and `PeerUnwritable` are the outcomes of `handleAvailabilityJoin`; messages, probes
and departures are one action each. `received` and `acked` are history.

### PairingCommit
`hostDisk` and `viewerDisk` are the stored records, `host.record` the coordinator's
copy (it may lag behind the disk after the second of two saves failed), `link` the
attempt or exchange the channel currently pairs the two in, `toHost`/`toViewer` what
each client has parsed and its loop has not handled. A pair is the two ephemeral
participants whose transcript it authenticates, so that splicing two handshakes
would be visible; signatures, MACs and seals are perfect.

A handler is `HostDoes(saves, state, out)` or `ViewerDoes(...)`: it stores the
records of `saves` in order, adopts the state and sends `out`, with the code's
failure points as alternatives (a save fails, the process is lost after the k-th
save, the send fails, the save after a sent completion fails). The two places where
a handler does slow work between two effects are split: a reconnect response waits
for the media session (`AvailabilityRequest`, then `HostResponds` or
`HostCannotRespond`), and the viewer begins its request after another send
(`AttemptReady`, then `AttemptRequests`). A client goes on parsing meanwhile, so a
send goes to the channel's latest exchange even if the handler runs for an earlier
event. Errors end the attempt; after a transient one the viewer's loop retries by
itself (`viewer.error`), and the host always goes back to availability with the
record it holds.

The media service appears as the time a response takes and its failure; shutdown
and process loss are both `HostCrashes`; cancel and process loss of the viewer are
`ViewerAbandons`; deadlines are `ViewerLosesConnection`. A viewer enters a code only
without a record, or retries the saved code of an unfinished one (`HasInvitation`,
from `BrowserView` and `recoverInterruptedPairing...`).

### HostMigration
The transaction is a plan of effects (`forward_effects`, `rollback_plan`), each
followed by the journal record the code appends; `run`, `at` and `fx` say where the
controller is, `mem` what it believes the journal to hold, `jnl` what is on disk.
Every effect may fail before or after it acted (`EffectFails`), the controller may
die between any two steps (`ControllerDies`) and the machine may reboot. launchd
(`HostStarts`, `HostExits`) and the host's log (`HostLogsMarker`) run beside it.
`AppendFaults` says how a journal append may fail: nothing reaches the file
("lost"), part of the record ("torn"), all of it though the call reports an error
("kept"). `Substitution` lets a destination directory be replaced by another.

### The paired updates
A version's update and rollback are sequences of named commands, read off its
`perform_...` and `rollback_...` functions: a journal state's name appends that
record; *gates* are checks that abort the plan; *waits* are checks polled to a
deadline; the rest change the machine. `due` tells which commands a rollback
repeats, from the state it finds. `PairedUpdates` interprets the plans: its
`Command` executes the next one, `Fails` is its failure before or after it acted,
`Request` is an operator who starts a rollback (`Requests`: of an interrupted
update only, of the newest release, or of any). `Versions` is the set of
controllers a run exercises; lower ones are committed at the start.

In v7 a side ("broker" for an update, "restore" for a rollback) is a chain of three:
the controller's client `cli`, its detached proxy `px`, root `rt`. Commands travel
down, markers up; closing the pipe makes the proxy take over. `Relay` is what
`println!` to a pipe nobody reads does to a proxy: Rust's panics, "survives" is an
over-approximation that exercises the recovery code after it. `Slow` names who may
miss a deadline though alive, `Killed` who may die, `Operator` when a rollback is
asked for by hand ("early" is while proxies are still at work). The earlier
attempts' retained evidence is a set of tokens, of which `Disturbed` may go.

### The driver delivery
The user's programs are `usr`, the root process holding the root lock is `rp`, and
`waiting` are root processes that were started and have not tried the lock yet: a
program that ends or dies leaves them behind. The root transaction's functions are
plans of operations (`PlanOf`); a `mark` records the journal and then writes the
state file, as two durable steps. `troubles` counts failing operations, deaths and
events (the host dies, Core Audio restarts, routes change, a file is disturbed)
together; `MaxTroubles` bounds it. `valid_transition` and the coherence table of
journal and state file are written out as in the code.

States the code itself cannot get out of appear in the properties by name.
`Gap`: a rollback interrupted twice, each time between a journal record and its state
file, is two records ahead and no recovery accepts it. `Diverged`: the snapshot beside
the journal was cut off exactly behind an earlier record, and every later
reconciliation takes it for another history. `Stranded` (driver): a disturbed file, a
reload recorded twice, a gap, or a diverged snapshot. `Stranded` (v7): a controller
lost while unwinding before its pointer was published, or a broker proxy that goes
on beside a finished rollback. They are described in section 5.

## 3. Runs

| run | bounds | distinct states | shows |
|---|---|---|---|
| `invitation_pairing` | 3 sockets, 1 generation, 2 attempts, 4 messages, losses on | 606k | deserted tombstones, progress current, live attempts progress, refinement |
| `invitation_legacy` | 3 sockets, 2 generations, losses on | 237k | the suspended join: one socket per role, one viewer, no orphan |
| `invitation_live` | 2 sockets, 2 generations, 2 attempts, no losses | 120k | invitations end |
| `availability` | 3 sockets, 6 exchanges, 1 signal, 2 faults | 158k | coherent attachments, live exchanges kept, probes, `EventuallyPaired` |
| `pairing_safety` | 3 handshakes, 5 exchanges, 3 requests, 4 faults | 1.30M | matched records in commit order, fresh sequences, honest commits accepted, records only advance |
| `pairing_live` | 2 handshakes, 8 exchanges, 8 requests, 2 faults, `Prompt` | 39k | `PairingFinishes` |
| `migration` | 3 generations, 1 crash, 1 fault, lost appends, substitution | 107k | never both hosts, journal true, readiness fresh, refinement, a host returns |
| `paired_chain` | v1 to v6 in turn, 1 crash, 1 fault, every kind of append fault | 654k | one coherent history, refinement of the release chain |
| `paired_recovery` | v8, 2 crashes, 2 faults, every kind of append fault | 51k | previous host in one place, moves and outcomes proved, the update settles |
| `paired_v7` | 2 troubles, at most one of them a death, `Slow = {root}`, `Killed = {main, restore, machine}`, `Operator = late`, one piece of evidence disturbed | 144k | rollback restores driver and host, commit keeps both, journal readable, moves hostless, settles |
| `paired_v7_detached` | 1 trouble, no operator | violation | `DetachedRecovery` (finding) |
| `driver_delivery` | 2 troubles, all events, a lost pairing | 133k | driver kept, host only with a loaded driver, records true, started once, recoverable, the host returns |

Each passing run checks named conjunctions where several conditions say one thing
together:

| property | is the conjunction of |
|---|---|
| `InvitationsEnd` | `TombstoneRetires`, `UnusedExpires` |
| `AttachmentsCoherent` | `TypeOK`, `OneAttachedPerRole`, `NoHalfExchange`, `SequencesInStep` |
| `RecordsMatch` | `TypeOK`, `HostRecordHasPeer`, `CommitOrder` |
| `JournalTruthful` | `TypeOK`, `RollbackIdentitiesJournaled`, `RolledBackRestores`, `CommittedStands` |
| `ReadinessFresh` | `CommitProved`, `RecoveryIsFresh` |
| `HistoryCoherent` | `TypeOK`, `OneOpenUpdate`, `SettledMeansInstalled`, `ChainUnbroken` |
| `StepsProved` | `MovesUnderLock`, `CommitProved`, `RollbackProved` |
| `RollbackRestoresDriver` | `OldHostOldDriver`, `RestoredMeansRestored` |
| `RollbackPossible` | `TypeOK`, `JournalReadable`, `BaselineInOnePlace` |
| `MovesHostless` | `MovesUnderLock`, `DriverMovesHostless` |
| `DriverKept` | `TypeOK`, `PriorDriverKept` |
| `RecordsTrue` | `OutcomeTrue`, `ReportTrue` |
| `TransactionOnce` | `SettledFinal`, `StartedOnce` |

Why the bounds are enough. Three sockets let a closing socket, its replacement and
their peer coexist. Two attempts (or generations) are what every stale-callback
scenario needs; four messages reach the completion position (sequence 3). In
`PairingCommit` five exchanges allow the bootstrap, two interrupted recoveries and a
reconnect with its retry, and four faults an interruption of each of the four commit
phases. Sockets are symmetric (`SYMMETRY`) in the safety runs only. In the liveness
runs the bound on exchanges and requests is larger than what the bounded number of
faults can use up, so progress is not lost to a bound.

In the controllers the hard cases are an interruption and the interruption of what
recovers from it: a crash and a fault in either order (migration, chain), two crashes
and two faults (v8), or two troubles of any kind (driver; v7, where a death spends one
of `MaxFaults` and `MaxCrashes` allows one). The two troubles of v7 are what
`ClosePipe` needs: a step that fails, and a host that then does not stop.
Three generations of the new host leave room for a restart on either side of an
observation. Six versions multiply the crashes and faults of the chain run; all seven
plans are the same code with different constants in most steps, so that v8, the
longest chain, stands for the second crash.

Three runs are kept small so that they can be repeated with every change, and were
each done once on a larger instance, which passes: `migration` with two crashes (319k
states) and `paired_v7` with three troubles (1.13 million) with every property they
name, and `driver_delivery` with three troubles (1.40 million) with every property
but the liveness one, `HostReturns`, which was checked for two only. For the first two only the
liveness properties `ServiceReturns` and `Settles` rest on the bound: their other
properties are theorems for every `MaxGen`, `MaxCrashes` and `MaxFaults` (section 6).

What a run leaves out of a constant is named here too. `migration` uses
`AppendFaults = {"lost"}`: with torn or kept appends the code does not keep its
promises (section 5). `paired_v7` leaves "controller" and "proxy" out of `Slow` and
"broker" out of `Killed`, which `CommitKeepsDriver` needs: a proxy that misses root's
deadman, or dies, between the durable COMMITTED and root hearing of it lets root undo
the driver. It has `Operator = "late"`, "controller" not in `Slow` and "restored" not
in `AppendFaults`, which the `JournalReadable` of `RollbackPossible` needs: otherwise
two processes can append to the journal from different views of it. These are
assumptions about the machine and the operator that the code does not enforce.
`RollbackRestoresDriver`, `BaselineInOnePlace` and `MovesHostless` need none of them,
and `CommitKeepsDriver` only the first three (section 6).

Deadlock checking is off everywhere: every one of these systems may rest (nobody is
obliged to join, an update ends, and the bounds end the exploration). That something
must happen is stated by the liveness properties instead.

Each property has a mutant in the module, named and placed before the definition it
would replace (`Mutant:` comments), that makes it fail.

## 4. Fairness

- `RendezvousInvitation`: time passes, the runtime runs a due alarm, a socket being
  closed closes and its callback is delivered, the credential fetch ends (it has a
  timeout). No client has to do anything. Liveness is claimed without losses of the
  actor (`Crashes = FALSE`): the code does not promise that a deadline stored
  without its alarm is noticed.
- `RendezvousAvailability`: a host or viewer without a connection joins again (both
  retry loops), sockets and callbacks as above, a fenced client eventually sends
  (the host's periodic probes) and learns it. Nothing obliges the edge to notice a
  dead client.
- `PairingCommit`: both loops handle what they hold, the server notices a lost end,
  the host process is restarted (it is kept alive) and its availability loop does
  not give up, a viewer with a record tries again. Nobody has to use an invitation.
  `Prompt = TRUE` adds one timing assumption: the viewer has handled what its client
  held by the time the host's retry delay (at least a second) is over. Without it
  there is a repetition without faults: the viewer sends its activation in one
  exchange and its request in the next, each time just before the host, which has
  not seen the activation, refuses the request and reconnects. The safety run does
  not use it.

- `HostMigration`: the controller runs and an interrupted transaction is rerun (by
  the operator; the active pointer makes every later start a recovery); launchd
  starts loaded hosts and ends booted-out ones; a running host logs its marker.
  Starting and logging are strongly fair because a host may exit in between.
- `PairedUpdates`, `PairedV7Update`: the running controller, proxies and root go on,
  launchd and hosts as above, the operator repeats the rollback of an interrupted
  update. A loaded host is never obliged to crash. Crashes and faults have no fairness
  and are bounded.
- `DriverDelivery`: launchd keeps the job alive, started root processes go on, and the
  operator runs a recovery again as long as there is one to run.

## 5. Findings and observations

One run expects a violation.

- `DetachedRecovery` (`paired_v7_detached`): when the v7 controller dies after the
  stop, its proxy should restore driver and host. `proxy_root_request`
  (`opensteamer-host-paired-v7-update-controller.rs:8780`) relays every answer of
  root with `println!`; the reader of that pipe was the controller, so the first
  relayed answer panics and the proxy ends before it has done anything. The self
  test of the crash matrix (line 17616) names "v6 restoration and readiness" as the
  outcome but never starts a proxy. A rollback by hand still settles the update
  (`Settles`).

The following were met while modelling, with TLC where a property is named (the
definition is in the module; it is in no run).

Pairing:
- `MutationsSerialized`: the comment at `services/RendezvousWorker/src/index.js:173`
  says all state-changing entry points are serialized; `alarm()` is not and deletes
  the record while a join is suspended. The join's re-check keeps this harmless
  (`NoOrphanSocket`, `OneViewerAdmitted` are proved with the alarm in it).
- `SilentResponseRecoverable`: a media session that starts more slowly than the
  viewer's response deadline sends the response to the abandoned request into the
  exchange of the automatic retry. The retry rejects it with an error that is not
  transient, and the operation ends, against the comment at
  `WorldwideViewerConnectionCoordinator.swift:1130`. Durable state is not affected.

Host migration:
- `CommitIsFinal` ("kept" appends): a COMMIT whose append reached the disk but
  reported a failure is rolled back, against "the sole commit point" in
  HOST_MIGRATION.md.
- `ReserveKeptForProof`: the reserve is truncated outside a rollback and before the
  proof of the retained pointer.
- `RollbackFinishes`: an interrupted rollback is not always finished by a rerun.
- `JournalReopens` ("torn" appends): after a torn append the same process appends a
  further record behind the fragment, and the journal cannot be read any more.

Paired updates:
- `HistoryCoherent` fails if an older release is rolled back while a newer one is in
  flight or committed (`Requests = "any"`): no controller looks at the pointer of a
  version above its own, so two transactions can be open at once. `UpdateSettles`
  fails then too, and, in v4, if a crash leaves a partial install
  hold.
- v7: `require_proxy_crash_cleanup` always fails, because a proxy whose parent is
  alive exits with an error. The two ways of `Stranded` are above.

Driver delivery:
- v1 compares the second word of shasum's output with a path that holds a space, so
  every run fails after its first root-owned file; its root half is never reached.
- v2, as the user, reads extended attributes of a directory of mode 0711, which may
  fail: that is the attempt the resume stager completes.
- A failure after the first ROLLBACK_COREAUDIO_RELOAD_INITIATED ends in
  CRITICAL_FAILURE; a resumption records the reload a second time, and the field check
  (`opensteamer-diagnostic-driver-v2-update-controller.rs:4060`) refuses that journal for
  ever, with the host stopped (`jnl.inits > 1` in `Stranded`), although line 8676 and
  the self test call the state resumable.
- `Gap` above: the coherence table allows the journal to be one record ahead.
- `Diverged` above: an incomplete snapshot is discarded because it does not parse, but
  one cut off exactly behind an earlier record does, as a shorter history
  (`opensteamer-diagnostic-driver-v2-update-controller.rs:3864`). One such write, with
  the host stopped, makes every recovery refuse.
- COMMITTED with a failed write of the state file reports a critical failure while a
  later recovery reports committed. Result files are not written atomically, so a
  torn one makes later recoveries fail although the transaction is settled. A
  prestop abort fails for good if the host was restarted after AUTHENTICATED.

## 6. Proofs

Eight modules hold theorems; all their obligations are proved by SMT, Zenon and, for
the temporal steps, LS4. They hold for every value of the constants: any number of
sockets, generations, attempts, exchanges, crashes and faults. Each theorem is
`Spec => []Inv` or `Spec => Property`, and rests on an inductive invariant (`IInv`; in
`DriverDeliveryProofs` `Inv`) of its module (`Invariance`: `Spec => []IInv`) that TLC checked on the run's bounds
before it was proved.

### RendezvousInvitationProofs

| theorem | states | kind |
|---|---|---|
| `TypeCorrect` | `TypeOK` | invariant |
| `RoleExclusion` | `OneSocketPerRole` | invariant |
| `OrphanFreedom` | `NoOrphanSocket` | invariant |
| `TombstoneSafety` | `TombstoneDeserted` | invariant |
| `ViewerExclusion` | `OneViewerAdmitted` | invariant |
| `AckProgress` | `AckProgressIsCurrent` | invariant |
| `ConsumeOnlyCompleted` | `ConsumeNeedsExchange` | action |
| `AttemptProgress` | `LiveAttemptProgresses` | action |
| `OneUseRefinement` | `ImplementsOneUse` | refinement |

`IInv == TypeOK /\ Good(...) /\ Suspended /\ Usage`. None of the properties is
inductive alone:
- two holders of a role are excluded only because a *closed* socket that still holds
  it is departed by the reconciliation before the occupancy test, and, across an
  await, because the role stays free while a join is suspended (`Suspended`);
- a socket is bound to a live record only if identifiers in use were issued
  (`Issued`), so that a new generation or attempt is fresh;
- acknowledgement progress is current because sequences of the attempt's sockets
  count messages really forwarded in it (`Counted`) and members of an unconsumed
  attempt come in pairs (`PairBound`): a callback of one abandons it for both;
- a legacy invitation admits one viewer because a suspended viewer's invitation is
  still unconsumed (`Suspended`, `Usage`);
- a surviving attempt is not restarted because its two sockets hold both roles
  (`PairHoldsRoles`): every join is refused with nothing to reconcile, every third
  callback is stale, and whatever drops the record closes the pair first.

`Good` is stated of an arbitrary record and socket table, since one join goes
through several of them (reconciled, with a new attempt, rebound, accepted); one lemma
per helper shows it is preserved, one lemma per action puts them together, and
`NextIInv` one case per action. The refinement maps phase, generation and using
attempt to the abstract variables. Assumptions: `ModeAssumption`,
`CrashesAssumption`, `BoundsAssumption`.

### RendezvousAvailabilityProofs

| theorem | states | kind |
|---|---|---|
| `Coherence` | `AttachmentsCoherent` | invariant |
| `ProbeProof` | `ProbeProvesCurrentHost` | action |
| `ExchangeKept` | `LiveExchangeKept` | action |

A replacement host departs the old one, unbinds or closes its viewer and accepts the
newcomer in one handler. The invariant says what survives every such sequence: one
attached socket per role, no attached viewer outside an exchange, everyone open in an
exchange has an attached partner (`Partnered`), and each of two open partners was
forwarded exactly what the other's sequence counts (`InStep`). The handlers' helpers
(departure, pairing, fencing) have one lemma each about an arbitrary table.
Assumptions: `NoSocketAssumption`, `BoundsAssumption`.

### PairingCommitProofs

| theorem | states | kind |
|---|---|---|
| `HalvesMatch` | `RecordsMatch` | invariant |
| `FreshSequences` | `SequencesFresh` | invariant |
| `CommitRecovery` | `CommitsAccepted` | invariant |
| `NoFallback` | `RecordsAdvance` | action |

The four properties compare two disks; what makes them true travels between them.
`IInv` therefore speaks of every place a fact can be at:
- `Records`: what each process works from against what its disk holds (`Works`: the
  same record, or the proposal it had stored before it failed to store the completion), and the two disks against each
  other;
- `Numbering`, `Hellos`, `Confirmations`: participants are issued once, and every
  message on the way names one that its sender really chose;
- `Modes`: when both ends are in one exchange, they are in it for compatible reasons;
- `ToHost`, `ToViewer`: a commit message on the way was sent from a record its
  sender had *stored* by then, and the sequence of a request is above what the host
  has accepted.

One lemma per action shows what it stores and sends (`HostStores`, `HostMaySend`,
`ViewerStores`, `ViewerMaySend`); the conjuncts of `IInv` are then shown from those
alone, so that no case repeats another. `NoFallback` needs the same facts: the
controller may retry from memory older than the disk, and only `Works` bounds how much
older. Assumptions: `PromptAssumption`, `BoundsAssumption`.

### HostMigrationProofs

| theorem | states | kind |
|---|---|---|
| `HostExclusion` | `NeverBothHosts` | invariant |
| `RollbackTruth` | a rollback is possible whenever it may be needed, and a durable ROLLED_BACK is true of both hosts | invariant |
| `ReadinessProved` | `ReadinessFresh` | action |
| `JournalTruth` | `JournalTruthful` | invariant |
| `CutoverRefinement` | `ImplementsCutover` | refinement |

Four layers:
1. The text of the plans: one lemma per plan says what is done at each of its places.
   Everything after it reads the plans through these lemmas only.
2. `IInv`, inductive whatever a failing append leaves behind: the controller is at a
   place of its plan (`Placed`), the journal's control fields agree with what is
   running (`Journal`), and what an earlier operation of the plan did or proved is
   still true (`Facts`).
3. `CInv`, inductive when a failing append does not leave its whole record: no
   rollback runs over a durable commit, and a durable commit stands.
4. The refinement of `HostCutover`, by showing each step is a stutter, an abstract
   begin, commit or revert.

`JournalTruth` and `CutoverRefinement` assume `"kept" \notin AppendFaults`: a failing
append that nevertheless leaves its complete record lets the controller roll back over
a durable commit, and `CommittedStands` is then false. The code does not exclude it
(an `fsync` error after a complete write, `opensteamer-host-migration-controller.rs:2246`);
it is a listed hazard, and `RollbackTruth` states what remains true with it. The
other three theorems hold under every kind. Further assumption:
`MigrationAssumption`.

### PairedUpdatesProofs

| theorem | states | kind |
|---|---|---|
| `HistoryTold` | `HistoryCoherent` | invariant |
| `BaselineKept` | `BaselineInOnePlace` | invariant |
| `StepsAreProved` | `StepsProved` | action |
| `ReleasesImplemented` | `ImplementsReleases` | refinement |

The theorems hold for every subset of the seven controllers (a run can take only a
few), every kind of failing append, and any number of deaths, reboots and faults. The
controllers are read once and compared no further:
1. *Marks.* `ForwardMarks(v)` and `RollbackMarks(v)` give the places of v's plans at
   which something changes that the invariant speaks of. `ForwardTexts` and
   `RollbackTexts` prove, plan by plan, that the marked commands are at the marks and
   nowhere else, and in which order. `BeginNeeds`, `RequestNeeds`, `AppendedIs`,
   `RecordsDue` and the `After...` lemmas do the same for each operator in which the
   controllers differ. Every later lemma is about a controller v with its marks.
2. *History.* `IInv` says what the directories of all versions mean together: at most
   one version is live (pointer published, not committed), everything below it is
   committed and pinned, and what its record and its retained host say of the
   canonical app is true (`Stands`); with none live the app is the newest committed
   one. `Turn(v)` is the same from the running controller's side. It is what makes
   `HistoryCoherent` inductive: a rollback may run over a journal that a torn or kept
   append left behind, so the state alone does not say where the app is.
3. *Place.* `Reached` and `Undone` say what the plan has done to the app and to its
   own directory by the command it is at; `Forward` and `Back` add lock, job, pairing
   and staged host. A rollback starts from wherever the update stopped, so `Undone`
   claims nothing of the app before the mark `restore`.
4. *Steps.* A successful command moves the controller on (`AdvanceStep`); a failing one
   ends it or turns it round, before or after its effect (`FailStep`). `Succeeds`,
   `FailBefore` and `FailAfter` then settle each command from what it writes.
5. *Telling.* Every step also shows `Tells(v)`: only v's directory changed, v is at the
   end of the chain, its journal grew by the command the controller is at or by the
   record of its failure, and a version becomes or ceases to be the committed one only
   through an open transaction. `StepsAreProved` and `ReleasesImplemented` are read off
   it together with `IInv`.

Assumptions: `PairedAssumption`, `ControllersAssumption` (v7 has a module of its own)
and `Requests # "any"`: an operator does not ask for the rollback of an older release
while a newer one is in flight or committed. The code does not enforce it, and
without it `HistoryCoherent` is false (section 5).

### PairedV7Proofs

| theorem | states | kind |
|---|---|---|
| `TypeInvariance` | `TypeOK` | invariant |
| `Restoration` | `RollbackRestoresDriver` | invariant |
| `OnePlace` | `BaselineInOnePlace` | invariant |
| `HostlessMoves` | `MovesHostless` | action |

Two sides (client, proxy, root) work beside the controller, any of them may be late or
die, root may undo the driver by itself, and a proxy may outlive its controller; yet the
previous host never runs over the new driver, and nobody moves a driver or a host under
a running host. `IInv == Types /\ Sides7 /\ Published /\ Controls /\ Placed`:
1. *Sides* (`Sides7`). What a side holds is a plan of its own with commands and markers
   of its own vocabulary, and a marker is sent only after what it announces: when one
   that says the driver is gone is on the way (`Announces`), root has left it.
2. *Publication* (`Published`). While the previous host is installed, the new driver is
   undone for good, or it has not been published and root neither is nor will be asked
   to publish it. The second half is what makes `RollbackRestoresDriver` inductive.
3. *Control* (`Controls`, `Placed`). `Posed` says what the controller's plan has done by
   the command it is at. `Steered` bounds what one command may do to the machine and
   `Turned` what one operation of root may do to the driver; with them each command and
   each operation is read once, and `IInv` is shown from the bound.

One lemma per action then shows the bound of that action, and `NextStep` puts them
together. No assumption on the constants is used: the theorems hold whoever is late,
whoever dies, however an append fails and whenever the operator asks for a rollback.

### PairedV7JournalProofs

| theorem | states | kind |
|---|---|---|
| `CommitSafety` | `CommitKeepsDriver` | invariant |
| `RollbackReadiness` | `RollbackPossible` | invariant |

COMMITTED is durable before root hears COMMIT. From then on the controller may die, the
Mac may restart, a rollback may be asked for again and again, and two proxies, each with
a root half that can undo the driver, go on beside them; the driver still stays. The
module adds three parts to the `IInv` of `PairedV7Proofs`,
`KInv == IInv /\ Penned /\ Lined /\ Committed`:
1. *Pen* (`Penned`). Until it has committed, an update knows the journal exactly
   (`Kept`), because it alone writes to it: its broker's proxy serves or rejects
   (`Meek`), and there is no restore side. A controller that is not late loses its
   proxy only on purpose.
2. *Line* (`Lined`). An update has one command on its way to the broker, or none, and
   with the answer to PREPARE_COMMIT broker and root are at rest over the verified
   driver (`Poised`); that is where the record COMMITTED is written.
3. *Commit* (`Committed`). Behind a durable COMMITTED root is at rest, gone, or has only
   COMMIT to hear (`Keeping`), a restore side has not been asked to restore
   (`Restful`), and no plan of the controller has passed the point where the state it
   read still sends it back (`Settled7`). Not even a torn record can follow but the
   ROLLBACK_STARTED that a rollback's controller is refused.

What a command may do to the journal is read once per action (`Coursed`: `Recorded`,
`Unrecorded`, `Reopened` or beside it; `Spawned`, `Posted`, `Hung`, `Heard` for the
requests), what a step of a proxy may do likewise (`Stepped`). `PennedStep`,
`LinedStep` and `CommittedStep` then show each part from those bounds.

`RollbackPossible` is `TypeInvariance`, `OnePlace` and `JournalReadable`: no order in
which the controller and the two proxies append leaves a record behind that may not
follow the one before it. A proxy opens the journal again for each record, a controller
keeps the state that it read at "reopen"; the danger is a controller that appends from
a state that a proxy has overtaken. That needs `Legible == Penned /\ Viewed /\
parse_v7_journal`, inductive without `Lined` and `Committed`, where `Viewed` says what
each controller that goes back knows of the journal:
- `Unwinding` and `Uncommitting`: until its ROLLBACK request is sent, the proxy is
  `Held`, and the controller's state is the journal's; when the broker is gone, no
  proxy is left;
- `Reverting`: the only record that a controller may have missed is DRIVER_RESTORED
  (`Unread`), and one that still believes in ROLLBACK_STARTED has nothing to append
  (`UnreadAppends`), so that whoever appends knows the journal's end (`KnowsTheEnd`);
  unless the driver is known to be restored or the intent journaled, it is at the
  beginning of an explicit rollback, whose restore side has only been pinged (`Waiting`).

A rollback after a failure has its intent in the journal when it begins (`FallsBack`),
because an update past its preparation is unwound, or its commit undone, before it is
rolled back (`NoWayBack`). `LegibleStepped`, `LegibleRoot`, `LegibleEnvironment`,
`LegibleEntry`, `LegibleAsked` and `LegibleCourse` show the step of each process.

`CommitSafety` assumes "controller" \notin `Slow`, "proxy" \notin `Slow` and "broker"
\notin `Killed`; `RollbackReadiness` assumes "controller" \notin `Slow`,
`Operator = "late"` and "restored" \notin `AppendFaults`. The run `paired_v7` satisfies
the same. Without them the properties are false in the model and, as far as the source
says, in the code (section 3): with any one of the last three given up, TLC finds a
journal that no longer parses within 50000 states.

### DriverDeliveryProofs

| theorem | states | kind |
|---|---|---|
| `KeptDriver` | `DriverKept` | invariant |
| `HostKnows` | `HostSeesInstalledDriver` | invariant |
| `TrueRecords` | `RecordsTrue` | invariant |
| `Once` | `TransactionOnce` | action |

Three user programs, the root processes they leave behind, launchd, Core Audio and any
number of troubles act on one machine. `Inv == RootSound /\ AnswerTrue /\ Programmed`:
1. *Place* (`Placed`). A root process waits at an operation of its plan that applies to
   the journal state it knows; `ForwardAt`, `RollbackAt`, `PrestopAt`, `SettledAt` and
   `PointerlessAt` say what each plan has done to the host, the driver, the journal and
   the sealed files by the operation it is at. `PlansSound` reads the plans once;
   `PlaceAdvance`, `PlaceUnwound` and `PlaceEnter` are the three ways to move.
2. *Truth* (`JournalTrue`). What the journal says, with a pending record that a recovery
   would promote (`Effective`), is true of the driver and of Core Audio. The state of a
   reload under way is the delicate one: after ROLLBACK_COREAUDIO_RELOAD_INITIATED the
   loaded driver is the installed one exactly if Core Audio's generation has passed the
   one recorded, and a rollback that is resumed there decides by that comparison.
3. *Host* (`HostKnowing`). A host runs, *or is loaded so that launchd will start one*,
   only over the driver that Core Audio has loaded. The property speaks of running
   hosts only and is not inductive.
4. *Settling* (`Begun`, `ResultsTrue`, `Lasts`, `Steady`). A settled journal, a sealed
   abort and the results last, and no plan that can still run changes the driver or
   unloads the host.
5. *Programs* (`Programmed`). A root process waits, or has taken its lock, only if the
   recovery controller is sealed; a v2 run that is still staging therefore has none
   beside it, and the stager starts a transaction only while no root state exists.
   With `AnswerTrue` it is what `Once` and the stager's report need.

Each operation has a lemma (`...Sound`) that it keeps 1 to 4; `WorksUpheld`,
`EndsUpheld`, `DiesUpheld`, `StartsUpheld`, `WorldUpheld` and `UserUpheld` put them
together for a root process at work, at its end, its death and its start, for the
machine by itself and for a program's step, and the `...Obeys` lemmas add 5. No
assumption on the constants is used.

### Checked by TLC only

- Liveness (`InvitationsEnd`, `EventuallyPaired`, `PairingFinishes`,
  `ServiceReturns`, `UpdateSettles`, `Settles`, `HostReturns`): fairness and ENABLED
  are outside the prover.
- `Recoverable` of `DriverDelivery`. Its exception `Gap` counts troubles, so an
  invariant for it has to bound, by the troubles spent so far, how far the state file
  is behind the journal at each place of a rollback.

## 7. Not modelled

- Cryptography and encodings: taken as perfect; `RemoteSignalingCrypto` and the
  parsers would be modelled only by restating them.
- The WebRTC peer, capture, encoding, the TCP servers, the iOS views: framework
  calls and sample processing.
- The contents of bundles, signatures, digests and git objects in the controllers: a
  bundle is the reviewed one or not, a file absent, incomplete or exact, a checked
  record intact or not. Their self tests, and the one-off retry-2 recovery command
  and local trial entry points of v7.
- The v1 driver controller's root half, which no run reaches (section 5).
- The local mono trial controller: a one-off trial built on the v7 controller's
  module with a broker protocol of its own. The physical validation oracle: separate
  commands over recorded evidence.
- The media session, the viewer's pairing store, the self-hosted rendezvous, the audio
  device leases and the virtual audio ring: not yet modelled (section 8).

## 8. Plan

1. Done: rendezvous and pairing, the host migration, the paired updates v1 to v8 and
   the driver delivery as models; the proofs of section 6.
2. Next modules: the viewer's pairing store with its two namespaces and partial
   deletion; the media session (suspension coordinator, shared clock epochs, ICE
   recovery); the self-hosted rendezvous; the audio device leases; the virtual audio
   ring at the granularity of its atomic operations; the mono trial's brokers.
3. Abstract specifications worth stating: a durable two-party commit that
   `PairingCommit` implements; an exclusive lease that the device leases implement.
4. Theorem next: `Recoverable` of `DriverDelivery`.
