----------------------------- MODULE PairingCommit -----------------------------
(***************************************************************************)
(* Pairing one Mac (host) with one iPhone (viewer), end to end: the        *)
(* handshake on the one-time invitation, the durable two-sided commit, its *)
(* recovery on the availability channel, and the reconnect requests that   *)
(* follow.  It composes                                                    *)
(*   - RemotePairedDeviceRecord (RemotePairedDevice.swift), the durable    *)
(*     record of each side and its transitions;                            *)
(*   - WorldwidePairingBootstrap and WorldwideHostCoordinator, the host's  *)
(*     event loops;                                                        *)
(*   - WorldwideViewerConnectionCoordinator, the viewer's attempts;        *)
(*   - the signaling clients and the rendezvous channel between them, as   *)
(*     modules RendezvousInvitation and RendezvousAvailability show it.    *)
(*                                                                         *)
(* An event loop handles one event at a time; a handler is one action,     *)
(* split where the code does slow work between two of its effects (the     *)
(* media session a reconnect response waits for, the send before a         *)
(* reconnect request).  A client parses what it receives at once and the   *)
(* loop handles it later, so a send belongs to the channel's latest        *)
(* exchange even if its handler runs for an event of an earlier one.       *)
(*                                                                         *)
(* Data abstraction: a pair is the two ephemeral participants whose        *)
(* transcript it authenticates; signatures and seals are perfect; invitations, *)
(* locators and exchanges are told apart but have no content.              *)
(***************************************************************************)
EXTENDS Naturals, Sequences

CONSTANTS Prompt,          \* TRUE: the viewer is faster than the host's retry delay
          MaxParticipant,  \* bound: handshakes started by either side
          MaxExchange,     \* bound: attempts and exchanges the channels issue
          MaxReconnect,    \* bound: reconnect requests of one record
          MaxFault         \* bound: crashes, failed saves and sends, losses, resets

ASSUME PromptAssumption == Prompt \in BOOLEAN
ASSUME BoundsAssumption == /\ MaxParticipant \in Nat
                           /\ MaxExchange \in Nat
                           /\ MaxReconnect \in Nat
                           /\ MaxFault \in Nat

VARIABLES
  hostDisk,    \* the host's stored record of its paired viewer
  host,        \* the host process
  viewerDisk,  \* the viewer's stored record; pairingState.pairingRecord equals it
  viewer,      \* the viewer's current attempt
  link,        \* the attempt or exchange the channel pairs the two in (0: none)
  toHost,      \* events the host's client holds for its loop, oldest first
  toViewer,    \* events the viewer's client holds for its loop
  count,       \* what was issued so far
  forgotten    \* pairs the user of the viewer has revoked

vars == <<hostDisk, host, viewerDisk, viewer, link, toHost, toViewer, count, forgotten>>

\* What both ends derive from the transcript of the two hellos; 0 is no participant.
NoPair == <<0, 0>>
Pairs == Nat \X Nat

\* RemotePairedDeviceRecord as the host stores it; recovery is recoveryCommit.
HostRecords ==
  [pair : Pairs, state : {"none", "pending", "acceptedReceived", "active"},
   recovery : {"none", "proposal", "completion"}, highest : Nat]

NoHostRecord == [pair |-> NoPair, state |-> "none", recovery |-> "none", highest |-> 0]

\* As the viewer stores it: its recoveryCommit is determined by its state.
ViewerRecords ==
  [pair : Pairs, state : {"none", "pending", "acceptedIssued", "active"}, next : Nat]

NoViewerRecord == [pair |-> NoPair, state |-> "none", next |-> 0]

\* invitation is its first participant; record is pairedRecord, or the bootstrap's;
\* exchange is lifecycle.activeExchangeID; responding is the request whose media
\* session is being started (0: none).
Hosts ==
  [mode : {"down", "bootstrap", "retrying", "availability"}, online : BOOLEAN,
   invitation : Nat, participant : Nat, helloSent : BOOLEAN, agreement : Pairs, record : HostRecords,
   exchange : Nat, responding : Nat]

HostDown ==
  [mode |-> "down", online |-> FALSE, invitation |-> 0, participant |-> 0,
   helloSent |-> FALSE, agreement |-> NoPair, record |-> NoHostRecord, exchange |-> 0,
   responding |-> 0]

\* bound: the record of this bootstrap exists; reconnect and reconnectExchange are
\* the outstanding request; starting: about to begin one; error: how this attempt
\* ended, or for a retry how the attempt before it did.
Viewers ==
  [mode : {"idle", "bootstrap", "availability"}, online : BOOLEAN, participant : Nat,
   helloSent : BOOLEAN, agreement : Pairs, bound : BOOLEAN, exchange : Nat,
   starting : BOOLEAN, reconnect : Nat, reconnectExchange : Nat,
   error : {"none", "transient", "final"}]

ViewerIdle ==
  [mode |-> "idle", online |-> FALSE, participant |-> 0, helloSent |-> FALSE,
   agreement |-> NoPair, bound |-> FALSE, exchange |-> 0, starting |-> FALSE,
   reconnect |-> 0, reconnectExchange |-> 0, error |-> "none"]

CommitPhases == {"proposal", "acknowledgement", "completion", "activation"}
Events ==
  [type : {"ready", "left", "closed", "hello", "request", "response"}, number : Nat]
    \cup [type : CommitPhases \cup {"confirmation"}, pair : Pairs]

\* A hello is its participant, a notice its exchange, a request its sequence.
Numbered(type, n) == [type |-> type, number |-> n]
\* Sealed and signed for the pair of one transcript: another pair refuses it.
Authenticated(type, p) == [type |-> type, pair |-> p]
Closed == Numbered("closed", 0)

Counts == [host : Nat, viewer : Nat, exchange : Nat, fault : Nat]

TypeOK ==
  /\ hostDisk \in HostRecords
  /\ host \in Hosts
  /\ viewerDisk \in ViewerRecords
  /\ viewer \in Viewers
  /\ link \in Nat
  /\ toHost \in Seq(Events)
  /\ toViewer \in Seq(Events)
  /\ count \in Counts
  /\ forgotten \subseteq Pairs

Init ==
  /\ hostDisk = NoHostRecord
  /\ host = HostDown
  /\ viewerDisk = NoViewerRecord
  /\ viewer = ViewerIdle
  /\ link = 0
  /\ toHost = <<>>
  /\ toViewer = <<>>
  /\ count = [host |-> 0, viewer |-> 0, exchange |-> 0, fault |-> 0]
  /\ forgotten = {}

-----------------------------------------------------------------------------
(* RemotePairedDeviceRecord: the transitions of a durable record. *)

PendingHost(p) == [pair |-> p, state |-> "pending", recovery |-> "none", highest |-> 0]
PendingViewer(p) == [pair |-> p, state |-> "pending", next |-> 1]

PrepareProposal(r) == [r EXCEPT !.recovery = "proposal"]

\* Mutant: a replayed acknowledgement starts the commit over.
AcceptAcknowledgementAgain(r) == [r EXCEPT !.state = "acceptedReceived", !.recovery = "none"]

\* Replays leave a record that is past pending alone.
AcceptAcknowledgement(r) ==
  IF r.state = "pending" THEN [r EXCEPT !.state = "acceptedReceived", !.recovery = "none"] ELSE r

\* Mutant: the host is active once it has prepared the completion.
PrepareCompletionActivates(r) ==
  IF r.state = "acceptedReceived" THEN [r EXCEPT !.state = "active", !.recovery = "none"] ELSE r

\* An active record answers a replay without reopening its recovery state.
PrepareCompletion(r) ==
  IF r.state = "acceptedReceived" THEN [r EXCEPT !.recovery = "completion"] ELSE r

AcceptActivation(r) == [r EXCEPT !.state = "active", !.recovery = "none"]

PrepareAcknowledgement(r) == [r EXCEPT !.state = "acceptedIssued"]
AcceptCompletion(r) == [r EXCEPT !.state = "active"]

-----------------------------------------------------------------------------
(* The channel. *)

Spare == count.fault < MaxFault
OneFault == [count EXCEPT !.fault = @ + 1]

\* A send needs the sender's socket and a peer the channel has paired it with;
\* it reaches the peer if the peer's socket is really there.
HostCanSend == host.online /\ link # 0
ViewerCanSend == viewer.online /\ link # 0
ForViewer(out) == IF viewer.online THEN toViewer \o out ELSE toViewer
ForHost(out) == IF host.online THEN toHost \o out ELSE toHost

\* The server has seen that one end is gone and tells the other.
ServerNotices ==
  /\ link # 0
  /\ ~host.online \/ ~viewer.online
  /\ link' = 0
  /\ toHost' = ForHost(<<Numbered("left", link)>>)
  /\ toViewer' = ForViewer(<<Numbered("left", link)>>)
  /\ UNCHANGED <<hostDisk, host, viewerDisk, viewer, count, forgotten>>

-----------------------------------------------------------------------------
(* The host's event loops: what every handler shares. *)

HostEvent(mode, type) ==
  host.mode = mode /\ host.responding = 0 /\ toHost # <<>> /\ Head(toHost).type = type

\* What is stored once the first k of a handler's saves have been made.
Saved(disk, saves, k) == IF k = 0 THEN disk ELSE saves[k]

\* The client is closed.  A bootstrap that fails continues on availability if it
\* left a durable record and stops the host otherwise; the availability loop
\* retries with the record it holds in memory.
HostAfterError(record, disk) ==
  IF host.mode = "availability" THEN [HostDown EXCEPT !.mode = "retrying", !.record = record]
  ELSE IF disk.state = "none" THEN HostDown
  ELSE [HostDown EXCEPT !.mode = "retrying", !.record = disk]

\* A handler stores the records of saves in order, adopts h and sends out.
HostCompletes(saves, h, out) ==
  /\ out # <<>> => HostCanSend
  /\ hostDisk' = Saved(hostDisk, saves, Len(saves))
  /\ host' = h
  /\ toHost' = Tail(toHost)
  /\ toViewer' = ForViewer(out)
  /\ UNCHANGED count

HostSendFails(saves, h, out) ==
  /\ out # <<>>
  /\ IF HostCanSend THEN Spare /\ count' = OneFault ELSE UNCHANGED count
  /\ hostDisk' = Saved(hostDisk, saves, Len(saves))
  /\ host' = HostAfterError(h.record, hostDisk')
  /\ toHost' = <<>>
  /\ UNCHANGED toViewer

\* A sent completion is stored once more (markCompletionSent changes nothing);
\* that save fails.
HostMarkFails(saves, h, out) ==
  /\ HostCanSend /\ Spare
  /\ out # <<>> /\ Head(out).type = "completion"
  /\ count' = OneFault
  /\ hostDisk' = Saved(hostDisk, saves, Len(saves))
  /\ host' = HostAfterError(h.record, hostDisk')
  /\ toHost' = <<>>
  /\ toViewer' = ForViewer(out)

\* The save after the first k fails: the record in memory is still the old one.
HostSaveFails(saves, k) ==
  /\ Spare
  /\ count' = OneFault
  /\ hostDisk' = Saved(hostDisk, saves, k)
  /\ host' = HostAfterError(host.record, hostDisk')
  /\ toHost' = <<>>
  /\ UNCHANGED toViewer

\* The process is lost after the first k saves, before anything is sent.
HostDies(saves, k) ==
  /\ Spare
  /\ count' = OneFault
  /\ hostDisk' = Saved(hostDisk, saves, k)
  /\ host' = HostDown
  /\ toHost' = <<>>
  /\ UNCHANGED toViewer

HostDoes(saves, h, out) ==
  /\ \/ HostCompletes(saves, h, out)
     \/ HostSendFails(saves, h, out)
     \/ HostMarkFails(saves, h, out)
     \/ \E k \in 1..Len(saves) : HostSaveFails(saves, k - 1) \/ HostDies(saves, k)
  /\ UNCHANGED <<viewerDisk, viewer, link, forgotten>>

\* An unexpected or unauthentic message ends the loop's connection.
HostThrows ==
  /\ host' = HostAfterError(host.record, hostDisk)
  /\ toHost' = <<>>
  /\ UNCHANGED <<hostDisk, viewerDisk, viewer, link, toViewer, count, forgotten>>

-----------------------------------------------------------------------------
(* WorldwidePairingBootstrap: the handshake and the first commit attempt. *)

BootstrapReady ==
  /\ HostEvent("bootstrap", "ready")
  /\ IF host.helloSent THEN HostDoes(<<>>, host, <<>>)
     ELSE HostDoes(<<>>, [host EXCEPT !.helloSent = TRUE],
                   <<Numbered("hello", host.participant)>>)

ExpectsHello == host.helloSent /\ host.agreement = NoPair /\ host.record.state = "none"

BootstrapHello ==
  /\ HostEvent("bootstrap", "hello")
  /\ LET p == <<host.participant, Head(toHost).number>>
     IN  IF ExpectsHello
         THEN HostDoes(<<>>, [host EXCEPT !.agreement = p], <<Authenticated("confirmation", p)>>)
         ELSE HostThrows

ExpectsConfirmation(p) == host.agreement = p /\ host.record.state = "none"

BootstrapConfirmation ==
  /\ HostEvent("bootstrap", "confirmation")
  /\ LET p == Head(toHost).pair
         r == PrepareProposal(PendingHost(p))
     IN  IF ExpectsConfirmation(p)
         THEN HostDoes(<<PendingHost(p), r>>, [host EXCEPT !.record = r],
                       <<Authenticated("proposal", p)>>)
         ELSE HostThrows

\* Both loops: the acknowledgement and the completion are stored one after the
\* other before the completion is sent.
AcknowledgementSaves(r) ==
  <<AcceptAcknowledgement(r), PrepareCompletion(AcceptAcknowledgement(r))>>

AnswerAcknowledgement ==
  LET saves == AcknowledgementSaves(host.record)
  IN  HostDoes(saves, [host EXCEPT !.record = saves[2]],
               <<Authenticated("completion", host.record.pair)>>)

\* Mutant: a second acknowledgement is refused until the commit is complete.
AcknowledgementStatesOnce(mode) ==
  IF mode = "bootstrap" THEN {"pending"} ELSE {"pending", "active"}

AcknowledgementStates(mode) ==
  IF mode = "bootstrap" THEN {"pending", "acceptedReceived"}
                        ELSE {"pending", "acceptedReceived", "active"}

BootstrapAcknowledgement ==
  /\ HostEvent("bootstrap", "acknowledgement")
  /\ IF /\ host.record.pair = Head(toHost).pair
        /\ host.record.state \in AcknowledgementStates("bootstrap")
     THEN AnswerAcknowledgement ELSE HostThrows

AcceptsActivation(r, p) == r.pair = p /\ r.state \in {"acceptedReceived", "active"}

\* The commit is complete: the client is closed and availability begins.
BootstrapActivation ==
  /\ HostEvent("bootstrap", "activation")
  /\ LET r == AcceptActivation(host.record)
     IN  IF AcceptsActivation(host.record, Head(toHost).pair)
         THEN \/ /\ hostDisk' = r
                 /\ host' = [HostDown EXCEPT !.mode = "retrying", !.record = r]
                 /\ toHost' = <<>>
                 /\ UNCHANGED <<viewerDisk, viewer, link, toViewer, count, forgotten>>
              \/ /\ HostSaveFails(<<r>>, 0) \/ HostDies(<<r>>, 1)
                 /\ UNCHANGED <<viewerDisk, viewer, link, forgotten>>
         ELSE HostThrows

\* Without a record the invitation waits for a fresh handshake.
BootstrapLeft ==
  /\ HostEvent("bootstrap", "left")
  /\ IF host.record.state = "none"
     THEN /\ count.host < MaxParticipant
          /\ count' = [count EXCEPT !.host = @ + 1]
          /\ host' = [host EXCEPT !.participant = count.host + 1, !.helloSent = FALSE,
                                  !.agreement = NoPair]
          /\ toHost' = Tail(toHost)
          /\ UNCHANGED <<hostDisk, viewerDisk, viewer, link, toViewer, forgotten>>
     ELSE HostThrows

HostClosed ==
  /\ host.responding = 0
  /\ toHost # <<>> /\ Head(toHost).type = "closed"
  /\ HostThrows

-----------------------------------------------------------------------------
(* WorldwideHostCoordinator: availability, commit recovery and reconnects. *)

\* The commit an interrupted pairing owes its peer, prepared if it was not stored.
Recovered(r) ==
  IF r.state = "pending" THEN PrepareProposal(r)
  ELSE IF r.state = "acceptedReceived" THEN PrepareCompletion(r) ELSE r

RecoverySaves(r) == IF Recovered(r) = r THEN <<>> ELSE <<Recovered(r)>>

\* Mutant: the host waits for the viewer to resume an interrupted commit.
RecoveryCommitUnsent(r) == <<>>

RecoveryCommit(r) ==
  IF r.state = "active" THEN <<>> ELSE <<Authenticated(Recovered(r).recovery, r.pair)>>

AvailabilityReady ==
  /\ HostEvent("availability", "ready")
  /\ HostDoes(RecoverySaves(host.record),
              [host EXCEPT !.exchange = Head(toHost).number, !.record = Recovered(@)],
              RecoveryCommit(host.record))

AvailabilityAcknowledgement ==
  /\ HostEvent("availability", "acknowledgement")
  /\ IF /\ host.record.pair = Head(toHost).pair
        /\ host.record.state \in AcknowledgementStates("availability")
     THEN AnswerAcknowledgement ELSE HostThrows

AvailabilityActivation ==
  /\ HostEvent("availability", "activation")
  /\ LET r == AcceptActivation(host.record)
     IN  IF AcceptsActivation(host.record, Head(toHost).pair)
         THEN HostDoes(<<r>>, [host EXCEPT !.record = r], <<>>) ELSE HostThrows

AcceptsRequest(r, n) == host.exchange # 0 /\ r.state = "active" /\ n > r.highest

\* The high-water mark is stored; then the old media session is stopped and a new
\* one started, and only then is the response sent.
AvailabilityRequest ==
  /\ HostEvent("availability", "request")
  /\ LET n == Head(toHost).number
         r == [host.record EXCEPT !.highest = n]
     IN  IF AcceptsRequest(host.record, n)
         THEN HostDoes(<<r>>, [host EXCEPT !.record = r, !.responding = n], <<>>)
         ELSE HostThrows

\* The media session could not be started, or the response could not be sent.
HostCannotRespond ==
  /\ host.responding # 0
  /\ IF HostCanSend THEN Spare /\ count' = OneFault ELSE UNCHANGED count
  /\ host' = HostAfterError(host.record, hostDisk)
  /\ toHost' = <<>>
  /\ UNCHANGED <<hostDisk, viewerDisk, viewer, link, toViewer, forgotten>>

HostResponds ==
  /\ host.responding # 0
  /\ HostCanSend
  /\ toViewer' = ForViewer(<<Numbered("response", host.responding)>>)
  /\ host' = [host EXCEPT !.responding = 0]
  /\ UNCHANGED <<hostDisk, viewerDisk, viewer, link, toHost, count, forgotten>>

AvailabilityLeft ==
  /\ HostEvent("availability", "left")
  /\ HostDoes(<<>>, [host EXCEPT !.exchange =
                       IF @ = Head(toHost).number THEN 0 ELSE @], <<>>)

-----------------------------------------------------------------------------
(* The host process and its connection. *)

\* start(resetPairing): a stored record goes to availability, none to an invitation.
HostStarts(reset) ==
  LET disk == IF reset THEN NoHostRecord ELSE hostDisk
  IN  /\ host.mode = "down"
      /\ reset => Spare /\ hostDisk.state # "none"
      /\ hostDisk' = disk
      /\ IF disk.state = "none"
         THEN /\ count.host < MaxParticipant
              /\ host' = [HostDown EXCEPT !.mode = "bootstrap", !.online = TRUE,
                                          !.invitation = count.host + 1,
                                          !.participant = count.host + 1]
              /\ count' = [count EXCEPT !.host = @ + 1, !.fault = IF reset THEN @ + 1 ELSE @]
              /\ link' = 0
              /\ toViewer' = IF link = 0 THEN toViewer ELSE ForViewer(<<Numbered("left", link)>>)
         ELSE /\ host' = [HostDown EXCEPT !.mode = "retrying", !.record = disk]
              /\ UNCHANGED <<link, toViewer, count>>
      /\ UNCHANGED <<viewerDisk, viewer, toHost, forgotten>>

SamePair == host.record.pair = viewerDisk.pair

\* Both ends get the event that pairs them in a fresh attempt or exchange.
Pairing ==
  /\ count.exchange < MaxExchange
  /\ link' = count.exchange + 1

\* A viewer whose socket is still open, paired with the host's earlier one or not, is
\* paired with the new one; otherwise the host waits.  The loop sleeps before it gets here:
\* Prompt says that by then the viewer has handled what its client held.
HostConnects ==
  /\ host.mode = "retrying"
  /\ Prompt => toViewer = <<>> /\ ~viewer.starting
  /\ host' = [host EXCEPT !.mode = "availability", !.online = TRUE]
  /\ IF viewer.mode = "availability" /\ viewer.online /\ SamePair
     THEN /\ Pairing
          /\ toHost' = <<Numbered("ready", link')>>
          /\ toViewer' = Append(toViewer, Numbered("ready", link'))
          /\ count' = [count EXCEPT !.exchange = @ + 1]
     ELSE /\ link' = 0
          /\ toHost' = <<>>
          /\ toViewer' = IF link = 0 THEN toViewer ELSE ForViewer(<<Numbered("left", link)>>)
          /\ UNCHANGED count
  /\ UNCHANGED <<hostDisk, viewerDisk, viewer, forgotten>>

\* The stream of a lost connection still delivers what the client had parsed.
HostLosesConnection ==
  /\ host.online /\ Spare
  /\ host' = [host EXCEPT !.online = FALSE]
  /\ toHost' = Append(toHost, Closed)
  /\ count' = OneFault
  /\ UNCHANGED <<hostDisk, viewerDisk, viewer, link, toViewer, forgotten>>

HostCrashes ==
  /\ host.mode # "down" /\ Spare
  /\ host' = HostDown
  /\ toHost' = <<>>
  /\ count' = OneFault
  /\ UNCHANGED <<hostDisk, viewerDisk, viewer, link, toViewer, forgotten>>

-----------------------------------------------------------------------------
(* The viewer's attempts: what every handler shares. *)

ViewerEvent(mode, type) ==
  viewer.mode = mode /\ ~viewer.starting /\ toViewer # <<>> /\ Head(toViewer).type = type

\* The attempt ends; only a transient error is retried without the user.
ViewerFails(error) ==
  /\ viewer' = [ViewerIdle EXCEPT !.error = error]
  /\ toViewer' = <<>>

\* A handler stores the records of saves (at most one), adopts v and sends out.
ViewerCompletes(saves, v, out) ==
  /\ out # <<>> => ViewerCanSend
  /\ viewerDisk' = Saved(viewerDisk, saves, Len(saves))
  /\ viewer' = v
  /\ toHost' = ForHost(out)
  /\ UNCHANGED count

ViewerSendFails(saves, out) ==
  /\ out # <<>>
  /\ IF ViewerCanSend THEN Spare /\ count' = OneFault ELSE UNCHANGED count
  /\ viewerDisk' = Saved(viewerDisk, saves, Len(saves))
  /\ ViewerFails("transient")
  /\ UNCHANGED toHost

\* The save fails, or the process is lost right after it.
ViewerStops(saves, k) ==
  /\ Spare
  /\ count' = OneFault
  /\ viewerDisk' = Saved(viewerDisk, saves, k)
  /\ ViewerFails(IF k = 0 THEN "final" ELSE "none")
  /\ UNCHANGED toHost

ViewerDoes(saves, v, out) ==
  /\ \/ ViewerCompletes(saves, v, out) /\ toViewer' = Tail(toViewer)
     \/ ViewerSendFails(saves, out)
     \/ \E k \in 0..Len(saves) : saves # <<>> /\ ViewerStops(saves, k)
  /\ UNCHANGED <<hostDisk, host, link, forgotten>>

ViewerThrows(error) ==
  /\ ViewerFails(error)
  /\ UNCHANGED <<hostDisk, host, viewerDisk, link, toHost, count, forgotten>>

-----------------------------------------------------------------------------
(* bootstrapPairing. *)

ViewerReady ==
  /\ ViewerEvent("bootstrap", "ready")
  /\ IF viewer.helloSent THEN ViewerDoes(<<>>, viewer, <<>>)
     ELSE ViewerDoes(<<>>, [viewer EXCEPT !.helloSent = TRUE],
                     <<Numbered("hello", viewer.participant)>>)

ViewerHello ==
  /\ ViewerEvent("bootstrap", "hello")
  /\ IF viewer.helloSent /\ viewer.agreement = NoPair /\ ~viewer.bound
     THEN ViewerDoes(<<>>, [viewer EXCEPT !.agreement =
                              <<Head(toViewer).number, viewer.participant>>], <<>>)
     ELSE ViewerThrows("final")

\* The viewer's record is durable before its confirmation lets the host make one.
ViewerConfirmation ==
  /\ ViewerEvent("bootstrap", "confirmation")
  /\ LET p == Head(toViewer).pair
     IN  IF viewer.agreement = p /\ ~viewer.bound
         THEN ViewerDoes(<<PendingViewer(p)>>, [viewer EXCEPT !.bound = TRUE],
                         <<Authenticated("confirmation", p)>>)
         ELSE ViewerThrows("final")

\* Either channel: the acknowledged state is durable before every transmission.
AnswerProposal ==
  IF viewerDisk.pair = Head(toViewer).pair /\ viewerDisk.state \in {"pending", "acceptedIssued"}
  THEN ViewerDoes(<<PrepareAcknowledgement(viewerDisk)>>, viewer,
                  <<Authenticated("acknowledgement", viewerDisk.pair)>>)
  ELSE ViewerThrows("final")

ViewerProposal ==
  /\ ViewerEvent("bootstrap", "proposal")
  /\ IF viewer.bound THEN AnswerProposal ELSE ViewerThrows("final")

\* The active record is durable before the host is told; then the attempt is over.
ViewerCompletion ==
  /\ ViewerEvent("bootstrap", "completion")
  /\ IF /\ viewer.bound /\ viewerDisk.pair = Head(toViewer).pair
        /\ viewerDisk.state = "acceptedIssued"
     THEN /\ \/ /\ ViewerCompletes(<<AcceptCompletion(viewerDisk)>>, ViewerIdle,
                                  <<Authenticated("activation", viewerDisk.pair)>>)
                /\ toViewer' = <<>>
             \/ ViewerSendFails(<<AcceptCompletion(viewerDisk)>>,
                                <<Authenticated("activation", viewerDisk.pair)>>)
             \/ \E k \in 0..1 : ViewerStops(<<AcceptCompletion(viewerDisk)>>, k)
          /\ UNCHANGED <<hostDisk, host, link, forgotten>>
     ELSE ViewerThrows("final")

\* The peer left, or the client was closed by a deadline or the network.
ViewerLeft ==
  /\ viewer.mode # "idle" /\ ~viewer.starting
  /\ toViewer # <<>> /\ Head(toViewer).type \in {"left", "closed"}
  /\ ViewerThrows("transient")

-----------------------------------------------------------------------------
(* prepareMediaSessionAttempt. *)

\* What an attempt sends when it is paired, by the state of its record.
ReadyCommit ==
  CASE viewerDisk.state = "acceptedIssued" -> <<Authenticated("acknowledgement", viewerDisk.pair)>>
    [] viewerDisk.state = "active" -> <<Authenticated("activation", viewerDisk.pair)>>
    [] OTHER -> <<>>

AttemptReady ==
  /\ ViewerEvent("availability", "ready")
  /\ LET x == Head(toViewer).number
     IN  ViewerDoes(<<>>, [viewer EXCEPT !.exchange = x,
                             !.starting = viewerDisk.state = "active"
                                          /\ viewer.reconnectExchange # x,
                             !.reconnect = IF viewer.reconnectExchange = x THEN @ ELSE 0],
                    ReadyCommit)

AttemptProposal ==
  /\ ViewerEvent("availability", "proposal")
  /\ AnswerProposal

AttemptCompletion ==
  /\ ViewerEvent("availability", "completion")
  /\ IF /\ viewerDisk.pair = Head(toViewer).pair
        /\ viewerDisk.state \in {"acceptedIssued", "active"}
     THEN ViewerDoes(<<AcceptCompletion(viewerDisk)>>,
                     [viewer EXCEPT !.starting = viewer.reconnect = 0],
                     <<Authenticated("activation", viewerDisk.pair)>>)
     ELSE ViewerThrows("final")

\* Mutant: the advanced counter is only kept in memory.
BeginReconnectUnsaved(r) == r

\* beginReconnect: the next sequence is durable before the request is sent.
BeginReconnect(r) == [r EXCEPT !.next = @ + 1]

AttemptRequests ==
  LET n == viewerDisk.next
      v == [viewer EXCEPT !.starting = FALSE, !.reconnect = n,
                          !.reconnectExchange = viewer.exchange]
  IN  /\ viewer.starting
      /\ n <= MaxReconnect
      /\ \/ ViewerCompletes(<<BeginReconnect(viewerDisk)>>, v, <<Numbered("request", n)>>)
              /\ UNCHANGED toViewer
         \/ ViewerSendFails(<<BeginReconnect(viewerDisk)>>, <<Numbered("request", n)>>)
         \/ \E k \in 0..1 : ViewerStops(<<BeginReconnect(viewerDisk)>>, k)
      /\ UNCHANGED <<hostDisk, host, link, forgotten>>

\* complete(with:) authenticates the response to the outstanding request only;
\* either way the attempt is over.
AttemptResponse ==
  /\ ViewerEvent("availability", "response")
  /\ ViewerThrows(IF viewer.reconnect # 0 /\ Head(toViewer).number = viewer.reconnect
                  THEN "none" ELSE "final")

-----------------------------------------------------------------------------
(* The viewer's connections and its user. *)

\* A code is entered only without a record; an unfinished record retries the saved
\* code of the invitation it was made in.
HasInvitation ==
  \/ viewerDisk.state = "none"
  \/ viewerDisk.state # "active" /\ viewerDisk.pair[1] >= host.invitation

\* The invitation is joined while the host waits on it with nobody else, until the
\* completion has consumed it.
ViewerJoinsInvitation ==
  /\ viewer.mode = "idle"
  /\ HasInvitation
  /\ host.mode = "bootstrap" /\ host.online /\ link = 0
  /\ host.record.state \in {"none", "pending"}
  /\ count.viewer < MaxParticipant
  /\ Pairing
  /\ viewer' = [ViewerIdle EXCEPT !.mode = "bootstrap", !.online = TRUE,
                                  !.participant = count.viewer + 1]
  /\ toHost' = Append(toHost, Numbered("ready", link'))
  /\ toViewer' = <<Numbered("ready", link')>>
  /\ count' = [count EXCEPT !.viewer = @ + 1, !.exchange = @ + 1]
  /\ UNCHANGED <<hostDisk, host, viewerDisk, forgotten>>

HostAvailable == host.mode = "availability" /\ host.online /\ SamePair

\* The channel pairs a host that is free at once.  After a transient error this is
\* the operation's own retry.
ViewerJoinsAvailability ==
  /\ viewer.mode = "idle"
  /\ viewerDisk.state # "none"
  /\ HostAvailable /\ link = 0
  /\ Pairing
  /\ viewer' = [ViewerIdle EXCEPT !.mode = "availability", !.online = TRUE,
                   !.error = IF viewer.error = "transient" THEN "transient" ELSE "none"]
  /\ toHost' = Append(toHost, Numbered("ready", link'))
  /\ toViewer' = <<Numbered("ready", link')>>
  /\ count' = [count EXCEPT !.exchange = @ + 1]
  /\ UNCHANGED <<hostDisk, host, viewerDisk, forgotten>>

\* No host is there to be paired with: the channel refuses the viewer, which waits
\* out its retry delay.
ViewerRefused ==
  /\ viewer.mode = "idle"
  /\ viewerDisk.state # "none"
  /\ ~HostAvailable
  /\ viewer' = [ViewerIdle EXCEPT !.error = "transient"]
  /\ UNCHANGED <<hostDisk, host, viewerDisk, link, toHost, toViewer, count, forgotten>>

\* The host still counts as paired with the viewer's earlier socket: the channel
\* makes it register again, and the viewer retries.
ViewerForcesReset ==
  /\ viewer.mode = "idle"
  /\ viewerDisk.state # "none"
  /\ HostAvailable /\ link # 0
  /\ host' = [host EXCEPT !.online = FALSE]
  /\ toHost' = Append(toHost, Closed)
  /\ link' = 0
  /\ viewer' = [ViewerIdle EXCEPT !.error = "transient"]
  /\ UNCHANGED <<hostDisk, viewerDisk, toViewer, count, forgotten>>

\* A response deadline, the attempt's deadline or the network closes the client;
\* what it had parsed is still handled.
ViewerLosesConnection ==
  /\ viewer.online /\ Spare
  /\ viewer' = [viewer EXCEPT !.online = FALSE]
  /\ toViewer' = Append(toViewer, Closed)
  /\ count' = OneFault
  /\ UNCHANGED <<hostDisk, host, viewerDisk, link, toHost, forgotten>>

\* The process is lost or the user cancels.
ViewerAbandons ==
  /\ viewer.mode # "idle" /\ Spare
  /\ viewer' = ViewerIdle
  /\ toViewer' = <<>>
  /\ count' = OneFault
  /\ UNCHANGED <<hostDisk, host, viewerDisk, link, toHost, forgotten>>

\* forgetPairedMac, after cancelling any attempt.
ViewerForgets ==
  /\ viewerDisk.state # "none" /\ Spare
  /\ viewer' = ViewerIdle
  /\ viewerDisk' = NoViewerRecord
  /\ forgotten' = forgotten \cup {viewerDisk.pair}
  /\ toViewer' = <<>>
  /\ count' = OneFault
  /\ UNCHANGED <<hostDisk, host, link, toHost>>

-----------------------------------------------------------------------------
HostHandles ==
  \/ BootstrapReady \/ BootstrapHello \/ BootstrapConfirmation \/ BootstrapAcknowledgement
  \/ BootstrapActivation \/ BootstrapLeft \/ HostClosed
  \/ AvailabilityReady \/ AvailabilityAcknowledgement \/ AvailabilityActivation
  \/ AvailabilityRequest \/ HostResponds \/ HostCannotRespond \/ AvailabilityLeft

ViewerHandles ==
  \/ ViewerReady \/ ViewerHello \/ ViewerConfirmation \/ ViewerProposal \/ ViewerCompletion
  \/ ViewerLeft
  \/ AttemptReady \/ AttemptProposal \/ AttemptCompletion \/ AttemptRequests \/ AttemptResponse

Next ==
  \/ HostHandles \/ ViewerHandles \/ ServerNotices
  \/ \E reset \in BOOLEAN : HostStarts(reset)
  \/ HostConnects \/ HostLosesConnection \/ HostCrashes
  \/ ViewerJoinsInvitation \/ ViewerJoinsAvailability \/ ViewerForcesReset
  \/ ViewerRefused \/ ViewerLosesConnection \/ ViewerAbandons \/ ViewerForgets

Spec == Init /\ [][Next]_vars

(***************************************************************************)
(* Both loops handle what they hold; the server notices a lost end; the    *)
(* host's process is restarted and its availability loop never gives up;   *)
(* a viewer with a record tries again (by itself after a transient error,  *)
(* by its user otherwise).  Nobody is obliged to use an invitation.        *)
(***************************************************************************)
Fairness ==
  /\ WF_vars(HostHandles)
  /\ WF_vars(ViewerHandles)
  /\ WF_vars(ServerNotices)
  /\ WF_vars(HostStarts(FALSE))
  /\ WF_vars(HostConnects)
  /\ WF_vars(ViewerJoinsAvailability \/ ViewerForcesReset)

FairSpec == Spec /\ Fairness

-----------------------------------------------------------------------------
(* Properties. *)

Kept(p) == p # NoPair /\ p \notin forgotten

\* Every record the host has stored, at whatever phase it was interrupted, has the
\* matching durable record at the viewer that can resume it: no later handshake
\* replaces the viewer's half while the host keeps its own.
HostRecordHasPeer == Kept(hostDisk.pair) => viewerDisk.pair = hostDisk.pair

\* The two records of a pair are never out of commit order: the host is active
\* only if the viewer durably is, a viewer is active only if the host can still
\* prove the completion, and has acknowledged only a proposal that is stored.
CommitOrder ==
  Kept(hostDisk.pair) =>
    /\ hostDisk.state = "active" => viewerDisk.state = "active"
    /\ hostDisk.state = "acceptedReceived" => viewerDisk.state \in {"acceptedIssued", "active"}
    /\ viewerDisk.state = "active" =>
         hostDisk.state = "active" \/ hostDisk.recovery = "completion"
    /\ viewerDisk.state = "acceptedIssued" => <<hostDisk.state, hostDisk.recovery>> # <<"pending", "none">>

\* Whatever save, send or await was interrupted last, the two durable records
\* are halves of one pairing that can be resumed.
RecordsMatch == TypeOK /\ HostRecordHasPeer /\ CommitOrder

\* The viewer never reuses a reconnect sequence the host has accepted, nor sends
\* one it could send again after a crash: the next one is above the host's mark
\* and above every request on the way.
SequencesFresh ==
  Kept(hostDisk.pair) =>
    /\ viewerDisk.next > hostDisk.highest
    /\ \A i \in DOMAIN toHost : toHost[i].type = "request" => viewerDisk.next > toHost[i].number

\* On availability no commit of an honest peer is ever refused, however often it
\* was resent and however far the receiver has come since it was sent.
CommitsAccepted ==
  /\ host.mode = "availability" /\ toHost # <<>> =>
       /\ Head(toHost).type = "acknowledgement" =>
            host.record.state \in AcknowledgementStates("availability")
       /\ Head(toHost).type = "activation" => AcceptsActivation(host.record, Head(toHost).pair)
  /\ viewer.mode = "availability" /\ toViewer # <<>> =>
       /\ Head(toViewer).type = "proposal" => viewerDisk.state \in {"pending", "acceptedIssued"}
       /\ Head(toViewer).type = "completion" => viewerDisk.state \in {"acceptedIssued", "active"}

HostRank(r) ==
  CASE r.state = "active" -> 5
    [] r.state = "acceptedReceived" -> IF r.recovery = "completion" THEN 4 ELSE 3
    [] r.state = "pending" -> IF r.recovery = "proposal" THEN 2 ELSE 1
    [] OTHER -> 0

ViewerRank(r) ==
  CASE r.state = "active" -> 3 [] r.state = "acceptedIssued" -> 2
    [] r.state = "pending" -> 1 [] OTHER -> 0

\* No stored record of a pair falls back to an earlier phase or a lower sequence,
\* although the host retries from a record in memory that may be older.
RecordsAdvance ==
  [][ /\ hostDisk'.pair = hostDisk.pair =>
           HostRank(hostDisk') >= HostRank(hostDisk) /\ hostDisk'.highest >= hostDisk.highest
      /\ viewerDisk'.pair = viewerDisk.pair =>
           ViewerRank(viewerDisk') >= ViewerRank(viewerDisk) /\ viewerDisk'.next >= viewerDisk.next
    ]_vars

\* What the comment on makeReconnectResponseDeadlineTask says: closing the attempt
\* turns a silent response into a recoverable failure, so that the outer loop sends
\* another request.  Then the retry is not ended for good by the response that
\* stayed away from the attempt before it.
SilentResponseRecoverable ==
  [][ AttemptResponse /\ viewer.error = "transient" => viewer'.error # "final" ]_vars

Committed(p) ==
  /\ hostDisk.pair = p /\ hostDisk.state = "active"
  /\ viewerDisk.pair = p /\ viewerDisk.state = "active"

\* A pairing the host has begun to store is finished on both sides once faults
\* stop, unless it is revoked.
PairingFinishes ==
  \A p \in (1..MaxParticipant) \X (1..MaxParticipant) :
    hostDisk.pair = p ~> (Committed(p) \/ hostDisk.pair # p \/ p \in forgotten)
=============================================================================
