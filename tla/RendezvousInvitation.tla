------------------------- MODULE RendezvousInvitation -------------------------
(***************************************************************************)
(* The Durable Object of one invitation or pairing channel: the class      *)
(* RendezvousSession of services/RendezvousWorker/src/index.js, without    *)
(* its availability half (module RendezvousAvailability).                  *)
(*                                                                         *)
(* Joins, invitation messages and close callbacks run one at a time on the *)
(* object's mutationQueue, so each is one action here.  The exceptions are *)
(* the code's own: a legacy join awaits TURN credentials in the middle     *)
(* (JoinAwaitsICE ... ICEArrives), and alarm() does not use the queue.     *)
(* Every handler ends with the in-memory record equal to the stored one,   *)
(* so one variable stands for both and hibernation is a stuttering step.   *)
(* The runtime delivers nothing to the object while it awaits its own      *)
(* storage, so those awaits are not interleaving points; an actor lost at  *)
(* one, between a storage write and the rest of its handler, is the        *)
(* handler's own ...Lost action, enabled when Crashes is TRUE.             *)
(*                                                                         *)
(* Data abstraction: UUIDs are counters with 0 for null; the clock is the  *)
(* fact that the record's current deadline has passed; a message is either *)
(* well formed with the expected sequence or not.  A rejected socket (role *)
(* "rejected") never touches the record again, so a rejection only leaves  *)
(* the changes made before it; HTTP refusals (wrong proof, wrong channel)  *)
(* change nothing and are not actions.                                     *)
(***************************************************************************)
EXTENDS Naturals

CONSTANTS Sockets,        \* identities of the server ends of WebSockets
          Mode,           \* the object's mode: "invitation" or "pairing"
          Crashes,        \* TRUE: the actor may be lost inside a handler
          MaxGeneration,  \* bound: invitations issued on the channel
          MaxAttempt,     \* bound: pairing attempts started
          MaxSequence     \* bound: messages forwarded per socket and attempt

ASSUME ModeAssumption == Mode \in {"invitation", "pairing"}
ASSUME CrashesAssumption == Crashes \in BOOLEAN
ASSUME BoundsAssumption == /\ MaxGeneration \in Nat
                           /\ MaxAttempt \in Nat
                           /\ MaxSequence \in Nat

VARIABLES
  invitation,      \* this.invitation and its stored copy
  sock,            \* the sockets: readyState and serialized attachment
  joining,         \* the join suspended in iceServersForJoin, if any
  alarmSet,        \* which deadline the object's single alarm is set for
  lastGeneration,  \* generations issued so far (crypto.randomUUID)
  lastAttempt,     \* pairing attempts issued so far (crypto.randomUUID)
  hist             \* history: what was forwarded and admitted

vars == <<invitation, sock, joining, alarmSet, lastGeneration, lastAttempt, hist>>

Roles == {"host", "viewer"}

Opposite(role) == IF role = "host" THEN "viewer" ELSE "host"

(***************************************************************************)
(* The stored record.  phase folds `consumed` and `retireAt`: "open" is    *)
(* unconsumed, "consumed" has retireAt = null, "retiring" has a retireAt.  *)
(* late: Date.now() has reached expiresAt (open) or retireAt (retiring).   *)
(***************************************************************************)
Invitations ==
  [phase : {"absent", "open", "consumed", "retiring"}, generation : Nat,
   viewerAckForwarded : BOOLEAN, pairingAttemptID : Nat, late : BOOLEAN]

NoInvitation ==
  [phase |-> "absent", generation |-> 0, viewerAckForwarded |-> FALSE,
   pairingAttemptID |-> 0, late |-> FALSE]

NewInvitation(g) ==
  [phase |-> "open", generation |-> g, viewerAckForwarded |-> FALSE,
   pairingAttemptID |-> 0, late |-> FALSE]

Attachments ==
  [state : {"free", "open", "closing", "closed"}, role : Roles \cup {"none"},
   generation : Nat, pairingAttemptID : Nat, nextSequence : Nat, departed : BOOLEAN]

FreeSocket ==
  [state |-> "free", role |-> "none", generation |-> 0, pairingAttemptID |-> 0,
   nextSequence |-> 0, departed |-> FALSE]

\* newAttachment and acceptWebSocket: an open socket at sequence 0.
NewAttachment(role, g, attempt) ==
  [state |-> "open", role |-> role, generation |-> g, pairingAttemptID |-> attempt,
   nextSequence |-> 0, departed |-> FALSE]

NotJoining == [role |-> "none", generation |-> 0]

\* What was forwarded in the latest attempt (3: three or more), how many viewers
\* the invitation admitted, and the attempt that used it up.
Histories ==
  [attempt : Nat, host : 0..3, viewer : 0..3, admitted : Nat, usedBy : Nat]

TypeOK ==
  /\ invitation \in Invitations
  /\ sock \in [Sockets -> Attachments]
  /\ joining \in [role : Roles \cup {"none"}, generation : Nat]
  /\ alarmSet \in {"none", "expiry", "retire", "stale"}
  /\ lastGeneration \in Nat
  /\ lastAttempt \in Nat
  /\ hist \in Histories

Init ==
  /\ invitation = NoInvitation
  /\ sock = [s \in Sockets |-> FreeSocket]
  /\ joining = NotJoining
  /\ alarmSet = "none"
  /\ lastGeneration = 0
  /\ lastAttempt = 0
  /\ hist = [attempt |-> 0, host |-> 0, viewer |-> 0, admitted |-> 0, usedBy |-> 0]

-----------------------------------------------------------------------------
(* Socket queries and the effects handlers share. *)

First(S) == CHOOSE s \in S : TRUE

\* roleSockets: attached sockets of a role that are OPEN, or merely not CLOSED.
RoleSockets(sk, role, g, includeClosing) ==
  {s \in Sockets : /\ sk[s].role = role
                   /\ sk[s].generation = g
                   /\ ~sk[s].departed
                   /\ IF includeClosing THEN sk[s].state # "closed"
                                        ELSE sk[s].state = "open"}

\* Mutant: the survivor is rewound one position too far.
ReboundTooFar(a, attempt) == [a EXCEPT !.nextSequence = 0 - 1, !.pairingAttemptID = attempt]

\* A surviving socket starts over at sequence 0 in another attempt (0: none yet).
Rebound(a, attempt) == [a EXCEPT !.nextSequence = 0, !.pairingAttemptID = attempt]

\* safeClose on every socket of S.
Closing(sk, S) ==
  [s \in Sockets |-> IF s \in S /\ sk[s].state = "open"
                     THEN [sk[s] EXCEPT !.state = "closing"] ELSE sk[s]]

\* Mutant: expiry forgets the host.
ExpiredViewers(i, sk) == Closing(sk, RoleSockets(sk, "viewer", i.generation, TRUE))

\* expireInvitation: every socket of the generation that is not CLOSED.
ExpiredSockets(i, sk) ==
  Closing(sk, RoleSockets(sk, "host", i.generation, TRUE)
                \cup RoleSockets(sk, "viewer", i.generation, TRUE))

Unconsumed(i) == i.phase = "open"

Expired(i) == Unconsumed(i) /\ i.late

Consume(i) == [i EXCEPT !.phase = "consumed"]

-----------------------------------------------------------------------------
(* handleDeparture, as functions of the record, the sockets and the leaver. *)

\* The callback is of another generation, or of a replaced pairing attempt.
StaleCallback(i, a) ==
  \/ i.phase = "absent"
  \/ a.generation # i.generation
  \/ Mode = "pairing" /\ a.pairingAttemptID # i.pairingAttemptID

MarkDeparted(sk, s) == [sk EXCEPT ![s].departed = TRUE]

\* An unconsumed pairing attempt is abandoned with its progress.
AbandonAttempt(i) ==
  IF Mode = "pairing" /\ Unconsumed(i) /\ i.pairingAttemptID # 0
  THEN [i EXCEPT !.viewerAckForwarded = FALSE, !.pairingAttemptID = 0]
  ELSE i

\* retireAt = now + the tombstone's lifetime.
ScheduleRetirement(i) == [i EXCEPT !.phase = "retiring", !.late = FALSE]

Deserted(i, sk) ==
  \A role \in Roles : RoleSockets(sk, role, i.generation, TRUE) = {}

\* Mutant: retirement is scheduled while somebody is still connected.
RetiredOnAnyDeparture(i, sk, s) ==
  IF StaleCallback(i, sk[s]) THEN i
  ELSE IF Unconsumed(i) THEN AbandonAttempt(i) ELSE ScheduleRetirement(i)

\* The stale guard, the abandoned attempt and, for a consumed invitation
\* that nobody holds any more, the retirement deadline.
DepartedInvitation(i, sk, s) ==
  IF StaleCallback(i, sk[s]) THEN i
  ELSE IF Unconsumed(i) THEN AbandonAttempt(i)
  ELSE IF Deserted(i, MarkDeparted(sk, s)) THEN ScheduleRetirement(i)
  ELSE i

\* The open partner of an unconsumed pairing starts over at sequence 0.
DepartedSockets(i, sk, s) ==
  LET left    == MarkDeparted(sk, s)
      partner == RoleSockets(left, Opposite(sk[s].role), i.generation, FALSE)
  IN  IF StaleCallback(i, sk[s]) \/ Mode # "pairing" \/ ~Unconsumed(i) \/ partner = {}
      THEN left
      ELSE [left EXCEPT ![First(partner)] = Rebound(@, 0)]

\* Mutant: retireAt is stored but no alarm is set for it.
AlarmUnchanged(i, sk, s) == alarmSet

\* setAlarm(retireAt) replaces whatever alarm was set.
DepartedAlarm(i, sk, s) ==
  IF ~StaleCallback(i, sk[s]) /\ ~Unconsumed(i) /\ Deserted(i, MarkDeparted(sk, s))
  THEN "retire" ELSE alarmSet

\* webSocketClose / webSocketError; the latter may come for an open socket.
Departure(s) ==
  /\ joining = NotJoining
  /\ sock[s].state # "free"
  /\ ~sock[s].departed
  /\ invitation' = DepartedInvitation(invitation, sock, s)
  /\ sock' = DepartedSockets(invitation, sock, s)
  /\ alarmSet' = DepartedAlarm(invitation, sock, s)
  /\ UNCHANGED <<joining, lastGeneration, lastAttempt, hist>>

\* An alarm left over from an earlier deadline of the record.
OldAlarm == IF alarmSet = "none" THEN "none" ELSE "stale"

\* The actor is lost after storing retireAt, before setAlarm.
RetirementLost(s) ==
  /\ Crashes
  /\ joining = NotJoining
  /\ sock[s].state # "free"
  /\ ~sock[s].departed
  /\ ~StaleCallback(invitation, sock[s])
  /\ ~Unconsumed(invitation)
  /\ Deserted(invitation, MarkDeparted(sock, s))
  /\ invitation' = DepartedInvitation(invitation, sock, s)
  /\ sock' = DepartedSockets(invitation, sock, s)
  /\ alarmSet' = OldAlarm
  /\ UNCHANGED <<joining, lastGeneration, lastAttempt, hist>>

\* The actor is lost after storing the abandoned attempt, before the partner.
DepartureLost(s) ==
  /\ Crashes
  /\ joining = NotJoining
  /\ sock[s].state # "free"
  /\ ~sock[s].departed
  /\ ~StaleCallback(invitation, sock[s])
  /\ AbandonAttempt(invitation) # invitation
  /\ invitation' = AbandonAttempt(invitation)
  /\ sock' = MarkDeparted(sock, s)
  /\ UNCHANGED <<joining, alarmSet, lastGeneration, lastAttempt, hist>>

-----------------------------------------------------------------------------
(* handleJoin. *)

\* reconcileClosedInvitationRoleSockets: the departure of a CLOSED socket of
\* the role whose callback is still to come (there is at most one:
\* OneSocketPerRole), run before anything else about the role is decided.
ClosedRoleSockets(role) ==
  {s \in Sockets : /\ sock[s].role = role
                   /\ sock[s].generation = invitation.generation
                   /\ ~sock[s].departed
                   /\ sock[s].state = "closed"}

ReconciledInvitation(role) ==
  IF ClosedRoleSockets(role) = {} THEN invitation
  ELSE DepartedInvitation(invitation, sock, First(ClosedRoleSockets(role)))

ReconciledSockets(role) ==
  IF ClosedRoleSockets(role) = {} THEN sock
  ELSE DepartedSockets(invitation, sock, First(ClosedRoleSockets(role)))

ReconciledAlarm(role) ==
  IF ClosedRoleSockets(role) = {} THEN alarmSet
  ELSE DepartedAlarm(invitation, sock, First(ClosedRoleSockets(role)))

\* Mutant: a closing socket no longer occupies its role.
OccupiedWhenOpen(i, sk, role) == RoleSockets(sk, role, i.generation, FALSE) # {}

\* Mutant: occupancy is not checked.
NeverOccupied(i, sk, role) == FALSE

OccupiedRole(i, sk, role) == RoleSockets(sk, role, i.generation, TRUE) # {}

OpenPeers(i, sk, role) == RoleSockets(sk, Opposite(role), i.generation, FALSE)

JoinRefused(i, sk, role) ==
  \/ OccupiedRole(i, sk, role)
  \/ role = "viewer" /\ (OpenPeers(i, sk, role) = {} \/ ~Unconsumed(i))
  \/ role = "host" /\ ~Unconsumed(i) /\ OpenPeers(i, sk, role) = {}

\* A join that finds a live record, after its reconciliation.
JoinReaches(role) ==
  /\ joining = NotJoining
  /\ invitation.phase # "absent"
  /\ ~Expired(invitation)

\* The first host, or one that finds the old invitation expired, issues one.
HostIssues(s) ==
  /\ joining = NotJoining
  /\ invitation.phase = "absent" \/ Expired(invitation)
  /\ sock[s].state = "free"
  /\ lastGeneration < MaxGeneration
  /\ lastGeneration' = lastGeneration + 1
  /\ invitation' = NewInvitation(lastGeneration + 1)
  /\ sock' = [ExpiredSockets(invitation, sock) EXCEPT
                ![s] = NewAttachment("host", lastGeneration + 1, 0)]
  /\ alarmSet' = "expiry"
  /\ hist' = [hist EXCEPT !.admitted = 0, !.usedBy = 0]
  /\ UNCHANGED <<joining, lastAttempt>>

\* The actor is lost after storing the record, before setAlarm or the accept.
HostIssuesLost(alarm) ==
  /\ Crashes
  /\ joining = NotJoining
  /\ invitation.phase = "absent" \/ Expired(invitation)
  /\ lastGeneration < MaxGeneration
  /\ lastGeneration' = lastGeneration + 1
  /\ invitation' = NewInvitation(lastGeneration + 1)
  /\ sock' = ExpiredSockets(invitation, sock)
  /\ alarmSet' = alarm
  /\ hist' = [hist EXCEPT !.admitted = 0, !.usedBy = 0]
  /\ UNCHANGED <<joining, lastAttempt>>

ViewerFindsExpired ==
  /\ joining = NotJoining
  /\ Expired(invitation)
  /\ invitation' = NoInvitation
  /\ sock' = ExpiredSockets(invitation, sock)
  /\ UNCHANGED <<joining, alarmSet, lastGeneration, lastAttempt, hist>>

\* The actor is lost in expireInvitation, called by a join or the alarm, after
\* closing the sockets and before deleting the record.
ExpiryLost ==
  /\ Crashes
  /\ Expired(invitation)
  /\ sock' = ExpiredSockets(invitation, sock)
  /\ joining' = NotJoining
  /\ UNCHANGED <<invitation, alarmSet, lastGeneration, lastAttempt, hist>>

RefuseJoin(role) ==
  /\ JoinReaches(role)
  /\ JoinRefused(ReconciledInvitation(role), ReconciledSockets(role), role)
  /\ invitation' = ReconciledInvitation(role)
  /\ sock' = ReconciledSockets(role)
  /\ alarmSet' = ReconciledAlarm(role)
  /\ UNCHANGED <<joining, lastGeneration, lastAttempt, hist>>

\* A host alone on an unconsumed invitation waits.
HostWaits(s) ==
  LET i  == ReconciledInvitation("host")
      sk == ReconciledSockets("host")
  IN  /\ JoinReaches("host")
      /\ ~JoinRefused(i, sk, "host")
      /\ OpenPeers(i, sk, "host") = {}
      /\ sock[s].state = "free"
      /\ invitation' = i
      /\ sock' = [sk EXCEPT ![s] = NewAttachment("host", i.generation, 0)]
      /\ alarmSet' = ReconciledAlarm("host")
      /\ UNCHANGED <<joining, lastGeneration, lastAttempt, hist>>

\* The ready events to both; when one cannot be sent both are closed.
ReadySent(sk, s, peer, sent) == IF sent THEN sk ELSE Closing(sk, {s, peer})

\* Mutant: the progress of the earlier attempt survives.
NewAttemptKeepsAck(i, attempt) == [i EXCEPT !.pairingAttemptID = attempt]

\* Mutant: a new attempt reopens a consumed invitation.
NewAttemptReopens(i, attempt) ==
  [i EXCEPT !.phase = "open", !.viewerAckForwarded = FALSE, !.pairingAttemptID = attempt]

\* A fresh attempt, with the progress of any earlier one forgotten.
NewAttempt(i, attempt) ==
  [i EXCEPT !.viewerAckForwarded = FALSE, !.pairingAttemptID = attempt]

\* A new attempt starts with nothing forwarded.
AttemptStarted(h, attempt) == [h EXCEPT !.attempt = attempt, !.host = 0, !.viewer = 0]

StartPairing(role, s, sent) ==
  LET i    == ReconciledInvitation(role)
      sk   == ReconciledSockets(role)
      peer == First(OpenPeers(i, sk, role))
  IN  /\ Mode = "pairing"
      /\ JoinReaches(role)
      /\ ~JoinRefused(i, sk, role)
      /\ OpenPeers(i, sk, role) # {}
      /\ sock[s].state = "free"
      /\ lastAttempt < MaxAttempt
      /\ lastAttempt' = lastAttempt + 1
      /\ invitation' = NewAttempt(i, lastAttempt + 1)
      /\ sock' = ReadySent([sk EXCEPT
                   ![peer] = Rebound(@, lastAttempt + 1),
                   ![s] = NewAttachment(role, i.generation, lastAttempt + 1)], s, peer, sent)
      /\ alarmSet' = ReconciledAlarm(role)
      /\ hist' = AttemptStarted(hist, lastAttempt + 1)
      /\ UNCHANGED <<joining, lastGeneration>>

\* The actor is lost after storing the attempt, before binding the peer.
StartPairingLost(role) ==
  LET i  == ReconciledInvitation(role)
      sk == ReconciledSockets(role)
  IN  /\ Crashes
      /\ Mode = "pairing"
      /\ JoinReaches(role)
      /\ ~JoinRefused(i, sk, role)
      /\ OpenPeers(i, sk, role) # {}
      /\ lastAttempt < MaxAttempt
      /\ lastAttempt' = lastAttempt + 1
      /\ invitation' = NewAttempt(i, lastAttempt + 1)
      /\ sock' = sk
      /\ alarmSet' = ReconciledAlarm(role)
      /\ hist' = AttemptStarted(hist, lastAttempt + 1)
      /\ UNCHANGED <<joining, lastGeneration>>

\* A legacy join with an open peer suspends in iceServersForJoin; the
\* mutation queue waits for it, alarm() does not.
JoinAwaitsICE(role) ==
  LET i  == ReconciledInvitation(role)
      sk == ReconciledSockets(role)
  IN  /\ Mode = "invitation"
      /\ JoinReaches(role)
      /\ ~JoinRefused(i, sk, role)
      /\ OpenPeers(i, sk, role) # {}
      /\ invitation' = i
      /\ sock' = sk
      /\ alarmSet' = ReconciledAlarm(role)
      /\ joining' = [role |-> role, generation |-> i.generation]
      /\ UNCHANGED <<lastGeneration, lastAttempt, hist>>

\* The re-check after the await: same record, peer still open, role still free.
ICERecheck ==
  /\ invitation.phase # "absent"
  /\ invitation.generation = joining.generation
  /\ OpenPeers(invitation, sock, joining.role) # {}
  /\ ~OccupiedRole(invitation, sock, joining.role)

\* Mutant: accepting a viewer does not consume.
NeverConsumed(i, role) == i

\* Accepting a legacy viewer consumes the invitation first.
ConsumeForViewer(i, role) == IF role = "viewer" THEN Consume(i) ELSE i

\* A legacy invitation is used up by its viewer, not by an attempt.
ViewerAdmitted(h) == [h EXCEPT !.admitted = @ + 1, !.usedBy = 1]

ICEArrives(s, sent) ==
  LET role == joining.role
      peer == First(OpenPeers(invitation, sock, role))
  IN  /\ joining # NotJoining
      /\ ICERecheck
      /\ sock[s].state = "free"
      /\ invitation' = ConsumeForViewer(invitation, role)
      /\ sock' = ReadySent([sock EXCEPT ![s] = NewAttachment(role, invitation.generation, 0)],
                           s, peer, sent)
      /\ joining' = NotJoining
      /\ hist' = IF role = "viewer" THEN ViewerAdmitted(hist) ELSE hist
      /\ UNCHANGED <<alarmSet, lastGeneration, lastAttempt>>

\* Provisioning failed, the re-check failed, or the actor was lost.
ICERefused ==
  /\ joining # NotJoining
  /\ joining' = NotJoining
  /\ UNCHANGED <<invitation, sock, alarmSet, lastGeneration, lastAttempt, hist>>

\* The actor is lost after storing the consumption, before the accept.
ICEConsumedLost ==
  /\ Crashes
  /\ joining.role = "viewer"
  /\ ICERecheck
  /\ invitation' = ConsumeForViewer(invitation, "viewer")
  /\ joining' = NotJoining
  /\ hist' = [hist EXCEPT !.usedBy = 1]
  /\ UNCHANGED <<sock, alarmSet, lastGeneration, lastAttempt>>

-----------------------------------------------------------------------------
(* handleInvitationMessage. *)

\* The sender's attachment is of the live generation and pairing attempt.
CurrentSender(s) ==
  /\ sock[s].role \in Roles
  /\ ~sock[s].departed
  /\ ~StaleCallback(invitation, sock[s])
  /\ Mode = "pairing" => invitation.pairingAttemptID # 0

\* The position of the viewer's acknowledgement in an unconsumed pairing.
AtViewerAck(s) ==
  Mode = "pairing" /\ Unconsumed(invitation)
    /\ sock[s].role = "viewer" /\ sock[s].nextSequence = 2

\* The position of the host's completion in an unconsumed pairing.
AtHostCompletion(s) ==
  Mode = "pairing" /\ Unconsumed(invitation)
    /\ sock[s].role = "host" /\ sock[s].nextSequence = 3

\* Mutant: a completion is accepted without recorded acknowledgement.
OrderedAcknowledgement(s) ==
  AtViewerAck(s) =>
    LET hosts == RoleSockets(sock, "host", invitation.generation, FALSE)
    IN  hosts # {} /\ sock[First(hosts)].nextSequence >= 3

\* An acknowledgement needs the proposal forwarded, a completion the acknowledgement.
OrderedAcrossRoles(s) ==
  /\ AtViewerAck(s) =>
       LET hosts == RoleSockets(sock, "host", invitation.generation, FALSE)
       IN  hosts # {} /\ sock[First(hosts)].nextSequence >= 3
  /\ AtHostCompletion(s) => invitation.viewerAckForwarded

AcceptedMessage(s) ==
  /\ joining = NotJoining
  /\ CurrentSender(s)
  /\ OrderedAcrossRoles(s)

\* Completion consumes the invitation before it is forwarded.
ConsumeForCompletion(i, s) ==
  IF AtHostCompletion(s) THEN Consume(i) ELSE i

UsedBy(s) == IF AtHostCompletion(s) THEN sock[s].pairingAttemptID ELSE hist.usedBy

\* Malformed, out of sequence, over the rate limit, or refused by the guards.
RejectMessage(s) ==
  /\ joining = NotJoining
  /\ sock[s].state = "open"
  /\ sock' = Closing(sock, {s})
  /\ UNCHANGED <<invitation, joining, alarmSet, lastGeneration, lastAttempt, hist>>

\* No open peer, or the send failed; also the actor lost after the consumption.
UndeliveredMessage(s) ==
  /\ AcceptedMessage(s)
  /\ invitation' = ConsumeForCompletion(invitation, s)
  /\ hist' = [hist EXCEPT !.usedBy = UsedBy(s)]
  /\ UNCHANGED <<sock, joining, alarmSet, lastGeneration, lastAttempt>>

Advance(a) == [a EXCEPT !.nextSequence = @ + 1]

RecordAck(i) == [i EXCEPT !.viewerAckForwarded = TRUE]

\* Three stands for three or more.
UpToThree(n) == IF n < 3 THEN n + 1 ELSE 3

CountForwarded(s) ==
  [hist EXCEPT !.host = IF sock[s].role = "host" THEN UpToThree(@) ELSE @,
               !.viewer = IF sock[s].role = "viewer" THEN UpToThree(@) ELSE @,
               !.usedBy = UsedBy(s)]

ForwardMessage(s) ==
  /\ AcceptedMessage(s)
  /\ OpenPeers(invitation, sock, sock[s].role) # {}
  /\ sock[s].nextSequence < MaxSequence
  /\ sock' = [sock EXCEPT ![s] = Advance(@)]
  /\ invitation' = IF AtViewerAck(s) THEN RecordAck(invitation)
                   ELSE ConsumeForCompletion(invitation, s)
  /\ hist' = CountForwarded(s)
  /\ UNCHANGED <<joining, alarmSet, lastGeneration, lastAttempt>>

\* The actor is lost after forwarding the acknowledgement, before recording it.
AckForwardedLost(s) ==
  /\ Crashes
  /\ AcceptedMessage(s)
  /\ AtViewerAck(s)
  /\ OpenPeers(invitation, sock, sock[s].role) # {}
  /\ sock[s].nextSequence < MaxSequence
  /\ sock' = [sock EXCEPT ![s] = Advance(@)]
  /\ hist' = CountForwarded(s)
  /\ UNCHANGED <<invitation, joining, alarmSet, lastGeneration, lastAttempt>>

-----------------------------------------------------------------------------
(* alarm(), the clock and the network. *)

\* alarm() is not on the mutation queue: it may run while a join is suspended.
Alarm ==
  /\ alarmSet # "none"
  /\ invitation.phase \in {"open", "retiring"} => invitation.late \/ alarmSet = "stale"
  /\ alarmSet' = "none"
  /\ IF invitation.phase \in {"open", "retiring"} /\ invitation.late
     THEN /\ invitation' = NoInvitation
          /\ sock' = IF Expired(invitation) THEN ExpiredSockets(invitation, sock) ELSE sock
     ELSE UNCHANGED <<invitation, sock>>
  /\ UNCHANGED <<joining, lastGeneration, lastAttempt, hist>>

DeadlinePasses ==
  /\ invitation.phase \in {"open", "retiring"}
  /\ ~invitation.late
  /\ invitation' = [invitation EXCEPT !.late = TRUE]
  /\ UNCHANGED <<sock, joining, alarmSet, lastGeneration, lastAttempt, hist>>

\* The client or the network ends the connection, or the handshake completes.
SocketCloses(s) ==
  /\ sock[s].state \in {"open", "closing"}
  /\ sock' = [sock EXCEPT ![s].state = "closed"]
  /\ UNCHANGED <<invitation, joining, alarmSet, lastGeneration, lastAttempt, hist>>

\* The runtime drops a closed socket whose callback has run.
SocketForgotten(s) ==
  /\ sock[s].state = "closed"
  /\ sock[s].departed
  /\ sock' = [sock EXCEPT ![s] = FreeSocket]
  /\ UNCHANGED <<invitation, joining, alarmSet, lastGeneration, lastAttempt, hist>>

-----------------------------------------------------------------------------
Next ==
  \/ ViewerFindsExpired
  \/ ExpiryLost
  \/ \E alarm \in {OldAlarm, "expiry"} : HostIssuesLost(alarm)
  \/ \E role \in Roles : RefuseJoin(role) \/ JoinAwaitsICE(role) \/ StartPairingLost(role)
  \/ \E role \in Roles, s \in Sockets, sent \in BOOLEAN : StartPairing(role, s, sent)
  \/ \E s \in Sockets, sent \in BOOLEAN : ICEArrives(s, sent)
  \/ ICERefused
  \/ ICEConsumedLost
  \/ \E s \in Sockets :
       \/ HostIssues(s) \/ HostWaits(s)
       \/ RejectMessage(s) \/ UndeliveredMessage(s) \/ ForwardMessage(s) \/ AckForwardedLost(s)
       \/ Departure(s) \/ DepartureLost(s) \/ RetirementLost(s)
       \/ SocketCloses(s) \/ SocketForgotten(s)
  \/ Alarm
  \/ DeadlinePasses

Spec == Init /\ [][Next]_vars

(***************************************************************************)
(* Time passes and the runtime runs a due alarm; a socket the server has   *)
(* closed finishes closing; the callback of a closed socket is delivered;  *)
(* the credential fetch ends (it has a timeout).  No client is obliged to  *)
(* join, to speak or to leave.                                             *)
(***************************************************************************)
Fairness ==
  /\ WF_vars(DeadlinePasses)
  /\ WF_vars(Alarm)
  /\ WF_vars(ICERefused)
  /\ \A s \in Sockets : /\ WF_vars(sock[s].state = "closing" /\ SocketCloses(s))
                        /\ WF_vars(sock[s].state = "closed" /\ Departure(s))

FairSpec == Spec /\ Fairness

-----------------------------------------------------------------------------
(* Properties. *)

\* A role of a generation is held by at most one socket whose departure has not
\* been handled: closing sockets, late close callbacks and a suspended join
\* never let handleJoin admit a second holder.
OneSocketPerRole ==
  \A s, t \in Sockets :
    /\ sock[s].role = sock[t].role /\ sock[s].role \in Roles
    /\ sock[s].generation = sock[t].generation
    /\ ~sock[s].departed /\ ~sock[t].departed
    => s = t

\* Every open, attached socket belongs to the live invitation: neither expiry,
\* retirement nor an alarm during a suspended join leaves a client connected
\* to an invitation that no longer exists.
NoOrphanSocket ==
  \A s \in Sockets :
    sock[s].state = "open" /\ ~sock[s].departed
    => invitation.phase # "absent" /\ sock[s].generation = invitation.generation

\* Once handleDeparture has scheduled the tombstone's retirement, no socket of
\* that generation is or becomes live again, so alarm() may drop the record
\* without closing anything.
TombstoneDeserted ==
  invitation.phase = "retiring" => Deserted(invitation, sock)

\* A legacy invitation admits at most one viewer in its whole life, and is no
\* longer open once it has: the consume-once boundary of handleJoin.
OneViewerAdmitted ==
  Mode = "invitation" =>
    hist.admitted <= 1 /\ (hist.admitted = 1 => ~Unconsumed(invitation))

\* Stored acknowledgement progress belongs to the current attempt, and in that
\* very attempt three messages of the host and three of the viewer were
\* forwarded, whatever was replaced, reconciled or lost meanwhile.
AckProgressIsCurrent ==
  invitation.viewerAckForwarded =>
    /\ invitation.pairingAttemptID # 0
    /\ hist.attempt = invitation.pairingAttemptID
    /\ hist.host >= 3 /\ hist.viewer >= 3

\* A pairing invitation is consumed only by an attempt in which both proposal
\* and acknowledgement positions were forwarded, never on progress left over
\* from an earlier attempt.
ConsumeNeedsExchange ==
  [][ Mode = "pairing" /\ invitation.phase = "open" /\ invitation'.phase = "consumed"
      => /\ hist'.usedBy = hist.attempt
         /\ hist.attempt = invitation.pairingAttemptID
         /\ hist.host >= 3 /\ hist.viewer >= 3 ]_vars

LivePair(h, v) ==
  /\ \A s \in {h, v} : /\ sock[s].state = "open" /\ ~sock[s].departed
                        /\ sock[s].generation = invitation.generation
                        /\ sock[s].pairingAttemptID = invitation.pairingAttemptID
  /\ sock[h].role = "host" /\ sock[v].role = "viewer"
  /\ invitation.phase # "absent"

\* While both sockets of an attempt stay open nothing restarts it: no join,
\* reconciliation or late callback of another socket replaces the attempt,
\* clears its progress, rewinds a sequence or reopens a consumed invitation.
LiveAttemptProgresses ==
  [][ \A h, v \in Sockets :
        LivePair(h, v) /\ (\A s \in {h, v} : sock'[s].state = "open" /\ ~sock'[s].departed)
        => /\ invitation'.pairingAttemptID = invitation.pairingAttemptID
           /\ invitation.viewerAckForwarded => invitation'.viewerAckForwarded
           /\ sock'[h].nextSequence >= sock[h].nextSequence
           /\ sock'[v].nextSequence >= sock[v].nextSequence
           /\ ~Unconsumed(invitation) => ~Unconsumed(invitation') ]_vars

\* A consumed invitation whose sockets are all closed is eventually deleted
\* (for runs without losses inside a handler).
TombstoneRetires ==
  (invitation.phase = "consumed" /\ Deserted(invitation, sock))
    ~> invitation.phase = "absent"

\* An invitation nobody uses does not stay open for ever.
UnusedExpires ==
  \A g \in 1..MaxGeneration :
    (Unconsumed(invitation) /\ invitation.generation = g)
      ~> ~(Unconsumed(invitation) /\ invitation.generation = g)

\* No invitation stays for ever: one that is not used expires although joins and
\* signals go on, and a used one is deleted once its sockets are gone.
InvitationsEnd == TombstoneRetires /\ UnusedExpires

\* What the class comment says: every state-changing entry point is serialized,
\* so nothing else changes the record while a join mutation is in progress.
MutationsSerialized ==
  [][ joining # NotJoining /\ joining' # NotJoining
      => invitation'.phase = invitation.phase ]_vars

(***************************************************************************)
(* What the channel promises its users (module OneUseInvitation): the      *)
(* phases of one-use invitations, with the attempt that used each.         *)
(***************************************************************************)
AbstractPhase(i) == IF i.phase \in {"consumed", "retiring"} THEN "used" ELSE i.phase

OneUse == INSTANCE OneUseInvitation WITH
  phase <- AbstractPhase(invitation),
  issued <- lastGeneration,
  usedBy <- hist.usedBy

\* The Durable Object implements the one-use invitation.
ImplementsOneUse == OneUse!Spec
=============================================================================
