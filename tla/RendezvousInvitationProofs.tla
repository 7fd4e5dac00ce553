---------------------- MODULE RendezvousInvitationProofs ----------------------
(***************************************************************************)
(* Safety of RendezvousInvitation for every set of sockets, both modes,    *)
(* losses inside handlers included, and every value of the bounds.         *)
(***************************************************************************)
EXTENDS RendezvousInvitation, TLAPS

\* s holds its role in the generation of the record i.
Holds(i, sk, s) ==
  sk[s].role \in Roles /\ ~sk[s].departed /\ sk[s].generation = i.generation

\* s is bound to the current pairing attempt of i.
Bound(i, sk, s) ==
  Holds(i, sk, s) /\ i.pairingAttemptID # 0 /\ sk[s].pairingAttemptID = i.pairingAttemptID

(* The inductive invariant, as predicates of a record and a socket table, so *)
(* that they can also be stated of the intermediate state of a join.         *)

FreeIsBlank(sk) == \A s \in Sockets : sk[s].state = "free" <=> sk[s].role = "none"

OnePerRole(sk) ==
  \A s, t \in Sockets :
    /\ sk[s].role = sk[t].role /\ sk[s].role \in Roles
    /\ sk[s].generation = sk[t].generation
    /\ ~sk[s].departed /\ ~sk[t].departed
    => s = t

NoOrphan(i, sk) ==
  \A s \in Sockets :
    sk[s].state = "open" /\ ~sk[s].departed
    => i.phase # "absent" /\ sk[s].generation = i.generation

Tombstone(i, sk) == i.phase = "retiring" => Deserted(i, sk)

\* Identifiers in use were issued.
Issued(i, sk, g, a) ==
  /\ i.generation <= g /\ i.pairingAttemptID <= a
  /\ i.phase # "absent" => i.generation > 0
  /\ Mode # "pairing" => i.pairingAttemptID = 0
  /\ \A s \in Sockets : sk[s].generation <= g /\ sk[s].pairingAttemptID <= a

\* The members of the current attempt of an unconsumed pairing come in pairs.
PairBound(i, sk) ==
  Unconsumed(i) =>
    \A s \in Sockets : Bound(i, sk, s) =>
      \E t \in Sockets : Bound(i, sk, t) /\ sk[t].role = Opposite(sk[s].role)

\* Sequences of the current attempt were really forwarded in it.
Counted(i, sk, h) ==
  /\ i.pairingAttemptID # 0 => h.attempt = i.pairingAttemptID
  /\ \A s \in Sockets : Bound(i, sk, s) =>
       /\ sk[s].role = "host" => sk[s].nextSequence <= h.host \/ h.host = 3
       /\ sk[s].role = "viewer" => sk[s].nextSequence <= h.viewer \/ h.viewer = 3

AckCurrent(i, h) ==
  i.viewerAckForwarded =>
    /\ i.pairingAttemptID # 0 /\ h.attempt = i.pairingAttemptID
    /\ h.host >= 3 /\ h.viewer >= 3

Good(i, sk, g, a, h) ==
  FreeIsBlank(sk) /\ OnePerRole(sk) /\ NoOrphan(i, sk) /\ Tombstone(i, sk)
    /\ Issued(i, sk, g, a) /\ PairBound(i, sk) /\ Counted(i, sk, h) /\ AckCurrent(i, h)

\* While a join is suspended its role stays free, and a joining viewer's
\* invitation unconsumed.
Suspended ==
  joining # NotJoining =>
    /\ Mode = "invitation"
    /\ joining.role \in Roles
    /\ \A s \in Sockets :
         ~(sock[s].role = joining.role /\ ~sock[s].departed
             /\ sock[s].generation = joining.generation)
    /\ joining.role = "viewer" /\ invitation.phase # "absent" => Unconsumed(invitation)

Usage ==
  /\ Unconsumed(invitation) => hist.usedBy = 0
  /\ Mode = "invitation" =>
       hist.admitted <= 1 /\ (hist.admitted = 1 => ~Unconsumed(invitation))

IInv == TypeOK /\ Good(invitation, sock, lastGeneration, lastAttempt, hist) /\ Suspended /\ Usage

-----------------------------------------------------------------------------
(* The departure of one socket, field by field. *)

\* A socket bound to an attempt anew keeps all else it had.
LEMMA ReboundFields ==
  ASSUME NEW r \in Attachments, NEW a \in Nat
  PROVE  /\ Rebound(r, a) \in Attachments
         /\ Rebound(r, a).state = r.state
         /\ Rebound(r, a).role = r.role
         /\ Rebound(r, a).generation = r.generation
         /\ Rebound(r, a).departed <=> r.departed
         /\ Rebound(r, a).nextSequence = 0
         /\ Rebound(r, a).pairingAttemptID = a
  BY DEF Attachments, Rebound

\* The sockets after one has departed.
LEMMA DepartedTable ==
  ASSUME NEW i \in Invitations, NEW sk \in [Sockets -> Attachments],
         NEW s \in Sockets, sk[s].role \in Roles,
         NEW sk2, sk2 = DepartedSockets(i, sk, s)
  PROVE  /\ sk2 \in [Sockets -> Attachments]
         /\ sk2[s].departed
         /\ \A t \in Sockets : /\ sk2[t].state = sk[t].state
                               /\ sk2[t].role = sk[t].role
                               /\ sk2[t].generation = sk[t].generation
                               /\ t # s => (sk2[t].departed <=> sk[t].departed)
                               /\ \/ sk2[t].pairingAttemptID = sk[t].pairingAttemptID
                                     /\ sk2[t].nextSequence = sk[t].nextSequence
                                  \/ sk2[t].pairingAttemptID = 0
                                     /\ ~StaleCallback(i, sk[s]) /\ Unconsumed(i)
<1> DEFINE left == MarkDeparted(sk, s)
           partner == RoleSockets(left, Opposite(sk[s].role), i.generation, FALSE)
<1>1. /\ left \in [Sockets -> Attachments]
      /\ left[s].departed
      /\ \A t \in Sockets : /\ left[t].state = sk[t].state
                            /\ left[t].role = sk[t].role
                            /\ left[t].generation = sk[t].generation
                            /\ left[t].pairingAttemptID = sk[t].pairingAttemptID
                            /\ left[t].nextSequence = sk[t].nextSequence
                            /\ t # s => (left[t].departed <=> sk[t].departed)
  BY DEF MarkDeparted, Attachments
<1>2. CASE sk2 = left
  BY <1>1, <1>2
<1>3. CASE sk2 # left
  <2> DEFINE p == First(partner)
  <2>1. /\ ~StaleCallback(i, sk[s]) /\ Unconsumed(i) /\ partner # {}
        /\ sk2 = [left EXCEPT ![p] = Rebound(left[p], 0)]
    BY <1>3 DEF DepartedSockets
  <2>2. p \in Sockets
    BY <2>1 DEF First, RoleSockets
  <2> HIDE DEF left, p, partner
  <2>3. QED
    BY <1>1, <2>1, <2>2, ReboundFields
<1>4. QED BY <1>2, <1>3

\* An abandoned attempt leaves the invitation as open as it was.
LEMMA AbandonFields ==
  ASSUME NEW i \in Invitations, Unconsumed(i)
  PROVE  /\ AbandonAttempt(i) \in Invitations
         /\ AbandonAttempt(i).phase = i.phase
         /\ Unconsumed(AbandonAttempt(i))
         /\ AbandonAttempt(i).generation = i.generation
         /\ \/ AbandonAttempt(i) = i
            \/ AbandonAttempt(i).pairingAttemptID = 0 /\ ~AbandonAttempt(i).viewerAckForwarded
         /\ Mode = "pairing" => AbandonAttempt(i).pairingAttemptID = 0
<1>1. CASE Mode = "pairing" /\ i.pairingAttemptID # 0
  BY <1>1 DEF AbandonAttempt, Invitations, Unconsumed
<1>2. CASE ~(Mode = "pairing" /\ i.pairingAttemptID # 0)
  BY <1>2 DEF AbandonAttempt, Unconsumed
<1>3. QED BY <1>1, <1>2

\* A retired invitation keeps its generation.
LEMMA RetirementFields ==
  ASSUME NEW i \in Invitations
  PROVE  /\ ScheduleRetirement(i) \in Invitations
         /\ ScheduleRetirement(i).phase = "retiring"
         /\ ScheduleRetirement(i).generation = i.generation
         /\ ScheduleRetirement(i).pairingAttemptID = i.pairingAttemptID
         /\ ScheduleRetirement(i).viewerAckForwarded <=> i.viewerAckForwarded
  BY DEF ScheduleRetirement, Invitations

\* What becomes of the record: nothing, an abandoned attempt, or a tombstone.
LEMMA DepartedRecord ==
  ASSUME NEW i \in Invitations, NEW sk \in [Sockets -> Attachments], NEW s \in Sockets,
         NEW i2, i2 = DepartedInvitation(i, sk, s)
  PROVE  /\ i2 \in Invitations
         /\ i2.generation = i.generation
         /\ i2.phase = "absent" <=> i.phase = "absent"
         /\ Unconsumed(i2) <=> Unconsumed(i)
         /\ \/ i2 = i
            \/ i2.pairingAttemptID = 0 /\ ~i2.viewerAckForwarded /\ Unconsumed(i2)
            \/ /\ ~StaleCallback(i, sk[s]) /\ ~Unconsumed(i)
               /\ Deserted(i, MarkDeparted(sk, s))
               /\ i2.phase = "retiring"
               /\ i2.pairingAttemptID = i.pairingAttemptID
               /\ i2.viewerAckForwarded <=> i.viewerAckForwarded
         /\ Mode = "pairing" /\ ~StaleCallback(i, sk[s]) /\ Unconsumed(i) => i2.pairingAttemptID = 0
<1>1. CASE StaleCallback(i, sk[s])
  BY <1>1 DEF DepartedInvitation
<1>2. CASE ~StaleCallback(i, sk[s]) /\ Unconsumed(i)
  <2>1. i2 = AbandonAttempt(i)
    BY <1>2 DEF DepartedInvitation
  <2>2. QED BY <1>2, <2>1, AbandonFields
<1>3. CASE ~StaleCallback(i, sk[s]) /\ ~Unconsumed(i)
  <2>1. CASE Deserted(i, MarkDeparted(sk, s))
    <3>1. i2 = ScheduleRetirement(i)
      BY <1>3, <2>1 DEF DepartedInvitation
    <3>2. i.phase # "absent"
      BY <1>3 DEF StaleCallback
    <3>3. QED
      BY <1>3, <2>1, <3>1, <3>2, RetirementFields DEF Unconsumed
  <2>2. CASE ~Deserted(i, MarkDeparted(sk, s))
    BY <1>3, <2>2 DEF DepartedInvitation
  <2>3. QED BY <2>1, <2>2
<1>4. QED BY <1>1, <1>2, <1>3

\* A departure keeps an invitation and its sockets coherent.
LEMMA DepartedGood ==
  ASSUME NEW i \in Invitations, NEW sk \in [Sockets -> Attachments], NEW s \in Sockets,
         sk[s].role \in Roles, ~sk[s].departed,
         NEW g \in Nat, NEW a \in Nat, NEW h, Good(i, sk, g, a, h)
  PROVE  Good(DepartedInvitation(i, sk, s), DepartedSockets(i, sk, s), g, a, h)
<1> DEFINE i2 == DepartedInvitation(i, sk, s)
           sk2 == DepartedSockets(i, sk, s)
<1>1. /\ sk2 \in [Sockets -> Attachments]
      /\ sk2[s].departed
      /\ \A t \in Sockets : /\ sk2[t].state = sk[t].state
                            /\ sk2[t].role = sk[t].role
                            /\ sk2[t].generation = sk[t].generation
                            /\ t # s => (sk2[t].departed <=> sk[t].departed)
                            /\ \/ sk2[t].pairingAttemptID = sk[t].pairingAttemptID
                                  /\ sk2[t].nextSequence = sk[t].nextSequence
                               \/ sk2[t].pairingAttemptID = 0
                                  /\ ~StaleCallback(i, sk[s]) /\ Unconsumed(i)
  BY DepartedTable
<1>2. /\ i2 \in Invitations
      /\ i2.generation = i.generation
      /\ i2.phase = "absent" <=> i.phase = "absent"
      /\ Unconsumed(i2) <=> Unconsumed(i)
      /\ \/ i2 = i
         \/ i2.pairingAttemptID = 0 /\ ~i2.viewerAckForwarded /\ Unconsumed(i2)
         \/ /\ ~StaleCallback(i, sk[s]) /\ ~Unconsumed(i)
            /\ Deserted(i, MarkDeparted(sk, s))
            /\ i2.phase = "retiring"
            /\ i2.pairingAttemptID = i.pairingAttemptID
            /\ i2.viewerAckForwarded <=> i.viewerAckForwarded
      /\ Mode = "pairing" /\ ~StaleCallback(i, sk[s]) /\ Unconsumed(i) => i2.pairingAttemptID = 0
  BY DepartedRecord
<1> HIDE DEF i2, sk2
<1>3. FreeIsBlank(sk2)
  BY <1>1 DEF Good, FreeIsBlank
<1>4. OnePerRole(sk2)
  BY <1>1 DEF Good, OnePerRole
<1>5. NoOrphan(i2, sk2)
  BY <1>1, <1>2 DEF Good, NoOrphan
<1>6. Tombstone(i2, sk2)
  <2>1. Deserted(i, sk) => Deserted(i2, sk2)
    BY <1>1, <1>2 DEF Deserted, RoleSockets
  <2>2. Deserted(i, MarkDeparted(sk, s)) => Deserted(i2, sk2)
    <3>1. \A t \in Sockets : /\ MarkDeparted(sk, s)[t].state = sk[t].state
                             /\ MarkDeparted(sk, s)[t].role = sk[t].role
                             /\ MarkDeparted(sk, s)[t].generation = sk[t].generation
                             /\ t # s => (MarkDeparted(sk, s)[t].departed <=> sk[t].departed)
      BY DEF MarkDeparted, Attachments
    <3>2. QED
      BY <1>1, <1>2, <3>1 DEF Deserted, RoleSockets
  <2>3. QED
    BY <1>2, <2>1, <2>2 DEF Good, Tombstone, Unconsumed
<1>7. Issued(i2, sk2, g, a)
  BY <1>1, <1>2 DEF Good, Issued
<1>8. PairBound(i2, sk2)
  <2> SUFFICES ASSUME Unconsumed(i2), NEW t \in Sockets, Bound(i2, sk2, t)
               PROVE  \E u \in Sockets : Bound(i2, sk2, u) /\ sk2[u].role = Opposite(sk2[t].role)
    BY DEF PairBound
  <2>1. i2 = i /\ i.pairingAttemptID # 0 /\ Mode = "pairing"
    BY <1>2, ModeAssumption DEF Bound, Good, Issued
  <2>2. StaleCallback(i, sk[s])
    BY <1>2, <2>1 DEF Bound
  <2>3. ~Bound(i, sk, s)
    BY <2>1, <2>2 DEF Bound, Holds, StaleCallback, Unconsumed
  <2>4. Bound(i, sk, t)
    BY <1>1, <2>1, <2>2 DEF Bound, Holds
  <2>5. PICK u \in Sockets : Bound(i, sk, u) /\ sk[u].role = Opposite(sk[t].role)
    BY <2>1, <2>4 DEF Good, PairBound
  <2>6. QED
    BY <1>1, <2>1, <2>2, <2>3, <2>5 DEF Bound, Holds
<1>9. Counted(i2, sk2, h)
  BY <1>1, <1>2 DEF Good, Counted, Bound, Holds
<1>10. AckCurrent(i2, h)
  BY <1>2 DEF Good, AckCurrent
<1>11. QED
  BY <1>3, <1>4, <1>5, <1>6, <1>7, <1>8, <1>9, <1>10 DEF Good, i2, sk2

-----------------------------------------------------------------------------
(* The other ways a handler changes the sockets. *)

\* The sockets after some have been closed.
LEMMA ClosingFields ==
  ASSUME NEW sk \in [Sockets -> Attachments], NEW S
  PROVE  /\ Closing(sk, S) \in [Sockets -> Attachments]
         /\ \A t \in Sockets :
              /\ Closing(sk, S)[t].state = IF t \in S /\ sk[t].state = "open"
                                           THEN "closing" ELSE sk[t].state
              /\ Closing(sk, S)[t].role = sk[t].role
              /\ Closing(sk, S)[t].generation = sk[t].generation
              /\ Closing(sk, S)[t].pairingAttemptID = sk[t].pairingAttemptID
              /\ Closing(sk, S)[t].nextSequence = sk[t].nextSequence
              /\ Closing(sk, S)[t].departed <=> sk[t].departed
<1>1. ASSUME NEW t \in Sockets
      PROVE  /\ Closing(sk, S)[t] \in Attachments
             /\ Closing(sk, S)[t].state = IF t \in S /\ sk[t].state = "open"
                                          THEN "closing" ELSE sk[t].state
             /\ Closing(sk, S)[t].role = sk[t].role
             /\ Closing(sk, S)[t].generation = sk[t].generation
             /\ Closing(sk, S)[t].pairingAttemptID = sk[t].pairingAttemptID
             /\ Closing(sk, S)[t].nextSequence = sk[t].nextSequence
             /\ Closing(sk, S)[t].departed <=> sk[t].departed
  <2>1. CASE t \in S /\ sk[t].state = "open"
    <3>1. Closing(sk, S)[t] = [sk[t] EXCEPT !.state = "closing"]
      BY <2>1 DEF Closing
    <3>2. sk[t] \in Attachments
      OBVIOUS
    <3>3. QED BY <2>1, <3>1, <3>2 DEF Attachments
  <2>2. CASE ~(t \in S /\ sk[t].state = "open")
    <3>1. Closing(sk, S)[t] = sk[t]
      BY <2>2 DEF Closing
    <3>2. QED BY <2>2, <3>1
  <2>3. QED BY <2>1, <2>2
<1>2. Closing(sk, S) \in [Sockets -> Attachments]
  BY <1>1 DEF Closing
<1>3. QED BY <1>1, <1>2

\* Closing sockets disturbs nothing.
LEMMA ClosingGood ==
  ASSUME NEW i, NEW sk \in [Sockets -> Attachments], NEW S,
         NEW g, NEW a, NEW h, Good(i, sk, g, a, h)
  PROVE  Good(i, Closing(sk, S), g, a, h)
<1> DEFINE sk2 == Closing(sk, S)
<1>1. \A t \in Sockets : /\ sk2[t].state = IF t \in S /\ sk[t].state = "open"
                                           THEN "closing" ELSE sk[t].state
                         /\ sk2[t].role = sk[t].role
                         /\ sk2[t].generation = sk[t].generation
                         /\ sk2[t].pairingAttemptID = sk[t].pairingAttemptID
                         /\ sk2[t].nextSequence = sk[t].nextSequence
                         /\ sk2[t].departed <=> sk[t].departed
  BY ClosingFields
<1> HIDE DEF sk2
<1>2. FreeIsBlank(sk2)
  BY <1>1 DEF Good, FreeIsBlank
<1>3. OnePerRole(sk2)
  BY <1>1 DEF Good, OnePerRole
<1>4. NoOrphan(i, sk2)
  BY <1>1 DEF Good, NoOrphan
<1>5. Tombstone(i, sk2)
  BY <1>1 DEF Good, Tombstone, Deserted, RoleSockets
<1>6. Issued(i, sk2, g, a)
  BY <1>1 DEF Good, Issued
<1>7. PairBound(i, sk2)
  BY <1>1 DEF Good, PairBound, Bound, Holds
<1>8. Counted(i, sk2, h)
  BY <1>1 DEF Good, Counted, Bound, Holds
<1>9. QED
  BY <1>2, <1>3, <1>4, <1>5, <1>6, <1>7, <1>8 DEF Good, sk2

\* A socket that was just attached.
LEMMA NewAttachmentFields ==
  ASSUME NEW role \in Roles, NEW g \in Nat, NEW b \in Nat
  PROVE  /\ NewAttachment(role, g, b) \in Attachments
         /\ NewAttachment(role, g, b).state = "open"
         /\ NewAttachment(role, g, b).role = role
         /\ NewAttachment(role, g, b).generation = g
         /\ NewAttachment(role, g, b).pairingAttemptID = b
         /\ NewAttachment(role, g, b).nextSequence = 0
         /\ ~NewAttachment(role, g, b).departed
  BY DEF NewAttachment, Attachments

\* The role is not held by any socket, closed ones included.
Vacant(i, sk, role) ==
  \A t \in Sockets : ~(sk[t].role = role /\ ~sk[t].departed /\ sk[t].generation = i.generation)

\* A newcomer outside any pairing attempt.
LEMMA AcceptGood ==
  ASSUME NEW i \in Invitations, NEW sk \in [Sockets -> Attachments], NEW s \in Sockets,
         NEW role \in Roles, sk[s].state = "free", i.phase \in {"open", "consumed"},
         Vacant(i, sk, role),
         NEW g \in Nat, NEW a \in Nat, NEW h, Good(i, sk, g, a, h)
  PROVE  /\ [sk EXCEPT ![s] = NewAttachment(role, i.generation, 0)] \in [Sockets -> Attachments]
         /\ Good(i, [sk EXCEPT ![s] = NewAttachment(role, i.generation, 0)], g, a, h)
<1> DEFINE n == NewAttachment(role, i.generation, 0)
           sk2 == [sk EXCEPT ![s] = n]
<1>1. /\ n \in Attachments /\ n.state = "open" /\ n.role = role
      /\ n.generation = i.generation /\ n.pairingAttemptID = 0 /\ ~n.departed
  BY NewAttachmentFields DEF Invitations
<1> HIDE DEF n
<1>2. /\ sk2 \in [Sockets -> Attachments]
      /\ sk2[s] = n /\ \A t \in Sockets : t # s => sk2[t] = sk[t]
  BY <1>1
<1>3. sk[s].role = "none"
  BY DEF Good, FreeIsBlank
<1>. HIDE DEF sk2
<1>4. FreeIsBlank(sk2)
  BY <1>1, <1>2 DEF Good, FreeIsBlank, Roles
<1>5. OnePerRole(sk2)
  BY <1>1, <1>2 DEF Good, OnePerRole, Vacant
<1>6. NoOrphan(i, sk2)
  BY <1>1, <1>2 DEF Good, NoOrphan
<1>7. Tombstone(i, sk2)
  BY DEF Tombstone
<1>8. Issued(i, sk2, g, a)
  BY <1>1, <1>2 DEF Good, Issued
<1>9. PairBound(i, sk2)
  BY <1>1, <1>2, <1>3 DEF Good, PairBound, Bound, Holds, Roles
<1>10. Counted(i, sk2, h)
  BY <1>1, <1>2 DEF Good, Counted, Bound, Holds
<1>11. QED
  BY <1>2, <1>4, <1>5, <1>6, <1>7, <1>8, <1>9, <1>10 DEF Good, sk2, n

\* A new attempt leaves the rest of the invitation.
LEMMA NewAttemptFields ==
  ASSUME NEW i \in Invitations, NEW b \in Nat
  PROVE  /\ NewAttempt(i, b) \in Invitations
         /\ NewAttempt(i, b).phase = i.phase
         /\ NewAttempt(i, b).generation = i.generation
         /\ NewAttempt(i, b).pairingAttemptID = b
         /\ ~NewAttempt(i, b).viewerAckForwarded
  BY DEF NewAttempt, Invitations

\* A fresh attempt is stored but nobody is bound to it yet.
LEMMA AttemptGood ==
  ASSUME NEW i \in Invitations, NEW sk \in [Sockets -> Attachments], NEW a \in Nat,
         NEW b \in Nat, a < b,
         Mode = "pairing", NEW g \in Nat, NEW h, NEW h2, h2.attempt = b,
         Good(i, sk, g, a, h)
  PROVE  Good(NewAttempt(i, b), sk, g, b, h2)
<1> DEFINE j == NewAttempt(i, b)
<1>1. /\ j \in Invitations /\ j.phase = i.phase /\ j.generation = i.generation
      /\ j.pairingAttemptID = b /\ ~j.viewerAckForwarded
  BY NewAttemptFields
<1> HIDE DEF j
<1>2. \A t \in Sockets : sk[t].pairingAttemptID \in Nat /\ sk[t].generation \in Nat
  BY DEF Attachments
<1>3. ASSUME NEW t \in Sockets, Bound(j, sk, t) PROVE FALSE
  <2>1. sk[t].pairingAttemptID <= a
    BY DEF Good, Issued
  <2>2. sk[t].pairingAttemptID = b
    BY <1>1, <1>3 DEF Bound
  <2>3. QED BY <2>1, <2>2
<1>4. FreeIsBlank(sk) /\ OnePerRole(sk)
  BY DEF Good
<1>5. NoOrphan(j, sk)
  BY <1>1 DEF Good, NoOrphan
<1>6. Tombstone(j, sk)
  BY <1>1 DEF Good, Tombstone, Deserted
<1>7. Issued(j, sk, g, b)
  BY <1>1, <1>2 DEF Good, Issued
<1>8. PairBound(j, sk) /\ Counted(j, sk, h2) /\ AckCurrent(j, h2)
  BY <1>1, <1>3 DEF PairBound, Counted, AckCurrent
<1>9. QED
  BY <1>4, <1>5, <1>6, <1>7, <1>8 DEF Good, j

\* Newcomer and open peer are bound to the fresh attempt together.
LEMMA PairGood ==
  ASSUME NEW i \in Invitations, NEW sk \in [Sockets -> Attachments], NEW a \in Nat,
         NEW b \in Nat, a < b,
         NEW s \in Sockets, NEW peer \in Sockets, NEW role \in Roles,
         sk[s].state = "free", Vacant(i, sk, role), peer \in OpenPeers(i, sk, role),
         i.phase # "absent", Mode = "pairing", NEW g \in Nat, NEW h, NEW h2,
         h2.attempt = b, h2.host = 0, h2.viewer = 0,
         Good(i, sk, g, a, h)
  PROVE  LET sk2 == [sk EXCEPT ![peer] = Rebound(@, b),
                               ![s] = NewAttachment(role, i.generation, b)]
         IN  /\ sk2 \in [Sockets -> Attachments]
             /\ Good(NewAttempt(i, b), sk2, g, b, h2)
<1> DEFINE j == NewAttempt(i, b)
           n == NewAttachment(role, i.generation, b)
           p == Rebound(sk[peer], b)
           sk2 == [sk EXCEPT ![peer] = Rebound(@, b), ![s] = n]
<1>1. /\ j \in Invitations /\ j.phase = i.phase /\ j.generation = i.generation
      /\ j.pairingAttemptID = b /\ ~j.viewerAckForwarded
  BY NewAttemptFields
<1>2. /\ n \in Attachments /\ n.state = "open" /\ n.role = role
      /\ n.generation = i.generation /\ n.pairingAttemptID = b /\ ~n.departed
      /\ n.nextSequence = 0
  BY NewAttachmentFields DEF Invitations
<1>3. /\ sk[peer].state = "open" /\ sk[peer].role = Opposite(role)
      /\ ~sk[peer].departed /\ sk[peer].generation = i.generation
  BY DEF OpenPeers, RoleSockets
<1>4. /\ p \in Attachments /\ p.state = "open" /\ p.role = Opposite(role) /\ ~p.departed
      /\ p.generation = i.generation /\ p.pairingAttemptID = b
      /\ p.nextSequence = 0
  BY <1>3, ReboundFields
<1>5. peer # s
  BY <1>3
<1> HIDE DEF n, p, j
<1>6. /\ sk2 \in [Sockets -> Attachments]
      /\ sk2[s] = n /\ sk2[peer] = p
      /\ \A t \in Sockets : t # s /\ t # peer => sk2[t] = sk[t]
  BY <1>2, <1>4, <1>5 DEF p
<1> HIDE DEF sk2
<1>7. \A t \in Sockets : sk[t].pairingAttemptID \in Nat /\ sk[t].generation \in Nat
  BY DEF Attachments
<1>8. \A t \in Sockets : Bound(j, sk2, t) => t = s \/ t = peer
  BY <1>1, <1>6, <1>7 DEF Good, Issued, Bound
<1>9. FreeIsBlank(sk2)
  BY <1>2, <1>4, <1>6 DEF Good, FreeIsBlank, Roles, Opposite
<1>10. OnePerRole(sk2)
  <2>1. role # Opposite(role)
    BY DEF Roles, Opposite
  <2>2. QED
    BY <1>2, <1>3, <1>4, <1>6, <2>1 DEF Good, OnePerRole, Vacant
<1>11. NoOrphan(j, sk2)
  BY <1>1, <1>2, <1>4, <1>6 DEF Good, NoOrphan
<1>12. Tombstone(j, sk2)
  <2>1. i.phase # "retiring"
    BY <1>3 DEF Good, Tombstone, Deserted, RoleSockets, Roles, Opposite
  <2>2. QED
    BY <1>1, <2>1 DEF Tombstone
<1>13. Issued(j, sk2, g, b)
  BY <1>1, <1>2, <1>4, <1>6, <1>7 DEF Good, Issued
<1>14. PairBound(j, sk2)
  <2>1. Bound(j, sk2, s) /\ Bound(j, sk2, peer)
    BY <1>1, <1>2, <1>4, <1>6 DEF Bound, Holds, Roles, Opposite
  <2>2. sk2[peer].role = Opposite(sk2[s].role) /\ sk2[s].role = Opposite(sk2[peer].role)
    BY <1>2, <1>4, <1>6 DEF Roles, Opposite
  <2>3. QED
    BY <1>8, <2>1, <2>2 DEF PairBound
<1>15. Counted(j, sk2, h2) /\ AckCurrent(j, h2)
  BY <1>1, <1>2, <1>4, <1>6, <1>8 DEF Counted, AckCurrent
<1>16. QED
  BY <1>6, <1>9, <1>10, <1>11, <1>12, <1>13, <1>14, <1>15 DEF Good, j, n, sk2

\* What handleJoin works on once it has reconciled the role.
LEMMA ReconciledGood ==
  ASSUME IInv, NEW role \in Roles, invitation.phase # "absent",
         NEW i, i = ReconciledInvitation(role), NEW sk, sk = ReconciledSockets(role)
  PROVE  /\ i \in Invitations /\ sk \in [Sockets -> Attachments]
         /\ Good(i, sk, lastGeneration, lastAttempt, hist)
         /\ i.generation = invitation.generation /\ i.phase # "absent"
         /\ Unconsumed(i) <=> Unconsumed(invitation)
         /\ \A t \in Sockets : sk[t].state = sock[t].state
         /\ ~OccupiedRole(i, sk, role) => Vacant(i, sk, role)
         /\ ReconciledAlarm(role) \in {"none", "expiry", "retire", "stale"}
<1>1. /\ invitation \in Invitations /\ sock \in [Sockets -> Attachments]
      /\ alarmSet \in {"none", "expiry", "retire", "stale"}
      /\ lastGeneration \in Nat /\ lastAttempt \in Nat
      /\ Good(invitation, sock, lastGeneration, lastAttempt, hist)
  BY DEF IInv, TypeOK
<1>2. CASE ClosedRoleSockets(role) = {}
  <2>1. i = invitation /\ sk = sock /\ ReconciledAlarm(role) = alarmSet
    BY <1>2 DEF ReconciledInvitation, ReconciledSockets, ReconciledAlarm
  <2>2. ~OccupiedRole(i, sk, role) => Vacant(i, sk, role)
    BY <1>2, <2>1 DEF OccupiedRole, RoleSockets, ClosedRoleSockets, Vacant
  <2>3. QED BY <1>1, <2>1, <2>2
<1>3. CASE ClosedRoleSockets(role) # {}
  <2> DEFINE c == First(ClosedRoleSockets(role))
  <2>1. /\ c \in Sockets /\ sock[c].role = role /\ ~sock[c].departed
        /\ sock[c].generation = invitation.generation
    BY <1>3 DEF First, ClosedRoleSockets
  <2>2. /\ i = DepartedInvitation(invitation, sock, c)
        /\ sk = DepartedSockets(invitation, sock, c)
        /\ ReconciledAlarm(role) = DepartedAlarm(invitation, sock, c)
    BY <1>3 DEF ReconciledInvitation, ReconciledSockets, ReconciledAlarm
  <2> HIDE DEF c
  <2>3. Good(i, sk, lastGeneration, lastAttempt, hist)
    BY <1>1, <2>1, <2>2, DepartedGood
  <2>4. /\ i \in Invitations
        /\ i.generation = invitation.generation /\ i.phase # "absent"
        /\ Unconsumed(i) <=> Unconsumed(invitation)
    BY <1>1, <2>1, <2>2, DepartedRecord
  <2>5. /\ sk \in [Sockets -> Attachments]
        /\ sk[c].departed
        /\ \A t \in Sockets : /\ sk[t].state = sock[t].state
                              /\ sk[t].role = sock[t].role
                              /\ sk[t].generation = sock[t].generation
                              /\ t # c => (sk[t].departed <=> sock[t].departed)
    BY <1>1, <2>1, <2>2, DepartedTable
  <2>6. ~OccupiedRole(i, sk, role) => Vacant(i, sk, role)
    <3> SUFFICES ASSUME ~OccupiedRole(i, sk, role), NEW t \in Sockets,
                        sk[t].role = role, ~sk[t].departed, sk[t].generation = i.generation
                 PROVE  FALSE
      BY DEF Vacant
    <3>1. sk[t].state = "closed"
      BY DEF OccupiedRole, RoleSockets
    <3>2. t # c /\ sock[t].role = role /\ ~sock[t].departed
          /\ sock[t].generation = invitation.generation
      BY <2>4, <2>5
    <3>3. QED
      BY <1>1, <2>1, <3>2 DEF Good, OnePerRole
  <2>7. QED
    BY <1>1, <2>2, <2>3, <2>4, <2>5, <2>6 DEF DepartedAlarm
<1>4. QED BY <1>2, <1>3

-----------------------------------------------------------------------------
(* Init and the actions. *)

\* Without an invitation the invariant holds.
LEMMA InitIInv == Init => IInv
<1> SUFFICES ASSUME Init PROVE IInv
  OBVIOUS
<1>1. TypeOK
  BY DEF Init, TypeOK, NoInvitation, Invitations, FreeSocket, Attachments, NotJoining, Roles,
              Histories
<1>2. \A s \in Sockets : /\ sock[s].state = "free" /\ sock[s].role = "none"
                         /\ sock[s].generation = 0 /\ sock[s].pairingAttemptID = 0
  BY DEF Init, FreeSocket
<1>3. /\ invitation.phase = "absent" /\ invitation.generation = 0
      /\ invitation.pairingAttemptID = 0 /\ ~invitation.viewerAckForwarded
  BY DEF Init, NoInvitation
<1>4. Good(invitation, sock, lastGeneration, lastAttempt, hist)
  BY <1>2, <1>3 DEF Init, Good, FreeIsBlank, OnePerRole, NoOrphan, Tombstone, Issued, PairBound,
                    Counted, AckCurrent, Unconsumed, Bound, Roles
<1>5. Suspended /\ Usage
  BY <1>3 DEF Init, Suspended, Usage, Unconsumed
<1>6. QED BY <1>1, <1>4, <1>5 DEF IInv

\* A step that suspends no join keeps the invariant if it keeps the typing, the
\* good state and the usage.
LEMMA StepIInv ==
  ASSUME TypeOK', Good(invitation', sock', lastGeneration', lastAttempt', hist'),
         joining' = NotJoining, Usage'
  PROVE  IInv'
  BY DEF IInv, Suspended, Good, Holds

\* No join is suspended.
LEMMA NotJoiningType == NotJoining \in [role : Roles \cup {"none"}, generation : Nat]
  BY DEF NotJoining

\* A socket departs.
LEMMA DepartureIInv ==
  ASSUME IInv, NEW s \in Sockets, Departure(s) PROVE IInv'
<1>1. /\ invitation \in Invitations /\ sock \in [Sockets -> Attachments]
      /\ lastGeneration \in Nat /\ lastAttempt \in Nat
      /\ Good(invitation, sock, lastGeneration, lastAttempt, hist)
  BY DEF IInv, TypeOK
<1>2. sock[s].role \in Roles /\ ~sock[s].departed
  BY <1>1 DEF Departure, Good, FreeIsBlank, Attachments
<1>3. Good(invitation', sock', lastGeneration', lastAttempt', hist')
  BY <1>1, <1>2, DepartedGood DEF Departure
<1>4. invitation' \in Invitations /\ (Unconsumed(invitation') <=> Unconsumed(invitation))
  BY <1>1, DepartedRecord DEF Departure
<1>5. sock' \in [Sockets -> Attachments]
  BY <1>1, <1>2, DepartedTable DEF Departure
<1>6. TypeOK'
  BY <1>4, <1>5 DEF Departure, DepartedAlarm, IInv, TypeOK
<1>7. Usage'
  BY <1>4 DEF Departure, IInv, Usage, Unconsumed
<1>8. QED
  BY <1>3, <1>6, <1>7, StepIInv DEF Departure

\* The actor is lost between storing a retirement and setting its alarm.
LEMMA RetirementLostIInv ==
  ASSUME IInv, NEW s \in Sockets, RetirementLost(s) PROVE IInv'
<1>1. /\ invitation \in Invitations /\ sock \in [Sockets -> Attachments]
      /\ lastGeneration \in Nat /\ lastAttempt \in Nat
      /\ Good(invitation, sock, lastGeneration, lastAttempt, hist)
  BY DEF IInv, TypeOK
<1>2. sock[s].role \in Roles /\ ~sock[s].departed
  BY <1>1 DEF RetirementLost, Good, FreeIsBlank, Attachments
<1>3. Good(invitation', sock', lastGeneration', lastAttempt', hist')
  BY <1>1, <1>2, DepartedGood DEF RetirementLost
<1>4. invitation' \in Invitations /\ (Unconsumed(invitation') <=> Unconsumed(invitation))
  BY <1>1, DepartedRecord DEF RetirementLost
<1>5. sock' \in [Sockets -> Attachments]
  BY <1>1, <1>2, DepartedTable DEF RetirementLost
<1>6. TypeOK'
  BY <1>4, <1>5 DEF RetirementLost, OldAlarm, IInv, TypeOK
<1>7. Usage'
  BY <1>4 DEF RetirementLost, IInv, Usage, Unconsumed
<1>8. QED
  BY <1>3, <1>6, <1>7, StepIInv DEF RetirementLost

\* The actor is lost between the two parts of a departure.
LEMMA DepartureLostIInv ==
  ASSUME IInv, NEW s \in Sockets, DepartureLost(s) PROVE IInv'
<1> DEFINE sk2 == MarkDeparted(sock, s)
           i2 == AbandonAttempt(invitation)
<1>1. /\ invitation \in Invitations /\ sock \in [Sockets -> Attachments]
      /\ lastGeneration \in Nat /\ lastAttempt \in Nat
      /\ Good(invitation, sock, lastGeneration, lastAttempt, hist)
  BY DEF IInv, TypeOK
<1>2. /\ sk2 \in [Sockets -> Attachments]
      /\ \A t \in Sockets : /\ sk2[t].state = sock[t].state
                            /\ sk2[t].role = sock[t].role
                            /\ sk2[t].generation = sock[t].generation
                            /\ sk2[t].pairingAttemptID = sock[t].pairingAttemptID
                            /\ sock[t].departed => sk2[t].departed
  BY <1>1 DEF MarkDeparted, Attachments
<1>3. Unconsumed(invitation) /\ i2 # invitation
  BY DEF DepartureLost, AbandonAttempt
<1>4. /\ i2 \in Invitations /\ i2.phase = invitation.phase /\ Unconsumed(i2)
      /\ i2.generation = invitation.generation
      /\ i2.pairingAttemptID = 0 /\ ~i2.viewerAckForwarded
  BY <1>1, <1>3, AbandonFields
<1>5. invitation' = i2 /\ sock' = sk2
  BY DEF DepartureLost
<1> HIDE DEF i2, sk2
<1>6. FreeIsBlank(sk2) /\ OnePerRole(sk2)
  BY <1>1, <1>2 DEF Good, FreeIsBlank, OnePerRole
<1>7. NoOrphan(i2, sk2)
  BY <1>1, <1>2, <1>4 DEF Good, NoOrphan
<1>8. Tombstone(i2, sk2)
  BY <1>4 DEF Tombstone, Unconsumed
<1>9. Issued(i2, sk2, lastGeneration, lastAttempt)
  BY <1>1, <1>2, <1>4 DEF Good, Issued
<1>10. PairBound(i2, sk2) /\ Counted(i2, sk2, hist) /\ AckCurrent(i2, hist)
  BY <1>4 DEF PairBound, Counted, AckCurrent, Bound
<1>11. Good(invitation', sock', lastGeneration', lastAttempt', hist')
  BY <1>5, <1>6, <1>7, <1>8, <1>9, <1>10 DEF Good, DepartureLost
<1>12. TypeOK'
  BY <1>2, <1>4, <1>5 DEF DepartureLost, IInv, TypeOK
<1>13. Usage'
  BY <1>3, <1>4, <1>5 DEF DepartureLost, IInv, Usage
<1>14. QED
  BY <1>11, <1>12, <1>13, StepIInv DEF DepartureLost

\* What is stored when no invitation is.
LEMMA NoInvitationFields ==
  /\ NoInvitation \in Invitations /\ NoInvitation.phase = "absent"
  /\ NoInvitation.generation = 0 /\ NoInvitation.pairingAttemptID = 0
  /\ ~NoInvitation.viewerAckForwarded
  BY DEF NoInvitation, Invitations

\* Without open sockets the record may be dropped.
LEMMA DroppedGood ==
  ASSUME NEW i, NEW sk \in [Sockets -> Attachments], NEW g \in Nat, NEW a \in Nat, NEW h,
         Good(i, sk, g, a, h),
         \A t \in Sockets : ~(sk[t].state = "open" /\ ~sk[t].departed)
  PROVE  Good(NoInvitation, sk, g, a, h)
<1>1. FreeIsBlank(sk) /\ OnePerRole(sk) /\ NoOrphan(NoInvitation, sk)
  BY DEF Good, NoOrphan
<1>2. Issued(NoInvitation, sk, g, a)
  BY NoInvitationFields DEF Good, Issued
<1>3. /\ Tombstone(NoInvitation, sk) /\ PairBound(NoInvitation, sk)
      /\ Counted(NoInvitation, sk, h) /\ AckCurrent(NoInvitation, h)
  BY NoInvitationFields DEF Tombstone, PairBound, Counted, AckCurrent, Bound, Unconsumed
<1>4. QED BY <1>1, <1>2, <1>3 DEF Good

\* expireInvitation leaves no socket open.
LEMMA ExpiredGood ==
  ASSUME NEW i \in Invitations, NEW sk \in [Sockets -> Attachments],
         NEW g \in Nat, NEW a \in Nat, NEW h, Good(i, sk, g, a, h)
  PROVE  /\ ExpiredSockets(i, sk) \in [Sockets -> Attachments]
         /\ Good(i, ExpiredSockets(i, sk), g, a, h)
         /\ \A t \in Sockets : ~(ExpiredSockets(i, sk)[t].state = "open"
                                 /\ ~ExpiredSockets(i, sk)[t].departed)
         /\ \A t \in Sockets : ExpiredSockets(i, sk)[t].state = "free" <=> sk[t].state = "free"
<1> DEFINE S == RoleSockets(sk, "host", i.generation, TRUE)
                  \cup RoleSockets(sk, "viewer", i.generation, TRUE)
<1>1. ExpiredSockets(i, sk) = Closing(sk, S)
  BY DEF ExpiredSockets
<1>2. \A t \in Sockets : sk[t].state = "open" /\ ~sk[t].departed => t \in S
  <2> SUFFICES ASSUME NEW t \in Sockets, sk[t].state = "open", ~sk[t].departed
               PROVE  t \in S
    OBVIOUS
  <2>1. sk[t].role \in Roles
    BY DEF Good, FreeIsBlank, Attachments
  <2>2. sk[t].generation = i.generation
    BY DEF Good, NoOrphan
  <2>3. QED
    BY <2>1, <2>2 DEF RoleSockets, Roles
<1> HIDE DEF S
<1>3. QED
  BY <1>1, <1>2, ClosingFields, ClosingGood

\* A viewer joins an invitation that has expired.
LEMMA ViewerFindsExpiredIInv ==
  ASSUME IInv, ViewerFindsExpired PROVE IInv'
<1>1. /\ invitation \in Invitations /\ sock \in [Sockets -> Attachments]
      /\ lastGeneration \in Nat /\ lastAttempt \in Nat
      /\ Good(invitation, sock, lastGeneration, lastAttempt, hist)
  BY DEF IInv, TypeOK
<1>2. sock' \in [Sockets -> Attachments]
      /\ Good(invitation', sock', lastGeneration', lastAttempt', hist')
  BY <1>1, ExpiredGood, DroppedGood DEF ViewerFindsExpired
<1>3. TypeOK'
  BY <1>2, NoInvitationFields DEF ViewerFindsExpired, IInv, TypeOK
<1>4. Usage'
  BY NoInvitationFields DEF ViewerFindsExpired, IInv, Usage, Unconsumed
<1>5. QED
  BY <1>2, <1>3, <1>4, StepIInv DEF ViewerFindsExpired

\* A new invitation is open.
LEMMA NewInvitationFields ==
  ASSUME NEW g \in Nat
  PROVE  /\ NewInvitation(g) \in Invitations /\ NewInvitation(g).phase = "open"
         /\ NewInvitation(g).generation = g /\ NewInvitation(g).pairingAttemptID = 0
         /\ ~NewInvitation(g).viewerAckForwarded
  BY DEF NewInvitation, Invitations

\* A fresh record has no socket yet.
LEMMA IssuedGood ==
  ASSUME NEW sk \in [Sockets -> Attachments], NEW g \in Nat, NEW g2 \in Nat, g < g2,
         NEW a \in Nat, NEW h, NEW h2, Good(NoInvitation, sk, g, a, h)
  PROVE  /\ Good(NewInvitation(g2), sk, g2, a, h2)
         /\ Vacant(NewInvitation(g2), sk, "host")
<1> DEFINE j == NewInvitation(g2)
<1>1. /\ j \in Invitations /\ j.phase = "open" /\ j.generation = g2
      /\ j.pairingAttemptID = 0 /\ ~j.viewerAckForwarded
  BY NewInvitationFields
<1> HIDE DEF j
<1>2. \A t \in Sockets : sk[t].generation \in Nat /\ sk[t].generation <= g
  BY DEF Good, Issued, Attachments
<1>3. ASSUME NEW t \in Sockets PROVE sk[t].generation # j.generation
  <2>1. sk[t].generation <= g /\ sk[t].generation \in Nat
    BY <1>2
  <2>2. QED BY <1>1, <2>1
<1>4. FreeIsBlank(sk) /\ OnePerRole(sk)
  BY DEF Good
<1>5. NoOrphan(j, sk)
  BY NoInvitationFields DEF Good, NoOrphan
<1>6. Issued(j, sk, g2, a)
  BY <1>1, <1>2 DEF Good, Issued
<1>7. Tombstone(j, sk) /\ PairBound(j, sk) /\ Counted(j, sk, h2) /\ AckCurrent(j, h2)
  BY <1>1 DEF Tombstone, PairBound, Counted, AckCurrent, Bound
<1>8. Vacant(j, sk, "host")
  BY <1>3 DEF Vacant
<1>9. QED BY <1>4, <1>5, <1>6, <1>7, <1>8 DEF Good, j

\* The host issues an invitation.
LEMMA HostIssuesIInv ==
  ASSUME IInv, NEW s \in Sockets, HostIssues(s) PROVE IInv'
<1> DEFINE sk == ExpiredSockets(invitation, sock)
           g2 == lastGeneration + 1
           j == NewInvitation(g2)
<1>1. /\ invitation \in Invitations /\ sock \in [Sockets -> Attachments]
      /\ lastGeneration \in Nat /\ lastAttempt \in Nat
      /\ g2 \in Nat /\ lastGeneration < g2
      /\ Good(invitation, sock, lastGeneration, lastAttempt, hist)
  BY DEF IInv, TypeOK
<1>2. /\ sk \in [Sockets -> Attachments]
      /\ Good(NoInvitation, sk, lastGeneration, lastAttempt, hist)
      /\ sk[s].state = "free"
  BY <1>1, ExpiredGood, DroppedGood DEF HostIssues
<1> HIDE DEF sk, g2
<1>3. j \in Invitations /\ j.phase = "open" /\ j.generation = g2
  BY <1>1, NewInvitationFields
<1>4. Good(j, sk, g2, lastAttempt, hist') /\ Vacant(j, sk, "host")
  BY <1>1, <1>2, IssuedGood
<1>5. /\ invitation' = j /\ lastGeneration' = g2
      /\ sock' = [sk EXCEPT ![s] = NewAttachment("host", g2, 0)]
  BY DEF HostIssues, sk, g2
<1> HIDE DEF j
<1>6. /\ sock' \in [Sockets -> Attachments]
      /\ Good(invitation', sock', lastGeneration', lastAttempt', hist')
  <2>1. "host" \in Roles
    BY DEF Roles
  <2>2. sock' = [sk EXCEPT ![s] = NewAttachment("host", j.generation, 0)]
    BY <1>3, <1>5
  <2>3. /\ sock' \in [Sockets -> Attachments]
        /\ Good(j, sock', g2, lastAttempt, hist')
    BY <1>1, <1>2, <1>3, <1>4, <2>1, <2>2, AcceptGood
  <2>4. QED
    BY <1>5, <2>3 DEF HostIssues
<1>7. hist' \in Histories
      /\ hist'.admitted = 0 /\ hist'.usedBy = 0
  BY DEF HostIssues, IInv, TypeOK, Histories
<1>8. TypeOK'
  BY <1>1, <1>3, <1>5, <1>6, <1>7 DEF HostIssues, IInv, TypeOK
<1>9. Usage'
  BY <1>7 DEF Usage
<1>10. QED
  BY <1>6, <1>8, <1>9, StepIInv DEF HostIssues

\* The actor is lost after storing a new invitation.
LEMMA HostIssuesLostIInv ==
  ASSUME IInv, NEW alarm \in {OldAlarm, "expiry"}, HostIssuesLost(alarm) PROVE IInv'
<1> DEFINE sk == ExpiredSockets(invitation, sock)
           g2 == lastGeneration + 1
           j == NewInvitation(g2)
<1>1. /\ invitation \in Invitations /\ sock \in [Sockets -> Attachments]
      /\ lastGeneration \in Nat /\ lastAttempt \in Nat
      /\ g2 \in Nat /\ lastGeneration < g2
      /\ Good(invitation, sock, lastGeneration, lastAttempt, hist)
  BY DEF IInv, TypeOK
<1>2. /\ sk \in [Sockets -> Attachments]
      /\ Good(NoInvitation, sk, lastGeneration, lastAttempt, hist)
  BY <1>1, ExpiredGood, DroppedGood
<1>3. /\ invitation' = j /\ lastGeneration' = g2 /\ sock' = sk
      /\ alarmSet' \in {"none", "expiry", "stale"}
  BY DEF HostIssuesLost, OldAlarm
<1> HIDE DEF sk, g2
<1>4. j \in Invitations
  BY <1>1, NewInvitationFields
<1>5. Good(j, sk, g2, lastAttempt, hist')
  BY <1>1, <1>2, IssuedGood
<1> HIDE DEF j
<1>6. hist' \in Histories /\ hist'.admitted = 0 /\ hist'.usedBy = 0
  BY DEF HostIssuesLost, IInv, TypeOK, Histories
<1>7. TypeOK'
  BY <1>1, <1>2, <1>3, <1>4, <1>6 DEF HostIssuesLost, IInv, TypeOK
<1>8. Usage'
  BY <1>6 DEF Usage
<1>9. Good(invitation', sock', lastGeneration', lastAttempt', hist')
  BY <1>3, <1>5 DEF HostIssuesLost
<1>10. QED
  BY <1>7, <1>8, <1>9, StepIInv DEF HostIssuesLost

\* The actor is lost before an expired invitation is deleted.
LEMMA ExpiryLostIInv ==
  ASSUME IInv, ExpiryLost PROVE IInv'
<1>1. /\ invitation \in Invitations /\ sock \in [Sockets -> Attachments]
      /\ lastGeneration \in Nat /\ lastAttempt \in Nat
      /\ Good(invitation, sock, lastGeneration, lastAttempt, hist)
  BY DEF IInv, TypeOK
<1>2. sock' \in [Sockets -> Attachments]
      /\ Good(invitation', sock', lastGeneration', lastAttempt', hist')
  BY <1>1, ExpiredGood DEF ExpiryLost
<1>3. TypeOK'
  BY <1>2, NotJoiningType DEF ExpiryLost, IInv, TypeOK
<1>4. Usage'
  BY DEF ExpiryLost, IInv, Usage
<1>5. QED
  BY <1>2, <1>3, <1>4, StepIInv DEF ExpiryLost

\* A join is refused.
LEMMA RefuseJoinIInv ==
  ASSUME IInv, NEW role \in Roles, RefuseJoin(role) PROVE IInv'
<1>1. invitation.phase # "absent" /\ joining' = NotJoining
  BY DEF RefuseJoin, JoinReaches
<1>2. /\ invitation' \in Invitations /\ sock' \in [Sockets -> Attachments]
      /\ Good(invitation', sock', lastGeneration, lastAttempt, hist)
      /\ Unconsumed(invitation') <=> Unconsumed(invitation)
      /\ alarmSet' \in {"none", "expiry", "retire", "stale"}
  BY <1>1, ReconciledGood DEF RefuseJoin
<1>3. TypeOK'
  BY <1>2 DEF RefuseJoin, IInv, TypeOK
<1>4. Usage'
  BY <1>2 DEF RefuseJoin, IInv, Usage, Unconsumed
<1>5. Good(invitation', sock', lastGeneration', lastAttempt', hist')
  BY <1>2 DEF RefuseJoin
<1>6. QED
  BY <1>1, <1>3, <1>4, <1>5, StepIInv

\* The host joins and waits for the viewer.
LEMMA HostWaitsIInv ==
  ASSUME IInv, NEW s \in Sockets, HostWaits(s) PROVE IInv'
<1> DEFINE i == ReconciledInvitation("host")
           sk == ReconciledSockets("host")
<1>1. "host" \in Roles
  BY DEF Roles
<1>2. invitation.phase # "absent" /\ joining' = NotJoining
  BY DEF HostWaits, JoinReaches
<1>3. /\ i \in Invitations /\ sk \in [Sockets -> Attachments]
      /\ Good(i, sk, lastGeneration, lastAttempt, hist)
      /\ Unconsumed(i) <=> Unconsumed(invitation)
      /\ ~OccupiedRole(i, sk, "host") => Vacant(i, sk, "host")
      /\ ReconciledAlarm("host") \in {"none", "expiry", "retire", "stale"}
      /\ \A t \in Sockets : sk[t].state = sock[t].state
  BY <1>1, <1>2, ReconciledGood
<1>4. /\ sk[s].state = "free" /\ Unconsumed(i) /\ Vacant(i, sk, "host")
      /\ invitation' = i /\ alarmSet' = ReconciledAlarm("host")
      /\ sock' = [sk EXCEPT ![s] = NewAttachment("host", i.generation, 0)]
  BY <1>3 DEF HostWaits, JoinRefused
<1> HIDE DEF i, sk
<1>5. /\ sock' \in [Sockets -> Attachments]
      /\ Good(i, sock', lastGeneration, lastAttempt, hist)
  BY <1>1, <1>3, <1>4, AcceptGood DEF IInv, TypeOK, Unconsumed
<1>6. Good(invitation', sock', lastGeneration', lastAttempt', hist')
  BY <1>4, <1>5 DEF HostWaits
<1>7. TypeOK'
  BY <1>3, <1>4, <1>5 DEF HostWaits, IInv, TypeOK
<1>8. Usage'
  BY <1>3, <1>4 DEF HostWaits, IInv, Usage, Unconsumed
<1>9. QED
  BY <1>2, <1>6, <1>7, <1>8, StepIInv

\* The history a fresh attempt starts with.
LEMMA AttemptStartedFields ==
  ASSUME NEW h \in Histories, NEW b \in Nat
  PROVE  /\ AttemptStarted(h, b) \in Histories
         /\ AttemptStarted(h, b).attempt = b
         /\ AttemptStarted(h, b).host = 0 /\ AttemptStarted(h, b).viewer = 0
         /\ AttemptStarted(h, b).admitted = h.admitted
         /\ AttemptStarted(h, b).usedBy = h.usedBy
<1> DEFINE Z == 0..3
<1>1. 0 \in Z
  OBVIOUS
<1>2. Histories = [attempt : Nat, host : Z, viewer : Z, admitted : Nat, usedBy : Nat]
  BY DEF Histories
<1> HIDE DEF Z
<1>3. AttemptStarted(h, b) \in Histories
  BY <1>1, <1>2 DEF AttemptStarted
<1>4. QED
  BY <1>2, <1>3 DEF AttemptStarted

\* The second of the two joins, and the attempt starts.
LEMMA StartPairingIInv ==
  ASSUME IInv, NEW role \in Roles, NEW s \in Sockets, NEW sent \in BOOLEAN,
         StartPairing(role, s, sent)
  PROVE  IInv'
<1> DEFINE i == ReconciledInvitation(role)
           sk == ReconciledSockets(role)
           b == lastAttempt + 1
           peer == First(OpenPeers(i, sk, role))
           sk2 == [sk EXCEPT ![peer] = Rebound(@, b), ![s] = NewAttachment(role, i.generation, b)]
<1>1. invitation.phase # "absent" /\ joining' = NotJoining
  BY DEF StartPairing, JoinReaches
<1>2. /\ i \in Invitations /\ sk \in [Sockets -> Attachments]
      /\ Good(i, sk, lastGeneration, lastAttempt, hist)
      /\ i.phase # "absent"
      /\ Unconsumed(i) <=> Unconsumed(invitation)
      /\ ~OccupiedRole(i, sk, role) => Vacant(i, sk, role)
      /\ ReconciledAlarm(role) \in {"none", "expiry", "retire", "stale"}
      /\ \A t \in Sockets : sk[t].state = sock[t].state
  BY <1>1, ReconciledGood
<1>3. /\ Mode = "pairing" /\ sk[s].state = "free" /\ Vacant(i, sk, role)
      /\ OpenPeers(i, sk, role) # {}
      /\ lastAttempt' = b /\ lastGeneration' = lastGeneration
      /\ invitation' = NewAttempt(i, b)
      /\ alarmSet' = ReconciledAlarm(role)
      /\ sock' = ReadySent(sk2, s, peer, sent)
      /\ hist' = AttemptStarted(hist, b)
  BY <1>2 DEF StartPairing, JoinRefused
<1>4. peer \in OpenPeers(i, sk, role) /\ peer \in Sockets
  BY <1>3 DEF First, OpenPeers, RoleSockets
<1>5. /\ lastGeneration \in Nat /\ lastAttempt \in Nat /\ b \in Nat /\ lastAttempt < b
      /\ hist \in Histories
  BY DEF IInv, TypeOK
<1> HIDE DEF i, sk, b, peer
<1>6. /\ hist' \in Histories
      /\ hist'.attempt = b /\ hist'.host = 0 /\ hist'.viewer = 0 /\ hist'.usedBy = hist.usedBy
  BY <1>3, <1>5, AttemptStartedFields
<1>7. /\ sk2 \in [Sockets -> Attachments]
      /\ Good(NewAttempt(i, b), sk2, lastGeneration, b, hist')
  BY ZenonT(60), <1>2, <1>3, <1>4, <1>5, <1>6, PairGood
<1>8. /\ NewAttempt(i, b) \in Invitations
      /\ Unconsumed(NewAttempt(i, b)) <=> Unconsumed(invitation)
  BY <1>2, <1>5, NewAttemptFields DEF Unconsumed
<1> HIDE DEF sk2
<1>9. /\ sock' \in [Sockets -> Attachments]
      /\ Good(NewAttempt(i, b), sock', lastGeneration, b, hist')
  <2>1. CASE sent
    BY <1>3, <1>7, <2>1 DEF ReadySent
  <2>2. CASE ~sent
    <3>1. sock' = Closing(sk2, {s, peer})
      BY <1>3, <2>2 DEF ReadySent
    <3>2. QED BY <1>7, <3>1, ClosingFields, ClosingGood
  <2>3. QED BY <2>1, <2>2
<1>10. Good(invitation', sock', lastGeneration', lastAttempt', hist')
  BY <1>3, <1>9
<1>11. TypeOK'
  BY <1>1, <1>2, <1>3, <1>5, <1>6, <1>8, <1>9, NotJoiningType DEF TypeOK
<1>12. Usage'
  BY <1>3, <1>6, <1>8 DEF IInv, Usage
<1>13. QED
  BY <1>1, <1>10, <1>11, <1>12, StepIInv

\* The actor is lost between storing an attempt and binding the peer to it.
LEMMA StartPairingLostIInv ==
  ASSUME IInv, NEW role \in Roles, StartPairingLost(role) PROVE IInv'
<1> DEFINE i == ReconciledInvitation(role)
           sk == ReconciledSockets(role)
           b == lastAttempt + 1
<1>1. invitation.phase # "absent" /\ joining' = NotJoining
  BY DEF StartPairingLost, JoinReaches
<1>2. /\ i \in Invitations /\ sk \in [Sockets -> Attachments]
      /\ Good(i, sk, lastGeneration, lastAttempt, hist)
      /\ Unconsumed(i) <=> Unconsumed(invitation)
      /\ ReconciledAlarm(role) \in {"none", "expiry", "retire", "stale"}
  BY <1>1, ReconciledGood
<1>3. /\ Mode = "pairing" /\ lastAttempt' = b /\ lastGeneration' = lastGeneration
      /\ invitation' = NewAttempt(i, b) /\ sock' = sk
      /\ alarmSet' = ReconciledAlarm(role)
      /\ hist' = AttemptStarted(hist, b)
  BY DEF StartPairingLost
<1>4. /\ lastGeneration \in Nat /\ lastAttempt \in Nat /\ b \in Nat /\ lastAttempt < b
      /\ hist \in Histories
  BY DEF IInv, TypeOK
<1> HIDE DEF i, sk, b
<1>5. hist' \in Histories /\ hist'.attempt = b /\ hist'.usedBy = hist.usedBy
  BY <1>3, <1>4, AttemptStartedFields
<1>6. Good(NewAttempt(i, b), sk, lastGeneration, b, hist')
  BY <1>2, <1>3, <1>4, <1>5, AttemptGood
<1>7. /\ NewAttempt(i, b) \in Invitations
      /\ Unconsumed(NewAttempt(i, b)) <=> Unconsumed(invitation)
  BY <1>2, <1>4, NewAttemptFields DEF Unconsumed
<1>8. TypeOK'
  BY <1>1, <1>2, <1>3, <1>4, <1>5, <1>7, NotJoiningType DEF TypeOK
<1>9. Usage'
  BY <1>3, <1>5, <1>7 DEF IInv, Usage
<1>10. QED
  BY <1>1, <1>3, <1>6, <1>8, <1>9, StepIInv

\* A join waits for the relay credentials.
LEMMA JoinAwaitsICEIInv ==
  ASSUME IInv, NEW role \in Roles, JoinAwaitsICE(role) PROVE IInv'
<1> DEFINE i == ReconciledInvitation(role)
           sk == ReconciledSockets(role)
<1>1. invitation.phase # "absent" /\ Mode = "invitation"
  BY DEF JoinAwaitsICE, JoinReaches
<1>2. /\ i \in Invitations /\ sk \in [Sockets -> Attachments]
      /\ Good(i, sk, lastGeneration, lastAttempt, hist)
      /\ Unconsumed(i) <=> Unconsumed(invitation)
      /\ ~OccupiedRole(i, sk, role) => Vacant(i, sk, role)
      /\ ReconciledAlarm(role) \in {"none", "expiry", "retire", "stale"}
  BY <1>1, ReconciledGood
<1>3. /\ Vacant(i, sk, role) /\ (role = "viewer" => Unconsumed(i))
      /\ invitation' = i /\ sock' = sk /\ alarmSet' = ReconciledAlarm(role)
      /\ joining' = [role |-> role, generation |-> i.generation]
      /\ lastGeneration' = lastGeneration /\ lastAttempt' = lastAttempt /\ hist' = hist
  BY <1>2 DEF JoinAwaitsICE, JoinRefused
<1> HIDE DEF i, sk
<1>4. /\ joining' \in [role : Roles \cup {"none"}, generation : Nat]
      /\ joining'.role = role /\ joining'.generation = i.generation
  BY <1>2, <1>3 DEF Invitations
<1>5. TypeOK'
  BY <1>2, <1>3, <1>4 DEF IInv, TypeOK
<1>6. Suspended'
  BY <1>1, <1>3, <1>4 DEF Suspended, Vacant
<1>7. Usage'
  BY <1>2, <1>3 DEF IInv, Usage
<1>8. QED
  BY <1>2, <1>3, <1>5, <1>6, <1>7 DEF IInv

\* A consumed invitation is not open and keeps its generation.
LEMMA ConsumeFields ==
  ASSUME NEW i \in Invitations
  PROVE  /\ Consume(i) \in Invitations
         /\ Consume(i).phase = "consumed" /\ ~Unconsumed(Consume(i))
         /\ Consume(i).generation = i.generation
         /\ Consume(i).pairingAttemptID = i.pairingAttemptID
         /\ Consume(i).viewerAckForwarded <=> i.viewerAckForwarded
  BY DEF Consume, Invitations, Unconsumed

\* A consumed invitation is coherent with its sockets.
LEMMA ConsumeGood ==
  ASSUME NEW i \in Invitations, NEW sk, NEW g, NEW a, NEW h,
         i.phase # "absent", Good(i, sk, g, a, h)
  PROVE  Good(Consume(i), sk, g, a, h)
<1> DEFINE j == Consume(i)
<1>1. /\ j \in Invitations /\ j.phase = "consumed" /\ ~Unconsumed(j)
      /\ j.generation = i.generation /\ j.pairingAttemptID = i.pairingAttemptID
      /\ j.viewerAckForwarded <=> i.viewerAckForwarded
  BY ConsumeFields
<1> HIDE DEF j
<1>2. FreeIsBlank(sk) /\ OnePerRole(sk)
  BY DEF Good
<1>3. NoOrphan(j, sk)
  BY <1>1 DEF Good, NoOrphan
<1>4. Tombstone(j, sk) /\ PairBound(j, sk)
  BY <1>1 DEF Tombstone, PairBound
<1>5. Issued(j, sk, g, a)
  BY <1>1 DEF Good, Issued
<1>6. Counted(j, sk, h)
  BY <1>1 DEF Good, Counted, Bound, Holds
<1>7. AckCurrent(j, h)
  BY <1>1 DEF Good, AckCurrent
<1>8. QED
  BY <1>2, <1>3, <1>4, <1>5, <1>6, <1>7 DEF Good, j

\* Only what was forwarded, and in which attempt, matters of the history.
LEMMA SameProgressGood ==
  ASSUME NEW i, NEW sk, NEW g, NEW a, NEW h, NEW h2,
         h2.attempt = h.attempt, h2.host = h.host, h2.viewer = h.viewer,
         Good(i, sk, g, a, h)
  PROVE  Good(i, sk, g, a, h2)
  BY DEF Good, Counted, AckCurrent

\* The history after a viewer was admitted.
LEMMA ViewerAdmittedFields ==
  ASSUME NEW h \in Histories
  PROVE  /\ ViewerAdmitted(h) \in Histories
         /\ ViewerAdmitted(h).attempt = h.attempt
         /\ ViewerAdmitted(h).host = h.host /\ ViewerAdmitted(h).viewer = h.viewer
         /\ ViewerAdmitted(h).admitted = h.admitted + 1
<1>1. h.admitted \in Nat /\ h.admitted + 1 \in Nat
  BY DEF Histories
<1>2. ViewerAdmitted(h) \in Histories
  BY <1>1 DEF ViewerAdmitted, Histories
<1>3. QED
  BY <1>1, <1>2 DEF ViewerAdmitted, Histories

\* The relay credentials arrive for a join that waits.
LEMMA ICEArrivesIInv ==
  ASSUME IInv, NEW s \in Sockets, NEW sent \in BOOLEAN, ICEArrives(s, sent) PROVE IInv'
<1> DEFINE role == joining.role
           peer == First(OpenPeers(invitation, sock, role))
           j == ConsumeForViewer(invitation, role)
           sk2 == [sock EXCEPT ![s] = NewAttachment(role, invitation.generation, 0)]
<1>1. /\ invitation \in Invitations /\ sock \in [Sockets -> Attachments]
      /\ lastGeneration \in Nat /\ lastAttempt \in Nat /\ hist \in Histories
      /\ alarmSet \in {"none", "expiry", "retire", "stale"}
      /\ Good(invitation, sock, lastGeneration, lastAttempt, hist)
  BY DEF IInv, TypeOK
<1>2. /\ invitation.phase # "absent" /\ OpenPeers(invitation, sock, role) # {}
      /\ Vacant(invitation, sock, role) /\ role \in Roles /\ Mode = "invitation"
      /\ role = "viewer" => Unconsumed(invitation)
  BY DEF ICEArrives, ICERecheck, IInv, Suspended, Vacant
<1>3. /\ sock[s].state = "free" /\ joining' = NotJoining
      /\ invitation' = j /\ alarmSet' = alarmSet
      /\ sock' = ReadySent(sk2, s, peer, sent)
      /\ lastGeneration' = lastGeneration /\ lastAttempt' = lastAttempt
      /\ hist' = IF role = "viewer" THEN ViewerAdmitted(hist) ELSE hist
  BY DEF ICEArrives
<1> HIDE DEF role, peer
<1>4. invitation.phase \in {"open", "consumed"}
  <2>1. invitation.phase # "retiring"
    BY <1>1, <1>2 DEF Good, Tombstone, Deserted, OpenPeers, RoleSockets, Roles, Opposite
  <2>2. QED BY <1>1, <1>2, <2>1 DEF Invitations
<1>5. /\ j \in Invitations /\ j.generation = invitation.generation
      /\ j.phase \in {"open", "consumed"}
      /\ Good(j, sock, lastGeneration, lastAttempt, hist)
  BY <1>1, <1>2, <1>4, ConsumeFields, ConsumeGood DEF ConsumeForViewer
<1>6. /\ role = "viewer" => ~Unconsumed(j)
      /\ role # "viewer" => j = invitation
  BY <1>1, ConsumeFields DEF ConsumeForViewer
<1> HIDE DEF j
<1>7. /\ hist' \in Histories
      /\ hist'.attempt = hist.attempt /\ hist'.host = hist.host /\ hist'.viewer = hist.viewer
      /\ role = "viewer" => hist'.admitted = hist.admitted + 1
      /\ role # "viewer" => hist' = hist
  BY <1>1, <1>3, ViewerAdmittedFields
<1>8. /\ sk2 \in [Sockets -> Attachments]
      /\ Good(j, sk2, lastGeneration, lastAttempt, hist)
  <2>1. Vacant(j, sock, role)
    BY <1>2, <1>5 DEF Vacant
  <2>2. sk2 = [sock EXCEPT ![s] = NewAttachment(role, j.generation, 0)]
    BY <1>5
  <2> HIDE DEF sk2
  <2>3. QED
    BY <1>1, <1>2, <1>3, <1>5, <2>1, <2>2, AcceptGood
<1> HIDE DEF sk2
<1>9. /\ sock' \in [Sockets -> Attachments]
      /\ Good(j, sock', lastGeneration, lastAttempt, hist)
  <2>1. CASE sent
    BY <1>3, <1>8, <2>1 DEF ReadySent
  <2>2. CASE ~sent
    <3>1. sock' = Closing(sk2, {s, peer})
      BY <1>3, <2>2 DEF ReadySent
    <3>2. QED BY <1>8, <3>1, ClosingFields, ClosingGood
  <2>3. QED BY <2>1, <2>2
<1>10. Good(invitation', sock', lastGeneration', lastAttempt', hist')
  BY <1>3, <1>7, <1>9, SameProgressGood
<1>11. TypeOK'
  BY <1>1, <1>3, <1>5, <1>7, <1>9, NotJoiningType DEF TypeOK
<1>12. Usage'
  <2>1. CASE role = "viewer"
    <3>1. hist.admitted = 0
      BY <1>1, <1>2, <2>1 DEF IInv, Usage, Histories
    <3>2. QED BY <1>3, <1>6, <1>7, <2>1, <3>1 DEF Usage
  <2>2. CASE role # "viewer"
    BY <1>3, <1>6, <1>7, <2>2 DEF IInv, Usage
  <2>3. QED BY <2>1, <2>2
<1>13. QED
  BY <1>3, <1>10, <1>11, <1>12, StepIInv

\* A waiting join gets no relay credentials, or finds its peer gone.
LEMMA ICERefusedIInv ==
  ASSUME IInv, ICERefused PROVE IInv'
<1>1. TypeOK'
  BY NotJoiningType DEF ICERefused, IInv, TypeOK
<1>2. Good(invitation', sock', lastGeneration', lastAttempt', hist') /\ Usage'
  BY DEF ICERefused, IInv, Usage
<1>3. QED
  BY <1>1, <1>2, StepIInv DEF ICERefused

\* The actor is lost after storing the consumption.
LEMMA ICEConsumedLostIInv ==
  ASSUME IInv, ICEConsumedLost PROVE IInv'
<1>1. /\ invitation \in Invitations /\ invitation.phase # "absent" /\ hist \in Histories
      /\ Good(invitation, sock, lastGeneration, lastAttempt, hist)
  BY DEF ICEConsumedLost, ICERecheck, IInv, TypeOK
<1>2. Unconsumed(invitation) /\ Mode = "invitation"
  BY <1>1 DEF ICEConsumedLost, IInv, Suspended, NotJoining
<1>3. invitation' = Consume(invitation) /\ joining' = NotJoining
  BY DEF ICEConsumedLost, ConsumeForViewer
<1>4. /\ hist' \in Histories /\ hist'.attempt = hist.attempt
      /\ hist'.host = hist.host /\ hist'.viewer = hist.viewer
      /\ hist'.admitted = hist.admitted
  BY <1>1 DEF ICEConsumedLost, Histories
<1>5. Good(invitation', sock, lastGeneration, lastAttempt, hist)
  BY <1>1, <1>3, ConsumeGood
<1>6. Good(invitation', sock', lastGeneration', lastAttempt', hist')
  BY <1>4, <1>5, SameProgressGood DEF ICEConsumedLost
<1>7. invitation' \in Invitations /\ ~Unconsumed(invitation')
  BY <1>1, <1>3, ConsumeFields
<1>8. TypeOK'
  BY <1>3, <1>4, <1>7, NotJoiningType DEF ICEConsumedLost, IInv, TypeOK
<1>9. Usage'
  BY <1>2, <1>4, <1>7 DEF IInv, Usage
<1>10. QED
  BY <1>3, <1>6, <1>8, <1>9, StepIInv

\* A message is rejected and its socket closed.
LEMMA RejectMessageIInv ==
  ASSUME IInv, NEW s \in Sockets, RejectMessage(s) PROVE IInv'
<1>1. /\ sock \in [Sockets -> Attachments]
      /\ Good(invitation, sock, lastGeneration, lastAttempt, hist)
  BY DEF IInv, TypeOK
<1>2. /\ sock' \in [Sockets -> Attachments]
      /\ Good(invitation', sock', lastGeneration', lastAttempt', hist')
  BY <1>1, ClosingFields, ClosingGood DEF RejectMessage
<1>3. TypeOK' /\ Usage'
  BY <1>2 DEF RejectMessage, IInv, TypeOK, Usage
<1>4. QED
  BY <1>2, <1>3, StepIInv DEF RejectMessage

-----------------------------------------------------------------------------
(* Messages. *)

\* Who used the invitation is an attempt.
LEMMA UsedByNat ==
  ASSUME TypeOK, NEW s \in Sockets PROVE UsedBy(s) \in Nat
  BY DEF TypeOK, UsedBy, Attachments, Histories

\* A completion consumes the record; any other message leaves its phase alone.
LEMMA CompletionRecord ==
  ASSUME IInv, NEW s \in Sockets, NEW i, i = ConsumeForCompletion(invitation, s),
         NEW sk, NEW h, Good(invitation, sk, lastGeneration, lastAttempt, h)
  PROVE  /\ i \in Invitations
         /\ Good(i, sk, lastGeneration, lastAttempt, h)
         /\ Unconsumed(i) => i = invitation /\ ~AtHostCompletion(s)
         /\ Mode = "invitation" => i = invitation
<1>1. invitation \in Invitations
  BY DEF IInv, TypeOK
<1>2. CASE AtHostCompletion(s)
  <2>1. i = Consume(invitation) /\ invitation.phase # "absent" /\ Mode = "pairing"
    BY <1>2 DEF ConsumeForCompletion, AtHostCompletion, Unconsumed
  <2>2. QED BY <1>1, <2>1, ConsumeFields, ConsumeGood
<1>3. CASE ~AtHostCompletion(s)
  BY <1>1, <1>3 DEF ConsumeForCompletion
<1>4. QED BY <1>2, <1>3

\* A message cannot be delivered.
LEMMA UndeliveredMessageIInv ==
  ASSUME IInv, NEW s \in Sockets, UndeliveredMessage(s) PROVE IInv'
<1>1. /\ hist \in Histories /\ UsedBy(s) \in Nat
      /\ Good(invitation, sock, lastGeneration, lastAttempt, hist)
  BY UsedByNat DEF IInv, TypeOK
<1>2. /\ invitation' = ConsumeForCompletion(invitation, s) /\ joining' = NotJoining
      /\ hist' = [hist EXCEPT !.usedBy = UsedBy(s)]
  BY DEF UndeliveredMessage, AcceptedMessage
<1>3. /\ hist' \in Histories /\ hist'.attempt = hist.attempt
      /\ hist'.host = hist.host /\ hist'.viewer = hist.viewer
      /\ hist'.admitted = hist.admitted /\ hist'.usedBy = UsedBy(s)
  BY <1>1, <1>2 DEF Histories
<1>4. /\ invitation' \in Invitations
      /\ Good(invitation', sock, lastGeneration, lastAttempt, hist)
      /\ Unconsumed(invitation') => invitation' = invitation /\ ~AtHostCompletion(s)
      /\ Mode = "invitation" => invitation' = invitation
  BY <1>1, <1>2, CompletionRecord
<1>5. Good(invitation', sock', lastGeneration', lastAttempt', hist')
  BY <1>3, <1>4, SameProgressGood DEF UndeliveredMessage
<1>6. TypeOK'
  BY <1>3, <1>4 DEF UndeliveredMessage, IInv, TypeOK
<1>7. Usage'
  BY <1>3, <1>4 DEF IInv, Usage, UsedBy
<1>8. QED
  BY <1>2, <1>5, <1>6, <1>7, StepIInv

\* A socket that sent the next message keeps all else it had.
LEMMA AdvanceFields ==
  ASSUME NEW r \in Attachments
  PROVE  /\ Advance(r) \in Attachments
         /\ Advance(r).state = r.state /\ Advance(r).role = r.role
         /\ Advance(r).generation = r.generation
         /\ Advance(r).pairingAttemptID = r.pairingAttemptID
         /\ Advance(r).nextSequence = r.nextSequence + 1
         /\ Advance(r).departed <=> r.departed
<1>1. r.nextSequence \in Nat /\ r.nextSequence + 1 \in Nat
  BY DEF Attachments
<1>2. Advance(r) \in Attachments
  BY <1>1 DEF Advance, Attachments
<1>3. QED
  BY <1>1, <1>2 DEF Advance, Attachments

\* The count of forwarded messages stops at three.
LEMMA UpToThreeRange ==
  ASSUME NEW n \in 0..3
  PROVE  /\ UpToThree(n) \in 0..3 /\ UpToThree(n) >= n
         /\ n >= 2 => UpToThree(n) = 3
         /\ UpToThree(n) = n + 1 \/ UpToThree(n) = 3
  BY DEF UpToThree

\* The history after a message was forwarded.
LEMMA CountForwardedFields ==
  ASSUME TypeOK, NEW s \in Sockets, NEW h, h = CountForwarded(s)
  PROVE  /\ h \in Histories
         /\ h.attempt = hist.attempt /\ h.admitted = hist.admitted
         /\ h.usedBy = UsedBy(s)
         /\ h.host = IF sock[s].role = "host" THEN UpToThree(hist.host) ELSE hist.host
         /\ h.viewer = IF sock[s].role = "viewer" THEN UpToThree(hist.viewer) ELSE hist.viewer
<1> DEFINE Z == 0..3
           x == IF sock[s].role = "host" THEN UpToThree(hist.host) ELSE hist.host
           y == IF sock[s].role = "viewer" THEN UpToThree(hist.viewer) ELSE hist.viewer
           u == UsedBy(s)
<1>1. hist \in [attempt : Nat, host : Z, viewer : Z, admitted : Nat, usedBy : Nat]
  BY DEF TypeOK, Histories
<1>2. u \in Nat
  BY UsedByNat
<1>3. UpToThree(hist.host) \in Z /\ UpToThree(hist.viewer) \in Z
  BY <1>1, UpToThreeRange
<1>4. x \in Z /\ y \in Z
  <2> HIDE DEF Z
  <2>1. QED BY <1>1, <1>3
<1>5. h = [hist EXCEPT !.host = x, !.viewer = y, !.usedBy = u]
  BY DEF CountForwarded
<1>6. Histories = [attempt : Nat, host : Z, viewer : Z, admitted : Nat, usedBy : Nat]
  BY DEF Histories
<1> HIDE DEF Z, x, y, u
<1>7. h \in Histories
  BY <1>1, <1>2, <1>4, <1>5, <1>6
<1>8. /\ h.attempt = hist.attempt /\ h.admitted = hist.admitted
      /\ h.usedBy = u /\ h.host = x /\ h.viewer = y
  BY <1>1, <1>5
<1>9. QED BY <1>7, <1>8 DEF u, x, y

\* Counting a forwarded message keeps pace with the sender's sequence.
LEMMA ForwardGood ==
  ASSUME IInv, NEW s \in Sockets, CurrentSender(s),
         NEW sk, sk = [sock EXCEPT ![s] = Advance(@)],
         NEW h, h = CountForwarded(s)
  PROVE  /\ sk \in [Sockets -> Attachments]
         /\ Good(invitation, sk, lastGeneration, lastAttempt, h)
<1>1. /\ invitation \in Invitations /\ sock \in [Sockets -> Attachments]
      /\ hist \in Histories
      /\ Good(invitation, sock, lastGeneration, lastAttempt, hist)
  BY DEF IInv, TypeOK
<1>2. /\ h.attempt = hist.attempt
      /\ h.host = IF sock[s].role = "host" THEN UpToThree(hist.host) ELSE hist.host
      /\ h.viewer = IF sock[s].role = "viewer" THEN UpToThree(hist.viewer) ELSE hist.viewer
  BY CountForwardedFields DEF IInv
<1>3. /\ sk \in [Sockets -> Attachments]
      /\ sk[s].nextSequence = sock[s].nextSequence + 1
      /\ \A t \in Sockets : /\ sk[t].state = sock[t].state
                            /\ sk[t].role = sock[t].role
                            /\ sk[t].generation = sock[t].generation
                            /\ sk[t].pairingAttemptID = sock[t].pairingAttemptID
                            /\ sk[t].departed <=> sock[t].departed
                            /\ t # s => sk[t].nextSequence = sock[t].nextSequence
  BY <1>1, AdvanceFields
<1>4. hist.host \in 0..3 /\ hist.viewer \in 0..3
  BY <1>1 DEF Histories
<1>5. /\ UpToThree(hist.host) >= hist.host /\ UpToThree(hist.viewer) >= hist.viewer
      /\ UpToThree(hist.host) = hist.host + 1 \/ UpToThree(hist.host) = 3
      /\ UpToThree(hist.viewer) = hist.viewer + 1 \/ UpToThree(hist.viewer) = 3
      /\ UpToThree(hist.host) \in 0..3 /\ UpToThree(hist.viewer) \in 0..3
  BY <1>4, UpToThreeRange
<1>6. FreeIsBlank(sk) /\ OnePerRole(sk)
  BY <1>1, <1>3 DEF Good, FreeIsBlank, OnePerRole
<1>7. NoOrphan(invitation, sk)
  BY <1>1, <1>3 DEF Good, NoOrphan
<1>8. Tombstone(invitation, sk)
  BY <1>1, <1>3 DEF Good, Tombstone, Deserted, RoleSockets
<1>9. Issued(invitation, sk, lastGeneration, lastAttempt)
  BY <1>1, <1>3 DEF Good, Issued
<1>10. PairBound(invitation, sk)
  BY <1>1, <1>3 DEF Good, PairBound, Bound, Holds
<1>11. Counted(invitation, sk, h)
  <2>1. ASSUME NEW t \in Sockets, Bound(invitation, sk, t)
        PROVE  /\ sk[t].role = "host" => sk[t].nextSequence <= h.host \/ h.host = 3
               /\ sk[t].role = "viewer" => sk[t].nextSequence <= h.viewer \/ h.viewer = 3
    <3>1. Bound(invitation, sock, t)
      BY <1>3, <2>1 DEF Bound, Holds
    <3>2. /\ sock[t].role = "host" => sock[t].nextSequence <= hist.host \/ hist.host = 3
          /\ sock[t].role = "viewer" => sock[t].nextSequence <= hist.viewer \/ hist.viewer = 3
      BY <1>1, <3>1 DEF Good, Counted
    <3>3. sock[t].nextSequence \in Nat
      BY <1>1 DEF Attachments
    <3>4. CASE t = s
      <4>1. sk[t].nextSequence = sock[t].nextSequence + 1 /\ sk[t].role = sock[t].role
        BY <1>3, <3>4
      <4>2. ASSUME sock[t].role = "host" PROVE sk[t].nextSequence <= h.host \/ h.host = 3
        BY <1>2, <1>4, <1>5, <3>2, <3>3, <3>4, <4>1, <4>2
      <4>3. ASSUME sock[t].role = "viewer" PROVE sk[t].nextSequence <= h.viewer \/ h.viewer = 3
        BY <1>2, <1>4, <1>5, <3>2, <3>3, <3>4, <4>1, <4>3
      <4>4. QED BY <4>1, <4>2, <4>3
    <3>5. CASE t # s
      <4>1. sock[t].role # sock[s].role
        BY <1>1, <3>1, <3>5 DEF Good, OnePerRole, Bound, Holds, CurrentSender, StaleCallback
      <4>2. sk[t].nextSequence = sock[t].nextSequence /\ sk[t].role = sock[t].role
        BY <1>3, <3>5
      <4>3. QED BY <1>2, <3>2, <4>1, <4>2
    <3>6. QED BY <3>4, <3>5
  <2>2. invitation.pairingAttemptID # 0 => h.attempt = invitation.pairingAttemptID
    BY <1>1, <1>2 DEF Good, Counted
  <2>3. QED BY <2>1, <2>2 DEF Counted
<1>12. AckCurrent(invitation, h)
  <2>1. h.host >= hist.host /\ h.viewer >= hist.viewer
        /\ h.host \in 0..3 /\ h.viewer \in 0..3
    BY <1>2, <1>4, <1>5
  <2>2. QED BY <1>1, <1>2, <1>4, <2>1 DEF Good, AckCurrent
<1>13. QED
  BY <1>3, <1>6, <1>7, <1>8, <1>9, <1>10, <1>11, <1>12 DEF Good

\* A recorded acknowledgement leaves the rest of the invitation.
LEMMA RecordAckFields ==
  ASSUME NEW i \in Invitations
  PROVE  /\ RecordAck(i) \in Invitations
         /\ RecordAck(i).phase = i.phase
         /\ RecordAck(i).generation = i.generation
         /\ RecordAck(i).pairingAttemptID = i.pairingAttemptID
  BY DEF RecordAck, Invitations

\* Recording progress needs the progress.
LEMMA RecordAckGood ==
  ASSUME NEW i \in Invitations, NEW sk, NEW g, NEW a, NEW h, Good(i, sk, g, a, h),
         AckCurrent(RecordAck(i), h)
  PROVE  Good(RecordAck(i), sk, g, a, h)
<1> DEFINE j == RecordAck(i)
<1>1. /\ j \in Invitations /\ j.phase = i.phase
      /\ j.generation = i.generation /\ j.pairingAttemptID = i.pairingAttemptID
      /\ AckCurrent(j, h)
  BY RecordAckFields
<1> HIDE DEF j
<1>2. FreeIsBlank(sk) /\ OnePerRole(sk)
  BY DEF Good
<1>3. NoOrphan(j, sk)
  BY <1>1 DEF Good, NoOrphan
<1>4. Tombstone(j, sk)
  BY <1>1 DEF Good, Tombstone, Deserted
<1>5. Issued(j, sk, g, a)
  BY <1>1 DEF Good, Issued
<1>6. PairBound(j, sk)
  BY <1>1 DEF Good, PairBound, Bound, Holds, Unconsumed
<1>7. Counted(j, sk, h)
  BY <1>1 DEF Good, Counted, Bound, Holds
<1>8. QED
  BY <1>1, <1>2, <1>3, <1>4, <1>5, <1>6, <1>7 DEF Good, j

\* The viewer's acknowledgement completes the progress it records: the viewer
\* is bound to the current attempt, so its host is the host of that attempt.
LEMMA AckIsCurrent ==
  ASSUME IInv, NEW s \in Sockets, CurrentSender(s), OrderedAcrossRoles(s), AtViewerAck(s)
  PROVE  AckCurrent(RecordAck(invitation), CountForwarded(s))
<1> DEFINE h == CountForwarded(s)
           hosts == RoleSockets(sock, "host", invitation.generation, FALSE)
<1>1. /\ invitation \in Invitations /\ sock \in [Sockets -> Attachments]
      /\ hist \in Histories
      /\ Good(invitation, sock, lastGeneration, lastAttempt, hist)
  BY DEF IInv, TypeOK
<1>2. /\ Unconsumed(invitation) /\ Mode = "pairing"
      /\ sock[s].role = "viewer" /\ sock[s].nextSequence = 2
  BY DEF AtViewerAck
<1>3. Bound(invitation, sock, s)
  BY <1>2 DEF CurrentSender, StaleCallback, Bound, Holds
<1>4. PICK t \in Sockets : Bound(invitation, sock, t) /\ sock[t].role = "host"
  BY <1>1, <1>2, <1>3 DEF Good, PairBound, Opposite
<1>5. hosts # {} /\ sock[First(hosts)].nextSequence >= 3
  BY DEF OrderedAcrossRoles
<1>6. First(hosts) = t
  <2>1. First(hosts) \in hosts
    BY <1>5 DEF First
  <2>2. /\ First(hosts) \in Sockets /\ sock[First(hosts)].role = "host"
        /\ ~sock[First(hosts)].departed
        /\ sock[First(hosts)].generation = invitation.generation
    BY <2>1 DEF RoleSockets
  <2>3. QED
    BY <1>1, <1>4, <2>2 DEF Good, OnePerRole, Bound, Holds
<1> HIDE DEF hosts
<1>7. hist.host \in 0..3 /\ hist.viewer \in 0..3 /\ sock[t].nextSequence \in Nat
  BY <1>1 DEF Histories, Attachments
<1>8. hist.host = 3
  <2>1. sock[t].nextSequence <= hist.host \/ hist.host = 3
    BY <1>1, <1>4 DEF Good, Counted
  <2>2. sock[t].nextSequence >= 3
    BY <1>5, <1>6
  <2>3. QED BY <1>7, <2>1, <2>2
<1>9. hist.viewer >= 2
  <2>1. sock[s].nextSequence <= hist.viewer \/ hist.viewer = 3
    BY <1>1, <1>2, <1>3 DEF Good, Counted
  <2>2. QED BY <1>2, <1>7, <2>1
<1>10. /\ h.attempt = hist.attempt /\ h.host = hist.host
       /\ h.viewer = UpToThree(hist.viewer)
  BY <1>2, CountForwardedFields DEF IInv
<1>11. h.host >= 3 /\ h.viewer >= 3
  BY <1>7, <1>8, <1>9, <1>10, UpToThreeRange
<1>12. invitation.pairingAttemptID # 0 /\ h.attempt = invitation.pairingAttemptID
  BY <1>1, <1>3, <1>10 DEF Good, Counted, Bound
<1> HIDE DEF h
<1>13. QED
  BY <1>1, <1>11, <1>12, RecordAckFields DEF AckCurrent, h

\* A message is forwarded to the peer.
LEMMA ForwardMessageIInv ==
  ASSUME IInv, NEW s \in Sockets, ForwardMessage(s) PROVE IInv'
<1>1. /\ CurrentSender(s) /\ OrderedAcrossRoles(s) /\ joining' = NotJoining
      /\ sock' = [sock EXCEPT ![s] = Advance(@)] /\ hist' = CountForwarded(s)
      /\ invitation' = IF AtViewerAck(s) THEN RecordAck(invitation)
                       ELSE ConsumeForCompletion(invitation, s)
      /\ lastGeneration' = lastGeneration /\ lastAttempt' = lastAttempt
      /\ alarmSet' = alarmSet
  BY DEF ForwardMessage, AcceptedMessage
<1>2. /\ sock' \in [Sockets -> Attachments]
      /\ Good(invitation, sock', lastGeneration, lastAttempt, hist')
  BY <1>1, ForwardGood
<1>3. /\ hist' \in Histories /\ hist'.admitted = hist.admitted /\ hist'.usedBy = UsedBy(s)
  BY <1>1, CountForwardedFields DEF IInv
<1>4. CASE AtViewerAck(s)
  <2>1. invitation' = RecordAck(invitation) /\ invitation \in Invitations
    BY <1>1, <1>4 DEF IInv, TypeOK
  <2>2. Good(invitation', sock', lastGeneration', lastAttempt', hist')
    BY <1>1, <1>2, <1>4, <2>1, AckIsCurrent, RecordAckGood
  <2>3. invitation' \in Invitations /\ (Unconsumed(invitation') <=> Unconsumed(invitation))
    BY <2>1, RecordAckFields DEF Unconsumed
  <2>4. TypeOK'
    BY <1>1, <1>2, <1>3, <2>3, NotJoiningType DEF IInv, TypeOK
  <2>5. UsedBy(s) = hist.usedBy /\ Mode = "pairing"
    BY <1>4 DEF UsedBy, AtHostCompletion, AtViewerAck
  <2>6. Usage'
    BY <1>3, <2>3, <2>5 DEF IInv, Usage
  <2>7. QED BY <1>1, <2>2, <2>4, <2>6, StepIInv
<1>5. CASE ~AtViewerAck(s)
  <2>1. invitation' = ConsumeForCompletion(invitation, s)
    BY <1>1, <1>5
  <2>2. /\ invitation' \in Invitations
        /\ Good(invitation', sock', lastGeneration, lastAttempt, hist')
        /\ Unconsumed(invitation') => invitation' = invitation /\ ~AtHostCompletion(s)
        /\ Mode = "invitation" => invitation' = invitation
    BY <1>2, <2>1, CompletionRecord
  <2>3. TypeOK'
    BY <1>1, <1>2, <1>3, <2>2, NotJoiningType DEF IInv, TypeOK
  <2>4. Usage'
    BY <1>3, <2>2 DEF IInv, Usage, UsedBy
  <2>5. QED BY <1>1, <2>2, <2>3, <2>4, StepIInv
<1>6. QED BY <1>4, <1>5

\* The actor is lost between forwarding an acknowledgement and recording it.
LEMMA AckForwardedLostIInv ==
  ASSUME IInv, NEW s \in Sockets, AckForwardedLost(s) PROVE IInv'
<1>1. /\ CurrentSender(s) /\ AtViewerAck(s) /\ joining' = NotJoining
      /\ sock' = [sock EXCEPT ![s] = Advance(@)] /\ hist' = CountForwarded(s)
      /\ invitation' = invitation /\ alarmSet' = alarmSet
      /\ lastGeneration' = lastGeneration /\ lastAttempt' = lastAttempt
  BY DEF AckForwardedLost, AcceptedMessage
<1>2. /\ sock' \in [Sockets -> Attachments]
      /\ Good(invitation, sock', lastGeneration, lastAttempt, hist')
  BY <1>1, ForwardGood
<1>3. /\ hist' \in Histories /\ hist'.admitted = hist.admitted /\ hist'.usedBy = UsedBy(s)
  BY <1>1, CountForwardedFields DEF IInv
<1>4. UsedBy(s) = hist.usedBy /\ Mode = "pairing"
  BY <1>1 DEF UsedBy, AtHostCompletion, AtViewerAck
<1>5. TypeOK'
  BY <1>1, <1>2, <1>3, NotJoiningType DEF IInv, TypeOK
<1>6. Usage'
  BY <1>1, <1>3, <1>4 DEF IInv, Usage
<1>7. QED BY <1>1, <1>2, <1>5, <1>6, StepIInv

-----------------------------------------------------------------------------
(* Steps that may happen while a join is suspended. *)

\* A suspended join keeps the socket it waits with.
LEMMA SuspendedKept ==
  ASSUME Suspended, joining' = joining,
         \A t \in Sockets : \/ sock'[t].role = "none"
                            \/ /\ sock'[t].role = sock[t].role
                               /\ sock'[t].generation = sock[t].generation
                               /\ sock'[t].departed <=> sock[t].departed,
         invitation'.phase = "absent" \/ invitation'.phase = invitation.phase
  PROVE  Suspended'
  BY DEF Suspended, Roles, Unconsumed

\* The alarm fires.
LEMMA AlarmIInv ==
  ASSUME IInv, Alarm PROVE IInv'
<1>1. /\ invitation \in Invitations /\ sock \in [Sockets -> Attachments]
      /\ lastGeneration \in Nat /\ lastAttempt \in Nat
      /\ Good(invitation, sock, lastGeneration, lastAttempt, hist)
      /\ Suspended
  BY DEF IInv, TypeOK
<1>2. /\ joining' = joining /\ lastGeneration' = lastGeneration /\ lastAttempt' = lastAttempt
      /\ hist' = hist /\ alarmSet' = "none"
  BY DEF Alarm
<1>3. CASE invitation.phase \in {"open", "retiring"} /\ invitation.late
  <2>1. invitation' = NoInvitation
    BY <1>3 DEF Alarm
  <2>2. /\ sock' \in [Sockets -> Attachments]
        /\ Good(invitation', sock', lastGeneration', lastAttempt', hist')
        /\ \A t \in Sockets : /\ sock'[t].role = sock[t].role
                              /\ sock'[t].generation = sock[t].generation
                              /\ sock'[t].departed <=> sock[t].departed
    <3>1. CASE invitation.phase = "open"
      <4>1. sock' = ExpiredSockets(invitation, sock)
        BY <1>3, <3>1 DEF Alarm, Expired, Unconsumed
      <4>2. /\ sock' \in [Sockets -> Attachments]
            /\ Good(NoInvitation, sock', lastGeneration, lastAttempt, hist)
        BY <1>1, <4>1, ExpiredGood, DroppedGood
      <4>3. \A t \in Sockets : /\ sock'[t].role = sock[t].role
                               /\ sock'[t].generation = sock[t].generation
                               /\ sock'[t].departed <=> sock[t].departed
        BY <1>1, <4>1, ClosingFields DEF ExpiredSockets
      <4>4. QED BY <1>2, <2>1, <4>2, <4>3
    <3>2. CASE invitation.phase = "retiring"
      <4>1. sock' = sock
        BY <1>3, <3>2 DEF Alarm, Expired, Unconsumed
      <4>2. ASSUME NEW t \in Sockets, sock[t].state = "open", ~sock[t].departed
            PROVE  FALSE
        <5>1. sock[t].role \in Roles
          BY <1>1, <4>2 DEF Good, FreeIsBlank, Attachments
        <5>2. sock[t].generation = invitation.generation
          BY <1>1, <4>2 DEF Good, NoOrphan
        <5>3. Deserted(invitation, sock)
          BY <1>1, <3>2 DEF Good, Tombstone
        <5>4. QED BY <4>2, <5>1, <5>2, <5>3 DEF Deserted, RoleSockets
      <4>3. Good(NoInvitation, sock, lastGeneration, lastAttempt, hist)
        BY <1>1, <4>2, DroppedGood
      <4>4. QED BY <1>1, <1>2, <2>1, <4>1, <4>3
    <3>3. QED BY <1>3, <3>1, <3>2
  <2>3. TypeOK'
    BY <1>2, <2>1, <2>2, NoInvitationFields DEF IInv, TypeOK
  <2>4. Suspended'
    BY <1>1, <1>2, <2>1, <2>2, NoInvitationFields, SuspendedKept
  <2>5. Usage'
    BY <1>2, <2>1, NoInvitationFields DEF IInv, Usage, Unconsumed
  <2>6. QED BY <2>2, <2>3, <2>4, <2>5 DEF IInv
<1>4. CASE ~(invitation.phase \in {"open", "retiring"} /\ invitation.late)
  <2>1. invitation' = invitation /\ sock' = sock
    BY <1>4 DEF Alarm
  <2>2. QED BY <1>2, <2>1 DEF IInv, TypeOK, Suspended, Usage
<1>5. QED BY <1>3, <1>4

\* The deadline of the invitation passes.
LEMMA DeadlinePassesIInv ==
  ASSUME IInv, DeadlinePasses PROVE IInv'
<1>1. /\ invitation \in Invitations
      /\ Good(invitation, sock, lastGeneration, lastAttempt, hist)
      /\ Suspended
  BY DEF IInv, TypeOK
<1>2. /\ invitation' \in Invitations /\ invitation'.phase = invitation.phase
      /\ invitation'.generation = invitation.generation
      /\ invitation'.pairingAttemptID = invitation.pairingAttemptID
      /\ invitation'.viewerAckForwarded <=> invitation.viewerAckForwarded
  BY <1>1 DEF DeadlinePasses, Invitations
<1>3. /\ sock' = sock /\ joining' = joining /\ hist' = hist
      /\ lastGeneration' = lastGeneration /\ lastAttempt' = lastAttempt
  BY DEF DeadlinePasses
<1>4. NoOrphan(invitation', sock) /\ Tombstone(invitation', sock)
  BY <1>1, <1>2 DEF Good, NoOrphan, Tombstone, Deserted
<1>5. Issued(invitation', sock, lastGeneration, lastAttempt)
  BY <1>1, <1>2 DEF Good, Issued
<1>6. PairBound(invitation', sock)
  BY <1>1, <1>2 DEF Good, PairBound, Bound, Holds, Unconsumed
<1>7. Counted(invitation', sock, hist) /\ AckCurrent(invitation', hist)
  BY <1>1, <1>2 DEF Good, Counted, AckCurrent, Bound, Holds
<1>8. Good(invitation', sock', lastGeneration', lastAttempt', hist')
  BY <1>1, <1>3, <1>4, <1>5, <1>6, <1>7 DEF Good
<1>9. TypeOK'
  BY <1>2 DEF DeadlinePasses, IInv, TypeOK
<1>10. Suspended' /\ Usage'
  BY <1>2, <1>3 DEF IInv, Suspended, Usage, Unconsumed
<1>11. QED BY <1>8, <1>9, <1>10 DEF IInv

\* A socket closes.
LEMMA SocketClosesIInv ==
  ASSUME IInv, NEW s \in Sockets, SocketCloses(s) PROVE IInv'
<1>1. /\ sock \in [Sockets -> Attachments]
      /\ Good(invitation, sock, lastGeneration, lastAttempt, hist)
      /\ Suspended
  BY DEF IInv, TypeOK
<1>2. /\ sock' \in [Sockets -> Attachments]
      /\ sock'[s].state = "closed" /\ sock[s].state # "free"
      /\ \A t \in Sockets : /\ t # s => sock'[t].state = sock[t].state
                            /\ sock'[t].role = sock[t].role
                            /\ sock'[t].generation = sock[t].generation
                            /\ sock'[t].pairingAttemptID = sock[t].pairingAttemptID
                            /\ sock'[t].nextSequence = sock[t].nextSequence
                            /\ sock'[t].departed <=> sock[t].departed
  BY <1>1 DEF SocketCloses, Attachments
<1>3. /\ invitation' = invitation /\ joining' = joining /\ hist' = hist
      /\ lastGeneration' = lastGeneration /\ lastAttempt' = lastAttempt
  BY DEF SocketCloses
<1>4. FreeIsBlank(sock') /\ OnePerRole(sock')
  BY <1>1, <1>2 DEF Good, FreeIsBlank, OnePerRole
<1>5. NoOrphan(invitation, sock')
  BY <1>1, <1>2 DEF Good, NoOrphan
<1>6. Tombstone(invitation, sock')
  BY <1>1, <1>2 DEF Good, Tombstone, Deserted, RoleSockets
<1>7. Issued(invitation, sock', lastGeneration, lastAttempt)
  BY <1>1, <1>2 DEF Good, Issued
<1>8. PairBound(invitation, sock') /\ Counted(invitation, sock', hist)
  BY <1>1, <1>2 DEF Good, PairBound, Counted, Bound, Holds
<1>9. Good(invitation', sock', lastGeneration', lastAttempt', hist')
  BY <1>1, <1>3, <1>4, <1>5, <1>6, <1>7, <1>8 DEF Good
<1>10. TypeOK' /\ Usage'
  BY <1>2 DEF SocketCloses, IInv, TypeOK, Usage
<1>11. Suspended'
  BY <1>1, <1>2, <1>3, SuspendedKept
<1>12. QED BY <1>9, <1>10, <1>11 DEF IInv

\* A closed socket is forgotten.
LEMMA SocketForgottenIInv ==
  ASSUME IInv, NEW s \in Sockets, SocketForgotten(s) PROVE IInv'
<1>1. /\ sock \in [Sockets -> Attachments]
      /\ lastGeneration \in Nat /\ lastAttempt \in Nat
      /\ Good(invitation, sock, lastGeneration, lastAttempt, hist)
      /\ Suspended
  BY DEF IInv, TypeOK
<1>2. /\ FreeSocket \in Attachments /\ FreeSocket.state = "free" /\ FreeSocket.role = "none"
      /\ FreeSocket.generation = 0 /\ FreeSocket.pairingAttemptID = 0
  BY DEF FreeSocket, Attachments
<1>3. /\ sock' \in [Sockets -> Attachments] /\ sock[s].departed
      /\ sock'[s] = FreeSocket /\ \A t \in Sockets : t # s => sock'[t] = sock[t]
  BY <1>1, <1>2 DEF SocketForgotten
<1>4. /\ invitation' = invitation /\ joining' = joining /\ hist' = hist
      /\ lastGeneration' = lastGeneration /\ lastAttempt' = lastAttempt
  BY DEF SocketForgotten
<1>5. FreeIsBlank(sock') /\ OnePerRole(sock')
  BY <1>1, <1>2, <1>3 DEF Good, FreeIsBlank, OnePerRole, Roles
<1>6. NoOrphan(invitation, sock')
  BY <1>1, <1>2, <1>3 DEF Good, NoOrphan
<1>7. Tombstone(invitation, sock')
  BY <1>1, <1>2, <1>3 DEF Good, Tombstone, Deserted, RoleSockets, Roles
<1>8. Issued(invitation, sock', lastGeneration, lastAttempt)
  BY <1>1, <1>2, <1>3 DEF Good, Issued
<1>9. \A t \in Sockets : Bound(invitation, sock', t) <=> Bound(invitation, sock, t) /\ t # s
  BY <1>2, <1>3 DEF Bound, Holds, Roles
<1>10. PairBound(invitation, sock')
  <2> SUFFICES ASSUME Unconsumed(invitation), NEW t \in Sockets, Bound(invitation, sock', t)
               PROVE  \E u \in Sockets : /\ Bound(invitation, sock', u)
                                         /\ sock'[u].role = Opposite(sock'[t].role)
    BY DEF PairBound
  <2>1. PICK u \in Sockets : Bound(invitation, sock, u) /\ sock[u].role = Opposite(sock[t].role)
    BY <1>1, <1>9 DEF Good, PairBound
  <2>2. u # s
    BY <1>3, <2>1 DEF Bound, Holds
  <2>3. t # s
    BY <1>9
  <2>4. QED BY <1>3, <1>9, <2>1, <2>2, <2>3
<1>11. Counted(invitation, sock', hist)
  BY <1>1, <1>3, <1>9 DEF Good, Counted
<1>12. Good(invitation', sock', lastGeneration', lastAttempt', hist')
  BY <1>1, <1>4, <1>5, <1>6, <1>7, <1>8, <1>10, <1>11 DEF Good
<1>13. TypeOK' /\ Usage'
  BY <1>3 DEF SocketForgotten, IInv, TypeOK, Usage
<1>14. Suspended'
  BY <1>1, <1>2, <1>3, <1>4, SuspendedKept
<1>15. QED BY <1>12, <1>13, <1>14 DEF IInv

-----------------------------------------------------------------------------
(* The invariant and what follows from it. *)

\* Every step keeps the invariant.
LEMMA NextIInv == IInv /\ [Next]_vars => IInv'
<1> SUFFICES ASSUME IInv, [Next]_vars PROVE IInv'
  OBVIOUS
<1>1. CASE UNCHANGED vars
  BY <1>1 DEF vars, IInv, TypeOK, Suspended, Usage
<1>2. CASE ViewerFindsExpired \/ ExpiryLost
  BY <1>2, ViewerFindsExpiredIInv, ExpiryLostIInv
<1>3. CASE \E role \in Roles : RefuseJoin(role) \/ JoinAwaitsICE(role) \/ StartPairingLost(role)
  BY <1>3, RefuseJoinIInv, JoinAwaitsICEIInv, StartPairingLostIInv
<1>4. CASE \E role \in Roles, s \in Sockets, sent \in BOOLEAN : StartPairing(role, s, sent)
  BY <1>4, StartPairingIInv
<1>5. CASE \E s \in Sockets, sent \in BOOLEAN : ICEArrives(s, sent)
  BY <1>5, ICEArrivesIInv
<1>6. CASE ICERefused \/ ICEConsumedLost
  BY <1>6, ICERefusedIInv, ICEConsumedLostIInv
<1>7. CASE \/ \E s \in Sockets : HostIssues(s) \/ HostWaits(s)
           \/ \E alarm \in {OldAlarm, "expiry"} : HostIssuesLost(alarm)
  BY <1>7, HostIssuesIInv, HostWaitsIInv, HostIssuesLostIInv
<1>8. CASE \E s \in Sockets : \/ RejectMessage(s) \/ UndeliveredMessage(s)
                              \/ ForwardMessage(s) \/ AckForwardedLost(s)
  BY <1>8, RejectMessageIInv, UndeliveredMessageIInv, ForwardMessageIInv, AckForwardedLostIInv
<1>9. CASE \E s \in Sockets : Departure(s) \/ DepartureLost(s) \/ RetirementLost(s)
  BY <1>9, DepartureIInv, DepartureLostIInv, RetirementLostIInv
<1>10. CASE \E s \in Sockets : SocketCloses(s) \/ SocketForgotten(s)
  BY <1>10, SocketClosesIInv, SocketForgottenIInv
<1>11. CASE Alarm \/ DeadlinePasses
  BY <1>11, AlarmIInv, DeadlinePassesIInv
<1>12. QED
  BY <1>1, <1>2, <1>3, <1>4, <1>5, <1>6, <1>7, <1>8, <1>9, <1>10, <1>11 DEF Next

\* The inductive invariant holds in every reachable state of the Durable Object.
THEOREM Invariance == Spec => []IInv
<1>1. QED BY InitIInv, NextIInv, PTL DEF Spec

\* Every handler keeps the record, the attachments and the alarm well formed.
THEOREM TypeCorrect == Spec => []TypeOK
<1>1. IInv => TypeOK
  BY DEF IInv
<1>2. QED BY <1>1, Invariance, PTL

\* handleJoin never admits a second holder of a role, whatever closing sockets,
\* late callbacks and suspended joins there are.
THEOREM RoleExclusion == Spec => []OneSocketPerRole
<1>1. IInv => OneSocketPerRole
  BY DEF IInv, Good, OnePerRole, OneSocketPerRole
<1>2. QED BY <1>1, Invariance, PTL

\* Expiry, retirement and the alarm leave no client on a dead invitation.
THEOREM OrphanFreedom == Spec => []NoOrphanSocket
<1>1. IInv => NoOrphanSocket
  BY DEF IInv, Good, NoOrphan, NoOrphanSocket
<1>2. QED BY <1>1, Invariance, PTL

\* A tombstone waiting for its alarm has no live socket.
THEOREM TombstoneSafety == Spec => []TombstoneDeserted
<1>1. IInv => TombstoneDeserted
  BY DEF IInv, Good, Tombstone, TombstoneDeserted
<1>2. QED BY <1>1, Invariance, PTL

\* A legacy invitation admits one viewer.
THEOREM ViewerExclusion == Spec => []OneViewerAdmitted
<1>1. IInv => OneViewerAdmitted
  BY DEF IInv, Usage, OneViewerAdmitted
<1>2. QED BY <1>1, Invariance, PTL

\* Stored acknowledgement progress is the current attempt's own.
THEOREM AckProgress == Spec => []AckProgressIsCurrent
<1>1. IInv => AckProgressIsCurrent
  BY DEF IInv, Good, AckCurrent, AckProgressIsCurrent
<1>2. QED BY <1>1, Invariance, PTL

-----------------------------------------------------------------------------
(* Every step as a step of the one-use invitation. *)

\* The phase of the one-use invitation that an invitation stands for.
LEMMA AbstractPhases ==
  ASSUME NEW i \in Invitations
  PROVE  /\ AbstractPhase(i) \in {"absent", "open", "used"}
         /\ AbstractPhase(i) = "absent" <=> i.phase = "absent"
         /\ AbstractPhase(i) = "open" <=> Unconsumed(i)
         /\ i.phase = "consumed" => AbstractPhase(i) = "used"
  BY DEF AbstractPhase, Unconsumed, Invitations

\* The three abstract variables stay as they are.
Stutters ==
  /\ AbstractPhase(invitation') = AbstractPhase(invitation)
  /\ lastGeneration' = lastGeneration
  /\ hist'.usedBy = hist.usedBy

\* The open invitation is used up; a pairing one by its acknowledged attempt.
Uses ==
  /\ Unconsumed(invitation) /\ hist.usedBy = 0
  /\ AbstractPhase(invitation') = "used"
  /\ lastGeneration' = lastGeneration
  /\ hist'.usedBy \in Nat \ {0}
  /\ Mode = "pairing" => /\ invitation.viewerAckForwarded
                         /\ hist'.usedBy = invitation.pairingAttemptID

Drops ==
  /\ AbstractPhase(invitation) # "absent" /\ AbstractPhase(invitation') = "absent"
  /\ lastGeneration' = lastGeneration
  /\ hist'.usedBy = hist.usedBy

Issues ==
  /\ AbstractPhase(invitation) # "used" /\ AbstractPhase(invitation') = "open"
  /\ lastGeneration' = lastGeneration + 1
  /\ hist'.usedBy = 0

\* A step that changes neither the phase nor the use is a stutter of the
\* one-use invitation.
LEMMA SamePhaseStutters ==
  ASSUME TypeOK, TypeOK',
         invitation'.phase = "absent" <=> invitation.phase = "absent",
         Unconsumed(invitation') <=> Unconsumed(invitation),
         lastGeneration' = lastGeneration, hist'.usedBy = hist.usedBy
  PROVE  Stutters
<1>1. invitation \in Invitations /\ invitation' \in Invitations
  BY DEF TypeOK
<1>2. /\ AbstractPhase(invitation) \in {"absent", "open", "used"}
      /\ AbstractPhase(invitation) = "absent" <=> invitation.phase = "absent"
      /\ AbstractPhase(invitation) = "open" <=> Unconsumed(invitation)
  BY <1>1, AbstractPhases
<1>3. /\ AbstractPhase(invitation') \in {"absent", "open", "used"}
      /\ AbstractPhase(invitation') = "absent" <=> invitation'.phase = "absent"
      /\ AbstractPhase(invitation') = "open" <=> Unconsumed(invitation')
  BY <1>1, AbstractPhases
<1>4. QED BY <1>2, <1>3 DEF Stutters

\* The reconciliation before a join leaves the invitation as open as it was.
LEMMA ReconciledPhase ==
  ASSUME IInv, NEW role \in Roles, invitation.phase # "absent"
  PROVE  /\ ReconciledInvitation(role) \in Invitations
         /\ ReconciledInvitation(role).phase # "absent"
         /\ Unconsumed(ReconciledInvitation(role)) <=> Unconsumed(invitation)
  BY ReconciledGood

\* A join is a stutter of the one-use invitation.
LEMMA JoinStutters ==
  ASSUME IInv, IInv', NEW role \in Roles,
         \/ RefuseJoin(role) \/ JoinAwaitsICE(role) \/ StartPairingLost(role)
         \/ \E s \in Sockets, sent \in BOOLEAN : StartPairing(role, s, sent)
         \/ role = "host" /\ \E s \in Sockets : HostWaits(s)
  PROVE  Stutters
<1> DEFINE i == ReconciledInvitation(role)
<1>1. invitation.phase # "absent" /\ lastGeneration' = lastGeneration
  BY DEF RefuseJoin, JoinAwaitsICE, StartPairingLost, StartPairing, HostWaits, JoinReaches
<1>2. i \in Invitations /\ i.phase # "absent" /\ (Unconsumed(i) <=> Unconsumed(invitation))
  BY <1>1, ReconciledPhase
<1>3. /\ hist \in Histories /\ lastAttempt \in Nat /\ lastAttempt + 1 \in Nat
      /\ TypeOK /\ TypeOK'
  BY DEF IInv, TypeOK
<1>4. \/ invitation' = i /\ hist' = hist
      \/ /\ invitation' = NewAttempt(i, lastAttempt + 1)
         /\ hist' = AttemptStarted(hist, lastAttempt + 1)
  BY DEF RefuseJoin, JoinAwaitsICE, StartPairingLost, StartPairing, HostWaits
<1> HIDE DEF i
<1>5. hist'.usedBy = hist.usedBy
  BY <1>3, <1>4, AttemptStartedFields
<1>6. invitation'.phase = i.phase
  BY <1>2, <1>3, <1>4, NewAttemptFields
<1>7. QED
  BY <1>1, <1>2, <1>3, <1>5, <1>6, SamePhaseStutters DEF Unconsumed

\* So is a departure.
LEMMA DepartureStutters ==
  ASSUME IInv, IInv', NEW s \in Sockets,
         Departure(s) \/ DepartureLost(s) \/ RetirementLost(s)
  PROVE  Stutters
<1>1. invitation \in Invitations /\ sock \in [Sockets -> Attachments] /\ TypeOK /\ TypeOK'
  BY DEF IInv, TypeOK
<1>2. lastGeneration' = lastGeneration /\ hist' = hist
  BY DEF Departure, DepartureLost, RetirementLost
<1>3. CASE Departure(s) \/ RetirementLost(s)
  <2>1. /\ invitation'.phase = "absent" <=> invitation.phase = "absent"
        /\ Unconsumed(invitation') <=> Unconsumed(invitation)
    BY <1>1, <1>3, DepartedRecord DEF Departure, RetirementLost
  <2>2. QED BY <1>1, <1>2, <2>1, SamePhaseStutters
<1>4. CASE DepartureLost(s)
  <2>1. Unconsumed(invitation) /\ invitation' = AbandonAttempt(invitation)
    BY <1>4 DEF DepartureLost, AbandonAttempt
  <2>2. invitation'.phase = invitation.phase
    BY <1>1, <2>1, AbandonFields
  <2>3. QED BY <1>1, <1>2, <2>2, SamePhaseStutters DEF Unconsumed
<1>5. QED BY <1>3, <1>4

\* A completion is forwarded, or lost, by the acknowledged attempt only.
LEMMA MessageAbstract ==
  ASSUME IInv, IInv', NEW s \in Sockets,
         \/ UndeliveredMessage(s) \/ ForwardMessage(s) \/ AckForwardedLost(s)
  PROVE  Stutters \/ Uses
<1>1. /\ invitation \in Invitations /\ sock \in [Sockets -> Attachments]
      /\ hist \in Histories /\ TypeOK /\ TypeOK'
  BY DEF IInv, TypeOK
<1>2. CurrentSender(s) /\ OrderedAcrossRoles(s) /\ lastGeneration' = lastGeneration
  BY DEF UndeliveredMessage, ForwardMessage, AckForwardedLost, AcceptedMessage
<1>3. hist'.usedBy = UsedBy(s)
  <2>1. CASE UndeliveredMessage(s)
    BY <1>1, <2>1 DEF UndeliveredMessage, Histories
  <2>2. CASE hist' = CountForwarded(s)
    BY <1>1, <2>2, CountForwardedFields
  <2>3. QED BY <2>1, <2>2 DEF ForwardMessage, AckForwardedLost
<1>4. CASE AtHostCompletion(s)
  <2>1. invitation' = Consume(invitation)
    BY <1>4 DEF UndeliveredMessage, ForwardMessage, AckForwardedLost, AtViewerAck,
                AtHostCompletion, ConsumeForCompletion
  <2>2. AbstractPhase(invitation') = "used"
    BY <1>1, <2>1, ConsumeFields, AbstractPhases
  <2>3. Unconsumed(invitation) /\ hist.usedBy = 0 /\ Mode = "pairing"
    BY <1>4 DEF AtHostCompletion, IInv, Usage
  <2>4. hist'.usedBy = invitation.pairingAttemptID /\ invitation.pairingAttemptID # 0
    BY <1>2, <1>3, <1>4, <2>3 DEF UsedBy, CurrentSender, StaleCallback
  <2>5. invitation.viewerAckForwarded
    BY <1>2, <1>4 DEF OrderedAcrossRoles
  <2>6. invitation.pairingAttemptID \in Nat
    BY <1>1 DEF Invitations
  <2>7. QED BY <1>2, <2>2, <2>3, <2>4, <2>5, <2>6 DEF Uses
<1>5. CASE ~AtHostCompletion(s)
  <2>1. invitation' = invitation \/ invitation' = RecordAck(invitation)
    BY <1>5 DEF UndeliveredMessage, ForwardMessage, AckForwardedLost, ConsumeForCompletion
  <2>2. invitation'.phase = invitation.phase
    BY <1>1, <2>1, RecordAckFields
  <2>3. hist'.usedBy = hist.usedBy
    BY <1>3, <1>5 DEF UsedBy
  <2>4. QED BY <1>1, <1>2, <2>2, <2>3, SamePhaseStutters DEF Unconsumed
<1>6. QED BY <1>4, <1>5

\* The relay credentials use the invitation or change nothing of it.
LEMMA ICEAbstract ==
  ASSUME IInv, IInv',
         \/ \E s \in Sockets, sent \in BOOLEAN : ICEArrives(s, sent)
         \/ ICERefused \/ ICEConsumedLost
  PROVE  Stutters \/ Uses
<1>1. invitation \in Invitations /\ hist \in Histories /\ TypeOK /\ TypeOK'
  BY DEF IInv, TypeOK
<1>2. lastGeneration' = lastGeneration
  BY DEF ICEArrives, ICERefused, ICEConsumedLost
<1>3. CASE /\ joining.role = "viewer" /\ joining # NotJoining /\ invitation.phase # "absent"
           /\ invitation' = Consume(invitation) /\ hist'.usedBy = 1
  <2>1. Unconsumed(invitation) /\ hist.usedBy = 0 /\ Mode = "invitation"
    BY <1>3 DEF IInv, Suspended, Usage
  <2>2. AbstractPhase(invitation') = "used"
    BY <1>1, <1>3, ConsumeFields, AbstractPhases
  <2>3. QED BY <1>2, <1>3, <2>1, <2>2 DEF Uses
<1>4. CASE invitation' = invitation /\ hist' = hist
  BY <1>1, <1>2, <1>4, SamePhaseStutters
<1>5. CASE \E s \in Sockets, sent \in BOOLEAN : ICEArrives(s, sent)
  <2>1. CASE joining.role = "viewer"
    <3>1. /\ joining # NotJoining /\ invitation.phase # "absent"
          /\ invitation' = Consume(invitation) /\ hist' = ViewerAdmitted(hist)
      BY <1>5, <2>1 DEF ICEArrives, ICERecheck, ConsumeForViewer
    <3>2. hist'.usedBy = 1
      BY <1>1, <3>1 DEF ViewerAdmitted, Histories
    <3>3. QED BY <1>3, <2>1, <3>1, <3>2
  <2>2. CASE joining.role # "viewer"
    <3>1. invitation' = invitation /\ hist' = hist
      BY <1>5, <2>2 DEF ICEArrives, ConsumeForViewer
    <3>2. QED BY <1>4, <3>1
  <2>3. QED BY <2>1, <2>2
<1>6. CASE ICERefused
  BY <1>4, <1>6 DEF ICERefused
<1>7. CASE ICEConsumedLost
  <2>1. /\ joining.role = "viewer" /\ invitation.phase # "absent"
        /\ invitation' = Consume(invitation) /\ hist' = [hist EXCEPT !.usedBy = 1]
    BY <1>7 DEF ICEConsumedLost, ICERecheck, ConsumeForViewer
  <2>2. joining # NotJoining
    BY <2>1 DEF NotJoining
  <2>3. hist'.usedBy = 1
    BY <1>1, <2>1 DEF Histories
  <2>4. QED BY <1>3, <2>1, <2>2, <2>3
<1>8. QED BY <1>5, <1>6, <1>7

\* Every step changes the abstract invitation in one of the four ways.
LEMMA StepAbstract ==
  ASSUME IInv, IInv', [Next]_vars PROVE Stutters \/ Uses \/ Drops \/ Issues
<1>1. /\ invitation \in Invitations /\ invitation' \in Invitations
      /\ TypeOK /\ TypeOK'
  BY DEF IInv, TypeOK
<1>2. CASE UNCHANGED vars
  BY <1>2 DEF vars, Stutters
<1>3. CASE ViewerFindsExpired
  BY <1>1, <1>3, AbstractPhases, NoInvitationFields DEF ViewerFindsExpired, Expired, Drops
<1>4. CASE \E role \in Roles : \/ RefuseJoin(role) \/ JoinAwaitsICE(role)
                               \/ StartPairingLost(role)
                               \/ \E s \in Sockets, sent \in BOOLEAN : StartPairing(role, s, sent)
  BY <1>4, JoinStutters
<1>5. CASE \/ \E s \in Sockets, sent \in BOOLEAN : ICEArrives(s, sent)
           \/ ICERefused \/ ICEConsumedLost
  BY <1>5, ICEAbstract
<1>6. ASSUME \/ \E s \in Sockets : HostIssues(s)
             \/ \E alarm \in {OldAlarm, "expiry"} : HostIssuesLost(alarm)
      PROVE  Issues
  <2>1. invitation' = NewInvitation(lastGeneration + 1) /\ lastGeneration + 1 \in Nat
    BY <1>1, <1>6 DEF HostIssues, HostIssuesLost, TypeOK
  <2>2. AbstractPhase(invitation') = "open"
    BY <1>1, <2>1, AbstractPhases, NewInvitationFields DEF Unconsumed
  <2>3. AbstractPhase(invitation) # "used"
    BY <1>1, <1>6, AbstractPhases DEF HostIssues, HostIssuesLost, Expired
  <2>4. lastGeneration' = lastGeneration + 1 /\ hist'.usedBy = 0
    BY <1>1, <1>6 DEF HostIssues, HostIssuesLost, TypeOK, Histories
  <2>5. QED BY <2>2, <2>3, <2>4 DEF Issues
<1>7. ASSUME NEW s \in Sockets, HostWaits(s) PROVE Stutters
  BY <1>7, JoinStutters DEF Roles
<1>8. CASE \E s \in Sockets : \/ UndeliveredMessage(s) \/ ForwardMessage(s)
                              \/ AckForwardedLost(s)
  BY <1>8, MessageAbstract
<1>9. CASE \E s \in Sockets : Departure(s) \/ DepartureLost(s) \/ RetirementLost(s)
  BY <1>9, DepartureStutters
<1>10. CASE \/ ExpiryLost
            \/ \E s \in Sockets : RejectMessage(s) \/ SocketCloses(s) \/ SocketForgotten(s)
  BY <1>10 DEF ExpiryLost, RejectMessage, SocketCloses, SocketForgotten, Stutters
<1>11. CASE Alarm
  <2>1. CASE invitation.phase \in {"open", "retiring"} /\ invitation.late
    <3>1. /\ invitation' = NoInvitation /\ hist' = hist /\ lastGeneration' = lastGeneration
      BY <1>11, <2>1 DEF Alarm
    <3>2. AbstractPhase(invitation') = "absent" /\ AbstractPhase(invitation) # "absent"
      BY <1>1, <2>1, <3>1, AbstractPhases, NoInvitationFields
    <3>3. QED BY <3>1, <3>2 DEF Drops
  <2>2. CASE ~(invitation.phase \in {"open", "retiring"} /\ invitation.late)
    BY <1>11, <2>2 DEF Alarm, Stutters
  <2>3. QED BY <2>1, <2>2
<1>12. CASE DeadlinePasses
  <2>1. invitation'.phase = invitation.phase
    BY <1>1, <1>12 DEF DeadlinePasses, Invitations
  <2>2. QED BY <1>1, <1>12, <2>1, SamePhaseStutters DEF DeadlinePasses, Unconsumed
<1>13. QED
  BY <1>2, <1>3, <1>4, <1>5, <1>6, <1>7, <1>8, <1>9, <1>10, <1>11, <1>12 DEF Next

\* A pairing invitation is consumed by the very attempt whose proposal and
\* acknowledgement were forwarded.
THEOREM ConsumeOnlyCompleted == Spec => ConsumeNeedsExchange
<1>1. ASSUME IInv, IInv', [Next]_vars,
             Mode = "pairing", invitation.phase = "open", invitation'.phase = "consumed"
      PROVE  /\ hist'.usedBy = hist.attempt
             /\ hist.attempt = invitation.pairingAttemptID
             /\ hist.host >= 3 /\ hist.viewer >= 3
  <2>1. invitation \in Invitations /\ invitation' \in Invitations
    BY <1>1 DEF IInv, TypeOK
  <2>2. AbstractPhase(invitation) = "open" /\ AbstractPhase(invitation') = "used"
    BY <1>1, <2>1, AbstractPhases DEF Unconsumed
  <2>3. Uses
    BY <1>1, <2>2, StepAbstract DEF Stutters, Drops, Issues
  <2>4. QED
    BY <1>1, <2>3 DEF Uses, IInv, Good, AckCurrent
<1>2. IInv /\ IInv' /\ [Next]_vars =>
        [Mode = "pairing" /\ invitation.phase = "open" /\ invitation'.phase = "consumed"
         => /\ hist'.usedBy = hist.attempt
            /\ hist.attempt = invitation.pairingAttemptID
            /\ hist.host >= 3 /\ hist.viewer >= 3]_vars
  BY <1>1
<1>3. QED BY <1>2, Invariance, PTL DEF Spec, ConsumeNeedsExchange

\* The Durable Object implements the one-use invitation, losses inside its
\* handlers included.
THEOREM OneUseRefinement == Spec => ImplementsOneUse
<1>1. Init => OneUse!Init
  BY DEF Init, OneUse!Init, AbstractPhase, NoInvitation
<1>2. ASSUME IInv, IInv', [Next]_vars PROVE [OneUse!Next]_(OneUse!vars)
  <2>1. invitation \in Invitations
    BY <1>2 DEF IInv, TypeOK
  <2>2. AbstractPhase(invitation) \in {"absent", "open", "used"}
        /\ (AbstractPhase(invitation) = "open" <=> Unconsumed(invitation))
    BY <2>1, AbstractPhases
  <2>3. CASE Stutters
    BY <2>3 DEF Stutters, OneUse!vars
  <2>4. CASE Uses
    BY <2>2, <2>4 DEF Uses, OneUse!Next, OneUse!Use
  <2>5. CASE Drops
    BY <2>2, <2>5 DEF Drops, OneUse!Next, OneUse!Expire, OneUse!Retire
  <2>6. CASE Issues
    BY <2>2, <2>6 DEF Issues, OneUse!Next, OneUse!Issue
  <2>7. QED BY <1>2, <2>3, <2>4, <2>5, <2>6, StepAbstract
<1>3. QED BY <1>1, <1>2, Invariance, PTL DEF Spec, ImplementsOneUse, OneUse!Spec

-----------------------------------------------------------------------------
(* A live attempt. *)

Surviving(h, v) ==
  LivePair(h, v) /\ \A s \in {h, v} : sock'[s].state = "open" /\ ~sock'[s].departed

\* What LiveAttemptProgresses demands of a step.
Progresses(h, v) ==
  /\ invitation'.pairingAttemptID = invitation.pairingAttemptID
  /\ invitation.viewerAckForwarded => invitation'.viewerAckForwarded
  /\ sock'[h].nextSequence >= sock[h].nextSequence
  /\ sock'[v].nextSequence >= sock[v].nextSequence
  /\ ~Unconsumed(invitation) => ~Unconsumed(invitation')

\* The two sockets fill both roles, so nobody else holds one.
LEMMA PairHoldsRoles ==
  ASSUME IInv, NEW h \in Sockets, NEW v \in Sockets, LivePair(h, v)
  PROVE  /\ \A t \in Sockets : /\ sock[t].role \in Roles /\ ~sock[t].departed
                               /\ sock[t].generation = invitation.generation
                               => t \in {h, v}
         /\ \A role \in Roles : /\ OccupiedRole(invitation, sock, role)
                                /\ ClosedRoleSockets(role) = {}
         /\ ~Deserted(invitation, sock)
<1>1. OnePerRole(sock)
  BY DEF IInv, Good
<1>2. /\ \A s \in {h, v} : /\ sock[s].state = "open" /\ ~sock[s].departed
                           /\ sock[s].generation = invitation.generation
      /\ sock[h].role = "host" /\ sock[v].role = "viewer"
  BY DEF LivePair
<1>3. ASSUME NEW t \in Sockets, sock[t].role \in Roles, ~sock[t].departed,
             sock[t].generation = invitation.generation
      PROVE  t \in {h, v}
  BY <1>1, <1>2, <1>3 DEF OnePerRole, Roles
<1>4. ASSUME NEW role \in Roles
      PROVE  OccupiedRole(invitation, sock, role) /\ ClosedRoleSockets(role) = {}
  <2>1. OccupiedRole(invitation, sock, role)
    BY <1>2 DEF OccupiedRole, RoleSockets, Roles
  <2>2. ClosedRoleSockets(role) = {}
    BY <1>2, <1>3 DEF ClosedRoleSockets
  <2>3. QED BY <2>1, <2>2
<1>5. ~Deserted(invitation, sock)
  BY <1>2 DEF Deserted, RoleSockets, Roles
<1>6. QED BY <1>3, <1>4, <1>5

\* Expiry closes every socket of the generation.
LEMMA ExpiryClosesPair ==
  ASSUME IInv, NEW h \in Sockets, NEW v \in Sockets, LivePair(h, v)
  PROVE  ExpiredSockets(invitation, sock)[h].state = "closing"
<1> DEFINE S == RoleSockets(sock, "host", invitation.generation, TRUE)
                  \cup RoleSockets(sock, "viewer", invitation.generation, TRUE)
<1>1. sock \in [Sockets -> Attachments]
  BY DEF IInv, TypeOK
<1>2. h \in S /\ sock[h].state = "open"
  BY DEF LivePair, RoleSockets
<1>3. ExpiredSockets(invitation, sock) = Closing(sock, S)
  BY DEF ExpiredSockets
<1> HIDE DEF S
<1>4. QED BY <1>1, <1>2, <1>3, ClosingFields

\* No step that drops or replaces the record leaves the host's socket open.
LEMMA ReplacementEndsPair ==
  ASSUME IInv, NEW h \in Sockets, NEW v \in Sockets, Surviving(h, v),
         \/ ViewerFindsExpired \/ ExpiryLost
         \/ \E s \in Sockets : HostIssues(s)
         \/ \E alarm \in {OldAlarm, "expiry"} : HostIssuesLost(alarm)
  PROVE  FALSE
<1>1. /\ LivePair(h, v) /\ sock[h].state = "open" /\ sock'[h].state = "open"
      /\ invitation.phase # "absent"
  BY DEF Surviving, LivePair
<1>2. sock \in [Sockets -> Attachments]
  BY DEF IInv, TypeOK
<1>3. /\ ExpiredSockets(invitation, sock)[h].state = "closing"
      /\ ExpiredSockets(invitation, sock) \in [Sockets -> Attachments]
  BY <1>1, <1>2, ExpiryClosesPair, ClosingFields DEF ExpiredSockets
<1>4. CASE sock' = ExpiredSockets(invitation, sock)
  BY <1>1, <1>3, <1>4
<1>5. ASSUME NEW s \in Sockets, HostIssues(s) PROVE FALSE
  <2>1. s # h /\ sock' = [ExpiredSockets(invitation, sock) EXCEPT
                            ![s] = NewAttachment("host", lastGeneration + 1, 0)]
    BY <1>1, <1>5 DEF HostIssues
  <2>2. QED BY <1>1, <1>3, <2>1
<1>6. QED
  BY <1>4, <1>5 DEF ViewerFindsExpired, ExpiryLost, HostIssuesLost

\* A join of either role is refused before it changes anything, a suspended one
\* by its re-check.
LEMMA JoinKeepsPair ==
  ASSUME IInv, NEW h \in Sockets, NEW v \in Sockets, Surviving(h, v),
         \/ \E role \in Roles : RefuseJoin(role) \/ JoinAwaitsICE(role) \/ StartPairingLost(role)
         \/ \E role \in Roles, s \in Sockets, sent \in BOOLEAN : StartPairing(role, s, sent)
         \/ \E s \in Sockets : HostWaits(s)
         \/ \E s \in Sockets, sent \in BOOLEAN : ICEArrives(s, sent)
         \/ ICERefused \/ ICEConsumedLost
  PROVE  invitation' = invitation /\ sock' = sock
<1>1. \A role \in Roles : /\ OccupiedRole(invitation, sock, role)
                          /\ ClosedRoleSockets(role) = {}
  BY PairHoldsRoles DEF Surviving
<1>2. \A role \in Roles : /\ ReconciledInvitation(role) = invitation
                          /\ ReconciledSockets(role) = sock
                          /\ JoinRefused(ReconciledInvitation(role), ReconciledSockets(role), role)
  BY <1>1 DEF ReconciledInvitation, ReconciledSockets, JoinRefused
<1>3. CASE \E role \in Roles : RefuseJoin(role) \/ JoinAwaitsICE(role) \/ StartPairingLost(role)
  BY <1>2, <1>3 DEF RefuseJoin, JoinAwaitsICE, StartPairingLost
<1>4. CASE \E role \in Roles, s \in Sockets, sent \in BOOLEAN : StartPairing(role, s, sent)
  BY <1>2, <1>4 DEF StartPairing
<1>5. CASE \E s \in Sockets : HostWaits(s)
  BY <1>2, <1>5 DEF HostWaits, Roles
<1>6. ASSUME joining # NotJoining, ICERecheck PROVE FALSE
  BY <1>1, <1>6 DEF ICERecheck, IInv, Suspended
<1>7. CASE \E s \in Sockets, sent \in BOOLEAN : ICEArrives(s, sent)
  BY <1>6, <1>7 DEF ICEArrives
<1>8. CASE ICERefused
  BY <1>8 DEF ICERefused
<1>9. CASE ICEConsumedLost
  BY <1>6, <1>9 DEF ICEConsumedLost, NotJoining
<1>10. QED BY <1>3, <1>4, <1>5, <1>7, <1>8, <1>9

\* The callback of a third socket is stale: it only marks that socket.
LEMMA DepartureKeepsPair ==
  ASSUME IInv, NEW h \in Sockets, NEW v \in Sockets, Surviving(h, v),
         NEW s \in Sockets, Departure(s) \/ DepartureLost(s) \/ RetirementLost(s)
  PROVE  invitation' = invitation /\ sock'[h] = sock[h] /\ sock'[v] = sock[v]
<1>1. /\ invitation \in Invitations /\ sock \in [Sockets -> Attachments]
      /\ FreeIsBlank(sock) /\ LivePair(h, v)
  BY DEF IInv, TypeOK, Good, Surviving
<1>2. sock[s].state # "free" /\ ~sock[s].departed
  BY DEF Departure, DepartureLost, RetirementLost
<1>3. sock[s].role \in Roles
  BY <1>1, <1>2 DEF FreeIsBlank, Attachments
<1>4. sock'[s].departed
  <2>1. CASE sock' = DepartedSockets(invitation, sock, s)
    BY <1>1, <1>3, <2>1, DepartedTable
  <2>2. CASE sock' = MarkDeparted(sock, s)
    BY <1>1, <2>2 DEF MarkDeparted, Attachments
  <2>3. QED BY <2>1, <2>2 DEF Departure, DepartureLost, RetirementLost
<1>5. s # h /\ s # v
  BY <1>4 DEF Surviving
<1>6. StaleCallback(invitation, sock[s])
  BY <1>1, <1>2, <1>3, <1>5, PairHoldsRoles DEF StaleCallback
<1>7. /\ invitation' = invitation /\ sock' = MarkDeparted(sock, s)
  BY <1>6 DEF Departure, DepartureLost, RetirementLost, DepartedInvitation, DepartedSockets
<1>8. QED BY <1>1, <1>5, <1>7 DEF MarkDeparted

\* A message only advances its sender, records the acknowledgement or consumes.
LEMMA MessageProgresses ==
  ASSUME IInv, NEW h \in Sockets, NEW v \in Sockets, Surviving(h, v),
         NEW s \in Sockets,
         \/ RejectMessage(s) \/ UndeliveredMessage(s) \/ ForwardMessage(s) \/ AckForwardedLost(s)
  PROVE  Progresses(h, v)
<1>1. invitation \in Invitations /\ sock \in [Sockets -> Attachments]
  BY DEF IInv, TypeOK
<1>2. \A t \in Sockets : sock'[t].nextSequence >= sock[t].nextSequence
  <2>1. CASE sock' = sock
    BY <1>1, <2>1 DEF Attachments
  <2>2. CASE sock' = Closing(sock, {s})
    <3>1. \A t \in Sockets : sock'[t].nextSequence = sock[t].nextSequence
      BY <1>1, <2>2, ClosingFields
    <3>2. \A t \in Sockets : sock[t].nextSequence \in Nat
      BY <1>1 DEF Attachments
    <3>3. QED BY <3>1, <3>2
  <2>3. CASE sock' = [sock EXCEPT ![s] = Advance(@)]
    <3>1. \A t \in Sockets : sock[t] \in Attachments /\ sock[t].nextSequence \in Nat
      BY <1>1 DEF Attachments
    <3>2. Advance(sock[s]).nextSequence = sock[s].nextSequence + 1
      BY <3>1 DEF Advance, Attachments
    <3>3. \A t \in Sockets : sock'[t] = IF t = s THEN Advance(sock[s]) ELSE sock[t]
      BY <1>1, <2>3
    <3>4. QED BY <3>1, <3>2, <3>3
  <2>4. QED
    BY <2>1, <2>2, <2>3 DEF RejectMessage, UndeliveredMessage, ForwardMessage, AckForwardedLost
<1>3. \/ invitation' = invitation
      \/ invitation' = Consume(invitation) /\ AtHostCompletion(s)
      \/ invitation' = RecordAck(invitation)
  BY DEF RejectMessage, UndeliveredMessage, ForwardMessage, AckForwardedLost, ConsumeForCompletion
<1>4. CASE invitation' = invitation
  BY <1>2, <1>4 DEF Progresses
<1>5. CASE invitation' = Consume(invitation) /\ AtHostCompletion(s)
  BY <1>1, <1>2, <1>5, ConsumeFields DEF Progresses, AtHostCompletion
<1>6. CASE invitation' = RecordAck(invitation)
  <2>1. /\ invitation'.phase = invitation.phase
        /\ invitation'.pairingAttemptID = invitation.pairingAttemptID
    BY <1>1, <1>6, RecordAckFields
  <2>2. invitation'.viewerAckForwarded
    BY <1>1, <1>6 DEF RecordAck, Invitations
  <2>3. QED BY <1>2, <2>1, <2>2 DEF Progresses, Unconsumed
<1>7. QED BY <1>3, <1>4, <1>5, <1>6

\* An attempt whose invitation and sequences stay is as far as it was.
LEMMA UnchangedProgresses ==
  ASSUME IInv, NEW h \in Sockets, NEW v \in Sockets,
         invitation' = invitation,
         sock'[h].nextSequence = sock[h].nextSequence,
         sock'[v].nextSequence = sock[v].nextSequence
  PROVE  Progresses(h, v)
<1>1. sock[h].nextSequence \in Nat /\ sock[v].nextSequence \in Nat
  BY DEF IInv, TypeOK, Attachments
<1>2. QED BY <1>1 DEF Progresses

\* The alarm drops an expired record with its sockets and a tombstone nobody
\* holds; for a live pair it does nothing.
LEMMA AlarmProgresses ==
  ASSUME IInv, NEW h \in Sockets, NEW v \in Sockets, Surviving(h, v), Alarm
  PROVE  Progresses(h, v)
<1>1. LivePair(h, v) /\ sock'[h].state = "open" /\ invitation \in Invitations
  BY DEF Surviving, IInv, TypeOK
<1>2. ~(invitation.phase = "open" /\ invitation.late)
  <2>1. SUFFICES ASSUME invitation.phase = "open", invitation.late PROVE FALSE
    OBVIOUS
  <2>2. sock' = ExpiredSockets(invitation, sock)
    BY <2>1 DEF Alarm, Expired, Unconsumed
  <2>3. QED BY <1>1, <2>2, ExpiryClosesPair
<1>3. invitation.phase # "retiring"
  BY <1>1, PairHoldsRoles DEF IInv, Good, Tombstone
<1>4. invitation' = invitation /\ sock' = sock
  BY <1>2, <1>3 DEF Alarm
<1>5. QED BY <1>4, UnchangedProgresses

\* Every step of the object keeps a surviving pair's attempt going.
LEMMA StepProgresses ==
  ASSUME IInv, [Next]_vars, NEW h \in Sockets, NEW v \in Sockets, Surviving(h, v)
  PROVE  Progresses(h, v)
<1>1. sock \in [Sockets -> Attachments] /\ invitation \in Invitations
  BY DEF IInv, TypeOK
<1>2. CASE UNCHANGED vars
  BY <1>2, UnchangedProgresses DEF vars
<1>3. CASE \/ ViewerFindsExpired \/ ExpiryLost
           \/ \E s \in Sockets : HostIssues(s)
           \/ \E alarm \in {OldAlarm, "expiry"} : HostIssuesLost(alarm)
  BY <1>3, ReplacementEndsPair
<1>4. CASE \/ \E role \in Roles : \/ RefuseJoin(role) \/ JoinAwaitsICE(role)
                                  \/ StartPairingLost(role)
           \/ \E role \in Roles, s \in Sockets, sent \in BOOLEAN : StartPairing(role, s, sent)
           \/ \E s \in Sockets : HostWaits(s)
           \/ \E s \in Sockets, sent \in BOOLEAN : ICEArrives(s, sent)
           \/ ICERefused \/ ICEConsumedLost
  <2>1. invitation' = invitation /\ sock' = sock
    BY <1>4, JoinKeepsPair
  <2>2. QED BY <2>1, UnchangedProgresses
<1>5. CASE \E s \in Sockets : Departure(s) \/ DepartureLost(s) \/ RetirementLost(s)
  <2>1. invitation' = invitation /\ sock'[h] = sock[h] /\ sock'[v] = sock[v]
    BY <1>5, DepartureKeepsPair
  <2>2. QED BY <2>1, UnchangedProgresses
<1>6. CASE \E s \in Sockets : \/ RejectMessage(s) \/ UndeliveredMessage(s)
                              \/ ForwardMessage(s) \/ AckForwardedLost(s)
  BY <1>6, MessageProgresses
<1>7. CASE \E s \in Sockets : SocketCloses(s) \/ SocketForgotten(s)
  <2>1. PICK s \in Sockets : SocketCloses(s) \/ SocketForgotten(s)
    BY <1>7
  <2>2. s # h /\ s # v
    <3>1. sock'[s].state # "open"
      BY <1>1, <2>1 DEF SocketCloses, SocketForgotten, FreeSocket, Attachments
    <3>2. QED BY <3>1 DEF Surviving
  <2>3. invitation' = invitation /\ sock'[h] = sock[h] /\ sock'[v] = sock[v]
    BY <1>1, <2>1, <2>2 DEF SocketCloses, SocketForgotten
  <2>4. QED BY <2>3, UnchangedProgresses
<1>8. CASE Alarm
  BY <1>8, AlarmProgresses
<1>9. CASE DeadlinePasses
  <2>1. sock' = sock /\ invitation' = [invitation EXCEPT !.late = TRUE]
    BY <1>9 DEF DeadlinePasses
  <2>2. /\ invitation'.phase = invitation.phase
        /\ invitation'.pairingAttemptID = invitation.pairingAttemptID
        /\ invitation'.viewerAckForwarded = invitation.viewerAckForwarded
    BY <1>1, <2>1 DEF Invitations
  <2>3. sock[h].nextSequence \in Nat /\ sock[v].nextSequence \in Nat
    BY <1>1 DEF Attachments
  <2>4. QED BY <2>1, <2>2, <2>3 DEF Progresses, Unconsumed
<1>10. QED
  BY <1>2, <1>3, <1>4, <1>5, <1>6, <1>7, <1>8, <1>9 DEF Next

\* While the two sockets of an attempt stay open, no join, reconciliation, late
\* callback, alarm or loss inside a handler restarts the attempt, forgets its
\* acknowledgement, rewinds a sequence or reopens a consumed invitation.
THEOREM AttemptProgress == Spec => LiveAttemptProgresses
<1>1. IInv /\ [Next]_vars =>
        [\A h, v \in Sockets :
           LivePair(h, v) /\ (\A s \in {h, v} : sock'[s].state = "open" /\ ~sock'[s].departed)
           => /\ invitation'.pairingAttemptID = invitation.pairingAttemptID
              /\ invitation.viewerAckForwarded => invitation'.viewerAckForwarded
              /\ sock'[h].nextSequence >= sock[h].nextSequence
              /\ sock'[v].nextSequence >= sock[v].nextSequence
              /\ ~Unconsumed(invitation) => ~Unconsumed(invitation') ]_vars
  BY StepProgresses DEF Surviving, Progresses
<1>2. QED BY <1>1, Invariance, PTL DEF Spec, LiveAttemptProgresses
=============================================================================
