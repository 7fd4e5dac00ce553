-------------------- MODULE RendezvousAvailabilityProofs --------------------
(***************************************************************************)
(* Safety of RendezvousAvailability for every set of sockets and every     *)
(* value of the bounds.                                                    *)
(***************************************************************************)
EXTENDS RendezvousAvailability, TLAPS

(* The inductive invariant, as predicates of a socket table and of the     *)
(* counts of forwarded signals.                                            *)

Tables == [Sockets -> Attachments]

\* s is attached to its role.
Attached(sk, s) == sk[s].role \in Roles /\ ~sk[s].departed

\* s is attached, open and bound to an exchange.
InExchange(sk, s) == Attached(sk, s) /\ sk[s].state = "open" /\ sk[s].exchangeID # 0

FreeIsBlank(sk) == \A s \in Sockets : sk[s].state = "free" <=> sk[s].role = "none"

OnePerRole(sk) ==
  \A s, t \in Sockets : Attached(sk, s) /\ Attached(sk, t) /\ sk[s].role = sk[t].role => s = t

\* A viewer is never attached outside an exchange.
ViewersBound(sk) == \A s \in Sockets : sk[s].role = "viewer" => sk[s].exchangeID # 0

\* Whoever is open in an exchange has a partner attached to it.
Partnered(sk) ==
  \A s \in Sockets : InExchange(sk, s) =>
    \E t \in Sockets : /\ Attached(sk, t) /\ sk[t].role = Opposite(sk[s].role)
                       /\ sk[t].exchangeID = sk[s].exchangeID

\* Each of two open partners was forwarded what the other's sequence counts.
InStep(sk, rc) ==
  \A s, t \in Sockets :
    /\ InExchange(sk, s) /\ InExchange(sk, t)
    /\ sk[t].role = Opposite(sk[s].role) /\ sk[s].exchangeID = sk[t].exchangeID
    => rc[t] = sk[s].nextSequence

Good(sk, rc) ==
  FreeIsBlank(sk) /\ OnePerRole(sk) /\ ViewersBound(sk) /\ Partnered(sk) /\ InStep(sk, rc)

IInv == TypeOK /\ Good(sock, received)

-----------------------------------------------------------------------------
(* The operators on socket tables, field by field. *)

\* The first of some sockets is one of them.
LEMMA FirstMember == ASSUME NEW S, S # {} PROVE First(S) \in S
  BY DEF First

\* A socket that was just attached.
LEMMA NewAttachmentFields ==
  ASSUME NEW role \in Roles, NEW e \in Nat
  PROVE  /\ NewAttachment(role, e) \in Attachments
         /\ NewAttachment(role, e).state = "open"
         /\ NewAttachment(role, e).role = role
         /\ NewAttachment(role, e).exchangeID = e
         /\ NewAttachment(role, e).nextSequence = 0
         /\ ~NewAttachment(role, e).departed
  BY DEF NewAttachment, Attachments

\* The sockets after some have been closed.
LEMMA ClosingTable ==
  ASSUME NEW sk \in Tables, NEW S
  PROVE  /\ Closing(sk, S) \in Tables
         /\ \A t \in Sockets :
              /\ Closing(sk, S)[t].role = sk[t].role
              /\ Closing(sk, S)[t].exchangeID = sk[t].exchangeID
              /\ Closing(sk, S)[t].nextSequence = sk[t].nextSequence
              /\ Closing(sk, S)[t].departed <=> sk[t].departed
              /\ Closing(sk, S)[t].state = "free" <=> sk[t].state = "free"
              /\ Closing(sk, S)[t].state = "open" <=> sk[t].state = "open" /\ t \notin S
  BY DEF Closing, Tables, Attachments

\* The sockets after those of a role were retired.
LEMMA RetiredTable ==
  ASSUME NEW sk \in Tables, NEW role \in Roles
  PROVE  /\ Retired(sk, role) \in Tables
         /\ \A t \in Sockets :
              /\ Retired(sk, role)[t].role = sk[t].role
              /\ Retired(sk, role)[t].exchangeID = sk[t].exchangeID
              /\ Retired(sk, role)[t].departed <=> sk[t].departed \/ sk[t].role = role
              /\ Retired(sk, role)[t].state = "free" <=> sk[t].state = "free"
              /\ sk[t].role # role => Retired(sk, role)[t] = sk[t]
  BY DEF Retired, AttachedSockets, Tables, Attachments

\* The sockets after one of them went back to waiting.
LEMMA UnpairedTable ==
  ASSUME NEW sk \in Tables, NEW s \in Sockets
  PROVE  /\ Unpaired(sk, s) \in Tables
         /\ \A t \in Sockets :
              /\ Unpaired(sk, s)[t].state = sk[t].state
              /\ Unpaired(sk, s)[t].role = sk[t].role
              /\ Unpaired(sk, s)[t].departed <=> sk[t].departed
              /\ t # s => Unpaired(sk, s)[t] = sk[t]
         /\ Unpaired(sk, s)[s].exchangeID = 0
  BY DEF Unpaired, Tables, Attachments

\* The sockets after two were paired.
LEMMA PairedTable ==
  ASSUME NEW sk \in Tables, sk = sock, NEW role \in Roles, NEW s \in Sockets, NEW p \in Sockets,
         s # p, sk[p].role = Opposite(role), NEW e \in Nat
  PROVE  /\ Paired(role, s, p, e) \in Tables
         /\ Paired(role, s, p, e)[s] = NewAttachment(role, e)
         /\ Paired(role, s, p, e)[p].role = sk[p].role
         /\ Paired(role, s, p, e)[p].state = sk[p].state
         /\ Paired(role, s, p, e)[p].departed <=> sk[p].departed
         /\ Paired(role, s, p, e)[p].exchangeID = e
         /\ Paired(role, s, p, e)[p].nextSequence = 0
         /\ \A t \in Sockets \ {s, p} : Paired(role, s, p, e)[t] = Retired(sk, role)[t]
<1> DEFINE r == Retired(sk, role)
<1>1. r \in Tables /\ r[p] = sk[p]
  BY RetiredTable DEF Opposite, Roles
<1>2. NewAttachment(role, e) \in Attachments
  BY NewAttachmentFields
<1>3. Paired(role, s, p, e) = [r EXCEPT ![p].exchangeID = e, ![p].nextSequence = 0,
                                        ![s] = NewAttachment(role, e)]
  BY DEF Paired
<1> HIDE DEF r
<1>4. QED
  <2>1. r \in [Sockets -> Attachments]
    BY <1>1 DEF Tables
  <2>2. QED
    BY <1>1, <1>2, <1>3, <2>1 DEF Tables, Attachments, r

-----------------------------------------------------------------------------
(* What keeps the invariant: closing sockets, and leaving nobody in an      *)
(* exchange.                                                                *)

\* Sockets that only close or depart stay coherent.
LEMMA ShrinkGood ==
  ASSUME NEW sk \in Tables, NEW rc, Good(sk, rc), NEW sk2,
         \A t \in Sockets :
           /\ sk2[t].role = sk[t].role /\ sk2[t].exchangeID = sk[t].exchangeID
           /\ sk2[t].nextSequence = sk[t].nextSequence
           /\ sk2[t].departed <=> sk[t].departed
           /\ sk2[t].state = "free" <=> sk[t].state = "free"
           /\ sk2[t].state = "open" => sk[t].state = "open"
  PROVE  Good(sk2, rc)
  BY DEF Good, FreeIsBlank, OnePerRole, ViewersBound, Partnered, InStep, InExchange, Attached

\* Sockets without an exchange are coherent.
LEMMA QuietGood ==
  ASSUME NEW sk, FreeIsBlank(sk), OnePerRole(sk), ViewersBound(sk),
         \A t \in Sockets : ~InExchange(sk, t), NEW rc
  PROVE  Good(sk, rc)
  BY DEF Good, Partnered, InStep

\* Closing one socket keeps the invariant.
LEMMA ClosingGood ==
  ASSUME IInv, NEW s \in Sockets, sock' = Closing(sock, {s}), UNCHANGED received,
         registered' \in BOOLEAN, lastExchange' \in Nat,
         acked' \in Sockets \cup {NoSocket}, faults' \in Nat
  PROVE  IInv'
<1>1. sock \in Tables
  BY DEF IInv, TypeOK, Tables
<1>2. TypeOK'
  BY <1>1, ClosingTable DEF IInv, TypeOK, Tables
<1>3. Good(sock', received)
  BY <1>1, ClosingTable, ShrinkGood DEF IInv
<1>4. QED BY <1>2, <1>3 DEF IInv

\* Faults are counted.
LEMMA FaultNat == ASSUME faults \in Nat, Fault PROVE faults' \in Nat
  BY DEF Fault

\* So are those of a join.
LEMMA JoinFaultNat ==
  ASSUME faults \in Nat, NEW role, JoinFault(role) PROVE faults' \in Nat
  BY FaultNat DEF JoinFault

-----------------------------------------------------------------------------
(* Joins. *)

\* A viewer that finds an exchange under way has the host register again.
LEMMA ForcedResetInv == ASSUME IInv, ViewerForcesReset PROVE IInv'
<1> DEFINE v == Retired(sock, "viewer")
           sk == Retired(v, "host")
<1>1. sock \in Tables /\ "viewer" \in Roles /\ "host" \in Roles /\ faults' \in Nat
  BY JoinFaultNat DEF IInv, TypeOK, Tables, Roles, ViewerForcesReset
<1>2. v \in Tables /\ sk \in Tables
  BY <1>1, RetiredTable
<1>3. \A t \in Sockets :
        /\ sk[t].role = sock[t].role /\ sk[t].exchangeID = sock[t].exchangeID
        /\ sk[t].state = "free" <=> sock[t].state = "free"
        /\ sk[t].departed <=> sock[t].departed \/ sock[t].role \in Roles
  BY <1>1, <1>2, RetiredTable DEF Roles
<1> HIDE DEF v, sk
<1>4. \A t \in Sockets : ~Attached(sk, t)
  BY <1>3 DEF Attached
<1>5. Good(sk, received)
  <2>1. FreeIsBlank(sk) /\ ViewersBound(sk)
    BY <1>3 DEF IInv, Good, FreeIsBlank, ViewersBound
  <2>2. OnePerRole(sk) /\ \A t \in Sockets : ~InExchange(sk, t)
    BY <1>4 DEF OnePerRole, InExchange
  <2>3. QED BY <2>1, <2>2, QuietGood
<1>6. sock' = sk /\ UNCHANGED <<registered, lastExchange, received, acked>>
  BY DEF ViewerForcesReset, v, sk
<1>7. TypeOK'
  BY <1>1, <1>2, <1>6 DEF IInv, TypeOK, Tables
<1>8. QED BY <1>5, <1>6, <1>7 DEF IInv

\* The host joins and waits.
LEMMA HostWaitsInv == ASSUME IInv, NEW s \in Sockets, HostWaits(s) PROVE IInv'
<1> DEFINE r == Retired(sock, "host")
           sk == [r EXCEPT ![s] = NewAttachment("host", 0)]
<1>1. sock \in Tables /\ "host" \in Roles /\ faults' \in Nat /\ 0 \in Nat
  BY JoinFaultNat DEF IInv, TypeOK, Tables, Roles, HostWaits
<1>2. /\ r \in Tables
      /\ \A t \in Sockets :
           /\ r[t].role = sock[t].role /\ r[t].exchangeID = sock[t].exchangeID
           /\ r[t].departed <=> sock[t].departed \/ sock[t].role = "host"
           /\ r[t].state = "free" <=> sock[t].state = "free"
           /\ sock[t].role # "host" => r[t] = sock[t]
  BY <1>1, RetiredTable
<1>3. /\ NewAttachment("host", 0) \in Attachments
      /\ NewAttachment("host", 0).state = "open"
      /\ NewAttachment("host", 0).role = "host"
      /\ NewAttachment("host", 0).exchangeID = 0
  BY <1>1, NewAttachmentFields
<1> HIDE DEF r
<1>4. sk \in Tables /\ sk[s] = NewAttachment("host", 0) /\ \A t \in Sockets \ {s} : sk[t] = r[t]
  BY <1>2, <1>3 DEF Tables
<1> HIDE DEF sk
<1>5. Good(sk, received')
  <2>1. FreeIsBlank(sk) /\ ViewersBound(sk)
    BY <1>2, <1>3, <1>4 DEF IInv, Good, FreeIsBlank, ViewersBound
  <2>2. OnePerRole(sk)
    BY <1>2, <1>3, <1>4 DEF IInv, Good, OnePerRole, Attached, Roles
  <2>3. \A t \in Sockets : ~InExchange(sk, t)
    <3>1. \A t \in Sockets : ~(sock[t].role = "viewer" /\ ~sock[t].departed /\ sock[t].state = "open")
      BY DEF HostWaits, OpenSockets, AttachedSockets
    <3>2. ~InExchange(sk, s)
      BY <1>3, <1>4 DEF InExchange
    <3>3. ASSUME NEW t \in Sockets \ {s}, Attached(sk, t) PROVE sk[t].state # "open"
      <4>1. sk[t] = r[t] /\ r[t].role = sock[t].role /\ r[t].role # "host"
        BY <1>2, <1>4, <3>3 DEF Attached
      <4>2. r[t] = sock[t] /\ sock[t].role = "viewer" /\ ~sock[t].departed
        BY <1>2, <3>3, <4>1 DEF Attached, Roles
      <4>3. QED BY <3>1, <4>1, <4>2
    <3>4. QED BY <3>2, <3>3 DEF InExchange
  <2>4. QED BY <2>1, <2>2, <2>3, QuietGood
<1>6. /\ sock' = sk /\ registered' = TRUE /\ UNCHANGED <<lastExchange, acked>>
      /\ received' = [received EXCEPT ![s] = 0]
  BY DEF HostWaits, r, sk
<1>7. TypeOK'
  BY <1>1, <1>4, <1>6 DEF IInv, TypeOK, Tables
<1>8. QED BY <1>5, <1>6, <1>7 DEF IInv

\* Each role has one opposite.
LEMMA OppositeRole ==
  ASSUME NEW role \in Roles
  PROVE  Opposite(role) \in Roles /\ Opposite(role) # role /\ Opposite(Opposite(role)) = role
  BY DEF Opposite, Roles

\* The newcomer s and the peer it is bound to are the only attached sockets.
LEMMA PairedShape ==
  ASSUME IInv, NEW role \in Roles, NEW s \in Sockets, CanPair(role, s),
         NEW e \in Nat, e # 0, NEW p, p = First(OpenSockets(sock, Opposite(role))),
         NEW sk, sk = Paired(role, s, p, e)
  PROVE  /\ sk \in Tables /\ p \in Sockets /\ s # p
         /\ sk[s] = NewAttachment(role, e)
         /\ sk[p].role = Opposite(role) /\ sk[p].state = "open" /\ ~sk[p].departed
         /\ sk[p].exchangeID = e /\ sk[p].nextSequence = 0
         /\ FreeIsBlank(sk) /\ ViewersBound(sk)
         /\ \A t \in Sockets : Attached(sk, t) => t \in {s, p}
<1>1. sock \in Tables
  BY DEF IInv, TypeOK, Tables
<1>2. /\ p \in Sockets /\ sock[p].role = Opposite(role)
      /\ ~sock[p].departed /\ sock[p].state = "open"
  <2>1. p \in OpenSockets(sock, Opposite(role))
    BY FirstMember DEF CanPair
  <2>2. QED BY <2>1 DEF OpenSockets, AttachedSockets
<1>3. sock[s].state = "free" /\ s # p
  BY <1>2 DEF CanPair
<1>4. /\ sk \in Tables /\ sk[s] = NewAttachment(role, e)
      /\ sk[p].role = sock[p].role /\ sk[p].state = sock[p].state
      /\ sk[p].departed <=> sock[p].departed
      /\ sk[p].exchangeID = e /\ sk[p].nextSequence = 0
      /\ \A t \in Sockets \ {s, p} : sk[t] = Retired(sock, role)[t]
  BY <1>1, <1>2, <1>3, PairedTable
<1>5. \A t \in Sockets \ {s, p} :
        /\ sk[t].role = sock[t].role /\ sk[t].exchangeID = sock[t].exchangeID
        /\ sk[t].departed <=> sock[t].departed \/ sock[t].role = role
        /\ sk[t].state = "free" <=> sock[t].state = "free"
  <2> DEFINE r == Retired(sock, role)
  <2>1. \A t \in Sockets :
          /\ r[t].role = sock[t].role /\ r[t].exchangeID = sock[t].exchangeID
          /\ r[t].departed <=> sock[t].departed \/ sock[t].role = role
          /\ r[t].state = "free" <=> sock[t].state = "free"
    BY <1>1, RetiredTable
  <2>2. \A t \in Sockets \ {s, p} : sk[t] = r[t]
    BY <1>4
  <2> HIDE DEF r
  <2>3. ASSUME NEW t \in Sockets \ {s, p}
        PROVE  /\ sk[t].role = sock[t].role /\ sk[t].exchangeID = sock[t].exchangeID
               /\ sk[t].departed <=> sock[t].departed \/ sock[t].role = role
               /\ sk[t].state = "free" <=> sock[t].state = "free"
    <3> DEFINE x == sk[t]
               y == r[t]
    <3>1. /\ y.role = sock[t].role /\ y.exchangeID = sock[t].exchangeID
          /\ y.departed <=> sock[t].departed \/ sock[t].role = role
          /\ y.state = "free" <=> sock[t].state = "free"
      BY <2>1
    <3>2. x = y
      BY <2>2
    <3> HIDE DEF x, y
    <3>3. /\ x.role = sock[t].role /\ x.exchangeID = sock[t].exchangeID
          /\ x.departed <=> sock[t].departed \/ sock[t].role = role
          /\ x.state = "free" <=> sock[t].state = "free"
      BY <3>1, <3>2
    <3>4. QED BY <3>3 DEF x
  <2>4. QED BY <2>3
<1>6. sk[s].state = "open" /\ sk[s].role = role /\ sk[s].exchangeID = e
  BY <1>4, NewAttachmentFields
<1>7. FreeIsBlank(sk)
  BY <1>2, <1>4, <1>5, <1>6, OppositeRole DEF IInv, Good, FreeIsBlank, Roles
<1>8. ViewersBound(sk)
  BY <1>4, <1>5, <1>6 DEF IInv, Good, ViewersBound
<1>9. ASSUME NEW t \in Sockets, Attached(sk, t), t # s, t # p PROVE FALSE
  <2>1. /\ sk[t].role \in Roles /\ sk[t].role = sock[t].role
        /\ ~sock[t].departed /\ sock[t].role # role
    BY <1>5, <1>9 DEF Attached
  <2>2. sock[t].role = Opposite(role) /\ Attached(sock, t) /\ Attached(sock, p)
    BY <1>2, <2>1 DEF Attached, Opposite, Roles
  <2>3. QED BY <1>2, <1>9, <2>2 DEF IInv, Good, OnePerRole
<1>10. QED BY <1>2, <1>3, <1>4, <1>7, <1>8, <1>9

\* The second of the two joins, and an exchange starts.
LEMMA StartExchangeInv ==
  ASSUME IInv, NEW role \in Roles, NEW s \in Sockets, StartExchange(role, s)
  PROVE  IInv'
<1> DEFINE p == First(OpenSockets(sock, Opposite(role)))
           e == lastExchange + 1
           sk == Paired(role, s, p, e)
<1>1. /\ CanPair(role, s) /\ lastExchange' = e /\ sock' = sk
      /\ received' = [received EXCEPT ![s] = 0, ![p] = 0]
      /\ UNCHANGED <<registered, acked>> /\ JoinFault(role)
  BY DEF StartExchange
<1>2. e \in Nat /\ e # 0 /\ faults' \in Nat /\ received \in [Sockets -> Nat]
  BY <1>1, JoinFaultNat DEF IInv, TypeOK
<1> HIDE DEF p, e, sk
<1>3. /\ sk \in Tables /\ p \in Sockets /\ s # p
      /\ sk[s] = NewAttachment(role, e)
      /\ sk[p].role = Opposite(role) /\ sk[p].state = "open" /\ ~sk[p].departed
      /\ sk[p].exchangeID = e /\ sk[p].nextSequence = 0
      /\ FreeIsBlank(sk) /\ ViewersBound(sk)
      /\ \A t \in Sockets : Attached(sk, t) => t \in {s, p}
  BY <1>1, <1>2, PairedShape DEF p, sk
<1>4. /\ sk[s].state = "open" /\ sk[s].role = role /\ sk[s].exchangeID = e
      /\ sk[s].nextSequence = 0 /\ ~sk[s].departed
  BY <1>2, <1>3, NewAttachmentFields
<1>5. /\ received' \in [Sockets -> Nat] /\ received'[s] = 0 /\ received'[p] = 0
  BY <1>1, <1>2, <1>3
<1>6. OnePerRole(sk)
  BY <1>3, <1>4, OppositeRole DEF OnePerRole
<1>7. Attached(sk, s) /\ Attached(sk, p)
  BY <1>3, <1>4, OppositeRole DEF Attached
<1>8. Partnered(sk)
  BY <1>3, <1>4, <1>7, OppositeRole DEF Partnered, InExchange
<1>9. InStep(sk, received')
  BY <1>3, <1>4, <1>5 DEF InStep, InExchange
<1>10. TypeOK'
  BY <1>1, <1>2, <1>3, <1>5 DEF IInv, TypeOK, Tables
<1>11. QED BY <1>1, <1>3, <1>6, <1>8, <1>9, <1>10 DEF IInv, Good

\* One of the two cannot be told that the exchange starts.
LEMMA ReadyFailsInv ==
  ASSUME IInv, NEW role \in Roles, NEW s \in Sockets, NEW hostReached \in BOOLEAN,
         ReadyFails(role, s, hostReached)
  PROVE  IInv'
<1> DEFINE p == First(OpenSockets(sock, Opposite(role)))
           e == lastExchange + 1
           sk == Paired(role, s, p, e)
           host == IF role = "host" THEN s ELSE p
           reset == Unpaired(sk, host)
           left == IF role = "host" THEN Retired(reset, "viewer") ELSE Closing(reset, {s})
<1>1. /\ CanPair(role, s) /\ lastExchange' = e /\ Fault
      /\ sock' = IF hostReached THEN left ELSE Closing(left, {host})
      /\ received' = [received EXCEPT ![s] = 0, ![p] = 0]
      /\ UNCHANGED <<registered, acked>>
  BY DEF ReadyFails
<1>2. e \in Nat /\ e # 0 /\ faults' \in Nat /\ received \in [Sockets -> Nat]
  BY <1>1, FaultNat DEF IInv, TypeOK
<1> HIDE DEF p, e, sk
<1>3. /\ sk \in Tables /\ p \in Sockets /\ s # p
      /\ sk[s] = NewAttachment(role, e)
      /\ sk[p].role = Opposite(role) /\ sk[p].state = "open" /\ ~sk[p].departed
      /\ sk[p].exchangeID = e /\ sk[p].nextSequence = 0
      /\ FreeIsBlank(sk) /\ ViewersBound(sk)
      /\ \A t \in Sockets : Attached(sk, t) => t \in {s, p}
  BY <1>1, <1>2, PairedShape DEF p, sk
<1>4. sk[s].role = role
  BY <1>2, <1>3, NewAttachmentFields
<1>5. host \in Sockets /\ sk[host].role = "host" /\ host \in {s, p} /\ "viewer" \in Roles
  BY <1>3, <1>4 DEF Opposite, Roles
<1> HIDE DEF host
<1>6. /\ reset \in Tables /\ reset[host].exchangeID = 0
      /\ \A t \in Sockets :
           /\ reset[t].state = sk[t].state /\ reset[t].role = sk[t].role
           /\ reset[t].departed <=> sk[t].departed
           /\ t # host => reset[t] = sk[t]
  BY <1>3, <1>5, UnpairedTable
<1> HIDE DEF reset
<1>7. /\ left \in Tables
      /\ \A t \in Sockets :
           /\ left[t].role = sk[t].role
           /\ left[t].exchangeID = reset[t].exchangeID
           /\ left[t].departed => sk[t].departed \/ sk[t].role = "viewer"
           /\ sk[t].departed => left[t].departed
           /\ left[t].state = "free" <=> sk[t].state = "free"
           /\ sk[t].role = "viewer" /\ t \in {s, p} => left[t].departed \/ left[t].state # "open"
  <2>1. CASE role = "host"
    <3>1. left = Retired(reset, "viewer")
      BY <2>1
    <3> HIDE DEF left
    <3>2. /\ left \in Tables
          /\ \A t \in Sockets :
               /\ left[t].role = reset[t].role
               /\ left[t].exchangeID = reset[t].exchangeID
               /\ left[t].departed <=> reset[t].departed \/ reset[t].role = "viewer"
               /\ left[t].state = "free" <=> reset[t].state = "free"
      BY <1>5, <1>6, <3>1, RetiredTable
    <3>3. \A t \in Sockets :
            /\ left[t].role = sk[t].role
            /\ left[t].state = "free" <=> sk[t].state = "free"
      BY <1>6, <3>2
    <3>4. \A t \in Sockets : left[t].departed <=> sk[t].departed \/ sk[t].role = "viewer"
      BY <1>6, <3>2
    <3>5. QED BY <3>2, <3>3, <3>4
  <2>2. CASE role # "host"
    <3>1. left = Closing(reset, {s}) /\ sk[p].role = "host"
      BY <1>3, <2>2 DEF Opposite, Roles
    <3>2. /\ left \in Tables
          /\ \A t \in Sockets :
               /\ left[t].role = reset[t].role
               /\ left[t].exchangeID = reset[t].exchangeID
               /\ left[t].departed <=> reset[t].departed
               /\ left[t].state = "free" <=> reset[t].state = "free"
               /\ left[t].state = "open" <=> reset[t].state = "open" /\ t # s
      BY <1>6, <3>1, ClosingTable
    <3> HIDE DEF left
    <3>3. \A t \in Sockets :
            sk[t].role = "viewer" /\ t \in {s, p} => left[t].state # "open"
      BY <3>1, <3>2
    <3>4. \A t \in Sockets :
            /\ left[t].role = sk[t].role
            /\ left[t].departed <=> sk[t].departed
            /\ left[t].state = "free" <=> sk[t].state = "free"
      BY <1>6, <3>2
    <3>5. QED BY <3>2, <3>3, <3>4
  <2>3. QED BY <2>1, <2>2
<1> HIDE DEF left
<1>8. Good(left, received')
  <2>1. FreeIsBlank(left)
    BY ZenonT(60), <1>3, <1>7 DEF FreeIsBlank
  <2>2. ViewersBound(left)
    BY <1>3, <1>5, <1>6, <1>7 DEF ViewersBound
  <2>3. \A t \in Sockets : Attached(left, t) => t \in {s, p}
    BY <1>3, <1>7 DEF Attached
  <2>4. OnePerRole(left)
    <3>1. \A t \in {s, p} : left[t].role = sk[t].role
      BY <1>3, <1>7
    <3>2. left[s].role # left[p].role
      BY <1>3, <1>4, <3>1, OppositeRole
    <3>3. QED BY <2>3, <3>2 DEF OnePerRole
  <2>5. ASSUME NEW t \in Sockets, InExchange(left, t) PROVE FALSE
    <3>1. t \in {s, p} /\ sk[t].role = "host"
      BY <1>7, <2>3, <2>5 DEF InExchange, Attached, Roles
    <3>2. t = host
      BY <1>3, <1>4, <1>5, <3>1, OppositeRole
    <3>3. QED BY <1>6, <1>7, <2>5, <3>2 DEF InExchange
  <2>6. QED BY <2>1, <2>2, <2>4, <2>5, QuietGood
<1>9. sock' \in Tables /\ Good(sock', received')
  BY <1>1, <1>7, <1>8, ClosingTable, ShrinkGood
<1>10. received' \in [Sockets -> Nat]
  BY <1>1, <1>2, <1>3
<1>11. TypeOK'
  BY <1>1, <1>2, <1>9, <1>10 DEF IInv, TypeOK, Tables
<1>12. QED BY <1>9, <1>11 DEF IInv

\* The waiting peer of a join turns out to be gone.
LEMMA PeerUnwritableInv ==
  ASSUME IInv, NEW role \in Roles, NEW s \in Sockets, PeerUnwritable(role, s)
  PROVE  IInv'
<1> DEFINE r == Retired(sock, role)
           left == Retired(r, Opposite(role))
<1>1. /\ CanPair(role, s) /\ Fault /\ UNCHANGED <<registered, lastExchange, acked>>
      /\ sock' = IF role = "host" THEN [left EXCEPT ![s] = NewAttachment("host", 0)] ELSE left
      /\ received' = [received EXCEPT ![s] = 0]
  BY DEF PeerUnwritable
<1>2. sock \in Tables /\ faults' \in Nat /\ received' \in [Sockets -> Nat]
  BY <1>1, FaultNat DEF IInv, TypeOK, Tables
<1>3. r \in Tables /\ left \in Tables
  BY <1>2, OppositeRole, RetiredTable
<1>4. \A t \in Sockets :
        /\ left[t].role = sock[t].role /\ left[t].exchangeID = sock[t].exchangeID
        /\ left[t].state = "free" <=> sock[t].state = "free"
        /\ left[t].departed <=> sock[t].departed \/ sock[t].role \in Roles
  <2>1. \A t \in Sockets : left[t].departed <=> r[t].departed \/ r[t].role = Opposite(role)
    BY <1>2, <1>3, OppositeRole, RetiredTable
  <2>2. \A t \in Sockets : r[t].departed <=> sock[t].departed \/ sock[t].role = role
    BY <1>2, RetiredTable
  <2>3. \A t \in Sockets :
          /\ left[t].role = r[t].role /\ r[t].role = sock[t].role
          /\ left[t].exchangeID = r[t].exchangeID /\ r[t].exchangeID = sock[t].exchangeID
          /\ left[t].state = "free" <=> r[t].state = "free"
          /\ r[t].state = "free" <=> sock[t].state = "free"
    BY <1>2, <1>3, OppositeRole, RetiredTable
  <2> HIDE DEF r, left
  <2>4. QED BY <2>1, <2>2, <2>3 DEF Opposite, Roles
<1> HIDE DEF r, left
<1>5. \A t \in Sockets : ~Attached(left, t)
  BY <1>4 DEF Attached
<1>6. FreeIsBlank(left) /\ ViewersBound(left)
  BY <1>4 DEF IInv, Good, FreeIsBlank, ViewersBound
<1>7. CASE role = "host"
  <2> DEFINE new == NewAttachment("host", 0)
  <2>1. /\ new \in Attachments /\ new.state = "open" /\ new.role = "host" /\ new.exchangeID = 0
    BY NewAttachmentFields DEF Roles
  <2> HIDE DEF new
  <2>2. /\ sock' \in Tables /\ sock'[s] = new /\ \A t \in Sockets \ {s} : sock'[t] = left[t]
    BY <1>1, <1>3, <1>7, <2>1 DEF Tables, new
  <2>3. \A t \in Sockets : Attached(sock', t) => t = s
    BY <1>5, <2>2 DEF Attached
  <2>4. FreeIsBlank(sock') /\ ViewersBound(sock') /\ OnePerRole(sock')
    BY <1>6, <2>1, <2>2, <2>3 DEF FreeIsBlank, ViewersBound, OnePerRole
  <2>5. \A t \in Sockets : ~InExchange(sock', t)
    BY <2>1, <2>2, <2>3 DEF InExchange
  <2>6. Good(sock', received')
    BY <2>4, <2>5, QuietGood
  <2>7. TypeOK'
    BY <1>1, <1>2, <2>2 DEF IInv, TypeOK, Tables
  <2>8. QED BY <2>6, <2>7 DEF IInv
<1>8. CASE role # "host"
  <2>1. sock' = left
    BY <1>1, <1>8
  <2>2. OnePerRole(left) /\ \A t \in Sockets : ~InExchange(left, t)
    BY <1>5 DEF OnePerRole, InExchange
  <2>3. Good(sock', received')
    BY <1>6, <2>1, <2>2, QuietGood
  <2>4. TypeOK'
    BY <1>1, <1>2, <1>3, <2>1 DEF IInv, TypeOK, Tables
  <2>5. QED BY <2>3, <2>4 DEF IInv
<1>9. QED BY <1>7, <1>8

-----------------------------------------------------------------------------
(* Messages, departures and the network. *)

\* A message is forwarded to the peer.
LEMMA ForwardSignalInv == ASSUME IInv, NEW s \in Sockets, ForwardSignal(s) PROVE IInv'
<1> DEFINE partners == ExchangeSockets(sock, Opposite(sock[s].role), sock[s].exchangeID)
           p == First(partners)
<1>1. /\ sock \in Tables /\ received \in [Sockets -> Nat]
      /\ Attached(sock, s) /\ partners # {} /\ sock[s].nextSequence \in Nat
      /\ sock' = [sock EXCEPT ![s].nextSequence = @ + 1]
      /\ received' = [received EXCEPT ![p] = @ + 1]
      /\ UNCHANGED <<registered, lastExchange, acked, faults>>
  BY DEF ForwardSignal, IInv, TypeOK, Tables, Attached, Attachments
<1>2. /\ p \in Sockets /\ sock[p].role = Opposite(sock[s].role)
      /\ Attached(sock, p) /\ sock[p].exchangeID = sock[s].exchangeID
  <2>1. p \in partners
    BY <1>1, FirstMember
  <2>2. QED
    BY <1>1, <2>1, OppositeRole DEF ExchangeSockets, OpenSockets, AttachedSockets, Attached
<1> HIDE DEF partners, p
<1>3. /\ sock' \in Tables /\ sock'[s].nextSequence = sock[s].nextSequence + 1
      /\ \A t \in Sockets : /\ sock'[t].role = sock[t].role
                            /\ sock'[t].exchangeID = sock[t].exchangeID
                            /\ sock'[t].departed <=> sock[t].departed
                            /\ sock'[t].state = sock[t].state
                            /\ t # s => sock'[t].nextSequence = sock[t].nextSequence
  BY <1>1 DEF Tables, Attachments
<1>4. /\ received' \in [Sockets -> Nat] /\ received'[p] = received[p] + 1
      /\ \A t \in Sockets \ {p} : received'[t] = received[t]
  BY <1>1, <1>2
<1>5. FreeIsBlank(sock') /\ OnePerRole(sock') /\ ViewersBound(sock') /\ Partnered(sock')
  BY <1>3 DEF IInv, Good, FreeIsBlank, OnePerRole, ViewersBound, Partnered, InExchange, Attached
<1>6. InStep(sock', received')
  <2> SUFFICES ASSUME NEW x \in Sockets, NEW y \in Sockets,
                      InExchange(sock', x), InExchange(sock', y),
                      sock'[y].role = Opposite(sock'[x].role),
                      sock'[x].exchangeID = sock'[y].exchangeID
               PROVE  received'[y] = sock'[x].nextSequence
    BY DEF InStep
  <2>1. /\ InExchange(sock, x) /\ InExchange(sock, y) /\ Attached(sock, x) /\ Attached(sock, y)
        /\ sock[y].role = Opposite(sock[x].role) /\ sock[x].exchangeID = sock[y].exchangeID
    BY <1>3 DEF InExchange, Attached
  <2>2. received[y] = sock[x].nextSequence
    BY <2>1 DEF IInv, Good, InStep
  <2>3. x = s <=> y = p
    <3>1. x = s => y = p
      BY <1>2, <2>1 DEF IInv, Good, OnePerRole
    <3>2. y = p => sock[x].role = sock[s].role
      BY <1>1, <1>2, <2>1 DEF Opposite, Attached, Roles
    <3>3. QED BY <1>1, <2>1, <3>1, <3>2 DEF IInv, Good, OnePerRole
  <2>4. QED BY <1>3, <1>4, <2>2, <2>3
<1>7. TypeOK'
  BY <1>1, <1>3, <1>4 DEF IInv, TypeOK, Tables
<1>8. QED BY <1>5, <1>6, <1>7 DEF IInv, Good

\* A departure leaves nobody in an exchange: the partner, if there was one,
\* waits or is fenced.
LEMMA DepartureInv == ASSUME IInv, NEW s \in Sockets, Departure(s) PROVE IInv'
<1> DEFINE left == [sock EXCEPT ![s].departed = TRUE]
           partner == ExchangeSockets(left, Opposite(sock[s].role), sock[s].exchangeID)
           p == First(partner)
<1>1. /\ sock \in Tables /\ Attached(sock, s) /\ sock' = DepartedSockets(sock, s)
      /\ UNCHANGED <<registered, lastExchange, received, acked>>
      /\ faults' \in Nat
  <2>1. sock \in Tables /\ sock[s].role \in Roles \cup {"none"} /\ faults \in Nat
    BY DEF IInv, TypeOK, Tables, Attachments
  <2>2. sock[s].role # "none"
    BY DEF Departure, IInv, Good, FreeIsBlank
  <2>3. faults' \in Nat
    BY <2>1, FaultNat DEF Departure
  <2>4. QED BY <2>1, <2>2, <2>3 DEF Departure, Attached
<1>2. /\ left \in Tables
      /\ left[s].departed
      /\ \A t \in Sockets : /\ left[t].role = sock[t].role
                            /\ left[t].exchangeID = sock[t].exchangeID
                            /\ left[t].state = sock[t].state
                            /\ t # s => left[t] = sock[t]
  BY <1>1 DEF Tables, Attachments
<1>3. CASE sock[s].exchangeID = 0 \/ partner = {}
  <2>1. sock' = left
    BY <1>1, <1>3 DEF DepartedSockets
  <2> HIDE DEF left
  <2>2. ASSUME NEW x \in Sockets, InExchange(left, x) PROVE FALSE
    <3>1. x # s /\ InExchange(sock, x) /\ Attached(sock, x)
      BY <1>2, <2>2 DEF InExchange, Attached
    <3>2. sock[x].role = Opposite(sock[s].role) /\ sock[s].role = Opposite(sock[x].role)
      BY <1>1, <3>1 DEF IInv, Good, OnePerRole, Attached, Opposite, Roles
    <3>3. sock[s].exchangeID = sock[x].exchangeID
      BY <1>1, <3>1, <3>2 DEF IInv, Good, Partnered, OnePerRole
    <3>4. x \in partner
      BY <1>2, <2>2, <3>2, <3>3
         DEF ExchangeSockets, OpenSockets, AttachedSockets, InExchange, Attached
    <3>5. QED BY <1>3, <3>1, <3>3, <3>4 DEF InExchange
  <2>3. FreeIsBlank(left) /\ OnePerRole(left) /\ ViewersBound(left)
    BY <1>2 DEF IInv, Good, FreeIsBlank, OnePerRole, ViewersBound, Attached
  <2>4. Good(sock', received')
    BY <2>1, <2>2, <2>3, QuietGood
  <2>5. TypeOK'
    BY <1>1, <1>2, <2>1 DEF IInv, TypeOK, Tables
  <2>6. QED BY <2>4, <2>5 DEF IInv
<1>4. CASE sock[s].exchangeID # 0 /\ partner # {}
  <2>1. sock' = IF sock[s].role = "viewer" THEN Unpaired(left, p)
                ELSE [left EXCEPT ![p].departed = TRUE, ![p].state = "closing"]
    BY <1>1, <1>4 DEF DepartedSockets
  <2>2. p \in Sockets /\ left[p].role = Opposite(sock[s].role) /\ ~left[p].departed
        /\ left[p].state = "open"
    <3>1. p \in partner
      BY <1>4, FirstMember
    <3>2. QED BY <3>1 DEF ExchangeSockets, OpenSockets, AttachedSockets
  <2> HIDE DEF left, partner, p
  <2>3. /\ sock' \in Tables
        /\ \A t \in Sockets :
             /\ sock'[t].role = left[t].role
             /\ t # p => sock'[t] = left[t]
        /\ (sock'[p].exchangeID = 0 /\ sock[s].role = "viewer") \/ sock'[p].departed
        /\ sock'[p].state # "free"
        /\ sock[s].role # "viewer" => sock'[p].exchangeID = left[p].exchangeID
    <3>1. CASE sock[s].role = "viewer"
      BY SMTT(30), <1>2, <2>1, <2>2, <3>1, UnpairedTable
    <3>2. CASE sock[s].role # "viewer"
      BY <1>2, <2>1, <2>2, <3>2 DEF Tables, Attachments
    <3>3. QED BY <3>1, <3>2
  <2>4. p # s /\ Attached(sock, p)
    BY <1>1, <1>2, <2>2, OppositeRole DEF Attached
  <2>5. ASSUME NEW x \in Sockets, Attached(sock', x) PROVE x = p
    <3>1. CASE x # p
      <4>1. x # s /\ Attached(sock, x)
        BY <1>2, <2>3, <2>5, <3>1 DEF Attached
      <4>2. sock[x].role = sock[p].role
        BY <1>1, <1>2, <2>2, <4>1 DEF IInv, Good, OnePerRole, Attached, Opposite, Roles
      <4>3. QED BY <2>2, <2>4, <3>1, <4>1, <4>2 DEF IInv, Good, OnePerRole
    <3>2. QED BY <3>1
  <2>6. \A x \in Sockets : ~InExchange(sock', x)
    BY <2>2, <2>3, <2>5 DEF InExchange, Attached
  <2>7. FreeIsBlank(sock')
    <3>1. \A t \in Sockets : left[t].state = "free" <=> left[t].role = "none"
      BY <1>2 DEF IInv, Good, FreeIsBlank
    <3>2. QED BY <2>2, <2>3, <3>1 DEF FreeIsBlank
  <2>8. ViewersBound(sock')
    <3>1. \A t \in Sockets : left[t].role = "viewer" => left[t].exchangeID # 0
      BY <1>2 DEF IInv, Good, ViewersBound
    <3>2. sock[s].role = "viewer" => left[p].role # "viewer"
      BY <2>2 DEF Opposite
    <3>3. QED BY <2>2, <2>3, <3>1, <3>2 DEF ViewersBound
  <2>9. OnePerRole(sock')
    BY <2>5 DEF OnePerRole
  <2>10. Good(sock', received')
    BY <2>6, <2>7, <2>8, <2>9, QuietGood
  <2>11. TypeOK'
    BY <1>1, <2>3 DEF IInv, TypeOK, Tables
  <2>12. QED BY <2>10, <2>11 DEF IInv
<1>5. QED BY <1>3, <1>4

\* A client disappears, or its socket closes.
LEMMA NetworkInv ==
  ASSUME IInv, NEW s \in Sockets, ClientLost(s) \/ SocketCloses(s) PROVE IInv'
<1>1. /\ sock \in Tables /\ faults \in Nat /\ sock[s].state # "free"
      /\ UNCHANGED <<registered, lastExchange, received, acked>>
  BY DEF IInv, TypeOK, Tables, ClientLost, SocketCloses
<1>2. faults' \in Nat
  BY <1>1, FaultNat DEF ClientLost, SocketCloses
<1>3. /\ sock' \in Tables
      /\ \A t \in Sockets :
           /\ sock'[t].role = sock[t].role /\ sock'[t].exchangeID = sock[t].exchangeID
           /\ sock'[t].nextSequence = sock[t].nextSequence
           /\ sock'[t].departed <=> sock[t].departed
           /\ sock'[t].state = "free" <=> sock[t].state = "free"
           /\ sock'[t].state = "open" => sock[t].state = "open"
  <2>1. CASE ClientLost(s)
    BY <1>1, <2>1 DEF ClientLost, Tables, Attachments
  <2>2. CASE SocketCloses(s)
    BY <1>1, <2>2 DEF SocketCloses, Tables, Attachments
  <2>3. QED BY <2>1, <2>2
<1>4. Good(sock', received)
  BY <1>1, <1>3, ShrinkGood DEF IInv
<1>5. TypeOK'
  BY <1>1, <1>2, <1>3 DEF IInv, TypeOK, Tables
<1>6. QED BY <1>1, <1>4, <1>5 DEF IInv

\* A closed socket is forgotten.
LEMMA ForgottenInv == ASSUME IInv, NEW s \in Sockets, SocketForgotten(s) PROVE IInv'
<1>1. /\ sock \in Tables /\ received \in [Sockets -> Nat] /\ ~Attached(sock, s)
      /\ sock' = [sock EXCEPT ![s] = FreeSocket] /\ received' = [received EXCEPT ![s] = 0]
      /\ UNCHANGED <<registered, lastExchange, acked, faults>>
  BY DEF SocketForgotten, IInv, TypeOK, Tables, Attached
<1>2. FreeSocket \in Attachments /\ FreeSocket.state = "free" /\ FreeSocket.role = "none"
  BY DEF FreeSocket, Attachments
<1>3. /\ sock' \in Tables /\ received' \in [Sockets -> Nat]
      /\ sock'[s] = FreeSocket /\ \A t \in Sockets \ {s} : sock'[t] = sock[t]
      /\ \A t \in Sockets \ {s} : received'[t] = received[t]
  BY <1>1, <1>2 DEF Tables
<1>4. ~Attached(sock', s) /\ \A t \in Sockets \ {s} : Attached(sock', t) <=> Attached(sock, t)
  BY <1>2, <1>3 DEF Attached, Roles
<1>5. FreeIsBlank(sock') /\ ViewersBound(sock') /\ OnePerRole(sock')
  BY <1>2, <1>3, <1>4 DEF IInv, Good, FreeIsBlank, ViewersBound, OnePerRole
<1>6. Partnered(sock')
  BY ZenonT(60), <1>1, <1>3, <1>4 DEF IInv, Good, Partnered, InExchange
<1>7. InStep(sock', received')
  <2> SUFFICES ASSUME NEW x \in Sockets, NEW y \in Sockets,
                      InExchange(sock', x), InExchange(sock', y),
                      sock'[y].role = Opposite(sock'[x].role),
                      sock'[x].exchangeID = sock'[y].exchangeID
               PROVE  received'[y] = sock'[x].nextSequence
    BY DEF InStep
  <2>1. x # s /\ y # s
    BY <1>4 DEF InExchange
  <2>2. InExchange(sock, x) /\ InExchange(sock, y)
    BY <1>3, <1>4, <2>1 DEF InExchange
  <2>3. QED BY <1>3, <2>1, <2>2 DEF IInv, Good, InStep
<1>8. TypeOK'
  BY <1>1, <1>3 DEF IInv, TypeOK, Tables
<1>9. QED BY <1>5, <1>6, <1>7, <1>8 DEF IInv, Good

-----------------------------------------------------------------------------
\* Without sockets the invariant holds.
LEMMA InitInv == Init => IInv
<1> SUFFICES ASSUME Init PROVE IInv
  OBVIOUS
<1>1. /\ FreeSocket \in Attachments /\ FreeSocket.state = "free" /\ FreeSocket.role = "none"
  BY DEF FreeSocket, Attachments
<1>2. \A t \in Sockets : sock[t] = FreeSocket
  BY DEF Init
<1>3. TypeOK
  BY <1>1 DEF Init, TypeOK
<1>4. \A t \in Sockets : ~Attached(sock, t)
  BY <1>1, <1>2 DEF Attached, Roles
<1>5. Good(sock, received)
  BY <1>1, <1>2, <1>4, QuietGood DEF FreeIsBlank, OnePerRole, ViewersBound, InExchange
<1>6. QED BY <1>3, <1>5 DEF IInv

\* Every step keeps the invariant.
LEMMA NextInv == IInv /\ [Next]_vars => IInv'
<1> SUFFICES ASSUME IInv, [Next]_vars PROVE IInv'
  OBVIOUS
<1>1. CASE UNCHANGED vars
  BY <1>1 DEF vars, IInv, TypeOK
<1>2. CASE HostJoin
  BY <1>2, HostWaitsInv, StartExchangeInv DEF HostJoin, Roles
<1>3. CASE ViewerJoin
  BY <1>3, ForcedResetInv, StartExchangeInv DEF ViewerJoin, Roles
<1>4. CASE \E role \in Roles, s \in Sockets : PeerUnwritable(role, s)
  BY <1>4, PeerUnwritableInv
<1>5. CASE \E role \in Roles, s \in Sockets, hostReached \in BOOLEAN :
             ReadyFails(role, s, hostReached)
  BY <1>5, ReadyFailsInv
<1>6. ASSUME NEW s \in Sockets, RefuseDeparted(s) \/ RejectMessage(s) PROVE IInv'
  <2>1. faults' \in Nat
    BY <1>6, FaultNat DEF RefuseDeparted, RejectMessage, IInv, TypeOK
  <2>2. QED
    BY <1>6, <2>1, ClosingGood DEF RefuseDeparted, RejectMessage, IInv, TypeOK
<1>7. ASSUME NEW s \in Sockets, AckProbe(s) PROVE IInv'
  BY <1>7 DEF AckProbe, IInv, TypeOK
<1>8. ASSUME NEW s \in Sockets,
             \/ ForwardSignal(s) \/ Departure(s) \/ ClientLost(s)
             \/ SocketCloses(s) \/ SocketForgotten(s)
      PROVE  IInv'
  BY <1>8, ForwardSignalInv, DepartureInv, NetworkInv, ForgottenInv
<1>9. QED
  BY <1>1, <1>2, <1>3, <1>4, <1>5, <1>6, <1>7, <1>8 DEF Next

\* The invariant holds in every reachable state.
LEMMA Invariance == Spec => []IInv
  BY InitInv, NextInv, PTL DEF Spec

-----------------------------------------------------------------------------
\* The invariant says that the attachments are coherent.
LEMMA InvCoherent == IInv => AttachmentsCoherent
<1> SUFFICES ASSUME IInv PROVE AttachmentsCoherent
  OBVIOUS
<1>1. \A s \in Sockets, role \in Roles :
        /\ s \in AttachedSockets(sock, role) <=> sock[s].role = role /\ ~sock[s].departed
        /\ s \in OpenSockets(sock, role)
             <=> sock[s].role = role /\ ~sock[s].departed /\ sock[s].state = "open"
  BY DEF OpenSockets, AttachedSockets
<1>2. OneAttachedPerRole
  BY DEF OneAttachedPerRole, IInv, Good, OnePerRole, Attached
<1>3. NoHalfExchange
  <2>1. ASSUME NEW s \in Sockets, s \in OpenSockets(sock, "viewer")
        PROVE  \E h \in AttachedSockets(sock, "host") :
                 sock[h].exchangeID = sock[s].exchangeID /\ sock[s].exchangeID # 0
    <3>1. InExchange(sock, s) /\ sock[s].role = "viewer"
      BY <1>1, <2>1 DEF InExchange, Attached, Roles, IInv, Good, ViewersBound
    <3>2. PICK h \in Sockets : /\ Attached(sock, h) /\ sock[h].role = Opposite("viewer")
                               /\ sock[h].exchangeID = sock[s].exchangeID
      BY <3>1 DEF IInv, Good, Partnered
    <3>3. h \in AttachedSockets(sock, "host")
      BY <1>1, <3>2 DEF Opposite, Attached, Roles
    <3>4. QED BY <3>1, <3>2, <3>3 DEF InExchange
  <2>2. ASSUME NEW s \in Sockets, s \in OpenSockets(sock, "host"), sock[s].exchangeID # 0
        PROVE  \E v \in AttachedSockets(sock, "viewer") : sock[v].exchangeID = sock[s].exchangeID
    <3>1. InExchange(sock, s) /\ sock[s].role = "host"
      BY <1>1, <2>2 DEF InExchange, Attached, Roles
    <3>2. PICK v \in Sockets : /\ Attached(sock, v) /\ sock[v].role = Opposite("host")
                               /\ sock[v].exchangeID = sock[s].exchangeID
      BY <3>1 DEF IInv, Good, Partnered
    <3>3. v \in AttachedSockets(sock, "viewer")
      BY <1>1, <3>2 DEF Opposite, Attached, Roles
    <3>4. QED BY <3>2, <3>3
  <2>3. QED BY <2>1, <2>2 DEF NoHalfExchange
<1>4. SequencesInStep
  <2> SUFFICES ASSUME NEW h \in Sockets, NEW v \in Sockets, LivePair(h, v)
               PROVE  received[v] = sock[h].nextSequence /\ received[h] = sock[v].nextSequence
    BY DEF SequencesInStep
  <2>1. /\ InExchange(sock, h) /\ InExchange(sock, v) /\ sock[h].role = "host"
        /\ sock[v].role = "viewer" /\ sock[h].exchangeID = sock[v].exchangeID
    BY <1>1 DEF LivePair, InExchange, Attached, Roles
  <2>2. QED BY <2>1 DEF IInv, Good, InStep, Opposite
<1>5. QED BY <1>2, <1>3, <1>4 DEF AttachmentsCoherent, IInv

\* The attachments always describe one coherent channel: one socket per role,
\* nobody waiting in an exchange alone, sequences of the current exchange; for
\* any number of sockets, replacements, lost clients and failed sends
\* (handleAvailabilityJoin, handleAvailabilityMessage, handleAvailabilityDeparture).
THEOREM Coherence == Spec => []AttachmentsCoherent
  BY Invariance, InvCoherent, PTL

\* A probe is acknowledged only to the one attached, open host
\* (handleAvailabilityProbe).
THEOREM ProbeProof == Spec => ProbeProvesCurrentHost
<1>1. ASSUME IInv, [Next]_vars, acked' # acked
      PROVE  AttachedSockets(sock, "host") = {acked'} /\ acked' \in OpenSockets(sock, "host")
  <2>1. PICK s \in Sockets : AckProbe(s)
    <3>1. ~UNCHANGED vars
      BY <1>1 DEF vars
    <3>2. ~HostJoin /\ ~ViewerJoin
      BY <1>1 DEF HostJoin, ViewerJoin, HostWaits, StartExchange, ViewerForcesReset
    <3>3. ~\E role \in Roles, s \in Sockets : PeerUnwritable(role, s)
      BY <1>1 DEF PeerUnwritable
    <3>4. ~\E role \in Roles, s \in Sockets, hostReached \in BOOLEAN :
             ReadyFails(role, s, hostReached)
      BY <1>1 DEF ReadyFails
    <3>5. \A s \in Sockets : ~RefuseDeparted(s) /\ ~RejectMessage(s) /\ ~ForwardSignal(s)
      BY <1>1 DEF RefuseDeparted, RejectMessage, ForwardSignal
    <3>6. \A s \in Sockets : /\ ~Departure(s) /\ ~ClientLost(s)
                             /\ ~SocketCloses(s) /\ ~SocketForgotten(s)
      BY <1>1 DEF Departure, ClientLost, SocketCloses, SocketForgotten
    <3>7. QED BY <1>1, <3>1, <3>2, <3>3, <3>4, <3>5, <3>6 DEF Next
  <2>2. acked' = s /\ s \in OpenSockets(sock, "host")
    BY <2>1, FirstMember DEF AckProbe, AuthorizedHost
  <2>3. \A t \in AttachedSockets(sock, "host") : t = s
    BY <1>1, <2>2 DEF IInv, Good, OnePerRole, Attached, Roles, OpenSockets, AttachedSockets
  <2>4. s \in AttachedSockets(sock, "host")
    BY <2>2 DEF OpenSockets
  <2>5. QED BY <2>2, <2>3, <2>4
<1>2. IInv /\ [Next]_vars =>
        [acked' # acked => AttachedSockets(sock, "host") = {acked'}
                           /\ acked' \in OpenSockets(sock, "host")]_vars
  BY <1>1
<1>3. QED BY <1>2, Invariance, PTL DEF Spec, ProbeProvesCurrentHost

-----------------------------------------------------------------------------
(* A live exchange is kept. *)

\* s keeps its exchange and its sequence does not go back.
Kept(s) == /\ sock'[s].exchangeID = sock[s].exchangeID
           /\ sock'[s].nextSequence >= sock[s].nextSequence

Staying(s) == sock'[s].state = "open" /\ ~sock'[s].departed

\* The two sockets of a live exchange.
LEMMA LivePairFields ==
  ASSUME NEW h \in Sockets, NEW v \in Sockets, LivePair(h, v)
  PROVE  /\ Attached(sock, h) /\ sock[h].role = "host" /\ sock[h].state = "open"
         /\ Attached(sock, v) /\ sock[v].role = "viewer" /\ sock[v].state = "open"
         /\ ~sock[h].departed /\ ~sock[v].departed
  BY DEF LivePair, OpenSockets, AttachedSockets, Attached, Roles

\* A viewer cannot be paired beside an attached viewer, and a host that pairs
\* retires the host of the exchange.
LEMMA PairingSupersedes ==
  ASSUME IInv, NEW h \in Sockets, NEW v \in Sockets, LivePair(h, v),
         NEW role \in Roles, NEW s \in Sockets, CanPair(role, s),
         NEW e \in Nat, NEW p, p = First(OpenSockets(sock, Opposite(role)))
  PROVE  /\ role = "host" /\ h # s /\ h # p
         /\ Paired(role, s, p, e) \in Tables /\ Paired(role, s, p, e)[h].departed
         /\ p \in Sockets
<1>1. sock \in Tables
  BY DEF IInv, TypeOK, Tables
<1>2. v \in AttachedSockets(sock, "viewer")
  BY DEF LivePair, OpenSockets
<1>3. role = "host"
  BY <1>2 DEF CanPair, ReplacesViewerExchange, Roles
<1>4. p \in Sockets /\ sock[p].role = "viewer" /\ sock[p].state = "open"
  <2>1. p \in OpenSockets(sock, Opposite(role))
    BY FirstMember DEF CanPair
  <2>2. QED BY <1>3, <2>1 DEF OpenSockets, AttachedSockets, Opposite
<1>5. h # s /\ h # p /\ s # p
  BY <1>4, LivePairFields DEF CanPair
<1>6. /\ Paired(role, s, p, e) \in Tables
      /\ Paired(role, s, p, e)[h] = Retired(sock, role)[h]
  BY <1>1, <1>3, <1>4, <1>5, PairedTable DEF Opposite
<1>7. Retired(sock, role)[h].departed
  BY <1>1, <1>3, LivePairFields, RetiredTable
<1>8. QED BY <1>3, <1>4, <1>5, <1>6, <1>7

\* A join that meets a live exchange fences its host.
LEMMA JoinKeeps ==
  ASSUME IInv, NEW h \in Sockets, NEW v \in Sockets, LivePair(h, v), HostJoin \/ ViewerJoin
  PROVE  ~Staying(h)
<1>1. sock \in Tables /\ lastExchange + 1 \in Nat
  BY DEF IInv, TypeOK, Tables
<1>2. ASSUME NEW role \in Roles, NEW s \in Sockets, StartExchange(role, s) PROVE ~Staying(h)
  BY <1>1, <1>2, PairingSupersedes DEF StartExchange, Staying
<1>3. ASSUME NEW s \in Sockets, HostWaits(s) PROVE FALSE
  BY <1>3 DEF HostWaits, LivePair
<1>4. ASSUME ViewerForcesReset PROVE ~Staying(h)
  <2> DEFINE r == Retired(sock, "viewer")
  <2>1. r \in Tables /\ r[h].role = "host"
    BY <1>1, RetiredTable, LivePairFields DEF Roles
  <2>2. sock' = Retired(r, "host")
    BY <1>4 DEF ViewerForcesReset
  <2> HIDE DEF r
  <2>3. sock'[h].departed
    BY <2>1, <2>2, RetiredTable DEF Roles
  <2>4. QED BY <2>3 DEF Staying
<1>5. QED BY <1>2, <1>3, <1>4 DEF HostJoin, ViewerJoin, Roles

\* So does a join that fails.
LEMMA FailedJoinKeeps ==
  ASSUME IInv, NEW h \in Sockets, NEW v \in Sockets, LivePair(h, v),
         NEW role \in Roles, NEW s \in Sockets,
         PeerUnwritable(role, s) \/ \E hostReached \in BOOLEAN : ReadyFails(role, s, hostReached)
  PROVE  ~Staying(h)
<1> DEFINE p == First(OpenSockets(sock, Opposite(role)))
           e == lastExchange + 1
           sk == Paired(role, s, p, e)
<1>1. sock \in Tables /\ e \in Nat /\ sock[h].role = "host"
  BY LivePairFields DEF IInv, TypeOK, Tables
<1>2. CanPair(role, s)
  BY DEF PeerUnwritable, ReadyFails
<1>3. role = "host" /\ h # s /\ sk \in Tables /\ sk[h].departed /\ p \in Sockets
  BY <1>1, <1>2, PairingSupersedes
<1> HIDE DEF p, e
<1>4. CASE PeerUnwritable(role, s)
  <2> DEFINE r == Retired(sock, "host")
             left == Retired(r, "viewer")
  <2>1. sock' = [left EXCEPT ![s] = NewAttachment("host", 0)]
    BY <1>3, <1>4 DEF PeerUnwritable, Opposite
  <2>2. r \in Tables /\ r[h].departed
    BY <1>1, RetiredTable DEF Roles
  <2> HIDE DEF r
  <2>3. left \in Tables /\ left[h].departed
    BY <2>2, RetiredTable DEF Roles
  <2> HIDE DEF left
  <2>4. sock'[h] = left[h]
    BY <1>3, <2>1, <2>3 DEF Tables
  <2>5. QED BY <2>3, <2>4 DEF Staying
<1>5. ASSUME NEW hostReached \in BOOLEAN, ReadyFails(role, s, hostReached) PROVE ~Staying(h)
  <2> DEFINE reset == Unpaired(sk, s)
             left == Retired(reset, "viewer")
  <2>1. sock' = IF hostReached THEN left ELSE Closing(left, {s})
    BY <1>3, <1>5 DEF ReadyFails, p, e
  <2> HIDE DEF sk
  <2>2. reset \in Tables /\ reset[h].departed
    BY <1>3, UnpairedTable
  <2> HIDE DEF reset
  <2>3. left \in Tables /\ left[h].departed
    BY <2>2, RetiredTable DEF Roles
  <2> HIDE DEF left
  <2>4. sock'[h].departed
    BY <2>1, <2>3, ClosingTable
  <2>5. QED BY <2>4 DEF Staying
<1>6. QED BY <1>4, <1>5

\* A departure during a live exchange is of one of its two sockets.
LEMMA DepartureKeeps ==
  ASSUME IInv, NEW h \in Sockets, NEW v \in Sockets, LivePair(h, v),
         NEW s \in Sockets, Departure(s)
  PROVE  ~Staying(h) \/ ~Staying(v)
<1> DEFINE left == [sock EXCEPT ![s].departed = TRUE]
           partner == ExchangeSockets(left, Opposite(sock[s].role), sock[s].exchangeID)
           p == First(partner)
<1>1. sock \in Tables /\ ~sock[s].departed /\ sock[s].role \in Roles
  <2>1. sock \in Tables /\ sock[s].role \in Roles \cup {"none"}
    BY DEF IInv, TypeOK, Tables, Attachments
  <2>2. QED BY <2>1 DEF Departure, IInv, Good, FreeIsBlank
<1>2. s = h \/ s = v
  BY <1>1, LivePairFields DEF IInv, Good, OnePerRole, Attached, Roles
<1>3. left \in Tables /\ left[s].departed
  BY <1>1 DEF Tables, Attachments
<1>4. partner # {} => p \in Sockets
  BY FirstMember DEF ExchangeSockets, OpenSockets, AttachedSockets
<1>5. \/ sock' = left
      \/ partner # {} /\ sock' = Unpaired(left, p)
      \/ partner # {} /\ sock' = [left EXCEPT ![p].departed = TRUE, ![p].state = "closing"]
  BY DEF Departure, DepartedSockets
<1> HIDE DEF left, partner, p
<1>6. sock'[s].departed
  <2>1. CASE sock' = left
    BY <1>3, <2>1
  <2>2. CASE partner # {} /\ sock' = Unpaired(left, p)
    BY <1>3, <1>4, <2>2, UnpairedTable
  <2>3. CASE partner # {} /\ sock' = [left EXCEPT ![p].departed = TRUE, ![p].state = "closing"]
    BY <1>3, <1>4, <2>3 DEF Tables, Attachments
  <2>4. QED BY <1>5, <2>1, <2>2, <2>3
<1>7. QED BY <1>2, <1>6 DEF Staying

\* What happens on one socket leaves the others their exchange.
LEMMA SocketStepKeeps ==
  ASSUME IInv, NEW x \in Sockets, sock[x].state = "open", NEW s \in Sockets,
         \/ RefuseDeparted(s) \/ RejectMessage(s) \/ ForwardSignal(s) \/ AckProbe(s)
         \/ ClientLost(s) \/ SocketCloses(s) \/ SocketForgotten(s)
  PROVE  Kept(x)
<1>1. sock \in Tables /\ sock[x].nextSequence \in Nat
  BY DEF IInv, TypeOK, Tables, Attachments
<1>2. CASE RefuseDeparted(s) \/ RejectMessage(s)
  <2>1. sock' = Closing(sock, {s})
    BY <1>2 DEF RefuseDeparted, RejectMessage
  <2>2. QED BY <1>1, <2>1, ClosingTable DEF Kept
<1>3. CASE ForwardSignal(s)
  BY <1>1, <1>3 DEF ForwardSignal, Kept, Tables, Attachments
<1>4. CASE AckProbe(s)
  BY <1>1, <1>4 DEF AckProbe, Kept
<1>5. CASE ClientLost(s) \/ SocketCloses(s)
  BY <1>1, <1>5 DEF ClientLost, SocketCloses, Kept, Tables, Attachments
<1>6. CASE SocketForgotten(s)
  BY <1>1, <1>6 DEF SocketForgotten, Kept, Tables
<1>7. QED BY <1>2, <1>3, <1>4, <1>5, <1>6

\* Two sockets that stay open and attached in one exchange are never rebound and
\* never rewound by a callback, probe or join of another socket.
THEOREM ExchangeKept == Spec => LiveExchangeKept
<1>1. ASSUME IInv, [Next]_vars, NEW h \in Sockets, NEW v \in Sockets, LivePair(h, v),
             Staying(h), Staying(v)
      PROVE  Kept(h) /\ Kept(v)
  <2>1. CASE UNCHANGED vars
    BY <1>1, <2>1 DEF vars, Kept, IInv, TypeOK, Attachments
  <2>2. ~HostJoin /\ ~ViewerJoin
    BY <1>1, JoinKeeps
  <2>3. \A role \in Roles, s \in Sockets :
          /\ ~PeerUnwritable(role, s)
          /\ ~\E hostReached \in BOOLEAN : ReadyFails(role, s, hostReached)
    BY <1>1, FailedJoinKeeps
  <2>4. \A s \in Sockets : ~Departure(s)
    BY <1>1, DepartureKeeps
  <2>5. ASSUME NEW s \in Sockets,
               \/ RefuseDeparted(s) \/ RejectMessage(s) \/ ForwardSignal(s) \/ AckProbe(s)
               \/ ClientLost(s) \/ SocketCloses(s) \/ SocketForgotten(s)
        PROVE  Kept(h) /\ Kept(v)
    BY <1>1, <2>5, LivePairFields, SocketStepKeeps
  <2>6. QED BY <1>1, <2>1, <2>2, <2>3, <2>4, <2>5 DEF Next
<1>2. IInv /\ [Next]_vars =>
        [\A h, v \in Sockets :
           LivePair(h, v) /\ (\A s \in {h, v} : sock'[s].state = "open" /\ ~sock'[s].departed)
           => \A s \in {h, v} : /\ sock'[s].exchangeID = sock[s].exchangeID
                                /\ sock'[s].nextSequence >= sock[s].nextSequence]_vars
  BY <1>1 DEF Staying, Kept
<1>3. QED BY <1>2, Invariance, PTL DEF Spec, LiveExchangeKept
=============================================================================
