------------------------ MODULE PairingCommitProofs ------------------------
(* What the pairing of a host and a viewer keeps at every step, whatever is *)
(* interrupted, lost or retried, for any number of handshakes, exchanges,   *)
(* reconnects and faults.  The invariant relates four kinds of state:       *)
(*   - the records on disk to the one the host works with in memory;        *)
(*   - the participants of a handshake to the messages that name them: the  *)
(*     viewer's confirmation proves that its half is stored, and only the   *)
(*     hello of the viewer's latest participant can lead to another half;   *)
(*   - the two ends of one exchange: they run the same protocol, and on     *)
(*     availability for the same pair;                                      *)
(*   - each commit message on the way to what its sender had stored.        *)
EXTENDS PairingCommit, TLAPS

----------------------------------------------------------------------------
(* Messages                                                                 *)

\* What a queue holds.
Held(q) == {q[i] : i \in DOMAIN q}

Sent(q, type) == {m \in Held(q) : m.type = type}

\* The viewer's hellos arrive in the order of its participants.
HelloOrder(q) ==
  \A i, j \in DOMAIN q :
    i < j /\ q[i].type = "hello" /\ q[j].type = "hello" => q[i].number < q[j].number

\* The host proposes no more once it has sent a completion.
CommitOrdered(q) ==
  \A i, j \in DOMAIN q : i < j /\ q[i].type = "completion" => q[j].type # "proposal"

----------------------------------------------------------------------------
(* The inductive invariant                                                  *)

\* Participants are numbered as they start; 0 is none.
Numbering ==
  /\ host.mode = "bootstrap" =>
       /\ 1 <= host.invitation /\ host.invitation <= host.participant
       /\ host.participant <= count.host
  /\ host.agreement # NoPair =>
       /\ host.mode = "bootstrap" /\ host.agreement[1] = host.participant
       /\ host.agreement[2] \in 1..count.viewer
  /\ viewer.mode = "bootstrap" => viewer.participant = count.viewer /\ 1 <= count.viewer
  /\ viewer.agreement # NoPair => viewer.mode = "bootstrap" /\ viewer.agreement[2] = viewer.participant
  /\ hostDisk.pair[1] <= count.host
  /\ hostDisk.pair[2] <= count.viewer
  /\ viewerDisk.pair[2] <= count.viewer
  /\ \A p \in forgotten :
       /\ p[2] \in 1..count.viewer /\ p # viewerDisk.pair
       /\ viewer.mode = "bootstrap" => p[2] # viewer.participant

\* The shape of the host's record: its recovery commit is of its phase.
Shaped(r) ==
  /\ r.state = "none" => r = NoHostRecord
  /\ r.state # "none" => r.pair[1] >= 1 /\ r.pair[2] >= 1
  /\ r.state = "pending" => r.recovery \in {"none", "proposal"}
  /\ r.state = "acceptedReceived" => r.recovery \in {"none", "completion"}
  /\ r.state = "active" => r.recovery = "none"

\* The host works with the record it has stored, or with the proposal it had
\* stored before it failed to store the completion.
Works(r, disk) ==
  /\ r.state # "none"
  /\ \/ r = disk
     \/ r.state = "pending" /\ r.recovery = "proposal" /\ disk = AcceptAcknowledgement(r)

Records ==
  /\ Shaped(hostDisk)
  /\ viewerDisk.state = "none" => viewerDisk = NoViewerRecord
  /\ viewerDisk.state # "none" => viewerDisk.pair[2] >= 1 /\ viewerDisk.next >= 1
  /\ host.mode = "down" => host = HostDown
  /\ host.mode = "bootstrap" =>
       host.record = hostDisk /\ (hostDisk.state # "none" => host.agreement = hostDisk.pair)
  /\ host.mode \in {"retrying", "availability"} => Works(host.record, hostDisk)

\* An end that is down holds nothing; two ends in an exchange run the same
\* protocol, and on availability for the same pair.
Modes ==
  /\ host.online => host.mode \in {"bootstrap", "availability"}
  /\ host.mode \in {"down", "retrying"} => toHost = <<>>
  /\ viewer.mode = "idle" => toViewer = <<>> /\ ~viewer.online
  /\ viewer.mode = "availability" => viewerDisk.state # "none"
  /\ viewer.starting => viewer.mode = "availability"
  /\ link # 0 /\ host.online /\ viewer.online =>
       /\ host.mode = viewer.mode
       /\ host.mode = "availability" => host.record.pair = viewerDisk.pair

\* A hello on its way is of a participant that has sent it.
Hellos ==
  /\ HelloOrder(toHost)
  /\ \A m \in Sent(toHost, "hello") :
       /\ m.number \in 1..count.viewer
       /\ viewer.mode = "bootstrap" /\ ~viewer.helloSent => m.number # viewer.participant

\* A confirmation is of the one agreement of a host participant.  While the
\* viewer may still store the pair it confirms, the host has agreed to no other;
\* while the host may still store it, the viewer has.
Confirmations ==
  /\ \A m \in Sent(toHost, "confirmation") \cup Sent(toViewer, "confirmation") :
       /\ m.pair[1] \in 1..count.host /\ m.pair[2] \in 1..count.viewer
       /\ host.mode = "bootstrap" /\ m.pair[1] = host.participant => host.agreement = m.pair
  /\ \A m \in Sent(toViewer, "confirmation") :
       viewer.mode = "bootstrap" /\ m.pair[2] = viewer.participant =>
         /\ viewer.helloSent /\ Sent(toHost, "hello") = {}
         /\ host.agreement \in {NoPair, m.pair} /\ hostDisk.pair \in {NoPair, m.pair}
  /\ \A m \in Sent(toHost, "confirmation") :
       /\ host.agreement = m.pair /\ host.record.state = "none" =>
            \/ viewerDisk.pair = m.pair /\ viewerDisk.state = "pending"
            \/ m.pair \in forgotten
       /\ viewer.mode = "bootstrap" /\ m.pair[2] = viewer.participant => viewer.bound
  /\ viewer.mode = "bootstrap" /\ viewer.participant \in {hostDisk.pair[2], viewerDisk.pair[2]} =>
       viewer.bound

\* What the viewer has sent of the commit is for the host's record, and was sent
\* in a phase its own record has reached.
ToHost ==
  /\ \A m \in Sent(toHost, "acknowledgement") \cup Sent(toHost, "activation") :
       m.pair = host.record.pair /\ HostRank(host.record) >= 2
  /\ Sent(toHost, "acknowledgement") # {} /\ Kept(hostDisk.pair) =>
       viewerDisk.state \in {"acceptedIssued", "active"}
  /\ Sent(toHost, "activation") # {} =>
       /\ HostRank(host.record) >= 3
       /\ Kept(hostDisk.pair) => viewerDisk.state = "active"
  /\ Sent(toHost, "request") # {} => host.mode = "availability"

\* What the host has sent of the commit is of a phase its record has reached.
ToViewer ==
  /\ \A m \in Sent(toViewer, "proposal") \cup Sent(toViewer, "completion") :
       /\ m.pair[1] \in 1..count.host
       /\ host.mode = "bootstrap" /\ host.record.state = "none" => m.pair[1] < host.participant
       /\ viewer.mode = "bootstrap" /\ viewer.online /\ link # 0 /\ host.online =>
            host.record.pair = m.pair
       /\ viewer.mode = "availability" => m.pair = viewerDisk.pair
  /\ \A m \in Sent(toViewer, "proposal") :
       hostDisk.pair = m.pair => HostRank(hostDisk) >= 2
  /\ \A m \in Sent(toViewer, "completion") :
       hostDisk.pair = m.pair => HostRank(hostDisk) >= 4
  /\ viewer.mode = "availability" =>
       /\ CommitOrdered(toViewer)
       /\ Sent(toViewer, "proposal") # {} => viewerDisk.state \in {"pending", "acceptedIssued"}
       /\ Sent(toViewer, "completion") # {} => viewerDisk.state \in {"acceptedIssued", "active"}

IInv ==
  /\ TypeOK /\ Numbering /\ Records /\ Modes
  /\ Hellos /\ Confirmations /\ ToHost /\ ToViewer
  /\ HostRecordHasPeer /\ CommitOrder /\ SequencesFresh

----------------------------------------------------------------------------
(* Queues                                                                   *)

\* The oldest message of a queue is one it holds.
LEMMA HeadHeld == ASSUME NEW q \in Seq(Events), q # <<>> PROVE Head(q) \in Held(q) /\ Head(q) \in Events
  BY DEF Held

\* What a queue holds are messages.
LEMMA HeldEvents == ASSUME NEW q \in Seq(Events) PROVE Held(q) \subseteq Events
  BY DEF Held

\* An empty queue holds nothing, and is in any order.
LEMMA EmptyHeld == <<>> \in Seq(Events) /\ Held(<<>>) = {} /\ HelloOrder(<<>>) /\ CommitOrdered(<<>>)
  BY DEF Held, HelloOrder, CommitOrdered

\* A queue of one message.
LEMMA OneHeld ==
  ASSUME NEW m \in Events
  PROVE  <<m>> \in Seq(Events) /\ Held(<<m>>) = {m} /\ HelloOrder(<<m>>) /\ CommitOrdered(<<m>>)
  BY DEF Held, HelloOrder, CommitOrdered

\* Handling the oldest message leaves the others, in their order.
LEMMA TailHeld ==
  ASSUME NEW q \in Seq(Events), q # <<>>
  PROVE  /\ Tail(q) \in Seq(Events) /\ Held(Tail(q)) \subseteq Held(q)
         /\ HelloOrder(q) => HelloOrder(Tail(q))
         /\ CommitOrdered(q) => CommitOrdered(Tail(q))
<1>1. Tail(q) \in Seq(Events) /\ Len(q) \in Nat /\ Len(Tail(q)) = Len(q) - 1
  OBVIOUS
<1>2. DOMAIN q = 1..Len(q) /\ DOMAIN Tail(q) = 1..(Len(q) - 1)
  BY <1>1
<1>3. ASSUME NEW i \in DOMAIN Tail(q) PROVE i + 1 \in DOMAIN q /\ Tail(q)[i] = q[i + 1] /\ i \in Nat
  BY <1>1, <1>2
<1>4. Held(Tail(q)) \subseteq Held(q)
  BY <1>3 DEF Held
<1>5. HelloOrder(q) => HelloOrder(Tail(q))
  BY <1>3 DEF HelloOrder
<1>6. CommitOrdered(q) => CommitOrdered(Tail(q))
  BY <1>3 DEF CommitOrdered
<1> QED BY <1>1, <1>4, <1>5, <1>6

\* The messages behind the oldest one come later than it.
LEMMA TailOrder ==
  ASSUME NEW q \in Seq(Events), q # <<>>, NEW m \in Held(Tail(q))
  PROVE  /\ HelloOrder(q) /\ Head(q).type = "hello" /\ m.type = "hello" =>
              Head(q).number < m.number
         /\ CommitOrdered(q) /\ Head(q).type = "completion" => m.type # "proposal"
<1>1. PICK i \in DOMAIN Tail(q) : m = Tail(q)[i]
  BY DEF Held
<1>2. i + 1 \in DOMAIN q /\ m = q[i + 1] /\ i + 1 \in Nat /\ 1 < i + 1 /\ 1 \in DOMAIN q /\ Head(q) = q[1]
  BY <1>1
<1> QED BY <1>2 DEF HelloOrder, CommitOrdered

\* What a message added to a queue changes.
LEMMA AppendHeld ==
  ASSUME NEW q \in Seq(Events), NEW m \in Events
  PROVE  /\ Append(q, m) \in Seq(Events) /\ q \o <<m>> = Append(q, m)
         /\ Held(Append(q, m)) = Held(q) \cup {m}
         /\ HelloOrder(q) /\ (m.type = "hello" => \A n \in Sent(q, "hello") : n.number < m.number) =>
              HelloOrder(Append(q, m))
         /\ CommitOrdered(q) /\ (m.type = "proposal" => Sent(q, "completion") = {}) =>
              CommitOrdered(Append(q, m))
<1> DEFINE a == Append(q, m)
<1>1. a \in Seq(Events) /\ q \o <<m>> = a /\ Len(q) \in Nat /\ Len(a) = Len(q) + 1
  OBVIOUS
<1>2. DOMAIN q = 1..Len(q) /\ DOMAIN a = 1..(Len(q) + 1) /\ a[Len(q) + 1] = m
  BY <1>1
<1>3. \A i \in DOMAIN q : i \in DOMAIN a /\ a[i] = q[i]
  BY <1>1, <1>2
<1>4. \A i \in DOMAIN a : i \in Nat /\ (i \in DOMAIN q \/ i = Len(q) + 1)
  BY <1>1, <1>2
<1> HIDE DEF a
<1>5. Held(a) = Held(q) \cup {m}
  BY <1>1, <1>2, <1>3, <1>4 DEF Held
<1>6. ASSUME HelloOrder(q), m.type = "hello" => \A n \in Sent(q, "hello") : n.number < m.number
      PROVE  HelloOrder(a)
  <2> SUFFICES ASSUME NEW i \in DOMAIN a, NEW j \in DOMAIN a, i < j,
                      a[i].type = "hello", a[j].type = "hello"
               PROVE  a[i].number < a[j].number
    BY DEF HelloOrder
  <2>1. i \in DOMAIN q
    BY <1>1, <1>2, <1>4
  <2>2. CASE j \in DOMAIN q
    BY <1>3, <1>6, <2>1, <2>2 DEF HelloOrder
  <2>3. CASE j = Len(q) + 1
    <3>1. q[i] \in Sent(q, "hello") /\ a[i] = q[i] /\ a[j] = m
      BY <1>2, <1>3, <2>1, <2>3 DEF Sent, Held
    <3> QED BY <1>6, <3>1
  <2> QED BY <1>4, <2>2, <2>3
<1>7. ASSUME CommitOrdered(q), m.type = "proposal" => Sent(q, "completion") = {}
      PROVE  CommitOrdered(a)
  <2> SUFFICES ASSUME NEW i \in DOMAIN a, NEW j \in DOMAIN a, i < j,
                      a[i].type = "completion"
               PROVE  a[j].type # "proposal"
    BY DEF CommitOrdered
  <2>1. i \in DOMAIN q
    BY <1>1, <1>2, <1>4
  <2>2. CASE j \in DOMAIN q
    BY <1>3, <1>7, <2>1, <2>2 DEF CommitOrdered
  <2>3. CASE j = Len(q) + 1
    <3>1. q[i] \in Sent(q, "completion") /\ a[j] = m
      BY <1>2, <1>3, <2>1, <2>3 DEF Sent, Held
    <3> QED BY <1>7, <3>1
  <2> QED BY <1>4, <2>2, <2>3
<1> QED BY <1>1, <1>5, <1>6, <1>7 DEF a

\* The kinds of message.
LEMMA EventTypes ==
  /\ \A t \in {"ready", "left", "closed", "hello", "request", "response"}, n \in Nat :
       Numbered(t, n) \in Events /\ Numbered(t, n).type = t /\ Numbered(t, n).number = n
  /\ \A t \in CommitPhases \cup {"confirmation"}, p \in Pairs :
       Authenticated(t, p) \in Events /\ Authenticated(t, p).type = t /\ Authenticated(t, p).pair = p
  /\ \A m \in Events :
       /\ m.type \in {"ready", "left", "closed", "hello", "request", "response"} => m.number \in Nat
       /\ m.type \in CommitPhases \cup {"confirmation"} => m.pair \in Pairs
<1>1. \A t \in {"ready", "left", "closed", "hello", "request", "response"}, n \in Nat :
        Numbered(t, n) \in Events /\ Numbered(t, n).type = t /\ Numbered(t, n).number = n
  BY DEF Events, Numbered
<1>2. \A t \in CommitPhases \cup {"confirmation"}, p \in Pairs :
        Authenticated(t, p) \in Events /\ Authenticated(t, p).type = t /\ Authenticated(t, p).pair = p
  BY DEF Events, Authenticated
<1>3. ASSUME NEW m \in Events
      PROVE  /\ m.type \in {"ready", "left", "closed", "hello", "request", "response"} => m.number \in Nat
             /\ m.type \in CommitPhases \cup {"confirmation"} => m.pair \in Pairs
  BY DEF Events, CommitPhases
<1> QED BY <1>1, <1>2, <1>3

\* A condition on every message of a queue may be put on its positions.
LEMMA ByPosition ==
  ASSUME NEW q \in Seq(Events), NEW n
  PROVE  (\A i \in DOMAIN q : q[i].type = "request" => n > q[i].number)
           <=> (\A m \in Sent(q, "request") : n > m.number)
  BY DEF Sent, Held

----------------------------------------------------------------------------
(* Records                                                                  *)

\* The phases of a host's record in the order of the commit.
LEMMA HostPhases ==
  ASSUME NEW r
  PROVE  /\ HostRank(r) \in 0..5
         /\ r.state \in {"none", "pending", "acceptedReceived", "active"} =>
              /\ HostRank(r) >= 1 <=> r.state # "none"
              /\ HostRank(r) >= 2 <=> r.state \in {"acceptedReceived", "active"}
                                      \/ (r.state = "pending" /\ r.recovery = "proposal")
              /\ HostRank(r) >= 3 <=> r.state \in {"acceptedReceived", "active"}
              /\ HostRank(r) >= 4 <=> r.state = "active"
                                      \/ (r.state = "acceptedReceived" /\ r.recovery = "completion")
              /\ HostRank(r) >= 5 <=> r.state = "active"
<1>1. CASE r.state = "active"
  BY <1>1 DEF HostRank
<1>2. CASE r.state = "acceptedReceived"
  BY <1>2 DEF HostRank
<1>3. CASE r.state = "pending"
  BY <1>3 DEF HostRank
<1>4. CASE r.state \notin {"active", "acceptedReceived", "pending"}
  BY <1>4 DEF HostRank
<1> QED BY <1>1, <1>2, <1>3, <1>4

\* The phases of a viewer's record.
LEMMA ViewerPhases ==
  ASSUME NEW r
  PROVE  /\ ViewerRank(r) \in 0..3
         /\ r.state \in {"none", "pending", "acceptedIssued", "active"} =>
              /\ ViewerRank(r) >= 1 <=> r.state # "none"
              /\ ViewerRank(r) >= 2 <=> r.state \in {"acceptedIssued", "active"}
              /\ ViewerRank(r) >= 3 <=> r.state = "active"
<1>1. CASE r.state = "active"
  BY <1>1 DEF ViewerRank
<1>2. CASE r.state = "acceptedIssued"
  BY <1>2 DEF ViewerRank
<1>3. CASE r.state = "pending"
  BY <1>3 DEF ViewerRank
<1>4. CASE r.state \notin {"active", "acceptedIssued", "pending"}
  BY <1>4 DEF ViewerRank
<1> QED BY <1>1, <1>2, <1>3, <1>4

\* What a record of the host is made of.
LEMMA HostRecordFields ==
  ASSUME NEW r \in HostRecords
  PROVE  /\ r.pair \in Pairs /\ r.state \in {"none", "pending", "acceptedReceived", "active"}
         /\ r.recovery \in {"none", "proposal", "completion"} /\ r.highest \in Nat
         /\ r = [pair |-> r.pair, state |-> r.state, recovery |-> r.recovery, highest |-> r.highest]
  BY DEF HostRecords

\* What a record of the viewer is made of.
LEMMA ViewerRecordFields ==
  ASSUME NEW r \in ViewerRecords
  PROVE  /\ r.pair \in Pairs /\ r.state \in {"none", "pending", "acceptedIssued", "active"}
         /\ r.next \in Nat
         /\ r = [pair |-> r.pair, state |-> r.state, next |-> r.next]
  BY DEF ViewerRecords

\* A pair is determined by its two participants.
LEMMA PairFields ==
  /\ \A p \in Pairs : p[1] \in Nat /\ p[2] \in Nat /\ p = <<p[1], p[2]>>
  /\ \A i, j \in Nat : <<i, j>> \in Pairs /\ <<i, j>>[1] = i /\ <<i, j>>[2] = j
  /\ NoPair \in Pairs /\ NoPair[1] = 0 /\ NoPair[2] = 0
  BY DEF Pairs, NoPair

\* One side advances a record it has stored: same pair, no earlier phase, no lower mark.
Advances(new, old) ==
  new.pair = old.pair /\ HostRank(new) >= HostRank(old) /\ new.highest >= old.highest

\* Every transition of a host's record advances it, and keeps its shape.
LEMMA HostTransitions ==
  ASSUME NEW r \in HostRecords, Shaped(r), r.state # "none"
  PROVE  /\ \A s \in {r, AcceptAcknowledgement(r), PrepareCompletion(r), Recovered(r),
                      PrepareCompletion(AcceptAcknowledgement(r))} :
              s \in HostRecords /\ Shaped(s) /\ s.pair = r.pair /\ s.highest = r.highest
         /\ r.state # "pending" => AcceptAcknowledgement(r) = r
         /\ r.state = "pending" =>
              AcceptAcknowledgement(r) = [pair |-> r.pair, state |-> "acceptedReceived",
                                          recovery |-> "none", highest |-> r.highest]
         /\ r.state \in {"pending", "acceptedReceived"} =>
              PrepareCompletion(AcceptAcknowledgement(r)) =
                [pair |-> r.pair, state |-> "acceptedReceived",
                 recovery |-> "completion", highest |-> r.highest]
         /\ r.state = "active" => /\ PrepareCompletion(AcceptAcknowledgement(r)) = r
                                  /\ Recovered(r) = r
         /\ r.state = "acceptedReceived" =>
              Recovered(r) = [pair |-> r.pair, state |-> "acceptedReceived",
                              recovery |-> "completion", highest |-> r.highest]
         /\ r.state = "pending" =>
              Recovered(r) = [pair |-> r.pair, state |-> "pending",
                              recovery |-> "proposal", highest |-> r.highest]
<1>1. /\ r.pair \in Pairs /\ r.state \in {"none", "pending", "acceptedReceived", "active"}
      /\ r.recovery \in {"none", "proposal", "completion"} /\ r.highest \in Nat
      /\ r = [pair |-> r.pair, state |-> r.state, recovery |-> r.recovery, highest |-> r.highest]
      /\ r.pair[1] >= 1 /\ r.pair[2] >= 1
  BY HostRecordFields DEF Shaped
<1> DEFINE R(s, c) == [pair |-> r.pair, state |-> s, recovery |-> c, highest |-> r.highest]
<1>2. \A s \in {"pending", "acceptedReceived", "active"}, c \in {"none", "proposal", "completion"} :
        R(s, c) \in HostRecords
  BY <1>1 DEF HostRecords
<1>3. CASE r.state = "pending"
  <2>1. AcceptAcknowledgement(r) = R("acceptedReceived", "none")
    BY <1>1, <1>3 DEF AcceptAcknowledgement
  <2>2. PrepareCompletion(R("acceptedReceived", "none")) = R("acceptedReceived", "completion")
    BY DEF PrepareCompletion
  <2>3. Recovered(r) = R("pending", "proposal") /\ PrepareCompletion(r) = r
    BY <1>1, <1>3 DEF Recovered, PrepareProposal, PrepareCompletion
  <2> QED BY <1>1, <1>2, <1>3, <2>1, <2>2, <2>3 DEF Shaped
<1>4. CASE r.state = "acceptedReceived"
  <2>1. AcceptAcknowledgement(r) = r
    BY <1>4 DEF AcceptAcknowledgement
  <2>2. PrepareCompletion(r) = R("acceptedReceived", "completion")
    BY <1>1, <1>4 DEF PrepareCompletion
  <2>3. Recovered(r) = R("acceptedReceived", "completion")
    BY <1>4, <2>2 DEF Recovered
  <2> QED BY <1>1, <1>2, <1>4, <2>1, <2>2, <2>3 DEF Shaped
<1>5. CASE r.state = "active"
  BY <1>5 DEF AcceptAcknowledgement, PrepareCompletion, Recovered
<1> QED BY <1>1, <1>3, <1>4, <1>5

----------------------------------------------------------------------------
(* What a step stores and sends                                             *)

\* The two records of a pair in the order of the commit.
Ordered(h, v) ==
  /\ h.state = "active" => v.state = "active"
  /\ h.state = "acceptedReceived" => v.state \in {"acceptedIssued", "active"}
  /\ v.state = "active" => h.state = "active" \/ h.recovery = "completion"
  /\ v.state = "acceptedIssued" => <<h.state, h.recovery>> # <<"pending", "none">>

\* The host stores d: its record advanced, or the first record of the pair it has
\* agreed on and the viewer has confirmed.
HostStores(d) ==
  /\ d \in HostRecords /\ Shaped(d)
  /\ \/ Advances(d, hostDisk)
     \/ /\ hostDisk = NoHostRecord /\ host.mode = "bootstrap" /\ host.record.state = "none"
        /\ host.agreement = d.pair /\ d.pair # NoPair /\ d.state = "pending"
        /\ viewer.mode = "bootstrap" /\ d.pair[2] = viewer.participant => viewer.bound
  /\ Kept(d.pair) =>
       viewerDisk.pair = d.pair /\ viewerDisk.next > d.highest /\ Ordered(d, viewerDisk)

\* The host sends m while it stores d: what it sends of the commit is of the phase of d.
HostMaySend(d, m) ==
  /\ HostCanSend /\ viewer.online
  /\ m \in Events /\ m.type # "confirmation"
  /\ m.type = "proposal" => m.pair = d.pair /\ HostRank(d) \in {2, 3}
  /\ m.type = "completion" => m.pair = d.pair /\ HostRank(d) >= 4

HostSends(d) ==
  toViewer' = toViewer \/ \E m \in Events : HostMaySend(d, m) /\ toViewer' = Append(toViewer, m)

\* A step of the host that leaves the viewer and the numbering alone.
HostSide(d) ==
  /\ HostStores(d) /\ hostDisk' = d
  /\ host' \in Hosts
  /\ HostSends(d)
  /\ count' \in Counts /\ count'.host = count.host /\ count'.viewer = count.viewer
  /\ UNCHANGED <<viewerDisk, viewer, link, forgotten>>

\* The host's loop ends: the process is down or will retry with a record.
HostEnds(d) ==
  /\ HostSide(d)
  /\ host'.mode \in {"down", "retrying"} /\ ~host'.online /\ host'.agreement = NoPair
  /\ host'.mode = "down" => host' = HostDown
  /\ host'.mode = "retrying" => Works(host'.record, d)
  /\ toHost' = <<>>

\* The host's loop goes on with the record it has stored.
HostGoesOn(d) ==
  /\ HostSide(d)
  /\ host.mode \in {"bootstrap", "availability"}
  /\ host'.mode = host.mode /\ host'.online = host.online
  /\ host'.invitation = host.invitation /\ host'.participant = host.participant
  /\ host'.agreement = host.agreement
  /\ host'.record = d \/ (d = hostDisk /\ host'.record = host.record)
  /\ toHost' = toHost \/ (toHost # <<>> /\ toHost' = Tail(toHost))

\* No record of a pair falls back.
RecordsAdvanceStep ==
  /\ hostDisk'.pair = hostDisk.pair =>
       HostRank(hostDisk') >= HostRank(hostDisk) /\ hostDisk'.highest >= hostDisk.highest
  /\ viewerDisk'.pair = viewerDisk.pair =>
       ViewerRank(viewerDisk') >= ViewerRank(viewerDisk) /\ viewerDisk'.next >= viewerDisk.next

----------------------------------------------------------------------------
(* The host's steps                                                         *)

\* What the type invariant says of the parts the arguments use.
LEMMA Typed ==
  ASSUME TypeOK
  PROVE  /\ hostDisk \in HostRecords /\ host.record \in HostRecords /\ viewerDisk \in ViewerRecords
         /\ host.mode \in {"down", "bootstrap", "retrying", "availability"}
         /\ viewer.mode \in {"idle", "bootstrap", "availability"}
         /\ host.invitation \in Nat /\ host.participant \in Nat /\ viewer.participant \in Nat
         /\ host.agreement \in Pairs /\ viewer.agreement \in Pairs
         /\ host.exchange \in Nat /\ host.responding \in Nat
         /\ host.online \in BOOLEAN /\ viewer.online \in BOOLEAN
         /\ viewer.bound \in BOOLEAN /\ viewer.helloSent \in BOOLEAN /\ viewer.starting \in BOOLEAN
         /\ host.helloSent \in BOOLEAN
         /\ link \in Nat /\ count.host \in Nat /\ count.viewer \in Nat
         /\ count.exchange \in Nat /\ count.fault \in Nat
         /\ toHost \in Seq(Events) /\ toViewer \in Seq(Events) /\ forgotten \subseteq Pairs
  BY DEF TypeOK, Hosts, Viewers, Counts

\* The host's record in memory is of the pair it has stored, and in no later phase.
LEMMA MemoryBehind ==
  ASSUME TypeOK, Records
  PROVE  /\ host.mode # "down" => host.record.pair = hostDisk.pair
         /\ host.mode # "down" => HostRank(host.record) <= HostRank(hostDisk)
         /\ HostRank(hostDisk) >= 4 /\ host.mode # "down" => host.record = hostDisk
         /\ HostRank(host.record) >= 3 => host.record = hostDisk
         /\ host.mode = "down" => host.record = NoHostRecord
         /\ Shaped(host.record)
         /\ host.mode # "down" => (host.record.state = "none" <=> hostDisk.state = "none")
<1>1. hostDisk \in HostRecords /\ host.record \in HostRecords /\ Shaped(hostDisk)
      /\ host.mode \in {"down", "bootstrap", "retrying", "availability"}
  BY Typed DEF Records
<1>2. CASE host.mode = "down"
  <2>1. host.record = NoHostRecord
    BY <1>2 DEF Records, HostDown
  <2>2. Shaped(NoHostRecord) /\ HostRank(NoHostRecord) = 0
    BY DEF Shaped, NoHostRecord, HostRank
  <2> QED BY <1>2, <2>1, <2>2
<1>3. CASE host.record = hostDisk
  <2>1. HostRank(host.record) <= HostRank(hostDisk)
    BY <1>3, HostPhases
  <2>2. host.mode = "down" => host.record = NoHostRecord
    BY DEF Records, HostDown
  <2> QED BY <1>1, <1>3, <2>1, <2>2
<1>4. CASE host.mode # "down" /\ host.record # hostDisk
  <2>1. host.record.state = "pending" /\ host.record.recovery = "proposal"
        /\ hostDisk = AcceptAcknowledgement(host.record) /\ host.mode # "bootstrap"
    BY <1>1, <1>4 DEF Records, Works
  <2>2. hostDisk.pair = host.record.pair /\ hostDisk.state = "acceptedReceived" /\ hostDisk.recovery = "none"
    BY <1>1, <2>1, HostRecordFields DEF AcceptAcknowledgement
  <2>3. HostRank(host.record) = 2 /\ HostRank(hostDisk) = 3
    BY <2>1, <2>2 DEF HostRank
  <2>4. Shaped(host.record)
    BY <2>1, <2>2, <1>1 DEF Shaped
  <2> QED BY <1>4, <2>1, <2>2, <2>3, <2>4
<1> QED BY <1>1, <1>2, <1>3, <1>4

\* What one step of the host adds to the viewer's queue.
LEMMA HostSendsHeld ==
  ASSUME NEW d, HostSends(d), toViewer \in Seq(Events)
  PROVE  /\ toViewer' \in Seq(Events)
         /\ Sent(toViewer', "confirmation") = Sent(toViewer, "confirmation")
         /\ \A t \in {"proposal", "completion"} : \A m \in Sent(toViewer', t) :
              m \in Sent(toViewer, t) \/ (m.type = t /\ HostMaySend(d, m))
         /\ CommitOrdered(toViewer)
              /\ ((\E m \in Events : HostMaySend(d, m) /\ m.type = "proposal")
                    => Sent(toViewer, "completion") = {})
              => CommitOrdered(toViewer')
<1>1. CASE toViewer' = toViewer
  BY <1>1
<1>2. ASSUME NEW m \in Events, HostMaySend(d, m), toViewer' = Append(toViewer, m)
      PROVE  /\ toViewer' \in Seq(Events)
             /\ Held(toViewer') = Held(toViewer) \cup {m}
             /\ CommitOrdered(toViewer) /\ (m.type = "proposal" => Sent(toViewer, "completion") = {})
                  => CommitOrdered(toViewer')
  BY <1>2, AppendHeld
<1>3. CASE \E m \in Events : HostMaySend(d, m) /\ toViewer' = Append(toViewer, m)
  <2>1. PICK m \in Events : HostMaySend(d, m) /\ toViewer' = Append(toViewer, m)
    BY <1>3
  <2>2. m.type # "confirmation"
    BY <2>1 DEF HostMaySend
  <2> QED BY <1>2, <2>1, <2>2 DEF Sent
<1> QED BY <1>1, <1>3 DEF HostSends

\* Common to both: what the viewer's side of the invariant keeps.
LEMMA HostSideKeeps ==
  ASSUME IInv, NEW d, HostSide(d)
  PROVE  /\ Shaped(d) /\ hostDisk'.pair[1] <= count.host /\ hostDisk'.pair[2] <= count.viewer
         /\ HostRecordHasPeer' /\ CommitOrder'
         /\ Kept(hostDisk.pair)' => viewerDisk'.next > hostDisk'.highest
         /\ RecordsAdvanceStep
         /\ d.pair = hostDisk.pair \/ (hostDisk = NoHostRecord /\ d.pair = host.agreement
                                         /\ host.mode = "bootstrap" /\ d.pair # NoPair)
         /\ HostRank(d) >= HostRank(hostDisk) /\ d.pair[1] \in Nat /\ d.pair[2] \in Nat
<1>1. /\ HostStores(d) /\ hostDisk' = d /\ UNCHANGED <<viewerDisk, viewer, link, forgotten>>
      /\ hostDisk \in HostRecords /\ viewerDisk \in ViewerRecords
      /\ host.agreement \in Pairs /\ count.host \in Nat /\ count.viewer \in Nat
      /\ host.participant \in Nat
  BY Typed DEF HostSide, IInv
<1>2. HostRank(NoHostRecord) = 0 /\ NoHostRecord.pair = NoPair
  BY DEF HostRank, NoHostRecord
<1>3. d.pair = hostDisk.pair \/ (hostDisk = NoHostRecord /\ d.pair = host.agreement
                                   /\ host.mode = "bootstrap" /\ d.pair # NoPair)
  BY <1>1 DEF HostStores, Advances
<1>4. HostRank(d) >= HostRank(hostDisk) /\ d.pair[1] \in Nat /\ d.pair[2] \in Nat
  BY <1>1, <1>2, HostPhases, HostRecordFields, PairFields DEF HostStores, Advances
<1>5. hostDisk'.pair[1] <= count.host /\ hostDisk'.pair[2] <= count.viewer
  BY <1>1, <1>3 DEF IInv, Numbering
<1>6. HostRecordHasPeer' /\ (Kept(hostDisk.pair)' => viewerDisk'.next > hostDisk'.highest)
  BY <1>1 DEF HostStores, HostRecordHasPeer, Kept
<1>7. CommitOrder'
  BY <1>1 DEF HostStores, CommitOrder, Kept, Ordered
<1>8. hostDisk'.pair = hostDisk.pair => hostDisk'.highest >= hostDisk.highest
  BY <1>1, <1>2 DEF HostStores, Advances
<1>9. ViewerRank(viewerDisk) >= ViewerRank(viewerDisk) /\ viewerDisk.next >= viewerDisk.next
  BY <1>1, ViewerPhases, ViewerRecordFields
<1>10. RecordsAdvanceStep
  BY <1>1, <1>4, <1>8, <1>9 DEF RecordsAdvanceStep
<1> QED BY <1>1, <1>3, <1>4, <1>5, <1>6, <1>7, <1>10 DEF HostStores

\* What the viewer's client holds after a step of the host is of phases the host
\* has reached, in the order of the commit.
LEMMA HostSideQueue ==
  ASSUME IInv, NEW d, HostSide(d)
  PROVE  /\ toViewer' \in Seq(Events)
         /\ Sent(toViewer', "confirmation") = Sent(toViewer, "confirmation")
         /\ \A t \in {"proposal", "completion"} : \A m \in Sent(toViewer', t) :
              m \in Sent(toViewer, t) \/ (m.type = t /\ HostMaySend(d, m) /\ m.pair = d.pair)
         /\ \A m \in Sent(toViewer', "proposal") \cup Sent(toViewer', "completion") :
              /\ m.pair[1] \in 1..count.host
              /\ viewer.mode = "availability" => m.pair = viewerDisk.pair
         /\ \A m \in Sent(toViewer', "proposal") : d.pair = m.pair => HostRank(d) >= 2
         /\ \A m \in Sent(toViewer', "completion") : d.pair = m.pair => HostRank(d) >= 4
         /\ viewer.mode = "availability" =>
              /\ CommitOrdered(toViewer')
              /\ Sent(toViewer', "proposal") # {} => viewerDisk.state \in {"pending", "acceptedIssued"}
              /\ Sent(toViewer', "completion") # {} => viewerDisk.state \in {"acceptedIssued", "active"}
<1> USE DEF IInv
<1>1. /\ HostSide(d) /\ hostDisk' = d /\ HostStores(d) /\ HostSends(d)
      /\ viewerDisk' = viewerDisk /\ viewer' = viewer /\ link' = link /\ forgotten' = forgotten
      /\ count'.host = count.host /\ count'.viewer = count.viewer /\ d \in HostRecords
  BY DEF HostSide, HostStores
<1>2. /\ Shaped(d) /\ hostDisk'.pair[1] <= count.host /\ hostDisk'.pair[2] <= count.viewer
      /\ d.pair = hostDisk.pair \/ (hostDisk = NoHostRecord /\ d.pair = host.agreement
                                      /\ host.mode = "bootstrap" /\ d.pair # NoPair)
      /\ HostRank(d) >= HostRank(hostDisk)
  BY <1>1, HostSideKeeps
<1>3. /\ toHost \in Seq(Events) /\ toViewer \in Seq(Events) /\ hostDisk \in HostRecords
      /\ host.agreement \in Pairs /\ host.record \in HostRecords
      /\ viewer.mode \in {"idle", "bootstrap", "availability"}
      /\ viewerDisk \in ViewerRecords /\ count.host \in Nat /\ count.viewer \in Nat
  BY Typed
<1>4. /\ toViewer' \in Seq(Events)
      /\ Sent(toViewer', "confirmation") = Sent(toViewer, "confirmation")
      /\ \A t \in {"proposal", "completion"} : \A m \in Sent(toViewer', t) :
           m \in Sent(toViewer, t) \/ (m.type = t /\ HostMaySend(d, m))
      /\ CommitOrdered(toViewer)
           /\ ((\E m \in Events : HostMaySend(d, m) /\ m.type = "proposal")
                 => Sent(toViewer, "completion") = {})
           => CommitOrdered(toViewer')
  BY <1>1, <1>3, HostSendsHeld
<1>5. HostRank(d) \in 0..5 /\ HostRank(hostDisk) \in 0..5
  BY HostPhases
<1>6. \A m \in Sent(toViewer', "proposal") \cup Sent(toViewer', "completion") :
        HostMaySend(d, m) => /\ m.pair = d.pair /\ m.pair[1] \in 1..count.host
                             /\ HostCanSend /\ viewer.online /\ HostRank(d) >= 2
  <2>1. ASSUME HostRank(d) >= 2 PROVE d.pair[1] \in 1..count.host
    <3>1. d.state # "none"
      BY <1>1, <2>1, HostPhases, HostRecordFields
    <3> QED BY <1>1, <1>2, <1>3, <3>1, HostRecordFields, PairFields DEF Shaped
  <2>2. ASSUME NEW m \in Sent(toViewer', "proposal") \cup Sent(toViewer', "completion"),
               HostMaySend(d, m)
        PROVE  m.pair = d.pair /\ HostRank(d) >= 2
    <3>1. HostRank(d) \in 0..5
      BY HostPhases
    <3> QED BY <2>2, <3>1 DEF HostMaySend, Sent
  <2> QED BY <2>1, <2>2 DEF HostMaySend
<1>7. viewer.mode = "availability" /\ HostCanSend /\ viewer.online =>
        d.pair = viewerDisk.pair /\ host.mode = "availability" /\ d.pair # NoPair
          /\ d.pair = hostDisk.pair /\ Kept(d.pair)
  <2> SUFFICES ASSUME viewer.mode = "availability", HostCanSend, viewer.online
               PROVE  d.pair = viewerDisk.pair /\ host.mode = "availability" /\ d.pair # NoPair
                        /\ d.pair = hostDisk.pair /\ Kept(d.pair)
    OBVIOUS
  <2>1. host.mode = "availability" /\ host.record.pair = viewerDisk.pair /\ viewerDisk.state # "none"
    BY DEF HostCanSend, Modes
  <2>2. d.pair = hostDisk.pair /\ host.record.pair = hostDisk.pair
    BY <1>2, <2>1, MemoryBehind
  <2>3. viewerDisk.pair \notin forgotten /\ viewerDisk.pair # NoPair
    BY <2>1, PairFields DEF Numbering, Records
  <2> QED BY <2>1, <2>2, <2>3 DEF Kept
<1>8. \A m \in Sent(toViewer', "proposal") \cup Sent(toViewer', "completion") :
        /\ m.pair[1] \in 1..count.host
        /\ viewer.mode = "availability" => m.pair = viewerDisk.pair
  BY <1>4, <1>6, <1>7 DEF ToViewer
<1>9. \A m \in Sent(toViewer', "proposal") : d.pair = m.pair => HostRank(d) >= 2
  <2>1. \A m \in Sent(toViewer, "proposal") : d.pair = m.pair => HostRank(d) >= 2
    <3> SUFFICES ASSUME NEW m \in Sent(toViewer, "proposal"), d.pair = m.pair
                 PROVE  HostRank(d) >= 2
      OBVIOUS
    <3>1. CASE d.pair = hostDisk.pair
      <4>1. HostRank(hostDisk) >= 2
        BY <3>1 DEF ToViewer
      <4> QED BY <1>2, <1>5, <4>1
    <3>2. CASE d.pair # hostDisk.pair
      <4>1. host.mode = "bootstrap" /\ host.record.state = "none" /\ d.pair = host.agreement /\ d.pair # NoPair
        BY <1>1, <1>2, <3>2 DEF HostStores, Advances
      <4>2. d.pair[1] = host.participant /\ m.pair[1] < host.participant
        BY <4>1 DEF Numbering, ToViewer
      <4> QED BY <1>3, <4>2, Typed
    <3> QED BY <3>1, <3>2
  <2> QED BY <1>4, <1>6, <2>1
<1>10. \A m \in Sent(toViewer', "completion") : d.pair = m.pair => HostRank(d) >= 4
  <2>1. \A m \in Sent(toViewer, "completion") : d.pair = m.pair => HostRank(d) >= 4
    <3> SUFFICES ASSUME NEW m \in Sent(toViewer, "completion"), d.pair = m.pair
                 PROVE  HostRank(d) >= 4
      OBVIOUS
    <3>1. CASE d.pair = hostDisk.pair
      <4>1. HostRank(hostDisk) >= 4
        BY <3>1 DEF ToViewer
      <4> QED BY <1>2, <1>5, <4>1
    <3>2. CASE d.pair # hostDisk.pair
      <4>1. host.mode = "bootstrap" /\ host.record.state = "none" /\ d.pair = host.agreement /\ d.pair # NoPair
        BY <1>1, <1>2, <3>2 DEF HostStores, Advances
      <4>2. d.pair[1] = host.participant /\ m.pair[1] < host.participant
        BY <4>1 DEF Numbering, ToViewer
      <4> QED BY <1>3, <4>2, Typed
    <3> QED BY <3>1, <3>2
  <2> QED BY <1>4, <2>1 DEF HostMaySend
<1>11. viewer.mode = "availability" =>
        /\ CommitOrdered(toViewer')
        /\ Sent(toViewer', "proposal") # {} => viewerDisk.state \in {"pending", "acceptedIssued"}
        /\ Sent(toViewer', "completion") # {} => viewerDisk.state \in {"acceptedIssued", "active"}
  <2> SUFFICES ASSUME viewer.mode = "availability"
               PROVE  /\ CommitOrdered(toViewer')
                      /\ Sent(toViewer', "proposal") # {} => viewerDisk.state \in {"pending", "acceptedIssued"}
                      /\ Sent(toViewer', "completion") # {} => viewerDisk.state \in {"acceptedIssued", "active"}
    OBVIOUS
  <2>1. viewerDisk.state \in {"pending", "acceptedIssued", "active"}
    BY <1>3, ViewerRecordFields DEF Modes
  <2>2. ASSUME NEW m \in Events, HostMaySend(d, m), m.type = "proposal"
        PROVE  Sent(toViewer, "completion") = {} /\ viewerDisk.state # "active"
    <3>1. HostRank(d) < 4 /\ Kept(d.pair) /\ d.pair = viewerDisk.pair /\ d.pair = hostDisk.pair
      BY <1>7, <2>2 DEF HostMaySend
    <3>2. d.state # "active" /\ d.recovery # "completion"
      BY <1>1, <1>2, <3>1, HostPhases, HostRecordFields DEF Shaped, NoHostRecord
    <3>3. HostRank(hostDisk) < 4
      BY <1>2, <3>1, HostPhases
    <3>4. \A n \in Sent(toViewer, "completion") : n.pair = hostDisk.pair
      BY <3>1 DEF ToViewer
    <3>5. Sent(toViewer, "completion") = {}
      BY <3>3, <3>4, HostPhases DEF ToViewer
    <3> QED BY <1>1, <3>1, <3>2, <3>5 DEF HostStores, Ordered
  <2>3. ASSUME NEW m \in Events, HostMaySend(d, m), m.type = "completion"
        PROVE  viewerDisk.state \in {"acceptedIssued", "active"}
    <3>1. HostRank(d) >= 4 /\ Kept(d.pair)
      BY <1>7, <2>3 DEF HostMaySend
    <3>2. d.state \in {"acceptedReceived", "active"}
      BY <1>1, <3>1, HostPhases, HostRecordFields
    <3> QED BY <1>1, <3>1, <3>2 DEF HostStores, Ordered
  <2>4. CommitOrdered(toViewer')
    BY <1>4, <2>2 DEF ToViewer
  <2>5. Sent(toViewer', "proposal") # {} => viewerDisk.state # "active"
    BY <1>4, <2>2 DEF ToViewer, HostMaySend
  <2>6. Sent(toViewer', "completion") # {} => viewerDisk.state \in {"acceptedIssued", "active"}
    BY <1>4, <2>3 DEF ToViewer, HostMaySend
  <2> QED BY <2>1, <2>4, <2>5, <2>6
<1> QED BY <1>4, <1>6, <1>8, <1>9, <1>10, <1>11

\* A host that ends its loop keeps the invariant.
LEMMA HostEndsKeeps ==
  ASSUME IInv, NEW d, HostEnds(d)
  PROVE  IInv' /\ RecordsAdvanceStep
<1> USE DEF IInv
<1>1. /\ HostSide(d) /\ hostDisk' = d /\ HostStores(d) /\ HostSends(d)
      /\ host' \in Hosts
      /\ viewerDisk' = viewerDisk /\ viewer' = viewer /\ link' = link /\ forgotten' = forgotten
      /\ count' \in Counts /\ count'.host = count.host /\ count'.viewer = count.viewer
      /\ host'.mode \in {"down", "retrying"} /\ ~host'.online /\ host'.agreement = NoPair
      /\ host'.mode = "down" => host' = HostDown
      /\ host'.mode = "retrying" => Works(host'.record, d)
      /\ toHost' = <<>> /\ d \in HostRecords
  BY DEF HostEnds, HostSide, HostStores
<1>2. /\ Shaped(d) /\ hostDisk'.pair[1] <= count.host /\ hostDisk'.pair[2] <= count.viewer
      /\ HostRecordHasPeer' /\ CommitOrder'
      /\ Kept(hostDisk.pair)' => viewerDisk'.next > hostDisk'.highest
      /\ RecordsAdvanceStep
      /\ d.pair = hostDisk.pair \/ (hostDisk = NoHostRecord /\ d.pair = host.agreement
                                      /\ host.mode = "bootstrap" /\ d.pair # NoPair)
      /\ HostRank(d) >= HostRank(hostDisk)
  BY <1>1, HostSideKeeps
<1>3. /\ toHost \in Seq(Events) /\ toViewer \in Seq(Events) /\ hostDisk \in HostRecords
      /\ host.agreement \in Pairs /\ host.record \in HostRecords
      /\ viewer.mode \in {"idle", "bootstrap", "availability"}
      /\ viewerDisk \in ViewerRecords /\ count.host \in Nat /\ count.viewer \in Nat
  BY Typed
<1>4. /\ toViewer' \in Seq(Events)
      /\ Sent(toViewer', "confirmation") = Sent(toViewer, "confirmation")
      /\ \A m \in Sent(toViewer', "proposal") \cup Sent(toViewer', "completion") :
           /\ m.pair[1] \in 1..count.host
           /\ viewer.mode = "availability" => m.pair = viewerDisk.pair
      /\ \A m \in Sent(toViewer', "proposal") : d.pair = m.pair => HostRank(d) >= 2
      /\ \A m \in Sent(toViewer', "completion") : d.pair = m.pair => HostRank(d) >= 4
      /\ viewer.mode = "availability" =>
           /\ CommitOrdered(toViewer')
           /\ Sent(toViewer', "proposal") # {} => viewerDisk.state \in {"pending", "acceptedIssued"}
           /\ Sent(toViewer', "completion") # {} => viewerDisk.state \in {"acceptedIssued", "active"}
  BY <1>1, HostSideQueue
<1>5. \A t : Sent(toHost', t) = {}
  BY <1>1, EmptyHeld DEF Sent
<1>6. TypeOK'
  BY <1>1, <1>4, EmptyHeld DEF TypeOK
<1>7. Numbering'
  BY <1>1, <1>2 DEF Numbering
<1>8. Records'
  BY <1>1, <1>2 DEF Records
<1>9. Modes'
  BY <1>1 DEF Modes, HostSends, HostMaySend
<1>10. Hellos'
  BY <1>1, <1>5, EmptyHeld DEF Hellos
<1>11. Confirmations'
  <2>1. \A m \in Sent(toViewer, "confirmation") :
          viewer.mode = "bootstrap" /\ m.pair[2] = viewer.participant =>
            viewer.helloSent /\ d.pair \in {NoPair, m.pair}
    BY <1>2 DEF Confirmations
  <2>2. viewer.mode = "bootstrap" /\ viewer.participant = d.pair[2] => viewer.bound
    BY <1>1 DEF Confirmations, HostStores, Advances
  <2> QED BY <1>1, <1>4, <1>5, <2>1, <2>2 DEF Confirmations
<1>12. ToHost'
  BY <1>5 DEF ToHost
<1>13. ToViewer' /\ SequencesFresh'
  <2>1. ToViewer'
    BY <1>1, <1>4 DEF ToViewer
  <2> QED BY <1>1, <1>2, <2>1 DEF SequencesFresh
<1> QED BY <1>2, <1>6, <1>7, <1>8, <1>9, <1>10, <1>11, <1>12, <1>13

\* A host whose loop goes on keeps the invariant.
LEMMA HostGoesOnKeeps ==
  ASSUME IInv, NEW d, HostGoesOn(d)
  PROVE  IInv' /\ RecordsAdvanceStep
<1> USE DEF IInv
<1>1. /\ HostSide(d) /\ hostDisk' = d /\ HostStores(d) /\ HostSends(d)
      /\ host' \in Hosts /\ host'.record \in HostRecords
      /\ viewerDisk' = viewerDisk /\ viewer' = viewer /\ link' = link /\ forgotten' = forgotten
      /\ count' \in Counts /\ count'.host = count.host /\ count'.viewer = count.viewer
      /\ host.mode \in {"bootstrap", "availability"}
      /\ host'.mode = host.mode /\ host'.online = host.online
      /\ host'.invitation = host.invitation /\ host'.participant = host.participant
      /\ host'.agreement = host.agreement
      /\ host'.record = d \/ (d = hostDisk /\ host'.record = host.record)
      /\ (toHost' = toHost \/ (toHost # <<>> /\ toHost' = Tail(toHost))) /\ d \in HostRecords
  BY DEF HostGoesOn, HostSide, HostStores, Hosts
<1>2. /\ Shaped(d) /\ hostDisk'.pair[1] <= count.host /\ hostDisk'.pair[2] <= count.viewer
      /\ HostRecordHasPeer' /\ CommitOrder'
      /\ Kept(hostDisk.pair)' => viewerDisk'.next > hostDisk'.highest
      /\ RecordsAdvanceStep
      /\ d.pair = hostDisk.pair \/ (hostDisk = NoHostRecord /\ d.pair = host.agreement
                                      /\ host.mode = "bootstrap" /\ d.pair # NoPair)
      /\ HostRank(d) >= HostRank(hostDisk)
  BY <1>1, HostSideKeeps
<1>3. /\ toHost \in Seq(Events) /\ toViewer \in Seq(Events) /\ hostDisk \in HostRecords
      /\ host.agreement \in Pairs /\ host.record \in HostRecords
      /\ viewer.mode \in {"idle", "bootstrap", "availability"}
      /\ viewerDisk \in ViewerRecords /\ count.host \in Nat /\ count.viewer \in Nat
      /\ host.participant \in Nat /\ viewerDisk.next \in Nat
  BY Typed, ViewerRecordFields
<1>4. /\ toViewer' \in Seq(Events)
      /\ Sent(toViewer', "confirmation") = Sent(toViewer, "confirmation")
      /\ \A t \in {"proposal", "completion"} : \A m \in Sent(toViewer', t) :
           m \in Sent(toViewer, t) \/ (m.type = t /\ HostMaySend(d, m) /\ m.pair = d.pair)
      /\ \A m \in Sent(toViewer', "proposal") \cup Sent(toViewer', "completion") :
           /\ m.pair[1] \in 1..count.host
           /\ viewer.mode = "availability" => m.pair = viewerDisk.pair
      /\ \A m \in Sent(toViewer', "proposal") : d.pair = m.pair => HostRank(d) >= 2
      /\ \A m \in Sent(toViewer', "completion") : d.pair = m.pair => HostRank(d) >= 4
      /\ viewer.mode = "availability" =>
           /\ CommitOrdered(toViewer')
           /\ Sent(toViewer', "proposal") # {} => viewerDisk.state \in {"pending", "acceptedIssued"}
           /\ Sent(toViewer', "completion") # {} => viewerDisk.state \in {"acceptedIssued", "active"}
  BY <1>1, HostSideQueue
<1>5. /\ toHost' \in Seq(Events) /\ HelloOrder(toHost')
      /\ \A t : Sent(toHost', t) \subseteq Sent(toHost, t)
  BY <1>1, <1>3, TailHeld DEF Sent, Hellos
<1>6. /\ HostRank(d) \in 0..5 /\ HostRank(hostDisk) \in 0..5 /\ HostRank(host.record) \in 0..5
      /\ HostRank(host'.record) \in 0..5
  BY HostPhases
<1>7. /\ host.record.pair = hostDisk.pair /\ HostRank(host.record) <= HostRank(hostDisk)
      /\ host.record.state = "none" <=> hostDisk.state = "none"
      /\ Shaped(host.record)
  BY <1>1, MemoryBehind
<1>8. d.pair # hostDisk.pair =>
        /\ hostDisk = NoHostRecord /\ host.mode = "bootstrap" /\ host.record.state = "none"
        /\ host.agreement = d.pair /\ d.pair # NoPair /\ d.state = "pending"
        /\ viewer.mode = "bootstrap" /\ d.pair[2] = viewer.participant => viewer.bound
  BY <1>1 DEF HostStores, Advances
<1>9. HostRank(host'.record) >= HostRank(host.record) /\ host'.record.pair = d.pair
  BY <1>1, <1>2, <1>6, <1>7
<1>10. host'.record.state = "none" => host.record.state = "none" /\ d = hostDisk
  <2>1. HostRank(host.record) = 0 => host.record.state = "none"
    BY <1>3, HostPhases, HostRecordFields
  <2>2. host'.record.state = "none" => HostRank(host'.record) = 0
    BY <1>1, <1>6, HostPhases, HostRecordFields
  <2>3. d.state = "none" /\ host.record.state = "none" => d = hostDisk
    BY <1>2, <1>7 DEF Shaped, Records
  <2> QED BY <1>1, <1>6, <1>9, <2>1, <2>2, <2>3
<1>11. TypeOK'
  BY <1>1, <1>4, <1>5 DEF TypeOK
<1>12. Numbering'
  BY <1>1, <1>2 DEF Numbering
<1>13. Records'
  <2>1. host.mode = "bootstrap" => host'.record = d /\ (d.state # "none" => host.agreement = d.pair)
    <3>1. CASE d.pair = hostDisk.pair
      <4>1. d.state # "none" /\ hostDisk.state = "none" => d.pair # hostDisk.pair
        BY <1>2, <1>3, PairFields DEF Records, Shaped, NoHostRecord
      <4> QED BY <1>1, <3>1, <4>1 DEF Records
    <3>2. CASE d.pair # hostDisk.pair
      BY <1>1, <1>8, <3>2
    <3> QED BY <3>1, <3>2
  <2>2. host.mode = "availability" => Works(host'.record, d)
    <3> SUFFICES ASSUME host.mode = "availability" PROVE Works(host'.record, d)
      OBVIOUS
    <3>1. Works(host.record, hostDisk)
      BY DEF Records
    <3>2. host'.record.state # "none"
      BY <1>10, <3>1 DEF Works
    <3> QED BY <1>1, <3>1, <3>2 DEF Works
  <2> QED BY <1>1, <1>2, <2>1, <2>2 DEF Records
<1>14. Modes'
  <2>1. viewer.mode = "idle" => toViewer' = <<>>
    BY <1>1 DEF Modes, HostSends, HostMaySend
  <2>2. host.mode = "availability" => host'.record.pair = host.record.pair
    BY <1>7, <1>8, <1>9
  <2> QED BY <1>1, <2>1, <2>2 DEF Modes
<1>15. Hellos'
  BY <1>1, <1>5 DEF Hellos
<1>16. Confirmations'
  <2>1. \A m \in Sent(toViewer, "confirmation") :
          viewer.mode = "bootstrap" /\ m.pair[2] = viewer.participant =>
            viewer.helloSent /\ d.pair \in {NoPair, m.pair}
    BY <1>2 DEF Confirmations
  <2>2. viewer.mode = "bootstrap" /\ viewer.participant = d.pair[2] => viewer.bound
    BY <1>8 DEF Confirmations
  <2> QED BY <1>1, <1>4, <1>5, <1>10, <2>1, <2>2 DEF Confirmations
<1>17. ToHost'
  <2>1. \A m \in Sent(toHost', "acknowledgement") \cup Sent(toHost', "activation") :
          m.pair = host'.record.pair /\ HostRank(host'.record) >= 2
    <3> SUFFICES ASSUME NEW m \in Sent(toHost', "acknowledgement") \cup Sent(toHost', "activation")
                 PROVE  m.pair = host'.record.pair /\ HostRank(host'.record) >= 2
      OBVIOUS
    <3>1. m.pair = host.record.pair /\ HostRank(host.record) >= 2
      BY <1>5 DEF ToHost
    <3>2. host.record.state # "none"
      BY <1>3, <3>1, HostPhases, HostRecordFields
    <3> QED BY <1>6, <1>7, <1>8, <1>9, <3>1, <3>2
  <2>2. Sent(toHost', "activation") # {} => HostRank(host'.record) >= 3
    BY <1>5, <1>6, <1>9 DEF ToHost
  <2>3. Sent(toHost', "acknowledgement") \cup Sent(toHost', "activation") # {} => d.pair = hostDisk.pair
    <3>1. ASSUME NEW m \in Sent(toHost', "acknowledgement") \cup Sent(toHost', "activation")
          PROVE  host.record.state # "none"
      <4>1. HostRank(host.record) >= 2
        BY <1>5, <3>1 DEF ToHost
      <4> QED BY <1>3, <4>1, HostPhases, HostRecordFields
    <3> QED BY <1>8, <3>1
  <2> QED BY <1>1, <1>5, <2>1, <2>2, <2>3 DEF ToHost, Kept
<1>18. ToViewer'
  <2>1. ASSUME NEW m \in Sent(toViewer', "proposal") \cup Sent(toViewer', "completion")
        PROVE  /\ host'.mode = "bootstrap" /\ host'.record.state = "none" => m.pair[1] < host'.participant
               /\ viewer.mode = "bootstrap" /\ viewer.online /\ link # 0 /\ host.online =>
                    host'.record.pair = m.pair
    <3>1. CASE m.pair = d.pair
      <4>1. host'.record.state = "none" => host'.record.pair = NoPair
        BY <1>7, <1>10, <1>1 DEF Shaped, NoHostRecord, Records
      <4>2. m.pair # NoPair
        BY <1>4, PairFields
      <4> QED BY <1>9, <3>1, <4>1, <4>2
    <3>2. CASE m \in Sent(toViewer, "proposal") \cup Sent(toViewer, "completion")
      <4>1. host'.mode = "bootstrap" /\ host'.record.state = "none" => m.pair[1] < host'.participant
        BY <1>1, <1>10, <3>2 DEF ToViewer
      <4>2. viewer.mode = "bootstrap" /\ viewer.online /\ link # 0 /\ host.online =>
              host.record.pair = m.pair
        BY <3>2 DEF ToViewer
      <4>3. host.record.pair = m.pair => host.record.state # "none"
        BY <1>4, <1>7, PairFields DEF Shaped, NoHostRecord
      <4> QED BY <1>7, <1>8, <1>9, <4>1, <4>2, <4>3
    <3> QED BY <1>4, <3>1, <3>2
  <2> QED BY <1>1, <1>4, <2>1 DEF ToViewer
<1>19. SequencesFresh'
  <2>1. Kept(d.pair) => \A m \in Sent(toHost', "request") : viewerDisk.next > m.number
    <3>1. CASE d.pair = hostDisk.pair
      <4>1. Kept(hostDisk.pair) => \A m \in Sent(toHost, "request") : viewerDisk.next > m.number
        BY <1>3, ByPosition DEF SequencesFresh
      <4> QED BY <1>5, <3>1, <4>1
    <3>2. CASE d.pair # hostDisk.pair
      BY <1>5, <1>8, <3>2 DEF ToHost
    <3> QED BY <3>1, <3>2
  <2> QED BY <1>1, <1>2, <1>5, <2>1, ByPosition DEF SequencesFresh, Kept
<1> QED BY <1>2, <1>11, <1>12, <1>13, <1>14, <1>15, <1>16, <1>17, <1>18, <1>19

\* The host may keep what it has stored.
LEMMA StoresSame == ASSUME IInv PROVE HostStores(hostDisk) /\ HostRank(hostDisk) \in 0..5
<1>1. hostDisk \in HostRecords /\ Shaped(hostDisk) /\ HostRank(hostDisk) \in 0..5 /\ hostDisk.highest \in Nat
  BY Typed, HostPhases, HostRecordFields DEF IInv, Records
<1>2. Kept(hostDisk.pair) => Ordered(hostDisk, viewerDisk) /\ viewerDisk.pair = hostDisk.pair
                               /\ viewerDisk.next > hostDisk.highest
  BY DEF IInv, CommitOrder, Ordered, HostRecordHasPeer, SequencesFresh
<1> QED BY <1>1, <1>2 DEF HostStores, Advances

\* Where the host's loop ends after an error, with d stored.
LEMMA AfterError ==
  ASSUME NEW r \in HostRecords, NEW d \in HostRecords,
         host.mode = "availability" => Works(r, d)
  PROVE  LET e == HostAfterError(r, d)
         IN  /\ e \in Hosts /\ e.mode \in {"down", "retrying"} /\ ~e.online /\ e.agreement = NoPair
             /\ e.mode = "down" => e = HostDown
             /\ e.mode = "retrying" => Works(e.record, d)
<1> DEFINE R(x) == [HostDown EXCEPT !.mode = "retrying", !.record = x]
<1>1. HostDown \in Hosts /\ HostDown.mode = "down" /\ ~HostDown.online /\ HostDown.agreement = NoPair
  BY PairFields DEF HostDown, Hosts, NoHostRecord, HostRecords, Pairs
<1>2. ASSUME NEW x \in HostRecords
      PROVE  R(x) \in Hosts /\ R(x).mode = "retrying" /\ ~R(x).online /\ R(x).agreement = NoPair
             /\ R(x).record = x
  BY <1>1, <1>2 DEF HostDown, Hosts
<1>3. CASE host.mode = "availability"
  <2>1. HostAfterError(r, d) = R(r)
    BY <1>3 DEF HostAfterError
  <2> HIDE DEF R
  <2> QED BY <1>2, <1>3, <2>1
<1>4. CASE host.mode # "availability" /\ d.state = "none"
  BY <1>1, <1>4 DEF HostAfterError
<1>5. CASE host.mode # "availability" /\ d.state # "none"
  <2>1. HostAfterError(r, d) = R(d)
    BY <1>5 DEF HostAfterError
  <2>2. Works(d, d)
    BY <1>5 DEF Works
  <2> HIDE DEF R
  <2> QED BY <1>2, <2>1, <2>2
<1> QED BY <1>3, <1>4, <1>5

\* Counting a fault leaves the numbering alone.
LEMMA Faults ==
  ASSUME TypeOK, UNCHANGED count \/ count' = OneFault
  PROVE  count' \in Counts /\ count'.host = count.host /\ count'.viewer = count.viewer
<1>1. count \in Counts
  BY DEF TypeOK
<1>2. OneFault \in Counts /\ OneFault.host = count.host /\ OneFault.viewer = count.viewer
  BY <1>1 DEF OneFault, Counts
<1> QED BY <1>1, <1>2

\* A handler of the host, whichever of its saves and sends is the last to succeed.
LEMMA HostDoesSteps ==
  ASSUME IInv, NEW saves \in Seq(HostRecords), NEW h \in Hosts, NEW out,
         HostDoes(saves, h, out), toHost # <<>>,
         host.mode \in {"bootstrap", "availability"},
         \A k \in 0..Len(saves) : HostStores(Saved(hostDisk, saves, k)),
         host.mode = "availability" =>
           \A k \in 0..Len(saves) : k < Len(saves) => Works(host.record, Saved(hostDisk, saves, k)),
         h.mode = host.mode, h.online = host.online, h.invitation = host.invitation,
         h.participant = host.participant, h.agreement = host.agreement,
         \/ h.record = Saved(hostDisk, saves, Len(saves))
         \/ Saved(hostDisk, saves, Len(saves)) = hostDisk /\ h.record = host.record,
         out # <<>> => \E m \in Events :
           /\ out = <<m>>
           /\ HostCanSend /\ viewer.online => HostMaySend(Saved(hostDisk, saves, Len(saves)), m)
  PROVE  \E d : HostEnds(d) \/ HostGoesOn(d)
<1> DEFINE D(k) == Saved(hostDisk, saves, k)
           last == Len(saves)
<1>1. last \in Nat /\ last \in 0..last /\ UNCHANGED <<viewerDisk, viewer, link, forgotten>>
      /\ toViewer \in Seq(Events)
  BY Typed DEF HostDoes, IInv
<1>2. \A k \in 0..last : HostStores(D(k)) /\ D(k) \in HostRecords
  BY DEF HostStores
<1>3. h.record \in HostRecords /\ host.record \in HostRecords
  BY Typed DEF Hosts, IInv
<1>4. host.mode = "availability" => Works(h.record, D(last))
  <2> SUFFICES ASSUME host.mode = "availability" PROVE Works(h.record, D(last))
    OBVIOUS
  <2>1. Works(host.record, hostDisk)
    BY DEF IInv, Records
  <2>2. D(last) = hostDisk /\ h.record = host.record => Works(h.record, D(last))
    BY <2>1
  <2>3. D(last).state # "none"
    <3>1. host.record.state # "none" /\ hostDisk.state # "none"
      BY <2>1, MemoryBehind DEF Works, IInv
    <3>2. hostDisk.state \in {"pending", "acceptedReceived", "active"}
      BY <3>1, Typed, HostRecordFields DEF IInv
    <3>3. hostDisk # NoHostRecord
      BY <3>1 DEF NoHostRecord
    <3>4. HostRank(D(last)) >= HostRank(hostDisk) /\ HostRank(hostDisk) >= 1
      BY <1>1, <1>2, <3>2, <3>3, HostPhases DEF HostStores, Advances
    <3>5. HostRank(D(last)) >= 1
      BY <3>4, HostPhases
    <3> QED BY <1>1, <1>2, <3>5, HostPhases, HostRecordFields
  <2>4. h.record = D(last) => Works(h.record, D(last))
    BY <2>3 DEF Works
  <2> QED BY <2>2, <2>4
<1>5. \A k \in 0..last : k < last /\ host.mode = "availability" => Works(host.record, D(k))
  OBVIOUS
<1>6. /\ toViewer' = ForViewer(out) /\ (out # <<>> => HostCanSend) => HostSends(D(last))
      /\ toViewer' = toViewer => \A k \in 0..last : HostSends(D(k))
  <2>1. ASSUME toViewer' = ForViewer(out), out # <<>> => HostCanSend
        PROVE  HostSends(D(last))
    <3>1. CASE ~viewer.online
      BY <2>1, <3>1 DEF ForViewer, HostSends
    <3>2. CASE out = <<>>
      BY <1>1, <2>1, <3>2 DEF ForViewer, HostSends
    <3>3. CASE viewer.online /\ out # <<>>
      <4>1. PICK m \in Events : out = <<m>> /\ HostMaySend(D(last), m)
        BY <2>1, <3>3
      <4>2. toViewer' = Append(toViewer, m)
        BY <1>1, <2>1, <3>3, <4>1, AppendHeld DEF ForViewer
      <4> QED BY <4>1, <4>2 DEF HostSends
    <3> QED BY <3>1, <3>2, <3>3
  <2>2. toViewer' = toViewer => \A k \in 0..last : HostSends(D(k))
    BY DEF HostSends
  <2> QED BY <2>1, <2>2
<1>7. CASE HostCompletes(saves, h, out)
  <2>1. hostDisk' = D(last) /\ host' = h /\ toHost' = Tail(toHost) /\ UNCHANGED count
        /\ HostSends(D(last))
    BY <1>6, <1>7 DEF HostCompletes
  <2>2. HostSide(D(last))
    BY <1>1, <1>2, <2>1, Faults DEF HostSide, IInv
  <2>3. HostGoesOn(D(last))
    BY <2>1, <2>2 DEF HostGoesOn
  <2> QED BY <2>3
<1>8. ASSUME NEW k \in 0..last, NEW r \in HostRecords,
             hostDisk' = D(k), host' = HostAfterError(r, D(k)), toHost' = <<>>,
             HostSends(D(k)), UNCHANGED count \/ count' = OneFault,
             host.mode = "availability" => Works(r, D(k))
      PROVE  HostEnds(D(k))
  <2> HIDE DEF D
  <2> DEFINE e == HostAfterError(r, D(k))
  <2>1. /\ e \in Hosts /\ e.mode \in {"down", "retrying"} /\ ~e.online /\ e.agreement = NoPair
        /\ e.mode = "down" => e = HostDown
        /\ e.mode = "retrying" => Works(e.record, D(k))
    BY <1>2, <1>8, AfterError
  <2>2. host' = e
    BY <1>8
  <2> HIDE DEF e
  <2>3. HostSide(D(k))
    BY <1>1, <1>2, <1>8, <2>1, <2>2, Faults DEF HostSide, IInv
  <2> QED BY <1>8, <2>1, <2>2, <2>3 DEF HostEnds
<1>9. CASE HostSendFails(saves, h, out)
  <2>1. hostDisk' = D(last) /\ host' = HostAfterError(h.record, D(last)) /\ toHost' = <<>>
        /\ (UNCHANGED count \/ count' = OneFault) /\ toViewer' = toViewer
    BY <1>9 DEF HostSendFails
  <2> QED BY <1>1, <1>3, <1>4, <1>6, <1>8, <2>1
<1>10. CASE HostMarkFails(saves, h, out)
  <2>1. hostDisk' = D(last) /\ host' = HostAfterError(h.record, D(last)) /\ toHost' = <<>>
        /\ count' = OneFault /\ HostSends(D(last))
    BY <1>6, <1>10 DEF HostMarkFails
  <2> QED BY <1>1, <1>3, <1>4, <1>8, <2>1
<1>11. ASSUME NEW k \in 1..last, HostSaveFails(saves, k - 1)
       PROVE  HostEnds(D(k - 1))
  <2>1. k - 1 \in 0..last /\ k - 1 < last
    BY <1>1
  <2>2. hostDisk' = D(k - 1) /\ host' = HostAfterError(host.record, D(k - 1)) /\ toHost' = <<>>
        /\ count' = OneFault /\ toViewer' = toViewer
    BY <1>11 DEF HostSaveFails
  <2> QED BY <1>3, <1>5, <1>6, <1>8, <2>1, <2>2
<1>12. ASSUME NEW k \in 1..last, HostDies(saves, k)
       PROVE  HostEnds(D(k))
  <2>1. k \in 0..last
    BY <1>1
  <2>2. hostDisk' = D(k) /\ host' = HostDown /\ toHost' = <<>> /\ count' = OneFault
        /\ HostSends(D(k))
    BY <1>6, <1>12, <2>1 DEF HostDies
  <2>3. HostDown \in Hosts /\ HostDown.mode = "down" /\ ~HostDown.online /\ HostDown.agreement = NoPair
    BY PairFields DEF HostDown, Hosts, NoHostRecord, HostRecords, Pairs
  <2>4. HostSide(D(k))
    BY <1>1, <1>2, <2>1, <2>2, <2>3, Faults DEF HostSide, IInv
  <2> QED BY <2>2, <2>3, <2>4 DEF HostEnds
<1> QED BY <1>7, <1>9, <1>10, <1>11, <1>12 DEF HostDoes

\* The host may store its record advanced, if that is in order with the viewer's.
LEMMA StoresAdvance ==
  ASSUME IInv, NEW d \in HostRecords, Shaped(d), Advances(d, hostDisk),
         Kept(hostDisk.pair) => viewerDisk.next > d.highest /\ Ordered(d, viewerDisk)
  PROVE  HostStores(d)
  BY DEF HostStores, IInv, HostRecordHasPeer, Advances

\* An event the host handles.
LEMMA HostHandlesEvent ==
  ASSUME IInv, NEW mode, NEW type, HostEvent(mode, type)
  PROVE  /\ host.mode = mode /\ toHost # <<>> /\ host.responding = 0
         /\ Head(toHost) \in Sent(toHost, type) /\ Head(toHost) \in Events /\ Head(toHost).type = type
  BY HeadHeld, Typed DEF HostEvent, IInv, Sent

\* A loop that throws ends.
LEMMA HostThrowsEnds ==
  ASSUME IInv, HostThrows
  PROVE  \E d : HostEnds(d) \/ HostGoesOn(d)
<1>1. HostStores(hostDisk) /\ hostDisk \in HostRecords /\ host.record \in HostRecords
  BY StoresSame, Typed DEF IInv
<1>2. host.mode = "availability" => Works(host.record, hostDisk)
  BY DEF IInv, Records
<1> DEFINE e == HostAfterError(host.record, hostDisk)
<1>3. /\ e \in Hosts /\ e.mode \in {"down", "retrying"} /\ ~e.online /\ e.agreement = NoPair
      /\ e.mode = "down" => e = HostDown
      /\ e.mode = "retrying" => Works(e.record, hostDisk)
  BY <1>1, <1>2, AfterError
<1>4. host' = e /\ toHost' = <<>> /\ hostDisk' = hostDisk /\ count' = count /\ toViewer' = toViewer
      /\ UNCHANGED <<viewerDisk, viewer, link, forgotten>>
  BY DEF HostThrows
<1> HIDE DEF e
<1>5. HostSide(hostDisk)
  BY <1>1, <1>3, <1>4, Faults DEF HostSide, HostSends, IInv
<1> QED BY <1>3, <1>4, <1>5 DEF HostEnds

\* A handler that stores nothing.
LEMMA HostDoesNothing ==
  ASSUME IInv, NEW h \in Hosts, NEW out, HostDoes(<<>>, h, out), toHost # <<>>,
         host.mode \in {"bootstrap", "availability"},
         h.mode = host.mode, h.online = host.online, h.invitation = host.invitation,
         h.participant = host.participant, h.agreement = host.agreement, h.record = host.record,
         out # <<>> => \E m \in Events :
           /\ out = <<m>>
           /\ HostCanSend /\ viewer.online => HostMaySend(hostDisk, m)
  PROVE  \E d : HostEnds(d) \/ HostGoesOn(d)
<1>1. <<>> \in Seq(HostRecords) /\ Len(<<>>) = 0 /\ \A k \in 0..0 : Saved(hostDisk, <<>>, k) = hostDisk
  BY DEF Saved
<1>2. HostStores(hostDisk)
  BY StoresSame
<1> DEFINE saves == <<>>
<1>3. /\ saves \in Seq(HostRecords) /\ Len(saves) = 0 /\ HostDoes(saves, h, out)
      /\ \A k \in 0..Len(saves) : Saved(hostDisk, saves, k) = hostDisk
      /\ \A k \in 0..Len(saves) : ~(k < Len(saves))
      /\ Saved(hostDisk, saves, Len(saves)) = hostDisk
  BY <1>1
<1> HIDE DEF saves
<1> QED BY <1>2, <1>3, HostDoesSteps

\* A handler that stores one record.
LEMMA HostDoesOne ==
  ASSUME IInv, NEW d \in HostRecords, NEW h \in Hosts, NEW out, HostDoes(<<d>>, h, out), toHost # <<>>,
         host.mode \in {"bootstrap", "availability"}, HostStores(d),
         h.mode = host.mode, h.online = host.online, h.invitation = host.invitation,
         h.participant = host.participant, h.agreement = host.agreement, h.record = d,
         out # <<>> => \E m \in Events :
           /\ out = <<m>>
           /\ HostCanSend /\ viewer.online => HostMaySend(d, m)
  PROVE  \E e : HostEnds(e) \/ HostGoesOn(e)
<1> DEFINE saves == <<d>>
<1>1. saves \in Seq(HostRecords) /\ Len(saves) = 1 /\ saves[1] = d /\ HostDoes(saves, h, out)
  OBVIOUS
<1> HIDE DEF saves
<1>2. Saved(hostDisk, saves, 0) = hostDisk /\ Saved(hostDisk, saves, 1) = d
  BY <1>1 DEF Saved
<1>3. /\ HostStores(hostDisk)
      /\ host.mode = "availability" => Works(host.record, hostDisk)
  BY StoresSame DEF IInv, Records
<1>4. /\ \A k \in 0..Len(saves) : k = 0 \/ k = 1
      /\ \A k \in 0..Len(saves) : k < Len(saves) => k = 0
  BY <1>1
<1>5. /\ \A k \in 0..Len(saves) : HostStores(Saved(hostDisk, saves, k))
      /\ host.mode = "availability" =>
           \A k \in 0..Len(saves) : k < Len(saves) => Works(host.record, Saved(hostDisk, saves, k))
      /\ Saved(hostDisk, saves, Len(saves)) = d
  BY <1>1, <1>2, <1>3, <1>4
<1> QED BY <1>1, <1>5, HostDoesSteps

\* A handler that stores two records.
LEMMA HostDoesTwo ==
  ASSUME IInv, NEW c \in HostRecords, NEW d \in HostRecords, NEW h \in Hosts, NEW out,
         HostDoes(<<c, d>>, h, out), toHost # <<>>,
         host.mode \in {"bootstrap", "availability"}, HostStores(c), HostStores(d),
         host.mode = "availability" => Works(host.record, c),
         h.mode = host.mode, h.online = host.online, h.invitation = host.invitation,
         h.participant = host.participant, h.agreement = host.agreement, h.record = d,
         out # <<>> => \E m \in Events :
           /\ out = <<m>>
           /\ HostCanSend /\ viewer.online => HostMaySend(d, m)
  PROVE  \E e : HostEnds(e) \/ HostGoesOn(e)
<1> DEFINE saves == <<c, d>>
<1>1. saves \in Seq(HostRecords) /\ Len(saves) = 2 /\ saves[1] = c /\ saves[2] = d /\ HostDoes(saves, h, out)
  OBVIOUS
<1> HIDE DEF saves
<1>2. Saved(hostDisk, saves, 0) = hostDisk /\ Saved(hostDisk, saves, 1) = c /\ Saved(hostDisk, saves, 2) = d
  BY <1>1 DEF Saved
<1>3. /\ HostStores(hostDisk)
      /\ host.mode = "availability" => Works(host.record, hostDisk)
  BY StoresSame DEF IInv, Records
<1>4. /\ \A k \in 0..Len(saves) : k = 0 \/ k = 1 \/ k = 2
      /\ \A k \in 0..Len(saves) : k < Len(saves) => k = 0 \/ k = 1
  BY <1>1
<1>5. /\ \A k \in 0..Len(saves) : HostStores(Saved(hostDisk, saves, k))
      /\ host.mode = "availability" =>
           \A k \in 0..Len(saves) : k < Len(saves) => Works(host.record, Saved(hostDisk, saves, k))
      /\ Saved(hostDisk, saves, Len(saves)) = d
  BY <1>1, <1>2, <1>3, <1>4
<1> QED BY <1>1, <1>5, HostDoesSteps

\* The host sends a ready hello, or nothing.
LEMMA BootstrapReadySteps ==
  ASSUME IInv, BootstrapReady
  PROVE  \E d : HostEnds(d) \/ HostGoesOn(d)
<1>1. host.mode = "bootstrap" /\ toHost # <<>> /\ host \in Hosts /\ host.participant \in Nat
  BY HostHandlesEvent, Typed DEF BootstrapReady, IInv, TypeOK
<1>2. CASE host.helloSent
  <2>1. HostDoes(<<>>, host, <<>>)
    BY <1>2 DEF BootstrapReady
  <2> QED BY <1>1, <2>1, HostDoesNothing
<1>3. CASE ~host.helloSent
  <2> DEFINE h == [host EXCEPT !.helloSent = TRUE]
             m == Numbered("hello", host.participant)
  <2>1. HostDoes(<<>>, h, <<m>>)
    BY <1>3 DEF BootstrapReady
  <2>2. /\ h \in Hosts
        /\ h.mode = host.mode /\ h.online = host.online /\ h.invitation = host.invitation
        /\ h.participant = host.participant /\ h.agreement = host.agreement /\ h.record = host.record
    BY <1>1 DEF Hosts
  <2>3. m \in Events /\ m.type = "hello"
    BY <1>1, EventTypes
  <2>4. HostCanSend /\ viewer.online => HostMaySend(hostDisk, m)
    BY <2>3 DEF HostMaySend
  <2> HIDE DEF h, m
  <2> QED BY <1>1, <2>1, <2>2, <2>3, <2>4, HostDoesNothing
<1> QED BY <1>2, <1>3

\* What replacing the record in memory leaves alone.
LEMMA WithRecord ==
  ASSUME TypeOK, NEW r \in HostRecords, NEW n \in Nat, NEW x \in Nat
  PROVE  /\ [host EXCEPT !.record = r] \in Hosts
         /\ [host EXCEPT !.record = r, !.responding = n] \in Hosts
         /\ [host EXCEPT !.exchange = x, !.record = r] \in Hosts
         /\ \A h \in {[host EXCEPT !.record = r], [host EXCEPT !.record = r, !.responding = n],
                      [host EXCEPT !.exchange = x, !.record = r]} :
              /\ h.mode = host.mode /\ h.online = host.online /\ h.invitation = host.invitation
              /\ h.participant = host.participant /\ h.agreement = host.agreement /\ h.record = r
  BY DEF TypeOK, Hosts

\* The first record of a pair is stored only after the viewer's half is.
LEMMA BootstrapConfirmationSteps ==
  ASSUME IInv, BootstrapConfirmation
  PROVE  \E d : HostEnds(d) \/ HostGoesOn(d)
<1> DEFINE p == Head(toHost).pair
           c == PendingHost(p)
           d == PrepareProposal(PendingHost(p))
<1>1. /\ host.mode = "bootstrap" /\ toHost # <<>>
      /\ Head(toHost) \in Sent(toHost, "confirmation") /\ Head(toHost) \in Events
      /\ Head(toHost).type = "confirmation"
  BY HostHandlesEvent DEF BootstrapConfirmation
<1>2. /\ p \in Pairs /\ p[1] \in 1..count.host /\ p[2] \in 1..count.viewer
      /\ host.agreement = p /\ host.record.state = "none" =>
           (viewerDisk.pair = p /\ viewerDisk.state = "pending") \/ p \in forgotten
      /\ viewer.mode = "bootstrap" /\ p[2] = viewer.participant => viewer.bound
  BY <1>1, EventTypes DEF IInv, Confirmations
<1>3. CASE ~ExpectsConfirmation(p)
  BY <1>3, HostThrowsEnds DEF BootstrapConfirmation
<1>4. CASE ExpectsConfirmation(p)
  <2>1. HostDoes(<<c, d>>, [host EXCEPT !.record = d], <<Authenticated("proposal", p)>>)
    BY <1>4 DEF BootstrapConfirmation
  <2>2. /\ c = [pair |-> p, state |-> "pending", recovery |-> "none", highest |-> 0]
        /\ d = [pair |-> p, state |-> "pending", recovery |-> "proposal", highest |-> 0]
    BY DEF PendingHost, PrepareProposal
  <2>3. p # NoPair /\ p[1] >= 1 /\ p[2] >= 1 /\ count.host \in Nat /\ count.viewer \in Nat
    BY <1>2, PairFields, Typed DEF IInv
  <2>4. host.record.state = "none" /\ hostDisk = NoHostRecord /\ host.agreement = p
    BY <1>1, <1>4 DEF ExpectsConfirmation, IInv, Records, Shaped
  <2>5. viewerDisk.state = "pending" => viewerDisk.next > 0
    BY Typed, ViewerRecordFields DEF IInv, Records
  <2>6. ASSUME NEW r \in {c, d} PROVE HostStores(r) /\ r \in HostRecords /\ r.pair = p
    <3>1. r \in HostRecords /\ r.pair = p /\ r.state = "pending" /\ r.highest = 0
          /\ r.recovery \in {"none", "proposal"}
      BY <1>2, <2>2 DEF HostRecords
    <3>2. Shaped(r)
      BY <2>3, <3>1 DEF Shaped
    <3> QED BY <1>1, <1>2, <2>3, <2>4, <2>5, <3>1, <3>2 DEF HostStores, Kept, Ordered
  <2> DEFINE m == Authenticated("proposal", p)
  <2>7. m \in Events /\ m.type = "proposal" /\ m.pair = p
    BY <1>2, EventTypes DEF CommitPhases
  <2>8. HostRank(d) = 2 /\ d.pair = p
    BY <2>2 DEF HostRank
  <2> HIDE DEF c, d, m
  <2>9. HostCanSend /\ viewer.online => HostMaySend(d, m)
    BY <2>7, <2>8 DEF HostMaySend
  <2>10. HostDoes(<<c, d>>, [host EXCEPT !.record = d], <<m>>)
    BY <2>1 DEF m
  <2> DEFINE h == [host EXCEPT !.record = d]
  <2>11. h \in Hosts
         /\ h.mode = host.mode /\ h.online = host.online /\ h.invitation = host.invitation
         /\ h.participant = host.participant /\ h.agreement = host.agreement /\ h.record = d
    BY <2>6, WithRecord DEF IInv
  <2> HIDE DEF h
  <2>12. c \in HostRecords /\ d \in HostRecords /\ HostStores(c) /\ HostStores(d) /\ host.mode # "availability"
    BY <1>1, <2>6
  <2>13. HostDoes(<<c, d>>, h, <<m>>)
    BY <2>10 DEF h
  <2> QED BY <1>1, <2>7, <2>9, <2>11, <2>12, <2>13, HostDoesTwo
<1> QED BY <1>3, <1>4

\* Answering an acknowledgement stores the completion before it is sent.
LEMMA AnswerAcknowledgementSteps ==
  ASSUME IInv, AnswerAcknowledgement, toHost # <<>>, host.mode \in {"bootstrap", "availability"},
         Head(toHost) \in Sent(toHost, "acknowledgement")
  PROVE  \E d : HostEnds(d) \/ HostGoesOn(d)
<1> DEFINE r == host.record
           c == AcceptAcknowledgement(r)
           d == PrepareCompletion(AcceptAcknowledgement(r))
<1>1. /\ r \in HostRecords /\ Shaped(r) /\ hostDisk \in HostRecords /\ Shaped(hostDisk)
      /\ r.pair = hostDisk.pair
      /\ HostRank(r) >= 3 => r = hostDisk
  BY Typed, MemoryBehind DEF IInv, Records
<1>2. HostRank(r) >= 2 /\ (Kept(hostDisk.pair) => viewerDisk.state \in {"acceptedIssued", "active"})
  BY DEF IInv, ToHost
<1>3. r.state \in {"acceptedReceived", "active"} \/ (r.state = "pending" /\ r.recovery = "proposal")
  BY <1>1, <1>2, HostPhases, HostRecordFields
<1>4. r = hostDisk \/ (r.state = "pending" /\ hostDisk = c)
  BY DEF IInv, Records, Works
<1>5. /\ c \in HostRecords /\ d \in HostRecords /\ Shaped(c) /\ Shaped(d)
      /\ c.pair = r.pair /\ d.pair = r.pair /\ c.highest = r.highest /\ d.highest = r.highest
      /\ r.state # "pending" => c = r
      /\ r.state = "pending" => c.state = "acceptedReceived" /\ c.recovery = "none"
      /\ r.state \in {"pending", "acceptedReceived"} => d.state = "acceptedReceived" /\ d.recovery = "completion"
      /\ r.state = "active" => d = r
  BY <1>1, <1>3, HostTransitions
<1>6. r.pair \in Pairs /\ r.highest \in Nat
  BY <1>1, HostRecordFields
<1> HIDE DEF c, d
<1>7. /\ HostRank(c) \in 0..5 /\ HostRank(d) \in 0..5 /\ HostRank(hostDisk) \in 0..5
      /\ HostRank(d) >= 4 /\ HostRank(c) >= 3
      /\ HostRank(d) >= HostRank(hostDisk) /\ HostRank(c) >= HostRank(hostDisk)
  <2>1. HostRank(c) \in 0..5 /\ HostRank(d) \in 0..5 /\ HostRank(hostDisk) \in 0..5
    BY HostPhases
  <2>2. HostRank(d) >= 4
    BY <1>3, <1>5, HostPhases
  <2>3. HostRank(c) >= 3
    BY <1>3, <1>5, HostPhases
  <2>4. CASE r.state = "pending"
    <3>1. HostRank(hostDisk) <= 3
      BY <1>4, <1>5, <2>4 DEF HostRank
    <3> QED BY <2>1, <2>2, <2>3, <3>1
  <2>5. CASE r.state = "acceptedReceived"
    <3>1. hostDisk = r /\ c = r
      BY <1>4, <1>5, <2>5
    <3>2. HostRank(r) <= 4
      BY <2>5 DEF HostRank
    <3> QED BY <2>1, <2>2, <2>3, <3>1, <3>2
  <2>6. CASE r.state = "active"
    BY <1>4, <1>5, <2>1, <2>2, <2>3, <2>6
  <2> QED BY <1>3, <2>1, <2>2, <2>3, <2>4, <2>5, <2>6
<1>8. Advances(c, hostDisk) /\ Advances(d, hostDisk) /\ hostDisk.highest = r.highest
  <2>1. hostDisk.highest = r.highest
    BY <1>4, <1>5
  <2> QED BY <1>1, <1>5, <1>6, <1>7, <2>1 DEF Advances
<1>9. Kept(hostDisk.pair) =>
        /\ viewerDisk.next > r.highest /\ viewerDisk.state \in {"acceptedIssued", "active"}
        /\ Ordered(hostDisk, viewerDisk)
  BY <1>2, <1>8 DEF IInv, CommitOrder, Ordered, SequencesFresh
<1>10. Kept(hostDisk.pair) => Ordered(c, viewerDisk) /\ Ordered(d, viewerDisk)
  <2>1. r.state = "pending" /\ Kept(hostDisk.pair) /\ viewerDisk.state = "active" => FALSE
    <3>1. r.state = "pending" => hostDisk.state # "active" /\ hostDisk.recovery # "completion"
      BY <1>1, <1>4, <1>5 DEF Shaped
    <3> QED BY <1>9, <3>1 DEF Ordered
  <2>2. r.state # "pending" => r = hostDisk
    BY <1>4
  <2>3. Kept(hostDisk.pair) => Ordered(c, viewerDisk)
    BY <1>3, <1>5, <1>9, <2>1, <2>2 DEF Ordered
  <2>4. Kept(hostDisk.pair) => Ordered(d, viewerDisk)
    BY <1>3, <1>5, <1>9, <2>1, <2>2 DEF Ordered
  <2> QED BY <2>3, <2>4
<1>11. HostStores(c) /\ HostStores(d)
  BY <1>5, <1>8, <1>9, <1>10, StoresAdvance
<1>12. Works(r, c)
  BY <1>3, <1>5 DEF Works, c
<1> DEFINE m == Authenticated("completion", r.pair)
           h == [host EXCEPT !.record = d]
<1>13. m \in Events /\ m.type = "completion" /\ m.pair = r.pair
  BY <1>6, EventTypes DEF CommitPhases
<1>14. /\ h \in Hosts
       /\ h.mode = host.mode /\ h.online = host.online /\ h.invitation = host.invitation
       /\ h.participant = host.participant /\ h.agreement = host.agreement /\ h.record = d
  BY <1>5, WithRecord DEF IInv
<1>15. HostDoes(<<c, d>>, h, <<m>>)
  <2> DEFINE saves == AcknowledgementSaves(r)
  <2>1. saves = <<c, d>> /\ saves[2] = d
    BY DEF AcknowledgementSaves, c, d
  <2> QED BY <2>1 DEF AnswerAcknowledgement
<1> HIDE DEF m, h
<1>16. HostCanSend /\ viewer.online => HostMaySend(d, m)
  BY <1>5, <1>7, <1>13 DEF HostMaySend
<1> QED BY <1>5, <1>11, <1>12, <1>13, <1>14, <1>15, <1>16, HostDoesTwo

\* Either loop answers an acknowledgement, or ends.
LEMMA AcknowledgementSteps ==
  ASSUME IInv, BootstrapAcknowledgement \/ AvailabilityAcknowledgement
  PROVE  \E d : HostEnds(d) \/ HostGoesOn(d)
<1>1. toHost # <<>> /\ host.mode \in {"bootstrap", "availability"}
      /\ Head(toHost) \in Sent(toHost, "acknowledgement")
  BY HostHandlesEvent DEF BootstrapAcknowledgement, AvailabilityAcknowledgement
<1>2. AnswerAcknowledgement \/ HostThrows
  BY DEF BootstrapAcknowledgement, AvailabilityAcknowledgement
<1> QED BY <1>1, <1>2, HostThrowsEnds, AnswerAcknowledgementSteps

\* The viewer's activation makes the host's record active.
LEMMA ActivationStores ==
  ASSUME IInv, toHost # <<>>, Head(toHost) \in Sent(toHost, "activation")
  PROVE  LET d == AcceptActivation(host.record)
         IN  d \in HostRecords /\ HostStores(d) /\ d.state = "active"
<1> DEFINE r == host.record
           d == AcceptActivation(r)
<1>1. HostRank(r) >= 3 /\ (Kept(hostDisk.pair) => viewerDisk.state = "active")
  BY DEF IInv, ToHost
<1>2. r = hostDisk /\ r \in HostRecords /\ Shaped(r)
  BY <1>1, Typed, MemoryBehind DEF IInv
<1>3. r.state \in {"acceptedReceived", "active"} /\ r.pair \in Pairs /\ r.highest \in Nat
      /\ r.recovery \in {"none", "proposal", "completion"}
      /\ r = [pair |-> r.pair, state |-> r.state, recovery |-> r.recovery, highest |-> r.highest]
  BY <1>1, <1>2, HostPhases, HostRecordFields
<1>4. /\ d \in HostRecords /\ d.pair = r.pair /\ d.state = "active"
      /\ d.recovery = "none" /\ d.highest = r.highest
  BY <1>2 DEF AcceptActivation, HostRecords
<1> HIDE DEF d
<1>5. d \in HostRecords /\ Shaped(d)
  BY <1>2, <1>3, <1>4 DEF Shaped
<1>6. HostRank(d) = 5 /\ HostRank(hostDisk) \in 0..5
  BY <1>4, HostPhases DEF HostRank
<1>7. Advances(d, hostDisk)
  BY <1>2, <1>3, <1>4, <1>6 DEF Advances
<1>8. Kept(hostDisk.pair) => viewerDisk.next > d.highest /\ Ordered(d, viewerDisk)
  BY <1>1, <1>2, <1>4 DEF IInv, SequencesFresh, Ordered
<1> QED BY <1>4, <1>5, <1>7, <1>8, StoresAdvance DEF d

\* The bootstrap that completes ends with an active record.
LEMMA BootstrapActivationSteps ==
  ASSUME IInv, BootstrapActivation
  PROVE  \E d : HostEnds(d) \/ HostGoesOn(d)
<1> DEFINE d == AcceptActivation(host.record)
<1>1. /\ host.mode = "bootstrap" /\ toHost # <<>>
      /\ Head(toHost) \in Sent(toHost, "activation")
  BY HostHandlesEvent DEF BootstrapActivation
<1>2. d \in HostRecords /\ HostStores(d) /\ d.state = "active"
  BY <1>1, ActivationStores
<1>3. hostDisk \in HostRecords /\ HostStores(hostDisk) /\ host.record \in HostRecords
  BY StoresSame, Typed DEF IInv
<1>4. HostDown \in Hosts /\ HostDown.mode = "down" /\ ~HostDown.online /\ HostDown.agreement = NoPair
  BY PairFields DEF HostDown, Hosts, NoHostRecord, HostRecords, Pairs
<1>5. CASE HostThrows
  BY <1>5, HostThrowsEnds
<1>6. CASE /\ hostDisk' = d
           /\ host' = [HostDown EXCEPT !.mode = "retrying", !.record = d]
           /\ toHost' = <<>>
           /\ UNCHANGED <<viewerDisk, viewer, link, toViewer, count, forgotten>>
  <2>1. /\ host' \in Hosts /\ host'.mode = "retrying" /\ ~host'.online
        /\ host'.agreement = NoPair /\ host'.record = d
    BY <1>2, <1>4, <1>6 DEF HostDown, Hosts
  <2>2. HostSide(d)
    BY <1>2, <1>6, <2>1, Faults DEF HostSide, HostSends, IInv
  <2>3. HostEnds(d)
    BY <1>2, <1>6, <2>1, <2>2 DEF HostEnds, Works
  <2> QED BY <2>3
<1>7. CASE HostSaveFails(<<d>>, 0) /\ UNCHANGED <<viewerDisk, viewer, link, forgotten>>
  <2> DEFINE e == HostAfterError(host.record, hostDisk)
  <2>1. /\ e \in Hosts /\ e.mode \in {"down", "retrying"} /\ ~e.online /\ e.agreement = NoPair
        /\ e.mode = "down" => e = HostDown
        /\ e.mode = "retrying" => Works(e.record, hostDisk)
    BY <1>1, <1>3, AfterError
  <2>2. hostDisk' = hostDisk /\ host' = HostAfterError(host.record, hostDisk') /\ toHost' = <<>>
        /\ count' = OneFault /\ toViewer' = toViewer
    BY <1>7 DEF HostSaveFails, Saved
  <2>3. host' = e
    BY <2>2
  <2> HIDE DEF e
  <2>4. HostSide(hostDisk)
    BY <1>3, <1>7, <2>1, <2>2, <2>3, Faults DEF HostSide, HostSends, IInv
  <2> QED BY <2>1, <2>2, <2>3, <2>4 DEF HostEnds
<1>8. CASE HostDies(<<d>>, 1) /\ UNCHANGED <<viewerDisk, viewer, link, forgotten>>
  <2>1. hostDisk' = d /\ host' = HostDown /\ toHost' = <<>> /\ count' = OneFault /\ toViewer' = toViewer
    BY <1>8 DEF HostDies, Saved
  <2>2. HostSide(d)
    BY <1>2, <1>4, <1>8, <2>1, Faults DEF HostSide, HostSends, IInv
  <2> QED BY <1>4, <2>1, <2>2 DEF HostEnds
<1> QED BY <1>5, <1>6, <1>7, <1>8 DEF BootstrapActivation

\* The availability loop accepts an activation.
LEMMA AvailabilityActivationSteps ==
  ASSUME IInv, AvailabilityActivation
  PROVE  \E d : HostEnds(d) \/ HostGoesOn(d)
<1> DEFINE d == AcceptActivation(host.record)
           h == [host EXCEPT !.record = d]
<1>1. /\ host.mode = "availability" /\ toHost # <<>>
      /\ Head(toHost) \in Sent(toHost, "activation")
  BY HostHandlesEvent DEF AvailabilityActivation
<1>2. d \in HostRecords /\ HostStores(d)
  BY <1>1, ActivationStores
<1>3. /\ h \in Hosts
      /\ h.mode = host.mode /\ h.online = host.online /\ h.invitation = host.invitation
      /\ h.participant = host.participant /\ h.agreement = host.agreement /\ h.record = d
  BY <1>2, WithRecord DEF IInv
<1>4. HostDoes(<<d>>, h, <<>>) \/ HostThrows
  BY DEF AvailabilityActivation
<1> HIDE DEF d, h
<1> QED BY <1>1, <1>2, <1>3, <1>4, HostDoesOne, HostThrowsEnds

\* A reconnect request raises the stored mark.
LEMMA AvailabilityRequestSteps ==
  ASSUME IInv, AvailabilityRequest
  PROVE  \E d : HostEnds(d) \/ HostGoesOn(d)
<1> DEFINE r == host.record
           n == Head(toHost).number
           d == [r EXCEPT !.highest = n]
           h == [host EXCEPT !.record = d, !.responding = n]
<1>1. /\ host.mode = "availability" /\ toHost # <<>>
      /\ Head(toHost) \in Sent(toHost, "request") /\ n \in Nat
  BY HostHandlesEvent, EventTypes DEF AvailabilityRequest
<1>2. CASE ~AcceptsRequest(r, n)
  BY <1>2, HostThrowsEnds DEF AvailabilityRequest
<1>3. CASE AcceptsRequest(r, n)
  <2>1. r.state = "active" /\ n > r.highest /\ r \in HostRecords
    BY <1>3, Typed DEF AcceptsRequest, IInv
  <2>2. r = hostDisk /\ Shaped(r)
    BY <2>1, MemoryBehind, HostPhases, HostRecordFields DEF IInv
  <2>3. r.pair \in Pairs /\ r.highest \in Nat /\ r.recovery = "none"
        /\ r = [pair |-> r.pair, state |-> r.state, recovery |-> r.recovery, highest |-> r.highest]
    BY <2>1, <2>2, HostRecordFields DEF Shaped
  <2>4. d = [pair |-> r.pair, state |-> "active", recovery |-> "none", highest |-> n]
    BY <2>1, <2>3
  <2>5. HostDoes(<<d>>, h, <<>>)
    BY <1>3 DEF AvailabilityRequest
  <2>6. Kept(hostDisk.pair) => viewerDisk.next > n
    BY <1>1, Typed, ByPosition DEF IInv, SequencesFresh
  <2> HIDE DEF d, h
  <2>7. d \in HostRecords /\ Shaped(d)
    BY <1>1, <2>1, <2>2, <2>3, <2>4 DEF Shaped, HostRecords
  <2>8. Advances(d, hostDisk)
    <3>1. HostRank(d) = 5 /\ HostRank(hostDisk) \in 0..5
      BY <2>4, HostPhases DEF HostRank
    <3> QED BY <1>1, <2>1, <2>2, <2>3, <2>4, <3>1 DEF Advances
  <2>9. Kept(hostDisk.pair) => Ordered(d, viewerDisk)
    BY <2>1, <2>2, <2>4 DEF IInv, CommitOrder, Ordered
  <2>10. HostStores(d)
    BY <2>4, <2>6, <2>7, <2>8, <2>9, StoresAdvance
  <2>11. /\ h \in Hosts
         /\ h.mode = host.mode /\ h.online = host.online /\ h.invitation = host.invitation
         /\ h.participant = host.participant /\ h.agreement = host.agreement /\ h.record = d
    BY ZenonT(60), <1>1, <2>7, WithRecord DEF IInv, h
  <2> QED BY <1>1, <2>5, <2>7, <2>10, <2>11, HostDoesOne
<1> QED BY <1>2, <1>3

\* A paired host resumes the commit its record is interrupted in.
LEMMA AvailabilityReadySteps ==
  ASSUME IInv, AvailabilityReady
  PROVE  \E d : HostEnds(d) \/ HostGoesOn(d)
<1> DEFINE r == host.record
           d == Recovered(r)
           x == Head(toHost).number
           h == [host EXCEPT !.exchange = x, !.record = d]
<1>1. /\ host.mode = "availability" /\ toHost # <<>> /\ x \in Nat
  BY HostHandlesEvent, EventTypes DEF AvailabilityReady
<1>2. /\ r \in HostRecords /\ Shaped(r) /\ r.state # "none" /\ r.pair = hostDisk.pair
      /\ hostDisk \in HostRecords /\ Shaped(hostDisk)
      /\ Works(r, hostDisk)
      /\ HostRank(r) >= 3 => r = hostDisk
  BY <1>1, Typed, MemoryBehind DEF IInv, Records, Works
<1>3. /\ r.pair \in Pairs /\ r.highest \in Nat /\ r.state \in {"pending", "acceptedReceived", "active"}
      /\ r.state \in {"acceptedReceived", "active"} => r = hostDisk
  BY <1>2, HostRecordFields, HostPhases
<1>4. /\ d \in HostRecords /\ Shaped(d) /\ d.pair = r.pair /\ d.highest = r.highest
      /\ r.state = "active" => d = r
      /\ r.state = "acceptedReceived" => d.state = "acceptedReceived" /\ d.recovery = "completion"
      /\ r.state = "pending" => d.state = "pending" /\ d.recovery = "proposal"
      /\ r.state = "pending" /\ r.recovery = "proposal" => d = r
  <2>1. ASSUME r.state = "pending", r.recovery = "proposal" PROVE d = r
    <3>1. d = [pair |-> r.pair, state |-> "pending", recovery |-> "proposal", highest |-> r.highest]
      BY <1>2, <2>1, HostTransitions
    <3>2. r = [pair |-> r.pair, state |-> r.state, recovery |-> r.recovery, highest |-> r.highest]
      BY <1>2, HostRecordFields
    <3> HIDE DEF d, r
    <3> QED BY <2>1, <3>1, <3>2
  <2> QED BY <1>2, <2>1, HostTransitions
<1>5. h = [host EXCEPT !.exchange = x, !.record = Recovered(@)]
  BY DEF IInv, TypeOK, Hosts
<1>6. /\ h \in Hosts
      /\ h.mode = host.mode /\ h.online = host.online /\ h.invitation = host.invitation
      /\ h.participant = host.participant /\ h.agreement = host.agreement /\ h.record = d
  BY <1>1, <1>4, WithRecord DEF IInv
<1>7. HostDoes(IF d = r THEN <<>> ELSE <<d>>, h,
               IF r.state = "active" THEN <<>> ELSE <<Authenticated(d.recovery, r.pair)>>)
  BY <1>5 DEF AvailabilityReady, RecoverySaves, RecoveryCommit
<1> HIDE DEF d, h
<1> DEFINE m == Authenticated(d.recovery, r.pair)
<1>8. CASE d = r
  <2>1. CASE r.state = "active"
    <3>1. HostDoes(<<>>, h, <<>>)
      BY <1>7, <1>8, <2>1
    <3> QED BY <1>1, <1>6, <1>8, <3>1, HostDoesNothing
  <2>2. CASE r.state # "active"
    <3>1. d.recovery \in {"proposal", "completion"}
          /\ (d.recovery = "proposal" => d.state = "pending")
          /\ (d.recovery = "completion" => d.state = "acceptedReceived")
      BY <1>3, <1>4, <2>2
    <3>2. m \in Events /\ m.type = d.recovery /\ m.pair = r.pair
      BY <1>3, <3>1, EventTypes DEF CommitPhases
    <3>3. HostDoes(<<>>, h, <<m>>)
      BY <1>7, <1>8, <2>2
    <3>4. d.recovery = "proposal" => HostRank(hostDisk) \in {2, 3}
      <4>1. ASSUME d.recovery = "proposal" PROVE HostRank(hostDisk) \in {2, 3}
        <5>1. r.state = "pending" /\ r.recovery = "proposal"
          BY <1>8, <3>1, <4>1
        <5>2. CASE r = hostDisk
          BY <5>1, <5>2 DEF HostRank
        <5>3. CASE hostDisk = AcceptAcknowledgement(r)
          <6>1. hostDisk.state = "acceptedReceived" /\ hostDisk.recovery = "none"
            BY <1>2, <5>1, <5>3, HostTransitions
          <6> QED BY <6>1 DEF HostRank
        <5> QED BY <1>2, <5>2, <5>3 DEF Works
      <4> QED BY <4>1
    <3>5. d.recovery = "completion" => HostRank(hostDisk) >= 4
      BY <1>3, <1>8, <3>1 DEF HostRank
    <3> HIDE DEF m
    <3>6. HostCanSend /\ viewer.online => HostMaySend(hostDisk, m)
      BY <1>2, <3>1, <3>2, <3>4, <3>5 DEF HostMaySend
    <3> QED BY <1>1, <1>6, <1>8, <3>2, <3>3, <3>6, HostDoesNothing
  <2> QED BY <2>1, <2>2
<1>9. CASE d # r
  <2>1. r.state # "active" /\ ~(r.state = "pending" /\ r.recovery = "proposal")
    BY <1>4, <1>9
  <2>2. r = hostDisk
    BY <1>2, <2>1 DEF Works
  <2>3. /\ d.recovery \in {"proposal", "completion"}
        /\ (d.recovery = "proposal" => d.state = "pending" /\ r.state = "pending" /\ r.recovery = "none")
        /\ (d.recovery = "completion" => d.state = "acceptedReceived" /\ r.state = "acceptedReceived")
    BY <1>2, <1>3, <1>4, <2>1 DEF Shaped
  <2>4. m \in Events /\ m.type = d.recovery /\ m.pair = d.pair
    BY <1>3, <1>4, <2>3, EventTypes DEF CommitPhases
  <2>5. HostDoes(<<d>>, h, <<m>>)
    BY <1>7, <1>9, <2>1
  <2> HIDE DEF m
  <2>6. /\ d.recovery = "proposal" => HostRank(d) = 2 /\ HostRank(r) <= 2
        /\ d.recovery = "completion" => HostRank(d) = 4 /\ HostRank(r) <= 4
    BY <2>3 DEF HostRank
  <2>7. Advances(d, hostDisk)
    <3>1. HostRank(d) \in 0..5 /\ HostRank(r) \in 0..5
      BY HostPhases
    <3> QED BY <1>3, <1>4, <2>2, <2>3, <2>6, <3>1 DEF Advances
  <2>8. Kept(hostDisk.pair) => viewerDisk.next > d.highest /\ Ordered(d, viewerDisk)
    <3>1. Kept(hostDisk.pair) => viewerDisk.next > r.highest /\ Ordered(r, viewerDisk)
      BY <2>2 DEF IInv, CommitOrder, Ordered, SequencesFresh
    <3>2. d.recovery = "proposal" /\ Kept(hostDisk.pair) => Ordered(d, viewerDisk)
      BY <2>3, <3>1 DEF Ordered
    <3>3. d.recovery = "completion" /\ Kept(hostDisk.pair) => Ordered(d, viewerDisk)
      BY <2>3, <3>1 DEF Ordered
    <3> QED BY <1>4, <2>3, <3>1, <3>2, <3>3
  <2>9. HostStores(d)
    BY <1>4, <2>7, <2>8, StoresAdvance
  <2>10. HostCanSend /\ viewer.online => HostMaySend(d, m)
    BY <2>3, <2>4, <2>6 DEF HostMaySend
  <2> QED BY <1>1, <1>4, <1>6, <2>4, <2>5, <2>9, <2>10, HostDoesOne
<1> QED BY <1>8, <1>9

\* The response is sent once its media session has started, or the loop ends.
LEMMA ResponseSteps ==
  ASSUME IInv, HostResponds \/ HostCannotRespond
  PROVE  \E d : HostEnds(d) \/ HostGoesOn(d)
<1>1. /\ HostStores(hostDisk) /\ hostDisk \in HostRecords /\ host.record \in HostRecords
      /\ host \in Hosts /\ host.responding \in Nat /\ toViewer \in Seq(Events)
      /\ host.mode \in {"down", "bootstrap", "retrying", "availability"}
  BY StoresSame, Typed DEF IInv, TypeOK
<1>2. CASE HostResponds
  <2> DEFINE m == Numbered("response", host.responding)
  <2>1. /\ HostCanSend /\ toViewer' = ForViewer(<<m>>)
        /\ host' = [host EXCEPT !.responding = 0]
        /\ UNCHANGED <<hostDisk, viewerDisk, viewer, link, toHost, count, forgotten>>
    BY <1>2 DEF HostResponds
  <2>2. m \in Events /\ m.type = "response"
    BY <1>1, EventTypes
  <2> HIDE DEF m
  <2>3. HostSends(hostDisk)
    BY <1>1, <2>1, <2>2, AppendHeld DEF HostSends, HostMaySend, ForViewer
  <2>4. /\ host' \in Hosts /\ host'.mode = host.mode /\ host'.online = host.online
        /\ host'.invitation = host.invitation /\ host'.participant = host.participant
        /\ host'.agreement = host.agreement /\ host'.record = host.record
    BY <1>1, <2>1 DEF Hosts
  <2>5. host.mode \in {"bootstrap", "availability"}
    BY <2>1 DEF HostCanSend, IInv, Modes
  <2>6. HostSide(hostDisk)
    BY <1>1, <2>1, <2>3, <2>4, Faults DEF HostSide, IInv
  <2> QED BY <2>1, <2>4, <2>5, <2>6 DEF HostGoesOn
<1>3. CASE HostCannotRespond
  <2> DEFINE e == HostAfterError(host.record, hostDisk)
  <2>1. host.mode = "availability" => Works(host.record, hostDisk)
    BY DEF IInv, Records
  <2>2. /\ e \in Hosts /\ e.mode \in {"down", "retrying"} /\ ~e.online /\ e.agreement = NoPair
        /\ e.mode = "down" => e = HostDown
        /\ e.mode = "retrying" => Works(e.record, hostDisk)
    BY <1>1, <2>1, AfterError
  <2>3. host' = e /\ toHost' = <<>> /\ (UNCHANGED count \/ count' = OneFault)
        /\ UNCHANGED <<hostDisk, viewerDisk, viewer, link, toViewer, forgotten>>
    BY <1>3 DEF HostCannotRespond
  <2> HIDE DEF e
  <2>4. HostSide(hostDisk)
    BY <1>1, <2>2, <2>3, Faults DEF HostSide, HostSends, IInv
  <2> QED BY <2>2, <2>3, <2>4 DEF HostEnds
<1> QED BY <1>2, <1>3

\* The peer has left the exchange.
LEMMA AvailabilityLeftSteps ==
  ASSUME IInv, AvailabilityLeft
  PROVE  \E d : HostEnds(d) \/ HostGoesOn(d)
<1> DEFINE h == [host EXCEPT !.exchange = IF @ = Head(toHost).number THEN 0 ELSE @]
<1>1. host.mode = "availability" /\ toHost # <<>> /\ host \in Hosts
  BY HostHandlesEvent DEF AvailabilityLeft, IInv, TypeOK
<1>2. /\ h \in Hosts
      /\ h.mode = host.mode /\ h.online = host.online /\ h.invitation = host.invitation
      /\ h.participant = host.participant /\ h.agreement = host.agreement /\ h.record = host.record
  BY <1>1 DEF Hosts
<1>3. HostDoes(<<>>, h, <<>>)
  BY DEF AvailabilityLeft
<1> HIDE DEF h
<1> QED BY <1>1, <1>2, <1>3, HostDoesNothing

\* The process is lost.
LEMMA HostCrashesSteps ==
  ASSUME IInv, HostCrashes
  PROVE  HostEnds(hostDisk)
<1>1. HostStores(hostDisk)
  BY StoresSame
<1>2. HostDown \in Hosts /\ HostDown.mode = "down" /\ ~HostDown.online /\ HostDown.agreement = NoPair
  BY PairFields DEF HostDown, Hosts, NoHostRecord, HostRecords, Pairs
<1>3. /\ host' = HostDown /\ toHost' = <<>> /\ count' = OneFault
      /\ UNCHANGED <<hostDisk, viewerDisk, viewer, link, toViewer, forgotten>>
  BY DEF HostCrashes
<1>4. HostSide(hostDisk)
  BY <1>1, <1>2, <1>3, Faults DEF HostSide, HostSends, IInv
<1> QED BY <1>2, <1>3, <1>4 DEF HostEnds

\* A handshake without a record starts over with a fresh participant.
LEMMA BootstrapLeftKeeps ==
  ASSUME IInv, BootstrapLeft
  PROVE  IInv' /\ RecordsAdvanceStep
<1> USE DEF IInv
<1>1. host.mode = "bootstrap" /\ toHost # <<>>
  BY HostHandlesEvent DEF BootstrapLeft
<1>2. CASE HostThrows
  BY <1>2, HostThrowsEnds, HostEndsKeeps, HostGoesOnKeeps
<1>3. CASE ~HostThrows
  <2>1. /\ host.record.state = "none"
        /\ count' = [count EXCEPT !.host = @ + 1]
        /\ host' = [host EXCEPT !.participant = count.host + 1, !.helloSent = FALSE,
                                !.agreement = NoPair]
        /\ toHost' = Tail(toHost)
        /\ hostDisk' = hostDisk /\ viewerDisk' = viewerDisk /\ viewer' = viewer /\ link' = link
        /\ toViewer' = toViewer /\ forgotten' = forgotten
    BY <1>3 DEF BootstrapLeft
  <2>2. /\ host \in Hosts /\ count \in Counts /\ toHost \in Seq(Events)
        /\ hostDisk \in HostRecords /\ viewerDisk \in ViewerRecords
        /\ count.host \in Nat /\ count.viewer \in Nat /\ host.participant \in Nat
        /\ host.agreement \in Pairs /\ NoPair \in Pairs
        /\ host.invitation \in Nat /\ viewerDisk.next \in Nat
    BY Typed, PairFields, ViewerRecordFields DEF TypeOK
  <2>3. /\ host' \in Hosts /\ host'.mode = host.mode /\ host'.online = host.online
        /\ host'.invitation = host.invitation /\ host'.participant = count.host + 1
        /\ host'.agreement = NoPair /\ host'.record = host.record
        /\ count' \in Counts /\ count'.host = count.host + 1 /\ count'.viewer = count.viewer
    <3>1. count.host + 1 \in Nat
      BY <2>2
    <3>2. count' \in Counts /\ count'.host = count.host + 1 /\ count'.viewer = count.viewer
      BY <2>1, <2>2, <3>1 DEF Counts
    <3>3. /\ host' \in Hosts /\ host'.mode = host.mode /\ host'.online = host.online
          /\ host'.invitation = host.invitation /\ host'.participant = count.host + 1
          /\ host'.agreement = NoPair /\ host'.record = host.record
      BY <2>1, <2>2, <3>1 DEF Hosts
    <3> QED BY <3>2, <3>3
  <2>4. /\ toHost' \in Seq(Events) /\ HelloOrder(toHost')
        /\ \A t : Sent(toHost', t) \subseteq Sent(toHost, t)
    BY <1>1, <2>1, <2>2, TailHeld DEF Sent, Hellos
  <2>5. hostDisk = NoHostRecord /\ host.record = NoHostRecord /\ hostDisk.state = "none"
    BY <1>1, <2>1 DEF Records, Shaped
  <2>6. TypeOK'
    BY <2>1, <2>3, <2>4 DEF TypeOK
  <2>7. Numbering'
    <3>1. hostDisk.pair[1] <= count.host /\ hostDisk.pair[1] \in Nat
      BY <2>2, HostRecordFields, PairFields DEF Numbering
    <3> QED BY <1>1, <2>1, <2>2, <2>3, <3>1 DEF Numbering
  <2>8. Records'
    BY <1>1, <2>1, <2>3, <2>5 DEF Records
  <2>9. Modes'
    BY <1>1, <2>1, <2>3 DEF Modes
  <2>10. Hellos'
    BY <2>1, <2>3, <2>4 DEF Hellos
  <2>11. Confirmations'
    <3>1. \A m \in Sent(toHost, "confirmation") \cup Sent(toViewer, "confirmation") :
            m.pair[1] \in 1..count.host => /\ m.pair[1] \in 1..(count.host + 1)
                                           /\ m.pair[1] # count.host + 1 /\ m.pair # NoPair
      BY <2>2, PairFields
    <3>2. \A m \in Sent(toHost', "confirmation") \cup Sent(toViewer, "confirmation") :
            /\ m.pair[1] \in 1..(count.host + 1) /\ m.pair[2] \in 1..count.viewer
            /\ m.pair[1] # count.host + 1 /\ m.pair # NoPair
      BY <2>4, <3>1 DEF Confirmations
    <3> QED BY <2>1, <2>3, <2>4, <3>2 DEF Confirmations
  <2>12. ToHost'
    BY <2>1, <2>3, <2>4 DEF ToHost, Kept
  <2>13. ToViewer'
    <3>1. \A m \in Sent(toViewer, "proposal") \cup Sent(toViewer, "completion") :
            m.pair[1] \in 1..(count.host + 1) /\ m.pair[1] < count.host + 1
      BY <2>2 DEF ToViewer
    <3> QED BY <2>1, <2>3, <3>1 DEF ToViewer
  <2>14. HostRecordHasPeer' /\ CommitOrder' /\ SequencesFresh'
    BY <2>1, <2>5 DEF HostRecordHasPeer, CommitOrder, SequencesFresh, Kept, NoHostRecord
  <2>15. RecordsAdvanceStep
    <3>1. HostRank(hostDisk) \in 0..5 /\ ViewerRank(viewerDisk) \in 0..3 /\ hostDisk.highest \in Nat
      BY <2>2, HostPhases, ViewerPhases, HostRecordFields
    <3> QED BY <2>1, <2>2, <3>1 DEF RecordsAdvanceStep
  <2> QED BY <2>6, <2>7, <2>8, <2>9, <2>10, <2>11, <2>12, <2>13, <2>14, <2>15
<1> QED BY <1>2, <1>3

\* The host agrees on a pair with the viewer whose hello it handles.
LEMMA BootstrapHelloKeeps ==
  ASSUME IInv, BootstrapHello
  PROVE  IInv' /\ RecordsAdvanceStep
<1> USE DEF IInv
<1> DEFINE n == Head(toHost).number
           p == <<host.participant, n>>
           h == [host EXCEPT !.agreement = p]
           m == Authenticated("confirmation", p)
<1>1. /\ host.mode = "bootstrap" /\ toHost # <<>> /\ n \in Nat /\ Head(toHost).type = "hello"
      /\ Head(toHost) \in Sent(toHost, "hello")
  BY HostHandlesEvent, EventTypes DEF BootstrapHello
<1>2. /\ host \in Hosts /\ count \in Counts /\ toHost \in Seq(Events) /\ toViewer \in Seq(Events)
      /\ hostDisk \in HostRecords /\ viewerDisk \in ViewerRecords /\ host.record \in HostRecords
      /\ count.host \in Nat /\ count.viewer \in Nat /\ host.participant \in Nat
      /\ host.agreement \in Pairs /\ viewer.participant \in Nat
  BY Typed DEF TypeOK
<1>3. CASE HostThrows
  BY <1>3, HostThrowsEnds, HostEndsKeeps, HostGoesOnKeeps
<1>4. CASE ExpectsHello /\ HostDoes(<<>>, h, <<m>>)
  <2>1. host.agreement = NoPair /\ host.record.state = "none" /\ hostDisk = NoHostRecord
        /\ host.record = hostDisk
    BY <1>1, <1>4 DEF ExpectsHello, Records, Shaped
  <2>2. p \in Pairs /\ p[1] = host.participant /\ p[2] = n /\ n \in 1..count.viewer
        /\ host.participant \in 1..count.host /\ p # NoPair
    <3>1. n \in 1..count.viewer
      BY <1>1 DEF Hellos
    <3>2. host.participant \in 1..count.host
      <4>1. 1 <= host.invitation /\ host.invitation <= host.participant /\ host.participant <= count.host
            /\ host.invitation \in Nat
        BY <1>1, Typed DEF Numbering
      <4> QED BY <1>2, <4>1
    <3>3. p \in Pairs /\ p[1] = host.participant /\ p[2] = n
      BY <1>1, <1>2, PairFields
    <3> HIDE DEF p, n
    <3> QED BY <3>1, <3>2, <3>3, PairFields
  <2>3. /\ h \in Hosts /\ h.mode = host.mode /\ h.online = host.online
        /\ h.invitation = host.invitation /\ h.participant = host.participant
        /\ h.agreement = p /\ h.record = host.record
    BY <1>2, <2>2 DEF Hosts
  <2>4. m \in Events /\ m.type = "confirmation" /\ m.pair = p
    BY SMTT(30), <2>2, EventTypes
  <2>5. Saved(hostDisk, <<>>, 0) = hostDisk /\ Len(<<>>) = 0 /\ <<m>> # <<>> /\ Head(<<m>>) = m
    BY DEF Saved
  <2> HIDE DEF p, h, m, n
  <2>6. ASSUME hostDisk' = hostDisk, host' = HostAfterError(h.record, hostDisk'), toHost' = <<>>,
               toViewer' = toViewer, UNCHANGED count \/ count' = OneFault,
               UNCHANGED <<viewerDisk, viewer, link, forgotten>>
        PROVE  IInv' /\ RecordsAdvanceStep
    <3> DEFINE e == HostAfterError(host.record, hostDisk)
    <3>1. /\ e \in Hosts /\ e.mode \in {"down", "retrying"} /\ ~e.online /\ e.agreement = NoPair
          /\ e.mode = "down" => e = HostDown
          /\ e.mode = "retrying" => Works(e.record, hostDisk)
      BY <1>1, <1>2, AfterError
    <3>2. host' = e
      BY <2>3, <2>6
    <3> HIDE DEF e
    <3>3. HostStores(hostDisk)
      BY StoresSame
    <3>4. HostEnds(hostDisk)
      BY <2>6, <3>1, <3>2, <3>3, Faults DEF HostEnds, HostSide, HostSends
    <3> QED BY <3>4, HostEndsKeeps
  <2>7. CASE HostSendFails(<<>>, h, <<m>>)
    BY <1>4, <2>5, <2>6, <2>7 DEF HostSendFails, HostDoes
  <2>8. ~HostMarkFails(<<>>, h, <<m>>)
    BY <2>4, <2>5 DEF HostMarkFails
  <2>9. CASE HostCompletes(<<>>, h, <<m>>)
    <3>1. /\ hostDisk' = hostDisk /\ host' = h /\ toHost' = Tail(toHost) /\ count' = count
          /\ viewerDisk' = viewerDisk /\ viewer' = viewer /\ link' = link /\ forgotten' = forgotten
          /\ toViewer' = ForViewer(<<m>>) /\ HostCanSend
      BY <1>4, <2>5, <2>9 DEF HostCompletes, HostDoes
    <3>2. \/ toViewer' = toViewer
          \/ viewer.online /\ toViewer' = Append(toViewer, m)
      BY <1>2, <2>4, <3>1, AppendHeld DEF ForViewer
    <3>3. /\ toViewer' \in Seq(Events)
          /\ Sent(toViewer', "confirmation") \subseteq Sent(toViewer, "confirmation") \cup {m}
          /\ Sent(toViewer', "proposal") = Sent(toViewer, "proposal")
          /\ Sent(toViewer', "completion") = Sent(toViewer, "completion")
          /\ CommitOrdered(toViewer) => CommitOrdered(toViewer')
      BY ZenonT(60), <1>2, <2>4, <3>2, AppendHeld DEF Sent
    <3>4. /\ toHost' \in Seq(Events) /\ HelloOrder(toHost')
          /\ \A t : Sent(toHost', t) \subseteq Sent(toHost, t)
      BY <1>1, <1>2, <3>1, TailHeld DEF Sent, Hellos
    <3>5. \A q \in Sent(toHost, "confirmation") \cup Sent(toViewer, "confirmation") :
            q.pair[1] # host.participant
      <4> SUFFICES ASSUME NEW q \in Sent(toHost, "confirmation") \cup Sent(toViewer, "confirmation"),
                          q.pair[1] = host.participant
                   PROVE  FALSE
        OBVIOUS
      <4>1. q.pair = NoPair /\ q.pair[1] \in 1..count.host
        BY <1>1, <2>1 DEF Confirmations
      <4> QED BY <4>1, PairFields
    <3>6. viewer.mode = "bootstrap" /\ n = viewer.participant =>
            viewer.helloSent /\ Sent(toHost', "hello") = {}
      <4> SUFFICES ASSUME viewer.mode = "bootstrap", n = viewer.participant
                   PROVE  viewer.helloSent /\ Sent(toHost', "hello") = {}
        OBVIOUS
      <4>1. viewer.helloSent
        BY <1>1 DEF Hellos, n
      <4>2. n = count.viewer
        BY DEF Numbering
      <4>3. \A q \in Sent(toHost', "hello") : n < q.number /\ q.number \in 1..count.viewer
        BY <1>1, <1>2, <3>1, <3>4, TailOrder DEF Sent, Hellos, n
      <4>4. Sent(toHost', "hello") = {}
        BY <1>2, <4>2, <4>3
      <4> QED BY <4>1, <4>4
    <3>7. viewer.mode = "bootstrap" => \A q \in Sent(toViewer, "confirmation") :
            q.pair[2] # viewer.participant
      BY <1>1 DEF Confirmations
    <3>8. TypeOK'
      BY <2>3, <3>1, <3>3, <3>4 DEF TypeOK
    <3>9. Numbering'
      BY <1>1, <2>2, <2>3, <3>1 DEF Numbering
    <3>10. Records'
      BY <1>1, <2>1, <2>3, <3>1 DEF Records, NoHostRecord
    <3>11. Modes'
      BY <1>1, <2>3, <3>1, <3>2 DEF Modes
    <3>12. Hellos'
      BY <3>1, <3>4 DEF Hellos
    <3>13. Confirmations'
      <4>1. hostDisk.pair = NoPair
        BY <2>1 DEF NoHostRecord
      <4>2. \A q \in Sent(toHost', "confirmation") \cup Sent(toViewer', "confirmation") :
              /\ q.pair[1] \in 1..count.host /\ q.pair[2] \in 1..count.viewer
              /\ q.pair[1] = host.participant => p = q.pair
        BY <2>2, <2>4, <3>3, <3>4, <3>5 DEF Confirmations
      <4>3. \A q \in Sent(toViewer', "confirmation") :
              viewer.mode = "bootstrap" /\ q.pair[2] = viewer.participant =>
                /\ viewer.helloSent /\ Sent(toHost', "hello") = {} /\ p = q.pair
        BY <2>2, <2>4, <3>3, <3>6, <3>7
      <4>4. \A q \in Sent(toHost', "confirmation") :
              /\ p # q.pair
              /\ viewer.mode = "bootstrap" /\ q.pair[2] = viewer.participant => viewer.bound
        BY <2>2, <3>4, <3>5 DEF Confirmations
      <4>5. host'.agreement = p /\ host'.mode = host.mode /\ host'.participant = host.participant
        BY <2>3, <3>1
      <4> QED BY <3>1, <4>1, <4>2, <4>3, <4>4, <4>5 DEF Confirmations
    <3>14. ToHost'
      BY <2>3, <3>1, <3>4 DEF ToHost, Kept
    <3>15. ToViewer'
      BY <2>3, <3>1, <3>3 DEF ToViewer
    <3>16. HostRecordHasPeer' /\ CommitOrder' /\ SequencesFresh'
      BY <2>1, <3>1 DEF HostRecordHasPeer, CommitOrder, SequencesFresh, Kept, NoHostRecord
    <3>17. RecordsAdvanceStep
      <4>1. HostRank(hostDisk) \in 0..5 /\ ViewerRank(viewerDisk) \in 0..3 /\ hostDisk.highest \in Nat
            /\ viewerDisk.next \in Nat
        BY <1>2, HostPhases, ViewerPhases, HostRecordFields, ViewerRecordFields
      <4> QED BY <3>1, <4>1 DEF RecordsAdvanceStep
    <3> QED BY <3>8, <3>9, <3>10, <3>11, <3>12, <3>13, <3>14, <3>15, <3>16, <3>17
  <2>10. \A k \in 1..Len(<<>>) : FALSE
    BY <2>5
  <2> QED BY <1>4, <2>7, <2>8, <2>9, <2>10 DEF HostDoes
<1> QED BY <1>3, <1>4 DEF BootstrapHello

----------------------------------------------------------------------------
(* Steps of the channel                                                     *)

\* The messages the invariant is about; the others only notify.
Significant ==
  {"hello", "confirmation", "request", "acknowledgement", "activation", "proposal", "completion"}

\* A step that stores and says nothing: ends connect, lose each other or are told so.
ChannelStep ==
  /\ UNCHANGED <<hostDisk, viewerDisk, forgotten>>
  /\ count' \in Counts /\ count'.host = count.host /\ count'.viewer = count.viewer
  /\ link' \in Nat /\ host' \in Hosts /\ viewer' \in Viewers
  /\ toHost' \in Seq(Events) /\ toViewer' \in Seq(Events)
  /\ host'.record = host.record /\ host'.invitation = host.invitation
  /\ host'.participant = host.participant /\ host'.agreement = host.agreement
  /\ host'.mode = host.mode \/ (host.mode = "retrying" /\ host'.mode = "availability")
  /\ host.mode = "down" => host' = host
  /\ viewer'.mode = "bootstrap" =>
       /\ viewer.mode = "bootstrap" /\ viewer'.participant = viewer.participant
       /\ viewer'.helloSent = viewer.helloSent /\ viewer'.bound = viewer.bound
       /\ viewer'.online /\ host'.online /\ link' # 0 => viewer.online /\ host.online /\ link # 0
  /\ viewer'.agreement # NoPair =>
       viewer'.agreement = viewer.agreement /\ viewer'.mode = "bootstrap"
  /\ \A t \in Significant :
       Sent(toHost', t) \subseteq Sent(toHost, t) /\ Sent(toViewer', t) \subseteq Sent(toViewer, t)
  /\ HelloOrder(toHost')
  /\ viewer'.mode = "availability" =>
       \/ viewer.mode = "availability" /\ (CommitOrdered(toViewer) => CommitOrdered(toViewer'))
       \/ CommitOrdered(toViewer') /\ \A t \in Significant : Sent(toViewer', t) = {}
  /\ Modes'

\* What is stored stays as it is.
LEMMA StoredSame ==
  ASSUME TypeOK, hostDisk' = hostDisk, viewerDisk' = viewerDisk
  PROVE  RecordsAdvanceStep
<1>1. HostRank(hostDisk) \in 0..5 /\ ViewerRank(viewerDisk) \in 0..3 /\ hostDisk.highest \in Nat
      /\ viewerDisk.next \in Nat
  BY Typed, HostPhases, ViewerPhases, HostRecordFields, ViewerRecordFields
<1> QED BY <1>1 DEF RecordsAdvanceStep

\* The channel keeps the invariant.
LEMMA ChannelKeeps ==
  ASSUME IInv, ChannelStep
  PROVE  IInv' /\ RecordsAdvanceStep
<1> USE DEF IInv
<1>1. /\ hostDisk' = hostDisk /\ viewerDisk' = viewerDisk /\ forgotten' = forgotten
      /\ count' \in Counts /\ count'.host = count.host /\ count'.viewer = count.viewer
      /\ host'.record = host.record /\ host'.invitation = host.invitation
      /\ host'.participant = host.participant /\ host'.agreement = host.agreement
      /\ host'.mode = host.mode \/ (host.mode = "retrying" /\ host'.mode = "availability")
      /\ toHost \in Seq(Events) /\ toHost' \in Seq(Events) /\ Modes' /\ HelloOrder(toHost')
  BY Typed DEF ChannelStep
<1>2. /\ viewer'.mode = "bootstrap" =>
           /\ viewer.mode = "bootstrap" /\ viewer'.participant = viewer.participant
           /\ viewer'.helloSent = viewer.helloSent /\ viewer'.bound = viewer.bound
           /\ viewer'.online /\ host'.online /\ link' # 0 => viewer.online /\ host.online /\ link # 0
      /\ viewer'.agreement # NoPair =>
           viewer'.agreement = viewer.agreement /\ viewer'.mode = "bootstrap"
  BY DEF ChannelStep
<1>3. \A t \in Significant :
        Sent(toHost', t) \subseteq Sent(toHost, t) /\ Sent(toViewer', t) \subseteq Sent(toViewer, t)
  BY DEF ChannelStep
<1>4. /\ Sent(toHost', "hello") \subseteq Sent(toHost, "hello")
      /\ Sent(toHost', "confirmation") \subseteq Sent(toHost, "confirmation")
      /\ Sent(toHost', "request") \subseteq Sent(toHost, "request")
      /\ Sent(toHost', "acknowledgement") \subseteq Sent(toHost, "acknowledgement")
      /\ Sent(toHost', "activation") \subseteq Sent(toHost, "activation")
      /\ Sent(toViewer', "confirmation") \subseteq Sent(toViewer, "confirmation")
      /\ Sent(toViewer', "proposal") \subseteq Sent(toViewer, "proposal")
      /\ Sent(toViewer', "completion") \subseteq Sent(toViewer, "completion")
  BY <1>3 DEF Significant
<1>5. TypeOK'
  BY <1>1 DEF TypeOK, ChannelStep
<1>6. Numbering'
  BY <1>1, <1>2 DEF Numbering
<1>7. Records'
  <2>1. host.mode = "down" => host' = HostDown
    <3> SUFFICES ASSUME host.mode = "down" PROVE host' = HostDown
      OBVIOUS
    <3> QED BY DEF Records, ChannelStep
  <2> QED BY <1>1, <2>1 DEF Records
<1>8. Hellos'
  BY <1>1, <1>2, <1>4 DEF Hellos
<1>9. Confirmations'
  <2>1. host'.mode = "bootstrap" => host.mode = "bootstrap"
    BY <1>1
  <2> QED BY <1>1, <1>2, <1>4, <2>1 DEF Confirmations
<1>10. ToHost'
  BY <1>1, <1>4 DEF ToHost, Kept
<1>11. ToViewer'
  <2>1. viewer'.mode = "availability" =>
          \/ viewer.mode = "availability" /\ CommitOrdered(toViewer')
          \/ CommitOrdered(toViewer') /\ Sent(toViewer', "proposal") = {} /\ Sent(toViewer', "completion") = {}
    <3>1. viewer'.mode = "availability" =>
            \/ viewer.mode = "availability" /\ (CommitOrdered(toViewer) => CommitOrdered(toViewer'))
            \/ CommitOrdered(toViewer') /\ \A t \in Significant : Sent(toViewer', t) = {}
      BY DEF ChannelStep
    <3> QED BY <3>1 DEF ToViewer, Significant
  <2>2. host'.mode = "bootstrap" => host.mode = "bootstrap"
    BY <1>1
  <2> QED BY <1>1, <1>2, <1>4, <2>1, <2>2 DEF ToViewer
<1>12. HostRecordHasPeer' /\ CommitOrder'
  BY <1>1 DEF HostRecordHasPeer, CommitOrder, Kept
<1>13. SequencesFresh'
  BY <1>1, <1>4, ByPosition DEF SequencesFresh, Kept
<1> QED BY <1>1, <1>5, <1>6, <1>7, <1>8, <1>9, <1>10, <1>11, <1>12, <1>13, StoredSame

\* A notice at the end of a queue changes nothing that matters.
LEMMA NoticeAppended ==
  ASSUME NEW q \in Seq(Events), NEW m \in Events, m.type \in {"ready", "left", "closed"}
  PROVE  /\ Append(q, m) \in Seq(Events) /\ q \o <<m>> = Append(q, m)
         /\ \A t \in Significant : Sent(Append(q, m), t) = Sent(q, t)
         /\ HelloOrder(q) => HelloOrder(Append(q, m))
         /\ CommitOrdered(q) => CommitOrdered(Append(q, m))
<1>1. /\ Append(q, m) \in Seq(Events) /\ q \o <<m>> = Append(q, m)
      /\ Held(Append(q, m)) = Held(q) \cup {m}
      /\ HelloOrder(q) => HelloOrder(Append(q, m))
      /\ CommitOrdered(q) => CommitOrdered(Append(q, m))
  BY AppendHeld
<1>2. m.type \notin Significant
  BY DEF Significant
<1> QED BY <1>1, <1>2 DEF Sent

\* A queue that holds one notice at most.
LEMMA NoticeOnly ==
  ASSUME NEW m \in Events, m.type \in {"ready", "left", "closed"}
  PROVE  \A q \in {<<>>, <<m>>} :
           /\ q \in Seq(Events) /\ HelloOrder(q) /\ CommitOrdered(q)
           /\ \A t \in Significant : Sent(q, t) = {}
<1>1. m.type \notin Significant
  BY DEF Significant
<1> QED BY <1>1, OneHeld, EmptyHeld DEF Sent

\* The notices of the channel.
LEMMA Notices ==
  /\ \A n \in Nat : Numbered("left", n) \in Events /\ Numbered("left", n).type = "left"
  /\ \A n \in Nat : Numbered("ready", n) \in Events /\ Numbered("ready", n).type = "ready"
  /\ Closed \in Events /\ Closed.type = "closed"
  BY EventTypes DEF Closed

\* The server tells the ends that the other is gone.
LEMMA ServerNoticesSteps ==
  ASSUME IInv, ServerNotices
  PROVE  ChannelStep
<1> USE DEF IInv
<1> DEFINE m == Numbered("left", link)
<1>1. /\ link' = 0 /\ toHost' = ForHost(<<m>>) /\ toViewer' = ForViewer(<<m>>)
      /\ hostDisk' = hostDisk /\ host' = host /\ viewerDisk' = viewerDisk /\ viewer' = viewer
      /\ count' = count /\ forgotten' = forgotten
  BY DEF ServerNotices
<1>2. /\ toHost \in Seq(Events) /\ toViewer \in Seq(Events) /\ m \in Events /\ m.type = "left"
      /\ host \in Hosts /\ viewer \in Viewers /\ count \in Counts
  BY Typed, Notices DEF TypeOK
<1> HIDE DEF m
<1>3. \/ toHost' = toHost
      \/ host.online /\ toHost' = Append(toHost, m)
  BY <1>1, <1>2, NoticeAppended DEF ForHost
<1>4. \/ toViewer' = toViewer
      \/ viewer.online /\ toViewer' = Append(toViewer, m)
  BY <1>1, <1>2, NoticeAppended DEF ForViewer
<1>5. /\ toHost' \in Seq(Events) /\ toViewer' \in Seq(Events)
      /\ \A t \in Significant :
           Sent(toHost', t) \subseteq Sent(toHost, t) /\ Sent(toViewer', t) \subseteq Sent(toViewer, t)
      /\ HelloOrder(toHost') /\ (CommitOrdered(toViewer) => CommitOrdered(toViewer'))
  BY <1>2, <1>3, <1>4, NoticeAppended DEF Hellos
<1>6. Modes'
  BY <1>1, <1>3, <1>4 DEF Modes
<1>7. viewer.agreement # NoPair => viewer.mode = "bootstrap"
  BY DEF Numbering
<1> QED BY <1>1, <1>2, <1>5, <1>6, <1>7 DEF ChannelStep

\* A connection is lost under either end.
LEMMA ConnectionLostSteps ==
  ASSUME IInv, HostLosesConnection \/ ViewerLosesConnection
  PROVE  ChannelStep
<1> USE DEF IInv
<1>1. /\ toHost \in Seq(Events) /\ toViewer \in Seq(Events) /\ Closed \in Events /\ Closed.type = "closed"
      /\ host \in Hosts /\ viewer \in Viewers /\ link \in Nat
  BY Typed, Notices DEF TypeOK
<1>2. count' = OneFault /\ count' \in Counts /\ count'.host = count.host /\ count'.viewer = count.viewer
  BY Faults DEF HostLosesConnection, ViewerLosesConnection
<1>3. viewer.agreement # NoPair => viewer.mode = "bootstrap"
  BY DEF Numbering
<1>4. CASE HostLosesConnection
  <2>1. /\ host.online /\ host' = [host EXCEPT !.online = FALSE]
        /\ toHost' = Append(toHost, Closed)
        /\ hostDisk' = hostDisk /\ viewerDisk' = viewerDisk /\ viewer' = viewer
        /\ link' = link /\ toViewer' = toViewer /\ forgotten' = forgotten
    BY <1>4 DEF HostLosesConnection
  <2>2. /\ host' \in Hosts /\ ~host'.online /\ host'.mode = host.mode /\ host'.record = host.record
        /\ host'.invitation = host.invitation /\ host'.participant = host.participant
        /\ host'.agreement = host.agreement
    BY <1>1, <2>1 DEF Hosts
  <2>3. Modes' /\ host.mode # "down"
    BY <2>1, <2>2 DEF Modes
  <2>4. /\ toHost' \in Seq(Events) /\ \A t \in Significant : Sent(toHost', t) = Sent(toHost, t)
        /\ HelloOrder(toHost')
    BY <1>1, <2>1, NoticeAppended DEF Hellos
  <2> QED BY <1>1, <1>2, <1>3, <2>1, <2>2, <2>3, <2>4 DEF ChannelStep
<1>5. CASE ViewerLosesConnection
  <2>1. /\ viewer.online /\ viewer' = [viewer EXCEPT !.online = FALSE]
        /\ toViewer' = Append(toViewer, Closed)
        /\ hostDisk' = hostDisk /\ viewerDisk' = viewerDisk /\ host' = host
        /\ link' = link /\ toHost' = toHost /\ forgotten' = forgotten
    BY <1>5 DEF ViewerLosesConnection
  <2>2. /\ viewer' \in Viewers /\ ~viewer'.online /\ viewer'.mode = viewer.mode
        /\ viewer'.participant = viewer.participant /\ viewer'.helloSent = viewer.helloSent
        /\ viewer'.bound = viewer.bound /\ viewer'.agreement = viewer.agreement
        /\ viewer'.starting = viewer.starting
    BY <1>1, <2>1 DEF Viewers
  <2>3. Modes'
    BY <2>1, <2>2 DEF Modes
  <2>4. /\ toViewer' \in Seq(Events) /\ \A t \in Significant : Sent(toViewer', t) = Sent(toViewer, t)
        /\ HelloOrder(toHost) /\ (CommitOrdered(toViewer) => CommitOrdered(toViewer'))
    BY <1>1, <2>1, NoticeAppended DEF Hellos
  <2> QED BY <1>1, <1>2, <1>3, <2>1, <2>2, <2>3, <2>4 DEF ChannelStep
<1> QED BY <1>4, <1>5

\* The host registers on its availability channel.
LEMMA HostConnectsSteps ==
  ASSUME IInv, HostConnects
  PROVE  ChannelStep
<1> USE DEF IInv
<1>1. /\ host.mode = "retrying" /\ host' = [host EXCEPT !.mode = "availability", !.online = TRUE]
      /\ hostDisk' = hostDisk /\ viewerDisk' = viewerDisk /\ viewer' = viewer /\ forgotten' = forgotten
  BY DEF HostConnects
<1>2. /\ toHost \in Seq(Events) /\ toViewer \in Seq(Events)
      /\ host \in Hosts /\ viewer \in Viewers /\ link \in Nat /\ count \in Counts
      /\ count.exchange \in Nat
  BY Typed DEF TypeOK
<1>3. /\ host' \in Hosts /\ host'.online /\ host'.mode = "availability" /\ host'.record = host.record
      /\ host'.invitation = host.invitation /\ host'.participant = host.participant
      /\ host'.agreement = host.agreement
  BY <1>1, <1>2 DEF Hosts
<1>4. viewer.agreement # NoPair => viewer.mode = "bootstrap"
  BY DEF Numbering
<1>5. CASE viewer.mode = "availability" /\ viewer.online /\ SamePair
  <2> DEFINE m == Numbered("ready", link')
  <2>1. /\ link' = count.exchange + 1 /\ toHost' = <<m>> /\ toViewer' = Append(toViewer, m)
        /\ count' = [count EXCEPT !.exchange = @ + 1]
    BY <1>5 DEF HostConnects, Pairing
  <2>2. link' \in Nat /\ count' \in Counts /\ count'.host = count.host /\ count'.viewer = count.viewer
    BY <1>2, <2>1 DEF Counts
  <2>3. m \in Events /\ m.type = "ready"
    BY <2>2, Notices
  <2> HIDE DEF m
  <2>4. /\ toHost' \in Seq(Events) /\ HelloOrder(toHost')
        /\ \A t \in Significant : Sent(toHost', t) = {}
    BY <2>1, <2>3, NoticeOnly
  <2>5. /\ toViewer' \in Seq(Events) /\ \A t \in Significant : Sent(toViewer', t) = Sent(toViewer, t)
        /\ CommitOrdered(toViewer) => CommitOrdered(toViewer')
    BY <1>2, <2>1, <2>3, NoticeAppended
  <2>6. Modes'
    BY <1>1, <1>3, <1>5 DEF Modes, SamePair
  <2> QED BY <1>1, <1>2, <1>3, <1>4, <1>5, <2>2, <2>4, <2>5, <2>6 DEF ChannelStep
<1>6. CASE ~(viewer.mode = "availability" /\ viewer.online /\ SamePair)
  <2> DEFINE m == Numbered("left", link)
  <2>1. /\ link' = 0 /\ toHost' = <<>> /\ count' = count
        /\ toViewer' = IF link = 0 THEN toViewer ELSE ForViewer(<<m>>)
    BY <1>6 DEF HostConnects
  <2>2. m \in Events /\ m.type = "left"
    BY <1>2, Notices
  <2> HIDE DEF m
  <2>3. toViewer' = toViewer \/ (viewer.online /\ toViewer' = Append(toViewer, m))
    BY <1>2, <2>1, <2>2, NoticeAppended DEF ForViewer
  <2>4. /\ toHost' \in Seq(Events) /\ HelloOrder(toHost')
        /\ \A t \in Significant : Sent(toHost', t) = {}
    BY <2>1, <2>2, NoticeOnly
  <2>5. /\ toViewer' \in Seq(Events) /\ \A t \in Significant : Sent(toViewer', t) = Sent(toViewer, t)
        /\ CommitOrdered(toViewer) => CommitOrdered(toViewer')
    BY <1>2, <2>2, <2>3, NoticeAppended
  <2>6. Modes'
    BY <1>1, <1>3, <2>1, <2>3 DEF Modes
  <2> QED BY <1>1, <1>2, <1>3, <1>4, <2>1, <2>4, <2>5, <2>6 DEF ChannelStep
<1> QED BY <1>5, <1>6

\* A viewer with a record joins its availability channel, resets it or is refused.
LEMMA ViewerJoinsAvailabilitySteps ==
  ASSUME IInv, ViewerJoinsAvailability \/ ViewerForcesReset \/ ViewerRefused
  PROVE  ChannelStep
<1> USE DEF IInv
<1>1. /\ viewer.mode = "idle" /\ viewerDisk.state # "none" /\ toViewer = <<>>
      /\ hostDisk' = hostDisk /\ viewerDisk' = viewerDisk /\ forgotten' = forgotten
  BY DEF ViewerJoinsAvailability, ViewerForcesReset, ViewerRefused, Modes
<1>2. /\ toHost \in Seq(Events) /\ toViewer \in Seq(Events)
      /\ host \in Hosts /\ viewer \in Viewers /\ link \in Nat /\ count \in Counts
      /\ count.exchange \in Nat
  BY Typed DEF TypeOK
<1>3. CASE ViewerJoinsAvailability
  <2>1. /\ viewer' = [ViewerIdle EXCEPT !.mode = "availability", !.online = TRUE,
                        !.error = IF viewer.error = "transient" THEN "transient" ELSE "none"]
        /\ host' = host
    BY <1>3 DEF ViewerJoinsAvailability
  <2>2. /\ viewer' \in Viewers /\ viewer'.mode = "availability" /\ viewer'.online
        /\ viewer'.agreement = NoPair /\ ~viewer'.starting
    BY <2>1, PairFields DEF ViewerIdle, Viewers
  <2> DEFINE m == Numbered("ready", link')
  <2>3. /\ link' = count.exchange + 1 /\ toHost' = Append(toHost, m) /\ toViewer' = <<m>>
        /\ count' = [count EXCEPT !.exchange = @ + 1] /\ HostAvailable
    BY <1>3 DEF ViewerJoinsAvailability, Pairing
  <2>4. link' \in Nat /\ count' \in Counts /\ count'.host = count.host /\ count'.viewer = count.viewer
    BY <1>2, <2>3 DEF Counts
  <2>5. m \in Events /\ m.type = "ready"
    BY <2>4, Notices
  <2> HIDE DEF m
  <2>6. /\ toViewer' \in Seq(Events) /\ CommitOrdered(toViewer')
        /\ \A t \in Significant : Sent(toViewer', t) = {}
    BY <2>3, <2>5, NoticeOnly
  <2>7. /\ toHost' \in Seq(Events) /\ \A t \in Significant : Sent(toHost', t) = Sent(toHost, t)
        /\ HelloOrder(toHost')
    BY <1>2, <2>3, <2>5, NoticeAppended DEF Hellos
  <2>8. Modes'
    <3>1. host.mode = "availability" /\ host.record.pair = viewerDisk.pair
      BY <2>3 DEF HostAvailable, SamePair
    <3> QED BY <1>1, <2>1, <2>2, <3>1 DEF Modes
  <2> QED BY <1>1, <1>2, <2>1, <2>2, <2>4, <2>6, <2>7, <2>8 DEF ChannelStep
<1>4. CASE ViewerForcesReset
  <2>1. /\ host' = [host EXCEPT !.online = FALSE] /\ toHost' = Append(toHost, Closed) /\ link' = 0
        /\ viewer' = [ViewerIdle EXCEPT !.error = "transient"]
        /\ toViewer' = toViewer /\ count' = count /\ host.mode = "availability"
    BY <1>4 DEF ViewerForcesReset, HostAvailable
  <2>2. /\ host' \in Hosts /\ ~host'.online /\ host'.mode = host.mode /\ host'.record = host.record
        /\ host'.invitation = host.invitation /\ host'.participant = host.participant
        /\ host'.agreement = host.agreement
    BY <1>2, <2>1 DEF Hosts
  <2>3. /\ viewer' \in Viewers /\ viewer'.mode = "idle" /\ ~viewer'.online
        /\ viewer'.agreement = NoPair /\ ~viewer'.starting
    BY <2>1, PairFields DEF ViewerIdle, Viewers
  <2>4. /\ toHost' \in Seq(Events) /\ \A t \in Significant : Sent(toHost', t) = Sent(toHost, t)
        /\ HelloOrder(toHost')
    BY <1>2, <2>1, Notices, NoticeAppended DEF Hellos
  <2>5. Modes'
    BY <1>1, <2>1, <2>2, <2>3 DEF Modes
  <2> QED BY <1>1, <1>2, <2>1, <2>2, <2>3, <2>4, <2>5 DEF ChannelStep
<1>5. CASE ViewerRefused
  <2>1. /\ viewer' = [ViewerIdle EXCEPT !.error = "transient"]
        /\ UNCHANGED <<host, link, toHost, toViewer, count>>
    BY <1>5 DEF ViewerRefused
  <2>2. /\ viewer' \in Viewers /\ viewer'.mode = "idle" /\ ~viewer'.online
        /\ viewer'.agreement = NoPair /\ ~viewer'.starting
    BY <2>1, PairFields DEF ViewerIdle, Viewers
  <2>3. Modes'
    BY <1>1, <2>1, <2>2 DEF Modes
  <2> QED BY <1>1, <1>2, <2>1, <2>2, <2>3 DEF ChannelStep, Hellos
<1> QED BY <1>3, <1>4, <1>5

----------------------------------------------------------------------------
(* Starting a process, joining an invitation, revoking a pair               *)

\* A host starts: with its record, or with a fresh invitation.
LEMMA HostStartsKeeps ==
  ASSUME IInv, NEW reset \in BOOLEAN, HostStarts(reset)
  PROVE  IInv' /\ RecordsAdvanceStep
<1> USE DEF IInv
<1> DEFINE disk == IF reset THEN NoHostRecord ELSE hostDisk
<1>1. /\ hostDisk' = disk /\ viewerDisk' = viewerDisk /\ viewer' = viewer /\ toHost' = toHost
      /\ forgotten' = forgotten /\ (reset => hostDisk.state # "none")
      /\ host = HostDown /\ toHost = <<>> /\ host.mode = "down"
  BY DEF HostStarts, Records, Modes
<1>2. /\ toViewer \in Seq(Events) /\ link \in Nat /\ count \in Counts /\ count.host \in Nat
      /\ count.viewer \in Nat /\ count.fault \in Nat
      /\ hostDisk \in HostRecords /\ Shaped(hostDisk)
      /\ viewer \in Viewers /\ viewerDisk \in ViewerRecords
  BY Typed DEF TypeOK, Records
<1>3. HostDown \in Hosts /\ NoHostRecord \in HostRecords /\ NoHostRecord.pair = NoPair
      /\ NoHostRecord.state = "none" /\ Shaped(NoHostRecord) /\ HostRank(NoHostRecord) = 0
  BY PairFields DEF HostDown, Hosts, NoHostRecord, HostRecords, Pairs, Shaped, HostRank
<1>4. CASE disk.state # "none"
  <2>1. /\ disk = hostDisk /\ link' = link /\ toViewer' = toViewer /\ count' = count
        /\ host' = [HostDown EXCEPT !.mode = "retrying", !.record = hostDisk]
    BY <1>3, <1>4 DEF HostStarts
  <2>2. /\ host' \in Hosts /\ host'.mode = "retrying" /\ ~host'.online
        /\ host'.agreement = NoPair /\ host'.record = hostDisk
    BY <1>2, <1>3, <2>1 DEF HostDown, Hosts
  <2>3. HostStores(hostDisk)
    BY StoresSame
  <2>4. HostSide(hostDisk)
    BY <1>1, <2>1, <2>2, <2>3, Faults DEF HostSide, HostSends
  <2>5. HostEnds(hostDisk)
    BY <1>1, <1>4, <2>1, <2>2, <2>4 DEF HostEnds, Works
  <2> QED BY <2>5, HostEndsKeeps
<1>5. CASE disk.state = "none"
  <2> DEFINE m == Numbered("left", link)
  <2>1. disk = NoHostRecord
    BY <1>2, <1>5 DEF Shaped
  <2>2. /\ host' = [HostDown EXCEPT !.mode = "bootstrap", !.online = TRUE,
                                    !.invitation = count.host + 1, !.participant = count.host + 1]
        /\ count' = [count EXCEPT !.host = @ + 1, !.fault = IF reset THEN @ + 1 ELSE @]
        /\ link' = 0
        /\ toViewer' = IF link = 0 THEN toViewer ELSE ForViewer(<<m>>)
    BY <1>5 DEF HostStarts
  <2>3. count.host + 1 \in Nat /\ count.fault + 1 \in Nat
    BY <1>2
  <2>4. /\ host' \in Hosts /\ host'.mode = "bootstrap" /\ host'.online
        /\ host'.invitation = count.host + 1 /\ host'.participant = count.host + 1
        /\ host'.agreement = NoPair /\ host'.record = NoHostRecord
    BY ZenonT(60), <1>3, <2>2, <2>3 DEF Hosts, HostDown
  <2>5. count' \in Counts /\ count'.host = count.host + 1 /\ count'.viewer = count.viewer
    BY <1>2, <2>2, <2>3 DEF Counts
  <2>6. m \in Events /\ m.type = "left"
    BY <1>2, Notices
  <2> HIDE DEF m, disk
  <2>7. toViewer' = toViewer \/ (viewer.online /\ toViewer' = Append(toViewer, m))
    BY <1>2, <2>2, <2>6, NoticeAppended DEF ForViewer
  <2>8. /\ toViewer' \in Seq(Events) /\ \A t \in Significant : Sent(toViewer', t) = Sent(toViewer, t)
        /\ CommitOrdered(toViewer) => CommitOrdered(toViewer')
    <3>1. CASE toViewer' = toViewer
      BY <1>2, <3>1
    <3>2. CASE toViewer' = Append(toViewer, m)
      BY <1>2, <2>6, <3>2, NoticeAppended
    <3> QED BY <2>7, <3>1, <3>2
  <2>9. /\ Sent(toViewer', "confirmation") = Sent(toViewer, "confirmation")
        /\ Sent(toViewer', "proposal") = Sent(toViewer, "proposal")
        /\ Sent(toViewer', "completion") = Sent(toViewer, "completion")
    BY <2>8 DEF Significant
  <2>10. \A t : Sent(toHost', t) = {}
    BY <1>1, EmptyHeld DEF Sent
  <2>11. hostDisk' = NoHostRecord
    BY <1>1, <2>1
  <2>12. TypeOK'
    BY <1>1, <1>3, <2>2, <2>4, <2>5, <2>8, <2>11, EmptyHeld DEF TypeOK
  <2>13. Numbering'
    BY <1>1, <1>2, <1>3, <2>3, <2>4, <2>5, <2>11, PairFields DEF Numbering
  <2>14. Records'
    BY <1>1, <1>3, <2>4, <2>11 DEF Records
  <2>15. Modes'
    BY <1>1, <2>2, <2>4, <2>7 DEF Modes
  <2>16. Hellos'
    BY <1>1, <2>10, EmptyHeld DEF Hellos
  <2>17. Confirmations'
    <3>1. \A q \in Sent(toViewer, "confirmation") :
            q.pair[1] \in 1..(count.host + 1) /\ q.pair[1] # count.host + 1
      <4>1. \A q \in Sent(toViewer, "confirmation") : q.pair[1] \in 1..count.host
        BY DEF Confirmations
      <4> QED BY <1>2, <4>1
    <3>2. viewer.mode = "bootstrap" => viewer.participant # 0
      BY Typed, <1>2 DEF Numbering
    <3>3. hostDisk'.pair = NoPair /\ hostDisk'.pair[2] = 0
      BY <1>3, <2>11, PairFields
    <3> QED BY <1>1, <2>4, <2>5, <2>9, <2>10, <3>1, <3>2, <3>3 DEF Confirmations
  <2>18. ToHost'
    BY <2>10 DEF ToHost
  <2>19. ToViewer'
    <3>1. \A q \in Sent(toViewer, "proposal") \cup Sent(toViewer, "completion") :
            q.pair[1] \in 1..(count.host + 1) /\ q.pair[1] < count.host + 1 /\ q.pair # NoPair
      <4>1. \A q \in Sent(toViewer, "proposal") \cup Sent(toViewer, "completion") :
              q.pair[1] \in 1..count.host
        BY DEF ToViewer
      <4> QED BY <1>2, <4>1, PairFields
    <3>2. hostDisk'.pair = NoPair
      BY <1>3, <2>11
    <3> QED BY <1>1, <2>2, <2>4, <2>5, <2>8, <2>9, <3>1, <3>2 DEF ToViewer
  <2>20. HostRecordHasPeer' /\ CommitOrder' /\ SequencesFresh'
    BY <1>3, <2>11 DEF HostRecordHasPeer, CommitOrder, SequencesFresh, Kept
  <2>21. RecordsAdvanceStep
    <3>1. CASE hostDisk.state = "none"
      <4>1. hostDisk' = hostDisk
        BY <1>2, <2>11, <3>1 DEF Shaped
      <4> QED BY <1>1, <4>1, StoredSame
    <3>2. CASE hostDisk.state # "none"
      <4>1. hostDisk'.pair # hostDisk.pair
        BY <1>2, <1>3, <2>11, <3>2, PairFields DEF Shaped
      <4>2. ViewerRank(viewerDisk) \in 0..3 /\ viewerDisk.next \in Nat
        BY <1>2, ViewerPhases, ViewerRecordFields
      <4> QED BY <1>1, <4>1, <4>2 DEF RecordsAdvanceStep
    <3> QED BY <3>1, <3>2
  <2> QED BY <2>12, <2>13, <2>14, <2>15, <2>16, <2>17, <2>18, <2>19, <2>20, <2>21
<1> QED BY <1>4, <1>5

\* A viewer joins the invitation with a participant nobody has seen.
LEMMA ViewerJoinsInvitationKeeps ==
  ASSUME IInv, ViewerJoinsInvitation
  PROVE  IInv' /\ RecordsAdvanceStep
<1> USE DEF IInv
<1> DEFINE n == count.viewer + 1
           m == Numbered("ready", link')
<1>1. /\ viewer.mode = "idle" /\ host.mode = "bootstrap" /\ host.online /\ link = 0
      /\ link' = count.exchange + 1
      /\ viewer' = [ViewerIdle EXCEPT !.mode = "bootstrap", !.online = TRUE, !.participant = n]
      /\ toHost' = Append(toHost, m) /\ toViewer' = <<m>>
      /\ count' = [count EXCEPT !.viewer = @ + 1, !.exchange = @ + 1]
      /\ hostDisk' = hostDisk /\ host' = host /\ viewerDisk' = viewerDisk /\ forgotten' = forgotten
  BY DEF ViewerJoinsInvitation, Pairing
<1>2. /\ toHost \in Seq(Events) /\ toViewer \in Seq(Events) /\ count \in Counts
      /\ count.host \in Nat /\ count.viewer \in Nat /\ count.exchange \in Nat /\ n \in Nat
      /\ hostDisk \in HostRecords /\ viewerDisk \in ViewerRecords /\ host.agreement \in Pairs
      /\ forgotten \subseteq Pairs
  BY Typed DEF TypeOK
<1>3. link' \in Nat /\ m \in Events /\ m.type = "ready"
  BY <1>1, <1>2, Notices
<1>4. /\ viewer' \in Viewers /\ viewer'.mode = "bootstrap" /\ viewer'.online /\ viewer'.participant = n
      /\ viewer'.agreement = NoPair /\ ~viewer'.helloSent /\ ~viewer'.starting /\ ~viewer'.bound
  BY <1>1, <1>2, PairFields DEF ViewerIdle, Viewers
<1>5. count' \in Counts /\ count'.host = count.host /\ count'.viewer = n
  <2>1. count.exchange + 1 \in Nat /\ count.viewer + 1 \in Nat
    BY <1>2
  <2>2. count' = [count EXCEPT !.viewer = @ + 1, !.exchange = @ + 1]
    BY <1>1
  <2> QED BY <1>2, <2>1, <2>2 DEF Counts
<1> HIDE DEF m
<1>6. /\ toHost' \in Seq(Events) /\ HelloOrder(toHost')
      /\ \A t \in Significant : Sent(toHost', t) = Sent(toHost, t)
  BY <1>1, <1>2, <1>3, NoticeAppended DEF Hellos
<1>7. /\ toViewer' \in Seq(Events) /\ \A t \in Significant : Sent(toViewer', t) = {}
  BY <1>1, <1>3, NoticeOnly
<1>8. /\ Sent(toHost', "hello") = Sent(toHost, "hello")
      /\ Sent(toHost', "confirmation") = Sent(toHost, "confirmation")
      /\ Sent(toHost', "request") = Sent(toHost, "request")
      /\ Sent(toHost', "acknowledgement") = Sent(toHost, "acknowledgement")
      /\ Sent(toHost', "activation") = Sent(toHost, "activation")
      /\ Sent(toViewer', "confirmation") = {} /\ Sent(toViewer', "proposal") = {}
      /\ Sent(toViewer', "completion") = {}
  BY <1>6, <1>7 DEF Significant
<1>9. \A i \in Nat : i <= count.viewer => i <= n /\ i # n
  BY <1>2
<1>10. \A i \in 1..count.viewer : i \in 1..n /\ i # n
  BY <1>2
<1>11. n >= 1
  BY <1>2
<1>12. hostDisk.pair[2] \in Nat /\ viewerDisk.pair[2] \in Nat
  BY <1>2, HostRecordFields, ViewerRecordFields, PairFields
<1> HIDE DEF n
<1>13. TypeOK'
  BY <1>1, <1>3, <1>4, <1>5, <1>6, <1>7 DEF TypeOK
<1>14. Numbering'
  BY <1>1, <1>4, <1>5, <1>9, <1>10, <1>11, <1>12 DEF Numbering
<1>15. Records'
  BY <1>1 DEF Records
<1>16. Modes'
  BY <1>1, <1>4 DEF Modes
<1>17. Hellos'
  BY <1>4, <1>5, <1>6, <1>8, <1>10 DEF Hellos
<1>18. Confirmations'
  <2>1. n \notin {hostDisk.pair[2], viewerDisk.pair[2]}
    BY <1>9, <1>12 DEF Numbering
  <2>2. \A q \in Sent(toHost, "confirmation") : q.pair[2] \in 1..n /\ q.pair[2] # n
    BY <1>10 DEF Confirmations
  <2> QED BY <1>1, <1>4, <1>5, <1>8, <2>1, <2>2 DEF Confirmations
<1>19. ToHost'
  BY <1>1, <1>8 DEF ToHost, Kept
<1>20. ToViewer'
  BY <1>4, <1>8 DEF ToViewer
<1>21. HostRecordHasPeer' /\ CommitOrder'
  BY <1>1 DEF HostRecordHasPeer, CommitOrder, Kept
<1>22. SequencesFresh'
  BY <1>1, <1>2, <1>6, <1>8, ByPosition DEF SequencesFresh, Kept
<1> QED BY <1>1, <1>13, <1>14, <1>15, <1>16, <1>17, <1>18, <1>19, <1>20, <1>21, <1>22, StoredSame

\* The user of the viewer revokes the pair it has stored.
LEMMA ViewerForgetsKeeps ==
  ASSUME IInv, ViewerForgets
  PROVE  IInv' /\ RecordsAdvanceStep
<1> USE DEF IInv
<1>1. /\ viewerDisk.state # "none" /\ viewer' = ViewerIdle /\ viewerDisk' = NoViewerRecord
      /\ forgotten' = forgotten \cup {viewerDisk.pair} /\ toViewer' = <<>> /\ count' = OneFault
      /\ hostDisk' = hostDisk /\ host' = host /\ link' = link /\ toHost' = toHost
  BY DEF ViewerForgets
<1>2. /\ toHost \in Seq(Events) /\ hostDisk \in HostRecords /\ viewerDisk \in ViewerRecords
      /\ count.host \in Nat /\ count.viewer \in Nat /\ forgotten \subseteq Pairs
      /\ host.agreement \in Pairs
  BY Typed DEF TypeOK
<1>3. count' \in Counts /\ count'.host = count.host /\ count'.viewer = count.viewer
  BY <1>1, Faults
<1>4. /\ viewer' \in Viewers /\ viewer'.mode = "idle" /\ ~viewer'.online
      /\ viewer'.agreement = NoPair /\ ~viewer'.starting
  BY <1>1, PairFields DEF ViewerIdle, Viewers
<1>5. /\ NoViewerRecord \in ViewerRecords /\ NoViewerRecord.pair = NoPair
      /\ NoViewerRecord.state = "none" /\ ViewerRank(NoViewerRecord) = 0
  BY PairFields DEF NoViewerRecord, ViewerRecords, ViewerRank
<1>6. viewerDisk.pair \in Pairs /\ viewerDisk.pair[2] \in 1..count.viewer /\ viewerDisk.pair # NoPair
  BY <1>1, <1>2, ViewerRecordFields, PairFields DEF Records, Numbering
<1>7. \A t : Sent(toViewer', t) = {}
  BY <1>1, EmptyHeld DEF Sent
<1>8. ~Kept(hostDisk.pair)'
  BY <1>1 DEF Kept, HostRecordHasPeer
<1>9. TypeOK'
  BY <1>1, <1>2, <1>3, <1>4, <1>5, <1>6, EmptyHeld DEF TypeOK
<1>10. Numbering'
  BY <1>1, <1>2, <1>3, <1>4, <1>5, <1>6, PairFields DEF Numbering
<1>11. Records'
  BY <1>1, <1>5 DEF Records
<1>12. Modes'
  BY <1>1, <1>4 DEF Modes
<1>13. Hellos'
  BY <1>1, <1>3, <1>4 DEF Hellos
<1>14. Confirmations'
  BY <1>1, <1>3, <1>4, <1>7 DEF Confirmations
<1>15. ToHost'
  BY <1>1, <1>8 DEF ToHost
<1>16. ToViewer'
  BY <1>4, <1>7 DEF ToViewer
<1>17. HostRecordHasPeer' /\ CommitOrder' /\ SequencesFresh'
  BY <1>8 DEF HostRecordHasPeer, CommitOrder, SequencesFresh
<1>18. RecordsAdvanceStep
  <2>1. HostRank(hostDisk) \in 0..5 /\ hostDisk.highest \in Nat
    BY <1>2, HostPhases, HostRecordFields
  <2> QED BY <1>1, <1>5, <1>6, <2>1 DEF RecordsAdvanceStep
<1> QED BY <1>9, <1>10, <1>11, <1>12, <1>13, <1>14, <1>15, <1>16, <1>17, <1>18

----------------------------------------------------------------------------
(* The viewer's steps                                                       *)

\* The viewer stores e: its record advanced, or the first record of the pair its
\* handshake has agreed on, while the host has stored nothing.
ViewerStores(e) ==
  /\ e \in ViewerRecords
  /\ e.state = "none" => e = NoViewerRecord
  /\ e.state # "none" => e.pair[2] >= 1 /\ e.next >= 1
  /\ \/ /\ e.pair = viewerDisk.pair
        /\ ViewerRank(e) >= ViewerRank(viewerDisk) /\ e.next >= viewerDisk.next
        /\ e.state # viewerDisk.state =>
             ~(host.agreement = viewerDisk.pair /\ host.record.state = "none")
     \/ /\ viewer.mode = "bootstrap" /\ ~viewer.bound
        /\ e.state = "pending" /\ e.pair[2] = viewer.participant
        /\ hostDisk.pair = NoPair /\ host.agreement \in {NoPair, e.pair}
  /\ Kept(hostDisk.pair) => Ordered(hostDisk, e)

\* The viewer sends m while it stores e.
ViewerMaySend(e, m) ==
  /\ ViewerCanSend /\ host.online
  /\ m.type = "hello" =>
       viewer.mode = "bootstrap" /\ ~viewer.helloSent /\ m.number = viewer.participant
  /\ m.type = "confirmation" =>
       /\ m.pair = e.pair /\ e.state = "pending"
       /\ m.pair[1] \in 1..count.host /\ m.pair[2] \in 1..count.viewer
       /\ host.mode = "bootstrap" /\ m.pair[1] = host.participant => host.agreement = m.pair
  /\ m.type = "acknowledgement" =>
       /\ m.pair = host.record.pair /\ HostRank(host.record) >= 2
       /\ e.state \in {"acceptedIssued", "active"}
  /\ m.type = "activation" =>
       m.pair = host.record.pair /\ HostRank(host.record) >= 3 /\ e.state = "active"
  /\ m.type = "request" => host.mode = "availability" /\ m.number < e.next

ViewerSends(e) ==
  \/ toHost' = toHost
  \/ \E m \in Events :
       /\ ViewerMaySend(e, m) /\ toHost' = Append(toHost, m)
       /\ m.type = "hello" => viewer'.helloSent
       /\ m.type = "confirmation" => viewer'.bound

\* A step of the viewer that leaves the host and the numbering alone.
ViewerSide(e) ==
  /\ ViewerStores(e) /\ viewerDisk' = e
  /\ viewer' \in Viewers
  /\ ViewerSends(e)
  /\ count' \in Counts /\ count'.host = count.host /\ count'.viewer = count.viewer
  /\ UNCHANGED <<hostDisk, host, link, forgotten>>

\* The attempt ends.
ViewerEnds(e) ==
  /\ ViewerSide(e)
  /\ viewer'.mode = "idle" /\ ~viewer'.online /\ ~viewer'.starting /\ viewer'.agreement = NoPair
  /\ toViewer' = <<>>

\* The attempt goes on.
ViewerGoesOn(e) ==
  /\ ViewerSide(e)
  /\ viewer.mode \in {"bootstrap", "availability"}
  /\ viewer'.mode = viewer.mode /\ viewer'.online = viewer.online
  /\ viewer'.participant = viewer.participant
  /\ viewer.helloSent => viewer'.helloSent
  /\ viewer.bound => viewer'.bound
  /\ e.pair # viewerDisk.pair => viewer'.bound
  /\ viewer'.starting => viewer.mode = "availability"
  /\ viewer'.agreement # NoPair =>
       viewer.mode = "bootstrap" /\ viewer'.agreement[2] = viewer.participant
  /\ toViewer' = toViewer \/ (toViewer # <<>> /\ toViewer' = Tail(toViewer))
  /\ viewer.mode = "availability" /\ viewerDisk.state # "active" /\ e.state = "active" =>
       Sent(toViewer', "proposal") = {}

\* What one step of the viewer adds to the host's queue.
LEMMA ViewerSendsHeld ==
  ASSUME IInv, NEW e, ViewerSends(e)
  PROVE  /\ toHost' \in Seq(Events) /\ HelloOrder(toHost')
         /\ \A t \in Significant : \A m \in Sent(toHost', t) :
              \/ m \in Sent(toHost, t)
              \/ /\ m.type = t /\ ViewerMaySend(e, m)
                 /\ t = "hello" => viewer'.helloSent
                 /\ t = "confirmation" => viewer'.bound
         /\ host.mode \in {"down", "retrying"} => toHost' = <<>>
<1>1. toHost \in Seq(Events) /\ HelloOrder(toHost) /\ viewer.participant \in Nat /\ count.viewer \in Nat
  BY Typed DEF IInv, Hellos
<1>2. CASE toHost' = toHost
  BY <1>1, <1>2 DEF IInv, Modes
<1>3. CASE toHost' # toHost
  <2>1. PICK m \in Events :
          /\ ViewerMaySend(e, m) /\ toHost' = Append(toHost, m)
          /\ m.type = "hello" => viewer'.helloSent
          /\ m.type = "confirmation" => viewer'.bound
    BY <1>3 DEF ViewerSends
  <2>2. m.type = "hello" => \A n \in Sent(toHost, "hello") : n.number < m.number
    <3> SUFFICES ASSUME m.type = "hello", NEW n \in Sent(toHost, "hello")
                 PROVE  n.number < m.number
      OBVIOUS
    <3>1. viewer.mode = "bootstrap" /\ ~viewer.helloSent /\ m.number = viewer.participant
      BY <2>1 DEF ViewerMaySend
    <3>2. n.number \in 1..count.viewer /\ n.number # viewer.participant /\ viewer.participant = count.viewer
      BY <3>1 DEF IInv, Hellos, Numbering
    <3> QED BY <1>1, <3>1, <3>2
  <2>3. toHost' \in Seq(Events) /\ Held(toHost') = Held(toHost) \cup {m} /\ HelloOrder(toHost')
    BY <1>1, <2>1, <2>2, AppendHeld
  <2>4. host.mode \notin {"down", "retrying"}
    BY <2>1 DEF ViewerMaySend, IInv, Modes
  <2> QED BY <2>1, <2>3, <2>4 DEF Sent
<1> QED BY <1>2, <1>3

\* Common to both: what the host's side of the invariant keeps.
LEMMA ViewerSideKeeps ==
  ASSUME IInv, NEW e, ViewerSide(e), viewer'.mode \in {"idle", viewer.mode}
  PROVE  /\ HostRecordHasPeer' /\ CommitOrder' /\ SequencesFresh' /\ RecordsAdvanceStep /\ ToHost'
         /\ e.pair[2] <= count.viewer /\ \A p \in forgotten : p # e.pair
         /\ e.pair # viewerDisk.pair => viewer.mode = "bootstrap"
         /\ viewerDisk.state # "none" => e.state # "none"
         /\ viewerDisk.state \in {"acceptedIssued", "active"} /\ e.pair = viewerDisk.pair =>
              e.state \in {"acceptedIssued", "active"}
         /\ \A m \in Sent(toHost', "confirmation") :
              host.agreement = m.pair /\ host.record.state = "none" =>
                (e.pair = m.pair /\ e.state = "pending") \/ m.pair \in forgotten
<1> USE DEF IInv
<1>1. /\ ViewerStores(e) /\ viewerDisk' = e /\ ViewerSends(e)
      /\ hostDisk' = hostDisk /\ host' = host /\ link' = link /\ forgotten' = forgotten
  BY DEF ViewerSide
<1>2. /\ hostDisk \in HostRecords /\ viewerDisk \in ViewerRecords /\ e \in ViewerRecords
      /\ count.host \in Nat /\ count.viewer \in Nat /\ viewer.participant \in Nat
      /\ viewerDisk.next \in Nat /\ e.next \in Nat /\ hostDisk.highest \in Nat
      /\ toHost \in Seq(Events) /\ viewer.mode \in {"idle", "bootstrap", "availability"}
  BY <1>1, Typed, ViewerRecordFields, HostRecordFields DEF ViewerStores
<1>3. /\ toHost' \in Seq(Events) /\ HelloOrder(toHost')
      /\ \A t \in Significant : \A m \in Sent(toHost', t) :
           m \in Sent(toHost, t) \/ (m.type = t /\ ViewerMaySend(e, m))
  BY <1>1, ViewerSendsHeld
<1>4. /\ ViewerRank(e) \in 0..3 /\ ViewerRank(viewerDisk) \in 0..3
      /\ HostRank(hostDisk) \in 0..5
  BY ViewerPhases, HostPhases
<1>5. CASE /\ e.pair = viewerDisk.pair
           /\ ViewerRank(e) >= ViewerRank(viewerDisk) /\ e.next >= viewerDisk.next
           /\ e.state # viewerDisk.state =>
                ~(host.agreement = viewerDisk.pair /\ host.record.state = "none")
  <2>1. viewerDisk.state # "none" => e.state # "none"
    BY <1>2, <1>4, <1>5, ViewerPhases, ViewerRecordFields
  <2>2. viewerDisk.state \in {"acceptedIssued", "active"} => e.state \in {"acceptedIssued", "active"}
    BY <1>2, <1>4, <1>5, ViewerPhases, ViewerRecordFields
  <2>3. viewerDisk.state = "active" => e.state = "active"
    BY <1>2, <1>4, <1>5, ViewerPhases, ViewerRecordFields
  <2>4. HostRecordHasPeer' /\ CommitOrder'
    BY <1>1, <1>5 DEF HostRecordHasPeer, CommitOrder, ViewerStores, Ordered, Kept
  <2>5. SequencesFresh'
    <3>1. Kept(hostDisk.pair) => e.next > hostDisk.highest
      BY <1>2, <1>5 DEF SequencesFresh
    <3>2. Kept(hostDisk.pair) => \A m \in Sent(toHost', "request") : e.next > m.number
      <4> SUFFICES ASSUME Kept(hostDisk.pair), NEW m \in Sent(toHost', "request")
                   PROVE  e.next > m.number
        OBVIOUS
      <4>1. CASE m \in Sent(toHost, "request")
        <5>1. viewerDisk.next > m.number /\ m \in Events /\ m.type = "request"
          BY <1>2, <4>1, ByPosition, HeldEvents DEF SequencesFresh, Sent
        <5>2. m.number \in Nat
          BY <5>1, EventTypes
        <5> QED BY <1>2, <1>5, <5>1, <5>2
      <4>2. CASE m.type = "request" /\ ViewerMaySend(e, m)
        <5>1. m \in Events
          BY <1>3, HeldEvents DEF Sent
        <5>2. m.number \in Nat /\ m.number < e.next
          BY <4>2, <5>1, EventTypes DEF ViewerMaySend
        <5> QED BY <1>2, <5>2
      <4> QED BY <1>3, <4>1, <4>2 DEF Significant
    <3> QED BY <1>1, <1>3, <3>1, <3>2, ByPosition DEF SequencesFresh, Kept
  <2>6. RecordsAdvanceStep
    BY <1>1, <1>2, <1>4, <1>5 DEF RecordsAdvanceStep
  <2>7. ToHost'
    <3>1. \A m \in Sent(toHost', "acknowledgement") \cup Sent(toHost', "activation") :
            m.pair = host.record.pair /\ HostRank(host.record) >= 2
      <4>1. HostRank(host.record) \in 0..5
        BY HostPhases
      <4> QED BY <1>3, <4>1 DEF ToHost, Significant, ViewerMaySend
    <3>2. Sent(toHost', "acknowledgement") # {} /\ Kept(hostDisk.pair) => e.state \in {"acceptedIssued", "active"}
      BY <1>3, <2>2 DEF ToHost, Significant, ViewerMaySend
    <3>3. Sent(toHost', "activation") # {} =>
            HostRank(host.record) >= 3 /\ (Kept(hostDisk.pair) => e.state = "active")
      BY <1>3, <2>3 DEF ToHost, Significant, ViewerMaySend
    <3>4. Sent(toHost', "request") # {} => host.mode = "availability"
      BY <1>3 DEF ToHost, Significant, ViewerMaySend
    <3> QED BY <1>1, <3>1, <3>2, <3>3, <3>4 DEF ToHost, Kept
  <2>8. e.pair[2] <= count.viewer /\ \A p \in forgotten : p # e.pair
    BY <1>5 DEF Numbering
  <2>9. \A m \in Sent(toHost', "confirmation") :
          host.agreement = m.pair /\ host.record.state = "none" =>
            (e.pair = m.pair /\ e.state = "pending") \/ m.pair \in forgotten
    <3>1. \A m \in Sent(toHost', "confirmation") :
            m \in Sent(toHost, "confirmation") \/ (m.pair = e.pair /\ e.state = "pending")
      BY <1>3 DEF Significant, ViewerMaySend
    <3> QED BY <1>5, <3>1 DEF Confirmations
  <2> QED BY <1>5, <2>1, <2>2, <2>4, <2>5, <2>6, <2>7, <2>8, <2>9
<1>6. CASE /\ viewer.mode = "bootstrap" /\ ~viewer.bound
           /\ e.state = "pending" /\ e.pair[2] = viewer.participant
           /\ hostDisk.pair = NoPair /\ host.agreement \in {NoPair, e.pair}
  <2>1. ~Kept(hostDisk.pair)
    BY <1>6 DEF Kept
  <2>2. e.pair # viewerDisk.pair /\ e.pair[2] = count.viewer
    BY <1>6 DEF Confirmations, Numbering
  <2>3. RecordsAdvanceStep
    BY <1>1, <1>2, <1>4, <2>2 DEF RecordsAdvanceStep
  <2>4. HostRecordHasPeer' /\ CommitOrder' /\ SequencesFresh'
    BY <1>1, <2>1 DEF HostRecordHasPeer, CommitOrder, SequencesFresh, Kept
  <2>5. ToHost'
    <3>1. \A m \in Sent(toHost', "acknowledgement") \cup Sent(toHost', "activation") :
            m.pair = host.record.pair /\ HostRank(host.record) >= 2
      <4>1. HostRank(host.record) \in 0..5
        BY HostPhases
      <4> QED BY <1>3, <4>1 DEF ToHost, Significant, ViewerMaySend
    <3>2. Sent(toHost', "activation") # {} => HostRank(host.record) >= 3
      BY <1>3 DEF ToHost, Significant, ViewerMaySend
    <3>3. Sent(toHost', "request") # {} => host.mode = "availability"
      BY <1>3 DEF ToHost, Significant, ViewerMaySend
    <3> QED BY <1>1, <2>1, <3>1, <3>2, <3>3 DEF ToHost, Kept
  <2>6. e.pair[2] <= count.viewer /\ \A p \in forgotten : p # e.pair
    BY <1>2, <1>6, <2>2 DEF Numbering
  <2>7. \A m \in Sent(toHost', "confirmation") :
          host.agreement = m.pair => e.pair = m.pair
    <3>1. \A m \in Sent(toHost', "confirmation") : m.pair[1] # 0
      BY <1>2, <1>3 DEF Confirmations, Significant, ViewerMaySend
    <3> QED BY <1>6, <3>1, PairFields
  <2> QED BY <1>6, <2>2, <2>3, <2>4, <2>5, <2>6, <2>7
<1> QED BY <1>1, <1>5, <1>6 DEF ViewerStores

\* A viewer whose attempt ends keeps the invariant.
LEMMA ViewerEndsKeeps ==
  ASSUME IInv, NEW e, ViewerEnds(e)
  PROVE  IInv' /\ RecordsAdvanceStep
<1> USE DEF IInv
<1>1. /\ ViewerSide(e) /\ ViewerStores(e) /\ viewerDisk' = e /\ ViewerSends(e) /\ viewer' \in Viewers
      /\ hostDisk' = hostDisk /\ host' = host /\ link' = link /\ forgotten' = forgotten
      /\ count' \in Counts /\ count'.host = count.host /\ count'.viewer = count.viewer
      /\ viewer'.mode = "idle" /\ ~viewer'.online /\ ~viewer'.starting /\ viewer'.agreement = NoPair
      /\ toViewer' = <<>> /\ e \in ViewerRecords
  BY DEF ViewerEnds, ViewerSide, ViewerStores
<1>2. /\ HostRecordHasPeer' /\ CommitOrder' /\ SequencesFresh' /\ RecordsAdvanceStep /\ ToHost'
      /\ e.pair[2] <= count.viewer /\ \A p \in forgotten : p # e.pair
      /\ \A m \in Sent(toHost', "confirmation") :
           host.agreement = m.pair /\ host.record.state = "none" =>
             (e.pair = m.pair /\ e.state = "pending") \/ m.pair \in forgotten
  BY <1>1, ViewerSideKeeps
<1>3. /\ toHost' \in Seq(Events) /\ HelloOrder(toHost')
      /\ \A t \in Significant : \A m \in Sent(toHost', t) :
           m \in Sent(toHost, t) \/ (m.type = t /\ ViewerMaySend(e, m))
      /\ host.mode \in {"down", "retrying"} => toHost' = <<>>
  BY <1>1, ViewerSendsHeld
<1>4. \A t : Sent(toViewer', t) = {}
  BY <1>1, EmptyHeld DEF Sent
<1>5. TypeOK'
  BY <1>1, <1>3, EmptyHeld DEF TypeOK
<1>6. Numbering'
  BY <1>1, <1>2 DEF Numbering
<1>7. Records'
  BY <1>1 DEF Records, ViewerStores
<1>8. Modes'
  BY <1>1, <1>3 DEF Modes
<1>9. Hellos'
  <2>1. viewer.participant \in Nat /\ count.viewer \in Nat
    BY Typed
  <2>2. \A m \in Sent(toHost', "hello") : m.number \in 1..count.viewer
    BY <1>3, <2>1 DEF Hellos, ViewerMaySend, Significant, Numbering
  <2> QED BY <1>1, <1>3, <2>2 DEF Hellos
<1>10. Confirmations'
  <2>1. \A m \in Sent(toHost', "confirmation") :
          /\ m.pair[1] \in 1..count.host /\ m.pair[2] \in 1..count.viewer
          /\ host.mode = "bootstrap" /\ m.pair[1] = host.participant => host.agreement = m.pair
    BY <1>3 DEF Confirmations, ViewerMaySend, Significant
  <2> QED BY <1>1, <1>2, <1>4, <2>1 DEF Confirmations
<1>11. ToViewer'
  BY <1>1, <1>4 DEF ToViewer
<1> QED BY <1>2, <1>5, <1>6, <1>7, <1>8, <1>9, <1>10, <1>11

\* A viewer whose attempt goes on keeps the invariant.
LEMMA ViewerGoesOnKeeps ==
  ASSUME IInv, NEW e, ViewerGoesOn(e)
  PROVE  IInv' /\ RecordsAdvanceStep
<1> USE DEF IInv
<1>1. /\ ViewerSide(e) /\ ViewerStores(e) /\ viewerDisk' = e /\ ViewerSends(e) /\ viewer' \in Viewers
      /\ hostDisk' = hostDisk /\ host' = host /\ link' = link /\ forgotten' = forgotten
      /\ count' \in Counts /\ count'.host = count.host /\ count'.viewer = count.viewer
      /\ e \in ViewerRecords
      /\ viewer.mode \in {"bootstrap", "availability"}
      /\ viewer'.mode = viewer.mode /\ viewer'.online = viewer.online
      /\ viewer'.participant = viewer.participant
      /\ viewer.helloSent => viewer'.helloSent
      /\ viewer.bound => viewer'.bound
      /\ e.pair # viewerDisk.pair => viewer'.bound
      /\ viewer'.starting => viewer.mode = "availability"
      /\ viewer'.agreement # NoPair =>
           viewer.mode = "bootstrap" /\ viewer'.agreement[2] = viewer.participant
      /\ toViewer' = toViewer \/ (toViewer # <<>> /\ toViewer' = Tail(toViewer))
      /\ viewer.mode = "availability" /\ viewerDisk.state # "active" /\ e.state = "active" =>
           Sent(toViewer', "proposal") = {}
  BY DEF ViewerGoesOn, ViewerSide, ViewerStores
<1>2. /\ HostRecordHasPeer' /\ CommitOrder' /\ SequencesFresh' /\ RecordsAdvanceStep /\ ToHost'
      /\ e.pair[2] <= count.viewer /\ \A p \in forgotten : p # e.pair
      /\ e.pair # viewerDisk.pair => viewer.mode = "bootstrap"
      /\ viewerDisk.state # "none" => e.state # "none"
      /\ viewerDisk.state \in {"acceptedIssued", "active"} /\ e.pair = viewerDisk.pair =>
           e.state \in {"acceptedIssued", "active"}
      /\ \A m \in Sent(toHost', "confirmation") :
           host.agreement = m.pair /\ host.record.state = "none" =>
             (e.pair = m.pair /\ e.state = "pending") \/ m.pair \in forgotten
  BY <1>1, ViewerSideKeeps
<1>3. /\ toHost' \in Seq(Events) /\ HelloOrder(toHost')
      /\ \A t \in Significant : \A m \in Sent(toHost', t) :
           \/ m \in Sent(toHost, t)
           \/ /\ m.type = t /\ ViewerMaySend(e, m)
              /\ t = "hello" => viewer'.helloSent
              /\ t = "confirmation" => viewer'.bound
      /\ host.mode \in {"down", "retrying"} => toHost' = <<>>
  BY <1>1, ViewerSendsHeld
<1>4. /\ toViewer' \in Seq(Events) /\ Held(toViewer') \subseteq Held(toViewer)
      /\ CommitOrdered(toViewer) => CommitOrdered(toViewer')
  BY <1>1, Typed, TailHeld
<1>5. \A t : Sent(toViewer', t) \subseteq Sent(toViewer, t)
  BY <1>4 DEF Sent
<1>6. TypeOK'
  BY <1>1, <1>3, <1>4 DEF TypeOK
<1>7. Numbering'
  BY <1>1, <1>2 DEF Numbering
<1>8. Records'
  BY <1>1 DEF Records, ViewerStores
<1>9. Modes'
  BY <1>1, <1>2, <1>3 DEF Modes
<1>10. Hellos'
  <2>1. viewer.participant \in Nat /\ count.viewer \in Nat
    BY Typed
  <2>2. \A m \in Sent(toHost', "hello") : m.number \in 1..count.viewer
    BY <1>3, <2>1 DEF Hellos, ViewerMaySend, Significant, Numbering
  <2>3. \A m \in Sent(toHost', "hello") :
          viewer.mode = "bootstrap" /\ ~viewer'.helloSent => m.number # viewer.participant
    BY <1>1, <1>3 DEF Hellos, Significant
  <2> QED BY <1>1, <1>3, <2>2, <2>3 DEF Hellos
<1>11. Confirmations'
  <2>1. \A m \in Sent(toHost', "confirmation") :
          /\ m.pair[1] \in 1..count.host /\ m.pair[2] \in 1..count.viewer
          /\ host.mode = "bootstrap" /\ m.pair[1] = host.participant => host.agreement = m.pair
    BY <1>3 DEF Confirmations, ViewerMaySend, Significant
  <2>2. \A m \in Sent(toViewer', "confirmation") :
          viewer.mode = "bootstrap" /\ m.pair[2] = viewer.participant =>
            /\ viewer'.helloSent /\ Sent(toHost', "hello") = {}
            /\ host.agreement \in {NoPair, m.pair} /\ hostDisk.pair \in {NoPair, m.pair}
    <3> SUFFICES ASSUME NEW m \in Sent(toViewer', "confirmation"),
                        viewer.mode = "bootstrap", m.pair[2] = viewer.participant
                 PROVE  /\ viewer'.helloSent /\ Sent(toHost', "hello") = {}
                        /\ host.agreement \in {NoPair, m.pair} /\ hostDisk.pair \in {NoPair, m.pair}
      OBVIOUS
    <3>1. /\ viewer.helloSent /\ Sent(toHost, "hello") = {}
          /\ host.agreement \in {NoPair, m.pair} /\ hostDisk.pair \in {NoPair, m.pair}
      BY <1>5 DEF Confirmations
    <3>2. Sent(toHost', "hello") = {}
      BY <1>3, <3>1 DEF ViewerMaySend, Significant
    <3> QED BY <1>1, <3>1, <3>2
  <2>3. \A m \in Sent(toHost', "confirmation") :
          viewer.mode = "bootstrap" /\ m.pair[2] = viewer.participant => viewer'.bound
    BY <1>1, <1>3 DEF Confirmations, Significant
  <2>4. viewer.mode = "bootstrap" /\ viewer.participant \in {hostDisk.pair[2], e.pair[2]} => viewer'.bound
    BY <1>1 DEF Confirmations
  <2>5. \A m \in Sent(toViewer', "confirmation") :
          /\ m.pair[1] \in 1..count.host /\ m.pair[2] \in 1..count.viewer
          /\ host.mode = "bootstrap" /\ m.pair[1] = host.participant => host.agreement = m.pair
    BY <1>5 DEF Confirmations
  <2> QED BY <1>1, <1>2, <2>1, <2>2, <2>3, <2>4, <2>5 DEF Confirmations
<1>12. ToViewer'
  <2>1. viewer.mode = "availability" =>
          /\ CommitOrdered(toViewer')
          /\ Sent(toViewer', "proposal") # {} => e.state \in {"pending", "acceptedIssued"}
          /\ Sent(toViewer', "completion") # {} => e.state \in {"acceptedIssued", "active"}
    <3>1. e.state \in {"none", "pending", "acceptedIssued", "active"}
      BY <1>1, ViewerRecordFields
    <3>2. viewer.mode = "availability" => e.state # "none" /\ e.pair = viewerDisk.pair
      BY <1>2 DEF Modes
    <3>3. viewer.mode = "availability" /\ Sent(toViewer', "proposal") # {} =>
            viewerDisk.state \in {"pending", "acceptedIssued"} /\ e.state # "active"
      BY <1>1, <1>5 DEF ToViewer
    <3>4. viewer.mode = "availability" /\ Sent(toViewer', "completion") # {} =>
            viewerDisk.state \in {"acceptedIssued", "active"}
      BY <1>5 DEF ToViewer
    <3> QED BY <1>2, <1>4, <3>1, <3>2, <3>3, <3>4 DEF ToViewer
  <2>2. \A m \in Sent(toViewer', "proposal") \cup Sent(toViewer', "completion") :
          viewer.mode = "availability" => m.pair = e.pair
    BY <1>2, <1>5 DEF ToViewer
  <2>3. \A m \in Sent(toViewer', "proposal") \cup Sent(toViewer', "completion") :
          /\ m.pair[1] \in 1..count.host
          /\ host.mode = "bootstrap" /\ host.record.state = "none" => m.pair[1] < host.participant
          /\ viewer.mode = "bootstrap" /\ viewer.online /\ link # 0 /\ host.online =>
               host.record.pair = m.pair
    BY <1>5 DEF ToViewer
  <2>4. /\ \A m \in Sent(toViewer', "proposal") :
             hostDisk.pair = m.pair => HostRank(hostDisk) >= 2
        /\ \A m \in Sent(toViewer', "completion") :
             hostDisk.pair = m.pair => HostRank(hostDisk) >= 4
    BY <1>5 DEF ToViewer
  <2> QED BY <1>1, <2>1, <2>2, <2>3, <2>4 DEF ToViewer
<1> QED BY <1>2, <1>6, <1>7, <1>8, <1>9, <1>10, <1>11, <1>12

\* The viewer may store what it has stored.
LEMMA ViewerStoresSame == ASSUME IInv PROVE ViewerStores(viewerDisk)
<1>1. viewerDisk \in ViewerRecords /\ viewerDisk.next \in Nat /\ ViewerRank(viewerDisk) \in 0..3
  BY Typed, ViewerPhases, ViewerRecordFields DEF IInv
<1>2. Kept(hostDisk.pair) => Ordered(hostDisk, viewerDisk)
  BY DEF IInv, CommitOrder, Ordered
<1> QED BY <1>1, <1>2 DEF ViewerStores, IInv, Records

\* Whatever error ends an attempt, with e stored and nothing sent.
LEMMA ViewerQuits ==
  ASSUME IInv, NEW e, ViewerStores(e), viewerDisk' = e,
         NEW error \in {"none", "transient", "final"}, ViewerFails(error),
         UNCHANGED <<hostDisk, host, link, toHost, forgotten>>, UNCHANGED count \/ count' = OneFault
  PROVE  ViewerEnds(e)
<1> DEFINE v == [ViewerIdle EXCEPT !.error = error]
<1>1. /\ v \in Viewers /\ v.mode = "idle" /\ ~v.online /\ ~v.starting /\ v.agreement = NoPair
  BY PairFields DEF ViewerIdle, Viewers
<1>2. viewer' = v /\ toViewer' = <<>>
  BY DEF ViewerFails
<1> HIDE DEF v
<1>3. ViewerSide(e)
  BY <1>1, <1>2, Faults DEF ViewerSide, ViewerSends, IInv
<1> QED BY <1>1, <1>2, <1>3 DEF ViewerEnds

\* A handler stores e, or nothing.
SavesOnly(saves, e) == (saves = <<>> /\ e = viewerDisk) \/ saves = <<e>>

\* What a handler that stores e and turns the viewer into v may send.
ViewerOffers(e, v, out) ==
  out # <<>> => \E m \in Events :
    /\ out = <<m>>
    /\ ViewerCanSend /\ host.online => ViewerMaySend(e, m)
    /\ m.type = "hello" => v.helloSent
    /\ m.type = "confirmation" => v.bound

\* A handler of the viewer that is interrupted ends the attempt, before or after
\* its save.
LEMMA ViewerInterrupted ==
  ASSUME IInv, NEW e, NEW saves, NEW out, ViewerStores(e), SavesOnly(saves, e),
         ViewerSendFails(saves, out) \/ \E k \in 0..Len(saves) : ViewerStops(saves, k),
         UNCHANGED <<hostDisk, host, link, forgotten>>
  PROVE  \E d : ViewerEnds(d) \/ ViewerGoesOn(d)
<1>1. /\ Saved(viewerDisk, saves, Len(saves)) = e
      /\ \A k \in 0..Len(saves) : Saved(viewerDisk, saves, k) \in {e, viewerDisk}
  BY DEF Saved, SavesOnly
<1>2. ViewerStores(viewerDisk)
  BY ViewerStoresSame
<1>3. CASE ViewerSendFails(saves, out)
  <2>1. /\ viewerDisk' = e /\ ViewerFails("transient") /\ toHost' = toHost
        /\ UNCHANGED count \/ count' = OneFault
    BY <1>1, <1>3 DEF ViewerSendFails
  <2> QED BY <2>1, ViewerQuits
<1>4. ASSUME NEW k \in 0..Len(saves), ViewerStops(saves, k) PROVE \E d : ViewerEnds(d)
  <2>1. PICK d \in {e, viewerDisk} : viewerDisk' = d
    BY <1>1, <1>4 DEF ViewerStops
  <2>2. PICK error \in {"none", "transient", "final"} : ViewerFails(error)
    BY <1>4 DEF ViewerStops
  <2>3. toHost' = toHost /\ count' = OneFault /\ ViewerStores(d)
    BY <1>2, <1>4, <2>1 DEF ViewerStops
  <2> QED BY <2>1, <2>2, <2>3, ViewerQuits
<1> QED BY <1>3, <1>4

\* A handler of the viewer that completes sends what it offers.
LEMMA ViewerCompletesSends ==
  ASSUME IInv, NEW e, NEW saves, NEW v, NEW out, SavesOnly(saves, e), ViewerOffers(e, v, out),
         ViewerCompletes(saves, v, out)
  PROVE  viewerDisk' = e /\ viewer' = v /\ count' = count /\ ViewerSends(e)
<1>1. viewerDisk' = e /\ viewer' = v /\ count' = count /\ toHost' = ForHost(out)
      /\ (out # <<>> => ViewerCanSend) /\ toHost \in Seq(Events)
  <2>1. Saved(viewerDisk, saves, Len(saves)) = e
    BY DEF Saved, SavesOnly
  <2>2. toHost \in Seq(Events)
    BY Typed DEF IInv
  <2> QED BY <2>1, <2>2 DEF ViewerCompletes
<1>2. CASE ~host.online
  BY <1>1, <1>2 DEF ForHost, ViewerSends
<1>3. CASE out = <<>>
  BY <1>1, <1>3 DEF ForHost, ViewerSends
<1>4. CASE host.online /\ out # <<>>
  <2>1. PICK m \in Events : /\ out = <<m>> /\ ViewerMaySend(e, m)
                            /\ m.type = "hello" => v.helloSent
                            /\ m.type = "confirmation" => v.bound
    BY <1>1, <1>4 DEF ViewerOffers
  <2>2. toHost' = Append(toHost, m)
    BY <1>1, <1>4, <2>1, AppendHeld DEF ForHost
  <2> QED BY <1>1, <2>1, <2>2 DEF ViewerSends
<1> QED BY <1>1, <1>2, <1>3, <1>4

\* The viewer of an attempt that goes on with e stored.
ViewerTurns(e, v) ==
  /\ v \in Viewers
  /\ v.mode = viewer.mode /\ v.online = viewer.online /\ v.participant = viewer.participant
  /\ viewer.helloSent => v.helloSent
  /\ viewer.bound => v.bound
  /\ e.pair # viewerDisk.pair => v.bound
  /\ v.starting => viewer.mode = "availability"
  /\ v.agreement # NoPair => viewer.mode = "bootstrap" /\ v.agreement[2] = viewer.participant

\* A handler of the viewer, whichever of its save and its send succeeds.
LEMMA ViewerDoesSteps ==
  ASSUME IInv, NEW e, NEW saves, NEW v, NEW out, ViewerDoes(saves, v, out),
         viewer.mode \in {"bootstrap", "availability"}, toViewer # <<>>,
         SavesOnly(saves, e), ViewerStores(e), ViewerOffers(e, v, out), ViewerTurns(e, v),
         viewer.mode = "availability" /\ viewerDisk.state # "active" /\ e.state = "active" =>
           Sent(Tail(toViewer), "proposal") = {}
  PROVE  \E d : ViewerEnds(d) \/ ViewerGoesOn(d)
<1>1. UNCHANGED <<hostDisk, host, link, forgotten>>
  BY DEF ViewerDoes
<1>2. CASE ViewerCompletes(saves, v, out) /\ toViewer' = Tail(toViewer)
  <2>1. viewerDisk' = e /\ viewer' = v /\ count' = count /\ ViewerSends(e)
    BY <1>2, ViewerCompletesSends
  <2>2. ViewerSide(e)
    BY <1>1, <2>1, Faults DEF ViewerSide, ViewerTurns, IInv
  <2>3. ViewerGoesOn(e)
    BY <1>2, <2>1, <2>2 DEF ViewerGoesOn, ViewerTurns
  <2> QED BY <2>3
<1>3. CASE ViewerSendFails(saves, out) \/ \E k \in 0..Len(saves) : ViewerStops(saves, k)
  BY <1>1, <1>3, ViewerInterrupted
<1> QED BY <1>2, <1>3 DEF ViewerDoes

\* A message the viewer refuses, a lost peer or an answer ends the attempt.
LEMMA ViewerThrowsEnds ==
  ASSUME IInv, NEW error \in {"none", "transient", "final"}, ViewerThrows(error)
  PROVE  \E d : ViewerEnds(d) \/ ViewerGoesOn(d)
<1>1. ViewerEnds(viewerDisk)
  BY ViewerQuits, ViewerStoresSame DEF ViewerThrows
<1> QED BY <1>1

\* The viewer's process is lost or its user cancels.
LEMMA ViewerAbandonsSteps ==
  ASSUME IInv, ViewerAbandons
  PROVE  ViewerEnds(viewerDisk)
<1>1. /\ viewer' = ViewerIdle /\ toViewer' = <<>> /\ count' = OneFault
      /\ UNCHANGED <<hostDisk, host, viewerDisk, link, toHost, forgotten>>
  BY DEF ViewerAbandons
<1>2. /\ viewer' \in Viewers /\ viewer'.mode = "idle" /\ ~viewer'.online /\ ~viewer'.starting
      /\ viewer'.agreement = NoPair
  BY <1>1, PairFields DEF ViewerIdle, Viewers
<1>3. ViewerSide(viewerDisk)
  BY <1>1, <1>2, ViewerStoresSame, Faults DEF ViewerSide, ViewerSends, IInv
<1> QED BY <1>1, <1>2, <1>3 DEF ViewerEnds

\* An event the viewer handles.
LEMMA ViewerHandlesEvent ==
  ASSUME IInv, NEW mode, NEW type, ViewerEvent(mode, type)
  PROVE  /\ viewer.mode = mode /\ ~viewer.starting /\ toViewer # <<>>
         /\ Head(toViewer) \in Sent(toViewer, type) /\ Head(toViewer) \in Events
         /\ Head(toViewer).type = type
  BY HeadHeld, Typed DEF ViewerEvent, IInv, Sent

\* The viewer's fields that most handlers leave alone.
LEMMA ViewerTurnsSame ==
  ASSUME IInv, viewer.mode \in {"bootstrap", "availability"}
  PROVE  ViewerTurns(viewerDisk, viewer) /\ viewer \in Viewers
  BY DEF ViewerTurns, IInv, TypeOK, Numbering, Modes

\* What the host works with has reached the proposal, or the completion, if what
\* it has stored has.
LEMMA MemoryReaches ==
  ASSUME IInv, host.mode # "down"
  PROVE  /\ HostRank(hostDisk) >= 2 => HostRank(host.record) >= 2
         /\ HostRank(hostDisk) >= 4 => HostRank(host.record) >= 4
<1>1. host.mode \in {"bootstrap", "retrying", "availability"}
  BY Typed DEF IInv
<1>2. host.record = hostDisk \/ (host.record.state = "pending" /\ host.record.recovery = "proposal")
  BY <1>1 DEF IInv, Records, Works
<1>3. host.record.state = "pending" /\ host.record.recovery = "proposal" => HostRank(host.record) = 2
  BY DEF HostRank
<1>4. HostRank(hostDisk) >= 4 => host.record = hostDisk
  BY MemoryBehind DEF IInv
<1> QED BY <1>2, <1>3, <1>4

\* A proposal or a completion the viewer holds for its own pair: the host has not
\* still to make its record of that pair, and has reached the phase of the message.
LEMMA CommitHeld ==
  ASSUME IInv, NEW type \in {"proposal", "completion"}, NEW m \in Sent(toViewer, type),
         m.pair = viewerDisk.pair, viewerDisk.state # "none", viewer.mode \in {"bootstrap", "availability"}
  PROVE  /\ ~(host.agreement = viewerDisk.pair /\ host.record.state = "none")
         /\ hostDisk.pair = viewerDisk.pair =>
              HostRank(hostDisk) >= 2 /\ (type = "completion" => HostRank(hostDisk) >= 4)
         /\ ViewerCanSend /\ host.online =>
              /\ host.record.pair = viewerDisk.pair /\ HostRank(host.record) >= 2
              /\ type = "completion" => HostRank(host.record) >= 4
<1>1. viewerDisk.pair \in Pairs /\ viewerDisk.pair # NoPair /\ host.participant \in Nat
  BY Typed, ViewerRecordFields, PairFields DEF IInv, Records
<1>2. ~(host.agreement = viewerDisk.pair /\ host.record.state = "none")
  <2> SUFFICES ASSUME host.agreement = viewerDisk.pair, host.record.state = "none" PROVE FALSE
    OBVIOUS
  <2>1. host.mode = "bootstrap" /\ host.agreement[1] = host.participant
    BY <1>1 DEF IInv, Numbering
  <2>2. m.pair[1] < host.participant
    BY <2>1 DEF IInv, ToViewer
  <2> QED BY <1>1, <2>1, <2>2
<1>3. hostDisk.pair = viewerDisk.pair =>
        HostRank(hostDisk) >= 2 /\ (type = "completion" => HostRank(hostDisk) >= 4)
  <2>1. HostRank(hostDisk) \in 0..5
    BY HostPhases
  <2> QED BY <2>1 DEF IInv, ToViewer
<1>4. ViewerCanSend /\ host.online =>
        /\ host.record.pair = viewerDisk.pair /\ HostRank(host.record) >= 2
        /\ type = "completion" => HostRank(host.record) >= 4
  <2> SUFFICES ASSUME ViewerCanSend, host.online
               PROVE  /\ host.record.pair = viewerDisk.pair /\ HostRank(host.record) >= 2
                      /\ type = "completion" => HostRank(host.record) >= 4
    OBVIOUS
  <2>1. host.mode \in {"bootstrap", "availability"} /\ viewer.online /\ link # 0
    BY DEF ViewerCanSend, IInv, Modes
  <2>2. host.record.pair = viewerDisk.pair
    <3>1. CASE viewer.mode = "bootstrap"
      BY <2>1, <3>1 DEF IInv, ToViewer
    <3>2. CASE viewer.mode = "availability"
      BY <2>1, <3>2 DEF IInv, Modes
    <3> QED BY <3>1, <3>2
  <2>3. hostDisk.pair = viewerDisk.pair
    BY <2>1, <2>2, MemoryBehind DEF IInv
  <2> QED BY <1>3, <2>1, <2>2, <2>3, MemoryReaches
<1> QED BY <1>2, <1>3, <1>4

\* The viewer of an attempt on availability that can reach the host shares its pair,
\* which is not revoked.
LEMMA AttemptReaches ==
  ASSUME IInv, viewer.mode = "availability", ViewerCanSend, host.online
  PROVE  /\ host.mode = "availability" /\ host.record.pair = viewerDisk.pair
         /\ hostDisk.pair = viewerDisk.pair /\ Kept(hostDisk.pair)
<1>1. host.mode = "availability" /\ host.record.pair = viewerDisk.pair /\ viewerDisk.state # "none"
  BY DEF ViewerCanSend, IInv, Modes
<1>2. hostDisk.pair = viewerDisk.pair
  BY <1>1, MemoryBehind DEF IInv
<1>3. viewerDisk.pair # NoPair /\ viewerDisk.pair \notin forgotten
  BY <1>1, PairFields DEF IInv, Records, Numbering
<1> QED BY <1>1, <1>2, <1>3 DEF Kept

\* ViewerReady: the hello of an attempt is sent once.
LEMMA ViewerReadySteps ==
  ASSUME IInv, ViewerReady
  PROVE  \E d : ViewerEnds(d) \/ ViewerGoesOn(d)
<1>1. viewer.mode = "bootstrap" /\ toViewer # <<>>
  BY ViewerHandlesEvent DEF ViewerReady
<1>2. ViewerTurns(viewerDisk, viewer) /\ viewer \in Viewers /\ ViewerStores(viewerDisk)
      /\ viewer.participant \in Nat
  BY <1>1, ViewerTurnsSame, ViewerStoresSame, Typed DEF IInv
<1>3. SavesOnly(<<>>, viewerDisk)
  BY DEF SavesOnly
<1>4. CASE viewer.helloSent
  <2>1. ViewerDoes(<<>>, viewer, <<>>)
    BY <1>4 DEF ViewerReady
  <2>2. ViewerOffers(viewerDisk, viewer, <<>>)
    BY DEF ViewerOffers
  <2> QED BY <1>1, <1>2, <1>3, <2>1, <2>2, ViewerDoesSteps
<1>5. CASE ~viewer.helloSent
  <2> DEFINE v == [viewer EXCEPT !.helloSent = TRUE]
             m == Numbered("hello", viewer.participant)
  <2>1. ViewerDoes(<<>>, v, <<m>>)
    BY <1>5 DEF ViewerReady
  <2>2. ViewerTurns(viewerDisk, v) /\ v.helloSent
    <3>1. /\ v \in Viewers /\ v.helloSent /\ v.mode = viewer.mode /\ v.online = viewer.online
          /\ v.participant = viewer.participant /\ v.bound = viewer.bound
          /\ v.starting = viewer.starting /\ v.agreement = viewer.agreement
      BY <1>2 DEF Viewers
    <3> HIDE DEF v
    <3> QED BY <1>2, <3>1 DEF ViewerTurns
  <2>3. m \in Events /\ m.type = "hello" /\ m.number = viewer.participant
    BY <1>2, EventTypes
  <2> HIDE DEF m, v
  <2>4. ViewerCanSend /\ host.online => ViewerMaySend(viewerDisk, m)
    BY <1>1, <1>5, <2>3 DEF ViewerMaySend
  <2>5. ViewerOffers(viewerDisk, v, <<m>>)
    BY <2>2, <2>3, <2>4 DEF ViewerOffers
  <2> QED BY <1>1, <1>2, <1>3, <2>1, <2>2, <2>5, ViewerDoesSteps
<1> QED BY <1>4, <1>5

\* ViewerHello: the attempt agrees on the pair of the host's hello.
LEMMA ViewerHelloSteps ==
  ASSUME IInv, ViewerHello
  PROVE  \E d : ViewerEnds(d) \/ ViewerGoesOn(d)
<1>1. viewer.mode = "bootstrap" /\ toViewer # <<>> /\ Head(toViewer) \in Events
      /\ Head(toViewer).type = "hello"
  BY ViewerHandlesEvent DEF ViewerHello
<1>2. ViewerTurns(viewerDisk, viewer) /\ viewer \in Viewers /\ ViewerStores(viewerDisk)
      /\ viewer.participant \in Nat
  BY <1>1, ViewerTurnsSame, ViewerStoresSame, Typed DEF IInv
<1>3. Head(toViewer).number \in Nat
  BY <1>1, EventTypes
<1> DEFINE p == <<Head(toViewer).number, viewer.participant>>
           v == [viewer EXCEPT !.agreement = p]
<1>4. p \in Pairs /\ p[2] = viewer.participant
  BY <1>2, <1>3, PairFields
<1> HIDE DEF p
<1>5. CASE ViewerDoes(<<>>, v, <<>>)
  <2>1. /\ v \in Viewers /\ v.helloSent = viewer.helloSent /\ v.mode = viewer.mode
        /\ v.online = viewer.online /\ v.participant = viewer.participant /\ v.bound = viewer.bound
        /\ v.starting = viewer.starting /\ v.agreement = p
    BY <1>2, <1>4 DEF Viewers
  <2>2. ViewerDoes(<<>>, v, <<>>)
    BY <1>5
  <2> HIDE DEF v
  <2>3. ViewerTurns(viewerDisk, v)
    BY <1>1, <1>2, <1>4, <2>1 DEF ViewerTurns
  <2>4. ViewerOffers(viewerDisk, v, <<>>) /\ SavesOnly(<<>>, viewerDisk)
    BY DEF ViewerOffers, SavesOnly
  <2> QED BY <1>1, <1>2, <2>2, <2>3, <2>4, ViewerDoesSteps
<1>6. CASE ViewerThrows("final")
  BY <1>6, ViewerThrowsEnds
<1> QED BY <1>5, <1>6 DEF ViewerHello, p

\* ViewerConfirmation: the first record of the pair, stored before the host is told.
LEMMA ViewerConfirmationSteps ==
  ASSUME IInv, ViewerConfirmation
  PROVE  \E d : ViewerEnds(d) \/ ViewerGoesOn(d)
<1> DEFINE p == Head(toViewer).pair
           e == PendingViewer(p)
           v == [viewer EXCEPT !.bound = TRUE]
           m == Authenticated("confirmation", p)
<1>1. /\ viewer.mode = "bootstrap" /\ toViewer # <<>> /\ Head(toViewer) \in Events
      /\ Head(toViewer).type = "confirmation" /\ Head(toViewer) \in Sent(toViewer, "confirmation")
  BY ViewerHandlesEvent DEF ViewerConfirmation
<1>2. ViewerTurns(viewerDisk, viewer) /\ viewer \in Viewers /\ viewer.participant \in Nat
      /\ count.host \in Nat /\ count.viewer \in Nat /\ hostDisk.pair \in Pairs
  BY <1>1, ViewerTurnsSame, Typed, HostRecordFields DEF IInv
<1>3. p \in Pairs
  BY <1>1, EventTypes
<1>4. CASE ViewerThrows("final")
  BY <1>4, ViewerThrowsEnds
<1>5. CASE viewer.agreement = p /\ ~viewer.bound /\ ViewerDoes(<<e>>, v, <<m>>)
  <2>1. /\ p[1] \in 1..count.host /\ p[2] \in 1..count.viewer
        /\ host.mode = "bootstrap" /\ p[1] = host.participant => host.agreement = p
    BY <1>1 DEF IInv, Confirmations
  <2>2. p # NoPair
    BY <1>2, <2>1, PairFields
  <2>3. p[2] = viewer.participant
    BY <1>5, <2>2 DEF IInv, Numbering
  <2>4. host.agreement \in {NoPair, p} /\ hostDisk.pair = NoPair
    <3>1. host.agreement \in {NoPair, p} /\ hostDisk.pair \in {NoPair, p}
      BY <1>1, <2>3 DEF IInv, Confirmations
    <3>2. hostDisk.pair # p
      BY <1>1, <1>5, <2>3 DEF IInv, Confirmations
    <3> QED BY <3>1, <3>2
  <2>5. /\ e \in ViewerRecords /\ e.pair = p /\ e.state = "pending" /\ e.next = 1
    BY <1>3 DEF PendingViewer, ViewerRecords
  <2>6. /\ v \in Viewers /\ v.helloSent = viewer.helloSent /\ v.mode = viewer.mode
        /\ v.online = viewer.online /\ v.participant = viewer.participant /\ v.bound
        /\ v.starting = viewer.starting /\ v.agreement = viewer.agreement
    BY <1>2 DEF Viewers
  <2>7. m \in Events /\ m.type = "confirmation" /\ m.pair = p
    BY <1>3, EventTypes
  <2>8. ViewerDoes(<<e>>, v, <<m>>)
    BY <1>5
  <2> HIDE DEF p, e, v, m
  <2>9. p[2] >= 1 /\ e.next >= 1
    BY <1>2, <2>1, <2>5
  <2>10. ViewerStores(e)
    BY <1>1, <1>5, <2>3, <2>4, <2>5, <2>9 DEF ViewerStores, Kept
  <2>11. ViewerTurns(e, v)
    BY <1>2, <2>6 DEF ViewerTurns
  <2>12. ViewerCanSend /\ host.online => ViewerMaySend(e, m)
    BY <2>1, <2>5, <2>7 DEF ViewerMaySend
  <2>13. ViewerOffers(e, v, <<m>>) /\ SavesOnly(<<e>>, e)
    BY <2>6, <2>7, <2>12 DEF ViewerOffers, SavesOnly
  <2> QED BY <1>1, <2>8, <2>10, <2>11, <2>13, ViewerDoesSteps
<1> QED BY <1>4, <1>5 DEF ViewerConfirmation

\* AnswerProposal, on either channel: the acknowledged state is stored, then sent.
LEMMA AnswerProposalSteps ==
  ASSUME IInv, NEW mode \in {"bootstrap", "availability"}, ViewerEvent(mode, "proposal"), AnswerProposal
  PROVE  \E d : ViewerEnds(d) \/ ViewerGoesOn(d)
<1> DEFINE e == PrepareAcknowledgement(viewerDisk)
           m == Authenticated("acknowledgement", viewerDisk.pair)
<1>1. /\ viewer.mode = mode /\ toViewer # <<>> /\ Head(toViewer) \in Sent(toViewer, "proposal")
      /\ viewer.mode \in {"bootstrap", "availability"}
  BY ViewerHandlesEvent
<1>2. /\ ViewerTurns(viewerDisk, viewer) /\ viewer \in Viewers /\ viewerDisk \in ViewerRecords
      /\ viewerDisk.pair \in Pairs /\ viewerDisk.next \in Nat /\ hostDisk \in HostRecords
  BY <1>1, ViewerTurnsSame, Typed, ViewerRecordFields DEF IInv
<1>3. CASE ViewerThrows("final")
  BY <1>3, ViewerThrowsEnds
<1>4. CASE /\ viewerDisk.pair = Head(toViewer).pair /\ viewerDisk.state \in {"pending", "acceptedIssued"}
           /\ ViewerDoes(<<e>>, viewer, <<m>>)
  <2>1. /\ e \in ViewerRecords /\ e.pair = viewerDisk.pair /\ e.state = "acceptedIssued"
        /\ e.next = viewerDisk.next
    BY <1>2 DEF PrepareAcknowledgement, ViewerRecords
  <2>2. m \in Events /\ m.type = "acknowledgement" /\ m.pair = viewerDisk.pair
    BY <1>2, EventTypes DEF CommitPhases
  <2>3. ViewerDoes(<<e>>, viewer, <<m>>)
    BY <1>4
  <2> HIDE DEF e, m
  <2>4. /\ ~(host.agreement = viewerDisk.pair /\ host.record.state = "none")
        /\ hostDisk.pair = viewerDisk.pair => HostRank(hostDisk) >= 2
        /\ ViewerCanSend /\ host.online =>
             host.record.pair = viewerDisk.pair /\ HostRank(host.record) >= 2
    BY <1>1, <1>4, CommitHeld
  <2>5. ViewerRank(e) = 2 /\ ViewerRank(viewerDisk) \in {1, 2}
    BY <1>4, <2>1 DEF ViewerRank
  <2>6. viewerDisk.pair[2] >= 1 /\ viewerDisk.next >= 1
    BY <1>4 DEF IInv, Records
  <2>7. Kept(hostDisk.pair) => Ordered(hostDisk, e)
    <3> SUFFICES ASSUME Kept(hostDisk.pair) PROVE Ordered(hostDisk, e)
      OBVIOUS
    <3>1. hostDisk.pair = viewerDisk.pair /\ HostRank(hostDisk) >= 2
      BY <2>4 DEF IInv, HostRecordHasPeer
    <3>2. hostDisk.state # "active"
      BY <1>4 DEF IInv, CommitOrder
    <3>3. <<hostDisk.state, hostDisk.recovery>> # <<"pending", "none">>
      BY <1>2, <3>1, HostPhases, HostRecordFields
    <3> QED BY <2>1, <3>2, <3>3 DEF Ordered
  <2>8. ViewerStores(e)
    BY <1>2, <2>1, <2>4, <2>5, <2>6, <2>7 DEF ViewerStores
  <2>9. ViewerTurns(e, viewer)
    BY <1>2, <2>1 DEF ViewerTurns
  <2>10. ViewerCanSend /\ host.online => ViewerMaySend(e, m)
    BY <2>1, <2>2, <2>4 DEF ViewerMaySend
  <2>11. ViewerOffers(e, viewer, <<m>>) /\ SavesOnly(<<e>>, e)
    BY <2>2, <2>10 DEF ViewerOffers, SavesOnly
  <2>12. e.state # "active"
    BY <2>1
  <2> QED BY <1>1, <2>3, <2>8, <2>9, <2>11, <2>12, ViewerDoesSteps
<1> QED BY <1>3, <1>4 DEF AnswerProposal

\* ViewerProposal and AttemptProposal.
LEMMA ProposalSteps ==
  ASSUME IInv, ViewerProposal \/ AttemptProposal
  PROVE  \E d : ViewerEnds(d) \/ ViewerGoesOn(d)
  BY AnswerProposalSteps, ViewerThrowsEnds DEF ViewerProposal, AttemptProposal

\* The viewer stores the active record: the host has prepared the completion.
LEMMA CompletionStores ==
  ASSUME IInv, viewer.mode \in {"bootstrap", "availability"},
         NEW c \in Sent(toViewer, "completion"), viewerDisk.pair = c.pair,
         viewerDisk.state \in {"acceptedIssued", "active"}
  PROVE  LET e == AcceptCompletion(viewerDisk)
             m == Authenticated("activation", viewerDisk.pair)
         IN  /\ ViewerStores(e) /\ e.pair = viewerDisk.pair /\ e.state = "active"
             /\ m \in Events /\ m.type = "activation"
             /\ ViewerCanSend /\ host.online => ViewerMaySend(e, m)
<1> DEFINE e == AcceptCompletion(viewerDisk)
           m == Authenticated("activation", viewerDisk.pair)
<1>1. /\ viewerDisk \in ViewerRecords /\ viewerDisk.pair \in Pairs /\ viewerDisk.next \in Nat
      /\ hostDisk \in HostRecords
  BY Typed, ViewerRecordFields DEF IInv
<1>2. /\ e \in ViewerRecords /\ e.pair = viewerDisk.pair /\ e.state = "active"
      /\ e.next = viewerDisk.next
  BY <1>1 DEF AcceptCompletion, ViewerRecords
<1>3. m \in Events /\ m.type = "activation" /\ m.pair = viewerDisk.pair
  BY <1>1, EventTypes DEF CommitPhases
<1> HIDE DEF e, m
<1>4. /\ ~(host.agreement = viewerDisk.pair /\ host.record.state = "none")
      /\ hostDisk.pair = viewerDisk.pair => HostRank(hostDisk) >= 4
      /\ ViewerCanSend /\ host.online =>
           host.record.pair = viewerDisk.pair /\ HostRank(host.record) >= 4
  BY CommitHeld
<1>5. ViewerRank(e) = 3 /\ ViewerRank(viewerDisk) \in {2, 3}
  BY <1>2 DEF ViewerRank
<1>6. viewerDisk.pair[2] >= 1 /\ viewerDisk.next >= 1
  BY DEF IInv, Records
<1>7. Kept(hostDisk.pair) => Ordered(hostDisk, e)
  <2> SUFFICES ASSUME Kept(hostDisk.pair) PROVE Ordered(hostDisk, e)
    OBVIOUS
  <2>1. HostRank(hostDisk) >= 4
    BY <1>4 DEF IInv, HostRecordHasPeer
  <2>2. hostDisk.state = "active" \/ hostDisk.recovery = "completion"
    BY <1>1, <2>1, HostPhases, HostRecordFields
  <2> QED BY <1>2, <2>2 DEF Ordered
<1>8. ViewerStores(e)
  BY <1>1, <1>2, <1>4, <1>5, <1>6, <1>7 DEF ViewerStores
<1>9. ViewerCanSend /\ host.online => ViewerMaySend(e, m)
  <2>1. HostRank(host.record) \in 0..5
    BY HostPhases
  <2> QED BY <1>2, <1>3, <1>4, <2>1 DEF ViewerMaySend
<1> QED BY <1>2, <1>3, <1>8, <1>9 DEF e, m

\* ViewerCompletion: the active record is stored, the host is told, the attempt is over.
LEMMA ViewerCompletionSteps ==
  ASSUME IInv, ViewerCompletion
  PROVE  \E d : ViewerEnds(d) \/ ViewerGoesOn(d)
<1> DEFINE e == AcceptCompletion(viewerDisk)
           m == Authenticated("activation", viewerDisk.pair)
<1>1. viewer.mode = "bootstrap" /\ Head(toViewer) \in Sent(toViewer, "completion")
  BY ViewerHandlesEvent DEF ViewerCompletion
<1>2. CASE ViewerThrows("final")
  BY <1>2, ViewerThrowsEnds
<1>3. CASE /\ viewerDisk.pair = Head(toViewer).pair /\ viewerDisk.state = "acceptedIssued"
           /\ \/ ViewerCompletes(<<e>>, ViewerIdle, <<m>>) /\ toViewer' = <<>>
              \/ ViewerSendFails(<<e>>, <<m>>)
              \/ \E k \in 0..1 : ViewerStops(<<e>>, k)
           /\ UNCHANGED <<hostDisk, host, link, forgotten>>
  <2>1. /\ ViewerStores(e) /\ m \in Events /\ m.type = "activation"
        /\ ViewerCanSend /\ host.online => ViewerMaySend(e, m)
    BY <1>1, <1>3, CompletionStores
  <2>2. /\ \/ ViewerCompletes(<<e>>, ViewerIdle, <<m>>) /\ toViewer' = <<>>
           \/ ViewerSendFails(<<e>>, <<m>>)
           \/ \E k \in 0..1 : ViewerStops(<<e>>, k)
        /\ UNCHANGED <<hostDisk, host, link, forgotten>>
    BY <1>3
  <2> HIDE DEF e, m
  <2>3. SavesOnly(<<e>>, e) /\ ViewerOffers(e, ViewerIdle, <<m>>) /\ Len(<<e>>) = 1
    BY <2>1 DEF SavesOnly, ViewerOffers
  <2>4. CASE ViewerCompletes(<<e>>, ViewerIdle, <<m>>) /\ toViewer' = <<>>
    <3>1. viewerDisk' = e /\ viewer' = ViewerIdle /\ count' = count /\ ViewerSends(e)
      BY <2>3, <2>4, ViewerCompletesSends
    <3>2. /\ viewer' \in Viewers /\ viewer'.mode = "idle" /\ ~viewer'.online /\ ~viewer'.starting
          /\ viewer'.agreement = NoPair
      BY <3>1, PairFields DEF ViewerIdle, Viewers
    <3>3. ViewerSide(e)
      BY <2>1, <2>2, <3>1, <3>2, Faults DEF ViewerSide, IInv
    <3>4. ViewerEnds(e)
      BY <2>4, <3>2, <3>3 DEF ViewerEnds
    <3> QED BY <3>4
  <2>5. CASE ViewerSendFails(<<e>>, <<m>>) \/ \E k \in 0..1 : ViewerStops(<<e>>, k)
    BY <2>1, <2>2, <2>3, <2>5, ViewerInterrupted
  <2> QED BY <2>2, <2>4, <2>5
<1> QED BY <1>2, <1>3 DEF ViewerCompletion

\* AttemptReady: what the record's phase owes the host is sent again.
LEMMA AttemptReadySteps ==
  ASSUME IInv, AttemptReady
  PROVE  \E d : ViewerEnds(d) \/ ViewerGoesOn(d)
<1> DEFINE x == Head(toViewer).number
           starting == viewerDisk.state = "active" /\ viewer.reconnectExchange # x
           reconnect == IF viewer.reconnectExchange = x THEN viewer.reconnect ELSE 0
           v == [viewer EXCEPT !.exchange = x, !.starting = starting, !.reconnect = reconnect]
<1>1. /\ viewer.mode = "availability" /\ toViewer # <<>> /\ Head(toViewer) \in Events
      /\ Head(toViewer).type = "ready"
  BY ViewerHandlesEvent DEF AttemptReady
<1>2. /\ ViewerTurns(viewerDisk, viewer) /\ viewer \in Viewers /\ ViewerStores(viewerDisk)
      /\ viewerDisk \in ViewerRecords /\ viewerDisk.pair \in Pairs /\ hostDisk \in HostRecords
  BY <1>1, ViewerTurnsSame, ViewerStoresSame, Typed, ViewerRecordFields DEF IInv
<1>3. x \in Nat /\ viewer.reconnect \in Nat
  BY <1>1, <1>2, EventTypes DEF Viewers
<1>4. starting \in BOOLEAN /\ reconnect \in Nat
  BY <1>3
<1>5. ViewerDoes(<<>>, v, ReadyCommit)
  BY DEF AttemptReady
<1> HIDE DEF x, starting, reconnect
<1>6. /\ v \in Viewers /\ v.helloSent = viewer.helloSent /\ v.mode = viewer.mode
      /\ v.online = viewer.online /\ v.participant = viewer.participant /\ v.bound = viewer.bound
      /\ v.agreement = viewer.agreement
  BY <1>2, <1>3, <1>4 DEF Viewers
<1> HIDE DEF v
<1>7. ViewerTurns(viewerDisk, v)
  BY <1>1, <1>2, <1>6 DEF ViewerTurns
<1>8. ViewerCanSend /\ host.online =>
        /\ host.record.pair = viewerDisk.pair
        /\ viewerDisk.state = "acceptedIssued" => HostRank(host.record) >= 2
        /\ viewerDisk.state = "active" => HostRank(host.record) >= 4
  <2> SUFFICES ASSUME ViewerCanSend, host.online
               PROVE  /\ host.record.pair = viewerDisk.pair
                      /\ viewerDisk.state = "acceptedIssued" => HostRank(host.record) >= 2
                      /\ viewerDisk.state = "active" => HostRank(host.record) >= 4
    OBVIOUS
  <2>1. /\ host.mode = "availability" /\ host.record.pair = viewerDisk.pair
        /\ hostDisk.pair = viewerDisk.pair /\ Kept(hostDisk.pair)
    BY <1>1, AttemptReaches
  <2>2. hostDisk.state # "none" /\ Shaped(hostDisk)
    BY <2>1 DEF IInv, Records, Shaped, Kept, NoHostRecord
  <2>3. hostDisk.state \in {"pending", "acceptedReceived", "active"}
    BY <1>2, <2>2, HostRecordFields
  <2>4. viewerDisk.state = "acceptedIssued" => HostRank(hostDisk) >= 2
    <3>1. viewerDisk.state = "acceptedIssued" => <<hostDisk.state, hostDisk.recovery>> # <<"pending", "none">>
      BY <2>1 DEF IInv, CommitOrder
    <3>2. hostDisk.state = "pending" => hostDisk.recovery \in {"none", "proposal"}
      BY <2>2 DEF Shaped
    <3> QED BY <2>3, <3>1, <3>2, HostPhases
  <2>5. viewerDisk.state = "active" => HostRank(hostDisk) >= 4
    <3>1. viewerDisk.state = "active" => hostDisk.state = "active" \/ hostDisk.recovery = "completion"
      BY <2>1 DEF IInv, CommitOrder
    <3>2. hostDisk.recovery = "completion" => hostDisk.state = "acceptedReceived"
      BY <2>2, <2>3 DEF Shaped
    <3> QED BY <2>3, <3>1, <3>2, HostPhases
  <2> QED BY <2>1, <2>4, <2>5, MemoryReaches
<1>9. ViewerOffers(viewerDisk, v, ReadyCommit)
  <2>1. CASE viewerDisk.state = "acceptedIssued"
    <3> DEFINE m == Authenticated("acknowledgement", viewerDisk.pair)
    <3>1. ReadyCommit = <<m>>
      BY <2>1 DEF ReadyCommit
    <3>2. m \in Events /\ m.type = "acknowledgement" /\ m.pair = viewerDisk.pair
      BY <1>2, EventTypes DEF CommitPhases
    <3> HIDE DEF m
    <3>3. ViewerCanSend /\ host.online => ViewerMaySend(viewerDisk, m)
      BY <1>8, <2>1, <3>2 DEF ViewerMaySend
    <3> QED BY <3>1, <3>2, <3>3 DEF ViewerOffers
  <2>2. CASE viewerDisk.state = "active"
    <3> DEFINE m == Authenticated("activation", viewerDisk.pair)
    <3>1. ReadyCommit = <<m>>
      BY <2>2 DEF ReadyCommit
    <3>2. m \in Events /\ m.type = "activation" /\ m.pair = viewerDisk.pair
      BY <1>2, EventTypes DEF CommitPhases
    <3> HIDE DEF m
    <3>3. ViewerCanSend /\ host.online => ViewerMaySend(viewerDisk, m)
      <4>1. HostRank(host.record) \in 0..5
        BY HostPhases
      <4> QED BY <1>8, <2>2, <3>2, <4>1 DEF ViewerMaySend
    <3> QED BY <3>1, <3>2, <3>3 DEF ViewerOffers
  <2>3. CASE viewerDisk.state \notin {"acceptedIssued", "active"}
    <3>1. ReadyCommit = <<>>
      BY <2>3 DEF ReadyCommit
    <3> QED BY <3>1 DEF ViewerOffers
  <2> QED BY <2>1, <2>2, <2>3
<1>10. SavesOnly(<<>>, viewerDisk)
  BY DEF SavesOnly
<1> QED BY <1>1, <1>2, <1>5, <1>7, <1>9, <1>10, ViewerDoesSteps

\* AttemptCompletion: the active record is stored and the host told.
LEMMA AttemptCompletionSteps ==
  ASSUME IInv, AttemptCompletion
  PROVE  \E d : ViewerEnds(d) \/ ViewerGoesOn(d)
<1> DEFINE e == AcceptCompletion(viewerDisk)
           m == Authenticated("activation", viewerDisk.pair)
           v == [viewer EXCEPT !.starting = viewer.reconnect = 0]
<1>1. /\ viewer.mode = "availability" /\ toViewer # <<>> /\ Head(toViewer).type = "completion"
      /\ Head(toViewer) \in Sent(toViewer, "completion")
  BY ViewerHandlesEvent DEF AttemptCompletion
<1>2. ViewerTurns(viewerDisk, viewer) /\ viewer \in Viewers /\ toViewer \in Seq(Events)
  BY <1>1, ViewerTurnsSame, Typed DEF IInv
<1>3. CASE ViewerThrows("final")
  BY <1>3, ViewerThrowsEnds
<1>4. CASE /\ viewerDisk.pair = Head(toViewer).pair /\ viewerDisk.state \in {"acceptedIssued", "active"}
           /\ ViewerDoes(<<e>>, v, <<m>>)
  <2>1. /\ ViewerStores(e) /\ e.pair = viewerDisk.pair /\ m \in Events /\ m.type = "activation"
        /\ ViewerCanSend /\ host.online => ViewerMaySend(e, m)
    BY <1>1, <1>4, CompletionStores
  <2>2. /\ v \in Viewers /\ v.helloSent = viewer.helloSent /\ v.mode = viewer.mode
        /\ v.online = viewer.online /\ v.participant = viewer.participant /\ v.bound = viewer.bound
        /\ v.agreement = viewer.agreement
    BY <1>2 DEF Viewers
  <2>3. ViewerDoes(<<e>>, v, <<m>>)
    BY <1>4
  <2> HIDE DEF e, m, v
  <2>4. ViewerTurns(e, v)
    BY <1>1, <1>2, <2>1, <2>2 DEF ViewerTurns
  <2>5. SavesOnly(<<e>>, e) /\ ViewerOffers(e, v, <<m>>)
    BY <2>1 DEF SavesOnly, ViewerOffers
  <2>6. Sent(Tail(toViewer), "proposal") = {}
    <3>1. CommitOrdered(toViewer)
      BY <1>1 DEF IInv, ToViewer
    <3> QED BY <1>1, <1>2, <3>1, TailOrder DEF Sent
  <2> QED BY <1>1, <2>1, <2>3, <2>4, <2>5, <2>6, ViewerDoesSteps
<1> QED BY <1>3, <1>4 DEF AttemptCompletion

\* AttemptRequests: the next sequence is stored before the request is sent.
LEMMA AttemptRequestsSteps ==
  ASSUME IInv, AttemptRequests
  PROVE  \E d : ViewerEnds(d) \/ ViewerGoesOn(d)
<1> DEFINE n == viewerDisk.next
           e == BeginReconnect(viewerDisk)
           m == Numbered("request", n)
           v == [viewer EXCEPT !.starting = FALSE, !.reconnect = n, !.reconnectExchange = viewer.exchange]
<1>1. /\ viewer.starting /\ UNCHANGED <<hostDisk, host, link, forgotten>>
      /\ \/ ViewerCompletes(<<e>>, v, <<m>>) /\ UNCHANGED toViewer
         \/ ViewerSendFails(<<e>>, <<m>>)
         \/ \E k \in 0..1 : ViewerStops(<<e>>, k)
  BY DEF AttemptRequests
<1>2. viewer.mode = "availability" /\ viewerDisk.state # "none"
  BY <1>1 DEF IInv, Modes
<1>3. /\ ViewerTurns(viewerDisk, viewer) /\ viewer \in Viewers /\ viewerDisk \in ViewerRecords
      /\ n \in Nat /\ ViewerStores(viewerDisk)
  BY <1>2, ViewerTurnsSame, ViewerStoresSame, Typed, ViewerRecordFields DEF IInv
<1>4. viewer.exchange \in Nat /\ n + 1 \in Nat /\ n < n + 1 /\ n + 1 >= 1 /\ n + 1 >= n
  BY <1>3 DEF Viewers
<1>5. /\ e \in ViewerRecords /\ e.pair = viewerDisk.pair /\ e.state = viewerDisk.state
      /\ e.next = n + 1
  BY <1>3, <1>4 DEF BeginReconnect, ViewerRecords
<1>6. /\ v \in Viewers /\ v.helloSent = viewer.helloSent /\ v.mode = viewer.mode
      /\ v.online = viewer.online /\ v.participant = viewer.participant /\ v.bound = viewer.bound
      /\ v.agreement = viewer.agreement
  BY <1>3, <1>4 DEF Viewers
<1>7. m \in Events /\ m.type = "request" /\ m.number = n
  BY <1>3, EventTypes
<1> HIDE DEF n, e, m, v
<1>8. ViewerStores(e)
  <2>1. ViewerRank(e) = ViewerRank(viewerDisk) /\ ViewerRank(viewerDisk) \in 0..3
    BY <1>5, ViewerPhases DEF ViewerRank
  <2>2. Kept(hostDisk.pair) => Ordered(hostDisk, e)
    BY <1>3, <1>5 DEF ViewerStores, Ordered
  <2>3. viewerDisk.pair[2] >= 1
    BY <1>2 DEF IInv, Records
  <2> QED BY <1>2, <1>4, <1>5, <2>1, <2>2, <2>3 DEF ViewerStores, n
<1>9. ViewerCanSend /\ host.online => ViewerMaySend(e, m)
  BY <1>2, <1>4, <1>5, <1>7, AttemptReaches DEF ViewerMaySend
<1>10. SavesOnly(<<e>>, e) /\ ViewerOffers(e, v, <<m>>) /\ Len(<<e>>) = 1
  BY <1>7, <1>9 DEF SavesOnly, ViewerOffers
<1>11. CASE ViewerCompletes(<<e>>, v, <<m>>) /\ UNCHANGED toViewer
  <2>1. viewerDisk' = e /\ viewer' = v /\ count' = count /\ ViewerSends(e)
    BY <1>10, <1>11, ViewerCompletesSends
  <2>2. ViewerSide(e)
    BY <1>1, <1>6, <1>8, <2>1, Faults DEF ViewerSide, IInv
  <2>3. ViewerTurns(e, v)
    BY <1>2, <1>3, <1>5, <1>6 DEF ViewerTurns
  <2>4. ViewerGoesOn(e)
    BY <1>2, <1>5, <1>11, <2>1, <2>2, <2>3 DEF ViewerGoesOn, ViewerTurns
  <2> QED BY <2>4
<1>12. CASE ViewerSendFails(<<e>>, <<m>>) \/ \E k \in 0..1 : ViewerStops(<<e>>, k)
  BY <1>1, <1>8, <1>10, <1>12, ViewerInterrupted
<1> QED BY <1>1, <1>11, <1>12

\* AttemptResponse and ViewerLeft end the attempt.
LEMMA AttemptOverSteps ==
  ASSUME IInv, AttemptResponse \/ ViewerLeft
  PROVE  \E d : ViewerEnds(d) \/ ViewerGoesOn(d)
<1>1. PICK error \in {"none", "transient", "final"} : ViewerThrows(error)
  BY DEF AttemptResponse, ViewerLeft
<1> QED BY <1>1, ViewerThrowsEnds

----------------------------------------------------------------------------
(* Every step                                                               *)

\* Initially nothing is stored, known or on its way.
LEMMA Initially == ASSUME Init PROVE IInv
<1> USE DEF Init
<1>1. NoHostRecord \in HostRecords /\ HostDown \in Hosts /\ NoViewerRecord \in ViewerRecords
      /\ ViewerIdle \in Viewers /\ count \in Counts
  BY PairFields DEF NoHostRecord, HostRecords, HostDown, Hosts, NoViewerRecord, ViewerRecords,
                    ViewerIdle, Viewers, Counts
<1>2. TypeOK
  BY <1>1, EmptyHeld DEF TypeOK
<1>3. \A t : Sent(toHost, t) = {} /\ Sent(toViewer, t) = {}
  BY EmptyHeld DEF Sent
<1>4. Numbering
  BY PairFields DEF Numbering, HostDown, ViewerIdle, NoHostRecord, NoViewerRecord
<1>5. Records
  BY DEF Records, Shaped, HostDown, NoHostRecord, NoViewerRecord
<1>6. Modes
  BY DEF Modes, HostDown, ViewerIdle
<1>7. Hellos
  BY <1>3, EmptyHeld DEF Hellos
<1>8. Confirmations
  BY <1>3 DEF Confirmations, ViewerIdle
<1>9. ToHost /\ ToViewer
  BY <1>3 DEF ToHost, ToViewer, ViewerIdle
<1>10. HostRecordHasPeer /\ CommitOrder /\ SequencesFresh
  BY DEF HostRecordHasPeer, CommitOrder, SequencesFresh, Kept, NoHostRecord
<1> QED BY <1>2, <1>4, <1>5, <1>6, <1>7, <1>8, <1>9, <1>10 DEF IInv

\* A step that changes nothing.
LEMMA StuttersKeeps ==
  ASSUME IInv, UNCHANGED vars
  PROVE  IInv' /\ RecordsAdvanceStep
<1> USE DEF vars
<1>1. TypeOK' /\ Numbering'
  BY DEF IInv, TypeOK, Numbering
<1>2. Records' /\ Modes'
  BY DEF IInv, Records, Modes
<1>3. Hellos' /\ Confirmations'
  BY DEF IInv, Hellos, Confirmations
<1>4. ToHost' /\ ToViewer'
  BY DEF IInv, ToHost, ToViewer, Kept
<1>5. HostRecordHasPeer' /\ CommitOrder' /\ SequencesFresh'
  BY DEF IInv, HostRecordHasPeer, CommitOrder, SequencesFresh, Kept
<1> QED BY <1>1, <1>2, <1>3, <1>4, <1>5, StoredSame DEF IInv

\* Every step keeps the invariant and lets no stored record fall back.
LEMMA NextKeeps ==
  ASSUME IInv, [Next]_vars
  PROVE  IInv' /\ RecordsAdvanceStep
<1>1. ASSUME \E d : HostEnds(d) \/ HostGoesOn(d) PROVE IInv' /\ RecordsAdvanceStep
  BY <1>1, HostEndsKeeps, HostGoesOnKeeps
<1>2. ASSUME \E d : ViewerEnds(d) \/ ViewerGoesOn(d) PROVE IInv' /\ RecordsAdvanceStep
  BY <1>2, ViewerEndsKeeps, ViewerGoesOnKeeps
<1>3. CASE HostHandles
  <2>1. CASE BootstrapReady \/ BootstrapConfirmation
    BY <1>1, <2>1, BootstrapReadySteps, BootstrapConfirmationSteps
  <2>2. CASE BootstrapHello
    BY <2>2, BootstrapHelloKeeps
  <2>3. CASE BootstrapAcknowledgement \/ AvailabilityAcknowledgement
    BY <1>1, <2>3, AcknowledgementSteps
  <2>4. CASE BootstrapActivation \/ AvailabilityActivation
    BY <1>1, <2>4, BootstrapActivationSteps, AvailabilityActivationSteps
  <2>5. CASE BootstrapLeft
    BY <2>5, BootstrapLeftKeeps
  <2>6. CASE HostClosed
    BY <1>1, <2>6, HostThrowsEnds DEF HostClosed
  <2>7. CASE AvailabilityReady
    BY <1>1, <2>7, AvailabilityReadySteps
  <2>8. CASE AvailabilityRequest \/ HostResponds \/ HostCannotRespond
    BY <1>1, <2>8, AvailabilityRequestSteps, ResponseSteps
  <2>9. CASE AvailabilityLeft
    BY <1>1, <2>9, AvailabilityLeftSteps
  <2> QED BY <1>3, <2>1, <2>2, <2>3, <2>4, <2>5, <2>6, <2>7, <2>8, <2>9 DEF HostHandles
<1>4. CASE ViewerHandles
  <2>1. CASE ViewerReady
    BY <1>2, <2>1, ViewerReadySteps
  <2>2. CASE ViewerHello
    BY <1>2, <2>2, ViewerHelloSteps
  <2>3. CASE ViewerConfirmation
    BY <1>2, <2>3, ViewerConfirmationSteps
  <2>4. CASE ViewerProposal \/ AttemptProposal
    BY <1>2, <2>4, ProposalSteps
  <2>5. CASE ViewerCompletion
    BY <1>2, <2>5, ViewerCompletionSteps
  <2>6. CASE AttemptReady
    BY <1>2, <2>6, AttemptReadySteps
  <2>7. CASE AttemptCompletion
    BY <1>2, <2>7, AttemptCompletionSteps
  <2>8. CASE AttemptRequests
    BY <1>2, <2>8, AttemptRequestsSteps
  <2>9. CASE AttemptResponse \/ ViewerLeft
    BY <1>2, <2>9, AttemptOverSteps
  <2> QED BY <1>4, <2>1, <2>2, <2>3, <2>4, <2>5, <2>6, <2>7, <2>8, <2>9 DEF ViewerHandles
<1>5. CASE ServerNotices \/ HostConnects \/ HostLosesConnection \/ ViewerLosesConnection
           \/ ViewerJoinsAvailability \/ ViewerForcesReset \/ ViewerRefused
  <2>1. ChannelStep
    BY <1>5, ServerNoticesSteps, HostConnectsSteps, ConnectionLostSteps, ViewerJoinsAvailabilitySteps
  <2> QED BY <2>1, ChannelKeeps
<1>6. CASE \E reset \in BOOLEAN : HostStarts(reset)
  BY <1>6, HostStartsKeeps
<1>7. CASE HostCrashes
  BY <1>1, <1>7, HostCrashesSteps
<1>8. CASE ViewerJoinsInvitation
  BY <1>8, ViewerJoinsInvitationKeeps
<1>9. CASE ViewerAbandons
  BY <1>2, <1>9, ViewerAbandonsSteps
<1>10. CASE ViewerForgets
  BY <1>10, ViewerForgetsKeeps
<1>11. CASE UNCHANGED vars
  BY <1>11, StuttersKeeps
<1> QED BY <1>3, <1>4, <1>5, <1>6, <1>7, <1>8, <1>9, <1>10, <1>11 DEF Next

\* The invariant holds at every step.
LEMMA Invariance == Spec => []IInv
<1>1. Init => IInv
  BY Initially
<1>2. IInv /\ [Next]_vars => IInv'
  BY NextKeeps
<1> QED BY <1>1, <1>2, PTL DEF Spec

----------------------------------------------------------------------------
(* What the two sides may rely on                                           *)

\* Whatever save, send, process or connection was lost last, the two stored records
\* are halves of one pairing, in an order the commit can be resumed from
\* (RemotePairedDeviceRecord and its two stores).
THEOREM HalvesMatch == Spec => []RecordsMatch
<1>1. IInv => RecordsMatch
  BY DEF IInv, RecordsMatch
<1> QED BY <1>1, Invariance, PTL

\* A reconnect sequence the host has accepted, or may still receive, is never sent
\* again: beginReconnect stores the next one before the request leaves.
THEOREM FreshSequences == Spec => []SequencesFresh
<1>1. IInv => SequencesFresh
  BY DEF IInv
<1> QED BY <1>1, Invariance, PTL

\* The recovery on availability never refuses an honest peer's commit: a resent
\* acknowledgement, activation, proposal or completion finds a record that takes it.
THEOREM CommitRecovery == Spec => []CommitsAccepted
<1>1. ASSUME IInv PROVE CommitsAccepted
  <2>1. /\ toHost \in Seq(Events) /\ toViewer \in Seq(Events) /\ host.record \in HostRecords
        /\ host.record.state \in {"none", "pending", "acceptedReceived", "active"}
    BY <1>1, Typed, HostRecordFields DEF IInv
  <2>2. /\ toHost # <<>> => Head(toHost) \in Sent(toHost, Head(toHost).type)
        /\ toViewer # <<>> => Head(toViewer) \in Sent(toViewer, Head(toViewer).type)
    BY <2>1, HeadHeld DEF Sent
  <2>3. toHost # <<>> /\ Head(toHost).type = "acknowledgement" =>
          host.record.state \in AcknowledgementStates("availability")
    <3>1. toHost # <<>> /\ Head(toHost).type = "acknowledgement" => HostRank(host.record) >= 2
      BY <1>1, <2>2 DEF IInv, ToHost
    <3> QED BY <2>1, <3>1, HostPhases DEF AcknowledgementStates
  <2>4. toHost # <<>> /\ Head(toHost).type = "activation" =>
          AcceptsActivation(host.record, Head(toHost).pair)
    <3>1. toHost # <<>> /\ Head(toHost).type = "activation" =>
            HostRank(host.record) >= 3 /\ host.record.pair = Head(toHost).pair
      BY <1>1, <2>2 DEF IInv, ToHost
    <3> QED BY <2>1, <3>1, HostPhases DEF AcceptsActivation
  <2>5. viewer.mode = "availability" /\ toViewer # <<>> =>
          /\ Head(toViewer).type = "proposal" => viewerDisk.state \in {"pending", "acceptedIssued"}
          /\ Head(toViewer).type = "completion" => viewerDisk.state \in {"acceptedIssued", "active"}
    BY <1>1, <2>2 DEF IInv, ToViewer
  <2> QED BY <2>3, <2>4, <2>5 DEF CommitsAccepted
<1> QED BY <1>1, Invariance, PTL

\* No stored record of a pair falls back to an earlier phase or a lower sequence,
\* although WorldwideHostCoordinator retries with a record in memory that a failed
\* save has left behind the one on disk.
THEOREM NoFallback == Spec => RecordsAdvance
<1>1. IInv /\ [Next]_vars =>
        [ /\ hostDisk'.pair = hostDisk.pair =>
               HostRank(hostDisk') >= HostRank(hostDisk) /\ hostDisk'.highest >= hostDisk.highest
          /\ viewerDisk'.pair = viewerDisk.pair =>
               ViewerRank(viewerDisk') >= ViewerRank(viewerDisk) /\ viewerDisk'.next >= viewerDisk.next
        ]_vars
  BY NextKeeps DEF RecordsAdvanceStep
<1> QED BY <1>1, Invariance, PTL DEF Spec, RecordsAdvance
=============================================================================
