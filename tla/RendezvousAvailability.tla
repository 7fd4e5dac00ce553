------------------------ MODULE RendezvousAvailability ------------------------
(***************************************************************************)
(* The Durable Object of one paired-device availability channel: the       *)
(* availability half of RendezvousSession in                               *)
(* services/RendezvousWorker/src/index.js.                                 *)
(*                                                                         *)
(* The stored record is written once, by the first host join, and never    *)
(* changed, so all the moving state is in the sockets' attachments.  A     *)
(* join has no await after that write, messages are handled synchronously  *)
(* and departures are queued, so every handler is one action.              *)
(*                                                                         *)
(* Data abstraction: exchange IDs are a counter with 0 for null; a socket  *)
(* is its own connectionID; joins with a wrong proof change nothing and    *)
(* are left out, and so is the rejected socket of a refused join.  live    *)
(* tells whether the client end still exists: the edge may keep a socket   *)
(* OPEN long after its client is gone.                                     *)
(***************************************************************************)
EXTENDS Naturals

CONSTANTS Sockets,       \* identities of the server ends of WebSockets
          NoSocket,      \* not a socket
          MaxExchange,   \* bound: exchanges started
          MaxSequence,   \* bound: signals forwarded per socket and exchange
          MaxFaults      \* bound: lost clients, failed sends, bad messages,
                         \*        duplicate joins

ASSUME NoSocketAssumption == NoSocket \notin Sockets
ASSUME BoundsAssumption == /\ MaxExchange \in Nat
                           /\ MaxSequence \in Nat
                           /\ MaxFaults \in Nat

VARIABLES
  registered,    \* the availability record exists
  sock,          \* the sockets: readyState and serialized attachment
  lastExchange,  \* exchanges issued so far (randomExchangeID)
  received,      \* signals forwarded to a socket since its last ready
  acked,         \* the socket the last probe acknowledgement went to
  faults         \* faults so far

vars == <<registered, sock, lastExchange, received, acked, faults>>

Roles == {"host", "viewer"}

Opposite(role) == IF role = "host" THEN "viewer" ELSE "host"

Attachments ==
  [state : {"free", "open", "closing", "closed"}, role : Roles \cup {"none"},
   exchangeID : Nat, nextSequence : Nat, departed : BOOLEAN, live : BOOLEAN]

FreeSocket ==
  [state |-> "free", role |-> "none", exchangeID |-> 0, nextSequence |-> 0,
   departed |-> FALSE, live |-> FALSE]

\* newAvailabilityAttachment and acceptAvailabilityWebSocket.
NewAttachment(role, exchange) ==
  [state |-> "open", role |-> role, exchangeID |-> exchange, nextSequence |-> 0,
   departed |-> FALSE, live |-> TRUE]

TypeOK ==
  /\ registered \in BOOLEAN
  /\ sock \in [Sockets -> Attachments]
  /\ lastExchange \in Nat
  /\ received \in [Sockets -> Nat]
  /\ acked \in Sockets \cup {NoSocket}
  /\ faults \in Nat

Init ==
  /\ registered = FALSE
  /\ sock = [s \in Sockets |-> FreeSocket]
  /\ lastExchange = 0
  /\ received = [s \in Sockets |-> 0]
  /\ acked = NoSocket
  /\ faults = 0

-----------------------------------------------------------------------------
First(S) == CHOOSE s \in S : TRUE

\* attachedAvailabilityRoleSockets: not departed, whatever the readyState.
AttachedSockets(sk, role) == {s \in Sockets : sk[s].role = role /\ ~sk[s].departed}

\* availabilityRoleSockets without CLOSING ones.
OpenSockets(sk, role) == {s \in AttachedSockets(sk, role) : sk[s].state = "open"}

\* The same, of one exchange.
ExchangeSockets(sk, role, exchange) ==
  {s \in OpenSockets(sk, role) : sk[s].exchangeID = exchange}

Closing(sk, S) ==
  [s \in Sockets |-> IF s \in S /\ sk[s].state = "open"
                     THEN [sk[s] EXCEPT !.state = "closing"] ELSE sk[s]]

\* Mutant: the superseded socket is not fenced at all.
NotRetired(sk, role) == sk

\* retireAvailabilityRoleSocketsForReplacement: departed first, then closed.
Retired(sk, role) ==
  [s \in Sockets |->
     IF s \in AttachedSockets(sk, role)
     THEN [sk[s] EXCEPT !.departed = TRUE,
                        !.state = IF @ = "open" THEN "closing" ELSE @]
     ELSE sk[s]]

Unpaired(sk, s) == [sk EXCEPT ![s].exchangeID = 0, ![s].nextSequence = 0]

Fault == faults < MaxFaults /\ faults' = faults + 1

\* A client with a connection of its own joins again only as a fault.
Connected(role) ==
  \E s \in Sockets : sock[s].role = role /\ sock[s].state = "open" /\ sock[s].live

JoinFault(role) == IF Connected(role) THEN Fault ELSE UNCHANGED faults

-----------------------------------------------------------------------------
(* handleAvailabilityJoin. *)

\* A viewer join that finds a viewer attached, or the host still paired.
ReplacesViewerExchange(role) ==
  /\ role = "viewer"
  /\ \/ AttachedSockets(sock, "viewer") # {}
     \/ OpenSockets(sock, "host") # {} /\ sock[First(OpenSockets(sock, "host"))].exchangeID # 0

\* Mutant: the paired host is left alone.
ViewerResetsOnlyItself ==
  /\ registered
  /\ ReplacesViewerExchange("viewer")
  /\ JoinFault("viewer")
  /\ sock' = Retired(sock, "viewer")
  /\ UNCHANGED <<registered, lastExchange, received, acked>>

\* It retires both sides and is itself refused: the host must register again.
ViewerForcesReset ==
  /\ registered
  /\ ReplacesViewerExchange("viewer")
  /\ JoinFault("viewer")
  /\ sock' = Retired(Retired(sock, "viewer"), "host")
  /\ UNCHANGED <<registered, lastExchange, received, acked>>

\* A host with no open viewer replaces any other host and waits; the first
\* host join also writes the record.
HostWaits(s) ==
  /\ OpenSockets(sock, "viewer") = {}
  /\ sock[s].state = "free"
  /\ JoinFault("host")
  /\ registered' = TRUE
  /\ sock' = [Retired(sock, "host") EXCEPT ![s] = NewAttachment("host", 0)]
  /\ received' = [received EXCEPT ![s] = 0]
  /\ UNCHANGED <<lastExchange, acked>>

\* The sockets once the newcomer s is bound to its open peer by a fresh exchange.
Paired(role, s, peer, exchange) ==
  [Retired(sock, role) EXCEPT ![peer].exchangeID = exchange,
                              ![peer].nextSequence = 0,
                              ![s] = NewAttachment(role, exchange)]

CanPair(role, s) ==
  /\ registered
  /\ ~ReplacesViewerExchange(role)
  /\ OpenSockets(sock, Opposite(role)) # {}
  /\ sock[s].state = "free"

StartExchange(role, s) ==
  LET peer == First(OpenSockets(sock, Opposite(role)))
  IN  /\ CanPair(role, s)
      /\ lastExchange < MaxExchange
      /\ JoinFault(role)
      /\ lastExchange' = lastExchange + 1
      /\ sock' = Paired(role, s, peer, lastExchange + 1)
      /\ received' = [received EXCEPT ![s] = 0, ![peer] = 0]
      /\ UNCHANGED <<registered, acked>>

\* serializeAttachment of the peer throws: the peer's side is retired, a host
\* waits alone, a viewer is refused.
PeerUnwritable(role, s) ==
  /\ CanPair(role, s)
  /\ Fault
  /\ sock' = LET sk == Retired(Retired(sock, role), Opposite(role))
             IN  IF role = "host" THEN [sk EXCEPT ![s] = NewAttachment("host", 0)] ELSE sk
  /\ received' = [received EXCEPT ![s] = 0]
  /\ UNCHANGED <<registered, lastExchange, acked>>

\* One ready event could not be sent: the host side goes back to waiting (or
\* is closed when it is the one that failed), the viewer side is closed.
ReadyFails(role, s, hostReached) ==
  LET peer   == First(OpenSockets(sock, Opposite(role)))
      paired == Paired(role, s, peer, lastExchange + 1)
      host   == IF role = "host" THEN s ELSE peer
      reset  == Unpaired(paired, host)
      left   == IF role = "host" THEN Retired(reset, "viewer") ELSE Closing(reset, {s})
  IN  /\ CanPair(role, s)
      /\ lastExchange < MaxExchange
      /\ Fault
      /\ lastExchange' = lastExchange + 1
      /\ sock' = IF hostReached THEN left ELSE Closing(left, {host})
      /\ received' = [received EXCEPT ![s] = 0, ![peer] = 0]
      /\ UNCHANGED <<registered, acked>>

-----------------------------------------------------------------------------
(* handleAvailabilityMessage and handleAvailabilityProbe. *)

\* A signal or probe on a departed socket: the client learns that it was fenced.
RefuseDeparted(s) ==
  /\ sock[s].state = "open"
  /\ sock[s].departed
  /\ sock' = Closing(sock, {s})
  /\ UNCHANGED <<registered, lastExchange, received, acked, faults>>

\* Malformed, wrong exchange or sequence, rate limited, unpaired, or a probe from
\* anyone but the current host.
RejectMessage(s) ==
  /\ sock[s].state = "open"
  /\ Fault
  /\ sock' = Closing(sock, {s})
  /\ UNCHANGED <<registered, lastExchange, received, acked>>

\* Without an open partner of the same exchange a signal only earns an error.
ForwardSignal(s) ==
  LET partners == ExchangeSockets(sock, Opposite(sock[s].role), sock[s].exchangeID)
  IN  /\ sock[s].role \in Roles
      /\ ~sock[s].departed
      /\ sock[s].exchangeID # 0
      /\ partners # {}
      /\ sock[s].nextSequence < MaxSequence
      /\ sock' = [sock EXCEPT ![s].nextSequence = @ + 1]
      /\ received' = [received EXCEPT ![First(partners)] = @ + 1]
      /\ UNCHANGED <<registered, lastExchange, acked, faults>>

\* Mutant: any attached host is taken for the current one.
AnyHost(s) == ~sock[s].departed /\ sock[s].role = "host"

\* The sender is the current host: connectionID of the first open host.
AuthorizedHost(s) ==
  /\ ~sock[s].departed
  /\ sock[s].role = "host"
  /\ OpenSockets(sock, "host") # {}
  /\ First(OpenSockets(sock, "host")) = s

AckProbe(s) ==
  /\ registered
  /\ AuthorizedHost(s)
  /\ acked' = s
  /\ UNCHANGED <<registered, sock, lastExchange, received, faults>>

-----------------------------------------------------------------------------
(* handleAvailabilityDeparture. *)

\* Mutant: the partner is not told.
LeftAlone(sk, s) == [sk EXCEPT ![s].departed = TRUE]

\* Only the open partner of the leaver's own exchange is touched: a host goes
\* back to waiting, a viewer is fenced and closed.
DepartedSockets(sk, s) ==
  LET left    == [sk EXCEPT ![s].departed = TRUE]
      partner == ExchangeSockets(left, Opposite(sk[s].role), sk[s].exchangeID)
  IN  CASE sk[s].exchangeID = 0 \/ partner = {} -> left
        [] sk[s].exchangeID # 0 /\ partner # {} /\ sk[s].role = "viewer" ->
             Unpaired(left, First(partner))
        [] OTHER -> [left EXCEPT ![First(partner)].departed = TRUE,
                                 ![First(partner)].state = "closing"]

\* webSocketClose, and webSocketError for a socket that may still be open.
Departure(s) ==
  /\ sock[s].state # "free"
  /\ ~sock[s].departed
  /\ IF sock[s].state = "open" THEN Fault ELSE UNCHANGED faults
  /\ sock' = DepartedSockets(sock, s)
  /\ UNCHANGED <<registered, lastExchange, received, acked>>

-----------------------------------------------------------------------------
(* The network. *)

\* The client end disappears; the server still sees OPEN.
ClientLost(s) ==
  /\ sock[s].state = "open" /\ sock[s].live
  /\ Fault
  /\ sock' = [sock EXCEPT ![s].live = FALSE]
  /\ UNCHANGED <<registered, lastExchange, received, acked>>

\* The closing handshake completes, or the edge notices a lost client.
SocketCloses(s) ==
  /\ sock[s].state = "closing" \/ (sock[s].state = "open" /\ ~sock[s].live)
  /\ sock' = [sock EXCEPT ![s].state = "closed", ![s].live = FALSE]
  /\ UNCHANGED <<registered, lastExchange, received, acked, faults>>

SocketForgotten(s) ==
  /\ sock[s].state = "closed"
  /\ sock[s].departed
  /\ sock' = [sock EXCEPT ![s] = FreeSocket]
  /\ received' = [received EXCEPT ![s] = 0]
  /\ UNCHANGED <<registered, lastExchange, acked, faults>>

-----------------------------------------------------------------------------
HostJoin == \E s \in Sockets : HostWaits(s) \/ StartExchange("host", s)

ViewerJoin == ViewerForcesReset \/ \E s \in Sockets : StartExchange("viewer", s)

Next ==
  \/ HostJoin
  \/ ViewerJoin
  \/ \E role \in Roles, s \in Sockets : PeerUnwritable(role, s)
  \/ \E role \in Roles, s \in Sockets, hostReached \in BOOLEAN :
       ReadyFails(role, s, hostReached)
  \/ \E s \in Sockets : \/ RefuseDeparted(s) \/ RejectMessage(s)
                        \/ ForwardSignal(s) \/ AckProbe(s)
                        \/ Departure(s) \/ ClientLost(s)
                        \/ SocketCloses(s) \/ SocketForgotten(s)

Spec == Init /\ [][Next]_vars

(***************************************************************************)
(* A host without a connection registers again, a viewer without one       *)
(* retries, a closing socket finishes closing, the callback of a closed    *)
(* socket is delivered and the runtime forgets it; a client keeps sending  *)
(* on the socket it believes in (the host's periodic probes), so it learns *)
(* that it was fenced.  Nothing obliges the edge to notice a lost client.  *)
(***************************************************************************)
Fairness ==
  /\ WF_vars(~Connected("host") /\ HostJoin)
  /\ WF_vars(~Connected("viewer") /\ ViewerJoin)
  /\ \A s \in Sockets : /\ WF_vars(sock[s].state = "closing" /\ SocketCloses(s))
                        /\ WF_vars(sock[s].state = "closed" /\ Departure(s))
                        /\ WF_vars(SocketForgotten(s))
                        /\ WF_vars(RefuseDeparted(s))

FairSpec == Spec /\ Fairness

-----------------------------------------------------------------------------
(* Properties. *)

LivePair(h, v) ==
  /\ h \in OpenSockets(sock, "host")
  /\ v \in OpenSockets(sock, "viewer")
  /\ sock[h].exchangeID = sock[v].exchangeID
  /\ sock[h].exchangeID # 0

\* At most one socket per role is attached, CLOSING and CLOSED ones included:
\* replacement always fences the superseded socket before the newcomer counts.
OneAttachedPerRole ==
  \A s, t \in Sockets :
    /\ sock[s].role = sock[t].role /\ sock[s].role \in Roles
    /\ ~sock[s].departed /\ ~sock[t].departed
    => s = t

\* Nobody waits in an exchange alone: an open viewer's exchange is its attached
\* host's, and an open host that is paired has a viewer attached to the same
\* exchange, through replacement, departure and failed sends alike.
NoHalfExchange ==
  \A s \in Sockets :
    /\ s \in OpenSockets(sock, "viewer") =>
         \E h \in AttachedSockets(sock, "host") :
           sock[h].exchangeID = sock[s].exchangeID /\ sock[s].exchangeID # 0
    /\ s \in OpenSockets(sock, "host") /\ sock[s].exchangeID # 0 =>
         \E v \in AttachedSockets(sock, "viewer") : sock[v].exchangeID = sock[s].exchangeID

\* In a live exchange each side has been forwarded exactly the signals the other
\* side's sequence counts since the exchange's ready event: no signal of an
\* earlier exchange is delivered into it and no sequence survives the rebinding.
SequencesInStep ==
  \A h, v \in Sockets :
    LivePair(h, v) => /\ received[v] = sock[h].nextSequence
                      /\ received[h] = sock[v].nextSequence

\* The attachments of the sockets describe one coherent channel after every
\* callback, replacement, fence and failed send: one socket per role, no half
\* exchange, and sequences that belong to the exchange.
AttachmentsCoherent ==
  TypeOK /\ OneAttachedPerRole /\ NoHalfExchange /\ SequencesInStep

\* While both sockets of an exchange stay open and attached no callback, probe
\* or join of another socket rebinds them or rewinds their sequences.
LiveExchangeKept ==
  [][ \A h, v \in Sockets :
        LivePair(h, v) /\ (\A s \in {h, v} : sock'[s].state = "open" /\ ~sock'[s].departed)
        => \A s \in {h, v} : /\ sock'[s].exchangeID = sock[s].exchangeID
                             /\ sock'[s].nextSequence >= sock[s].nextSequence ]_vars

\* A probe is acknowledged only to the one host a viewer would be paired with:
\* a superseded host keeps no proof of liveness.
ProbeProvesCurrentHost ==
  [][ acked' # acked => AttachedSockets(sock, "host") = {acked'}
                        /\ acked' \in OpenSockets(sock, "host") ]_vars

\* Once faults stop, host and viewer end up in an exchange of live clients and
\* stay there: stale sockets, late callbacks and forced resets do not make the
\* retries chase each other.
EventuallyPaired ==
  <>[](\E h, v \in Sockets : LivePair(h, v) /\ sock[h].live /\ sock[v].live)
=============================================================================
