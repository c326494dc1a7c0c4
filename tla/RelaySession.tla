---- MODULE RelaySession ----
(***************************************************************************)
(* The relay tier: the switchboard's RelayLink, the SessionRelay object    *)
(* between them, and the TunnelClient of each paired browser.              *)
(*                                                                         *)
(* A client that connects gets a connection id; the relay prefixes its     *)
(* frames with that id for the host and strips it on the way back.  Over   *)
(* each connection the two ends agree on keys (msg1, msg2, msg3) and then  *)
(* seal packets under counters, so one frame lost, repeated or sent to     *)
(* the wrong session makes every later one unreadable.  Each of the three  *)
(* parties learns of the others' departure in its own time.                *)
(*                                                                         *)
(* Keys are known by the generation of the host socket they were agreed    *)
(* over.  A frame takes its effect at the relay when it is sent; each      *)
(* direction beyond the relay is a FIFO.  The faults (a socket lost on one *)
(* side, a timer that fires early, recover()) are bounded by MaxFaults.    *)
(***************************************************************************)
EXTENDS Naturals, FiniteSets, SequencesExt

CONSTANTS
  Device,      \* enrolled browsers
  Newcomer,    \* devices that enroll during the run
  ConnId,      \* connection ids, from 1; one is used again once nothing recalls it
  MaxClients,  \* MAX_CLIENTS of the relay
  MaxFaults,   \* sockets lost, timers that fire early
  MaxPackets,  \* packets each end sends over one channel
  MaxRevokes   \* revocations

ASSUME SessionConstants ==
  /\ MaxClients \in Nat \ {0}
  /\ {MaxFaults, MaxPackets, MaxRevokes} \subseteq Nat
  /\ Device \cap Newcomer = {}
  /\ ConnId \subseteq Nat \ {0}

NoHost == 0
NoConn == 0

VARIABLES
  hsock,    \* RelayLink.socket: the generation of the host's socket, or NoHost
  rhost,    \* the generation of the host socket OPEN at the relay, or NoHost
  gen,      \* host sockets so far
  hconn,    \* RelayLink.conns and retiredConns: phase and counters by id
  up,       \* frames and controls on their way to the host
  rconn,    \* the relay's socket of each connection: open, retired or closed
  owner,    \* whose connection it is
  down,     \* frames and notices on their way to each connection's client
  client,   \* TunnelClient of each device
  peers,    \* peers.json
  known,    \* DeviceKeyStore.knownPeerIds of the daemon
  missed,   \* revocations in another process that no listener was told of
  faults, revokes

relayVars == <<hsock, rhost, gen, hconn, up, rconn, owner, down, client, peers, known, missed,
               faults, revokes>>
hostVars == <<hsock, gen, hconn>>
cryptoVars == <<peers, known, missed, revokes>>

----
(* Helpers *)

\* A channel end, with the packets it has sealed and opened so far.
NoSession == [phase |-> "none", sent |-> 0, opened |-> 0]
Idle == [state |-> "idle", conn |-> NoConn, key |-> NoHost, sent |-> 0, opened |-> 0]

At(d, i) == client[d].conn = i
Attached(i) == \E d \in Device : At(d, i)

\* The relay's next_conn_id is never used twice; here an id is fresh when
\* neither end nor anything under way recalls it.
FreshConn(i) ==
  /\ ~Attached(i)
  /\ rconn[i] = "closed"
  /\ hconn[i].phase = "none"
  /\ \A k \in DOMAIN up : up[k].conn # i

\* The relay counts the sockets it has not retired.
ActiveClients == {i \in ConnId : rconn[i] = "open"}

\* webSocketMessage, client to host.
Upstream(queue, frame) ==
  IF rconn[frame.conn] = "open" /\ rhost # NoHost /\ rhost = hsock
    THEN Append(queue, frame)
    ELSE queue

\* webSocketMessage, host to client: only the OPEN host reaches a client, and
\* only one whose socket is open.
Downstream(i, frame) ==
  IF rhost = hsock /\ rconn[i] = "open" /\ Attached(i)
    THEN [down EXCEPT ![i] = Append(@, frame)]
    ELSE down

\* safeSend of a notice to every client socket still open.
Announced(frame) ==
  [i \in ConnId |-> IF rconn[i] = "open" /\ Attached(i) THEN Append(down[i], frame) ELSE down[i]]

Absent == [kind |-> "host-disconnected"]
CloseFrame == [kind |-> "close"]

----
(* The relay *)

SessionInit ==
  /\ hsock = NoHost /\ rhost = NoHost /\ gen = 0
  /\ hconn = [i \in ConnId |-> NoSession]
  /\ up = <<>>
  /\ rconn = [i \in ConnId |-> "closed"]
  /\ owner = [i \in ConnId |-> CHOOSE d \in Device : TRUE]
  /\ down = [i \in ConnId |-> <<>>]
  /\ client = [d \in Device |-> Idle]
  /\ peers = Device /\ known = Device /\ missed = {}
  /\ faults = 0 /\ revokes = 0

\* A variant that acceptHost is not: connections are carried over to the new host.
CarriedOver(i) == rconn[i]

\* acceptHost retires every client it finds: their keys belong to another host.
RetiredByHost(i) == IF rconn[i] = "open" THEN "retired" ELSE rconn[i]

\* connect, acceptHost: the newest host wins.
HostConnects ==
  /\ hsock = NoHost
  /\ gen' = gen + 1
  /\ hsock' = gen + 1 /\ rhost' = gen + 1
  /\ down' = Announced(CloseFrame)
  /\ rconn' = [i \in ConnId |-> RetiredByHost(i)]
  /\ UNCHANGED <<hconn, up, owner, client, cryptoVars, faults>>

\* acceptClient; the client's onopen sends msg1.
Dial(d) ==
  /\ client[d].state = "idle"
  /\ Cardinality(ActiveClients) < MaxClients
  /\ LET i == CHOOSE j \in ConnId : FreshConn(j)
     IN /\ \E j \in ConnId : FreshConn(j)
        /\ rconn' = [rconn EXCEPT ![i] = "open"]
        /\ owner' = [owner EXCEPT ![i] = d]
        /\ down' = [down EXCEPT ![i] = IF rhost = NoHost THEN <<Absent>> ELSE <<>>]
        /\ client' = [client EXCEPT ![d] = [Idle EXCEPT !.state = "hello", !.conn = i]]
        /\ up' = IF rhost # NoHost /\ rhost = hsock
                   THEN Append(up, [conn |-> i, kind |-> "msg1"])
                   ELSE up
  /\ UNCHANGED <<hostVars, rhost, cryptoVars, faults>>

\* webSocketClose of a client: the host hears of it unless a newer host retired the
\* connection.  webSocketError of one: nobody hears of it.
ClientSocketCloses(i) ==
  /\ \/ rconn[i] = "open" /\ up' = Upstream(up, [conn |-> i, kind |-> "client-disconnected"])
     \/ up' = up
  /\ rconn' = [rconn EXCEPT ![i] = "closed"]

RelayHearsClient(i) ==
  /\ rconn[i] # "closed" /\ ~Attached(i)
  /\ ClientSocketCloses(i)
  /\ UNCHANGED <<hostVars, rhost, owner, down, client, cryptoVars, faults>>

\* The relay loses a socket its client still believes in.
RelayLosesClient(i) ==
  /\ rconn[i] = "open" /\ Attached(i)
  /\ faults < MaxFaults /\ faults' = faults + 1
  /\ ClientSocketCloses(i)
  /\ UNCHANGED <<hostVars, rhost, owner, down, client, cryptoVars>>

\* webSocketClose of the host, no other host being open; webSocketError of it, which
\* is not announced: the next host will close the clients.
HostSocketCloses ==
  /\ rhost' = NoHost
  /\ down' \in {Announced(Absent), down}
  /\ UNCHANGED <<hostVars, up, rconn, owner, client, cryptoVars>>

RelayHearsHost ==
  /\ rhost # NoHost /\ rhost # hsock
  /\ HostSocketCloses
  /\ UNCHANGED faults

RelayLosesHost ==
  /\ rhost # NoHost /\ rhost = hsock
  /\ faults < MaxFaults /\ faults' = faults + 1
  /\ HostSocketCloses

----
(* The browser: TunnelClient *)

\* fail, onDisconnect, retireCurrentTransport: the socket is closed and nothing
\* of the session is kept; the retry timer dials again.
Dropped(d) ==
  /\ client' = [client EXCEPT ![d] = Idle]
  /\ down' = [down EXCEPT ![client[d].conn] = <<>>]

ClientReads(d) ==
  LET c == client[d]
      i == c.conn
      m == Head(down[i])
      Read == down' = [down EXCEPT ![i] = Tail(@)]
  IN /\ c.state # "idle" /\ down[i] # <<>>
     /\ \/ /\ m.kind \in {"host-disconnected", "close"}
           /\ Dropped(d)
           /\ UNCHANGED up
        \/ /\ m.kind = "msg2" /\ c.state = "hello"
           /\ Read
           /\ client' = [client EXCEPT ![d].state = "up", ![d].key = m.key]
           /\ up' = Upstream(up, [conn |-> i, kind |-> "msg3", key |-> m.key])
        \/ /\ m.kind = "packet" /\ c.state = "up"
           /\ Read
           /\ client' = [client EXCEPT ![d].opened = @ + 1]
           /\ UNCHANGED up
     /\ UNCHANGED <<hostVars, rhost, rconn, owner, cryptoVars, faults>>

ClientSends(d) ==
  LET c == client[d]
  IN /\ c.state = "up" /\ c.sent < MaxPackets
     /\ client' = [client EXCEPT ![d].sent = @ + 1]
     /\ up' = Upstream(up, [conn |-> c.conn, kind |-> "packet", key |-> c.key, n |-> c.sent])
     /\ UNCHANGED <<hostVars, rhost, rconn, owner, down, cryptoVars, faults>>

\* A variant: without a keepalive only the handshake is watched.
UnwatchedAfterHello(d) ==
  LET i == client[d].conn
  IN /\ client[d].state = "hello" /\ down[i] = <<>>
     /\ rconn[i] # "open" \/ \A k \in DOMAIN up : up[k].conn # i

\* Nothing can come any more: the handshake timer or the keepalive will fire.
ClientIsStuck(d) ==
  LET i == client[d].conn
  IN /\ client[d].state # "idle" /\ down[i] = <<>>
     /\ \/ rconn[i] # "open"
        \/ /\ client[d].state = "hello"
           /\ \A k \in DOMAIN up : up[k].conn # i

ClientTimesOut(d) ==
  /\ ClientIsStuck(d)
  /\ Dropped(d)
  /\ UNCHANGED <<hostVars, rhost, rconn, owner, up, cryptoVars, faults>>

\* recover(), a slow handshake, a socket lost on this side.
ClientGivesUp(d) ==
  /\ client[d].state # "idle"
  /\ faults < MaxFaults /\ faults' = faults + 1
  /\ Dropped(d)
  /\ UNCHANGED <<hostVars, rhost, rconn, owner, up, cryptoVars>>

----
(* The host: RelayLink *)

\* handleSocketDown, stop.
LinkDown ==
  /\ hsock # NoHost
  /\ hsock' = NoHost
  /\ hconn' = [i \in ConnId |-> NoSession]
  /\ up' = <<>>
  /\ UNCHANGED <<rhost, gen, rconn, owner, down, client, cryptoVars>>

\* The keepalive finds a socket the relay has lost.
HostTimesOut == rhost # hsock /\ LinkDown /\ UNCHANGED faults

\* The socket fails on this side, or restart().
HostGivesUp == faults < MaxFaults /\ faults' = faults + 1 /\ LinkDown

Forgotten(i) == hconn' = [hconn EXCEPT ![i] = NoSession]

\* onRelayMessage, handleConn.  A frame that does not fit the phase has no
\* branch here: SessionsAreWhole says that none ever comes.
HandleUp ==
  LET m == Head(up)
      i == m.conn
      phase == hconn[i].phase
  IN \/ /\ m.kind = "client-disconnected"
        /\ Forgotten(i)
        /\ UNCHANGED down
     \/ /\ m.kind # "client-disconnected" /\ phase = "retired"
        /\ UNCHANGED <<hconn, down>>
     \/ /\ m.kind = "msg1" /\ phase = "none" /\ owner[i] \notin peers
        /\ UNCHANGED <<hconn, down>>
     \/ /\ m.kind = "msg1" /\ phase = "none" /\ owner[i] \in peers
        /\ hconn' = [hconn EXCEPT ![i] = [NoSession EXCEPT !.phase = "msg3"]]
        /\ down' = Downstream(i, [kind |-> "msg2", key |-> hsock])
     \/ /\ m.kind = "msg3" /\ phase = "msg3"
        /\ hconn' = [hconn EXCEPT ![i].phase = "data"]
        /\ UNCHANGED down
     \/ /\ m.kind = "packet" /\ phase = "data"
        /\ hconn' = [hconn EXCEPT ![i].opened = @ + 1]
        /\ UNCHANGED down

HostReads ==
  /\ hsock # NoHost /\ up # <<>>
  /\ HandleUp
  /\ up' = Tail(up)
  /\ UNCHANGED <<hsock, gen, rhost, rconn, owner, client, cryptoVars, faults>>

HostSends(i) ==
  /\ hconn[i].phase = "data" /\ hconn[i].sent < MaxPackets
  /\ hconn' = [hconn EXCEPT ![i].sent = @ + 1]
  /\ down' = Downstream(i, [kind |-> "packet", key |-> hsock, n |-> hconn[i].sent])
  /\ UNCHANGED <<hsock, gen, rhost, up, rconn, owner, client, cryptoVars, faults>>

----
(* Revocation: DeviceKeyStore and its listeners in up.ts *)

\* A variant: a session half agreed goes on.
DataDroppedBy(gone, i) ==
  IF hconn[i].phase = "data" /\ owner[i] \in gone
    THEN [NoSession EXCEPT !.phase = "retired"]
    ELSE hconn[i]

\* dropDevice: whatever the phase, the connection is retired until the relay
\* says that its client is gone.
DroppedBy(gone, i) ==
  IF hconn[i].phase \in {"msg3", "data"} /\ owner[i] \in gone
    THEN [NoSession EXCEPT !.phase = "retired"]
    ELSE hconn[i]

dropDevices(gone) == hconn' = [i \in ConnId |-> DroppedBy(gone, i)]

Uninvolved == <<hsock, rhost, gen, up, rconn, owner, down, client, faults>>

\* DELETE /api/devices/:id, in the daemon.
RevokeHere(d) ==
  /\ revokes < MaxRevokes /\ revokes' = revokes + 1
  /\ d \in peers
  /\ peers' = peers \ {d} /\ known' = peers'
  /\ missed' = missed \cup (known \ peers)
  /\ dropDevices({d})
  /\ UNCHANGED Uninvolved

\* codor revoke, another process: the daemon learns of it by watching the file.
RevokeByCli(d) ==
  /\ revokes < MaxRevokes /\ revokes' = revokes + 1
  /\ d \in peers
  /\ peers' = peers \ {d}
  /\ UNCHANGED <<known, missed, hconn, Uninvolved>>

\* detectExternalRevokes, every 100 ms.
DetectExternalRevokes ==
  /\ known # peers
  /\ dropDevices(known \ peers)
  /\ known' = peers
  /\ UNCHANGED <<peers, missed, revokes, Uninvolved>>

\* enrollPeer in the daemon: writePeers takes the file as the known peers.
EnrollPeer(e) ==
  /\ e \notin peers
  /\ peers' = peers \cup {e} /\ known' = peers'
  /\ missed' = missed \cup (known \ peers)
  /\ UNCHANGED <<hconn, revokes, Uninvolved>>

----
SessionNext ==
  \/ HostConnects \/ HostTimesOut \/ HostGivesUp \/ HostReads
  \/ RelayHearsHost \/ RelayLosesHost
  \/ \E i \in ConnId : RelayHearsClient(i) \/ RelayLosesClient(i) \/ HostSends(i)
  \/ \E d \in Device : Dial(d) \/ ClientReads(d) \/ ClientSends(d)
                         \/ ClientTimesOut(d) \/ ClientGivesUp(d)
                         \/ RevokeHere(d) \/ RevokeByCli(d)
  \/ DetectExternalRevokes
  \/ \E e \in Newcomer : EnrollPeer(e)

SessionSpec == SessionInit /\ [][SessionNext]_relayVars

\* Timers fire, sockets deliver, and a party notices in the end that the other
\* is gone: by a close frame, or by two unanswered probes.
SessionFairness ==
  /\ WF_relayVars(HostConnects) /\ WF_relayVars(HostTimesOut) /\ WF_relayVars(HostReads)
  /\ WF_relayVars(RelayHearsHost) /\ WF_relayVars(DetectExternalRevokes)
  /\ \A i \in ConnId : WF_relayVars(RelayHearsClient(i))
  /\ \A d \in Device : /\ SF_relayVars(Dial(d)) /\ WF_relayVars(ClientReads(d))
                       /\ WF_relayVars(ClientTimesOut(d))

SessionFairSpec == SessionSpec /\ SessionFairness

----
(* Properties *)

Fits(m) ==
  LET s == hconn[m.conn]
  IN CASE m.kind = "client-disconnected" -> TRUE
       [] m.kind = "msg1" -> s.phase \in {"none", "retired"}
       [] m.kind = "msg3" -> s.phase = "retired" \/ (s.phase = "msg3" /\ m.key = hsock)
       [] m.kind = "packet" -> s.phase = "retired" \/ (s.phase = "data" /\ m.key = hsock /\ m.n = s.opened)

FitsClient(d, m) ==
  LET c == client[d]
  IN CASE m.kind \in {"host-disconnected", "close"} -> TRUE
       [] m.kind = "msg2" -> c.state = "hello"
       [] m.kind = "packet" -> c.state = "up" /\ m.key = c.key /\ m.n = c.opened

\* Whatever the order in which the three parties lose and replace their sockets,
\* the next frame each end reads is one its session can take: a handshake message
\* in its turn, a packet sealed under the keys of this very session with the
\* counter this end expects.  No ciphertext is ever taken for msg1, no packet of
\* a dead session reaches a new one (handleConn, onmessage; AeadReceiver.open).
SessionsAreWhole ==
  /\ up # <<>> => Fits(Head(up))
  /\ \A d \in Device : client[d].state # "idle" /\ down[client[d].conn] # <<>>
                         => FitsClient(d, Head(down[client[d].conn]))

\* A device that is revoked has no session with the host, not even one half
\* agreed, unless the daemon is still about to look at the file in which another
\* process revoked it, or an enrollment made it take that file for its own
\* (revokePeer, onPeerRevoked, detectExternalRevokes, dropDevice).
RevokedAreDropped ==
  \A i \in ConnId :
    hconn[i].phase \in {"msg3", "data"} => owner[i] \in peers \cup known \cup missed

\* The same without the second exception.
RevokedAreAlwaysDropped ==
  \A i \in ConnId : hconn[i].phase \in {"msg3", "data"} => owner[i] \in peers \cup known

\* A browser whose tunnel is up speaks with the host there is.
Joined(d) ==
  LET i == client[d].conn
  IN /\ client[d].state = "up"
     /\ rconn[i] = "open" /\ rhost = hsock /\ hsock # NoHost
     /\ client[d].key = hsock
     /\ hconn[i].phase \in {"msg3", "data"}

\* Once there is a host and the faults are over, every device that is still enrolled ends up in a
\* session with the current host and stays there: no stale socket, zombie slot,
\* swallowed msg1 or missed notice strands it (startAttempt, onDisconnect,
\* handleSocketDown, acceptHost, acceptClient).
EveryoneJoins == <>(gen > 0) => \A d \in Device : <>[](d \in peers => Joined(d))
====
