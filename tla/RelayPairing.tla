---- MODULE RelayPairing ----
(***************************************************************************)
(* Pairing a browser by a code that opens two doors: the relay's           *)
(* PairingRoom, where the host's RelayPairingSession and the claimant run  *)
(* a password-authenticated exchange, and /api/pairing/exchange of the     *)
(* switchboard itself.  One grant of PairingService stands behind both.    *)
(*                                                                         *)
(* A claim is one run of claimThroughRoom with a tunnel key of its own.    *)
(* The room forwards a frame of the host to whichever claimant it has at   *)
(* that moment; frames to the host and to the claimant are FIFOs.  A run   *)
(* of the exchange is a number: the tags and keys of two runs differ, as   *)
(* do those of two secrets.                                                *)
(***************************************************************************)
EXTENDS Naturals, FiniteSets, SequencesExt

CONSTANTS
  Browser,      \* claimants through the relay
  Neighbour,    \* browsers at the local door
  MaxClaims,    \* claims in all
  MaxTries,     \* MAX_ATTEMPTS of the session and of the room
  MaxChurn,     \* MAX_CHURN of the room
  MayTear       \* may the daemon die between two writes of an enrollment?

NoClaim == 0
Claims == 1 .. MaxClaims
Nobody == "nobody"

ASSUME PairingConstants ==
  /\ {MaxClaims, MaxTries, MaxChurn} \subseteq Nat \ {0}
  /\ MayTear \in BOOLEAN
  /\ Nobody \notin Browser

VARIABLES
  room,       \* PairingRoom storage: reserved (or burned), attempts, churn
  slot,       \* the claim whose socket the room has, or NoClaim
  toHost,     \* frames on their way to the session
  toClaimant, \* frames on their way to that claim
  session,    \* RelayPairingSession: joined, phase, pake, tries, cached, closed
  grant,      \* the entry of pairing-tokens.json
  pairedKey,  \* RelayStore devices: the claim whose key the store holds
  guests,     \* devices enrolled by this grant
  claim,      \* the browser's side of each claim
  recorded,   \* recordPairedComputer: the claim whose key the browser keeps
  exchanged,  \* the neighbour that holds the rotated token
  torn        \* has the daemon died between enroll and burn?

pairingVars == <<room, slot, toHost, toClaimant, session, grant, pairedKey, guests,
                 claim, recorded, exchanged, torn>>
hostSide == <<session, grant, pairedKey, guests, torn>>
localDoor == <<exchanged>>

Unused == [who |-> Nobody, right |-> FALSE, state |-> "unused", pake |-> 0]

\* pair(): the room is reserved and the code registered as a grant.
PairingInit ==
  /\ room = [reserved |-> TRUE, attempts |-> 0, churn |-> 0]
  /\ slot = NoClaim /\ toHost = <<>> /\ toClaimant = <<>>
  /\ session = [joined |-> FALSE, phase |-> "idle", pake |-> 0, tries |-> 0,
                cached |-> Nobody, closed |-> FALSE, paired |-> FALSE]
  /\ grant = [live |-> TRUE, code |-> TRUE, token |-> "minted"]
  /\ pairedKey = [b \in Browser |-> NoClaim]
  /\ guests = {}
  /\ claim = [k \in Claims |-> Unused]
  /\ recorded = [b \in Browser |-> NoClaim]
  /\ exchanged = Nobody /\ torn = FALSE

----
(* The room *)

\* What the room forwards or tells the claimant it has.
Forwarded(frames) == IF slot = NoClaim THEN toClaimant ELSE toClaimant \o frames
ClosedNotice == [kind |-> "close"]

\* burn: both sockets are closed and the storage is wiped.
Burnt == [reserved |-> FALSE, attempts |-> 0, churn |-> 0]
Shut(s) == [s EXCEPT !.joined = FALSE, !.closed = TRUE]

RoomExpires ==
  /\ room.reserved
  /\ room' = Burnt
  /\ session' = Shut(session)
  /\ toClaimant' = Forwarded(<<ClosedNotice>>) /\ toHost' = <<>>
  /\ UNCHANGED <<slot, grant, pairedKey, guests, torn, claim, recorded, localDoor>>

\* The host's socket opens; a claimant that came first is not announced.
HostJoins ==
  /\ room.reserved /\ ~session.joined /\ ~session.closed
  /\ session' = [session EXCEPT !.joined = TRUE]
  /\ UNCHANGED <<room, slot, toHost, toClaimant, grant, pairedKey, guests, torn,
                 claim, recorded, localDoor>>

\* accept of a claimant: one at a time, and a bounded number of them.
ClaimStarts(b, right) ==
  /\ room.reserved /\ slot = NoClaim
  /\ \A k \in Claims : claim[k].who = b => claim[k].state \in {"done", "late", "lagged", "failed"}
  /\ \E k \in Claims :
       /\ k = 1 + Cardinality({j \in Claims : claim[j].state # "unused"})
       /\ claim' = [claim EXCEPT ![k] = [Unused EXCEPT !.who = b, !.right = right,
                      !.state = IF room.churn < MaxChurn THEN "waiting" ELSE "failed"]]
       /\ IF room.churn < MaxChurn
            THEN /\ room' = [room EXCEPT !.churn = @ + 1]
                 /\ slot' = k
                 /\ toHost' = IF session.joined THEN Append(toHost, [kind |-> "peer-joined"]) ELSE toHost
                 /\ UNCHANGED session
            ELSE /\ room' = Burnt
                 /\ session' = Shut(session) /\ toHost' = <<>>
                 /\ UNCHANGED slot
  /\ UNCHANGED <<toClaimant, grant, pairedKey, guests, torn, recorded, localDoor>>

----
(* The claimant: claimThroughRoom *)

\* fail, or the end: the socket is closed.
Leaves(state) ==
  /\ claim' = [claim EXCEPT ![slot].state = state]
  /\ slot' = NoClaim /\ toClaimant' = <<>>

\* A rejected claim that is recording its material goes on with that.
Rejected == IF claim[slot].state = "recording" THEN "late" ELSE "failed"

ToHost(frames) == toHost' = IF session.joined THEN toHost \o frames ELSE toHost
Becomes(new) == claim' = [claim EXCEPT ![slot] = new] /\ toClaimant' = Tail(toClaimant) /\ UNCHANGED slot

\* onmessage.  Frames of another run of the exchange reach it when claimants
\* follow each other quickly: a tag that does not fit ends the claim, as does a
\* second msgA; a sealed frame is ignored until there are keys to open it with.
ClaimReads ==
  LET c == claim[slot]
      m == Head(toClaimant)
  IN /\ slot # NoClaim /\ toClaimant # <<>>
     /\ \/ /\ m.kind = "msgA" /\ c.state = "waiting"
           /\ Becomes([c EXCEPT !.state = "answered", !.pake = m.pake])
           /\ ToHost(<<[kind |-> "msgB"],
                       [kind |-> "tagC", pake |-> m.pake, right |-> c.right]>>)
        \/ /\ m.kind = "tagH" /\ c.state = "answered" /\ m.pake = c.pake /\ c.right
           /\ Becomes([c EXCEPT !.state = "keyed"])
           /\ UNCHANGED toHost
        \/ /\ m.kind = "hello" /\ c.state = "keyed" /\ m.pake = c.pake
           /\ Becomes([c EXCEPT !.state = "enrolling"])
           /\ ToHost(<<[kind |-> "enroll", claim |-> slot]>>)
        \/ /\ m.kind = "enrolled" /\ c.state = "enrolling" /\ m.pake = c.pake
           /\ Becomes([c EXCEPT !.state = "recording"])
           /\ UNCHANGED toHost
        \/ /\ m.kind \in {"hello", "enrolled"} /\ c.state \in {"waiting", "answered"}
           /\ Becomes(c)
           /\ UNCHANGED toHost
        \/ /\ \/ m.kind = "close"
              \/ m.kind = "msgA" /\ c.state # "waiting"
              \/ m.kind = "tagH" /\ ~(c.state = "answered" /\ m.pake = c.pake /\ c.right)
              \/ m.kind \in {"hello", "enrolled"} /\ c.state \in {"keyed", "enrolling", "recording"} /\ m.pake # c.pake
           /\ Leaves(Rejected)
           /\ UNCHANGED toHost
     /\ UNCHANGED <<room, hostSide, recorded, localDoor>>

\* recordPairedComputer, then done.
Records ==
  /\ slot # NoClaim /\ claim[slot].state = "recording"
  /\ recorded' = [recorded EXCEPT ![claim[slot].who] = slot]
  /\ ToHost(<<[kind |-> "done"]>>)
  /\ Leaves("done")
  /\ UNCHANGED <<room, hostSide, localDoor>>

\* The deadline.
DeadlinePasses ==
  /\ slot # NoClaim
  /\ Leaves(Rejected)
  /\ UNCHANGED <<room, toHost, hostSide, recorded, localDoor>>

RecordsLate(k) ==
  /\ claim[k].state = "late"
  /\ recorded' = [recorded EXCEPT ![claim[k].who] = k]
  /\ claim' = [claim EXCEPT ![k].state = "lagged"]
  /\ UNCHANGED <<room, slot, toHost, toClaimant, hostSide, localDoor>>

----
(* The host: RelayPairingSession *)

\* failAttempt: the room closes the claimant it has and counts too.
FailAttempt ==
  LET tries == session.tries + 1
      dead == tries >= MaxTries \/ room.attempts + 1 >= MaxTries
  IN /\ toClaimant' = Forwarded(<<ClosedNotice>>)
     /\ room' = IF room.attempts + 1 >= MaxTries THEN Burnt ELSE [room EXCEPT !.attempts = @ + 1]
     /\ session' = LET s == [session EXCEPT !.tries = tries, !.phase = "idle"]
                   IN IF dead THEN Shut(s) ELSE s
     /\ toHost' = IF dead THEN <<>> ELSE Tail(toHost)

Sends(s, frames) ==
  /\ session' = s
  /\ toClaimant' = Forwarded(frames)
  /\ toHost' = Tail(toHost)
  /\ UNCHANGED room

\* startAttempt, for the claimant that joined last.
Restarted == [session EXCEPT !.pake = @ + 1, !.phase = "msgB"]

\* A variant: the replay leaves the stored key alone.
FirstKeyKept(k) == pairedKey

\* A retry comes with a new key, which takes the place of the stored one.
Replayed(k) == [pairedKey EXCEPT ![claim[k].who] = k]

\* A variant: complete() never burns the grant.
GrantBuysAgain(token) == grant.token = token

\* complete(): what the token still buys.
GrantBuys(token) == grant.live /\ grant.token = token

Enrolled(k) ==
  Sends([session EXCEPT !.phase = "done", !.cached = claim[k].who],
        <<[kind |-> "enrolled", pake |-> session.pake]>>)

\* handleEnroll: the grant is spent on this device, or spent already on it
\* (replayEnrolledFor), or on another one.
HandleEnroll(k) ==
  \/ /\ GrantBuys("minted")
     /\ guests' = guests \cup {claim[k].who}
     /\ grant' = [grant EXCEPT !.live = FALSE]
     /\ pairedKey' = [pairedKey EXCEPT ![claim[k].who] = k]
     /\ Enrolled(k)
  \/ /\ ~GrantBuys("minted") /\ session.cached = claim[k].who
     /\ pairedKey' = Replayed(k)
     /\ Enrolled(k)
     /\ UNCHANGED <<guests, grant>>
  \/ /\ ~GrantBuys("minted") /\ session.cached # claim[k].who
     /\ FailAttempt
     /\ UNCHANGED <<guests, grant, pairedKey>>

\* onControl, onBinary.
SessionReads ==
  LET m == Head(toHost)
      right == m.kind = "tagC" /\ m.right /\ m.pake = session.pake
  IN /\ session.joined /\ ~session.closed /\ toHost # <<>>
     /\ \/ /\ m.kind = "peer-joined"
           /\ IF session.tries < MaxTries
                THEN Sends(Restarted, <<[kind |-> "msgA", pake |-> session.pake + 1]>>)
                ELSE Sends(session, <<>>)
           /\ UNCHANGED <<grant, guests, pairedKey>>
        \/ /\ m.kind = "msgB"
           /\ Sends([session EXCEPT !.phase = IF @ = "msgB" THEN "tagC" ELSE @], <<>>)
           /\ UNCHANGED <<grant, guests, pairedKey>>
        \/ /\ m.kind = "tagC" /\ session.phase = "tagC" /\ right
           /\ Sends([session EXCEPT !.phase = "enroll"],
                    <<[kind |-> "tagH", pake |-> session.pake], [kind |-> "hello", pake |-> session.pake]>>)
           /\ UNCHANGED <<grant, guests, pairedKey>>
        \/ /\ m.kind = "tagC" /\ session.phase = "tagC" /\ ~right
           /\ FailAttempt
           /\ UNCHANGED <<grant, guests, pairedKey>>
        \/ /\ m.kind = "enroll" /\ session.phase = "enroll"
           /\ HandleEnroll(m.claim)
        \/ /\ m.kind = "done" /\ session.phase = "done"
           /\ session' = [Shut(session) EXCEPT !.paired = TRUE]
           /\ room' = Burnt /\ toHost' = <<>>
           /\ toClaimant' = Forwarded(<<ClosedNotice>>)
           /\ UNCHANGED <<grant, guests, pairedKey>>
        \/ /\ m.kind \in {"tagC", "enroll", "done"} /\ session.phase # m.kind
           /\ Sends(session, <<>>)
           /\ UNCHANGED <<grant, guests, pairedKey>>
     /\ UNCHANGED <<slot, claim, recorded, localDoor, torn>>

\* The daemon dies, or the keepalive or the host's own deadline closes the
\* session; within complete() the device may be enrolled, the grant unburnt.
HostDies ==
  /\ ~session.closed
  /\ \/ UNCHANGED <<guests, torn>>
     \/ /\ MayTear /\ session.joined /\ toHost # <<>> /\ session.phase = "enroll"
        /\ Head(toHost).kind = "enroll" /\ GrantBuys("minted")
        /\ guests' = guests \cup {claim[Head(toHost).claim].who}
        /\ torn' = TRUE
  /\ session' = Shut(session) /\ toHost' = <<>>
  /\ UNCHANGED <<room, slot, toClaimant, grant, pairedKey, claim, recorded, localDoor>>

----
(* The local door, and the grant's end *)

\* exchange: the code and the minted token give way to a fresh token.
Exchange(n) ==
  /\ grant.live /\ grant.code
  /\ grant' = [grant EXCEPT !.code = FALSE, !.token = "rotated"]
  /\ exchanged' = n
  /\ UNCHANGED <<room, slot, toHost, toClaimant, session, pairedKey, guests, torn, claim, recorded>>

\* The browser of the link has the minted token (completeBrowserPairing), that of
\* the typed code the rotated one.
BuysLocally(n) == GrantBuys("minted") \/ (exchanged = n /\ GrantBuys("rotated"))

CompletesLocally(n) ==
  /\ BuysLocally(n)
  /\ guests' = guests \cup {n}
  /\ grant' = [grant EXCEPT !.live = FALSE]
  /\ UNCHANGED <<room, slot, toHost, toClaimant, session, pairedKey, torn, claim, recorded, exchanged>>

\* The daemon dies within complete() of the local door, and its session with it.
DiesAtTheDoor(n) ==
  /\ MayTear /\ BuysLocally(n)
  /\ guests' = guests \cup {n} /\ torn' = TRUE
  /\ session' = Shut(session) /\ toHost' = <<>>
  /\ UNCHANGED <<room, slot, toClaimant, grant, pairedKey, claim, recorded, localDoor>>

\* Ten minutes are over; the room and the session have clocks of their own.
GrantExpires ==
  /\ grant.live
  /\ grant' = [grant EXCEPT !.live = FALSE]
  /\ UNCHANGED <<room, slot, toHost, toClaimant, session, pairedKey, guests, torn, claim, recorded, localDoor>>

PairingNext ==
  \/ RoomExpires \/ HostJoins \/ SessionReads \/ HostDies \/ GrantExpires
  \/ ClaimReads \/ Records \/ DeadlinePasses
  \/ \E b \in Browser, right \in BOOLEAN : ClaimStarts(b, right)
  \/ \E k \in Claims : RecordsLate(k)
  \/ \E n \in Neighbour : Exchange(n) \/ CompletesLocally(n) \/ DiesAtTheDoor(n)

PairingSpec == PairingInit /\ [][PairingNext]_pairingVars

----
(* Properties *)

\* One code enrolls one device, through whichever door, however claims,
\* retries after a lost acknowledgement and the local door interleave
\* (complete, exchange, replayEnrolledFor); a daemon that dies between the two
\* writes of an enrollment is the one exception.
GrantIsSpentOnce == ~torn => Cardinality(guests) <= 1

KeysAgree ==
  \E b \in Browser : b \in guests /\ recorded[b] # NoClaim /\ recorded[b] = pairedKey[b]

\* When the pairing is over for the host, the browser keeps the very tunnel key
\* the host has stored for it: a browser that looks paired can open a session,
\* also when it was a later claim that got through (replayEnrolledFor).  A claim
\* that went on after its own deadline is the one exception.
PairedKeysAgree ==
  session.paired /\ (\A k \in Claims : claim[k].state # "lagged") => KeysAgree

\* The same without the exception: what the comment of replayEnrolledFor is after.
PairedKeysAlwaysAgree == session.paired => KeysAgree
====
