------------------------------ MODULE TunnelMux ------------------------------
(***************************************************************************)
(* The stream multiplexer both ends of a relay session run (tunnel mux.ts)  *)
(* with its four users: the browser's app socket and tunnelled fetch        *)
(* (web-next runtime/relay.ts) and the switchboard's bridges to its own     *)
(* loopback socket and loopback fetch (switchboard relay/link.ts).          *)
(*                                                                         *)
(* Bytes are counted in units of one DATA frame.  The coalescer only delays *)
(* frames, in order, and a packet is sealed, forwarded and opened whole:    *)
(* what an end has emitted and the other has not handled is one queue.      *)
(***************************************************************************)
EXTENDS Integers, Sequences, FiniteSets, FiniteSetsExt, SequencesExt

CONSTANTS
  Stream,       \* stream ids, all opened by the client
  KindOf,       \* [Stream -> {"ws", "http"}]
  Window,       \* a direction's starting credit, in frames
  HttpCap,      \* largest body of a request or a response (32 MiB)
  Mixes         \* bound: streams that are opened, frames that the client (up) and
                \* the daemon's socket (down) write on each, sizes of the responses

ASSUME MuxAssumption ==
  /\ IsFiniteSet(Stream) /\ KindOf \in [Stream -> {"ws", "http"}]
  /\ Window \in Nat \ {0} /\ HttpCap \in Nat
  /\ Mixes \subseteq [streams : SUBSET Stream, up : Nat, down : Nat, bodies : SUBSET Nat]

VARIABLES
  mux,          \* End -> Stream -> MuxStream
  wire,         \* End -> frames it has emitted that the other has not handled
  live,         \* End -> is its mux still running?
  user,         \* End -> Stream -> state of what uses the stream
  written,      \* End -> Stream -> frames of data its user wrote
  got,          \* End -> Stream -> frames of data its user was handed
  answer,       \* Stream -> frames of the loopback response, or NoAnswer
  mix           \* the bound that holds in this behaviour

muxVars == <<mux, wire, live, user, written, got, answer, mix>>

NoAnswer == -1
End == {"client", "host"}
Other(e) == IF e = "client" THEN "host" ELSE "client"
Ws == {s \in Stream : KindOf[s] = "ws"}
Http == {s \in Stream : KindOf[s] = "http"}

\* known: "new" (not opened), "open" (in the map), "gone" (destroyed).
Fresh == [known |-> "new", credit |-> Window, queue |-> 0,
          ending |-> FALSE, ended |-> FALSE, peerEnded |-> FALSE]

MuxInit ==
  /\ mux = [e \in End |-> [s \in Stream |-> Fresh]]
  /\ wire = [e \in End |-> <<>>]
  /\ live = [e \in End |-> TRUE]
  /\ user = [e \in End |-> [s \in Stream |-> "none"]]
  /\ written = [e \in End |-> [s \in Stream |-> 0]]
  /\ got = [e \in End |-> [s \in Stream |-> 0]]
  /\ answer = [s \in Stream |-> NoAnswer]
  /\ mix \in Mixes

Frame(type, s) == [type |-> type, id |-> s]
Frames(type, s, n) == [k \in 1 .. n |-> Frame(type, s)]
Count(type, s, frames) == Cardinality({k \in DOMAIN frames : frames[k] = Frame(type, s)})

-----------------------------------------------------------------------------
(* MuxStream.                                                              *)

Destroyed(r) == [r EXCEPT !.known = "gone", !.queue = 0]

\* maybeClose(): gone once both directions have ended.
Closed(r) == IF r.ended /\ r.peerEnded THEN Destroyed(r) ELSE r

\* What pump() can send now, and whether a deferred END follows it.
Sendable(r) == Min({r.queue, r.credit})
EndsEarly(r) == r.ending /\ ~r.ended
EndsNow(r) == r.ending /\ ~r.ended /\ r.queue <= r.credit
Pumped(r) ==
  Closed([r EXCEPT !.credit = @ - Sendable(r), !.queue = @ - Sendable(r),
                   !.ended = @ \/ EndsNow(r)])
PumpedFrames(s, r) ==
  Frames("data", s, Sendable(r)) \o (IF EndsNow(r) THEN <<Frame("end", s)>> ELSE <<>>)

\* write(n) and then, if last, end(): both pump.
Given(r, n, last) == [r EXCEPT !.queue = @ + n, !.ending = @ \/ last]

Usable(e, s) == mux[e][s].known = "open" /\ ~mux[e][s].ending

\* The end e sets its stream to r and emits frames; a mux that is disposed of
\* emits nothing.
Carried(e, frames) ==
  IF live[e] THEN [wire EXCEPT ![e] = @ \o frames] ELSE wire
SetStream(e, s, r, frames) ==
  /\ mux' = [mux EXCEPT ![e][s] = r]
  /\ wire' = Carried(e, frames)

\* reset(): the other end is told, and the stream is gone at once.
ResetFrames(e, s) == IF mux[e][s].known = "open" THEN <<Frame("reset", s)>> ELSE <<>>
ResetStream(e, s) == SetStream(e, s, Destroyed(mux[e][s]), ResetFrames(e, s))

SetUser(e, s, u) == user' = [user EXCEPT ![e][s] = u]

-----------------------------------------------------------------------------
(* The browser: TunnelSocket and fetch().                                  *)

\* socketFactory() on a connected tunnel; the socket opens optimistically.
SocketOpens(s) ==
  /\ s \in Ws \cap mix.streams /\ live["client"] /\ mux["client"][s].known = "new"
  /\ SetStream("client", s, [Fresh EXCEPT !.known = "open"], <<Frame("open", s)>>)
  /\ SetUser("client", s, "open")
  /\ UNCHANGED <<live, written, got, answer, mix>>

SocketSends(s) ==
  /\ s \in Ws /\ user["client"][s] = "open" /\ Usable("client", s)
  /\ written["client"][s] < mix.up
  /\ LET r == Given(mux["client"][s], 1, FALSE)
     IN  SetStream("client", s, Pumped(r), PumpedFrames(s, r))
  /\ written' = [written EXCEPT !["client"][s] = @ + 1]
  /\ UNCHANGED <<live, user, got, answer, mix>>

\* close(): the stream is half-closed and nothing more is read from it.
SocketCloses(s) ==
  /\ s \in Ws /\ user["client"][s] = "open"
  /\ LET r == Given(mux["client"][s], 0, TRUE)
     IN  SetStream("client", s, Pumped(r), PumpedFrames(s, r))
  /\ SetUser("client", s, "closed")
  /\ UNCHANGED <<live, written, got, answer, mix>>

\* fetch(): head, body and END are written at once.
FetchStarts(s) ==
  /\ s \in Http \cap mix.streams /\ live["client"] /\ mux["client"][s].known = "new"
  /\ \E n \in {0, mix.up} :
       LET r == Given([Fresh EXCEPT !.known = "open"], n, TRUE)
       IN  /\ SetStream("client", s, Pumped(r),
                <<Frame("open", s), Frame("head", s)>> \o PumpedFrames(s, r))
           /\ written' = [written EXCEPT !["client"][s] = n]
  /\ SetUser("client", s, "pending")
  /\ UNCHANGED <<live, got, answer, mix>>

\* The caller aborts, or the request's own deadline passes.
FetchGivesUp(s) ==
  /\ s \in Http /\ user["client"][s] = "pending"
  /\ ResetStream("client", s)
  /\ SetUser("client", s, "failed")
  /\ UNCHANGED <<live, written, got, answer, mix>>

-----------------------------------------------------------------------------
(* The switchboard: bridgeAppWs() and bridgeHttp().                        *)

ActiveBridge == {"dialing", "open", "reading", "fetching", "answering"}
Active(s) == user["host"][s] \in ActiveBridge

\* loopback.onOpen.
LoopbackOpens(s) ==
  /\ user["host"][s] = "dialing"
  /\ SetUser("host", s, "open")
  /\ UNCHANGED <<mux, wire, live, written, got, answer, mix>>

\* loopback.onMessage: one message of the daemon.
LoopbackSpeaks(s) ==
  /\ user["host"][s] = "open" /\ written["host"][s] < mix.down
  /\ LET r == Given(mux["host"][s], 1, FALSE)
     IN  SetStream("host", s, Pumped(r), PumpedFrames(s, r))
  /\ written' = [written EXCEPT !["host"][s] = @ + 1]
  /\ UNCHANGED <<live, user, got, answer, mix>>

\* loopback.onClose: a clean close ends the stream, any other resets it, and so
\* does an error.
LoopbackCloses(s) ==
  /\ user["host"][s] \in {"dialing", "open"}
  /\ SetUser("host", s, "retired")
  /\ \/ LET r == Given(mux["host"][s], 0, TRUE)
        IN  SetStream("host", s, Pumped(r), PumpedFrames(s, r))
     \/ ResetStream("host", s)
  /\ UNCHANGED <<live, written, got, answer, mix>>

\* performHttp(): the loopback fetch answers with a head and n frames of body,
\* or it fails.
LoopbackAnswers(s) ==
  /\ user["host"][s] = "fetching"
  /\ \/ /\ \E n \in mix.bodies : answer' = [answer EXCEPT ![s] = n]
        /\ SetUser("host", s, "answering")
        /\ SetStream("host", s, mux["host"][s], <<Frame("head", s)>>)
     \/ /\ SetUser("host", s, "retired")
        /\ ResetStream("host", s)
        /\ UNCHANGED answer
  /\ UNCHANGED <<live, written, got, mix>>

\* A chunk is written once the one before has left; a body past the cap is reset.
AnswerChunk(s) ==
  /\ user["host"][s] = "answering" /\ mux["host"][s].queue = 0
  /\ written["host"][s] < answer[s]
  /\ \/ /\ written["host"][s] < HttpCap
        /\ LET r == Given(mux["host"][s], 1, FALSE)
           IN  SetStream("host", s, Pumped(r), PumpedFrames(s, r))
        /\ written' = [written EXCEPT !["host"][s] = @ + 1]
        /\ UNCHANGED user
     \/ /\ written["host"][s] = HttpCap
        /\ ResetStream("host", s)
        /\ SetUser("host", s, "retired")
        /\ UNCHANGED written
  /\ UNCHANGED <<live, got, answer, mix>>

AnswerEnds(s) ==
  /\ user["host"][s] = "answering" /\ mux["host"][s].queue = 0
  /\ written["host"][s] = answer[s]
  /\ LET r == Given(mux["host"][s], 0, TRUE)
     IN  SetStream("host", s, Pumped(r), PumpedFrames(s, r))
  /\ SetUser("host", s, "retired")
  /\ UNCHANGED <<live, written, got, answer, mix>>

\* The bridge's 30 s deadline.
BridgeTimesOut(s) ==
  /\ s \in Http /\ Active(s)
  /\ ResetStream("host", s)
  /\ SetUser("host", s, "retired")
  /\ UNCHANGED <<live, written, got, answer, mix>>

-----------------------------------------------------------------------------
(* receivePacket().                                                        *)

\* Does the user of the stream still read what arrives?
Reads(e, s) ==
  \/ e = "client" /\ user[e][s] \in {"open", "pending"}
  \/ e = "host" /\ user[e][s] \in {"dialing", "open", "reading"}

\* What an END and a RESET make of the stream's user: sockets and bridges close
\* without ending their own direction, a request is whole, a response too.
UserEnded(e, s) ==
  CASE user[e][s] = "open" /\ e = "client" -> "closed"
    [] user[e][s] = "pending" -> "ok"
    [] user[e][s] \in {"dialing", "open"} /\ e = "host" -> "retired"
    [] user[e][s] = "reading" -> "fetching"
    [] OTHER -> user[e][s]
UserReset(e, s) ==
  CASE user[e][s] = "open" /\ e = "client" -> "closed"
    [] user[e][s] = "pending" -> "failed"
    [] e = "host" /\ Active(s) -> "retired"
    [] OTHER -> user[e][s]

\* Both ends cap what they buffer of a body: data beyond it resets the stream.
TooLarge(e, s) == s \in Http /\ Reads(e, s) /\ got[e][s] = HttpCap

\* The stream is known to this end: a frame for any other is dropped.
Granted(r) == [r EXCEPT !.credit = @ + 1]
ReturnedTwice(e, s) == IF Reads(e, s) THEN Frames("window", s, 2) ELSE <<>>
ReturnedBySockets(e, s) == IF Reads(e, s) /\ s \in Ws THEN <<Frame("window", s)>> ELSE <<>>
Returned(e, s) == IF Reads(e, s) THEN <<Frame("window", s)>> ELSE <<>>

HandleOpen(e, s) ==
  /\ SetUser(e, s, IF KindOf[s] = "ws" THEN "dialing" ELSE "reading")
  /\ mux' = [mux EXCEPT ![e][s] = [Fresh EXCEPT !.known = "open"]]
  /\ UNCHANGED got

HandleData(e, s) ==
  /\ got' = IF Reads(e, s) THEN [got EXCEPT ![e][s] = @ + 1] ELSE got
  /\ UNCHANGED <<mux, user>>

HandleWindow(e, s) ==
  /\ mux' = [mux EXCEPT ![e][s] = Pumped(Granted(@))]
  /\ UNCHANGED <<user, got>>

HandleEnd(e, s) ==
  /\ SetUser(e, s, UserEnded(e, s))
  /\ mux' = [mux EXCEPT ![e][s] = Closed([@ EXCEPT !.peerEnded = TRUE])]
  /\ UNCHANGED got

HandleReset(e, s) ==
  /\ SetUser(e, s, UserReset(e, s))
  /\ mux' = [mux EXCEPT ![e][s] = Destroyed(@)]
  /\ UNCHANGED got

\* Frames that the handler of a frame emits in turn.
Replies(e, f) ==
  CASE f.type = "data" /\ TooLarge(e, f.id) -> <<Frame("reset", f.id)>>
    [] f.type = "data" /\ ~TooLarge(e, f.id) -> Returned(e, f.id)
    [] f.type = "window" -> PumpedFrames(f.id, Granted(mux[e][f.id]))
    [] OTHER -> <<>>

receivePacket(e) ==
  /\ live[e] /\ wire[Other(e)] # <<>>
  /\ LET f == Head(wire[Other(e)])
         s == f.id
         known == mux[e][s].known = "open"
     IN  /\ wire' = [wire EXCEPT ![Other(e)] = Tail(@),
                                 ![e] = IF known THEN @ \o Replies(e, f) ELSE @]
         /\ \/ f.type = "open" /\ mux[e][s].known = "new" /\ HandleOpen(e, s)
            \/ known /\ f.type = "data" /\ ~TooLarge(e, s) /\ HandleData(e, s)
            \/ known /\ f.type = "data" /\ TooLarge(e, s) /\ HandleReset(e, s)
            \/ known /\ f.type = "window" /\ HandleWindow(e, s)
            \/ known /\ f.type = "end" /\ HandleEnd(e, s)
            \/ known /\ f.type = "reset" /\ HandleReset(e, s)
            \/ /\ (f.type # "open" /\ ~known) \/ f.type = "head"
               /\ UNCHANGED <<mux, user, got>>
  /\ UNCHANGED <<live, written, answer, mix>>

-----------------------------------------------------------------------------
(* The end of the session.                                                 *)

\* Every stream of a mux that is disposed of is destroyed.
AllDestroyed(e) ==
  [s \in Stream |-> IF mux[e][s].known = "open" THEN Destroyed(mux[e][s]) ELSE mux[e][s]]
AllRetired(e) ==
  [s \in Stream |-> IF mux[e][s].known = "open" THEN UserReset(e, s) ELSE user[e][s]]

\* The relay, a network or a socket fails, or the page replaces its session:
\* packets in flight are lost and both ends dispose of what they had
\* (onDisconnect, retireCurrentTransport, handleSocketDown).
SessionEnds ==
  /\ \E e \in End : live[e]
  /\ live' = [e \in End |-> FALSE]
  /\ wire' = [e \in End |-> <<>>]
  /\ mux' = [e \in End |-> AllDestroyed(e)]
  /\ user' = [e \in End |-> AllRetired(e)]
  /\ UNCHANGED <<written, got, answer, mix>>

\* teardownConn() on a session that is up, for a device that is revoked: the
\* bridges retire first, then close() resets every stream and flushes.
HostTearsDown ==
  /\ live["host"] /\ live' = [live EXCEPT !["host"] = FALSE]
  /\ mux' = [mux EXCEPT !["host"] = AllDestroyed("host")]
  /\ user' = [user EXCEPT !["host"] = AllRetired("host")]
  /\ LET open == {s \in Stream : mux["host"][s].known = "open"}
         told == SetToSeq(open)
     IN  wire' = Carried("host", [k \in DOMAIN told |-> Frame("reset", told[k])])
  /\ UNCHANGED <<written, got, answer, mix>>

-----------------------------------------------------------------------------
BrowserStep(s) ==
  SocketOpens(s) \/ SocketSends(s) \/ SocketCloses(s) \/ FetchStarts(s) \/ FetchGivesUp(s)
BridgeStep(s) ==
  \/ LoopbackOpens(s) \/ LoopbackSpeaks(s) \/ LoopbackCloses(s) \/ LoopbackAnswers(s)
  \/ AnswerChunk(s) \/ AnswerEnds(s) \/ BridgeTimesOut(s)
MuxNext ==
  \/ \E s \in Stream : BrowserStep(s) \/ BridgeStep(s)
  \/ \E e \in End : receivePacket(e)
  \/ SessionEnds \/ HostTearsDown

MuxSpec == MuxInit /\ [][MuxNext]_muxVars

\* Packets are carried and handled, and the loopback fetch answers.  No timer
\* and no user is counted on.
MuxFairSpec ==
  /\ MuxSpec
  /\ \A e \in End : WF_muxVars(receivePacket(e))
  /\ \A s \in Stream :
       WF_muxVars(LoopbackAnswers(s)) /\ WF_muxVars(AnswerChunk(s)) /\ WF_muxVars(AnswerEnds(s))

-----------------------------------------------------------------------------
\* What an end may still send, what it has sent and what is on its way back to
\* it never exceeds the window, and is all of it while its peer reads: a byte
\* of credit is neither minted nor lost.
CreditIsConserved ==
  \A e \in End, s \in Stream :
    LET total == mux[e][s].credit + Count("data", s, wire[e]) + Count("window", s, wire[Other(e)])
    IN  mux[e][s].known = "open" /\ mux[Other(e)][s].known = "open" =>
          /\ total <= Window
          /\ live[e] /\ live[Other(e)] /\ Reads(Other(e), s) => total = Window

\* A request reaches the daemon whole, and a response that is handed to its
\* caller is the whole of what the daemon answered: no END overtakes the bytes
\* that wait for credit, and no reset passes for an end.
BodiesAreWhole ==
  \A s \in Http :
    /\ user["host"][s] \in {"fetching", "answering"} => got["host"][s] = written["client"][s]
    /\ user["client"][s] = "ok" =>
         got["client"][s] = answer[s] /\ answer[s] = written["host"][s]

\* However little credit there is and whatever the other streams of the session
\* do, a request settles without help of its deadline, and data that a reader
\* is there for leaves its queue.  Only a switchboard that tore the connection
\* down, and did not tell requests that came later, leaves it to the deadline.
RequestsSettle ==
  \A s \in Http :
    (user["client"][s] = "pending") ~> (user["client"][s] # "pending" \/ ~live["host"])
FlowsDrain ==
  \A e \in End, s \in Stream :
    (mux[e][s].queue > 0 /\ Reads(Other(e), s)) ~>
      (mux[e][s].queue = 0 \/ ~Reads(Other(e), s) \/ ~live["host"])
Flows == RequestsSettle /\ FlowsDrain

\* An app socket that both its users have left is forgotten by both muxes.
ClosedSocketsAreForgotten ==
  \A s \in Ws, e \in End :
    (user["client"][s] = "closed" /\ user["host"][s] = "retired") ~> (mux[e][s].known = "gone")
=============================================================================
