------------------------------- MODULE Residency -------------------------------
(***************************************************************************)
(* One turn of an agent that lives on another computer.  The room's home   *)
(* hands the payload to the resident (residency.ts), which journals the    *)
(* attempt, runs the harness and sends its events back by index; the two   *)
(* talk over a ReliablePeer channel (transport/peer.ts) whose unacknow-    *)
(* ledged envelopes survive a lost stream, but not a restart of either     *)
(* side: the swarm key of a process is new, and with it the channel.       *)
(*                                                                         *)
(* Envelope ids and acknowledgements make a channel deliver each envelope  *)
(* at most once; what is left to model is the order (envelopes sent while  *)
(* a reconnection is announced overtake the older ones) and the loss.      *)
(***************************************************************************)
EXTENDS Integers, Sequences, SequencesExt, FiniteSets

CONSTANTS
  Final,         \* index of the last event, run.completed; event 0 is run.started
  Transient,    \* events the home streams and does not journal
  MaxCut,       \* bound: streams lost
  MaxHome,      \* bound: restarts of the home
  MaxResident,  \* bound: restarts of the resident
  MaxFail,      \* bound: turns the harness ends without run.completed
  MaxRelease    \* bound: releases of the held row

ASSUME ResidencyAssumption ==
  /\ Final \in Nat \ {0} /\ Transient \subseteq 1..(Final - 1)
  /\ {MaxCut, MaxHome, MaxResident, MaxFail, MaxRelease} \subseteq Nat

Event == 0..Final

VARIABLES
  delivery,     \* the row at home: queued, delivering, held, consumed (failed: by a
                \* turn that failed before it was sent)
  inflight,     \* is a turn of the agent on the home's stack?
  journal,      \* events in the home's run journal
  ending,       \* run.completed is journaled, finalizeTurn has not run
  open,         \* the entry of pendingHomeAttempts
  next, buffered, retries,          \* ... its fields
  unacked,      \* the entry of completedHomeIndexes
  rstate, rcount, rlen,             \* the resident's attempt and its events
  active,       \* activeResidentAttempts
  starts,       \* how often the harness got the payload
  toResident, toHome,               \* what each channel still has to deliver
  link,         \* are the two authenticated to each other?
  replaced,     \* has a side restarted since they last were?
  neighbour,    \* the row of a local agent, in a turn when it all begins
  cuts, homes, residents, fails, releases

homeVars == <<delivery, inflight, journal, ending, open, next, buffered, retries, unacked>>
residentVars == <<rstate, rcount, rlen, active, starts>>
channels == <<toResident, toHome, link, replaced>>
bounds == <<cuts, homes, residents, fails, releases>>
residencyVars == <<homeVars, residentVars, channels, neighbour, bounds>>

Empty == [old |-> <<>>, early |-> <<>>, late |-> <<>>]

ResidencyTypeOK ==
  /\ delivery \in {"queued", "delivering", "held", "consumed", "failed"}
  /\ {inflight, ending, open, unacked, active, link, replaced} \subseteq BOOLEAN
  /\ journal \in Seq(Event) /\ next \in 0..(Final + 1) /\ buffered \subseteq Event
  /\ retries \in 0..1
  /\ rstate \in {"none", "accepted", "started", "completed", "ambiguous"}
  /\ rcount \in 0..2 /\ rlen \in 0..(Final + 1) /\ starts \in Nat
  /\ neighbour \in {"delivering", "held", "consumed"}

ResidencyInit ==
  /\ delivery = "queued" /\ inflight = FALSE /\ journal = <<>> /\ ending = FALSE
  /\ open = FALSE /\ next = 0 /\ buffered = {} /\ retries = 0 /\ unacked = FALSE
  /\ rstate = "none" /\ rcount = 0 /\ rlen = 0 /\ active = FALSE /\ starts = 0
  /\ toResident = Empty /\ toHome = Empty /\ link = FALSE /\ replaced = TRUE
  /\ neighbour = "delivering"
  /\ cuts = 0 /\ homes = 0 /\ residents = 0 /\ fails = 0 /\ releases = 0

------------------------------------------------------------------------------
\* The channel.

Message(kind, n) == [kind |-> kind, n |-> n]

\* ReliablePeer.send: written at once, or kept for the next stream; the channel
\* of a peer that has restarted is closed when the peer comes back.
After(ch, msgs) ==
  IF link THEN [ch EXCEPT !.late = @ \o msgs]
  ELSE IF replaced THEN ch ELSE [ch EXCEPT !.old = @ \o msgs]

HeadOf(ch) ==
  IF ch.early # <<>> THEN Head(ch.early)
  ELSE IF ch.old # <<>> THEN Head(ch.old) ELSE Head(ch.late)
TailOf(ch) ==
  IF ch.early # <<>> THEN [ch EXCEPT !.early = Tail(@)]
  ELSE IF ch.old # <<>> THEN [ch EXCEPT !.old = Tail(@)]
  ELSE [ch EXCEPT !.late = Tail(@)]

\* becomeReady: what the peer-state handlers send is written before the rest.
Rewritten(ch, msgs) ==
  [old |-> IF replaced THEN <<>> ELSE ch.old, early |-> msgs, late |-> <<>>]

Kept(ch) == [old |-> ch.old \o ch.early \o ch.late, early |-> <<>>, late |-> <<>>]

------------------------------------------------------------------------------
\* The home.

\* runTurn, then deliver(): the stream resumes behind what the journal holds.
FreshAttemptFromZero == [open |-> TRUE, next |-> 0, buffered |-> {}, retries |-> 0]
FreshAttempt == [open |-> TRUE, next |-> Len(journal), buffered |-> {}, retries |-> 0]
Attempt == [open |-> open, next |-> next, buffered |-> buffered, retries |-> retries]
SetAttempt(e) ==
  open' = e.open /\ next' = e.next /\ buffered' = e.buffered /\ retries' = e.retries

Startable == delivery \in {"queued", "delivering"} /\ ~inflight

StartTurn ==
  /\ link /\ Startable
  /\ delivery' = "delivering" /\ inflight' = TRUE
  /\ SetAttempt(FreshAttempt)
  /\ toResident' = After(toResident, <<Message("deliver", 0)>>)
  /\ UNCHANGED <<journal, ending, unacked, residentVars, toHome, link, replaced,
                 neighbour, bounds>>

\* deliver() throws, for other turns have as many completion acks pending as there
\* may be: the turn fails and takes its row with it.
TurnRefused ==
  /\ link /\ ~inflight /\ delivery \in {"queued", "delivering", "held"}
  /\ delivery' = "failed"
  /\ UNCHANGED <<inflight, journal, ending, open, next, buffered, retries, unacked,
                 residentVars, channels, neighbour, bounds>>

\* The events a delivery of E makes contiguous (handleRemoteEvent).
Contiguous(E) ==
  LET held == buffered \cup {i \in E : i >= next}
  IN {i \in held : \A j \in next..i : j \in held}
Ascending(S) ==
  [k \in 1..Cardinality(S) |-> CHOOSE i \in S : Cardinality({j \in S : j < i}) = k - 1]
Journaled(events) == journal \o Ascending(events \ Transient)

\* handleRemoteEvent, once or for all the events of an outcome, with runTurn's
\* journal behind the stream: they are separated by no I/O.
TakeEvents(E) ==
  \/ /\ ~open
     /\ toResident' = IF unacked /\ E # {} THEN After(toResident, <<Message("event_ack", Final)>>)
                      ELSE toResident
     /\ UNCHANGED homeVars
  \/ /\ open /\ Final \notin Contiguous(E)
     /\ next' = next + Cardinality(Contiguous(E))
     /\ buffered' = (buffered \cup {i \in E : i >= next}) \ Contiguous(E)
     /\ journal' = Journaled(Contiguous(E))
     /\ UNCHANGED <<delivery, inflight, ending, open, retries, unacked, toResident>>
  \/ /\ open /\ Final \in Contiguous(E)
     /\ journal' = Journaled(Contiguous(E))
     /\ open' = FALSE /\ unacked' = TRUE /\ ending' = TRUE
     /\ next' = 0 /\ buffered' = {} /\ retries' = 0
     /\ toResident' = After(toResident, <<Message("event_ack", Final)>>)
     /\ UNCHANGED <<delivery, inflight>>

\* The stream fails: holdAmbiguousTurn.
Ambiguous ==
  /\ delivery' = "held" /\ inflight' = FALSE
  /\ open' = FALSE /\ next' = 0 /\ buffered' = {} /\ retries' = 0
  /\ UNCHANGED <<journal, ending, unacked, toResident>>

\* handleEnvelope at home; an outcome without an open attempt is ignored.
HomeHandles(m) ==
  \/ m.kind = "event" /\ TakeEvents({m.n})
  \/ m.kind = "completed" /\ open /\ TakeEvents((m.n + 1)..Final)
  \/ /\ m.kind = "never_started" /\ open /\ retries < 1
     /\ retries' = retries + 1
     /\ toResident' = After(toResident, <<Message("deliver", 0)>>)
     /\ UNCHANGED <<delivery, inflight, journal, ending, open, next, buffered, unacked>>
  \/ m.kind = "never_started" /\ open /\ retries >= 1 /\ Ambiguous
  \/ m.kind = "ambiguous" /\ open /\ Ambiguous
  \/ /\ m.kind \in {"completed", "never_started", "ambiguous"} /\ ~open
     /\ UNCHANGED <<homeVars, toResident>>
  \/ m.kind = "completion_ack" /\ unacked' = FALSE
     /\ UNCHANGED <<delivery, inflight, journal, ending, open, next, buffered, retries, toResident>>

HomeReceives ==
  /\ link /\ toHome # Empty
  /\ toHome' = TailOf(toHome)
  /\ HomeHandles(HeadOf(toHome))
  /\ UNCHANGED <<residentVars, link, replaced, neighbour, bounds>>

\* finalizeTurn: what the stream has ended with is already journaled.
Finalize ==
  /\ ending
  /\ ending' = FALSE /\ inflight' = FALSE /\ delivery' = "consumed"
  /\ UNCHANGED <<journal, open, next, buffered, retries, unacked, residentVars, channels,
                 neighbour, bounds>>

\* completionAckTimer; a tick while the last ack or its answer is on its way adds
\* nothing, so the model has one at a time.
RetryCompletionAck ==
  /\ link /\ unacked /\ toResident = Empty /\ toHome = Empty
  /\ toResident' = After(toResident, <<Message("event_ack", Final)>>)
  /\ UNCHANGED <<homeVars, residentVars, toHome, link, replaced, neighbour, bounds>>

\* releaseHold: the held run is resumed under the same rpc id.
Release ==
  /\ link /\ delivery = "held" /\ ~inflight /\ releases < MaxRelease
  /\ delivery' = "delivering" /\ inflight' = TRUE
  /\ SetAttempt(FreshAttempt)
  /\ toResident' = After(toResident, <<Message("deliver", 0)>>)
  /\ releases' = releases + 1
  /\ UNCHANGED <<journal, ending, unacked, residentVars, toHome, link, replaced,
                 neighbour, cuts, homes, residents, fails>>

------------------------------------------------------------------------------
\* The resident.

Outcome(kind, n) == toHome' = After(toHome, <<Message(kind, n)>>)

\* A delivery of an attempt that is neither finished nor under way runs it.
RunnableAgain == rstate \in {"none", "accepted", "started"} /\ ~active /\ rcount < 2
Runnable == rstate \in {"none", "accepted"} /\ ~active /\ rcount < 2

acceptResidentDelivery ==
  \/ /\ rstate = "completed" /\ Outcome("completed", -1) /\ UNCHANGED residentVars
  \/ /\ Runnable
     /\ rstate' = "accepted" /\ rcount' = rcount + 1 /\ active' = TRUE
     /\ UNCHANGED <<rlen, starts, toHome>>
  \/ /\ ~Runnable /\ rstate # "completed" /\ active /\ rstate # "ambiguous"
     /\ UNCHANGED <<residentVars, toHome>>
  \/ /\ ~Runnable /\ rstate # "completed" /\ (~active \/ rstate = "ambiguous")
     /\ rstate' = IF rstate = "started" THEN "started" ELSE "ambiguous"
     /\ Outcome("ambiguous", 0)
     /\ UNCHANGED <<rcount, rlen, active, starts>>

\* An attempt the home asks about after a reconnection; one that is under way
\* is answered by its events.
reconcileResident(last) ==
  /\ \/ rstate = "none" /\ Outcome("never_started", 0)
     \/ rstate = "completed" /\ Outcome("completed", last)
     \/ rstate = "accepted" /\ rlen = 0 /\ Outcome("never_started", 0)
     \/ /\ rstate = "started" \/ rstate = "ambiguous"
        /\ IF active THEN UNCHANGED toHome ELSE Outcome("ambiguous", 0)
  /\ UNCHANGED residentVars

AcknowledgedLate == rstate = "completed" /\ rlen > Final + 1
Acknowledged == rstate = "completed"

ResidentHandles(m) ==
  \/ m.kind = "deliver" /\ acceptResidentDelivery
  \/ m.kind = "reconcile" /\ reconcileResident(m.n)
  \/ /\ m.kind = "event_ack" /\ UNCHANGED residentVars
     /\ IF Acknowledged THEN Outcome("completion_ack", 0) ELSE UNCHANGED toHome

ResidentReceives ==
  /\ link /\ toResident # Empty
  /\ toResident' = TailOf(toResident)
  /\ ResidentHandles(HeadOf(toResident))
  /\ UNCHANGED <<homeVars, link, replaced, neighbour, bounds>>

Emit(i) ==
  /\ rlen' = i + 1
  /\ toHome' = After(toHome, <<Message("event", i)>>)

\* onStarted.
Starts ==
  /\ active /\ rstate = "accepted"
  /\ rstate' = "started" /\ starts' = starts + 1
  /\ Emit(rlen)
  /\ UNCHANGED <<homeVars, rcount, active, toResident, link, replaced, neighbour, bounds>>

\* The next event of the harness.
Works ==
  /\ active /\ rstate = "started" /\ rlen <= Final
  /\ Emit(rlen)
  /\ UNCHANGED <<homeVars, rstate, rcount, active, starts, toResident, link, replaced,
                 neighbour, bounds>>

\* The iterator ends behind run.completed.
Completes ==
  /\ active /\ rlen = Final + 1
  /\ rstate' = "completed" /\ active' = FALSE
  /\ UNCHANGED <<homeVars, rcount, rlen, starts, channels, neighbour, bounds>>

\* It ends without run.completed or throws, or there is no such adapter.
Fails ==
  /\ active /\ fails < MaxFail /\ rlen <= Final
  /\ fails' = fails + 1 /\ active' = FALSE
  /\ \/ rlen = 0 /\ rcount < 2 /\ rstate' = "accepted" /\ Outcome("never_started", 0)
     \/ rstate' = "ambiguous" /\ Outcome("ambiguous", 0)
  /\ UNCHANGED <<homeVars, rcount, rlen, starts, toResident, link, replaced, neighbour,
                 cuts, homes, residents, releases>>

------------------------------------------------------------------------------
\* Streams and processes.

Cut ==
  /\ link /\ cuts < MaxCut
  /\ link' = FALSE /\ cuts' = cuts + 1
  /\ toResident' = Kept(toResident) /\ toHome' = Kept(toHome)
  /\ UNCHANGED <<homeVars, residentVars, replaced, neighbour, homes, residents, fails, releases>>

AnnouncedAcksOnly(e) == IF unacked THEN <<Message("event_ack", Final)>> ELSE <<>>

\* What handlePeerState sends: completion acks, then the attempts that are open.
Announced(e) ==
  (IF unacked THEN <<Message("event_ack", Final)>> ELSE <<>>)
    \o (IF e.open THEN <<Message("reconcile", e.next - 1)>> ELSE <<>>)

\* handleResidentReachability runs first: it reconciles as at boot, and starts
\* the remote turn in the same stretch or in a later one.
LinkUp ==
  /\ ~link
  /\ link' = TRUE /\ replaced' = FALSE
  /\ toHome' = Rewritten(toHome, <<>>)
  /\ \/ /\ Startable
        /\ delivery' = "delivering" /\ inflight' = TRUE
        /\ SetAttempt(FreshAttempt)
        /\ toResident' = Rewritten(toResident, <<Message("deliver", 0)>> \o Announced(FreshAttempt))
     \/ /\ toResident' = Rewritten(toResident, Announced(Attempt))
        /\ UNCHANGED <<delivery, inflight, open, next, buffered, retries>>
  /\ neighbour' = IF neighbour = "delivering" THEN "held" ELSE neighbour
  /\ UNCHANGED <<journal, ending, unacked, residentVars, bounds>>

NeighbourEnds ==
  /\ neighbour = "delivering" /\ neighbour' = "consumed"
  /\ UNCHANGED <<homeVars, residentVars, channels, bounds>>

\* close() fails the streams that are open, and waits for the turns to settle.
Settled == IF open THEN "held" ELSE IF ending THEN "consumed" ELSE delivery

\* It crashes, or it is stopped.
HomeRestarts ==
  /\ homes < MaxHome
  /\ homes' = homes + 1
  /\ delivery' \in {delivery, Settled}
  /\ inflight' = FALSE /\ ending' = FALSE /\ unacked' = FALSE
  /\ open' = FALSE /\ next' = 0 /\ buffered' = {} /\ retries' = 0
  /\ link' = FALSE /\ replaced' = TRUE /\ toResident' = Empty /\ toHome' = Empty
  /\ neighbour' = IF neighbour = "delivering" THEN "held" ELSE neighbour
  /\ UNCHANGED <<journal, residentVars, cuts, residents, fails, releases>>

ResidentRestarts ==
  /\ residents < MaxResident
  /\ residents' = residents + 1
  /\ active' = FALSE
  /\ link' = FALSE /\ replaced' = TRUE /\ toResident' = Empty /\ toHome' = Empty
  /\ UNCHANGED <<homeVars, rstate, rcount, rlen, starts, neighbour, cuts, homes, fails, releases>>

ResidencyNext ==
  \/ StartTurn \/ TurnRefused \/ HomeReceives \/ Finalize \/ RetryCompletionAck \/ Release
  \/ ResidentReceives \/ Starts \/ Works \/ Completes \/ Fails
  \/ Cut \/ LinkUp \/ NeighbourEnds \/ HomeRestarts \/ ResidentRestarts

ResidencySpec == ResidencyInit /\ [][ResidencyNext]_residencyVars

\* Processes run, the swarm reconnects and the harness gets on.
ResidencyFairSpec ==
  /\ ResidencySpec
  /\ WF_residencyVars(StartTurn) /\ WF_residencyVars(HomeReceives)
  /\ WF_residencyVars(Finalize) /\ WF_residencyVars(RetryCompletionAck)
  /\ WF_residencyVars(ResidentReceives) /\ WF_residencyVars(LinkUp)
  /\ WF_residencyVars(Starts \/ Works \/ Completes \/ Fails)

------------------------------------------------------------------------------
\* Properties.

\* The harness gets a payload once, whatever is lost, repeated, released or
\* restarted (acceptResidentDelivery, reconcileResident, handleOutcome).
StartedOnce == starts <= 1

\* The home's journal of a remote run is the resident's, from its start and
\* without a gap or a repetition (handleRemoteEvent, deliver).
JournalIsPrefix ==
  /\ IsPrefix(journal, Ascending({i \in Event : i < rlen} \ Transient))
  /\ delivery = "consumed" => Final \in ToSet(journal)

\* While the home stays up and nothing held is released, a remote turn ends: its
\* row is consumed or held for the operator (handlePeerState, handleOutcome).
RemoteTurnsEnd == inflight ~> (~inflight \/ homes + releases > 0)

\* A completion the resident has recorded is acknowledged on both sides; an
\* entry that stays counts against maxPendingCompletionAcks.
AcksDrain == unacked /\ rstate = "completed" ~> ~unacked

\* reconcile is "crash recovery": nothing is held that no crash has cut.
LiveTurnsAreSpared == homes = 0 => neighbour # "held"

\* ... and RemoteTurnsEnd without the exceptions, of a home that restarts in a turn
\* or a release the resident answers with the rest of a stream.
RestartedTurnsEnd == inflight ~> ~inflight
=============================================================================
