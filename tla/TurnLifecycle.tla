---------------------------- MODULE TurnLifecycle ----------------------------
(***************************************************************************)
(* The turn pump of the switchboard daemon (packages/switchboard/src/      *)
(* daemon.ts) over the durable rows of store.ts: how a delivery addressed  *)
(* to an agent is queued, handed to one adapter turn, finalized, and       *)
(* recovered after an operator act, a graceful stop or a crash.            *)
(*                                                                         *)
(* The daemon is one JavaScript thread.  What runs between two awaits is   *)
(* one action, except that a block which makes several SQLite transactions *)
(* is cut between them: `pump`, `spin`, `resend` and pc = "threw" are what *)
(* is still on the current stack (or microtask queue), no other handler    *)
(* runs before they are empty (Quiet), but a crash may.                    *)
(***************************************************************************)
EXTENDS Integers, FiniteSets

CONSTANTS
  Agent,          \* agent members of the room
  Delivery,       \* delivery rows, numbered in queue_seq order
  Run,            \* run messages, numbered in creation order
  To,             \* Delivery -> Agent: the recipient
  Class,          \* Delivery -> batch class: Direct or a (group, round)
  Direct,         \* the class of a delivery outside any collaboration group
  NoRun,          \* run_msg_id / process identity is NULL
  Nobody,         \* the author of a run id not yet in use
  Ceiling,        \* RECOVERY_ATTEMPT_CEILING
  Pid,            \* agents whose harness reports a process id to onStarted
  ArgvPayload,    \* agents whose harness hands the payload over when it spawns
  Asking,         \* agents whose turns may block on a card (ask, approval)
  Steers,         \* agents whose adapter can steer a live turn
  BrokenStart,    \* agents whose session may fail to build (sessionFor throws)
  Brakes,         \* may a room brake hold a delivery?
  FaultyCommit,   \* may completeTurn throw and roll back?
  Acts,           \* the operator acts that may happen
  Graceful,       \* may the daemon be stopped by close()?
  MaxRestart,     \* bound: crashes and graceful stops
  MaxOps          \* bound: operator acts

ASSUME ConstantsAssumption ==
  /\ Delivery \subseteq Nat
  /\ Run \subseteq Nat
  /\ To \in [Delivery -> Agent]
  /\ NoRun \notin Run
  /\ Nobody \notin Agent
  /\ Ceiling \in Nat /\ Ceiling >= 2    \* RECOVERY_ATTEMPT_CEILING is 2
  /\ \A d, e \in Delivery :
        d # e /\ To[d] = To[e] /\ Class[d] = Class[e] => Class[d] = Direct
  /\ Pid \subseteq Agent /\ ArgvPayload \subseteq Agent
  /\ Asking \subseteq Agent /\ Steers \subseteq Agent /\ BrokenStart \subseteq Agent
  /\ Brakes \in BOOLEAN /\ FaultyCommit \in BOOLEAN /\ Graceful \in BOOLEAN
  /\ MaxRestart \in Nat /\ MaxOps \in Nat

VARIABLES
  \* deliveries table
  dstate, bound, attempts, evidence, hopped, purged, settled,
  \* run messages and their event blobs
  status, author, journal,
  \* members table and open interactions
  mstate, removed, asks,
  \* the daemon's in-memory turns
  inflight, pc, batch, outcome, after, fenced,
  \* other in-memory sets of the daemon
  released, steer, stops, lifes,
  \* where the thread is
  phase, pump, spin, resend, todo, seen,
  \* adapter processes that outlived a daemon
  orphans,
  \* history: payloads handed to a harness, those with durable evidence of it,
  \* rows an operator or a graceful stop re-queued
  fed, proven, forced, requeued,
  restarts, ops

delv  == <<dstate, bound, attempts, evidence, hopped, purged, settled>>
runs  == <<status, author, journal>>
mems  == <<mstate, removed, asks>>
turns == <<inflight, pc, batch, outcome, after, fenced>>
flags == <<released, steer, stops, lifes>>
where == <<phase, pump, spin, resend, todo, seen>>
hist  == <<fed, proven, forced, requeued>>
count == <<restarts, ops>>
vars  == <<delv, runs, mems, turns, flags, where, orphans, hist, count>>

DState   == {"absent", "queued", "delivering", "held", "consumed"}
Outcome  == {"completed", "failed", "interrupted"}
Status   == {"none", "running"} \cup Outcome
Journal  == {"empty", "started"} \cup Outcome
MState   == {"idle", "queued", "running", "paused", "dead"}
Pc       == {"idle", "begun", "spawned", "recorded", "started", "ended", "threw"}
After    == {"drain", "none", "orphan"}
Steer    == {"no", "waiting", "sent", "accepted"}
Phase    == {"ready", "closing", "closed", "crashed", "boot", "sweep"}

\* Types of every variable.
TypeOK ==
  /\ dstate \in [Delivery -> DState]
  /\ bound \in [Delivery -> Run \cup {NoRun}]
  /\ attempts \in [Delivery -> Nat]
  /\ evidence \in [Delivery -> Run \cup {NoRun}]
  /\ hopped \subseteq Delivery /\ purged \subseteq Delivery
  /\ settled \subseteq Delivery
  /\ status \in [Run -> Status]
  /\ author \in [Run -> Agent \cup {Nobody}]
  /\ journal \in [Run -> Journal]
  /\ mstate \in [Agent -> MState]
  /\ removed \subseteq Agent /\ asks \subseteq Agent
  /\ inflight \subseteq Agent
  /\ pc \in [Run -> Pc]
  /\ batch \in [Run -> SUBSET Delivery]
  /\ outcome \in [Run -> Outcome]
  /\ after \in [Run -> After]
  /\ fenced \subseteq Run
  /\ released \subseteq Delivery
  /\ steer \in [Delivery -> Steer]
  /\ stops \subseteq Agent /\ lifes \subseteq Agent
  /\ phase \in Phase
  /\ pump \subseteq Agent /\ spin \subseteq Agent
  /\ resend \subseteq Delivery
  /\ todo \subseteq Run /\ seen \subseteq Run
  /\ orphans \subseteq Run
  /\ fed \in [Delivery -> Nat]
  /\ proven \subseteq Delivery
  /\ forced \subseteq Delivery /\ requeued \subseteq Delivery
  /\ restarts \in Nat /\ ops \in Nat

Init ==
  /\ dstate = [d \in Delivery |-> "absent"]
  /\ bound = [d \in Delivery |-> NoRun]
  /\ attempts = [d \in Delivery |-> 0]
  /\ evidence = [d \in Delivery |-> NoRun]
  /\ hopped = {} /\ purged = {} /\ settled = {}
  /\ status = [r \in Run |-> "none"]
  /\ author = [r \in Run |-> Nobody]
  /\ journal = [r \in Run |-> "empty"]
  /\ mstate = [a \in Agent |-> "idle"]
  /\ removed = {} /\ asks = {}
  /\ inflight = {}
  /\ pc = [r \in Run |-> "idle"]
  /\ batch = [r \in Run |-> {}]
  /\ outcome = [r \in Run |-> "interrupted"]
  /\ after = [r \in Run |-> "none"]
  /\ fenced = {}
  /\ released = {}
  /\ steer = [d \in Delivery |-> "no"]
  /\ stops = {} /\ lifes = {}
  /\ phase = "ready"
  /\ pump = {} /\ spin = {} /\ resend = {} /\ todo = {} /\ seen = {}
  /\ orphans = {}
  /\ fed = [d \in Delivery |-> 0]
  /\ proven = {} /\ forced = {} /\ requeued = {}
  /\ restarts = 0 /\ ops = 0

-----------------------------------------------------------------------------
(***************************************************************************)
(* Reading the state                                                       *)
(***************************************************************************)
Active(r) == pc[r] # "idle"

\* Nothing is left on the stack or the microtask queue.
Quiet == pump = {} /\ spin = {} /\ resend = {} /\ \A r \in Run : pc[r] # "threw"

Serving == phase = "ready" /\ Quiet                    \* sockets are open
Turning == phase \in {"ready", "closing"} /\ Quiet     \* adapter turns go on

Grouped(d) == Class[d] # Direct

BoundTo(r) == {d \in Delivery : bound[d] = r}

\* processAlive on the process identity stored with the attempt.
ProcessAlive(d) ==
  /\ evidence[d] # NoRun
  /\ evidence[d] \in orphans \/ pc[evidence[d]] \in {"recorded", "started"}

\* Fault: the in-memory guard is not consulted.
EligibleWhileInFlight(m) ==
  phase # "closing" /\ m \notin removed /\ mstate[m] \notin {"paused", "dead"}

turnStartEligibility(m) ==
  /\ phase # "closing"
  /\ m \notin inflight
  /\ m \notin removed
  /\ mstate[m] \notin {"paused", "dead"}

\* The queued rows the pump may take: those being steered are left alone.
Queue(m) == {d \in Delivery : To[d] = m /\ dstate[d] = "queued" /\ steer[d] = "no"}

\* The FIFO prefix of rows of the class of the first one.
selectDeliveryBatchPrefix(Q) ==
  {d \in Q : \A e, f \in Q : e <= d /\ f <= d => Class[e] = Class[f]}

\* Fault: any past attempt fences the member, settled or not.
OwnsAnyAttempt(m) == \E d \in Delivery : To[d] = m /\ bound[d] # NoRun

\* The durable fence of beginTurn: an unresolved attempt of the same member.
ownsUnresolvedAttempt(m) ==
  \E d \in Delivery : /\ To[d] = m /\ dstate[d] = "delivering"
                      /\ bound[d] # NoRun /\ status[bound[d]] = "running"

FreshRuns == {r \in Run : /\ status[r] = "none"
                          /\ \A q \in Run : status[q] = "none" => r <= q}

collaborationWorkIsSettled(d) == d \in settled

\* The state a routed row gives its recipient (queueAgentDelivery).
QueuedState(a) ==
  IF (a \in inflight /\ mstate[a] = "running") \/ mstate[a] \in {"paused", "dead"}
  THEN mstate[a] ELSE "queued"

\* What a settled turn leaves its member in.
RestState(m) == IF mstate[m] \in {"dead", "paused"} THEN mstate[m] ELSE "idle"

-----------------------------------------------------------------------------
(***************************************************************************)
(* Routing a new row                                                       *)
(***************************************************************************)
\* The least row not yet created: rows are created in queue_seq order.
NextRow == {d \in Delivery : /\ dstate[d] = "absent"
                             /\ \A e \in Delivery : dstate[e] = "absent" => d <= e}

\* dispatchCreatedDeliveries: a grouped row to a dead member is skipped; a
\* brake holds a row; a live turn that can be steered is given it; otherwise
\* it is queued and the member is pumped.
Skips(d)     == Grouped(d) /\ (mstate[To[d]] = "dead" \/ To[d] \in removed)
Steerable(d) == /\ ~Grouped(d) /\ To[d] \in Steers
                /\ To[d] \in inflight /\ mstate[To[d]] = "running"
Routes(d)    == IF Skips(d) THEN {"skip"}
                ELSE {IF Steerable(d) THEN "steer" ELSE "queue"}
                     \cup (IF Brakes THEN {"hold"} ELSE {})

RoutedState(how) == CASE how = "skip" -> "consumed"
                      [] how = "hold" -> "held"
                      [] OTHER -> "queued"

\* The agents that dispatching the rows N by route `how` queues work for.
QueuedFor(N, how) == {To[d] : d \in {e \in N : how = "queue"}}

steerRouted(N, how) ==
  steer' = [d \in Delivery |-> IF d \in N /\ how = "steer" THEN "waiting" ELSE steer[d]]

\* postChatMessage: commitRoutedMessage, then dispatchCreatedDeliveries.
Post(d, how) ==
  /\ Serving /\ d \in NextRow /\ To[d] \notin removed /\ how \in Routes(d)
  /\ dstate' = [dstate EXCEPT ![d] = RoutedState(how)]
  /\ settled' = IF how = "skip" THEN settled \cup {d} ELSE settled
  /\ mstate' = [a \in Agent |-> IF a \in QueuedFor({d}, how) THEN QueuedState(a)
                                ELSE mstate[a]]
  /\ steerRouted({d}, how)
  /\ pump' = QueuedFor({d}, how)
  /\ UNCHANGED <<bound, attempts, evidence, hopped, purged, runs, removed, asks,
                 turns, released, stops, lifes, phase, spin, resend, todo, seen,
                 orphans, hist, count>>

-----------------------------------------------------------------------------
(***************************************************************************)
(* Starting a turn                                                         *)
(***************************************************************************)
\* runTurn up to its first await.  beginTurn binds the rows D to run r and
\* counts the attempt before anything is spawned; the rows H were held by
\* brakes on the way.  Building the session may throw after that commit.
beginTurn(m, D, H, r, then) ==
  /\ dstate' = [d \in Delivery |-> CASE d \in D -> "delivering"
                                     [] d \in H -> "held"
                                     [] OTHER -> dstate[d]]
  /\ bound' = [d \in Delivery |-> IF d \in D THEN r ELSE bound[d]]
  /\ attempts' = [d \in Delivery |-> IF d \in D THEN attempts[d] + 1 ELSE attempts[d]]
  /\ evidence' = [d \in Delivery |-> IF d \in D THEN NoRun ELSE evidence[d]]
  /\ status' = [status EXCEPT ![r] = "running"]
  /\ author' = [author EXCEPT ![r] = m]
  /\ mstate' = [mstate EXCEPT ![m] = "running"]
  /\ released' = released \ (D \cup H)
  /\ inflight' = inflight \cup {m}
  /\ batch' = [batch EXCEPT ![r] = D]
  /\ after' = [after EXCEPT ![r] = then]
  /\ fenced' = fenced \ {r}
  /\ \/ pc' = [pc EXCEPT ![r] = "begun"]
     \/ m \in BrokenStart /\ pc' = [pc EXCEPT ![r] = "threw"]
  /\ UNCHANGED <<hopped, purged, settled, journal, outcome>>

\* Fault: release_hold gives no exemption.
BrakableAgain(B) == IF Brakes THEN B \cap hopped ELSE {}

\* Rows of B a brake may hold when a turn starts (applyTurnStartBrakes).
Brakable(B) == IF Brakes THEN (B \cap hopped) \ released ELSE {}

\* maybeStartTurn that starts nothing: not eligible, or nothing queued.
PumpNothing(m) ==
  /\ m \in pump
  /\ ~turnStartEligibility(m) \/ Queue(m) = {}
  /\ pump' = pump \ {m}
  /\ UNCHANGED <<delv, runs, mems, turns, flags, phase, spin, resend, todo, seen,
                 orphans, hist, count>>

\* maybeStartTurn that starts a turn, or whose batch the brakes hold.
PumpStart(m) ==
  /\ m \in pump
  /\ turnStartEligibility(m) /\ Queue(m) # {}
  /\ \E H \in SUBSET Brakable(selectDeliveryBatchPrefix(Queue(m))) :
       LET B  == selectDeliveryBatchPrefix(Queue(m))
           HH == IF H # {} /\ \E d \in B : Grouped(d) THEN B ELSE H
       IN \/ /\ HH = B
             /\ dstate' = [d \in Delivery |-> IF d \in B THEN "held" ELSE dstate[d]]
             /\ released' = released \ B
             /\ mstate' = [mstate EXCEPT ![m] = IF @ = "queued" THEN "idle" ELSE @]
             /\ UNCHANGED <<bound, attempts, evidence, hopped, purged, settled, runs,
                            turns>>
          \/ /\ HH # B /\ ~ownsUnresolvedAttempt(m)
             /\ \E r \in FreshRuns : beginTurn(m, B \ HH, HH, r, "drain")
  /\ pump' = pump \ {m}
  /\ UNCHANGED <<removed, asks, steer, stops, lifes, phase, spin, resend, todo, seen,
                 orphans, hist, count>>

\* maybeStartTurn whose beginTurn refuses the fresh run: the member rests and
\* stays in `inflight` until the microtask after runTurn returns.
PumpFenced(m) ==
  /\ m \in pump
  /\ turnStartEligibility(m) /\ Queue(m) # {} /\ ownsUnresolvedAttempt(m)
  /\ \E H \in SUBSET Brakable(selectDeliveryBatchPrefix(Queue(m))) :
       /\ H # selectDeliveryBatchPrefix(Queue(m))
       /\ H # {} => \A d \in selectDeliveryBatchPrefix(Queue(m)) : ~Grouped(d)
       /\ dstate' = [d \in Delivery |-> IF d \in H THEN "held" ELSE dstate[d]]
  /\ released' = released \ selectDeliveryBatchPrefix(Queue(m))
  /\ mstate' = [mstate EXCEPT ![m] = IF @ = "queued" THEN "idle" ELSE @]
  /\ inflight' = inflight \cup {m}
  /\ pump' = pump \ {m}
  /\ spin' = spin \cup {m}
  /\ UNCHANGED <<bound, attempts, evidence, hopped, purged, settled, runs, removed,
                 asks, pc, batch, outcome, after, fenced, steer, stops, lifes, phase,
                 resend, todo, seen, orphans, hist, count>>

\* ... and then maybeStartTurn calls itself again.
PumpAgain(m) ==
  /\ m \in spin /\ phase \in {"ready", "closing"} /\ pump = {} /\ resend = {}
  /\ inflight' = inflight \ {m}
  /\ spin' = spin \ {m}
  /\ pump' = {m}
  /\ UNCHANGED <<delv, runs, mems, pc, batch, outcome, after, fenced, flags, phase,
                 resend, todo, seen, orphans, hist, count>>

\* The rejected runTurn unwinds: `finally` clears inflight, nothing is pumped.
StartThrows(r) ==
  /\ pc[r] = "threw" /\ phase \in {"ready", "closing"} /\ pump = {} /\ resend = {}
  /\ inflight' = inflight \ {author[r]}
  /\ pc' = [pc EXCEPT ![r] = "idle"]
  /\ UNCHANGED <<delv, runs, mems, batch, outcome, after, fenced, flags, where,
                 orphans, hist, count>>
-----------------------------------------------------------------------------
(***************************************************************************)
(* An adapter turn                                                         *)
(***************************************************************************)
\* A harness hands its payload over at spawn (argv) or after onStarted.
Fed(D) == fed' = [d \in Delivery |-> IF d \in D THEN fed[d] + 1 ELSE fed[d]]

AdapterSpawns(r) ==
  /\ Turning /\ pc[r] = "begun"
  /\ pc' = [pc EXCEPT ![r] = "spawned"]
  /\ IF author[r] \in ArgvPayload THEN Fed(batch[r]) ELSE UNCHANGED fed
  /\ UNCHANGED <<delv, runs, mems, inflight, batch, outcome, after, fenced, flags,
                 where, orphans, proven, forced, requeued, count>>

\* onStarted, first write: the process identity on every row of the attempt.
setDeliveryAttemptProcess(r) ==
  /\ Turning /\ pc[r] = "spawned"
  /\ pc' = [pc EXCEPT ![r] = "recorded"]
  /\ evidence' = [d \in Delivery |->
                    IF d \in batch[r] /\ r \notin fenced
                    THEN IF author[r] \in Pid THEN r ELSE NoRun
                    ELSE evidence[d]]
  /\ proven' = proven \cup {d \in batch[r] : /\ r \notin fenced
                                          /\ author[r] \in Pid \cap ArgvPayload}
  /\ UNCHANGED <<dstate, bound, attempts, hopped, purged, settled, runs, mems, inflight,
                 batch, outcome, after, fenced, flags, where, orphans, fed, forced,
                 requeued, count>>

\* onStarted, second write: run.started in the journal blob.
JournalStarted(r) ==
  /\ Turning /\ pc[r] = "recorded"
  /\ pc' = [pc EXCEPT ![r] = "started"]
  /\ journal' = [journal EXCEPT ![r] = IF r \notin fenced THEN "started" ELSE @]
  /\ IF author[r] \in ArgvPayload THEN UNCHANGED fed ELSE Fed(batch[r])
  /\ proven' = proven \cup {d \in batch[r] : r \notin fenced}
  /\ UNCHANGED <<delv, status, author, mems, inflight, batch, outcome, after, fenced,
                 flags, where, orphans, forced, requeued, count>>

\* ask.raised / approval.raised: the turn blocks on a human card.
RaiseAsk(r) ==
  /\ Turning /\ pc[r] = "started" /\ r \notin fenced
  /\ author[r] \in Asking \ asks
  /\ asks' = asks \cup {author[r]}
  /\ mstate' = [mstate EXCEPT ![author[r]] = "running"]
  /\ UNCHANGED <<delv, runs, removed, turns, flags, where, orphans, hist, count>>

\* answer_interaction, acknowledged by the harness.
AnswerAsk(m) ==
  /\ Serving /\ m \in asks /\ m \in inflight
  /\ asks' = asks \ {m}
  /\ UNCHANGED <<delv, runs, mstate, removed, turns, flags, where, orphans, hist, count>>

\* run.completed is journaled; events of a replaced session are dropped.
JournalCompleted(r, o) ==
  /\ Turning /\ pc[r] = "started" /\ r \notin fenced
  /\ journal' = [journal EXCEPT ![r] = o]
  /\ outcome' = [outcome EXCEPT ![r] = o]
  /\ pc' = [pc EXCEPT ![r] = "ended"]
  /\ UNCHANGED <<delv, status, author, mems, inflight, batch, after, fenced, flags,
                 where, orphans, hist, count>>

\* The event stream throws (failed), or ends with no run.completed accepted.
StreamEnds(r, o) ==
  /\ Turning /\ pc[r] \in {"begun", "spawned", "recorded", "started"}
  /\ o \in {"failed", "interrupted"}
  /\ outcome' = [outcome EXCEPT ![r] = o]
  /\ pc' = [pc EXCEPT ![r] = "ended"]
  /\ UNCHANGED <<delv, runs, mems, inflight, batch, after, fenced, flags, where,
                 orphans, hist, count>>

-----------------------------------------------------------------------------
(***************************************************************************)
(* The three transactions that end a turn                                  *)
(***************************************************************************)
\* completeTurn and the dispatch of its fan-out N: consumes every input row.
completeTurn(r, D, o, N, how) ==
  /\ \/ N = {}
     \/ /\ N # {} /\ o # "failed" /\ \A d \in D : ~Grouped(d)
        /\ \E d \in NextRow : N = {d} /\ To[d] \notin removed \cup {author[r]}
  /\ \A d \in N : how \in Routes(d)
  /\ N = {} => how = "queue"
  /\ dstate' = [d \in Delivery |-> CASE d \in N -> RoutedState(how)
                                     [] d \in D -> "consumed"
                                     [] OTHER -> dstate[d]]
  /\ status' = [status EXCEPT ![r] = o]
  /\ settled' = settled \cup {d \in D : Grouped(d)} \cup {d \in N : how = "skip"}
  /\ mstate' = [a \in Agent |->
                  IF a = author[r] THEN IF o = "failed" THEN "dead" ELSE RestState(a)
                  ELSE IF a \in QueuedFor(N, how) THEN QueuedState(a) ELSE mstate[a]]
  /\ hopped' = hopped \cup N
  /\ steerRouted(N, how)
  /\ UNCHANGED <<bound, attempts, evidence, purged, author, journal, requeued>>

\* Fault: only the run is repaired.
RepairRunOnly(r, D) ==
  /\ status' = [status EXCEPT ![r] = "failed"]
  /\ mstate' = [mstate EXCEPT ![author[r]] = RestState(author[r])]
  /\ UNCHANGED <<delv, author, journal, steer, requeued>>

\* repairFailedFinalization of a run that is still running.
repairFailedFinalization(r, D) ==
  /\ dstate' = [d \in Delivery |->
                  IF d \in D /\ dstate[d] = "delivering"
                  THEN IF collaborationWorkIsSettled(d) THEN "consumed" ELSE "held"
                  ELSE dstate[d]]
  /\ evidence' = [d \in Delivery |->
                    IF d \in D /\ dstate[d] = "delivering" THEN NoRun ELSE evidence[d]]
  /\ status' = [status EXCEPT ![r] = "failed"]
  /\ mstate' = [mstate EXCEPT ![author[r]] = RestState(author[r])]
  /\ UNCHANGED <<bound, attempts, hopped, purged, settled, author, journal, steer,
                 requeued>>

\* Fault: the ceiling is not consulted.
LifecycleAlways(D)    == {d \in D : /\ dstate[d] \in {"consumed", "delivering"}
                                    /\ d \notin purged
                                    /\ ~collaborationWorkIsSettled(d)}

\* settleLifecycleInterruption: retry or terminal, decided row by row.
LifecycleRows(D)   == {d \in D : dstate[d] \in {"consumed", "delivering"}}
LifecycleRetry(D)  == {d \in LifecycleRows(D) : /\ attempts[d] < Ceiling
                                                /\ d \notin purged
                                                /\ ~collaborationWorkIsSettled(d)}
settleLifecycleInterruption(r, D, preserve) ==
  /\ dstate' = [d \in Delivery |-> IF d \in LifecycleRetry(D) THEN "queued"
                                   ELSE IF d \in LifecycleRows(D) THEN "consumed"
                                   ELSE dstate[d]]
  /\ bound' = [d \in Delivery |-> IF d \in LifecycleRetry(D) THEN NoRun ELSE bound[d]]
  /\ evidence' = [d \in Delivery |-> IF d \in LifecycleRows(D) THEN NoRun ELSE evidence[d]]
  /\ settled' = settled \cup {d \in LifecycleRows(D) \ LifecycleRetry(D) : Grouped(d)}
  /\ status' = [status EXCEPT ![r] = "interrupted"]
  /\ mstate' = IF preserve THEN mstate
               ELSE [mstate EXCEPT ![author[r]] = RestState(author[r])]
  /\ UNCHANGED <<attempts, hopped, purged, author, journal, steer>>

-----------------------------------------------------------------------------
(***************************************************************************)
(* The end of runTurn                                                      *)
(***************************************************************************)
\* The promise chain of the turn ends: inflight is cleared.  Then a turn the
\* pump started drains the queue; one retryTurn started does not, it may only
\* expire cards its turn never re-raised.
TurnReturns(r) ==
  /\ pc' = [pc EXCEPT ![r] = "idle"]
  /\ batch' = [batch EXCEPT ![r] = {}]
  /\ outcome' = [outcome EXCEPT ![r] = "interrupted"]
  /\ after' = [after EXCEPT ![r] = "none"]
  /\ inflight' = inflight \ {author[r]}
  /\ fenced' = fenced \ {r}
\* Fault: no turn pumps its member's queue again.
DrainsNever(r) == {}

Drains(r)  == {a \in Agent : a = author[r] /\ after[r] = "drain"}
Expires(r) == {a \in Agent : a = author[r] /\ after[r] = "orphan"}

\* An operator Stop or a graceful stop reclassifies a failed exit.
Classified(r) == IF outcome[r] = "failed" /\ author[r] \in stops \cup lifes
                 THEN "interrupted" ELSE outcome[r]
IsLifecycle(r) == Classified(r) = "interrupted" /\ author[r] \in lifes

FinalizeLifecycle(r) ==
  /\ Turning /\ pc[r] = "ended" /\ IsLifecycle(r)
  /\ settleLifecycleInterruption(r, batch[r], FALSE)
  /\ requeued' = requeued \cup LifecycleRetry(batch[r])
  /\ TurnReturns(r) /\ pump' = Drains(r) /\ asks' = asks \ Expires(r)
  /\ stops' = stops \ {author[r]} /\ lifes' = lifes \ {author[r]}
  /\ UNCHANGED <<removed, released, phase, spin, resend, todo, seen, orphans, fed,
                 proven, forced, count>>

FinalizeCommits(r, N, how) ==
  /\ Turning /\ pc[r] = "ended" /\ ~IsLifecycle(r)
  /\ \A d \in batch[r] : ~collaborationWorkIsSettled(d)
  /\ completeTurn(r, batch[r], Classified(r), N, how)
  /\ TurnReturns(r)
  /\ pump' = Drains(r) \cup QueuedFor(N, how)
  /\ asks' = asks \ Expires(r)
  /\ stops' = stops \ {author[r]}
  /\ UNCHANGED <<removed, released, lifes, phase, spin, resend, todo, seen, orphans,
                 fed, proven, forced, count>>

\* Its work is already settled, or completeTurn rolled back.  A run that is no
\* longer running cannot be repaired: the error escapes and nothing is drained.
FinalizeRepairs(r) ==
  /\ Turning /\ pc[r] = "ended" /\ ~IsLifecycle(r)
  /\ FaultyCommit \/ \E d \in batch[r] : collaborationWorkIsSettled(d)
  /\ TurnReturns(r)
  /\ IF status[r] = "running"
     THEN /\ repairFailedFinalization(r, batch[r])
          /\ pump' = Drains(r) /\ asks' = asks \ Expires(r)
     ELSE UNCHANGED <<delv, runs, mstate, steer, requeued, pump, asks>>
  /\ stops' = stops \ {author[r]}
  /\ UNCHANGED <<removed, released, lifes, phase, spin, resend, todo, seen, orphans,
                 fed, proven, forced, count>>
-----------------------------------------------------------------------------
(***************************************************************************)
(* Steering a live turn, and the agent reading its own inbox               *)
(***************************************************************************)
\* steerAgentDelivery: one row of a member at a time, in order.
SteerTurn(d) == \A e \in Delivery : To[e] = To[d] /\ e < d => steer[e] = "no"
CanStillSteer(m) == m \in inflight /\ mstate[m] = "running"

\* The row falls back to the queue (queueAgentDelivery), or was taken already.
SteerFallsBack(d) ==
  /\ steer' = [steer EXCEPT ![d] = "no"]
  /\ mstate' = [mstate EXCEPT ![To[d]] = IF dstate[d] = "queued" THEN QueuedState(To[d])
                                         ELSE @]
  /\ pump' = {a \in {To[d]} : dstate[d] = "queued"}
  /\ UNCHANGED <<delv, runs, removed, asks, turns, released, stops, lifes, phase, spin,
                 resend, todo, seen, orphans, hist, count>>

SteerSkipped(d) ==
  /\ Turning /\ steer[d] = "waiting" /\ SteerTurn(d)
  /\ dstate[d] # "queued" \/ ~CanStillSteer(To[d])
  /\ SteerFallsBack(d)

SteerSent(d) ==
  /\ Turning /\ steer[d] = "waiting" /\ SteerTurn(d)
  /\ dstate[d] = "queued" /\ CanStillSteer(To[d])
  /\ steer' = [steer EXCEPT ![d] = "sent"]
  /\ UNCHANGED <<delv, runs, mems, turns, released, stops, lifes, where, orphans, hist,
                 count>>

\* The harness takes the text into the live turn; its reply is on the way.
HarnessAccepts(d) ==
  /\ Turning /\ steer[d] = "sent" /\ To[d] \in inflight
  /\ steer' = [steer EXCEPT ![d] = "accepted"]
  /\ Fed({d})
  /\ UNCHANGED <<delv, runs, mems, turns, released, stops, lifes, where, orphans,
                 proven, forced, requeued, count>>

\* steer() answers false, or throws: on a refusal, on an answer that names another
\* turn, or on a lost one, after the text was taken.
SteerRefused(d) == Turning /\ steer[d] \in {"sent", "accepted"} /\ SteerFallsBack(d)

SteerAcknowledged(d) ==
  /\ Turning /\ steer[d] = "accepted"
  /\ steer' = [steer EXCEPT ![d] = "no"]
  /\ dstate' = [dstate EXCEPT ![d] = IF @ = "queued" THEN "consumed" ELSE @]
  /\ UNCHANGED <<bound, attempts, evidence, hopped, purged, settled, runs, mems, turns,
                 released, stops, lifes, where, orphans, hist, count>>

\* consume_delivery: the running agent takes a row from its own inbox.
consumeDelivery(d) ==
  /\ Serving /\ To[d] \in inflight /\ dstate[d] = "queued"
  /\ dstate' = [dstate EXCEPT ![d] = "consumed"]
  /\ UNCHANGED <<bound, attempts, evidence, hopped, purged, settled, runs, mems, turns,
                 flags, where, orphans, hist, count>>

-----------------------------------------------------------------------------
(***************************************************************************)
(* Operator acts on members                                                *)
(***************************************************************************)
Act(name) == /\ name \in Acts /\ Serving /\ ops < MaxOps
             /\ ops' = ops + 1 /\ UNCHANGED restarts

interruptMember(m) ==
  /\ Act("stop") /\ m \in inflight /\ m \notin removed
  /\ stops' = stops \cup {m}
  /\ UNCHANGED <<delv, runs, mems, turns, released, steer, lifes, where, orphans, hist>>

\* Grouped rows that never started leave the barrier with their member.
SkippedWith(m) == {d \in Delivery : /\ To[d] = m /\ Grouped(d) /\ bound[d] = NoRun
                                    /\ dstate[d] \in {"queued", "held"}
                                    /\ d \notin settled}

killMember(m) ==
  /\ Act("kill")
  /\ mstate' = [mstate EXCEPT ![m] = "dead"]
  /\ asks' = asks \ {m}
  /\ dstate' = [d \in Delivery |-> IF d \in SkippedWith(m) THEN "consumed" ELSE dstate[d]]
  /\ settled' = settled \cup SkippedWith(m)
  /\ UNCHANGED <<bound, attempts, evidence, hopped, purged, runs, removed, turns, flags,
                 where, orphans, hist>>

\* The cached session is replaced: events of the old one are fenced off.
ActiveOf(m) == {r \in Run : Active(r) /\ author[r] = m}

reviveMember(m) ==
  /\ Act("revive") /\ mstate[m] = "dead"
  /\ mstate' = [mstate EXCEPT ![m] = "idle"]
  /\ fenced' = fenced \cup ActiveOf(m)
  /\ pump' = {m}
  /\ UNCHANGED <<delv, runs, removed, asks, inflight, pc, batch, outcome, after, flags,
                 phase, spin, resend, todo, seen, orphans, hist>>

pauseMember(m) ==
  /\ Act("pause") /\ m \notin removed /\ mstate[m] \in {"idle", "queued"}
  /\ mstate' = [mstate EXCEPT ![m] = "paused"]
  /\ UNCHANGED <<delv, runs, removed, asks, turns, flags, where, orphans, hist>>

unpauseMember(m) ==
  /\ Act("unpause") /\ mstate[m] = "paused"
  /\ mstate' = [mstate EXCEPT ![m] = "idle"]
  /\ pump' = {m}
  /\ UNCHANGED <<delv, runs, removed, asks, turns, flags, phase, spin, resend, todo, seen,
                 orphans, hist>>

\* removeMember: kill, tombstone, drop the session, consume what is waiting.
Waiting(m) == {d \in Delivery : To[d] = m /\ dstate[d] \in {"queued", "held"}}
\* Running runs none of whose rows is still open once the rows D are consumed.
LeftWithout(D) == {r \in Run : /\ status[r] = "running"
                               /\ \E d \in D : bound[d] = r
                               /\ \A d \in BoundTo(r) \ D : dstate[d] = "consumed"}

removeMember(m) ==
  /\ Act("remove")
  /\ mstate' = [mstate EXCEPT ![m] = "dead"]
  /\ asks' = IF mstate[m] = "dead" THEN asks ELSE asks \ {m}
  /\ removed' = removed \cup {m}
  /\ fenced' = fenced \cup ActiveOf(m)
  /\ dstate' = [d \in Delivery |->
                  IF d \in Waiting(m) /\ ~(Grouped(d) /\ bound[d] = NoRun /\ d \in settled)
                  THEN "consumed" ELSE dstate[d]]
  /\ settled' = settled \cup {d \in Waiting(m) : Grouped(d)}
  /\ status' = [r \in Run |-> IF r \in LeftWithout(Waiting(m)) THEN "interrupted"
                              ELSE status[r]]
  /\ UNCHANGED <<bound, attempts, evidence, hopped, purged, author, journal, inflight,
                 pc, batch, outcome, after, flags, where, orphans, hist>>
-----------------------------------------------------------------------------
(***************************************************************************)
(* Operator acts on deliveries and runs                                    *)
(***************************************************************************)
\* The chat message of a row is purged, a row that still waits is cancelled.
deleteMessage(d) ==
  /\ Act("delete") /\ dstate[d] # "absent" /\ d \notin purged \cup hopped
  /\ purged' = purged \cup {d}
  /\ dstate' = [dstate EXCEPT ![d] = IF @ \in {"queued", "held"} THEN "consumed" ELSE @]
  /\ UNCHANGED <<bound, attempts, evidence, hopped, settled, runs, mems, turns,
                 flags, where, orphans, hist>>

RetiredWith(d) == {r \in Run : status[r] = "running" /\ BoundTo(r) = {d}}

\* redeliver: back to the queue as a new, unbound, uncounted row; a running run
\* that no other row is bound to is retired as interrupted.
redeliver(d) ==
  /\ dstate' = [dstate EXCEPT ![d] = "queued"]
  /\ bound' = [bound EXCEPT ![d] = NoRun]
  /\ attempts' = [attempts EXCEPT ![d] = 0]
  /\ evidence' = [evidence EXCEPT ![d] = NoRun]
  /\ released' = released \ {d}
  /\ status' = [r \in Run |-> IF r \in RetiredWith(d) THEN "interrupted" ELSE status[r]]
  /\ forced' = forced \cup {d}
  /\ pump' = {To[d]}
  /\ UNCHANGED <<hopped, purged, settled, author, journal, removed, asks, inflight, pc,
                 batch, outcome, after, steer, stops, lifes, phase, spin, todo, seen,
                 orphans, fed, proven, requeued>>

Redeliver(d) ==
  /\ Act("redeliver") /\ dstate[d] # "absent"
  /\ redeliver(d)
  /\ UNCHANGED <<mstate, fenced, resend>>

\* retryRun: revive the dead author, then redeliver each surviving row; each
\* of these pumps the member before the next one.
retryRun(r) ==
  /\ Act("retry") /\ status[r] \in {"failed", "interrupted"}
  /\ BoundTo(r) \ purged # {}
  /\ resend' = BoundTo(r) \ purged
  /\ IF mstate[author[r]] = "dead"
     THEN /\ mstate' = [mstate EXCEPT ![author[r]] = "idle"]
          /\ fenced' = fenced \cup ActiveOf(author[r])
          /\ pump' = {author[r]}
     ELSE UNCHANGED <<mstate, fenced, pump>>
  /\ UNCHANGED <<delv, runs, removed, asks, inflight, pc, batch, outcome, after, flags,
                 phase, spin, todo, seen, orphans, hist>>

RetryRunResends(d) ==
  /\ d \in resend /\ pump = {} /\ \A e \in resend : d <= e
  /\ redeliver(d)
  /\ resend' = resend \ {d}
  /\ UNCHANGED <<mstate, fenced, count>>

\* releaseHold of a row whose recipient was removed: the attempt is settled.
ReleaseRefused(d) ==
  /\ Act("release") /\ dstate[d] = "held" /\ ~ProcessAlive(d) /\ To[d] \in removed
  /\ dstate' = [dstate EXCEPT ![d] = "consumed"]
  /\ settled' = settled \cup {e \in {d} : Grouped(e)}
  /\ status' = [r \in Run |-> IF r \in LeftWithout({d}) THEN "interrupted" ELSE status[r]]
  /\ UNCHANGED <<bound, attempts, evidence, hopped, purged, author, journal, mems, turns,
                 flags, where, orphans, hist>>

\* releaseHold of an interrupted run: its whole held group runs again on it.
ReleaseResumes(d) ==
  /\ Act("release") /\ dstate[d] = "held" /\ ~ProcessAlive(d) /\ To[d] \notin removed
  /\ bound[d] # NoRun /\ status[bound[d]] = "interrupted"
  /\ turnStartEligibility(To[d])
  /\ LET G == {e \in BoundTo(bound[d]) : dstate[e] = "held" /\ To[e] = To[d]}
     IN /\ beginTurn(To[d], G, {}, bound[d], "none")
        /\ forced' = forced \cup G
  /\ UNCHANGED <<removed, asks, steer, stops, lifes, where, orphans, fed, proven, requeued>>

\* releaseHold of any other held row: queued again, exempt from brakes once.
ReleaseQueues(d) ==
  /\ Act("release") /\ dstate[d] = "held" /\ ~ProcessAlive(d) /\ To[d] \notin removed
  /\ bound[d] # NoRun => status[bound[d]] # "interrupted"
  /\ dstate' = [dstate EXCEPT ![d] = "queued"]
  /\ released' = released \cup {d}
  /\ forced' = forced \cup {d}
  /\ pump' = {To[d]}
  /\ UNCHANGED <<bound, attempts, evidence, hopped, purged, settled, runs, mems, turns,
                 steer, stops, lifes, phase, spin, resend, todo, seen, orphans, fed, proven,
                 requeued>>

-----------------------------------------------------------------------------
(***************************************************************************)
(* Stopping and crashing                                                   *)
(***************************************************************************)
\* Fault: a turn the operator stopped is marked for retry as well.
SnapshotStoppedToo ==
  {r \in Run : /\ status[r] = "running" /\ author[r] \in inflight
               /\ \E d \in BoundTo(r) : dstate[d] \in {"consumed", "delivering"}}

\* close(): marks the turns the stop is about to interrupt (an operator Stop
\* stays a Stop), interrupts every session, and waits for the turns to settle.
snapshotInFlightTurns ==
  {r \in Run : /\ status[r] = "running"
               /\ author[r] \in inflight \ stops
               /\ \E d \in BoundTo(r) : dstate[d] \in {"consumed", "delivering"}}

Close ==
  /\ Graceful /\ Serving /\ restarts < MaxRestart
  /\ phase' = "closing"
  /\ lifes' = lifes \cup {author[r] : r \in snapshotInFlightTurns}
  /\ restarts' = restarts + 1
  /\ UNCHANGED <<delv, runs, mems, turns, released, steer, stops, pump, spin, resend,
                 todo, seen, orphans, hist, ops>>

\* What dies with the process.
MemoryLost ==
  /\ inflight' = {} /\ fenced' = {}
  /\ pc' = [r \in Run |-> "idle"]
  /\ batch' = [r \in Run |-> {}]
  /\ outcome' = [r \in Run |-> "interrupted"]
  /\ after' = [r \in Run |-> "none"]
  /\ released' = {} /\ stops' = {} /\ lifes' = {}
  /\ steer' = [d \in Delivery |-> "no"]
  /\ pump' = {} /\ spin' = {} /\ resend' = {} /\ todo' = {} /\ seen' = {}

Closed ==
  /\ phase = "closing" /\ Quiet
  /\ inflight = {} /\ \A d \in Delivery : steer[d] = "no"
  /\ phase' = "closed"
  /\ MemoryLost
  /\ UNCHANGED <<delv, runs, mems, orphans, hist, count>>

\* The daemon dies; a detached adapter child may live on.
Crash ==
  /\ phase \in {"ready", "closing", "boot", "sweep"} /\ restarts < MaxRestart
  /\ phase' = "crashed"
  /\ restarts' = restarts + 1
  /\ \E O \in SUBSET {r \in Run : pc[r] \in {"spawned", "recorded", "started"}} :
       orphans' = orphans \cup O
  /\ MemoryLost
  /\ UNCHANGED <<delv, runs, mems, hist, ops>>

OrphanExits(r) ==
  /\ r \in orphans
  /\ orphans' = orphans \ {r}
  /\ UNCHANGED <<delv, runs, mems, turns, flags, where, hist, count>>

-----------------------------------------------------------------------------
(***************************************************************************)
(* Boot: reconcile(), before any socket is open                            *)
(***************************************************************************)
Boot ==
  /\ phase \in {"closed", "crashed"}
  /\ phase' = "boot"
  /\ todo' = {r \in Run : \E d \in BoundTo(r) : dstate[d] = "delivering"}
  /\ seen' = todo'
  /\ UNCHANGED <<delv, runs, mems, turns, flags, pump, spin, resend, orphans, hist,
                 count>>

Group(r) == {d \in BoundTo(r) : dstate[d] = "delivering"}

Reconciling(r) == phase = "boot" /\ pump = {} /\ r \in todo /\ Group(r) # {}

\* The blob shows run.completed: finalize from the journal, never re-run.
ReconcileFinishes(r, N, how) ==
  /\ Reconciling(r) /\ journal[r] \in Outcome /\ todo' = todo \ {r}
  /\ asks' = asks \ {author[r]}
  /\ \/ /\ \A d \in Group(r) : ~collaborationWorkIsSettled(d)
        /\ completeTurn(r, Group(r), journal[r], N, how)
        /\ pump' = QueuedFor(N, how)
     \/ /\ FaultyCommit \/ \E d \in Group(r) : collaborationWorkIsSettled(d)
        /\ N = {} /\ how = "queue"
        /\ repairFailedFinalization(r, Group(r))
        /\ UNCHANGED pump
  /\ UNCHANGED <<removed, turns, released, stops, lifes, phase, spin, resend, seen,
                 orphans, fed, proven, forced, count>>

\* Fault: run.started in the journal is not consulted.
NeverJournaled(r) == \A d \in Group(r) : attempts[d] <= 1

\* Is the attempt provably unstarted, or blocked on a card, and not alive?
Blocked(r)      == author[r] \in asks /\ \A d \in Group(r) : attempts[d] <= 2
NeverStarted(r) == /\ journal[r] = "empty"
                   /\ \A d \in Group(r) : evidence[d] = NoRun /\ attempts[d] <= 1
Retryable(r)    == /\ journal[r] \notin Outcome
                   /\ \A d \in Group(r) : ~ProcessAlive(d)
                   /\ Blocked(r) \/ NeverStarted(r)

\* retryTurn on the same run; a brake holds the rows and leaves the run alone.
ReconcileRetries(r) ==
  /\ Reconciling(r) /\ Retryable(r) /\ turnStartEligibility(author[r])
  /\ todo' = todo \ {r}
  /\ \/ /\ beginTurn(author[r], Group(r), {}, r, IF Blocked(r) THEN "orphan" ELSE "none")
        /\ requeued' = IF Blocked(r) THEN requeued \cup Group(r) ELSE requeued
     \/ /\ Brakable(Group(r)) # {}
        /\ dstate' = [d \in Delivery |-> IF d \in Group(r) THEN "held" ELSE dstate[d]]
        /\ released' = released \ Group(r)
        /\ UNCHANGED <<bound, attempts, evidence, hopped, purged, settled, runs, mstate,
                       turns, requeued>>
  /\ UNCHANGED <<removed, asks, steer, stops, lifes, phase, pump, spin, resend, seen,
                 orphans, fed, proven, forced, count>>

\* holdAmbiguousTurn: first the rows are parked ...
HoldRows(r) ==
  /\ Reconciling(r) /\ journal[r] \notin Outcome
  /\ ~Retryable(r) \/ ~turnStartEligibility(author[r])
  /\ dstate' = [d \in Delivery |-> IF d \in Group(r) THEN "held" ELSE dstate[d]]
  /\ UNCHANGED <<bound, attempts, evidence, hopped, purged, settled, runs, mems, turns,
                 flags, where, orphans, hist, count>>

\* Fault: the run keeps saying `running`.
HoldRetiresNothing(r) ==
  /\ phase = "boot" /\ pump = {} /\ r \in todo /\ Group(r) = {}
  /\ todo' = todo \ {r}
  /\ mstate' = [mstate EXCEPT ![author[r]] = RestState(author[r])]
  /\ asks' = asks \ {author[r]}
  /\ UNCHANGED <<delv, runs, removed, turns, flags, phase, pump, spin, resend, seen,
                 orphans, hist, count>>

\* ... then, in transactions of their own, the run is retired, the member rests
\* and its open cards expire.
HoldRetires(r) ==
  /\ phase = "boot" /\ pump = {} /\ r \in todo /\ Group(r) = {}
  /\ todo' = todo \ {r}
  /\ status' = [status EXCEPT ![r] = "interrupted"]
  /\ mstate' = [mstate EXCEPT ![author[r]] = RestState(author[r])]
  /\ asks' = asks \ {author[r]}
  /\ UNCHANGED <<delv, author, journal, removed, turns, flags, phase, pump, spin, resend,
                 seen, orphans, hist, count>>

\* The second pass: running runs that no `delivering` row led to.
Stranded == {r \in Run \ seen :
               /\ status[r] = "running"
               /\ \E d \in BoundTo(r) : dstate[d] \in {"consumed", "delivering"}}

Sweep ==
  /\ phase = "boot" /\ todo = {} /\ pump = {}
  /\ phase' = "sweep"
  /\ UNCHANGED <<delv, runs, mems, turns, flags, pump, spin, resend, todo, seen, orphans,
                 hist, count>>

SettleStranded(r) ==
  /\ phase = "sweep" /\ r \in Stranded
  /\ settleLifecycleInterruption(r, BoundTo(r), author[r] \in inflight)
  /\ UNCHANGED <<requeued, removed, asks, turns, released, stops, lifes, where, orphans,
                 fed, proven, forced, count>>

\* Every agent is pumped; only now does startServer open the sockets.
Serve ==
  /\ phase = "sweep" /\ Stranded = {}
  /\ phase' = "ready"
  /\ pump' = Agent
  /\ todo' = {} /\ seen' = {}
  /\ UNCHANGED <<delv, runs, mems, turns, flags, spin, resend, orphans, hist, count>>

-----------------------------------------------------------------------------
Pump == \E m \in Agent : PumpNothing(m) \/ PumpStart(m) \/ PumpFenced(m) \/ PumpAgain(m)

FanOut == {<<{}, "queue">>}
          \cup {<<{d}, how>> : d \in NextRow, how \in {"skip", "hold", "steer", "queue"}}

TurnStep(r) ==
  \/ AdapterSpawns(r) \/ setDeliveryAttemptProcess(r) \/ JournalStarted(r)
  \/ \E o \in Outcome : JournalCompleted(r, o) \/ StreamEnds(r, o)
  \/ FinalizeLifecycle(r) \/ FinalizeRepairs(r)
  \/ \E f \in FanOut : FinalizeCommits(r, f[1], f[2])

SteerStep(d) == SteerSkipped(d) \/ SteerSent(d) \/ SteerRefused(d) \/ SteerAcknowledged(d)

BootStep ==
  \/ Boot \/ Sweep \/ Serve
  \/ \E r \in Run : \/ ReconcileRetries(r) \/ HoldRows(r) \/ HoldRetires(r)
                    \/ SettleStranded(r)
                    \/ \E f \in FanOut : ReconcileFinishes(r, f[1], f[2])

MemberAct(m) == \/ interruptMember(m) \/ killMember(m) \/ reviveMember(m)
                \/ pauseMember(m) \/ unpauseMember(m) \/ removeMember(m)

DeliveryAct(d) == \/ deleteMessage(d) \/ Redeliver(d)
                  \/ ReleaseRefused(d) \/ ReleaseResumes(d) \/ ReleaseQueues(d)

\* A serving daemon may sit idle: anywhere else, having no step is a deadlock.
AwaitInput == Serving /\ UNCHANGED vars

Next ==
  \/ \E d \in Delivery : \/ \E how \in {"skip", "hold", "steer", "queue"} : Post(d, how)
                         \/ SteerStep(d) \/ HarnessAccepts(d)
                         \/ consumeDelivery(d) \/ DeliveryAct(d) \/ RetryRunResends(d)
  \/ \E m \in Agent : AnswerAsk(m) \/ MemberAct(m)
  \/ \E r \in Run : StartThrows(r) \/ TurnStep(r) \/ RaiseAsk(r) \/ retryRun(r)
                    \/ OrphanExits(r)
  \/ Pump \/ BootStep \/ Close \/ Closed \/ Crash \/ AwaitInput

\* The event loop runs what is queued on it, every adapter turn ends, steering
\* calls are answered and a stopped daemon is started again.
Fairness ==
  /\ WF_vars(Pump)
  /\ \A r \in Run : WF_vars(StartThrows(r)) /\ WF_vars(TurnStep(r))
  /\ \A d \in Delivery : WF_vars(RetryRunResends(d)) /\ WF_vars(SteerStep(d))
  /\ WF_vars(BootStep) /\ WF_vars(Closed)

Spec == Init /\ [][Next]_vars

FairSpec == Spec /\ Fairness
-----------------------------------------------------------------------------
(***************************************************************************)
(* What the pump promises                                                  *)
(***************************************************************************)
\* A member never has two adapter turns at once, and the in-memory guard
\* `inflight` covers every turn until it has returned (maybeStartTurn,
\* retryTurn): harness sessions are single-threaded.
OneTurnPerMember ==
  \A r \in Run : Active(r) =>
    /\ author[r] \in inflight
    /\ \A q \in Run : Active(q) /\ author[q] = author[r] => q = r

\* Between two handlers of a serving daemon every row in custody belongs to a
\* turn that is really running: `delivering` rows are in the batch of an active
\* turn of a running run, whatever was interrupted, killed, revived, redelivered
\* or recovered before.
NoStrandedDelivery ==
  Turning => \A d \in Delivery : dstate[d] = "delivering" =>
    /\ bound[d] # NoRun
    /\ Active(bound[d]) /\ status[bound[d]] = "running"
    /\ d \in batch[bound[d]]

\* No run message says `running` in history with no turn behind it (redeliver,
\* holdAmbiguousTurn, removeMember and the boot passes retire it).
NoPhantomRun ==
  Turning => \A r \in Run : status[r] = "running" => Active(r)

\* Delivery is exactly-once or held: the text of a row reaches a harness a second
\* time only after an operator act on it, a graceful stop that re-queued it, or
\* the boot retry of a turn that was blocked on a card.
ExactlyOnceOrHeld ==
  \A d \in Delivery : fed[d] > 1 => d \in forced \cup requeued

\* Evidence is honoured: once durable evidence says that a row reached a harness
\* (run.started in the journal, or the process of an argv harness), no recovery
\* path hands it out again by itself, whatever crashes, fences and stops follow.
EvidenceHonoured ==
  [][\A d \in proven : fed'[d] > fed[d] => d \in forced \cup requeued]_vars

\* Recovery alone never hands a row out more than RECOVERY_ATTEMPT_CEILING + 1
\* times, however stops, crashes and blocked cards follow each other.
AttemptsBounded ==
  \A d \in Delivery : d \notin forced => attempts[d] <= Ceiling + 1

\* A graceful stop leaves nothing for boot recovery: every turn settled itself
\* before the store closed, and no re-queued row kept its binding or process.
CloseIsClean ==
  phase = "closed" =>
    /\ Stranded = {}
    /\ \A d \in Delivery : /\ dstate[d] # "delivering"
                           /\ dstate[d] = "queued" /\ d \in requeued \ forced
                                => bound[d] = NoRun /\ evidence[d] = NoRun

\* A held row whose attempt is over waits on a run that no longer claims to be
\* running, so that release_hold finds the run it must resume.
HeldRunInactive ==
  Turning => \A d \in Delivery :
    dstate[d] = "held" /\ bound[d] # NoRun => status[bound[d]] # "running"

\* Operator Stop is terminal: no row of a turn an operator stopped goes back to
\* the queue by itself, not even when a graceful stop follows the Stop.
StopIsTerminal ==
  [][\A d \in Delivery :
       /\ dstate[d] = "delivering" /\ dstate'[d] = "queued"
       /\ bound[d] # NoRun /\ Active(bound[d]) /\ author[bound[d]] \in stops
       => d \in forced']_vars

\* release_hold is honoured: a row released past a brake is not put on hold again
\* by the pump it waits for (applyTurnStartBrakes and oneShotHoldReleases).
ReleaseIsHonoured ==
  [][\A d \in released : dstate[d] = "queued" => dstate'[d] # "held"]_vars

\* A dead member comes back only when an operator revives it.
DeadUntilRevived ==
  [][\A m \in Agent : mstate[m] = "dead" /\ mstate'[m] # "dead" => ops' > ops]_vars

\* No turn writes to a harness session while a process of an earlier turn of
\* the same member, left by a crash, is still alive.
OneWriter ==
  \A r \in Run, q \in orphans :
    pc[r] \in {"spawned", "recorded", "started"} /\ r # q => author[r] # author[q]

\* A queued row of a member that can take turns does not wait for ever: it is
\* drained, or the member is paused, dead or removed, or the daemon goes down.
QueueDrains ==
  \A d \in Delivery :
    dstate[d] = "queued" ~> \/ dstate[d] # "queued"
                            \/ mstate[To[d]] \in {"paused", "dead"} \/ To[d] \in removed

\* maybeStartTurn returns: the pump never keeps the event loop to itself.
PumpReturns == \A m \in Agent : m \in pump \cup spin ~> m \notin pump \cup spin
=============================================================================
