# A verification project for Codor

Codor is a room where people and coding agents talk. A daemon, the *switchboard*
(`packages/switchboard`), keeps rooms, members, messages and deliveries in SQLite,
routes messages, and drives harness CLIs (Claude Code, Codex, Grok, ...) one turn at
a time. This directory holds TLA+ modules translated from that source, TLC
configurations that check them on small instances, and theorems with proofs that TLAPS
checks. Every definition that models code names its file and lines in `PROJECT.json`.

## 1. Inventory

| Part | State it keeps | Operations | What is hard about it |
|---|---|---|---|
| **Turn pump** (`daemon.ts` over `store.ts`) | deliveries (state, bound run, attempts, process evidence), run messages, journal blobs, member states; in memory: `inflight`, sessions, released rows, steering rows, interrupt marks | queue, steer, `maybeStartTurn`, `runTurn`, `completeTurn`, repair, lifecycle settlement, kill, revive, pause, remove, delete, redeliver, retry, release | a turn is one long await; operator acts, other agents' fan-out and the agent itself change the rows under it |
| **Boot recovery and stop** (`reconcile`, `close`) | the durable part of the above | finalize from the journal, retry, hold, sweep; mark, interrupt and wait | a crash between any two transactions; exactly-once or held |
| **Human cards** (`interactions`) | card state, native id | raise, answer, deliver, orphan, re-correlate after a crash | an answer awaits the adapter while the card may be orphaned |
| **Collaboration** | groups, rounds, participants, the judge | create, record a terminal, skip, advance, close | a barrier must release exactly once, whoever dies |
| **Routing and brakes** (`router.ts`) | none, reads meters and hop counts | recipients, default reply, brake verdict | agents answering each other without end |
| **Attach custody** | attach leases, member custody; in memory: pending acquisitions, compactions, resets | acquire, report child, heartbeat, complete, expire, adopt, mirror a turn; compact, clear context | two writers on one session, lost heartbeats, a CLI or daemon that dies half way |
| **Schedules** | schedule rows, one timer | create, claim, commit, cancel, fail, re-arm | exactly one send across crashes and cancels |
| **Post submissions** | correlation receipts | post, retry | a retried post must not become two |
| **Change log and sync** (`store.ts`, `server.ts`, web store) | `change_log`, client cursors and replicas | commit, snapshot, delta, reconnect | a replica that skips or repeats a change |
| **Residency** (`residency.ts`) | remote attempts, replay cursors | deliver, resume, ack, ambiguous | a link that drops in the middle of a turn |
| **Relay link and worker** | sockets, backoff, revocation | dial, replace, close | a late socket of an older generation |
| **Tunnel mux and keepalive** | streams, windows, timers | open, data, credit, end, reset | flow control, half-close |
| **Pairing and keys** | codes, sessions, room keys | claim, confirm, expire, revoke | a code used twice |
| **Push, ledger watch, worktrees, bridges** | subscriptions; debounced files; registry | send, flush; register, remove | external services and git |
| **Adapters** | child processes | deliver, steer, interrupt, answer | when a payload is really handed over |
| **Web client, CLI, website** | replicas, connection state; installs | connect, render; set up, update | mostly presentation and I/O |

The parts meet in `daemon.ts`: a routed message creates delivery rows in the transaction
of the message; the pump turns rows into adapter turns; a finalized turn is itself routed
and feeds other members' queues; cards, collaboration barriers, schedules and attach
leases all gate or feed the same pump. `close()` and `reconcile()` cut through all of it.

For each part, what would make it correct:

* pump: one turn per member; a row in custody belongs to a live turn; queued rows are
  drained;
* recovery: exactly once or held, bounded attempts, no phantom running run;
* cards: an approval is used once and for what was asked, a blocked turn can be answered;
* collaboration: a round's barrier releases once, when every participant is terminal;
* attach: never a daemon turn and a terminal on one session;
* schedules: sent at most once, never after a cancellation that won;
* posts: a message is created once, and what its row says of it is so;
* sync: a client catches up, whatever was cut;
* links: a frame reaches the session it was sealed for, in order, or none; credit is
  conserved; a revoked device is dropped; a code enrols one browser;
* residency: the payload runs once, the journal has no gap and no repetition;
* adapters: one engine works on a session, and ends the turns it was given.

## 2. How the project is laid out

| Module | Part | Checked by | Proved in |
|---|---|---|---|
| `TurnLifecycle` | turn pump, operator acts, stop, crash, boot recovery | `turns_*` | `TurnLifecycleProofs` |
| `AttachCustody`, `SingleWriter` (abstract) | attach leases, compaction, context reset | `attach` | `AttachCustodyProofs` |
| `Interactions` | human cards | `cards` | `InteractionsProofs` |
| `CollaborationRounds`, `RoundBarrier` (abstract) | collaboration groups | `collaboration` | `CollaborationProofs` |
| `Schedules` | scheduled messages | `edges` | `SchedulesProofs` |
| `ClaudeRuntime`, `CodexRuntime` | the two adapters with long-lived engines | `edges` | `AdapterProofs` |
| `RoomSync` | change log and browser replica | `client` | |
| `PostDelivery` | the operator's submissions | `client` | `TransportProofs` |
| `RelaySession`, `RelayPairing` | relay sessions, pairing codes | `relay` | `RelayProofs` |
| `TunnelMux` | streams over a relay session | `links` | `TransportProofs` |
| `Residency` | turns of an agent on another computer | `links` | `TransportProofs` |

Each `MC...` module gives the constants their values. `MCClient`, `MCLink`, `MCEdges` and
`MCRelay` check several components that share no state in one run: a variable `part` says
which of them a behaviour is about, and the others keep their initial state, so the states
add up and do not multiply. Their fairness is the one of each module in its own part.

The modules compose through the abstractions they make of each other. `TurnLifecycle` is
the pump; `AttachCustody` and `Interactions` keep of it what custody and cards can see;
`CollaborationRounds` takes from it that a row is started, ends, and may be found in any
state at boot; `Schedules` ends where a message and its delivery exist. `ClaudeRuntime` and
`CodexRuntime` take from `TurnLifecycle` and `AttachCustody` that the daemon never overlaps
a turn, a compaction and a reset of one agent, which `ResetIsAlone` and `OneTurnPerMember`
are about. `TunnelMux` takes from `RelaySession` that a session carries packets whole and in
order until it ends.

## 3. The modules

### TurnLifecycle

The module models one room: agents, delivery rows numbered in `queue_seq` order, and run
messages numbered as they are created.

**State.** `dstate`, `bound`, `attempts`, `evidence` are the columns `state`,
`run_msg_id`, `attempt_count` and the attempt's process identity of a delivery; `hopped`
rows come from another agent's turn, the message of a `purged` row is deleted, the
collaboration participant of a `settled` row is terminal. `status`, `author` and
`journal` are a run message and what its event blob proves (nothing, `run.started`,
`run.completed`). `mstate`, `removed`, `asks` are the members and whether a card of theirs
is open (`awaiting_input` is `running` here: the modelled code treats the two alike).
`inflight`, `released`, `steer`, `stops`, `lifes` are the daemon's sets of the same kind;
`pc`, `batch`, `outcome`, `after`, `fenced` are the local state of each `runTurn` and
whether its session was replaced. `phase` is the life of the process. `pump`, `spin`,
`resend` and `pc = "threw"` are work that is still on the JavaScript stack or microtask queue.
`orphans` are adapter processes that outlived a daemon. `fed`, `proven`, `forced`,
`requeued` only record history for the properties.

**Atomicity.** JavaScript runs to completion, so a handler is one action as far as other
handlers go; but each SQLite transaction commits by itself, so a handler that makes
several is cut there and only `Crash` may come in between (`Quiet` guards everything
else). `runTurn` is cut at its awaits: `beginTurn`, spawn, the two writes of `onStarted`,
events, the end.

**Actions and code.** Routing: `Post`. Pump: `PumpNothing`, `PumpStart`, `PumpFenced`,
`PumpAgain`, `StartThrows`. Turn: `AdapterSpawns`, `setDeliveryAttemptProcess`,
`JournalStarted`, `RaiseAsk`, `AnswerAsk`, `JournalCompleted`, `StreamEnds`,
`FinalizeCommits` (`completeTurn`), `FinalizeRepairs` (`repairFailedFinalization`),
`FinalizeLifecycle` (`settleLifecycleInterruption`). Steering: `Steer...`,
`HarnessAccepts`, `consumeDelivery`. Operators: `interruptMember`, `killMember`,
`reviveMember`, `pauseMember`, `unpauseMember`, `removeMember`, `deleteMessage`,
`Redeliver`, `retryRun`, `Release...`. Process: `Close`, `Closed`, `Crash`,
`OrphanExits`. Boot: `Boot`, `Reconcile...`, `Hold...`, `Sweep`, `SettleStranded`,
`Serve`. `Act`, `HarnessAccepts`, `Crash` and `OrphanExits` are the environment.

**Abstractions.** Payloads, bodies and meters are dropped. Whether a brake holds a row is
nondeterministic (when `Brakes`), restricted to rows with a hop as in `evaluateBrakes`. What a
turn routes when it ends is nondeterministic: nothing or one new row for another agent.
An ended turn's outcome is any of the three. A steered text may be refused before or after
the harness took it (`SteerRefused`). `reconcile` also consumes a row in custody whose run
is not running; `CustodyOK` (section 6) shows that no such row meets it, so `Reconciling` has
no branch for it. A collaboration round is only whether a row's
participant is settled; at most one row of a member is in one round, as the store's
unique key has it. `processAlive` is exact: a recycled process id is not modelled.
Attach leases, context reset, compaction, remote members and worktree targets are left
out of `turnStartEligibility`.

### AttachCustody

One agent of the daemon, the attach commands `Cli` run against it, and the pump reduced to
what custody sees of it.

**State.** `mstate`, `custody`, `removed`, `sessionRef` are the member's row; `lease`,
`recorded`, `stale` its `attach_leases` row: whose it is, whether a child was reported,
whether its heartbeat is older than `attachLeaseTimeoutMs`. `inflight`, `waiting`
(`pendingAttach` and the command behind it), `compacting`, `resetting`, `cached` (a
session in `sessions`) are the daemon's memory. `queued`, `delivering`, `held` are the
member's deliveries. `cli`, `child`, `mail` are each command (`superviseInteractiveAttach`,
a process of its own), the detached TUI it spawned and its frames the daemon has not
handled; `native` is the terminal of an agent that joined from one. `adopted` records the
leases an operator's adoption took away.

**Atomicity.** As above: a handler is one action, cut (`step`) between its two
transactions, where only processes and `Crash` may come in. The wait of
`acquireAttachLease` for a turn to end is cut at its naps.

**Actions and code.** Each action carries the name of its handler; `GrantLease` and
`CommitGrant` are the end of `acquireAttachLease`, `Readopt` the second half of
`finishAttachLease` and `adoptMirroredMember`, `CompactEnds` and `ResetEnds` what follows
the adapter's answer. `HeartbeatLapses`, `ChildExits`, `CliDies` and `Crash` are the
environment.

**Abstractions.** A process probe is exact; a process id is not recycled. Whether boot runs
a cut-off batch again or holds it is nondeterministic (TurnLifecycle decides it). Turns
mirrored from a terminal (`mirrorTurn`) change no custody and are left out, as are two
agents: nothing but the timer, which handles one lease at a time, spans them.

**The abstract specification** `SingleWriter` says what custody promises: a session is
used by one daemon turn or by one terminal, and a new writer starts only on a free
session. Under the mapping `turn <- inflight`, `terminals <- Terminals` (the open
terminals whose lease no operator adopted away) `AttachCustody` implements it. An operator
may adopt an uncertain lease without a recorded child; that terminal is then out of the
daemon's knowledge, in the code and in the mapping.

### Interactions

The cards of one agent. `asked`, `card`, `native`, `said`, `given` are, for each request a
harness raised, its content, the state and native id of the interaction it created, how many
requests existed when a human answered, and the card whose answer it got; `waiting` is the
memory of the harness process. The turn is one row: `turn`, `attempts`, `began`,
`leftover` (`orphanAfter`), `fenced`. Actions: `Raise` (`handleInteractionRaised`, with
re-correlation by content and the replay of a persisted answer), `Answer`, `Withdraw`,
`TurnStarts`, `Works`, `Completes`, `Finalizes`, `killMember`, `reviveMember`, `Crash`,
`Stop` and every verdict of boot. An answer no crash cuts is one step, since every adapter
settles within the tick. Two byte-identical approvals that are open at once are the same
request; inbox rows of a card follow its state and are left out. An answered ask that an old
turn left behind is replayed to a later turn's same question; `ApprovalsAreExact` exempts
asks from exactness for that reason, not approvals.

### CollaborationRounds

One group. `group`, `round`, `part`, `row`, `run` are the rows of the store (by agent and
round), `waits` and `todo` the daemon's memory: `todo` holds the calls still to be made in
the running handler, each one transaction, so a crash may fall between them and nothing
else can. Actions are the handlers that reach a round: the end of a turn, kill, remove,
revive, release, redeliver, delete, an agent reading its own inbox, brakes, refusals and
their recovery, waits, stop, crash and both steps of boot. The abstract `RoundBarrier` says
what a group promises: a round opens with members, each answers once, and the next opens, or
the group ends, only when nobody is waited for. The mapping takes the latest round of the
store for the barrier's.

### Schedules

`sstate`, `posted`, `row`, `gone` are durable; `alarm`, `work`, `running` the one timer and
the stretch `runDueSchedules`; `wall` the clock, which may be set. The claim and each commit
are transactions with a crash possible between them. The delivery is followed as far as
boot's verdict, since the constructor sends what is due before `reconcile()` runs.

### RoomSync and PostDelivery

`RoomSync`: `log` is the change log, `cursor`, `held`, `labels`, `basis` the room's slice,
and `generation`, `socket`, `budget`, `live`, `resyncing`, `awaiting` the connector's. A
transaction publishes its rows with their own seq, with the room's current seq, or not at
all, as the code does for each kind of change. A hydration is one frame, since it is shown
only at `sync_complete`. Run events and the paging of HTTP history are left out.

`PostDelivery`: `row` is what the page shows of a message, `pend` its entry in
`PendingSubmission`, `receipts` and `posted` what the daemon has, `toDaemon`, `late` and
`toPage` the frames. The daemon may be replaced, after the first socket is open, by one that
knows no receipts, and back. Editing a failed row, uncorrelated posts and `stopWaiting` are
left out.

### RelaySession and RelayPairing

`RelaySession`: the host's `RelayLink`, the worker's `SessionRelay` object and each
browser's `TunnelClient`, each with its own idea of who is there; `peers`, `known` and
`missed` are the key file, what the daemon has read of it, and the revocations it has
overwritten unseen: `writePeers` writes the whole file from the daemon's own copy. Keys and
counters are exact, so `SessionsAreWhole` can say that the next frame is one the session
can open. `RelayPairing`: a code's room at the relay, the claims of browsers with right and
wrong codes, deadlines, replays of a lost answer, the local door, and a host that dies
between the two files of an enrolment, through the relay or at the local door, where a
link may bring a minted code unexchanged (`BuysLocally`, `DiesAtTheDoor`). A socket of the
relay may end without the news of it (`webSocketError`). Ciphers and PAKE are ideal.

### TunnelMux

`mux` is each end's map of streams, `wire` the frames emitted and not handled, `user` what
uses a stream at each end (app socket, bridge, fetch). Data is counted in frames; the
coalescer only delays. Handling a frame is `receivePacket`. The sizes that users write are
chosen once per behaviour (`mix`). Either end resets a stream whose body is larger than
`HttpCap` (`TooLarge`); the bridge caps what it sends at the size the browser accepts, so of
the two limits on a response only the first is ever met.

### Residency

One attempt of one member. `delivery`, `journal`, `open`, `next`, `buffered`, `retries`,
`unacked` are the home's, `rstate`, `rcount`, `rlen`, `active` the resident's; the channel
delivers an envelope at most once, envelopes sent while a reconnection is announced overtake
older ones, and a restart of either side closes it. A restart of the home is a crash or a
graceful stop, which fails the open stream into a hold and waits for a turn that is ending
(`Settled`). A turn that meets too many pending acks of others fails unsent (`TurnRefused`).
`neighbour` is the row of a local agent.

Three things add no step. An interrupt of a remote turn finds no session and does nothing
(`daemon.ts:2440`). A kill of a remote member only keeps later turns from starting. A `spawn`
or `attach` that throws ahead of the `try` of `runResidentAttempt` is an unhandled rejection,
which ends the process: `ResidentRestarts` at that point.

### ClaudeRuntime and CodexRuntime

`ClaudeRuntime`: a Session object of the daemon, the adapter's two maps from it to a
runtime, each runtime's query and the one being retired, and engines that work off their
`inputs` in order, may be silent and may exit. `owner` is the runtime and the Session an
engine was made for: `prepareRuntime` retires one made for another Session before the turn
begins (`Begins`), and the turn may find that no engine can be made, or be given up by the
daemon or the adapter with its engine at work (`GivenUp`). A second wait for one retirement
may run out before the first. `behind` are the engines that lived through a terminal.

`CodexRuntime`: the member's runtime, its client, children, and the three awaits of a
delivery (spawn, handshake, start) into which a stop may fall. `identity` tells whether the
member's Session is the one its runtime was prepared for (`own`), a later one (`new`), or
one that a configuration has made stale (`due`); `listed` and `serves` are the adapter's two
maps. `duty` is the member's: on, killed or lent to a terminal. `Change`,
`Stops` and `BackOnDuty` are what the daemon does to it, `Prepares` is `prepareRuntime`, and
`TurnGivenUp` the `finally` of `deliver`.

In both, a credential issued anew for a turn in another worktree (`daemon.ts:4391`) acts on
the adapter as a configuration does, and is not an action of its own. Engines and children
are external.

## 4. The runs

All passing runs finish exhaustively, and between them they fire every action.

| Run | Bounds | Shows |
|---|---|---|
| `turns_acts` | 1 agent, 2 rows (one of a round), 5 runs, 1 act, 1 crash or stop, finalizations that roll back | one turn per member, exactly once or held, no stranded row, no phantom run, a Stop is terminal |
| `turns_crashes` | 1 agent whose session may fail to build, 2 rows, 3 crashes or stops, 2 acts | recovery is bounded |
| `turns_agents` | 2 agents that feed each other, brakes, 1 release, 1 crash | a release is honoured |
| `turns_live` | argv payload and steering, any 1 act, no restart, fair | the queue drains, the pump returns |
| `attach` | 2 attach commands, 2 acts, 1 crash, fair | `SingleWriter` implemented, a reset is alone, a lease ends on proof or adoption, waiting rows are drained |
| `cards` | 3 requests (a question, two approvals that differ in their command), 2 crashes, 1 kill | approvals are exact, a blocked turn can be answered |
| `collaboration` | 2 agents, 2 rounds, 2 acts (the removal of a dead agent is free), 1 crash, fair | `RoundBarrier` implemented, owed answers are coming, rounds end |
| `edges` | Claude: 3 turns, 3 sessions, one configuration or terminal, one of each other act; Codex: 2 turns, 2 runtimes, one configuration or terminal, one of each other act; 2 schedules, 2 stops, one jump of the clock, one failing store | see the properties of the three modules |
| `client` | 2 changes of 3 kinds of rows, 2 generations; 2 submissions, 3 sockets, 2 replacements, 1 resend; fair | a client catches up; posts are made once, rows tell the truth, submissions settle |
| `relay` | 1 browser and 1 newcomer, 3 connections, 2 faults, 1 packet each way, 1 revocation; 2 claiming browsers, 3 claims, a local door, a crash between the two writes at either; fair | sessions are whole, revoked browsers dropped, everyone joins; a code enrols once, keys agree |
| `links` | an app socket and a request, window 1, bodies up to one frame over the cap; one turn of 3 events with one cut, one restart of each side, one failure, one release; fair | credit is conserved, bodies are whole, streams flow; the payload runs once, the journal is a prefix, remote turns end, acks drain |
| `viol_orphan` | as `collaboration` | see section 5 |

**Why the bounds are enough.** The rows of one member interact only through batching, the
durable fence and the one turn: two rows give a batch of two, a row queued behind a turn and
a steered row beside a delivered one. Two agents meet only in fan-out and, at boot, in the
order of its two passes. Where `runsN` is used up the pump has no step and `turns_*` would
report a deadlock, so no story is cut off silently. Two attach commands let one hold the
lease while the other waits, is refused or is left over from a lost lease. Three requests
give a card, its re-raised twin after a crash and a near-twin. Two rounds give an advance
with and without a crash in it. Three Claude turns give one before, one during and one after
a retirement, two runtimes one that a stop has taken out of the maps beside its successor;
two Codex turns are one that is stopped or given up and the one that meets what it left.
A window of one frame makes every write wait for credit. Three sockets give a submission
sent on one, retried on the next and late from the first. Where `CHECK_DEADLOCK FALSE`
appears the counters of the instance run out, or the subject ends (a removed agent, a
settled schedule, a finished group).

**Fairness.** The event loop runs what is queued on it, frames on an open socket arrive, due
timers fire, a stopped daemon is started again, and closed sockets are redialled; the dial of
`RelaySession` is strongly fair, since the relay may be full again and again. That a harness
turn ends is an assumption on harnesses (the stall watchdog only flags one). Operators,
crashes, cuts and the other faults are bounded and never forced. Exceptions in the
properties themselves: `RemoteTurnsEnd` exempts releases and a home that restarts in the
turn, `RequestsSettle` a connection the switchboard tore down (the request then waits for
its own deadline).

**What a run does not reach.** The run of `ExactlyOnceOrHeld` has one agent and no steering:
a fan-out at boot is covered by `ExactlyOnceCorrect`, steering by neither (section 5).
`AttemptsBounded` is checked without cards; `AttemptsCorrect` has them. `OwedAnswersAreComing`
leaves out rows that were read or deleted, which `viol_orphan` is about. `CatchesUp` speaks
of the cursor, not of content skipped under a label that is too new (`viol_labels`).
`GrantIsSpentOnce` excepts the crash between the two files (`torn`), `ServedByItsClient` the
turns that begin on a runtime whose interrupt is pending (`spilled`); both hazards are real.

## 5. Disagreements found

`viol_orphan` is a listed run: an agent that reads its queued row from its own inbox
(`consumeQueuedDelivery`), or an operator who deletes the root message, leaves a participant
that no row will ever settle, against the comment of `settleLifecycleInterruption`;
`PROJECT.json` quotes it.

More configurations are kept to be run by hand. Each shows a stricter property than the
listed one, one the code does not keep:

| Configuration | Behaviour |
|---|---|
| `viol_drain` | a row queued while boot re-runs a turn is never drained: `retryTurn` does not pump |
| `viol_twice_swept` | boot's second pass settles a run its first pass has just started; after another crash the row is delivered twice |
| `viol_boot_turn`, `viol_reconnect` | boot, or a peer that reconnects, holds rows of turns that are being worked on |
| `viol_dead` | a late card brings a killed member back |
| `viol_writer` | a turn starts beside a surviving process of the member's held attempt |
| `viol_paused_attach` | a paused agent that is borrowed or adopted comes back unpaused |
| `viol_revive_adopts` | killing and reviving a mirrored agent makes it owned beside its own terminal |
| `viol_stale_card` | boot retries a started turn because of a card that an earlier turn left open |
| `viol_labels` | a row published with the room's current seq moves a client's cursor past changes it never saw; so does, with `ExactCommits` and `HistoryLimit = 1`, a hydration of a room that came on screen |
| `viol_revoked` | an enrolment writes the key file from the daemon's copy and forgets a revocation the CLI made in between |
| `viol_late_claim` | a claim that goes on past its own deadline records a key the host no longer has |
| `viol_sockets` | a tunnelled app socket both users have left stays in both muxes until the session ends |
| `viol_replayed_event` | a home that restarts resumes at the length of its journal, which lacks the transient events: an event is journaled twice |
| `viol_remote_stall` | ... or the resident's answer leaves the home waiting until the next restart |

Properties with the same role that no configuration names: `NoStopIsLost`, `OneEngine`,
`NoCompactionIsBehind`, `TurnsAlwaysEndByTheirOwn` (`ClaudeRuntime`), `AlwaysHasAClient`,
`StoppedIsNotStarted`, `ResetChildIsAlwaysAlone`, `OneChild` (`CodexRuntime`) fail: a stop
during a retirement is lost, a stop removes a runtime from the maps while its engine still
ends, a compaction behind a terminal goes to the engine that lived through it (a turn does
not: it retires that engine first), and a compaction that was settled by its boundary or its
timeout is ended by a result that ends the next turn.
`docs/RELAY-PROTOCOL.md:121` says a fresh host has existing clients announced to it; the
worker's `acceptHost` retires them instead, which is what `RelaySession` models.
`CloseIsClean`, `LeaseReturns` and `CursorIsHonest` hold where they were tried and are left
for a run by hand; so is `EvidenceHonoured`, which is proved (section 6).

`ExactlyOnceOrHeld` is checked by `turns_acts` and proved in every configuration that
`Confined` allows, with any number of restarts. What `Confined` leaves out are four things
the code may do after which the property fails: an argv payload and a crash between spawn
and process record; a member killed and revived under its turn, whose fenced session
journals no start, and a crash; steering and a crash; and a turn that boot starts for
another member by fanning out, and then sweeps (`viol_boot_turn`, `viol_twice_swept`).

## 6. Proofs

The proofs hold for all values of the constants that satisfy the assumptions named in each
module, which TLC evaluates in every run. Every inductive invariant was checked by TLC as an
invariant of the run's instance (or a restriction of it) before it was proved. Lemmas state
once what each transaction does to what; a step lemma then goes through the actions.

**Turn lifecycle** (`TurnLifecycleProofs`). `TypeCorrect`, `OneTurnCorrect`,
`AttemptsCorrect`, `CustodyCorrect`, `StopCorrect`, `ReleaseCorrect`, `RunsCorrect`,
`ExactlyOnceCorrect`, `EvidenceCorrect`, `HistoryCorrect`. The inductive invariant `IInv` has these parts:

* `TypeOK`, `TurnsOK` (a member has one turn, covered by `inflight`; a member whose pump
  calls itself again is in flight without a turn, so clearing `inflight` uncovers none;
  a bound row names a run of its own recipient, so a retried run is its member's), and
  `AttemptsOK` (a row that still waits has an attempt left);
* `StopsOK`: whose turn a stop marks, what the mark survives;
* `Custody`: a row in custody is in the batch of its run (`BatchOK`), whose turn is active
  (`CustodyOK`), also while boot has read the rows and not settled them (`BootOK`) and while
  an exception is on the stack (`ThrowOK`).

`NoStrandedDelivery` alone is not inductive: boot's custody, rows of a rolled-back
finalization and the rows a throwing start leaves are all exceptions that later steps
resolve. `CustodyCorrect` assumes `BrokenStart = {}`: a session that throws when it is
built leaves its rows in custody until the next restart (`runTurn` throws after
`beginTurn`), and the property fails with one. `RunsCorrect` adds `RunsOK`: every running
run has a turn, or rows boot will account for. It has two hypotheses more, each of which
excludes a behaviour in which the property fails: without `HoldIsWhole` the daemon may die
between the two transactions of `holdAmbiguousTurn`, and with `Brakes` a brake may hold a
boot retry and leave the run alone; either leaves a run that says `running` for good.

The three theorems about repeated delivery share one classification of the steps, `Kinds`:
a step begins no turn and hands nothing over (`Keeps`), begins a turn (`Begins`), takes one
towards its harness (`HandsOver`), is a harness taking a steered row, or is `Boot`.
`KindsStep` goes through the actions once; each invariant then has five cases. They speak of
the `Untouched` rows, which no operator act, graceful stop or blocked card re-queued:

* `HistoryOK` (`HistoryCorrect`): a waiting row is unbound, a bound one was attempted, and the
  rows of a run are in custody, and consumed, together, so that boot's second pass can take
  back only rows of removed members, and a turn boot starts is a second attempt. It needs
  `NoFanOut`: either one agent or only grouped rows, because a turn boot starts for
  another member's row is swept as one a crash left.
* `EvidenceOK` (`EvidenceCorrect`: `EvidenceHonoured` with any acts, harnesses, steering and
  restarts): a row with durable evidence is in no batch that is yet to leave some, is not
  being steered, and shows its evidence as long as it is in custody.
* `OnceOK` (`ExactlyOnceCorrect`): a row that was handed over is bound to a run that shows it
  in its journal, or has no attempt left; and a fenced turn, which journals no start, is one
  whose rows have none left (`Spent`), which is where kill and revive have to be excluded.

**Attach custody** (`AttachCustodyProofs`). `OneWriterCorrect` (`AttachCustody` implements
`SingleWriter`, by a step-by-step simulation), `LeasesCorrect` (an action property),
`SessionCorrect`, `ResetCorrect`, `TypeCorrect`. The heart of the invariant is `CustodyOK`:
a command that was granted the session and may yet open a terminal, or has one open, holds
the lease, its agent is mirrored and has no turn. `SingleWriter` speaks of open terminals
only and is not inductive: a granted command that has not spawned yet must already exclude
turns, also after a crash. `ReportOK` keeps the record of a child in step with the command,
`StepOK` and `WaitOK` what holds between two transactions and during the wait.

**Collaboration** (`CollaborationProofs`). `BarrierCorrect`: `CollaborationRounds`
implements `RoundBarrier`; `OwedCorrect`; `RoundsTypeCorrect`. Invariant: `OneRoundAtATime`
(the rounds that exist are an initial segment, and all but the last are over),
`PartsFollowRounds`, `OwedRowsAreKept` and `HasRows` (an owed answer has its row, also in the
middle of a handler, where the calls in `todo` say what is still to be done). The abstract
number of a round is the greatest round that exists, which `LatestRound` characterises.

**Schedules** (`SchedulesProofs`). `SentOnceCorrect`, `AlarmCorrect`, `SchedulesTypeCorrect`.
A message exists exactly if the row says sent; a claimed row is the stretch's alone.

**Cards** (`InteractionsProofs`). `ApprovalsCorrect`, `AnswerableCorrect`,
`InteractionsTypeCorrect`: requests are raised in order, an open card is bound to a request
of its own content, and an approval that was used is closed.

**Relay** (`RelayProofs`). `RevocationCorrect`: a session belongs to a device that is in the
key file, in the daemon's copy of it, or in what the daemon has overwritten. `GrantCorrect`:
who is enrolled has taken the grant, unless a crash tore the two files apart. Proving the
former showed that `revokePeer`, too, writes the daemon's copy over the file and can forget
a revocation another process made (`keys.ts:151`); the model had missed it.

`SessionsCorrect` is about the tunnels themselves, for any browsers, ids, faults, packets and
revocations. `SessionsAreWhole` speaks of the next frame only and says nothing of those behind
it. `SessionIInv` therefore numbers the frames of a connection in each direction, handshake
first: what is on the way begins with the number the reader waits for and has no gap
(`HostHears`, `ClientHears`), and while the relay joins the two ends it goes up to the number
the writer is at (`AllSent`), the msg1 of a browser the host refuses excepted. Every frame
under way has the keys of the session (`OneKey`), and nothing of a connection follows the
news of its end (`Parted`). A connection that outlives its host is never joined to the next
one, which is what `acceptHost` retires it for.

`PairedCorrect` is about the keys a pairing leaves at either end. A run of the exchange is a
number that is given out once (`OffersOK`), so one claim has it (`ClaimsOK`), and the claim
that got the tag and the hello of the current run has no other claimant's `peer-joined` ahead
of its `enroll` in the session's queue (`RepliesOK`, `KeyedOK`, `EnrollsOK`): whoever is
enrolled is the claim whose key is sent. From then on until the next claimant is announced
the stored key is that claim's (`EnrolledClaim`), and a `done` in the queue means that the
browser keeps it (`Settled`, `DonesOK`).

**Adapters** (`AdapterProofs`). For Claude `EngineAloneCorrect` and `ServedCorrect`, from an
invariant (`ClaudeIInv`) that says which session, runtime and engine each map may
name, that an engine on its way out is the one being retired, that enough engines are left,
that the daemon's turn, compaction and reset exclude each other, that an engine has
before it exactly what the daemon waits for unless a compaction was let go, and, in
`SeenOK`, that an engine that lived through a terminal was made for a Session no turn will
have again. For Codex
`ServedByClientCorrect` and `ResetChildCorrect` (an action property), from `CodexIInv` of the
same kind, with `ListedOK`: nobody but a stop takes the runtime out of the member's map.

**Transport** (`TransportProofs`). `PostedOnceCorrect`, `RowsCorrect`: only a daemon that
keeps receipts is ever sent a submission (`AskedFirst`: what the page knows of a daemon it
has asked on the socket it holds, and a daemon goes with its sockets); a row that waits has
nothing on the way (`SentOK`); what the page hears is so and stays so (`HeardOK`).
`StartedOnceCorrect`: the payload of a remote turn is out only once the attempt is past
acceptance and its events have begun, and neither is taken back. `JournalCorrect`: home's
journal is at any time a gapless prefix of the resident's events, and all of them once the
row is consumed. `JournalIsPrefix` says nothing of what is on the way; `ResidencyIInv` adds
that the open stream resumes right behind the journal, that a buffered event lies between
what is next and what the resident has, that the channel carries no event the resident has
not, and that a completed answer is given only when every event exists. The hypothesis
`Transient = {}` is needed: transient events are not journaled, and a home that restarts
resumes at the length of its journal (`viol_replayed_event`).

`CreditCorrect` and `BodiesCorrect` are about `TunnelMux`, for any streams, window and sizes.
Their invariant, `MuxIInv`, speaks of one stream at a time (`StreamOK`), and a step about one
stream leaves the others' part of it as it was (`Undisturbed`, `OneStream`). `CreditIsConserved`
compares two open ends and is not inductive: the client sends before the host has heard of
the stream, so the sum is kept from the opening on (`CreditOK`), and the frame that opens a
stream must be the first of its frames (`OpensFirst`). `BodiesAreWhole` needs that nothing
follows an END (`EndsLast`) and that a request, or a response, is what its reader got, what
is in flight and what waits for credit (`RequestOK`, `ResponseOK`), also once the writer has
forgotten the stream with its END still on the way.

**Only model-checked.** Liveness under fairness is beyond the prover: `QueueDrains`,
`PumpReturns`, `QueueResumes`, `RoundsEnd`, `CatchesUp`, `SubmissionsSettle`, `EveryoneJoins`,
`Flows`, `RemoteTurnsEnd`, `AcksDrain`, `DueIsSettled`. Every other property of a passing run,
invariant or action property, is a theorem; where a theorem has a hypothesis, the property
fails without it, and the text above says how.

## 7. Not modelled

Routing and brakes (`router.ts`; `TurnLifecycle` takes the route and the verdict as inputs),
run continuations and transcripts, worktrees, push notifications, the ledger watch, the
server's dispatch and authorization, the CLI with its installers, chat bridges, wire
schemas, the website, and the browser's store of paired computers. `PROJECT.json` lists
every part with its reason: most are I/O, presentation or data without a protocol of their
own. Cryptographic primitives are ideal. The adapters other than Claude Code's and Codex's
are seen only through `TurnLifecycle` and `Interactions`.
