----------------------------- MODULE AttachCustody -----------------------------
(***************************************************************************)
(* Who may write to one agent's harness session: the daemon's turns,       *)
(* compactions and context resets, or a terminal.  An operator's CLI       *)
(* borrows the session with a durable lease (acquireAttachLease), spawns   *)
(* the harness TUI, reports it, heartbeats and completes; the daemon's     *)
(* timer decides about leases whose heartbeat is lost.  An agent may also  *)
(* have joined from a terminal of its own.                                 *)
(*                                                                         *)
(* packages/switchboard/src/daemon.ts is one JavaScript thread: a handler  *)
(* is one action, cut where it commits two transactions (`step`), and      *)
(* `pump` is a maybeStartTurn still on its stack.  The CLI                 *)
(* (packages/cli/src/attach.ts) is a process of its own; `mail` is what it *)
(* has sent and the daemon has not handled.                                *)
(***************************************************************************)
EXTENDS Integers

CONSTANTS
  Cli,         \* attach commands run against the agent; a lease bears its name
  None,        \* no lease, nobody waiting
  MaxQueue,    \* bound: rows that wait in the agent's FIFO
  MaxOps,      \* bound: operator acts
  MaxRestart   \* bound: daemon crashes

ASSUME AttachAssumption ==
  None \notin Cli /\ MaxQueue \in Nat /\ MaxOps \in Nat /\ MaxRestart \in Nat

VARIABLES
  \* members row: state, custody, removed_ts, session_ref
  mstate, custody, removed, sessionRef,
  \* deliveries of the agent: queued rows, a delivering batch, a held batch
  queued, delivering, held,
  \* attach_leases row: its CLI, is a child recorded, is its heartbeat too old
  lease, recorded, stale,
  \* daemon memory: inflight, pendingAttach (and who waits), compacting,
  \* resettingContext, sessions
  inflight, waiting, compacting, resetting, cached,
  \* what is left of the running handler
  step, pump,
  \* CLI processes, the TUI each spawned, their unhandled frames, and the
  \* terminal a joined agent lives in
  cli, child, mail, native,
  \* leases an operator's adoption took away; operator acts; crashes
  adopted, ops, restarts

member  == <<mstate, custody, removed, sessionRef>>
rows    == <<queued, delivering, held>>
leases  == <<lease, recorded, stale>>
memory  == <<inflight, waiting, compacting, resetting, cached>>
handler == <<step, pump>>
outside == <<cli, child, mail, native>>
counts  == <<adopted, ops, restarts>>
vars == <<member, rows, leases, memory, handler, outside, counts>>

MemberState == {"idle", "queued", "running", "awaiting_input", "paused", "dead",
                "custody_uncertain"}
CliState    == {"out", "waiting", "granted", "cut", "reported", "supervising",
                "completing", "gone"}

FlagsOK ==
  /\ removed \in BOOLEAN /\ sessionRef \in BOOLEAN
  /\ delivering \in BOOLEAN /\ held \in BOOLEAN
  /\ recorded \in BOOLEAN /\ stale \in BOOLEAN
  /\ inflight \in BOOLEAN /\ compacting \in BOOLEAN /\ resetting \in BOOLEAN
  /\ cached \in BOOLEAN /\ pump \in BOOLEAN

\* A recorded child or an old heartbeat belongs to a lease that exists.
ValuesOK ==
  /\ mstate \in MemberState /\ custody \in {"owned", "mirrored"}
  /\ queued \in 0..MaxQueue
  /\ lease \in Cli \cup {None} /\ (recorded \/ stale => lease # None)
  /\ waiting \in Cli \cup {None}
  /\ step \in {"none", "grant", "finish", "adopt", "boot"}
  /\ cli \in [Cli -> CliState]
  /\ child \in [Cli -> {"none", "alive", "exited"}]
  /\ mail \in [Cli -> SUBSET {"child", "complete"}]
  /\ native \in {"none", "alive", "exited"}
  /\ adopted \subseteq Cli /\ ops \in 0..MaxOps /\ restarts \in 0..MaxRestart

\* Every variable has its type.
TypeOK == FlagsOK /\ ValuesOK

\* A spawned agent, or one that joined from a live terminal.
Init ==
  /\ mstate = "idle" /\ removed = FALSE
  /\ \/ custody = "owned" /\ sessionRef = FALSE /\ native = "none"
     \/ custody = "mirrored" /\ sessionRef = TRUE /\ native = "alive"
  /\ queued = 0 /\ delivering = FALSE /\ held = FALSE
  /\ lease = None /\ recorded = FALSE /\ stale = FALSE
  /\ inflight = FALSE /\ waiting = None
  /\ compacting = FALSE /\ resetting = FALSE /\ cached = FALSE
  /\ step = "none" /\ pump = FALSE
  /\ cli = [c \in Cli |-> "out"] /\ child = [c \in Cli |-> "none"]
  /\ mail = [c \in Cli |-> {}]
  /\ adopted = {} /\ ops = 0 /\ restarts = 0

\* No handler is in the middle of its work.
Quiet == step = "none" /\ ~pump

\* An operator act, while its bound lasts.
Act == Quiet /\ ops < MaxOps /\ ops' = ops + 1 /\ UNCHANGED <<adopted, restarts>>

-----------------------------------------------------------------------------
(* The turn pump *)

\* Fault: custody is not checked.
EligibleWhileMirrored ==
  /\ ~inflight /\ waiting = None /\ ~compacting /\ ~resetting
  /\ ~removed /\ mstate \notin {"paused", "dead", "custody_uncertain"}

turnStartEligibility ==
  /\ ~inflight /\ waiting = None /\ ~compacting /\ ~resetting
  /\ custody = "owned"
  /\ ~removed /\ mstate \notin {"paused", "dead", "custody_uncertain"}

\* The state a new queued row gives the member.
QueuedState ==
  IF (inflight /\ mstate \in {"running", "awaiting_input"})
     \/ mstate \in {"paused", "dead", "custody_uncertain"}
  THEN mstate ELSE "queued"

queueAgentDelivery ==
  /\ Quiet /\ ~removed /\ queued < MaxQueue
  /\ queued' = queued + 1
  /\ mstate' = QueuedState
  /\ pump' = (custody = "owned")
  /\ UNCHANGED <<custody, removed, sessionRef, delivering, held, leases, memory,
                 step, outside, counts>>

\* runTurn up to its first await: beginTurn, the member running, its session.
BeginTurn ==
  /\ inflight' = TRUE /\ delivering' = TRUE /\ cached' = TRUE
  /\ mstate' = "running"
  /\ UNCHANGED <<custody, removed, sessionRef, leases, waiting, compacting,
                 resetting, outside>>

maybeStartTurn ==
  /\ step = "none" /\ pump /\ pump' = FALSE
  /\ IF turnStartEligibility /\ queued > 0
     THEN BeginTurn /\ queued' = 0 /\ UNCHANGED held
     ELSE UNCHANGED <<member, rows, leases, memory, outside>>
  /\ UNCHANGED <<step, counts>>

onSessionRef ==
  /\ Quiet /\ inflight /\ ~sessionRef /\ sessionRef' = TRUE
  /\ UNCHANGED <<mstate, custody, removed, rows, leases, memory, handler, outside,
                 counts>>

\* createInteraction: a card of the turn.
RaiseAsk ==
  /\ Quiet /\ inflight /\ mstate' = "awaiting_input" /\ mstate # mstate'
  /\ UNCHANGED <<custody, removed, sessionRef, rows, leases, memory, handler,
                 outside, counts>>

AnswerAsk ==
  /\ Quiet /\ inflight /\ mstate = "awaiting_input" /\ mstate' = "running"
  /\ UNCHANGED <<custody, removed, sessionRef, rows, leases, memory, handler,
                 outside, counts>>

\* finalizeTurn, the end of inflight, and the pump's call of itself.
FinalizeTurn(failed) ==
  /\ Quiet /\ inflight
  /\ inflight' = FALSE /\ delivering' = FALSE /\ pump' = TRUE
  /\ mstate' = IF failed THEN "dead"
               ELSE IF mstate \in {"dead", "paused"} THEN mstate ELSE "idle"
  /\ UNCHANGED <<custody, removed, sessionRef, queued, held, leases, waiting,
                 compacting, resetting, cached, step, outside, counts>>

-----------------------------------------------------------------------------
(* Operator acts *)

\* No interactive attach holds or awaits the session.
Unattached == lease = None /\ waiting = None

killMember ==
  /\ Act /\ Unattached /\ mstate' = "dead"
  /\ UNCHANGED <<custody, removed, sessionRef, rows, leases, memory, handler, outside>>

reviveMember ==
  /\ Act /\ mstate = "dead" /\ Unattached /\ sessionRef
  /\ mstate' = "idle" /\ custody' = "owned" /\ cached' = TRUE /\ pump' = TRUE
  /\ UNCHANGED <<removed, sessionRef, rows, leases, inflight, waiting, compacting,
                 resetting, step, outside>>

pauseMember ==
  /\ Act /\ ~removed /\ Unattached /\ mstate \in {"idle", "queued"}
  /\ mstate' = "paused"
  /\ UNCHANGED <<custody, removed, sessionRef, rows, leases, memory, handler, outside>>

unpauseMember ==
  /\ Act /\ mstate = "paused" /\ mstate' = "idle" /\ pump' = TRUE
  /\ UNCHANGED <<custody, removed, sessionRef, rows, leases, memory, step, outside>>

\* killMember first, unless the member is dead: only killMember looks for a lease.
removeMember ==
  /\ Act /\ ~removed /\ (mstate = "dead" \/ Unattached)
  /\ mstate' = "dead" /\ removed' = TRUE /\ cached' = FALSE
  /\ queued' = 0 /\ held' = FALSE
  /\ UNCHANGED <<custody, sessionRef, delivering, leases, inflight, waiting,
                 compacting, resetting, handler, outside>>

\* release_hold of a batch that boot held: retryTurn behind the same gate.
releaseHold ==
  /\ Act /\ held /\ turnStartEligibility
  /\ BeginTurn /\ held' = FALSE
  /\ UNCHANGED <<queued, handler>>

compactMember ==
  /\ Act /\ ~removed /\ ~inflight /\ mstate = "idle"
  /\ ~compacting /\ ~resetting /\ cached
  /\ compacting' = TRUE
  /\ UNCHANGED <<member, rows, leases, inflight, waiting, resetting, cached,
                 handler, outside>>

CompactEnds ==
  /\ Quiet /\ compacting /\ compacting' = FALSE /\ pump' = TRUE
  /\ UNCHANGED <<member, rows, leases, inflight, waiting, resetting, cached, step,
                 outside, counts>>

Clearable ==
  /\ ~removed /\ custody = "owned" /\ sessionRef /\ ~inflight /\ mstate = "idle"
  /\ Unattached /\ ~compacting /\ ~resetting
  /\ queued = 0 /\ ~delivering /\ ~held

clearMemberContext ==
  /\ Act /\ Clearable /\ resetting' = TRUE
  /\ UNCHANGED <<member, rows, leases, inflight, waiting, compacting, cached,
                 handler, outside>>

\* resetSession failed, or clearAgentContext committed (it refuses a tombstone).
ResetEnds ==
  /\ Quiet /\ resetting /\ resetting' = FALSE /\ pump' = TRUE
  /\ \/ UNCHANGED <<sessionRef, cached>>
     \/ ~removed /\ sessionRef' = FALSE /\ cached' = FALSE
  /\ UNCHANGED <<mstate, custody, removed, rows, leases, inflight, waiting,
                 compacting, step, outside, counts>>

-----------------------------------------------------------------------------
(* Leases *)

\* Fault: a context reset does not matter.
AttachableWhileResetting ==
  /\ custody = "owned" /\ mstate \notin {"dead", "awaiting_input"} /\ sessionRef
  /\ Unattached

\* What acquireAttachLease asks before it waits.
Attachable ==
  /\ custody = "owned" /\ ~resetting
  /\ mstate \notin {"dead", "awaiting_input"} /\ sessionRef
  /\ Unattached

acquireAttachLease(c) ==
  /\ Quiet /\ cli[c] = "out" /\ Attachable
  /\ waiting' = c /\ cli' = [cli EXCEPT ![c] = "waiting"]
  /\ UNCHANGED <<member, rows, leases, inflight, compacting, resetting, cached,
                 handler, child, mail, native, counts>>

\* No turn is left.  A refusal frees the member without a pump; a lease is
\* created (createAttachLease) ...
GrantLease(c) ==
  /\ Quiet /\ waiting = c /\ ~inflight
  /\ IF custody = "owned" /\ mstate # "awaiting_input"
     THEN /\ lease' = c /\ recorded' = FALSE /\ stale' = FALSE /\ step' = "grant"
          /\ UNCHANGED <<waiting, cli>>
     ELSE /\ waiting' = None /\ cli' = [cli EXCEPT ![c] = "gone"]
          /\ UNCHANGED <<leases, step>>
  /\ UNCHANGED <<member, rows, inflight, compacting, resetting, cached, pump, child,
                 mail, native, counts>>

\* ... and the member's update, the session dropped, the answer to the CLI.
CommitGrant ==
  /\ step = "grant" /\ step' = "none"
  /\ custody' = "mirrored" /\ mstate' = IF queued > 0 THEN "queued" ELSE "idle"
  /\ cached' = FALSE /\ waiting' = None
  /\ cli' = [c \in Cli |-> IF c = lease /\ cli[c] = "waiting" THEN "granted" ELSE cli[c]]
  /\ UNCHANGED <<removed, sessionRef, rows, leases, inflight, compacting, resetting,
                 pump, child, mail, native, counts>>

reportAttachChild(c) ==
  /\ Quiet /\ "child" \in mail[c]
  /\ mail' = [mail EXCEPT ![c] = @ \ {"child"}]
  /\ IF lease = c
     THEN recorded' = TRUE /\ stale' = FALSE
     ELSE UNCHANGED <<recorded, stale>>
  /\ cli' = IF cli[c] # "reported" THEN cli
            ELSE [cli EXCEPT ![c] = IF lease = c THEN "supervising" ELSE "gone"]
  /\ UNCHANGED <<member, rows, lease, memory, handler, child, native, counts>>

heartbeatAttachLease(c) ==
  /\ Quiet /\ cli[c] = "supervising" /\ lease = c /\ stale /\ stale' = FALSE
  /\ UNCHANGED <<member, rows, lease, recorded, memory, handler, outside, counts>>

\* attachLeaseTimeoutMs pass without a sign of the CLI.
HeartbeatLapses ==
  /\ Quiet /\ lease # None /\ ~stale /\ stale' = TRUE
  /\ UNCHANGED <<member, rows, lease, recorded, memory, handler, outside, counts>>

markCustodyUncertain ==
  /\ mstate' = "custody_uncertain"
  /\ custody' = IF mstate = "custody_uncertain" THEN custody ELSE "mirrored"
  /\ UNCHANGED <<removed, sessionRef, leases, cached, step>>

deleteAttachLease == lease' = None /\ recorded' = FALSE /\ stale' = FALSE

\* finishAttachLease: the session reattached and the lease deleted ...
finishAttachLease ==
  /\ sessionRef /\ cached' = TRUE
  /\ deleteAttachLease /\ step' = "finish"
  /\ UNCHANGED member

\* Fault: a lease without a reported child counts as one whose child is gone.
RecordedOrNot(c) == TRUE

attachChildRecorded(c) == lease = c /\ recorded

\* What becomes of a lease that nobody holds up any more.
Settle(c) ==
  \/ attachChildRecorded(c) /\ child[c] # "alive" /\ finishAttachLease
  \/ ~(attachChildRecorded(c) /\ child[c] # "alive") /\ markCustodyUncertain

completeAttachLease(c) ==
  /\ Quiet /\ mail[c] = {"complete"}
  /\ mail' = [mail EXCEPT ![c] = {}]
  /\ cli' = [cli EXCEPT ![c] = "gone"]
  /\ IF lease = c THEN Settle(c) ELSE UNCHANGED <<member, leases, cached, step>>
  /\ UNCHANGED <<rows, inflight, waiting, compacting, resetting, pump, child, native,
                 counts>>

Expired(c) == lease = c /\ stale

reconcileAttachLeases(c) ==
  /\ Quiet /\ Expired(c) /\ Settle(c)
  /\ UNCHANGED <<rows, inflight, waiting, compacting, resetting, pump, outside, counts>>

\* Fault: the pump is forgotten.
ReadoptSilently ==
  /\ step \in {"finish", "adopt"} /\ step' = "none"
  /\ custody' = "owned" /\ mstate' = "idle" /\ cached' = TRUE
  /\ UNCHANGED <<removed, sessionRef, rows, leases, inflight, waiting, compacting,
                 resetting, pump, outside, counts>>

\* The second transaction of finishAttachLease and of adoptMember, and the pump.
Readopt ==
  /\ step \in {"finish", "adopt"} /\ step' = "none"
  /\ custody' = "owned" /\ mstate' = "idle" /\ cached' = TRUE /\ pump' = TRUE
  /\ UNCHANGED <<removed, sessionRef, rows, leases, inflight, waiting, compacting,
                 resetting, outside, counts>>

adoptMember ==
  /\ Quiet /\ ops < MaxOps /\ ops' = ops + 1 /\ UNCHANGED restarts
  /\ custody = "mirrored" /\ sessionRef
  /\ lease # None => mstate = "custody_uncertain" /\ ~recorded
  /\ deleteAttachLease /\ step' = "adopt"
  /\ adopted' = adopted \cup ({lease} \ {None})
  /\ UNCHANGED <<member, rows, memory, pump, outside>>

\* The SessionEnd hook of the terminal a joined agent lives in.
mirrorSessionEnd ==
  /\ Quiet /\ native = "alive" /\ native' = "exited"
  /\ IF custody = "mirrored" /\ lease = None /\ ~removed THEN step' = "adopt" ELSE UNCHANGED step
  /\ UNCHANGED <<member, rows, leases, memory, pump, cli, child, mail, counts>>

-----------------------------------------------------------------------------
(* superviseInteractiveAttach, a process of its own *)

\* A CLI whose daemon went away spawns all the same; its frame is lost.
SpawnChild(c) ==
  /\ cli[c] \in {"granted", "cut"}
  /\ child' = [child EXCEPT ![c] = "alive"]
  /\ IF cli[c] = "granted"
     THEN cli' = [cli EXCEPT ![c] = "reported"] /\ mail' = [mail EXCEPT ![c] = {"child"}]
     ELSE cli' = [cli EXCEPT ![c] = "gone"] /\ UNCHANGED mail
  /\ UNCHANGED <<member, rows, leases, memory, handler, native, counts>>

\* The end of supervision: the child failed to spawn, was never acknowledged, or
\* has exited.
SendComplete(c) ==
  /\ \/ cli[c] \in {"granted", "reported"}
     \/ cli[c] = "supervising" /\ child[c] = "exited"
  /\ cli' = [cli EXCEPT ![c] = "completing"]
  /\ mail' = [mail EXCEPT ![c] = @ \cup {"complete"}]
  /\ UNCHANGED <<member, rows, leases, memory, handler, child, native, counts>>

ChildExits(c) ==
  /\ child[c] = "alive" /\ child' = [child EXCEPT ![c] = "exited"]
  /\ UNCHANGED <<member, rows, leases, memory, handler, cli, mail, native, counts>>

\* The CLI is killed; its child is detached and lives on, its frames arrive.
CliDies(c) ==
  /\ cli[c] \notin {"out", "gone"} /\ cli' = [cli EXCEPT ![c] = "gone"]
  /\ UNCHANGED <<member, rows, leases, memory, handler, child, mail, native, counts>>

-----------------------------------------------------------------------------
(* Crash and boot *)

Crash ==
  /\ restarts < MaxRestart /\ restarts' = restarts + 1
  /\ inflight' = FALSE /\ waiting' = None /\ compacting' = FALSE
  /\ resetting' = FALSE /\ cached' = FALSE
  /\ step' = "boot" /\ pump' = FALSE
  /\ cli' = [c \in Cli |-> CASE cli[c] = "out" -> "out"
                             [] cli[c] \in {"granted", "cut"} -> "cut"
                             [] OTHER -> "gone"]
  /\ mail' = [c \in Cli |-> {}]
  /\ UNCHANGED <<member, rows, leases, child, native, adopted, ops>>

\* reconcile: the batch that was delivering is run again or held; the pump.
Boot ==
  /\ step = "boot" /\ step' = "none" /\ pump' = TRUE
  /\ \/ delivering /\ turnStartEligibility /\ BeginTurn /\ UNCHANGED <<queued, held>>
     \/ /\ delivering' = FALSE /\ held' = (held \/ delivering)
        /\ mstate' = IF delivering /\ custody = "owned"
                        /\ mstate \notin {"paused", "dead", "custody_uncertain"}
                     THEN "idle" ELSE mstate
        /\ UNCHANGED <<custody, removed, sessionRef, queued, leases, memory, outside>>
  /\ UNCHANGED counts

-----------------------------------------------------------------------------
Next ==
  \/ queueAgentDelivery \/ maybeStartTurn \/ onSessionRef \/ RaiseAsk \/ AnswerAsk
  \/ \E failed \in BOOLEAN : FinalizeTurn(failed)
  \/ killMember \/ reviveMember \/ pauseMember \/ unpauseMember \/ removeMember
  \/ releaseHold \/ compactMember \/ CompactEnds \/ clearMemberContext \/ ResetEnds
  \/ CommitGrant \/ HeartbeatLapses \/ Readopt \/ adoptMember \/ mirrorSessionEnd
  \/ \E c \in Cli :
       \/ acquireAttachLease(c) \/ GrantLease(c)
       \/ reportAttachChild(c) \/ heartbeatAttachLease(c)
       \/ completeAttachLease(c) \/ reconcileAttachLeases(c)
       \/ SpawnChild(c) \/ SendComplete(c) \/ ChildExits(c) \/ CliDies(c)
  \/ Crash \/ Boot

Spec == Init /\ [][Next]_vars

\* The event loop serves what it is sent and what is due, the calls into an
\* adapter end, and a living CLI ends what it supervises.  Operators, the death
\* of a CLI and crashes are never forced.
FairSpec ==
  /\ Spec
  /\ WF_vars(maybeStartTurn) /\ WF_vars(CommitGrant) /\ WF_vars(Readopt) /\ WF_vars(Boot)
  /\ WF_vars(HeartbeatLapses) /\ WF_vars(FinalizeTurn(FALSE))
  /\ WF_vars(CompactEnds) /\ WF_vars(ResetEnds)
  /\ \A c \in Cli :
       /\ WF_vars(GrantLease(c)) /\ WF_vars(SendComplete(c))
       /\ WF_vars(reportAttachChild(c)) /\ WF_vars(completeAttachLease(c))
       /\ WF_vars(reconcileAttachLeases(c))

-----------------------------------------------------------------------------
(* Properties *)

\* The terminals that were opened under a lease no operator has adopted away.
Terminals == {c \in Cli : child[c] = "alive" /\ c \notin adopted}

Session == INSTANCE SingleWriter WITH turn <- inflight, terminals <- Terminals

\* One writer per harness session: no daemon turn starts while a leased terminal
\* lives and no terminal opens beside a turn or another terminal, whatever
\* heartbeats are lost and whenever CLI or daemon die (turnStartEligibility,
\* acquireAttachLease, the custody-uncertain-never-double-writes rule).
OneWriter == Session!Spec

\* While a context reset awaits the adapter, nothing else uses the session: no
\* turn, no compaction, no attach granted or waiting (clearMemberContext).
ResetIsAlone == resetting => /\ ~inflight /\ ~compacting
                             /\ waiting = None /\ lease = None

\* An agent that is not the daemon's own, or has a lease, can always be taken
\* back: it has a session to resume, which finishAttachLease and adoptMember
\* need and a context reset erases.
LeaseHasSession == lease # None \/ custody = "mirrored" => sessionRef

\* A lease ends only on proof that its terminal is gone, or by an operator's
\* adoption (completeAttachLease, reconcileAttachLeases, adoptMember).
LeaseEnds ==
  [][\A c \in Cli : lease = c /\ lease' # c =>
        (recorded /\ child[c] # "alive") \/ c \in adopted']_vars

\* Once the reported terminal of a lease has exited the lease ends, also when the
\* member was already custody_uncertain and the CLI or the daemon died.
LeaseReturns ==
  \A c \in Cli : lease = c /\ recorded /\ child[c] = "exited" ~> lease # c

Takes == ~removed /\ custody = "owned"
         /\ mstate \notin {"paused", "dead", "custody_uncertain"}

\* Rows that waited through a lease, an acquisition, a compaction or a reset are
\* drained when it is over, unless the agent stops taking turns.
QueueResumes == queued > 0 ~> queued = 0 \/ ~Takes

\* A compaction has the session for itself (comment of compactMember).
CompactsAlone == compacting => Terminals = {}

\* A mirrored agent whose terminal lives becomes owned by an adoption only
\* (the adoption-explicit-or-sessionend rule).
AdoptionIsExplicit ==
  [][native = "alive" /\ custody = "mirrored" /\ custody' = "owned" => step = "adopt"]_vars

\* A paused agent stays paused until an operator acts on it (docs/PROTOCOL.md,
\* section 5.1).
PausedUntilUnpaused == [][mstate = "paused" /\ mstate' # "paused" => ops' > ops]_vars
=============================================================================
