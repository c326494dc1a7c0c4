------------------------ MODULE CollaborationRounds ------------------------
(***************************************************************************)
(* One collaboration group of one room: a message routed to several agents *)
(* opens a round; each participant owes one answer, given by the turn its  *)
(* delivery row feeds; when nobody owes one, the agents that completed     *)
(* answers mention are the participants of the next round, or the group    *)
(* ends.  store.ts holds the group, its rounds, participants and rows;     *)
(* daemon.ts drives them from a turn's end, from kill, remove and release, *)
(* and from boot.                                                          *)
(*                                                                         *)
(* A handler is one synchronous stretch of several transactions, so a      *)
(* crash can fall between them: `todo` holds the calls still to be made in *)
(* the stretch, and nothing else runs before it is empty.  How a turn is   *)
(* started, fed and recovered is TurnLifecycle's subject: here a turn      *)
(* starts, ends, and boot meets it in every state it can be left in.       *)
(***************************************************************************)
EXTENDS Naturals, Sequences, FiniteSets, FiniteSetsExt

CONSTANTS
  Agent,
  MaxRound,   \* bound: answers of the last round mention nobody
  MaxOps,     \* bound on operator acts, agents' own acts and brakes
  MaxCrash,   \* bound on crashes and stops
  Acts,       \* the acts an instance allows
  Stale       \* a mention of a worktree target that is no longer registered

ASSUME RoundsAssumption ==
  /\ MaxRound \in Nat \ {0} /\ MaxOps \in Nat /\ MaxCrash \in Nat
  /\ Stale \notin Agent /\ IsFiniteSet(Agent)

VARIABLES
  group,     \* state of the group row
  round,     \* Round -> state of the round row
  part,      \* Agent x Round -> terminal_status of the participant
  row,       \* Agent x Round -> state of the participant's delivery
  run,       \* Agent x Round -> status of the run the delivery is bound to
  says,      \* Agent x Round -> whom the participant's answer mentions
  member,    \* Agent -> "live", "dead" or "removed"
  waits,     \* Agent -> peers of its live wait (process memory)
  todo,      \* calls left in the running handler (process memory)
  phase,     \* "ready", "closing", "boot", "groups"
  purged,    \* the root message was deleted
  taken,     \* rows an agent consumed from its own inbox (history)
  ops, crashes

rows  == <<row, run>>
round_ == <<group, round, part, says>>
count == <<ops, crashes>>
roundsVars == <<group, round, part, row, run, says, member, waits, todo, phase, purged,
                taken, ops, crashes>>

Round    == 1..MaxRound
Slot     == Agent \X Round
Terminal == {"completed", "failed", "interrupted", "skipped"}
Call     == [op : {"settle", "skip", "dispatch"}, rs : SUBSET Round, who : SUBSET Agent]

StoreOK ==
  /\ group \in {"none", "open", "completed"}
  /\ round \in [Round -> {"none", "collecting", "released", "closed"}]
  /\ part \in [Slot -> {"out", "waiting"} \cup Terminal]
  /\ row \in [Slot -> {"absent", "queued", "held", "delivering", "consumed"}]
  /\ run \in [Slot -> {"none", "running", "completed", "failed", "interrupted"}]
  /\ says \in [Slot -> SUBSET (Agent \cup {Stale})]
  /\ member \in [Agent -> {"live", "dead", "removed"}]

ProcessOK ==
  /\ waits \in [Agent -> SUBSET Agent]
  /\ todo \in Seq(Call)
  /\ phase \in {"ready", "closing", "boot", "groups"}

CountsOK ==
  /\ purged \in BOOLEAN
  /\ taken \subseteq Slot
  /\ ops \in 0..MaxOps /\ crashes \in 0..MaxCrash

RoundsTypeOK == StoreOK /\ ProcessOK /\ CountsOK

RoundsInit ==
  /\ group = "none"
  /\ round = [r \in Round |-> "none"]
  /\ part = [s \in Slot |-> "out"]
  /\ row = [s \in Slot |-> "absent"]
  /\ run = [s \in Slot |-> "none"]
  /\ says = [s \in Slot |-> {}]
  /\ member = [a \in Agent |-> "live"]
  /\ waits = [a \in Agent |-> {}]
  /\ todo = <<>> /\ phase = "ready" /\ purged = FALSE /\ taken = {}
  /\ ops = 0 /\ crashes = 0

-----------------------------------------------------------------------------
(***************************************************************************)
(* The store's transactions                                                *)
(***************************************************************************)
Participants(r) == {a \in Agent : part[<<a, r>>] # "out"}
Collecting(r)   == round[r] = "collecting"
\* Fault: the first answer releases the round.
AnyTerminal(r) == \E a \in Participants(r) : part[<<a, r>>] \in Terminal
AllTerminal(r)  == \A a \in Participants(r) : part[<<a, r>>] \in Terminal

\* collaborationWorkIsSettled: a terminal participant, or a round that is over.
WorkIsSettled(a, r) == part[<<a, r>>] \in Terminal \/ ~Collecting(r)

\* materializeCollaborationRound: a collecting round, one queued row and one
\* participant per member, in the transaction of the caller.
Materialized(S, r) ==
  /\ part' = [s \in Slot |-> IF s \in S \X {r} THEN "waiting" ELSE part[s]]
  /\ row' = [s \in Slot |-> IF s \in S \X {r} THEN "queued" ELSE row[s]]

\* Calls of op that the handler still owes: one for every agent of `who` in
\* every round of rs (several agents of one round, or several rounds of one).
Calls(op, rs, who) == IF rs = {} THEN <<>> ELSE <<[op |-> op, rs |-> rs, who |-> who]>>

\* commitRoutedMessage with a collaboration plan: at least two active agents.
createCollaborationGroup ==
  /\ phase = "ready" /\ todo = <<>> /\ group = "none" /\ ~purged
  /\ \E S \in SUBSET {a \in Agent : member[a] # "removed"} :
       /\ Cardinality(S) >= 2
       /\ Materialized(S, 1)
       /\ todo' = Calls("dispatch", {1}, S)
  /\ group' = "open" /\ round' = [round EXCEPT ![1] = "collecting"]
  /\ UNCHANGED <<run, says, member, waits, phase, purged, taken, count>>

-----------------------------------------------------------------------------
(***************************************************************************)
(* advanceCollaborationRound                                               *)
(***************************************************************************)
MayRelease(r) == Collecting(r) /\ AllTerminal(r)

Completed(r) == {a \in Participants(r) : part[<<a, r>>] = "completed"}
Refused(r)   == \E a \in Completed(r) : Stale \in says[<<a, r>>]

\* Agents that a completed answer of somebody else mentions and that are not
\* removed; a dead one is chosen too, and skipped at dispatch.
NextMembers(r) == {m \in Agent : /\ member[m] # "removed"
                                 /\ \E a \in Completed(r) \ {m} : m \in says[<<a, r>>]}

\* Is the wait of a (in the turn of its row of round r) over?
WaitSatisfied(a, r) ==
  /\ row[<<a, r>>] = "delivering" /\ waits[a] # {}
  /\ \A p \in waits[a] : p \in Participants(r) /\ part[<<p, r>>] \in Terminal

\* clearSatisfiedGroupWaits
Cleared(r) == waits' = [a \in Agent |-> IF WaitSatisfied(a, r) THEN {} ELSE waits[a]]

Head1 == Head(todo)

\* The next call is op on round r, the oldest it is owed for.
Calling(op, r) == /\ todo # <<>> /\ Head1.op = op
                  /\ r \in Head1.rs /\ \A q \in Head1.rs : r <= q

\* What is owed after the call for round r, or for agent a in it.
AfterRound(r)    == Calls(Head1.op, Head1.rs \ {r}, Head1.who) \o Tail(todo)
AfterAgent(a, r) == IF Head1.who = {a} THEN AfterRound(r)
                    ELSE Calls(Head1.op, Head1.rs, Head1.who \ {a}) \o Tail(todo)

\* The handlers' common tail: clear the waits that are over, then advance.
AdvancePending(r) ==
  /\ Calling("settle", r) /\ ~MayRelease(r)
  /\ Cleared(r)
  /\ todo' = AfterRound(r)
  /\ UNCHANGED <<round_, rows, member, phase, purged, taken, count>>

\* Nobody is mentioned, or a mention is invalid (closeCollaborationRoundWith-
\* Refusal): the round closes and the group ends in one transaction.
AdvanceCloses(r) ==
  /\ Calling("settle", r) /\ MayRelease(r)
  /\ Refused(r) \/ NextMembers(r) = {}
  /\ round' = [round EXCEPT ![r] = "closed"]
  /\ group' = "completed"
  /\ Cleared(r)
  /\ todo' = AfterRound(r)
  /\ UNCHANGED <<part, says, rows, member, phase, purged, taken, count>>

\* releaseCollaborationRound: the next round's rows are created and this round
\* is released in one transaction; then its rows are dispatched.
AdvanceReleases(r) ==
  /\ Calling("settle", r) /\ MayRelease(r)
  /\ ~Refused(r) /\ NextMembers(r) # {}
  /\ r < MaxRound
  /\ Materialized(NextMembers(r), r + 1)
  /\ round' = [round EXCEPT ![r] = "released", ![r + 1] = "collecting"]
  /\ todo' = Calls("dispatch", {r + 1}, NextMembers(r)) \o AfterRound(r)
  /\ Cleared(r)
  /\ UNCHANGED <<group, says, run, member, phase, purged, taken, count>>

\* skipCollaborationParticipant, then the tail: nothing for a terminal one, and
\* an attempt that has started is not skipped.
Skippable(a, r) == part[<<a, r>>] = "waiting" /\ run[<<a, r>>] = "none"
                   /\ row[<<a, r>>] \in {"queued", "held", "consumed"}

\* Fault: skipping forgets to advance the round.
NoTail(r) == <<>>
SkipTail(r) == Calls("settle", {r}, {})

SkipCall(a, r) ==
  /\ Calling("skip", r) /\ a \in Head1.who
  /\ IF Skippable(a, r)
     THEN /\ part' = [part EXCEPT ![<<a, r>>] = "skipped"]
          /\ row' = [row EXCEPT ![<<a, r>>] = "consumed"]
     ELSE UNCHANGED <<part, row>>
  /\ todo' = SkipTail(r) \o AfterAgent(a, r)
  /\ UNCHANGED <<group, round, says, run, member, waits, phase, purged, taken, count>>

Unavailable(a) == member[a] # "live"

\* dispatchCreatedDeliveries: a row of a dead or removed agent is skipped; the
\* others wait for their agent's pump, or are held by a brake (not in round 1,
\* whose rows come from a person).
DispatchCall(a, r) ==
  /\ Calling("dispatch", r) /\ a \in Head1.who
  /\ \/ /\ Unavailable(a)
        /\ todo' = Calls("skip", {r}, {a}) \o AfterAgent(a, r)
        /\ UNCHANGED <<row, ops>>
     \/ /\ ~Unavailable(a)
        /\ todo' = AfterAgent(a, r)
        /\ UNCHANGED <<row, ops>>
     \/ /\ ~Unavailable(a) /\ r > 1 /\ "brake" \in Acts /\ ops < MaxOps
        /\ ops' = ops + 1
        /\ row' = [row EXCEPT ![<<a, r>>] = "held"]
        /\ todo' = AfterAgent(a, r)
  /\ UNCHANGED <<round_, run, member, waits, phase, purged, taken, crashes>>

-----------------------------------------------------------------------------
(***************************************************************************)
(* Turns                                                                   *)
(***************************************************************************)
Idle == todo = <<>>
Busy(a) == \E r \in Round : row[<<a, r>>] = "delivering"

\* The pump takes the oldest queued row; a member has one turn at a time.
StartTurn(a, r) ==
  /\ phase = "ready" /\ Idle /\ member[a] = "live" /\ ~Busy(a)
  /\ row[<<a, r>>] = "queued" /\ \A q \in 1..(r - 1) : row[<<a, q>>] # "queued"
  /\ row' = [row EXCEPT ![<<a, r>>] = "delivering"]
  /\ run' = [run EXCEPT ![<<a, r>>] = "running"]
  /\ UNCHANGED <<round_, member, waits, todo, phase, purged, taken, count>>

\* A brake found at the turn's start holds the row instead.
StartBraked(a, r) ==
  /\ phase = "ready" /\ Idle /\ member[a] = "live" /\ ~Busy(a)
  /\ row[<<a, r>>] = "queued" /\ r > 1 /\ "brake" \in Acts /\ ops < MaxOps
  /\ row' = [row EXCEPT ![<<a, r>>] = "held"] /\ ops' = ops + 1
  /\ UNCHANGED <<round_, run, member, waits, todo, phase, purged, taken, crashes>>

\* Whom an answer may mention; {} also stands for an acknowledgement.
Mentions(r) == IF r = MaxRound THEN {{}} ELSE (SUBSET Agent) \cup {{Stale}}

\* The turn's end, live or found in the journal at boot.
Ending(a, r) == /\ row[<<a, r>>] = "delivering" /\ run[<<a, r>>] = "running" /\ Idle
                /\ phase \in {"ready", "closing", "boot"}

\* completeTurn: run, row, participant and member in one transaction; a failed
\* turn leaves its agent dead.  Then the tail.
FinishTurn(a, r, o, M) ==
  /\ Ending(a, r) /\ ~WorkIsSettled(a, r)
  /\ row' = [row EXCEPT ![<<a, r>>] = "consumed"]
  /\ run' = [run EXCEPT ![<<a, r>>] = o]
  /\ part' = [part EXCEPT ![<<a, r>>] = o]
  /\ says' = [says EXCEPT ![<<a, r>>] = M]
  /\ member' = IF o = "failed" /\ member[a] = "live" THEN [member EXCEPT ![a] = "dead"] ELSE member
  /\ waits' = [waits EXCEPT ![a] = {}]
  /\ todo' = Calls("settle", {r}, {})
  /\ UNCHANGED <<group, round, phase, purged, taken, count>>

\* Fault: the work of a participant still owed is consumed like settled work.
RepairedConsumed(a, r) == "consumed"
RepairedRow(a, r) == IF WorkIsSettled(a, r) THEN "consumed" ELSE "held"

\* repairFailedFinalization: the transaction failed, or the work is settled (a
\* redelivered row): the run failed, settled work is consumed, the rest held.
RepairTurn(a, r) ==
  /\ Ending(a, r)
  /\ \/ WorkIsSettled(a, r) /\ UNCHANGED ops
     \/ ~WorkIsSettled(a, r) /\ "rollback" \in Acts /\ ops < MaxOps /\ ops' = ops + 1
  /\ row' = [row EXCEPT ![<<a, r>>] = RepairedRow(a, r)]
  /\ run' = [run EXCEPT ![<<a, r>>] = "failed"]
  /\ waits' = [waits EXCEPT ![a] = {}]
  /\ UNCHANGED <<round_, member, todo, phase, purged, taken, crashes>>

\* settleLifecycleInterruption at a stop, or at boot for a turn cut off: queued
\* again, participant untouched, or settled `interrupted` when the trigger was
\* deleted, the work is settled or the attempts are spent (TurnLifecycle counts
\* them; here either verdict).
LifecycleRequeues(a, r) ==
  /\ Ending(a, r) /\ phase \in {"closing", "boot"} /\ ~purged /\ ~WorkIsSettled(a, r)
  /\ row' = [row EXCEPT ![<<a, r>>] = "queued"]
  /\ run' = [run EXCEPT ![<<a, r>>] = "none"]
  /\ waits' = [waits EXCEPT ![a] = {}]
  /\ UNCHANGED <<round_, member, todo, phase, purged, taken, count>>

LifecycleSettles(a, r) ==
  /\ Ending(a, r) /\ phase \in {"closing", "boot"}
  /\ row' = [row EXCEPT ![<<a, r>>] = "consumed"]
  /\ run' = [run EXCEPT ![<<a, r>>] = "interrupted"]
  /\ part' = IF part[<<a, r>>] = "waiting" THEN [part EXCEPT ![<<a, r>>] = "interrupted"] ELSE part
  /\ waits' = [waits EXCEPT ![a] = {}]
  /\ todo' = Calls("settle", {r}, {})
  /\ UNCHANGED <<group, round, says, member, phase, purged, taken, count>>

-----------------------------------------------------------------------------
(***************************************************************************)
(* Waits                                                                   *)
(***************************************************************************)
\* beginWait, in a grouped turn; a wait whose peers have all answered already
\* ends at once.
beginWait(a, P) ==
  /\ phase = "ready" /\ Idle /\ "wait" \in Acts /\ ops < MaxOps /\ ops' = ops + 1
  /\ member[a] = "live" /\ waits[a] = {}
  /\ P # {} /\ a \notin P /\ \A p \in P : member[p] # "removed"
  /\ \E r \in Round :
       /\ row[<<a, r>>] = "delivering"
       /\ waits' = [waits EXCEPT ![a] =
            IF \A p \in P : p \in Participants(r) /\ part[<<p, r>>] \in Terminal THEN {} ELSE P]
  /\ UNCHANGED <<round_, rows, member, todo, phase, purged, taken, crashes>>

endWait(a) ==
  /\ phase = "ready" /\ Idle /\ member[a] = "live" /\ waits[a] # {}
  /\ waits' = [waits EXCEPT ![a] = {}]
  /\ UNCHANGED <<round_, rows, member, todo, phase, purged, taken, count>>

-----------------------------------------------------------------------------
(***************************************************************************)
(* Operator acts, and what an agent does to its own rows                   *)
(***************************************************************************)
RoundsAct(name) == /\ phase = "ready" /\ Idle /\ name \in Acts /\ ops < MaxOps
                   /\ ops' = ops + 1

Unstarted(a) == {r \in Round : row[<<a, r>>] \in {"queued", "held"} /\ run[<<a, r>>] = "none"}
Started(a)   == {r \in Round : row[<<a, r>>] \in {"queued", "held"} /\ run[<<a, r>>] # "none"}

\* killMember: dead, its wait gone, its unstarted grouped rows skipped; a turn
\* in flight ends later.
killMember(a) ==
  /\ RoundsAct("kill") /\ member[a] = "live"
  /\ member' = [member EXCEPT ![a] = "dead"]
  /\ waits' = [waits EXCEPT ![a] = {}]
  /\ todo' = Calls("skip", Unstarted(a), {a})
  /\ UNCHANGED <<round_, rows, phase, purged, taken, crashes>>

\* A turn outside the group fails: its agent is dead, its rows stay as they are.
OtherTurnFails(a) ==
  /\ RoundsAct("fail") /\ member[a] = "live" /\ ~Busy(a)
  /\ member' = [member EXCEPT ![a] = "dead"]
  /\ UNCHANGED <<round_, rows, waits, todo, phase, purged, taken, crashes>>

reviveMember(a) ==
  /\ RoundsAct("revive") /\ member[a] = "dead"
  /\ member' = [member EXCEPT ![a] = "live"]
  /\ UNCHANGED <<round_, rows, waits, todo, phase, purged, taken, crashes>>

\* removeMember: a live agent is killed first (killMember, with its skips); then rows
\* of attempts already started are settled as interrupted in one transaction, the
\* others are skipped.  Not counted: each agent is removed once.
removeMember(a) ==
  /\ phase = "ready" /\ Idle /\ "remove" \in Acts /\ member[a] = "dead"
  /\ member' = [member EXCEPT ![a] = "removed"]
  /\ waits' = [waits EXCEPT ![a] = {}]
  /\ row' = [s \in Slot |-> IF s \in {a} \X Started(a) THEN "consumed" ELSE row[s]]
  /\ part' = [s \in Slot |-> IF s \in {a} \X Started(a) /\ part[s] = "waiting"
                             THEN "interrupted" ELSE part[s]]
  /\ todo' = Calls("settle", Started(a), {}) \o Calls("skip", Unstarted(a), {a})
  /\ UNCHANGED <<group, round, says, run, phase, purged, taken, count>>

\* releaseHold: a removed recipient's row is settled (interrupted if it had
\* started), an interrupted run is taken up again, any other row is queued.
releaseHold(a, r) ==
  /\ RoundsAct("release") /\ row[<<a, r>>] = "held"
  /\ \/ /\ member[a] = "removed"
        /\ row' = [row EXCEPT ![<<a, r>>] = "consumed"]
        /\ part' = IF part[<<a, r>>] # "waiting" THEN part
                   ELSE [part EXCEPT ![<<a, r>>] = IF run[<<a, r>>] = "none" THEN "skipped" ELSE "interrupted"]
        /\ todo' = Calls("settle", {r}, {})
        /\ UNCHANGED run
     \/ /\ member[a] = "live" /\ run[<<a, r>>] = "interrupted" /\ ~Busy(a)
        /\ row' = [row EXCEPT ![<<a, r>>] = "delivering"]
        /\ run' = [run EXCEPT ![<<a, r>>] = "running"]
        /\ UNCHANGED <<part, todo>>
     \/ /\ member[a] # "removed" /\ run[<<a, r>>] # "interrupted"
        /\ row' = [row EXCEPT ![<<a, r>>] = "queued"]
        /\ UNCHANGED <<part, run, todo>>
  /\ UNCHANGED <<group, round, says, member, waits, phase, purged, taken, crashes>>

\* redeliver and retryRun: back to the queue, unbound, participant untouched.
redeliverRow(a, r) ==
  /\ RoundsAct("redeliver") /\ row[<<a, r>>] \in {"consumed", "held"} /\ member[a] # "removed"
  /\ ~purged
  /\ row' = [row EXCEPT ![<<a, r>>] = "queued"]
  /\ run' = [run EXCEPT ![<<a, r>>] = "none"]
  /\ UNCHANGED <<round_, member, waits, todo, phase, purged, taken, crashes>>

\* deleteMessage of the root: every waiting row of every round is consumed; the
\* participants are not touched.
deleteRoot ==
  /\ RoundsAct("delete") /\ group # "none" /\ ~purged
  /\ purged' = TRUE
  /\ row' = [s \in Slot |-> IF row[s] \in {"queued", "held"} THEN "consumed" ELSE row[s]]
  /\ UNCHANGED <<round_, run, member, waits, todo, phase, taken, crashes>>

\* consumeQueuedDelivery: a live agent reads its own inbox (codor inbox --new
\* --consume) in a turn outside this row.
consumeOwnRow(a, r) ==
  /\ RoundsAct("consume") /\ member[a] = "live" /\ row[<<a, r>>] = "queued"
  /\ row' = [row EXCEPT ![<<a, r>>] = "consumed"]
  /\ taken' = taken \cup {<<a, r>>}
  /\ UNCHANGED <<round_, run, member, waits, todo, phase, purged, crashes>>

-----------------------------------------------------------------------------
(***************************************************************************)
(* Stopping, crashing, booting                                             *)
(***************************************************************************)
NoTurns == \A s \in Slot : row[s] # "delivering"

\* close: turns in flight are interrupted by the lifecycle or finish first.
CloseDaemon ==
  /\ phase = "ready" /\ Idle /\ crashes < MaxCrash /\ crashes' = crashes + 1
  /\ phase' = "closing"
  /\ UNCHANGED <<round_, rows, member, waits, todo, purged, taken, ops>>

Restart ==
  /\ phase = "closing" /\ Idle /\ NoTurns
  /\ phase' = "boot" /\ waits' = [a \in Agent |-> {}]
  /\ UNCHANGED <<round_, rows, member, todo, purged, taken, count>>

CrashDaemon ==
  /\ crashes < MaxCrash /\ crashes' = crashes + 1
  /\ phase' = "boot" /\ todo' = <<>> /\ waits' = [a \in Agent |-> {}]
  /\ UNCHANGED <<round_, rows, member, purged, taken, ops>>

\* reconcile of a row in custody: provably unstarted attempts run again on
\* their run, ambiguous ones are held with their run interrupted.  (A journal
\* that ends is FinishTurn, a stranded run LifecycleRequeues or -Settles.)
BootHolds(a, r) ==
  /\ phase = "boot" /\ Idle /\ row[<<a, r>>] = "delivering"
  /\ row' = [row EXCEPT ![<<a, r>>] = "held"]
  /\ run' = [run EXCEPT ![<<a, r>>] = "interrupted"]
  /\ UNCHANGED <<round_, member, waits, todo, phase, purged, taken, count>>

\* Every row in custody has been met; those left run again.
BootReconciled ==
  /\ phase = "boot" /\ Idle
  /\ \A s \in Slot : row[s] = "delivering" => member[s[1]] = "live"
  /\ phase' = "groups"
  /\ UNCHANGED <<round_, rows, member, waits, todo, purged, taken, count>>

\* reconcileCollaborationGroups: a run that is over settles its participant
\* (held rows included); an unstarted row of a dead or removed agent is skipped.
Recoverable(a, r) == /\ Collecting(r) /\ part[<<a, r>>] = "waiting"
                     /\ run[<<a, r>>] \in {"completed", "failed", "interrupted"}
Skips(a, r)       == /\ Collecting(r) /\ part[<<a, r>>] = "waiting"
                     /\ run[<<a, r>>] = "none" /\ member[a] # "live"

ReconcileParticipant(a, r) ==
  /\ phase = "groups" /\ Idle
  /\ \/ Recoverable(a, r) /\ part' = [part EXCEPT ![<<a, r>>] = run[<<a, r>>]]
     \/ Skips(a, r) /\ part' = [part EXCEPT ![<<a, r>>] = "skipped"]
  /\ row' = [row EXCEPT ![<<a, r>>] = "consumed"]
  /\ UNCHANGED <<group, round, says, run, member, waits, todo, phase, purged, taken, count>>

\* Then the round is advanced and the daemon serves.
ReconcileRound ==
  /\ phase = "groups" /\ Idle
  /\ \A s \in Slot : ~Recoverable(s[1], s[2]) /\ ~Skips(s[1], s[2])
  /\ phase' = "ready"
  /\ todo' = Calls("settle", {r \in Round : Collecting(r)}, {})
  /\ UNCHANGED <<round_, rows, member, waits, purged, taken, count>>

-----------------------------------------------------------------------------
Step(a, r) ==
  \/ StartTurn(a, r)
  \/ \E o \in {"completed", "failed", "interrupted"} :
       \E M \in IF o = "completed" THEN Mentions(r) ELSE {{}} : FinishTurn(a, r, o, M)
  \/ RepairTurn(a, r)
  \/ LifecycleRequeues(a, r) \/ LifecycleSettles(a, r)
  \/ BootHolds(a, r) \/ ReconcileParticipant(a, r)

RoundOperation(a, r) ==
  \/ StartBraked(a, r) \/ releaseHold(a, r) \/ redeliverRow(a, r) \/ consumeOwnRow(a, r)

MemberOperation(a) ==
  \/ killMember(a) \/ OtherTurnFails(a) \/ reviveMember(a) \/ removeMember(a)
  \/ endWait(a) \/ \E P \in SUBSET Agent : beginWait(a, P)

Tails == \E r \in Round :
  \/ AdvancePending(r) \/ AdvanceCloses(r) \/ AdvanceReleases(r)
  \/ \E a \in Agent : SkipCall(a, r) \/ DispatchCall(a, r)

RoundsNext ==
  \/ createCollaborationGroup \/ Tails
  \/ \E a \in Agent, r \in Round : Step(a, r) \/ RoundOperation(a, r)
  \/ \E a \in Agent : MemberOperation(a)
  \/ deleteRoot \/ CloseDaemon \/ Restart \/ CrashDaemon \/ BootReconciled \/ ReconcileRound

RoundsSpec == RoundsInit /\ [][RoundsNext]_roundsVars

\* A handler runs to its end, boot goes on, the pump starts what it can and a
\* turn ends; operators and agents owe nothing.
RoundsFairness ==
  /\ WF_roundsVars(Tails)
  /\ WF_roundsVars(Restart) /\ WF_roundsVars(BootReconciled) /\ WF_roundsVars(ReconcileRound)
  /\ \A a \in Agent, r \in Round : WF_roundsVars(Step(a, r))

RoundsFairSpec == RoundsSpec /\ RoundsFairness

-----------------------------------------------------------------------------
(***************************************************************************)
(* Properties                                                              *)
(***************************************************************************)
Current == IF group = "none" THEN 0 ELSE Max({r \in Round : round[r] # "none"})

B == INSTANCE RoundBarrier WITH
  Member <- Agent, Answer <- Terminal,
  stage  <- CASE group = "none" -> "idle" [] group = "open" -> "gathering"
              [] group = "completed" -> "over",
  number <- Current,
  answer <- [a \in Agent |-> IF Current = 0 THEN "out" ELSE part[<<a, Current>>]]

\* Through kills, removals, brakes, deletions, redeliveries, stops and crashes
\* at every point between two transactions, the group is a barrier: one round
\* at a time, each participant answers once and for all, and the next round
\* opens, with a member, only when nobody owes an answer.
GroupIsABarrier == B!BarrierSpec

\* What a round waits for is still to come: a participant without an answer has
\* a row that is queued, held or in a turn.  Only the two acts that consume a
\* row without its participant (deletion of the root message, an agent reading
\* its own inbox) leave a round waiting for nothing.
OwedAnswersAreComing ==
  Idle => \A a \in Agent, r \in Round :
            part[<<a, r>>] = "waiting" =>
              \/ row[<<a, r>>] \in {"queued", "held", "delivering"}
              \/ purged \/ <<a, r>> \in taken

\* The same without the exception: "a nonterminal participant may exist only
\* with a queued retry behind it" (settleLifecycleInterruption).
NoOrphanedParticipant ==
  Idle => \A a \in Agent, r \in Round :
            part[<<a, r>>] = "waiting" => row[<<a, r>>] \in {"queued", "held", "delivering"}

\* A round is gathered to its end unless somebody it waits for is dead, held by
\* an operator or a brake, or has lost its row.
Waiting(r) == \E a \in Agent : /\ part[<<a, r>>] = "waiting"
                               /\ row[<<a, r>>] \in {"held", "consumed"} \/ member[a] # "live"
RoundsEnd == \A r \in Round : Collecting(r) ~> (~Collecting(r) \/ Waiting(r))
=============================================================================
