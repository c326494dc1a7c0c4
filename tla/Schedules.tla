------------------------------ MODULE Schedules ------------------------------
(***************************************************************************)
(* Scheduled messages of the switchboard daemon: the `schedules` table of  *)
(* store.ts, the one alarm of daemon.ts that wakes the daemon for the next *)
(* due row, and the synchronous stretch runDueSchedules(), which claims    *)
(* the due rows in one transaction and commits each of them, as a message  *)
(* with its delivery, in a transaction of its own.  A crash may fall       *)
(* between any two transactions; no other handler may.                     *)
(*                                                                         *)
(* The row of the delivery is followed only as far as boot: the            *)
(* constructor sends what is due before up.ts calls reconcile().           *)
(***************************************************************************)
EXTENDS Integers, FiniteSets

CONSTANTS
  Sched,        \* schedule ids, numbered as `ORDER BY due_ts, id` breaks ties
  Due,          \* Sched -> Nat: due_ts, in ticks
  Horizon,      \* the longest timeout that is ever armed (24 h), in ticks
  Midnight,     \* bound: where the wall clock stops counting
  MaxDown,      \* bound: crashes and stops
  MaxJump,      \* bound: times the wall clock is set
  MaxThrow      \* bound: stretches that end in an exception of the store

ASSUME SchedulesAssumption ==
  /\ Sched \subseteq Nat /\ IsFiniteSet(Sched)
  /\ Due \in [Sched -> Nat]
  /\ Horizon \in Nat \ {0}
  /\ Midnight \in Nat
  /\ \A s \in Sched : Due[s] <= Midnight
  /\ MaxDown \in Nat /\ MaxJump \in Nat /\ MaxThrow \in Nat

VARIABLES
  sstate,       \* schedules.state; "none" before the row exists
  posted,       \* messages committed for a schedule (delivered_message_id)
  gone,         \* schedules whose frozen target is no longer active
  row,          \* the delivery of the message, NULL before it exists
  live,         \* rows a turn of this daemon process is working on
  wall,         \* the wall clock
  alarm,        \* ticks left of scheduleTimer, or Unset
  work,         \* claimed rows runDueSchedules has still to commit
  running,      \* is runDueSchedules on the stack?
  power,        \* the daemon: booting (constructed, not reconciled), up, down
  downs, jumps, throws

durable == <<sstate, posted, gone, row>>
thread  == <<alarm, work, running>>
counts  == <<downs, jumps, throws>>
schedulesVars == <<durable, live, wall, thread, power, counts>>

Unset     == -1
Open      == {"pending", "sending"}
Finished  == {"sent", "failed", "cancelled"}
Rows      == {"none", "queued", "delivering", "held", "consumed"}

DurableOK ==
  /\ sstate \in [Sched -> {"none"} \cup Open \cup Finished]
  /\ posted \in [Sched -> Nat]
  /\ gone \subseteq Sched
  /\ row \in [Sched -> Rows]
MemoryOK ==
  /\ live \subseteq Sched /\ work \subseteq Sched
  /\ wall \in 0 .. Midnight
  /\ alarm \in 0 .. Horizon \cup {Unset}
  /\ power \in {"boot", "up", "down"}
  /\ downs \in Nat /\ jumps \in Nat /\ throws \in Nat
SchedulesTypeOK == DurableOK /\ MemoryOK /\ running \in BOOLEAN

SchedulesInit ==
  /\ sstate = [s \in Sched |-> "none"]
  /\ posted = [s \in Sched |-> 0]
  /\ gone = {}
  /\ row = [s \in Sched |-> "none"]
  /\ live = {} /\ wall = 0
  /\ alarm = Unset /\ work = {} /\ running = FALSE
  /\ power = "up"
  /\ downs = 0 /\ jumps = 0 /\ throws = 0

Idle == power = "up" /\ ~running

Lesser(a, b) == IF a <= b THEN a ELSE b
Greater(a, b) == IF a >= b THEN a ELSE b
InState(st, kind) == {s \in Sched : st[s] \in kind}

-----------------------------------------------------------------------------
(* The alarm.                                                              *)

\* nextScheduleDue(): rows still to be sent, claimed ones included.
AlarmedPending(st) == InState(st, {"pending"})
Alarmed(st) == InState(st, Open)
NextDue(st) == Due[CHOOSE s \in Alarmed(st) : \A t \in Alarmed(st) : Due[s] <= Due[t]]

\* armScheduleTimer(): the alarm after the schedules have become st.
ArmedFor(st) ==
  IF Alarmed(st) = {} THEN Unset
                      ELSE Lesser(Greater(NextDue(st) - wall, 0), Horizon)

\* The timeout counts elapsed time, whatever the wall clock shows.
Tick ==
  /\ wall' = Lesser(wall + 1, Midnight)
  /\ alarm' = IF alarm > 0 THEN alarm - 1 ELSE alarm
  /\ wall' # wall \/ alarm' # alarm
  /\ UNCHANGED <<durable, live, work, running, power, counts>>

\* The host's clock is set, or the host sleeps and the timeout does not count.
SetClock ==
  /\ jumps < MaxJump
  /\ \E t \in 0 .. Midnight : wall' = t
  /\ jumps' = jumps + 1
  /\ UNCHANGED <<durable, live, thread, power, downs, throws>>

-----------------------------------------------------------------------------
(* Requests of members.                                                    *)

\* scheduleMessage(): createSchedule commits, then the alarm is set.
scheduleMessage(s) ==
  /\ Idle
  /\ sstate[s] = "none" /\ s \notin gone
  /\ sstate' = [sstate EXCEPT ![s] = "pending"]
  /\ alarm' = ArmedFor(sstate')
  /\ UNCHANGED <<posted, gone, row, live, wall, work, running, power, counts>>

\* cancelSchedule() succeeds on a pending row only; any other is returned as
\* it is.  The alarm is set again either way.
Cancellable(s) == sstate[s] = "pending"
cancelSchedule(s) ==
  /\ Idle /\ sstate[s] # "none"
  /\ sstate' = IF Cancellable(s) THEN [sstate EXCEPT ![s] = "cancelled"] ELSE sstate
  /\ alarm' = ArmedFor(sstate')
  /\ UNCHANGED <<posted, gone, row, live, wall, work, running, power, counts>>

\* The frozen target is removed, or its worktree is closed.
TargetLeaves(s) ==
  /\ Idle /\ s \notin gone
  /\ gone' = gone \cup {s}
  /\ UNCHANGED <<sstate, posted, row, live, wall, thread, power, counts>>

-----------------------------------------------------------------------------
(* runDueSchedules().                                                      *)

\* The claim and the rows claimed or found claimed by an earlier process.
ClaimedNow(st) == {s \in Sched : st[s] = "pending" /\ Due[s] <= wall}
Claim(st) == [s \in Sched |-> IF s \in ClaimedNow(st) THEN "sending" ELSE st[s]]
Worklist(st) == InState(Claim(st), {"sending"})
Claiming ==
  /\ sstate' = Claim(sstate)
  /\ work' = Worklist(sstate)
  /\ running' = TRUE

AlarmRings ==
  /\ Idle /\ alarm = 0
  /\ Claiming
  /\ alarm' = Unset
  /\ UNCHANGED <<posted, gone, row, live, wall, power, counts>>

First(ss) == CHOOSE s \in ss : \A t \in ss \ {s} :
               Due[s] < Due[t] \/ (Due[s] = Due[t] /\ s < t)

\* commitScheduledMessage(): one transaction with the message, its delivery
\* and the terminal row, or the terminal row alone when the target has left.
\* The dispatch that follows may start a turn at once; a busy or paused
\* member, a brake, a human or an error of an emit leaves the row queued.
Settled(s) == sstate[s] # "sending"
SentInTwo(s) ==
  /\ s \notin gone
  /\ posted' = [posted EXCEPT ![s] = posted[s] + 1]
  /\ row' = [row EXCEPT ![s] = "queued"]
  /\ UNCHANGED <<sstate, live>>

Sent(s) ==
  /\ s \notin gone
  /\ sstate' = [sstate EXCEPT ![s] = "sent"]
  /\ posted' = [posted EXCEPT ![s] = posted[s] + 1]
  /\ \/ row' = [row EXCEPT ![s] = "delivering"] /\ live' = live \cup {s}
     \/ row' = [row EXCEPT ![s] = "queued"] /\ UNCHANGED live

Failed(s) ==
  /\ sstate' = [sstate EXCEPT ![s] = "failed"]
  /\ UNCHANGED <<posted, row, live>>

\* The transaction commits, or throws and failSchedule settles the row.
CommitNext ==
  /\ running /\ work # {}
  /\ LET s == First(work)
     IN  /\ IF Settled(s) THEN UNCHANGED <<sstate, posted, row, live>>
                          ELSE Sent(s) \/ Failed(s)
         /\ work' = work \ {s}
  /\ UNCHANGED <<gone, wall, alarm, running, power, counts>>

\* The store refuses even failSchedule: the stretch ends in an exception, and
\* the claimed rows that are left stay `sending`.  The `finally` still arms.
StretchThrows ==
  /\ running /\ work # {} /\ throws < MaxThrow
  /\ work' = {} /\ running' = FALSE
  /\ alarm' = ArmedFor(sstate)
  /\ throws' = throws + 1
  /\ UNCHANGED <<durable, live, wall, power, downs, jumps>>

StretchEnds ==
  /\ running /\ work = {}
  /\ running' = FALSE
  /\ alarm' = ArmedFor(sstate)
  /\ UNCHANGED <<durable, live, wall, work, power, counts>>

-----------------------------------------------------------------------------
(* Turns of the scheduled rows, stops and boot.                            *)

TurnStarts(s) ==
  /\ Idle /\ row[s] = "queued"
  /\ row' = [row EXCEPT ![s] = "delivering"]
  /\ live' = live \cup {s}
  /\ UNCHANGED <<sstate, posted, gone, wall, thread, power, counts>>

TurnEnds(s) ==
  /\ Idle /\ s \in live
  /\ row' = [row EXCEPT ![s] = "consumed"]
  /\ live' = live \ {s}
  /\ UNCHANGED <<sstate, posted, gone, wall, thread, power, counts>>

\* The process stops, between any two transactions; memory is lost.
GoDown ==
  /\ power # "down" /\ downs < MaxDown
  /\ power' = "down" /\ downs' = downs + 1
  /\ alarm' = Unset /\ work' = {} /\ running' = FALSE /\ live' = {}
  /\ UNCHANGED <<durable, wall, jumps, throws>>

\* The constructor: armScheduleTimer(), then runDueSchedules() at once.
Construct ==
  /\ power = "down"
  /\ power' = "boot"
  /\ Claiming
  /\ alarm' = ArmedFor(sstate)
  /\ UNCHANGED <<posted, gone, row, live, wall, counts>>

\* up.ts: reconcile(), with the schedules of the constructor behind it.  A row
\* found `delivering` is retried when it provably never started, and held
\* otherwise; one whose turn the constructor has started cannot be retried.
RowAfterBoot(s, retried) ==
  CASE row[s] # "delivering" -> row[s]
    [] row[s] = "delivering" /\ s \in retried -> "delivering"
    [] OTHER -> "held"
Reconcile ==
  /\ power = "boot" /\ ~running
  /\ power' = "up"
  /\ \E retried \in SUBSET {s \in Sched : row[s] = "delivering" /\ s \notin live} :
       /\ row' = [s \in Sched |-> RowAfterBoot(s, retried)]
       /\ live' = live \cup retried
  /\ UNCHANGED <<sstate, posted, gone, wall, thread, counts>>

-----------------------------------------------------------------------------
Stretch == CommitNext \/ StretchThrows \/ StretchEnds
SchedulesNext ==
  \/ Tick \/ SetClock \/ AlarmRings \/ Stretch
  \/ GoDown \/ Construct \/ Reconcile
  \/ \E s \in Sched :
       \/ scheduleMessage(s) \/ cancelSchedule(s) \/ TargetLeaves(s)
       \/ TurnStarts(s) \/ TurnEnds(s)

SchedulesSpec == SchedulesInit /\ [][SchedulesNext]_schedulesVars

\* Time passes, due timers are called, a stretch runs to its end, and the
\* service manager starts a daemon that is down.
SchedulesFairness ==
  /\ WF_schedulesVars(Tick) /\ WF_schedulesVars(AlarmRings)
  /\ WF_schedulesVars(Stretch)
  /\ WF_schedulesVars(Construct) /\ WF_schedulesVars(Reconcile)
SchedulesFairSpec == SchedulesSpec /\ SchedulesFairness

-----------------------------------------------------------------------------
\* A schedule is sent exactly once: its message exists if and only if its row
\* says `sent`, whatever process committed it and wherever one crashed.
SentExactlyOnce ==
  \A s \in Sched : posted[s] = (IF sstate[s] = "sent" THEN 1 ELSE 0)

\* Every schedule is settled in the end: no crash between the claim and the
\* commit, no exception and no clock that was set leaves one behind.
DueIsSettled ==
  \A s \in Sched : (sstate[s] \in Open) ~> (sstate[s] \in Finished)

\* What packages/switchboard/src/daemon.ts:5804 says of boot: a run found
\* running was stranded by a crash.  Boot takes no row from a turn that is
\* being worked on.
BootSparesLiveTurns == \A s \in live : row[s] # "held"
=============================================================================
