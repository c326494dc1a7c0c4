--------------------------- MODULE SchedulesProofs ---------------------------
(***************************************************************************)
(* Theorems about Schedules, for any number of scheduled messages, any due *)
(* times and horizon, and any number of crashes, clock changes and         *)
(* exceptions of the store.                                                *)
(***************************************************************************)
EXTENDS Schedules, WellFoundedInduction, TLAPS

\* While no stretch runs, a daemon that is up or booting has its alarm set as
\* long as a schedule is open: no handler forgets armScheduleTimer().
AlarmIsArmed ==
  power # "down" /\ ~running /\ Alarmed(sstate) # {} => alarm # Unset

\* What runDueSchedules() has still to commit is its stack's alone.
WorkIsClaimed == ~running => work = {}

\* The inductive invariant.
SchedulesIInv ==
  SchedulesTypeOK /\ SentExactlyOnce /\ AlarmIsArmed /\ WorkIsClaimed

-----------------------------------------------------------------------------
\* A nonempty set of naturals has a least member.
LEMMA LeastNatural ==
  ASSUME NEW T \in SUBSET Nat, T # {}
  PROVE  \E x \in T : \A y \in T : x <= y
<1> DEFINE Below == {p \in Nat \X Nat : p[1] < p[2]}
<1>1. IsWellFoundedOn(Below, Nat)
  BY NatLessThanWellFounded DEF OpToRel
<1>2. PICK x \in T : \A y \in T : <<y, x>> \notin Below
  <2> HIDE DEF Below
  <2> QED
    BY <1>1, WFMin
<1>3. ASSUME NEW y \in T PROVE ~ (y < x)
  <2>1. <<y, x>> \in Nat \X Nat /\ <<y, x>>[1] = y /\ <<y, x>>[2] = x
    OBVIOUS
  <2> QED
    BY <1>2, <2>1, Zenon
<1> QED
  BY <1>3

\* Some schedule of a nonempty set is due no later than any other of it.
LEMMA EarliestDue ==
  ASSUME NEW T \in SUBSET Sched, T # {}
  PROVE  \E s \in T : \A t \in T : Due[s] <= Due[t]
<1> DEFINE D == {Due[s] : s \in T}
<1>1. D \in SUBSET Nat /\ D # {}
  BY SchedulesAssumption
<1>2. PICK d \in D : \A e \in D : d <= e
  <2> HIDE DEF D
  <2> QED
    BY <1>1, LeastNatural
<1>3. PICK s \in T : Due[s] = d
  BY <1>2
<1> QED
  BY <1>2, <1>3

\* The schedule `ORDER BY due_ts, id` puts first is one of those it orders.
LEMMA FirstIsAMember ==
  ASSUME NEW T \in SUBSET Sched, T # {}
  PROVE  First(T) \in T
<1>1. PICK s \in T : \A t \in T : Due[s] <= Due[t]
  BY EarliestDue
<1> DEFINE Ties == {t \in T : Due[t] = Due[s]}
<1>2. Ties \in SUBSET Nat /\ Ties # {}
  BY SchedulesAssumption
<1>3. PICK f \in Ties : \A t \in Ties : f <= t
  <2> HIDE DEF Ties
  <2> QED
    BY <1>2, LeastNatural
<1>4. \A t \in T \ {f} : Due[f] < Due[t] \/ (Due[f] = Due[t] /\ f < t)
  BY <1>1, <1>3, SchedulesAssumption
<1> QED
  BY <1>3, <1>4 DEF First

\* armScheduleTimer() sets a timeout within the horizon exactly when a
\* schedule is open.
LEMMA ArmedForIsATimeout ==
  ASSUME SchedulesTypeOK, NEW st
  PROVE  /\ Alarmed(st) = {} => ArmedFor(st) = Unset
         /\ Alarmed(st) # {} => ArmedFor(st) \in 0 .. Horizon
<1>1. CASE Alarmed(st) = {}
  BY <1>1 DEF ArmedFor
<1>2. CASE Alarmed(st) # {}
  <2>1. Alarmed(st) \in SUBSET Sched
    BY DEF Alarmed, InState
  <2>2. NextDue(st) \in Nat
    BY <1>2, <2>1, EarliestDue, SchedulesAssumption DEF NextDue
  <2>3. Greater(NextDue(st) - wall, 0) \in Nat
    BY <2>2, SchedulesAssumption DEF Greater, SchedulesTypeOK, DurableOK, MemoryOK
  <2> QED
    BY <1>2, <2>3, SchedulesAssumption DEF ArmedFor, Lesser
<1> QED
  BY <1>1, <1>2

-----------------------------------------------------------------------------
USE SchedulesAssumption
    DEF SchedulesTypeOK, DurableOK, MemoryOK, SentExactlyOnce, AlarmIsArmed, WorkIsClaimed, SchedulesIInv,
        durable, thread, counts, schedulesVars, Unset, Open, Finished, Rows, Idle

\* Every initial state satisfies the invariant.
LEMMA SchedulesInitIInv == SchedulesInit => SchedulesIInv
<1>1. SchedulesInit => running \in BOOLEAN
  BY Zenon DEF SchedulesInit
<1> QED
  BY <1>1 DEF SchedulesInit, Alarmed, InState

\* A stretch is on the stack or it is not.
LEMMA RunningIsBoolean ==
  ASSUME SchedulesIInv, [SchedulesNext]_schedulesVars
  PROVE  running' \in BOOLEAN
BY Zenon DEF SchedulesNext, Stretch, Tick, SetClock, AlarmRings, Claiming, CommitNext,
             StretchThrows, StretchEnds, GoDown, Construct, Reconcile, scheduleMessage,
             cancelSchedule, TargetLeaves, TurnStarts, TurnEnds

\* A stretch that claims the due rows (AlarmRings, Construct) keeps the durable
\* half of the invariant.
LEMMA ClaimKeeps ==
  ASSUME SchedulesIInv, Claiming, posted' = posted
  PROVE  /\ sstate' \in [Sched -> {"none"} \cup Open \cup Finished]
         /\ work' \subseteq Sched /\ running' = TRUE
         /\ SentExactlyOnce'
BY DEF Claiming, Claim, ClaimedNow, Worklist, InState

\* The transaction of one schedule posts its message exactly when it writes `sent`.
LEMMA CommitKeeps ==
  ASSUME SchedulesIInv, CommitNext
  PROVE  (DurableOK /\ MemoryOK /\ SentExactlyOnce /\ AlarmIsArmed /\ WorkIsClaimed)'
<1> DEFINE s == First(work)
<1>1. s \in Sched /\ s \in work
  BY FirstIsAMember DEF CommitNext
<1> HIDE DEF s
<1>2. \/ Settled(s) /\ UNCHANGED <<sstate, posted, row, live>>
      \/ ~Settled(s) /\ (Sent(s) \/ Failed(s))
  BY DEF CommitNext, s
<1>3. /\ running /\ work' = work \ {s}
      /\ UNCHANGED <<gone, wall, alarm, running, power, counts>>
  BY DEF CommitNext, s
<1>4. DurableOK'
  BY <1>1, <1>2, <1>3 DEF Sent, Failed
<1>5. MemoryOK'
  BY <1>1, <1>2, <1>3 DEF Sent, Failed
<1>6. SentExactlyOnce'
  BY <1>1, <1>2 DEF Settled, Sent, Failed
<1> QED
  BY <1>3, <1>4, <1>5, <1>6

\* Every step keeps the invariant.
LEMMA SchedulesNextIInv == SchedulesIInv /\ [SchedulesNext]_schedulesVars => SchedulesIInv'
<1> DEFINE Kept == DurableOK /\ MemoryOK /\ SentExactlyOnce /\ AlarmIsArmed /\ WorkIsClaimed
<1> SUFFICES ASSUME SchedulesIInv, [SchedulesNext]_schedulesVars
             PROVE  Kept'
  BY RunningIsBoolean, Zenon
<1>1. CASE Tick
  BY <1>1 DEF Tick, Lesser, Alarmed, InState
<1>2. CASE SetClock
  BY <1>2 DEF SetClock, Alarmed, InState
<1>3. CASE AlarmRings
  BY <1>3, ClaimKeeps DEF AlarmRings
<1>4. CASE CommitNext
  BY <1>4, CommitKeeps
<1>5. CASE StretchThrows \/ StretchEnds
  <2>1. Alarmed(sstate)' = Alarmed(sstate)
    BY <1>5 DEF StretchThrows, StretchEnds, Alarmed, InState
  <2>2. /\ Alarmed(sstate) = {} => ArmedFor(sstate) = Unset
        /\ Alarmed(sstate) # {} => ArmedFor(sstate) \in 0 .. Horizon
    BY ArmedForIsATimeout
  <2>3. (DurableOK /\ SentExactlyOnce)'
    BY <1>5 DEF StretchThrows, StretchEnds
  <2>4. MemoryOK'
    <3>1. alarm' \in 0 .. Horizon \cup {Unset}
      BY <1>5, <2>2 DEF StretchThrows, StretchEnds
    <3>2. CASE StretchThrows
      BY <3>1, <3>2 DEF StretchThrows
    <3>3. CASE StretchEnds
      BY <3>1, <3>3 DEF StretchEnds
    <3> QED
      BY <1>5, <3>2, <3>3
  <2>5. AlarmIsArmed'
    BY <1>5, <2>1, <2>2 DEF StretchThrows, StretchEnds
  <2>6. WorkIsClaimed'
    BY <1>5 DEF StretchThrows, StretchEnds
  <2> QED
    BY <2>3, <2>4, <2>5, <2>6
<1>6. CASE GoDown
  BY <1>6 DEF GoDown
<1>7. CASE Construct
  BY <1>7, ClaimKeeps, ArmedForIsATimeout DEF Construct
<1>8. CASE Reconcile
  <2>1. PICK retried \in SUBSET {s \in Sched : row[s] = "delivering" /\ s \notin live} :
          /\ row' = [s \in Sched |-> RowAfterBoot(s, retried)]
          /\ live' = live \cup retried
    BY <1>8 DEF Reconcile
  <2>2. row' \in [Sched -> Rows]
    BY <2>1 DEF RowAfterBoot
  <2> QED
    BY <1>8, <2>1, <2>2 DEF Reconcile, Alarmed, InState
<1>9. ASSUME NEW s \in Sched, scheduleMessage(s) \/ cancelSchedule(s)
      PROVE  Kept'
  <2>1. sstate' \in [Sched -> {"none"} \cup Open \cup Finished]
    BY <1>9 DEF scheduleMessage, cancelSchedule
  <2>2. SentExactlyOnce'
    BY <1>9 DEF scheduleMessage, cancelSchedule, Cancellable
  <2>3. /\ Alarmed(sstate') = {} => ArmedFor(sstate') = Unset
        /\ Alarmed(sstate') # {} => ArmedFor(sstate') \in 0 .. Horizon
    BY ArmedForIsATimeout
  <2>4. alarm' = ArmedFor(sstate')
    BY <1>9 DEF scheduleMessage, cancelSchedule
  <2>5. DurableOK'
    BY <1>9, <2>1 DEF scheduleMessage, cancelSchedule
  <2>6. MemoryOK'
    BY <1>9, <2>3, <2>4 DEF scheduleMessage, cancelSchedule
  <2>7. AlarmIsArmed'
    BY <1>9, <2>3, <2>4 DEF scheduleMessage, cancelSchedule
  <2>8. WorkIsClaimed'
    BY <1>9 DEF scheduleMessage, cancelSchedule
  <2> QED
    BY <2>2, <2>5, <2>6, <2>7, <2>8
<1>10. ASSUME NEW s \in Sched, TargetLeaves(s) \/ TurnStarts(s) \/ TurnEnds(s)
       PROVE  Kept'
  BY <1>10 DEF TargetLeaves, TurnStarts, TurnEnds, Alarmed, InState
<1>11. CASE UNCHANGED schedulesVars
  BY <1>11 DEF Alarmed, InState
<1> QED
  BY <1>1, <1>2, <1>3, <1>4, <1>5, <1>6, <1>7, <1>8, <1>9, <1>10, <1>11
     DEF SchedulesNext, Stretch

-----------------------------------------------------------------------------
LEMMA SchedulesInvariant == SchedulesSpec => []SchedulesIInv
<1> HIDE DEF SchedulesIInv, schedulesVars
<1> QED
  BY SchedulesInitIInv, SchedulesNextIInv, PTL DEF SchedulesSpec

\* Every reachable state is well typed: in particular the alarm is never armed
\* beyond its horizon, and no row is claimed that does not exist.
THEOREM SchedulesTypeCorrect == SchedulesSpec => []SchedulesTypeOK
<1>1. SchedulesIInv => SchedulesTypeOK
  BY DEF SchedulesIInv
<1> QED
  BY <1>1, SchedulesInvariant, PTL

\* A scheduled message is posted exactly once, at the very transaction that
\* writes its row `sent`, wherever a crash or an exception falls
\* (runDueSchedules, commitScheduledMessage).
THEOREM SentOnceCorrect == SchedulesSpec => []SentExactlyOnce
<1>1. SchedulesIInv => SentExactlyOnce
  BY DEF SchedulesIInv
<1> QED
  BY <1>1, SchedulesInvariant, PTL

\* The daemon never sits idle on an open schedule without an alarm: the safety
\* half of DueIsSettled (armScheduleTimer after every handler that needs it).
THEOREM AlarmCorrect == SchedulesSpec => []AlarmIsArmed
<1>1. SchedulesIInv => AlarmIsArmed
  BY DEF SchedulesIInv
<1> QED
  BY <1>1, SchedulesInvariant, PTL
=============================================================================
