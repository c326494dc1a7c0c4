------------------------ MODULE TurnLifecycleProofs ------------------------
(***************************************************************************)
(* Theorems about TurnLifecycle, for any number of agents, rows and runs.  *)
(*                                                                         *)
(* The invariant IInv is inductive.  Beyond the properties it says what    *)
(* each needs of the rest of the state: a bound row names a run of its own *)
(* recipient (so a retry of that run is a turn of the member whose         *)
(* eligibility was checked), a member whose pump is about to spin is in    *)
(* flight with no turn, a row that waits has not spent its attempts, a row *)
(* in custody is in the batch of a turn or before boot recovery, and the   *)
(* stops of operators and of shutdowns never meet on a member.             *)
(*                                                                         *)
(* RunsOK is inductive on top of it when sessions can be built, no brake   *)
(* is on and the daemon does not die inside holdAmbiguousTurn: otherwise a *)
(* run may keep saying `running` with its rows on hold.                    *)
(*                                                                         *)
(* HistoryOK is inductive on top of IInv when boot recovery fans nothing   *)
(* out: it follows each row that no one re-queued from the queue to its    *)
(* first turn, and keeps the rows of a run together from there on.  Two    *)
(* more stand on it: EvidenceOK, that a row with durable evidence of its   *)
(* turn shows it to every recovery, and, in the configurations Confined    *)
(* names, OnceOK, that a row handed over has either that or no attempt     *)
(* left.                                                                   *)
(***************************************************************************)
EXTENDS TurnLifecycle, TLAPS

\* A bound row names a run that was created, for its own recipient.
BoundOK == \A d \in Delivery :
  bound[d] # NoRun => status[bound[d]] # "none" /\ author[bound[d]] = To[d]

\* A member between a refused beginTurn and its next pump has no turn.
SpinOK == \A m \in spin : m \in inflight /\ \A r \in Run : Active(r) => author[r] # m

TurnsOK == BoundOK /\ OneTurnPerMember /\ SpinOK

\* A row that still waits has an attempt left.
AttemptsOK == \A d \in Delivery \ forced :
  /\ attempts[d] <= Ceiling + 1
  /\ dstate[d] \in {"absent", "queued"} => attempts[d] <= Ceiling

\* A stop an operator asked for and one of a shutdown never meet on a member,
\* and neither outlives the phase in which it means something.
StopsOK ==
  /\ stops \cap lifes = {}
  /\ lifes # {} => phase = "closing"
  /\ stops # {} => phase \in {"ready", "closing"}

\* Only a session that failed to build throws.
ThrowOK == \A r \in Run : pc[r] = "threw" => author[r] \in BrokenStart

\* A row in custody is bound to a running run, and that run has a turn, or boot
\* recovery will come to it, or its turn never got a session.
CustodyOK ==
  \A d \in Delivery : dstate[d] = "delivering" =>
    /\ bound[d] # NoRun /\ status[bound[d]] = "running"
    /\ \/ Active(bound[d])
       \/ phase = "boot" /\ bound[d] \in todo
       \/ phase \in {"crashed", "closed"}
       \/ To[d] \in BrokenStart

\* The batch a turn holds in memory has every row bound to its run that is still
\* in custody, and no row of another run.
BatchOK ==
  \A r \in Run : Active(r) =>
    /\ status[r] # "none"
    /\ \A d \in batch[r] : To[d] = author[r] /\ bound[d] \in {r, NoRun}
    /\ \A d \in BoundTo(r) : dstate[d] = "delivering" => d \in batch[r]

\* What boot recovery has before it, and that no turn outlives the daemon.
BootOK ==
  /\ todo # {} => phase = "boot"
  /\ todo \subseteq seen
  /\ \A r \in todo : ~Active(r) /\ status[r] = "running"
  /\ phase \in {"crashed", "closed"} => pump = {} /\ \A r \in Run : ~Active(r)
  /\ resend # {} => phase = "ready"

Custody == ThrowOK /\ CustodyOK /\ BatchOK /\ BootOK

IInv == TypeOK /\ TurnsOK /\ AttemptsOK /\ StopsOK /\ Custody

\* A run that says `running` has a turn, or boot recovery has still to come to it.
AccountedFor ==
  \A r \in Run : status[r] = "running" =>
    \/ Active(r)
    \/ phase = "boot" /\ r \in todo
    \/ phase \in {"boot", "sweep"} /\ r \notin seen
    \/ phase \in {"crashed", "closed"}

\* Every row bound to the run is in custody or consumed.
Whole(r) == \A d \in BoundTo(r) : dstate[d] \in {"delivering", "consumed"}

\* holdAmbiguousTurn is between its two transactions.
HalfHeld(r) == phase = "boot" /\ r \in todo /\ Group(r) = {}

\* Rows of a run that is running, or has a turn, are never on the queue or on hold
\* beside it, except half way through holdAmbiguousTurn.
RowsOK ==
  \A r \in Run :
    /\ status[r] = "running" => (Whole(r) /\ BoundTo(r) # {}) \/ HalfHeld(r)
    /\ Active(r) => Whole(r)

\* A row that waits is unbound, or bound to a run that can never run again.
WaitingOK ==
  \A d \in Delivery :
    /\ dstate[d] = "absent" => bound[d] = NoRun
    /\ dstate[d] = "queued" /\ bound[d] # NoRun =>
         status[bound[d]] \in {"failed", "completed"}

RunsOK == AccountedFor /\ RowsOK /\ WaitingOK

\* The daemon does not die between the two transactions of holdAmbiguousTurn.
HoldIsWhole == (\E r \in Run : HalfHeld(r)) => phase' # "crashed"

-----------------------------------------------------------------------------
(***************************************************************************)
(* What the transactions of store.ts do to the types                       *)
(***************************************************************************)

\* Every row has a recipient.
LEMMA Recipients == To \in [Delivery -> Agent]
BY ConstantsAssumption

\* The types after beginTurn.
LEMMA BeginType ==
  ASSUME TypeOK, NEW m \in Agent, NEW X \in SUBSET Delivery, NEW H, NEW r \in Run,
         NEW then \in After, beginTurn(m, X, H, r, then)
  PROVE  /\ dstate' \in [Delivery -> DState]
         /\ bound' \in [Delivery -> Run \cup {NoRun}]
         /\ attempts' \in [Delivery -> Nat]
         /\ evidence' \in [Delivery -> Run \cup {NoRun}]
         /\ status' \in [Run -> Status]
         /\ author' \in [Run -> Agent \cup {Nobody}]
         /\ mstate' \in [Agent -> MState]
         /\ released' \subseteq Delivery
         /\ inflight' \subseteq Agent
         /\ pc' \in [Run -> Pc]
         /\ batch' \in [Run -> SUBSET Delivery]
         /\ after' \in [Run -> After]
         /\ fenced' \subseteq Run
         /\ UNCHANGED <<hopped, purged, settled, journal, outcome>>
<1> USE DEF TypeOK, beginTurn, DState, Status, Outcome, MState, Pc
<1>1. /\ dstate' \in [Delivery -> DState]
      /\ bound' \in [Delivery -> Run \cup {NoRun}]
      /\ evidence' \in [Delivery -> Run \cup {NoRun}]
  OBVIOUS
<1>2. attempts' \in [Delivery -> Nat]
  OBVIOUS
<1>3. /\ status' \in [Run -> Status]
      /\ author' \in [Run -> Agent \cup {Nobody}]
      /\ mstate' \in [Agent -> MState]
  OBVIOUS
<1>4. /\ pc' \in [Run -> Pc]
      /\ batch' \in [Run -> SUBSET Delivery]
      /\ after' \in [Run -> After]
  OBVIOUS
<1>5. released' \subseteq Delivery /\ inflight' \subseteq Agent /\ fenced' \subseteq Run
  OBVIOUS
<1>6. UNCHANGED <<hopped, purged, settled, journal, outcome>>
  OBVIOUS
<1> QED BY <1>1, <1>2, <1>3, <1>4, <1>5, <1>6

\* The types after settleLifecycleInterruption.
LEMMA SettleType ==
  ASSUME TypeOK, NEW r \in Run, NEW X \in SUBSET Delivery, NEW preserve,
         settleLifecycleInterruption(r, X, preserve)
  PROVE  /\ dstate' \in [Delivery -> DState]
         /\ bound' \in [Delivery -> Run \cup {NoRun}]
         /\ evidence' \in [Delivery -> Run \cup {NoRun}]
         /\ settled' \subseteq Delivery
         /\ status' \in [Run -> Status]
         /\ mstate' \in [Agent -> MState]
         /\ UNCHANGED <<attempts, hopped, purged, author, journal, steer>>
<1>1. LifecycleRows(X) \subseteq Delivery /\ LifecycleRetry(X) \subseteq Delivery
  BY DEF LifecycleRows, LifecycleRetry
<1>2. /\ dstate' \in [Delivery -> DState]
      /\ bound' \in [Delivery -> Run \cup {NoRun}]
      /\ evidence' \in [Delivery -> Run \cup {NoRun}]
      /\ settled' \subseteq Delivery
  BY <1>1 DEF settleLifecycleInterruption, TypeOK, DState
<1>3. status' \in [Run -> Status] /\ mstate' \in [Agent -> MState]
  BY DEF settleLifecycleInterruption, TypeOK, Status, Outcome, MState, RestState
<1>4. UNCHANGED <<attempts, hopped, purged, author, journal, steer>>
  BY DEF settleLifecycleInterruption
<1> QED BY <1>2, <1>3, <1>4

\* The types after repairFailedFinalization.
LEMMA RepairType ==
  ASSUME TypeOK, NEW r \in Run, NEW X \in SUBSET Delivery, repairFailedFinalization(r, X)
  PROVE  /\ dstate' \in [Delivery -> DState]
         /\ evidence' \in [Delivery -> Run \cup {NoRun}]
         /\ status' \in [Run -> Status]
         /\ mstate' \in [Agent -> MState]
         /\ UNCHANGED <<bound, attempts, hopped, purged, settled, author, journal, steer,
                        requeued>>
<1>1. dstate' \in [Delivery -> DState] /\ evidence' \in [Delivery -> Run \cup {NoRun}]
  BY DEF repairFailedFinalization, TypeOK, DState
<1>2. status' \in [Run -> Status] /\ mstate' \in [Agent -> MState]
  BY DEF repairFailedFinalization, TypeOK, Status, Outcome, MState, RestState
<1>3. UNCHANGED <<bound, attempts, hopped, purged, settled, author, journal, steer,
                  requeued>>
  BY DEF repairFailedFinalization
<1> QED BY <1>1, <1>2, <1>3

\* The types after completeTurn.
LEMMA CompleteType ==
  ASSUME TypeOK, NEW r \in Run, NEW X \in SUBSET Delivery, NEW o \in Outcome,
         NEW f \in FanOut, completeTurn(r, X, o, f[1], f[2])
  PROVE  /\ dstate' \in [Delivery -> DState]
         /\ status' \in [Run -> Status]
         /\ settled' \subseteq Delivery /\ hopped' \subseteq Delivery
         /\ mstate' \in [Agent -> MState]
         /\ steer' \in [Delivery -> Steer]
         /\ QueuedFor(f[1], f[2]) \subseteq Agent
         /\ UNCHANGED <<bound, attempts, evidence, purged, author, journal, requeued>>
<1>1. f[1] \subseteq Delivery
  BY DEF FanOut, NextRow
<1>2. dstate' \in [Delivery -> DState] /\ steer' \in [Delivery -> Steer]
  BY <1>1 DEF completeTurn, TypeOK, RoutedState, steerRouted, DState, Steer
<1>3. settled' \subseteq Delivery /\ hopped' \subseteq Delivery
  BY <1>1 DEF completeTurn, TypeOK
<1>4. status' \in [Run -> Status] /\ mstate' \in [Agent -> MState]
  BY DEF completeTurn, TypeOK, Status, MState, RestState, QueuedState
<1>5. QueuedFor(f[1], f[2]) \subseteq Agent
  BY <1>1, ConstantsAssumption DEF QueuedFor
<1>6. UNCHANGED <<bound, attempts, evidence, purged, author, journal, requeued>>
  BY DEF completeTurn
<1> QED BY <1>2, <1>3, <1>4, <1>5, <1>6

\* A run with bound rows has an agent for its author.
LEMMA BoundAuthor ==
  ASSUME TypeOK, BoundOK, NEW r \in Run, BoundTo(r) # {}
  PROVE  author[r] \in Agent
<1>1. PICK d \in Delivery : bound[d] = r
  BY DEF BoundTo
<1> QED BY <1>1, ConstantsAssumption DEF BoundOK, TypeOK

-----------------------------------------------------------------------------
(***************************************************************************)
(* Types                                                                   *)
(***************************************************************************)
\* Every step keeps the types.
LEMMA TypeStep ==
  ASSUME TypeOK, OneTurnPerMember, BoundOK, [Next]_vars
  PROVE  TypeOK'
<1>1. ASSUME NEW d \in Delivery, NEW how \in {"skip", "hold", "steer", "queue"},
             Post(d, how)
      PROVE  TypeOK'
  <2>1. QueuedFor({d}, how) \subseteq Agent
    BY Recipients DEF QueuedFor
  <2> QED BY <1>1, <2>1 DEF Post, NextRow, RoutedState, QueuedState, steerRouted, runs,
       turns, hist, count, DState, MState, Steer, TypeOK
<1>2. ASSUME NEW d \in Delivery, SteerSkipped(d) PROVE TypeOK'
  BY <1>2, Recipients DEF SteerSkipped, SteerFallsBack, QueuedState, delv, runs,
       turns, hist, count, MState, Steer, TypeOK
<1>3. ASSUME NEW d \in Delivery, SteerSent(d) PROVE TypeOK'
  BY <1>3 DEF SteerSent, delv, runs, mems, turns, where, hist, count, Steer, TypeOK
<1>4. ASSUME NEW d \in Delivery, SteerRefused(d) PROVE TypeOK'
  BY <1>4, Recipients DEF SteerRefused, SteerFallsBack, QueuedState, delv, runs,
       turns, hist, count, MState, Steer, TypeOK
<1>5. ASSUME NEW d \in Delivery, SteerAcknowledged(d) PROVE TypeOK'
  BY <1>5 DEF SteerAcknowledged, runs, mems, turns, where, hist, count, DState,
       Steer, TypeOK
<1>6. ASSUME NEW d \in Delivery, HarnessAccepts(d) PROVE TypeOK'
  BY <1>6 DEF HarnessAccepts, Fed, delv, runs, mems, turns, where, count, Steer,
       TypeOK
<1>7. ASSUME NEW d \in Delivery, consumeDelivery(d) PROVE TypeOK'
  BY <1>7 DEF consumeDelivery, runs, mems, turns, flags, where, hist, count, DState,
       TypeOK
<1>8. ASSUME NEW d \in Delivery, deleteMessage(d) PROVE TypeOK'
  BY <1>8 DEF deleteMessage, Act, runs, mems, turns, flags, where, hist, DState,
       TypeOK
<1>9. ASSUME NEW d \in Delivery, Redeliver(d) PROVE TypeOK'
  <2>1. To[d] \in Agent
    BY Recipients
  <2> QED BY <1>9, <2>1
      DEF Redeliver, Act, redeliver, RetiredWith, DState, Status, Outcome,
       TypeOK
<1>10. ASSUME NEW d \in Delivery, RetryRunResends(d) PROVE TypeOK'
  BY <1>10, Recipients DEF RetryRunResends, redeliver, RetiredWith, count, DState,
       Status, Outcome, TypeOK
<1>11. ASSUME NEW d \in Delivery, ReleaseRefused(d) PROVE TypeOK'
  BY <1>11 DEF ReleaseRefused, Act, mems, turns, flags, where, hist, DState, Status,
       Outcome, TypeOK
<1>12. ASSUME NEW d \in Delivery, ReleaseResumes(d) PROVE TypeOK'
  <2> DEFINE G == {e \in BoundTo(bound[d]) : dstate[e] = "held" /\ To[e] = To[d]}
  <2>1. G \in SUBSET Delivery
    BY DEF BoundTo
  <2>2. beginTurn(To[d], G, {}, bound[d], "none") /\ forced' = forced \cup G
    BY <1>12 DEF ReleaseResumes
  <2>3. To[d] \in Agent /\ bound[d] \in Run /\ "none" \in After
    BY <1>12, ConstantsAssumption DEF ReleaseResumes, TypeOK, After
  <2>4. ops' \in Nat /\ restarts' \in Nat
    BY <1>12 DEF ReleaseResumes, Act, TypeOK
  <2> HIDE DEF G
  <2> QED BY <1>12, <2>1, <2>2, <2>3, <2>4, BeginType DEF ReleaseResumes, TypeOK, where
<1>13. ASSUME NEW d \in Delivery, ReleaseQueues(d) PROVE TypeOK'
  <2>1. To[d] \in Agent
    BY Recipients
  <2> QED BY <1>13, <2>1 DEF ReleaseQueues, Act, runs, mems, turns, DState, TypeOK
<1>14. ASSUME NEW m \in Agent, AnswerAsk(m) PROVE TypeOK'
  BY <1>14 DEF AnswerAsk, delv, runs, turns, flags, where, hist, count, TypeOK
<1>15. ASSUME NEW m \in Agent, interruptMember(m) PROVE TypeOK'
  BY <1>15 DEF interruptMember, Act, delv, runs, mems, turns, where, hist, TypeOK
<1>16. ASSUME NEW m \in Agent, killMember(m) PROVE TypeOK'
  <2>1. SkippedWith(m) \subseteq Delivery
    BY DEF SkippedWith
  <2> QED BY <1>16, <2>1 DEF killMember, Act, runs, turns, flags, where, hist, DState,
       MState, TypeOK
<1>17. ASSUME NEW m \in Agent, reviveMember(m) PROVE TypeOK'
  <2>1. ActiveOf(m) \subseteq Run
    BY DEF ActiveOf
  <2> QED BY <1>17, <2>1 DEF reviveMember, Act, delv, runs, flags, hist, MState, TypeOK
<1>18. ASSUME NEW m \in Agent, pauseMember(m) PROVE TypeOK'
  BY <1>18 DEF pauseMember, Act, delv, runs, turns, flags, where, hist, MState,
       TypeOK
<1>19. ASSUME NEW m \in Agent, unpauseMember(m) PROVE TypeOK'
  BY <1>19 DEF unpauseMember, Act, delv, runs, turns, flags, hist, MState, TypeOK
<1>20. ASSUME NEW m \in Agent, removeMember(m) PROVE TypeOK'
  <2>1. ActiveOf(m) \subseteq Run
    BY DEF ActiveOf
  <2>2. Waiting(m) \subseteq Delivery
    BY DEF Waiting
  <2> QED BY <1>20, <2>1, <2>2 DEF removeMember, Act, flags, where, hist, DState, Status,
       Outcome, MState, TypeOK
<1>21. ASSUME NEW m \in Agent, PumpNothing(m) PROVE TypeOK'
  BY <1>21 DEF PumpNothing, delv, runs, mems, turns, flags, hist, count, TypeOK
<1>22. ASSUME NEW m \in Agent, PumpStart(m) PROVE TypeOK'
  <2> DEFINE B == selectDeliveryBatchPrefix(Queue(m))
  <2>1. B \subseteq Delivery
    BY DEF selectDeliveryBatchPrefix, Queue
  <2>2. pump' \subseteq Agent
    BY <1>22 DEF PumpStart, TypeOK
  <2>3. CASE \E X \in SUBSET Delivery, H \in SUBSET Delivery : \E r \in FreshRuns :
               beginTurn(m, X, H, r, "drain")
    <3>1. PICK X \in SUBSET Delivery, H \in SUBSET Delivery : \E r \in FreshRuns :
              beginTurn(m, X, H, r, "drain")
      BY <2>3
    <3>2. PICK r \in FreshRuns : beginTurn(m, X, H, r, "drain")
      BY <3>1
    <3>3. r \in Run /\ "drain" \in After
      BY DEF FreshRuns, After
    <3> QED BY <1>22, <2>2, <3>2, <3>3, BeginType DEF PumpStart, TypeOK, hist, count
  <2>4. CASE ~ \E X \in SUBSET Delivery, H \in SUBSET Delivery : \E r \in FreshRuns :
               beginTurn(m, X, H, r, "drain")
    <3>1. /\ dstate' = [d \in Delivery |-> IF d \in B THEN "held" ELSE dstate[d]]
          /\ released' = released \ B
          /\ mstate' = [mstate EXCEPT ![m] = IF @ = "queued" THEN "idle" ELSE @]
          /\ UNCHANGED <<bound, attempts, evidence, hopped, purged, settled, runs, turns>>
      BY <1>22, <2>1, <2>4 DEF PumpStart, Brakable
    <3> QED BY <1>22, <2>1, <2>2, <3>1
        DEF PumpStart, TypeOK, DState, MState, runs, turns, hist, count
  <2> QED BY <2>3, <2>4
<1>23. ASSUME NEW m \in Agent, PumpFenced(m) PROVE TypeOK'
  <2>1. dstate' \in [Delivery -> DState]
    BY <1>23 DEF PumpFenced, TypeOK, DState
  <2>2. /\ mstate' \in [Agent -> MState] /\ inflight' \subseteq Agent
        /\ pump' \subseteq Agent /\ spin' \subseteq Agent
        /\ released' \subseteq Delivery
    BY <1>23 DEF PumpFenced, TypeOK, MState
  <2> QED BY <1>23, <2>1, <2>2 DEF PumpFenced, TypeOK, runs, hist, count
<1>24. ASSUME NEW m \in Agent, PumpAgain(m) PROVE TypeOK'
  BY <1>24 DEF PumpAgain, delv, runs, mems, flags, hist, count, TypeOK
<1>25. ASSUME NEW r \in Run, StartThrows(r) PROVE TypeOK'
  BY <1>25 DEF StartThrows, delv, runs, mems, flags, where, hist, count, Pc, TypeOK,
       Active, OneTurnPerMember
<1>26. ASSUME NEW r \in Run, AdapterSpawns(r) PROVE TypeOK'
  BY <1>26 DEF AdapterSpawns, Fed, delv, runs, mems, flags, where, count, Pc, TypeOK
<1>27. ASSUME NEW r \in Run, setDeliveryAttemptProcess(r) PROVE TypeOK'
  BY <1>27 DEF setDeliveryAttemptProcess, runs, mems, flags, where, count, Pc,
       TypeOK
<1>28. ASSUME NEW r \in Run, JournalStarted(r) PROVE TypeOK'
  <2>1. fed' \in [Delivery -> Nat]
    BY <1>28 DEF JournalStarted, Fed, TypeOK, hist
  <2> QED BY <1>28, <2>1 DEF JournalStarted, delv, mems, flags, where, count, Journal,
       Outcome, Pc, TypeOK
<1>29. ASSUME NEW r \in Run, RaiseAsk(r) PROVE TypeOK'
  BY <1>29 DEF RaiseAsk, delv, runs, turns, flags, where, hist, count, MState,
       TypeOK, Active, OneTurnPerMember
<1>30. ASSUME NEW r \in Run, NEW o \in Outcome, JournalCompleted(r, o) PROVE TypeOK'
  BY <1>30 DEF JournalCompleted, delv, mems, flags, where, hist, count, Journal,
       Outcome, Pc, TypeOK
<1>31. ASSUME NEW r \in Run, NEW o \in Outcome, StreamEnds(r, o) PROVE TypeOK'
  BY <1>31 DEF StreamEnds, delv, runs, mems, flags, where, hist, count, Pc, Outcome,
       TypeOK
<1>32. ASSUME NEW r \in Run, FinalizeLifecycle(r) PROVE TypeOK'
  BY <1>32 DEF FinalizeLifecycle, settleLifecycleInterruption, LifecycleRetry,
       LifecycleRows, RestState, TurnReturns, Drains, Expires, count, DState,
       Status, Outcome, MState, Pc, After, TypeOK, Active, OneTurnPerMember
<1>33. ASSUME NEW r \in Run, FinalizeRepairs(r) PROVE TypeOK'
  <2>1. /\ pc' \in [Run -> Pc] /\ batch' \in [Run -> SUBSET Delivery]
        /\ outcome' \in [Run -> Outcome] /\ after' \in [Run -> After]
        /\ inflight' \subseteq Agent /\ fenced' \subseteq Run /\ stops' \subseteq Agent
    BY <1>33 DEF FinalizeRepairs, TurnReturns, TypeOK, Pc, Outcome, After
  <2>2. batch[r] \in SUBSET Delivery
    BY DEF TypeOK
  <2>3. CASE status[r] = "running"
    <3>1. /\ repairFailedFinalization(r, batch[r])
          /\ pump' = Drains(r) /\ asks' = asks \ Expires(r)
      BY <1>33, <2>3 DEF FinalizeRepairs
    <3>2. pump' \subseteq Agent /\ asks' \subseteq Agent
      BY <3>1 DEF Drains, Expires, TypeOK
    <3> QED BY <1>33, <2>1, <2>2, <3>1, <3>2, RepairType
        DEF FinalizeRepairs, TypeOK, count
  <2>4. CASE status[r] # "running"
    BY <1>33, <2>1, <2>4 DEF FinalizeRepairs, TypeOK, delv, runs, count
  <2> QED BY <2>3, <2>4
<1>34. ASSUME NEW r \in Run, NEW f \in FanOut, FinalizeCommits(r, f[1], f[2])
       PROVE  TypeOK'
  <2>1. batch[r] \in SUBSET Delivery /\ Classified(r) \in Outcome
    BY DEF TypeOK, Classified, Outcome
  <2>2. /\ pc' \in [Run -> Pc] /\ batch' \in [Run -> SUBSET Delivery]
        /\ outcome' \in [Run -> Outcome] /\ after' \in [Run -> After]
        /\ inflight' \subseteq Agent /\ fenced' \subseteq Run /\ stops' \subseteq Agent
    BY <1>34 DEF FinalizeCommits, TurnReturns, TypeOK, Pc, Outcome, After
  <2>3. completeTurn(r, batch[r], Classified(r), f[1], f[2])
    BY <1>34 DEF FinalizeCommits
  <2>4. QueuedFor(f[1], f[2]) \subseteq Agent
    BY <2>1, <2>3, CompleteType
  <2>5. pump' \subseteq Agent /\ asks' \subseteq Agent
    BY <1>34, <2>4 DEF FinalizeCommits, Drains, Expires, TypeOK
  <2> QED BY <1>34, <2>1, <2>2, <2>3, <2>5, CompleteType
      DEF FinalizeCommits, TypeOK, count
<1>35. ASSUME NEW r \in Run, retryRun(r) PROVE TypeOK'
  <2>1. BoundTo(r) \subseteq Delivery
    BY DEF BoundTo
  <2>2. ActiveOf(author[r]) \subseteq Run
    BY DEF ActiveOf
  <2>3. author[r] \in Agent
    BY <1>35, BoundAuthor DEF retryRun
  <2> QED BY <1>35, <2>1, <2>2, <2>3 DEF retryRun, Act, delv, runs, flags, hist, MState,
       TypeOK
<1>36. ASSUME NEW r \in Run, OrphanExits(r) PROVE TypeOK'
  BY <1>36 DEF OrphanExits, delv, runs, mems, turns, flags, where, hist, count,
       TypeOK
<1>37. ASSUME NEW r \in Run, ReconcileRetries(r) PROVE TypeOK'
  <2>1. Group(r) \subseteq Delivery /\ author[r] \in Agent
    BY <1>37, BoundAuthor DEF ReconcileRetries, Reconciling, Group, BoundTo
  <2>2. CASE \E then \in {"orphan", "none"} : beginTurn(author[r], Group(r), {}, r, then)
    <3>1. PICK then \in {"orphan", "none"} : beginTurn(author[r], Group(r), {}, r, then)
      BY <2>2
    <3>2. then \in After
      BY DEF After
    <3>3. requeued' \subseteq Delivery /\ todo' \subseteq Run
      BY <1>37, <2>1 DEF ReconcileRetries, TypeOK
    <3> QED BY <1>37, <2>1, <3>1, <3>2, <3>3, BeginType
        DEF ReconcileRetries, TypeOK, count
  <2>3. CASE ~ \E then \in {"orphan", "none"} :
               beginTurn(author[r], Group(r), {}, r, then)
    <3>1. /\ dstate' = [d \in Delivery |-> IF d \in Group(r) THEN "held" ELSE dstate[d]]
          /\ released' = released \ Group(r)
          /\ UNCHANGED <<bound, attempts, evidence, hopped, purged, settled, runs, mstate,
                       turns, requeued>>
      BY <1>37, <2>3 DEF ReconcileRetries
    <3> QED BY <1>37, <3>1 DEF ReconcileRetries, TypeOK, DState, runs, turns, count
  <2> QED BY <2>2, <2>3
<1>38. ASSUME NEW r \in Run, HoldRows(r) PROVE TypeOK'
  BY <1>38 DEF HoldRows, runs, mems, turns, flags, where, hist, count, DState,
       TypeOK
<1>39. ASSUME NEW r \in Run, HoldRetires(r) PROVE TypeOK'
  BY <1>39 DEF HoldRetires, RestState, delv, turns, flags, hist, count, Status,
       Outcome, MState, TypeOK, Active, OneTurnPerMember
<1>40. ASSUME NEW r \in Run, SettleStranded(r) PROVE TypeOK'
  <2>1. BoundTo(r) \in SUBSET Delivery
    BY DEF BoundTo
  <2>2. settleLifecycleInterruption(r, BoundTo(r), author[r] \in inflight)
    BY <1>40 DEF SettleStranded
  <2> QED BY <1>40, <2>1, <2>2, SettleType DEF SettleStranded, TypeOK, turns, where, count
<1>41. ASSUME NEW r \in Run, NEW f \in FanOut, ReconcileFinishes(r, f[1], f[2])
       PROVE TypeOK'
  <2>1. Group(r) \in SUBSET Delivery
    BY DEF Group, BoundTo
  <2>2. todo' \subseteq Run /\ asks' \subseteq Agent /\ journal[r] \in Outcome
    BY <1>41 DEF ReconcileFinishes, TypeOK
  <2>3. CASE /\ completeTurn(r, Group(r), journal[r], f[1], f[2])
             /\ pump' = QueuedFor(f[1], f[2])
    <3>1. QueuedFor(f[1], f[2]) \subseteq Agent
      BY <2>1, <2>2, <2>3, CompleteType
    <3> QED BY <1>41, <2>1, <2>2, <2>3, <3>1, CompleteType
        DEF ReconcileFinishes, TypeOK, turns, count
  <2>4. CASE repairFailedFinalization(r, Group(r)) /\ UNCHANGED pump
    BY <1>41, <2>1, <2>2, <2>4, RepairType DEF ReconcileFinishes, TypeOK, turns, count
  <2> QED BY <1>41, <2>3, <2>4 DEF ReconcileFinishes
<1>42. ASSUME Boot PROVE TypeOK'
  BY <1>42 DEF Boot, delv, runs, mems, turns, flags, hist, count, Phase, TypeOK
<1>43. ASSUME Sweep PROVE TypeOK'
  BY <1>43 DEF Sweep, delv, runs, mems, turns, flags, hist, count, Phase, TypeOK
<1>44. ASSUME Serve PROVE TypeOK'
  BY <1>44 DEF Serve, delv, runs, mems, turns, flags, hist, count, Phase, TypeOK
<1>45. ASSUME Close PROVE TypeOK'
  BY <1>45 DEF Close, snapshotInFlightTurns, Active, delv, runs, mems, turns, hist,
       Phase, TypeOK, OneTurnPerMember
<1>46. ASSUME Closed PROVE TypeOK'
  BY <1>46 DEF Closed, MemoryLost, delv, runs, mems, hist, count, Pc, After, Steer,
       Phase, Outcome, TypeOK
<1>47. ASSUME Crash PROVE TypeOK'
  BY <1>47 DEF Crash, MemoryLost, delv, runs, mems, hist, Pc, After, Steer, Phase,
       Outcome, TypeOK
<1>48. ASSUME AwaitInput PROVE TypeOK'
  BY <1>48 DEF AwaitInput, vars, delv, runs, mems, turns, flags, where, hist, count,
       TypeOK
<1>49. CASE UNCHANGED vars
  BY <1>49 DEF TypeOK, vars, delv, runs, mems, turns, flags, where, hist, count
<1> QED BY <1>1, <1>2, <1>3, <1>4, <1>5, <1>6, <1>7, <1>8, <1>9, <1>10, <1>11,
          <1>12, <1>13, <1>14, <1>15, <1>16, <1>17, <1>18, <1>19, <1>20, <1>21,
          <1>22, <1>23, <1>24, <1>25, <1>26, <1>27, <1>28, <1>29, <1>30, <1>31,
          <1>32, <1>33, <1>34, <1>35, <1>36, <1>37, <1>38, <1>39, <1>40, <1>41,
          <1>42, <1>43, <1>44, <1>45, <1>46, <1>47, <1>48, <1>49
         DEF Next, SteerStep, DeliveryAct, MemberAct, TurnStep, Pump, BootStep
-----------------------------------------------------------------------------
(***************************************************************************)
(* Turns                                                                   *)
(***************************************************************************)
\* beginTurn for a member that is not in flight.
LEMMA BeginTurns ==
  ASSUME TypeOK, TurnsOK, NEW m \in Agent, NEW X \in SUBSET Delivery, NEW H,
         NEW r \in Run,
         NEW then, beginTurn(m, X, H, r, then), m \notin inflight,
         \A d \in X : To[d] = m,
         status[r] = "none" \/ author[r] = m, UNCHANGED spin
  PROVE  TurnsOK'
<1>1. BoundOK'
  BY ConstantsAssumption DEF TurnsOK, BoundOK, beginTurn, TypeOK
<1>2. /\ inflight' = inflight \cup {m}
      /\ author' = [author EXCEPT ![r] = m]
      /\ \A q \in Run : q # r => pc'[q] = pc[q]
  BY DEF beginTurn, TypeOK
<1>3. OneTurnPerMember'
  BY <1>2 DEF TurnsOK, OneTurnPerMember, TypeOK, Active
<1>4. SpinOK'
  BY <1>2 DEF TurnsOK, OneTurnPerMember, SpinOK, TypeOK, Active
<1> QED BY <1>1, <1>3, <1>4 DEF TurnsOK

\* A turn that returns.
LEMMA ReturnTurns ==
  ASSUME TypeOK, TurnsOK, NEW r \in Run, Active(r),
         pc' = [pc EXCEPT ![r] = "idle"], inflight' = inflight \ {author[r]},
         UNCHANGED <<author, spin>>
  PROVE  OneTurnPerMember' /\ SpinOK'
BY DEF TurnsOK, OneTurnPerMember, SpinOK, TypeOK, Active

\* Steps that start and end no turn.
LEMMA SameTurns ==
  ASSUME TurnsOK, \A r \in Run : pc'[r] # "idle" => pc[r] # "idle",
         UNCHANGED <<author, inflight, spin>>
  PROVE  OneTurnPerMember' /\ SpinOK'
BY DEF TurnsOK, OneTurnPerMember, SpinOK, Active

\* Steps that bind no row and start no run.
LEMMA SameBound ==
  ASSUME TypeOK, TurnsOK, UNCHANGED author,
         \A d \in Delivery : bound'[d] \in {bound[d], NoRun},
         \A r \in Run : status[r] # "none" => status'[r] # "none"
  PROVE  BoundOK'
BY DEF TurnsOK, BoundOK, TypeOK

\* Every step keeps the turns of a member apart.
LEMMA TurnsStep ==
  ASSUME TypeOK, TurnsOK, [Next]_vars
  PROVE  TurnsOK'
<1>1. ASSUME NEW d \in Delivery, NEW how \in {"skip", "hold", "steer", "queue"},
             Post(d, how)
      PROVE  TurnsOK'
  BY <1>1 DEF Post, runs, turns, hist, count, TurnsOK, BoundOK, OneTurnPerMember,
       SpinOK, Active
<1>2. ASSUME NEW d \in Delivery, SteerSkipped(d) PROVE TurnsOK'
  BY <1>2 DEF SteerSkipped, SteerFallsBack, delv, runs, turns, hist, count, TurnsOK,
       BoundOK, OneTurnPerMember, SpinOK, Active
<1>3. ASSUME NEW d \in Delivery, SteerSent(d) PROVE TurnsOK'
  BY <1>3 DEF SteerSent, delv, runs, mems, turns, where, hist, count, TurnsOK,
       BoundOK, OneTurnPerMember, SpinOK, Active
<1>4. ASSUME NEW d \in Delivery, SteerRefused(d) PROVE TurnsOK'
  BY <1>4 DEF SteerRefused, SteerFallsBack, delv, runs, turns, hist, count, TurnsOK,
       BoundOK, OneTurnPerMember, SpinOK, Active
<1>5. ASSUME NEW d \in Delivery, SteerAcknowledged(d) PROVE TurnsOK'
  BY <1>5 DEF SteerAcknowledged, runs, mems, turns, where, hist, count, TurnsOK,
       BoundOK, OneTurnPerMember, SpinOK, Active
<1>6. ASSUME NEW d \in Delivery, HarnessAccepts(d) PROVE TurnsOK'
  BY <1>6 DEF HarnessAccepts, delv, runs, mems, turns, where, count, TurnsOK,
       BoundOK, OneTurnPerMember, SpinOK, Active
<1>7. ASSUME NEW d \in Delivery, consumeDelivery(d) PROVE TurnsOK'
  BY <1>7 DEF consumeDelivery, runs, mems, turns, flags, where, hist, count,
       TurnsOK,
          BoundOK, OneTurnPerMember, SpinOK, Active
<1>8. ASSUME NEW d \in Delivery, deleteMessage(d) PROVE TurnsOK'
  BY <1>8 DEF deleteMessage, Act, runs, mems, turns, flags, where, hist, TurnsOK,
       BoundOK, OneTurnPerMember, SpinOK, Active
<1>9. ASSUME NEW d \in Delivery, Redeliver(d) PROVE TurnsOK'
  <2>1. BoundOK'
    BY <1>9, SameBound DEF Redeliver, redeliver, Act, TypeOK
  <2>2. OneTurnPerMember' /\ SpinOK'
    BY <1>9, SameTurns DEF Redeliver, redeliver, Act
  <2> QED BY <2>1, <2>2 DEF TurnsOK
<1>10. ASSUME NEW d \in Delivery, RetryRunResends(d) PROVE TurnsOK'
  <2>1. BoundOK'
    BY <1>10, SameBound DEF RetryRunResends, redeliver, count, TypeOK
  <2>2. OneTurnPerMember' /\ SpinOK'
    BY <1>10, SameTurns DEF RetryRunResends, redeliver, count
  <2> QED BY <2>1, <2>2 DEF TurnsOK
<1>11. ASSUME NEW d \in Delivery, ReleaseRefused(d) PROVE TurnsOK'
  <2>1. BoundOK'
    BY <1>11, SameBound DEF ReleaseRefused, Act, mems, turns, flags, where, hist,
         TypeOK
  <2>2. OneTurnPerMember' /\ SpinOK'
    BY <1>11, SameTurns DEF ReleaseRefused, Act, mems, turns, flags, where, hist
  <2> QED BY <2>1, <2>2 DEF TurnsOK
<1>12. ASSUME NEW d \in Delivery, ReleaseResumes(d) PROVE TurnsOK'
  <2> DEFINE G == {e \in BoundTo(bound[d]) : dstate[e] = "held" /\ To[e] = To[d]}
  <2>1. /\ beginTurn(To[d], G, {}, bound[d], "none") /\ UNCHANGED spin
        /\ To[d] \notin inflight /\ bound[d] # NoRun
    BY <1>12 DEF ReleaseResumes, turnStartEligibility, where
  <2>2. To[d] \in Agent /\ bound[d] \in Run /\ author[bound[d]] = To[d]
    BY <2>1, ConstantsAssumption DEF TypeOK, TurnsOK, BoundOK
  <2>3. G \subseteq Delivery /\ \A e \in G : To[e] = To[d]
    BY DEF BoundTo
  <2> HIDE DEF G
  <2> QED BY <2>1, <2>2, <2>3, BeginTurns
<1>13. ASSUME NEW d \in Delivery, ReleaseQueues(d) PROVE TurnsOK'
  BY <1>13 DEF ReleaseQueues, Act, runs, mems, turns, TurnsOK, BoundOK,
       OneTurnPerMember, SpinOK, Active
<1>14. ASSUME NEW m \in Agent, AnswerAsk(m) PROVE TurnsOK'
  BY <1>14 DEF AnswerAsk, delv, runs, turns, flags, where, hist, count, TurnsOK,
       BoundOK, OneTurnPerMember, SpinOK, Active
<1>15. ASSUME NEW m \in Agent, interruptMember(m) PROVE TurnsOK'
  BY <1>15 DEF interruptMember, Act, delv, runs, mems, turns, where, hist, TurnsOK,
       BoundOK, OneTurnPerMember, SpinOK, Active
<1>16. ASSUME NEW m \in Agent, killMember(m) PROVE TurnsOK'
  BY <1>16 DEF killMember, Act, runs, turns, flags, where, hist, TurnsOK, BoundOK,
       OneTurnPerMember, SpinOK, Active
<1>17. ASSUME NEW m \in Agent, reviveMember(m) PROVE TurnsOK'
  BY <1>17 DEF reviveMember, Act, delv, runs, flags, hist, TurnsOK, BoundOK,
       OneTurnPerMember, SpinOK, Active
<1>18. ASSUME NEW m \in Agent, pauseMember(m) PROVE TurnsOK'
  BY <1>18 DEF pauseMember, Act, delv, runs, turns, flags, where, hist, TurnsOK,
       BoundOK, OneTurnPerMember, SpinOK, Active
<1>19. ASSUME NEW m \in Agent, unpauseMember(m) PROVE TurnsOK'
  BY <1>19 DEF unpauseMember, Act, delv, runs, turns, flags, hist, TurnsOK, BoundOK,
       OneTurnPerMember, SpinOK, Active
<1>20. ASSUME NEW m \in Agent, removeMember(m) PROVE TurnsOK'
  <2>1. BoundOK'
    BY <1>20, SameBound DEF removeMember, Act, flags, where, hist, TypeOK
  <2>2. OneTurnPerMember' /\ SpinOK'
    BY <1>20, SameTurns DEF removeMember, Act, flags, where, hist
  <2> QED BY <2>1, <2>2 DEF TurnsOK
<1>21. ASSUME NEW m \in Agent, PumpNothing(m) PROVE TurnsOK'
  BY <1>21 DEF PumpNothing, delv, runs, mems, turns, flags, hist, count, TurnsOK,
       BoundOK, OneTurnPerMember, SpinOK, Active
<1>22. ASSUME NEW m \in Agent, PumpStart(m) PROVE TurnsOK'
  <2> DEFINE B == selectDeliveryBatchPrefix(Queue(m))
  <2>1. m \notin inflight /\ UNCHANGED spin /\ B \subseteq Delivery
        /\ \A d \in B : To[d] = m
    BY <1>22 DEF PumpStart, turnStartEligibility, selectDeliveryBatchPrefix, Queue
  <2> HIDE DEF B
  <2>2. CASE \E H \in SUBSET Delivery : \E r \in FreshRuns :
                beginTurn(m, B \ H, H, r, "drain")
    <3>1. PICK H \in SUBSET Delivery : \E r \in FreshRuns :
                 beginTurn(m, B \ H, H, r, "drain")
      BY <2>2
    <3>2. PICK r \in FreshRuns : beginTurn(m, B \ H, H, r, "drain")
      BY <3>1
    <3>3. r \in Run /\ status[r] = "none"
      BY DEF FreshRuns
    <3> QED BY <2>1, <3>2, <3>3, BeginTurns
  <2>3. CASE UNCHANGED <<bound, runs, turns, spin>>
    BY <2>3 DEF runs, turns, TurnsOK,
          BoundOK, OneTurnPerMember, SpinOK, Active
  <2> QED BY <1>22, <2>1, <2>2, <2>3 DEF PumpStart, Brakable, B
<1>23. ASSUME NEW m \in Agent, PumpFenced(m) PROVE TurnsOK'
  BY <1>23 DEF PumpFenced, runs, hist, count, turnStartEligibility, TurnsOK,
       BoundOK, OneTurnPerMember, SpinOK, TypeOK, Active
<1>24. ASSUME NEW m \in Agent, PumpAgain(m) PROVE TurnsOK'
  BY <1>24 DEF PumpAgain, delv, runs, mems, flags, hist, count, TurnsOK, BoundOK,
       OneTurnPerMember, SpinOK, TypeOK, Active
<1>25. ASSUME NEW r \in Run, StartThrows(r) PROVE TurnsOK'
  <2>1. Active(r) /\ pc' = [pc EXCEPT ![r] = "idle"]
        /\ inflight' = inflight \ {author[r]} /\ UNCHANGED <<author, spin>>
    BY <1>25 DEF StartThrows, delv, runs, mems, flags, where, hist, count, Active
  <2>2. BoundOK'
    BY <1>25, <2>1, SameBound DEF StartThrows, delv, runs, mems, flags, where, hist,
         count, TypeOK
  <2> QED BY <2>1, <2>2, ReturnTurns DEF TurnsOK
<1>26. ASSUME NEW r \in Run, AdapterSpawns(r) PROVE TurnsOK'
  BY <1>26 DEF AdapterSpawns, delv, runs, mems, flags, where, count, TurnsOK,
       BoundOK, OneTurnPerMember, SpinOK, TypeOK, Active
<1>27. ASSUME NEW r \in Run, setDeliveryAttemptProcess(r) PROVE TurnsOK'
  BY <1>27 DEF setDeliveryAttemptProcess, runs, mems, flags, where, count, TurnsOK,
       BoundOK, OneTurnPerMember, SpinOK, TypeOK, Active
<1>28. ASSUME NEW r \in Run, JournalStarted(r) PROVE TurnsOK'
  BY <1>28 DEF JournalStarted, delv, mems, flags, where, count, TurnsOK, BoundOK,
       OneTurnPerMember, SpinOK, TypeOK, Active
<1>29. ASSUME NEW r \in Run, RaiseAsk(r) PROVE TurnsOK'
  BY <1>29 DEF RaiseAsk, delv, runs, turns, flags, where, hist, count, TurnsOK,
       BoundOK, OneTurnPerMember, SpinOK, Active
<1>30. ASSUME NEW r \in Run, NEW o \in Outcome, JournalCompleted(r, o) PROVE TurnsOK'
  BY <1>30 DEF JournalCompleted, delv, mems, flags, where, hist, count, TurnsOK,
       BoundOK, OneTurnPerMember, SpinOK, TypeOK, Active
<1>31. ASSUME NEW r \in Run, NEW o \in Outcome, StreamEnds(r, o) PROVE TurnsOK'
  BY <1>31 DEF StreamEnds, delv, runs, mems, flags, where, hist, count, TurnsOK,
       BoundOK, OneTurnPerMember, SpinOK, TypeOK, Active
<1>32. ASSUME NEW r \in Run, FinalizeLifecycle(r) PROVE TurnsOK'
  <2>1. Active(r) /\ pc' = [pc EXCEPT ![r] = "idle"]
        /\ inflight' = inflight \ {author[r]} /\ UNCHANGED <<author, spin>>
    BY <1>32 DEF FinalizeLifecycle, settleLifecycleInterruption, TurnReturns, count,
         Active
  <2>2. BoundOK'
    BY <1>32, <2>1, SameBound DEF FinalizeLifecycle, settleLifecycleInterruption,
         count, TypeOK
  <2> QED BY <2>1, <2>2, ReturnTurns DEF TurnsOK
<1>33. ASSUME NEW r \in Run, FinalizeRepairs(r) PROVE TurnsOK'
  <2>1. Active(r) /\ pc' = [pc EXCEPT ![r] = "idle"]
        /\ inflight' = inflight \ {author[r]} /\ UNCHANGED <<author, spin>>
    BY <1>33 DEF FinalizeRepairs, repairFailedFinalization, TurnReturns, delv, runs,
         count, Active
  <2>2. BoundOK'
    BY <1>33, <2>1, SameBound DEF FinalizeRepairs, repairFailedFinalization, delv,
         runs, count, TypeOK
  <2> QED BY <2>1, <2>2, ReturnTurns DEF TurnsOK
<1>34. ASSUME NEW r \in Run, NEW f \in FanOut, FinalizeCommits(r, f[1], f[2])
       PROVE  TurnsOK'
  <2>1. Active(r) /\ pc' = [pc EXCEPT ![r] = "idle"]
        /\ inflight' = inflight \ {author[r]} /\ UNCHANGED <<author, spin>>
    BY <1>34 DEF FinalizeCommits, completeTurn, TurnReturns, count, Active
  <2>2. BoundOK'
    BY <1>34, <2>1, SameBound DEF FinalizeCommits, completeTurn, count, TypeOK,
         Outcome, Classified
  <2> QED BY <2>1, <2>2, ReturnTurns DEF TurnsOK
<1>35. ASSUME NEW r \in Run, retryRun(r) PROVE TurnsOK'
  BY <1>35 DEF retryRun, Act, delv, runs, flags, hist, TurnsOK, BoundOK,
       OneTurnPerMember, SpinOK, Active
<1>36. ASSUME NEW r \in Run, OrphanExits(r) PROVE TurnsOK'
  BY <1>36 DEF OrphanExits, delv, runs, mems, turns, flags, where, hist, count,
       TurnsOK,
          BoundOK, OneTurnPerMember, SpinOK, Active
<1>37. ASSUME NEW r \in Run, ReconcileRetries(r) PROVE TurnsOK'
  <2>1. /\ Group(r) \subseteq Delivery /\ Group(r) # {} /\ author[r] \in Agent
        /\ author[r] \notin inflight /\ UNCHANGED spin
    BY <1>37, BoundAuthor
       DEF ReconcileRetries, Reconciling, Group, BoundTo, TurnsOK, turnStartEligibility
  <2>2. \A d \in Group(r) : To[d] = author[r]
    BY ConstantsAssumption DEF Group, BoundTo, TurnsOK, BoundOK
  <2>3. CASE \E then \in After : beginTurn(author[r], Group(r), {}, r, then)
    BY <2>1, <2>2, <2>3, BeginTurns
  <2>4. CASE UNCHANGED <<bound, runs, turns, spin>>
    BY <2>4 DEF runs, turns, TurnsOK,
          BoundOK, OneTurnPerMember, SpinOK, Active
  <2> QED BY <1>37, <2>1, <2>3, <2>4 DEF ReconcileRetries, After
<1>38. ASSUME NEW r \in Run, HoldRows(r) PROVE TurnsOK'
  BY <1>38 DEF HoldRows, runs, mems, turns, flags, where, hist, count, TurnsOK,
       BoundOK, OneTurnPerMember, SpinOK, Active
<1>39. ASSUME NEW r \in Run, HoldRetires(r) PROVE TurnsOK'
  <2>1. BoundOK'
    BY <1>39, SameBound DEF HoldRetires, delv, turns, flags, hist, count, TypeOK
  <2>2. OneTurnPerMember' /\ SpinOK'
    BY <1>39, SameTurns DEF HoldRetires, delv, turns, flags, hist, count
  <2> QED BY <2>1, <2>2 DEF TurnsOK
<1>40. ASSUME NEW r \in Run, SettleStranded(r) PROVE TurnsOK'
  <2>1. BoundOK'
    BY <1>40, SameBound DEF SettleStranded, settleLifecycleInterruption, turns,
         where, count, TypeOK
  <2>2. OneTurnPerMember' /\ SpinOK'
    BY <1>40, SameTurns DEF SettleStranded, settleLifecycleInterruption, turns,
         where, count
  <2> QED BY <2>1, <2>2 DEF TurnsOK
<1>41. ASSUME NEW r \in Run, NEW f \in FanOut, ReconcileFinishes(r, f[1], f[2])
       PROVE  TurnsOK'
  <2>1. BoundOK'
    BY <1>41, SameBound DEF ReconcileFinishes, Outcome, completeTurn,
         repairFailedFinalization, turns, count, TypeOK
  <2>2. OneTurnPerMember' /\ SpinOK'
    BY <1>41, SameTurns DEF ReconcileFinishes, completeTurn,
         repairFailedFinalization, turns, count
  <2> QED BY <2>1, <2>2 DEF TurnsOK
<1>42. ASSUME Boot PROVE TurnsOK'
  BY <1>42 DEF Boot, delv, runs, mems, turns, flags, hist, count, TurnsOK, BoundOK,
       OneTurnPerMember, SpinOK, Active
<1>43. ASSUME Sweep PROVE TurnsOK'
  BY <1>43 DEF Sweep, delv, runs, mems, turns, flags, hist, count, TurnsOK, BoundOK,
       OneTurnPerMember, SpinOK, Active
<1>44. ASSUME Serve PROVE TurnsOK'
  BY <1>44 DEF Serve, delv, runs, mems, turns, flags, hist, count, TurnsOK, BoundOK,
       OneTurnPerMember, SpinOK, Active
<1>45. ASSUME Close PROVE TurnsOK'
  BY <1>45 DEF Close, delv, runs, mems, turns, hist, TurnsOK, BoundOK,
       OneTurnPerMember, SpinOK, Active
<1>46. ASSUME Closed PROVE TurnsOK'
  BY <1>46 DEF Closed, MemoryLost, delv, runs, mems, hist, count, TurnsOK, BoundOK,
       OneTurnPerMember, SpinOK, TypeOK, Active
<1>47. ASSUME Crash PROVE TurnsOK'
  BY <1>47 DEF Crash, MemoryLost, delv, runs, mems, hist, TurnsOK, BoundOK,
       OneTurnPerMember, SpinOK, TypeOK, Active
<1>48. ASSUME AwaitInput PROVE TurnsOK'
  BY <1>48
      DEF AwaitInput, vars, delv, runs, turns, where, TurnsOK,
          BoundOK, OneTurnPerMember, SpinOK, Active
<1>49. CASE UNCHANGED vars
  BY <1>49 DEF vars, delv, runs, mems, turns, flags, where, hist, count, TurnsOK,
       BoundOK, OneTurnPerMember, SpinOK, Active
<1> QED BY <1>1, <1>2, <1>3, <1>4, <1>5, <1>6, <1>7, <1>8, <1>9, <1>10, <1>11,
          <1>12, <1>13, <1>14, <1>15, <1>16, <1>17, <1>18, <1>19, <1>20, <1>21,
          <1>22, <1>23, <1>24, <1>25, <1>26, <1>27, <1>28, <1>29, <1>30, <1>31,
          <1>32, <1>33, <1>34, <1>35, <1>36, <1>37, <1>38, <1>39, <1>40, <1>41,
          <1>42, <1>43, <1>44, <1>45, <1>46, <1>47, <1>48, <1>49
         DEF Next, SteerStep, DeliveryAct, MemberAct, TurnStep, Pump, BootStep
-----------------------------------------------------------------------------
(***************************************************************************)
(* Attempts                                                                *)
(***************************************************************************)
\* Steps that count no attempt and queue no row again.
LEMMA SameAttempts ==
  ASSUME AttemptsOK, UNCHANGED attempts, forced \subseteq forced',
         \A d \in Delivery : dstate'[d] \in {"absent", "queued"} =>
                             dstate[d] \in {"absent", "queued"} \/ d \in forced'
  PROVE  AttemptsOK'
BY DEF AttemptsOK

\* beginTurn counts one attempt more for the rows X.
LEMMA BeginAttempts ==
  ASSUME TypeOK, AttemptsOK, NEW m, NEW X \in SUBSET Delivery, NEW H, NEW r, NEW then,
         beginTurn(m, X, H, r, then), forced \subseteq forced',
         \A d \in X : d \in forced' \/ attempts[d] <= Ceiling
  PROVE  AttemptsOK'
BY ConstantsAssumption DEF AttemptsOK, beginTurn, TypeOK

\* settleLifecycleInterruption consults the ceiling before it queues a row again.
LEMMA SettleAttempts ==
  ASSUME TypeOK, AttemptsOK, NEW r, NEW X, NEW preserve, UNCHANGED forced,
         settleLifecycleInterruption(r, X, preserve)
  PROVE  AttemptsOK'
BY ConstantsAssumption
   DEF AttemptsOK, settleLifecycleInterruption, LifecycleRetry, LifecycleRows, TypeOK

\* Every step keeps the bound on attempts.
LEMMA AttemptsStep ==
  ASSUME TypeOK, AttemptsOK, [Next]_vars
  PROVE  AttemptsOK'
<1>1. ASSUME NEW d \in Delivery, NEW how \in {"skip", "hold", "steer", "queue"},
             Post(d, how)
      PROVE  AttemptsOK'
  BY <1>1, SameAttempts DEF Post, NextRow, RoutedState, runs, turns, hist, count,
       TypeOK
<1>2. ASSUME NEW d \in Delivery, SteerSkipped(d) PROVE AttemptsOK'
  BY <1>2 DEF SteerSkipped, SteerFallsBack, delv, runs, turns, hist, count,
       AttemptsOK
<1>3. ASSUME NEW d \in Delivery, SteerSent(d) PROVE AttemptsOK'
  BY <1>3 DEF SteerSent, delv, runs, mems, turns, where, hist, count, AttemptsOK
<1>4. ASSUME NEW d \in Delivery, SteerRefused(d) PROVE AttemptsOK'
  BY <1>4 DEF SteerRefused, SteerFallsBack, delv, runs, turns, hist, count,
       AttemptsOK
<1>5. ASSUME NEW d \in Delivery, SteerAcknowledged(d) PROVE AttemptsOK'
  BY <1>5, SameAttempts DEF SteerAcknowledged, runs, mems, turns, where, hist,
       count, TypeOK
<1>6. ASSUME NEW d \in Delivery, HarnessAccepts(d) PROVE AttemptsOK'
  BY <1>6 DEF HarnessAccepts, delv, runs, mems, turns, where, count, AttemptsOK
<1>7. ASSUME NEW d \in Delivery, consumeDelivery(d) PROVE AttemptsOK'
  BY <1>7, SameAttempts DEF consumeDelivery, runs, mems, turns, flags, where, hist,
       count, TypeOK
<1>8. ASSUME NEW d \in Delivery, deleteMessage(d) PROVE AttemptsOK'
  BY <1>8, SameAttempts DEF deleteMessage, runs, mems, turns, flags, where, hist,
       TypeOK
<1>9. ASSUME NEW d \in Delivery, Redeliver(d) PROVE AttemptsOK'
  BY <1>9, ConstantsAssumption DEF Redeliver, redeliver, Act, AttemptsOK, TypeOK
<1>10. ASSUME NEW d \in Delivery, RetryRunResends(d) PROVE AttemptsOK'
  BY <1>10, ConstantsAssumption DEF RetryRunResends, redeliver, count, AttemptsOK,
       TypeOK
<1>11. ASSUME NEW d \in Delivery, ReleaseRefused(d) PROVE AttemptsOK'
  BY <1>11, SameAttempts DEF ReleaseRefused, mems, turns, flags, where, hist, TypeOK
<1>12. ASSUME NEW d \in Delivery, ReleaseResumes(d) PROVE AttemptsOK'
  <2> DEFINE G == {e \in BoundTo(bound[d]) : dstate[e] = "held" /\ To[e] = To[d]}
  <2>1. G \subseteq Delivery
    BY DEF BoundTo
  <2>2. beginTurn(To[d], G, {}, bound[d], "none") /\ forced' = forced \cup G
    BY <1>12 DEF ReleaseResumes
  <2> HIDE DEF G
  <2> QED BY <2>1, <2>2, BeginAttempts
<1>13. ASSUME NEW d \in Delivery, ReleaseQueues(d) PROVE AttemptsOK'
  BY <1>13, ConstantsAssumption DEF ReleaseQueues, Act, runs, mems, turns,
       AttemptsOK, TypeOK
<1>14. ASSUME NEW m \in Agent, AnswerAsk(m) PROVE AttemptsOK'
  BY <1>14 DEF AnswerAsk, delv, runs, turns, flags, where, hist, count, AttemptsOK
<1>15. ASSUME NEW m \in Agent, interruptMember(m) PROVE AttemptsOK'
  BY <1>15 DEF interruptMember, delv, runs, mems, turns, where, hist, AttemptsOK
<1>16. ASSUME NEW m \in Agent, killMember(m) PROVE AttemptsOK'
  BY <1>16, SameAttempts DEF killMember, Act, SkippedWith, runs, turns, flags,
       where, hist, TypeOK
<1>17. ASSUME NEW m \in Agent, reviveMember(m) PROVE AttemptsOK'
  BY <1>17 DEF reviveMember, delv, runs, flags, hist, AttemptsOK
<1>18. ASSUME NEW m \in Agent, pauseMember(m) PROVE AttemptsOK'
  BY <1>18 DEF pauseMember, delv, runs, turns, flags, where, hist, AttemptsOK
<1>19. ASSUME NEW m \in Agent, unpauseMember(m) PROVE AttemptsOK'
  BY <1>19 DEF unpauseMember, delv, runs, turns, flags, hist, AttemptsOK
<1>20. ASSUME NEW m \in Agent, removeMember(m) PROVE AttemptsOK'
  BY <1>20, SameAttempts DEF removeMember, Act, Waiting, flags, where, hist, TypeOK
<1>21. ASSUME NEW m \in Agent, PumpNothing(m) PROVE AttemptsOK'
  BY <1>21 DEF PumpNothing, delv, runs, mems, turns, flags, hist, count, AttemptsOK
<1>22. ASSUME NEW m \in Agent, PumpStart(m) PROVE AttemptsOK'
  <2> DEFINE B == selectDeliveryBatchPrefix(Queue(m))
  <2>1. B \subseteq Delivery /\ \A d \in B : dstate[d] = "queued"
    BY DEF selectDeliveryBatchPrefix, Queue
  <2>2. UNCHANGED forced
    BY <1>22 DEF PumpStart, hist
  <2> HIDE DEF B
  <2>3. CASE \E H \in SUBSET Delivery : \E r \in FreshRuns :
                beginTurn(m, B \ H, H, r, "drain")
    BY <2>1, <2>2, <2>3, BeginAttempts DEF AttemptsOK
  <2>4. CASE /\ dstate' = [d \in Delivery |-> IF d \in B THEN "held" ELSE dstate[d]]
             /\ UNCHANGED attempts
    BY <2>2, <2>4, SameAttempts
  <2> QED BY <1>22, <2>1, <2>3, <2>4 DEF PumpStart, Brakable, B
<1>23. ASSUME NEW m \in Agent, PumpFenced(m) PROVE AttemptsOK'
  BY <1>23, ConstantsAssumption DEF PumpFenced, runs, hist, count, AttemptsOK,
       TypeOK
<1>24. ASSUME NEW m \in Agent, PumpAgain(m) PROVE AttemptsOK'
  BY <1>24 DEF PumpAgain, delv, runs, mems, flags, hist, count, AttemptsOK
<1>25. ASSUME NEW r \in Run, StartThrows(r) PROVE AttemptsOK'
  BY <1>25 DEF StartThrows, delv, runs, mems, flags, where, hist, count, AttemptsOK
<1>26. ASSUME NEW r \in Run, AdapterSpawns(r) PROVE AttemptsOK'
  BY <1>26 DEF AdapterSpawns, delv, runs, mems, flags, where, count, AttemptsOK
<1>27. ASSUME NEW r \in Run, setDeliveryAttemptProcess(r) PROVE AttemptsOK'
  BY <1>27 DEF setDeliveryAttemptProcess, runs, mems, flags, where, count,
       AttemptsOK
<1>28. ASSUME NEW r \in Run, JournalStarted(r) PROVE AttemptsOK'
  BY <1>28 DEF JournalStarted, delv, mems, flags, where, count, AttemptsOK
<1>29. ASSUME NEW r \in Run, RaiseAsk(r) PROVE AttemptsOK'
  BY <1>29 DEF RaiseAsk, delv, runs, turns, flags, where, hist, count, AttemptsOK
<1>30. ASSUME NEW r \in Run, NEW o \in Outcome, JournalCompleted(r, o)
       PROVE  AttemptsOK'
  BY <1>30 DEF JournalCompleted, delv, mems, flags, where, hist, count, AttemptsOK
<1>31. ASSUME NEW r \in Run, NEW o \in Outcome, StreamEnds(r, o) PROVE AttemptsOK'
  BY <1>31 DEF StreamEnds, delv, runs, mems, flags, where, hist, count, AttemptsOK
<1>32. ASSUME NEW r \in Run, FinalizeLifecycle(r) PROVE AttemptsOK'
  BY <1>32, SettleAttempts DEF FinalizeLifecycle
<1>33. ASSUME NEW r \in Run, FinalizeRepairs(r) PROVE AttemptsOK'
  BY <1>33, SameAttempts DEF FinalizeRepairs, repairFailedFinalization, delv, runs,
       count, TypeOK
<1>34. ASSUME NEW r \in Run, NEW f \in FanOut, FinalizeCommits(r, f[1], f[2])
       PROVE  AttemptsOK'
  BY <1>34, SameAttempts DEF FinalizeCommits, completeTurn, FanOut, NextRow, count,
       TypeOK
<1>35. ASSUME NEW r \in Run, retryRun(r) PROVE AttemptsOK'
  BY <1>35 DEF retryRun, delv, runs, flags, hist, AttemptsOK
<1>36. ASSUME NEW r \in Run, OrphanExits(r) PROVE AttemptsOK'
  BY <1>36 DEF OrphanExits, delv, runs, mems, turns, flags, where, hist, count,
       AttemptsOK
<1>37. ASSUME NEW r \in Run, ReconcileRetries(r) PROVE AttemptsOK'
  <2>1. Group(r) \subseteq Delivery /\ UNCHANGED forced
    BY <1>37 DEF ReconcileRetries, Group, BoundTo
  <2>2. \A d \in Group(r) : attempts[d] <= Ceiling
    <3>1. Blocked(r) \/ NeverStarted(r)
      BY <1>37 DEF ReconcileRetries, Retryable
    <3>2. \A d \in Group(r) : attempts[d] <= 2
      BY <2>1, <3>1 DEF Blocked, NeverStarted, TypeOK
    <3>3. Ceiling \in Nat /\ 2 <= Ceiling
      BY ConstantsAssumption
    <3>4. \A d \in Group(r) : attempts[d] \in Nat
      BY <2>1 DEF TypeOK
    <3> QED BY <3>2, <3>3, <3>4
  <2>3. CASE \E then \in After : beginTurn(author[r], Group(r), {}, r, then)
    BY <2>1, <2>2, <2>3, BeginAttempts
  <2>4. CASE /\ dstate' = [d \in Delivery |-> IF d \in Group(r) THEN "held" ELSE dstate[d]]
             /\ UNCHANGED attempts
    BY <2>1, <2>4, SameAttempts
  <2> QED BY <1>37, <2>3, <2>4 DEF ReconcileRetries, After
<1>38. ASSUME NEW r \in Run, HoldRows(r) PROVE AttemptsOK'
  BY <1>38, SameAttempts DEF HoldRows, runs, mems, turns, flags, where, hist, count,
       TypeOK
<1>39. ASSUME NEW r \in Run, HoldRetires(r) PROVE AttemptsOK'
  BY <1>39 DEF HoldRetires, delv, turns, flags, hist, count, AttemptsOK
<1>40. ASSUME NEW r \in Run, SettleStranded(r) PROVE AttemptsOK'
  BY <1>40, SettleAttempts DEF SettleStranded
<1>41. ASSUME NEW r \in Run, NEW f \in FanOut, ReconcileFinishes(r, f[1], f[2])
       PROVE  AttemptsOK'
  <2>1. f[1] \subseteq Delivery /\ \A d \in f[1] : dstate[d] = "absent"
    BY DEF FanOut, NextRow
  <2>2. UNCHANGED <<attempts, forced>>
    BY <1>41 DEF ReconcileFinishes, completeTurn, repairFailedFinalization
  <2>3. \A d \in Delivery : dstate'[d] \in {"absent", "queued"} =>
                            dstate[d] \in {"absent", "queued"}
    BY <1>41, <2>1 DEF ReconcileFinishes, completeTurn, repairFailedFinalization
  <2> QED BY <2>2, <2>3, SameAttempts
<1>42. ASSUME Boot PROVE AttemptsOK'
  BY <1>42 DEF Boot, delv, runs, mems, turns, flags, hist, count, AttemptsOK
<1>43. ASSUME Sweep PROVE AttemptsOK'
  BY <1>43 DEF Sweep, delv, runs, mems, turns, flags, hist, count, AttemptsOK
<1>44. ASSUME Serve PROVE AttemptsOK'
  BY <1>44 DEF Serve, delv, runs, mems, turns, flags, hist, count, AttemptsOK
<1>45. ASSUME Close PROVE AttemptsOK'
  BY <1>45 DEF Close, delv, runs, mems, turns, hist, AttemptsOK
<1>46. ASSUME Closed PROVE AttemptsOK'
  BY <1>46 DEF Closed, delv, runs, mems, hist, count, AttemptsOK
<1>47. ASSUME Crash PROVE AttemptsOK'
  BY <1>47 DEF Crash, delv, runs, mems, hist, AttemptsOK
<1>48. ASSUME AwaitInput PROVE AttemptsOK'
  BY <1>48 DEF AwaitInput, vars, delv, hist, AttemptsOK
<1>49. CASE UNCHANGED vars
  BY <1>49 DEF vars, delv, hist, AttemptsOK
<1> QED BY <1>1, <1>2, <1>3, <1>4, <1>5, <1>6, <1>7, <1>8, <1>9, <1>10, <1>11,
          <1>12, <1>13, <1>14, <1>15, <1>16, <1>17, <1>18, <1>19, <1>20, <1>21,
          <1>22, <1>23, <1>24, <1>25, <1>26, <1>27, <1>28, <1>29, <1>30, <1>31,
          <1>32, <1>33, <1>34, <1>35, <1>36, <1>37, <1>38, <1>39, <1>40, <1>41,
          <1>42, <1>43, <1>44, <1>45, <1>46, <1>47, <1>48, <1>49
         DEF Next, SteerStep, DeliveryAct, MemberAct, TurnStep, Pump, BootStep
-----------------------------------------------------------------------------
(***************************************************************************)
(* Rows in custody                                                         *)
(***************************************************************************)
\* Steps that take no row into custody, and begin and end no turn.
LEMMA SameCustody ==
  ASSUME TypeOK, Custody,
         \A d \in Delivery :
           /\ bound'[d] \in {bound[d], NoRun}
           /\ dstate'[d] = "delivering" => /\ dstate[d] = "delivering"
                                           /\ bound'[d] = bound[d]
                                           /\ status'[bound[d]] = status[bound[d]],
         \A r \in todo : status'[r] = status[r],
         \A r \in Run : /\ pc'[r] = "idle" <=> pc[r] = "idle"
                        /\ pc'[r] = "threw" => pc[r] = "threw",
         \A r \in Run : status[r] # "none" => status'[r] # "none",
         pump' = {} \/ pump # {} \/ phase \notin {"crashed", "closed"},
         resend' \subseteq resend \/ phase = "ready",
         UNCHANGED <<batch, author, phase, todo, seen>>
  PROVE  Custody'
<1>1. ThrowOK'
  BY DEF Custody, ThrowOK
<1>2. CustodyOK'
  BY DEF Custody, CustodyOK, Active, TypeOK
<1>3. BatchOK'
  BY DEF Custody, BatchOK, Active, BoundTo, TypeOK
<1>4. BootOK'
  BY DEF Custody, BootOK, Active, TypeOK
<1> QED BY <1>1, <1>2, <1>3, <1>4 DEF Custody

\* beginTurn on rows of a member that is not in flight, for a run with no turn.
LEMMA BeginCustody ==
  ASSUME TypeOK, TurnsOK, Custody, NEW m \in Agent, NEW X \in SUBSET Delivery, NEW H,
         NEW r \in Run, NEW then, beginTurn(m, X, H, r, then), m \notin inflight,
         X \cap H = {}, \A d \in X : To[d] = m, ~Active(r),
         \A d \in Delivery \ X : bound[d] = r => dstate[d] # "delivering",
         phase \notin {"crashed", "closed"},
         todo' = todo \ {r}, UNCHANGED <<seen, phase, resend>>
  PROVE  Custody'
<1>0. /\ \A d \in X : dstate'[d] = "delivering" /\ bound'[d] = r
      /\ \A d \in Delivery \ X : /\ bound'[d] = bound[d]
                                 /\ dstate'[d] = "delivering" => dstate[d] = "delivering"
  BY DEF beginTurn
<1>1. /\ status' = [status EXCEPT ![r] = "running"]
      /\ author' = [author EXCEPT ![r] = m]
      /\ batch' = [batch EXCEPT ![r] = X]
  BY DEF beginTurn
<1>9. /\ \A q \in Run : q # r => pc'[q] = pc[q]
      /\ pc'[r] \in {"begun", "threw"}
      /\ pc'[r] = "threw" => m \in BrokenStart
  <2>1. \/ pc' = [pc EXCEPT ![r] = "begun"]
        \/ m \in BrokenStart /\ pc' = [pc EXCEPT ![r] = "threw"]
    BY DEF beginTurn
  <2> QED BY <2>1 DEF TypeOK
<1>2. \A q \in Run : Active(q) => author[q] # m /\ q # r
  BY DEF TurnsOK, OneTurnPerMember
<1>3. ThrowOK'
  BY <1>1, <1>9 DEF Custody, ThrowOK, TypeOK
<1>4. CustodyOK'
  <2>1. ASSUME NEW d \in X
        PROVE  bound'[d] # NoRun /\ status'[bound'[d]] = "running" /\ Active(bound[d])'
    BY <1>0, <1>1, <1>9, ConstantsAssumption DEF TypeOK, Active
  <2>2. ASSUME NEW d \in Delivery \ X, dstate'[d] = "delivering"
        PROVE  /\ bound'[d] # NoRun /\ status'[bound'[d]] = "running"
               /\ \/ Active(bound[d])'
                  \/ phase' = "boot" /\ bound'[d] \in todo'
                  \/ To[d] \in BrokenStart
    <3>1. dstate[d] = "delivering" /\ bound'[d] = bound[d] /\ bound[d] # r
      BY <1>0, <2>2
    <3>2. /\ bound[d] \in Run /\ bound[d] # NoRun /\ status[bound[d]] = "running"
          /\ \/ Active(bound[d])
             \/ phase = "boot" /\ bound[d] \in todo
             \/ To[d] \in BrokenStart
      BY <3>1 DEF Custody, CustodyOK, TypeOK
    <3>3. status'[bound[d]] = "running" /\ pc'[bound[d]] = pc[bound[d]]
      BY <1>1, <1>9, <3>1, <3>2
    <3> QED BY <3>1, <3>2, <3>3 DEF Active
  <2> QED BY <2>1, <2>2 DEF CustodyOK
<1>5. BatchOK'
  <2>1. ASSUME NEW q \in Run, Active(q)'
        PROVE  /\ status'[q] # "none"
               /\ \A d \in batch'[q] : To[d] = author'[q] /\ bound'[d] \in {q, NoRun}
               /\ \A d \in Delivery : bound'[d] = q /\ dstate'[d] = "delivering" =>
                                      d \in batch'[q]
    <3>1. CASE q = r
      <4>1. status'[r] = "running" /\ author'[r] = m /\ batch'[r] = X
        BY <1>1 DEF TypeOK
      <4>2. \A d \in Delivery : bound'[d] = r /\ dstate'[d] = "delivering" => d \in X
        BY <1>0
      <4> QED BY <1>0, <3>1, <4>1, <4>2
    <3>2. CASE q # r
      <4>1. Active(q) /\ author'[q] = author[q] /\ batch'[q] = batch[q]
            /\ batch[q] \subseteq Delivery
        BY <1>1, <1>9, <2>1, <3>2 DEF Active, TypeOK
      <4>2. \A d \in batch[q] : d \notin X
        BY <1>2, <4>1 DEF Custody, BatchOK
      <4>3. status'[q] # "none"
        BY <1>1, <3>2, <4>1 DEF Custody, BatchOK, TypeOK
      <4>4. /\ \A d \in batch[q] : To[d] = author[q] /\ bound[d] \in {q, NoRun}
            /\ \A d \in Delivery :
                 bound[d] = q /\ dstate[d] = "delivering" => d \in batch[q]
        BY <4>1 DEF Custody, BatchOK, BoundTo
      <4>5. \A d \in Delivery : bound'[d] = q => d \notin X /\ bound[d] = q
        BY <1>0, <3>2
      <4>6. \A d \in Delivery : bound'[d] = q /\ dstate'[d] = "delivering" => d \in batch[q]
        BY <1>0, <4>4, <4>5
      <4>7. \A d \in batch[q] : bound'[d] = bound[d]
        BY <1>0, <4>1, <4>2
      <4> QED BY <4>1, <4>3, <4>4, <4>6, <4>7
    <3> QED BY <3>1, <3>2
  <2> QED BY <2>1 DEF BatchOK, BoundTo
<1>6. BootOK'
  BY <1>1, <1>9 DEF Custody, BootOK, Active, TypeOK
<1> QED BY <1>3, <1>4, <1>5, <1>6 DEF Custody

\* A turn that returns leaves none of its rows in custody.
LEMMA ReturnCustody ==
  ASSUME TypeOK, Custody, NEW r \in Run, Active(r), phase \in {"ready", "closing"},
         pc' = [pc EXCEPT ![r] = "idle"], batch' = [batch EXCEPT ![r] = {}],
         \A q \in Run \ {r} : status'[q] = status[q],
         \A d \in Delivery :
           /\ bound'[d] \in {bound[d], NoRun}
           /\ dstate'[d] = "delivering" => /\ dstate[d] = "delivering"
                                           /\ bound'[d] = bound[d] /\ bound[d] # r,
         UNCHANGED <<author, phase, todo, seen, resend>>
  PROVE  Custody'
<1>1. ThrowOK'
  BY DEF Custody, ThrowOK, TypeOK
<1>2. CustodyOK'
  BY DEF Custody, CustodyOK, Active, TypeOK
<1>3. BatchOK'
  BY DEF Custody, BatchOK, Active, BoundTo, TypeOK
<1>4. BootOK'
  BY DEF Custody, BootOK, Active, TypeOK
<1> QED BY <1>1, <1>2, <1>3, <1>4 DEF Custody

\* redeliver takes the row out of its run, and retires the run it leaves empty.
LEMMA RedeliverCustody ==
  ASSUME TypeOK, Custody, NEW d \in Delivery, redeliver(d), phase = "ready",
         resend' \subseteq resend
  PROVE  Custody'
<1>1. todo = {} /\ UNCHANGED <<pc, batch, author, phase, todo, seen>>
  BY DEF redeliver, Custody, BootOK
<1>2. /\ dstate'[d] = "queued" /\ bound'[d] = NoRun
      /\ \A e \in Delivery : e # d => dstate'[e] = dstate[e] /\ bound'[e] = bound[e]
  BY DEF redeliver, TypeOK
<1>3. \A r \in Run : \/ status'[r] = status[r]
                     \/ status'[r] = "interrupted" /\ BoundTo(r) = {d}
  BY DEF redeliver, RetiredWith
<1>4. \A e \in Delivery : dstate'[e] = "delivering" => status'[bound[e]] = status[bound[e]]
  BY <1>2, <1>3 DEF BoundTo, TypeOK, Custody, CustodyOK
<1> QED BY <1>1, <1>2, <1>3, <1>4, SameCustody

\* Rows that only waited are consumed, and the runs that only waited retire.
LEMMA DroppedCustody ==
  ASSUME TypeOK, Custody, NEW X \in SUBSET Delivery, phase = "ready",
         \A d \in X : dstate[d] \in {"queued", "held"},
         \A d \in Delivery : dstate'[d] # dstate[d] => dstate'[d] = "consumed",
         status' = [r \in Run |-> IF r \in LeftWithout(X) THEN "interrupted"
                                 ELSE status[r]],
         UNCHANGED <<bound, pc, batch, author, phase, todo, seen, pump, resend>>
  PROVE  Custody'
<1>1. \A r \in Run : \/ status'[r] = status[r]
                     \/ /\ status'[r] = "interrupted"
                        /\ \A d \in Delivery : bound[d] = r => dstate[d] # "delivering"
  BY DEF LeftWithout, BoundTo
<1>2. \A d \in Delivery : dstate'[d] = "delivering" =>
                           dstate[d] = "delivering" /\ status'[bound[d]] = status[bound[d]]
  BY <1>1 DEF TypeOK, Custody, CustodyOK
<1> QED BY <1>1, <1>2, SameCustody DEF Custody, BootOK

\* Boot recovery is done with a run none of whose rows it leaves in custody.
LEMMA LeaveCustody ==
  ASSUME TypeOK, Custody, NEW r \in Run, phase = "boot",
         todo' = todo \ {r},
         \A q \in Run \ {r} : status'[q] = status[q],
         status[r] # "none" => status'[r] # "none",
         \A d \in Delivery :
           dstate'[d] = "delivering" => dstate[d] = "delivering" /\ bound[d] # r,
         UNCHANGED <<bound, author, pc, batch, phase, seen, resend>>
  PROVE  Custody'
<1>1. ThrowOK'
  BY DEF Custody, ThrowOK
<1>2. CustodyOK'
  BY DEF Custody, CustodyOK, Active, TypeOK
<1>3. BatchOK'
  BY DEF Custody, BatchOK, Active, BoundTo, TypeOK
<1>4. BootOK'
  BY DEF Custody, BootOK, Active, TypeOK
<1> QED BY <1>1, <1>2, <1>3, <1>4 DEF Custody

\* Every step keeps rows in custody with a turn.
LEMMA CustodyStep ==
  ASSUME TypeOK, TurnsOK, Custody, [Next]_vars
  PROVE  Custody'
<1>1. ASSUME NEW d \in Delivery, NEW how \in {"skip", "hold", "steer", "queue"},
             Post(d, how)
      PROVE  Custody'
  BY <1>1, SameCustody DEF Post, runs, turns, hist, count, NextRow, RoutedState,
     Serving, TypeOK
<1>2. ASSUME NEW d \in Delivery, SteerSkipped(d) PROVE Custody'
  BY <1>2, SameCustody DEF SteerSkipped, SteerFallsBack, delv, runs, turns, hist,
     count, Turning, TypeOK
<1>3. ASSUME NEW d \in Delivery, SteerSent(d) PROVE Custody'
  BY <1>3, SameCustody DEF SteerSent, delv, runs, mems, turns, where, hist, count,
     TypeOK
<1>4. ASSUME NEW d \in Delivery, SteerRefused(d) PROVE Custody'
  BY <1>4, SameCustody DEF SteerRefused, SteerFallsBack, delv, runs, turns, hist,
     count, Turning, TypeOK
<1>5. ASSUME NEW d \in Delivery, SteerAcknowledged(d) PROVE Custody'
  BY <1>5, SameCustody DEF SteerAcknowledged, runs, mems, turns, where, hist, count,
     TypeOK
<1>6. ASSUME NEW d \in Delivery, HarnessAccepts(d) PROVE Custody'
  BY <1>6, SameCustody DEF HarnessAccepts, delv, runs, mems, turns, where, count,
     TypeOK
<1>7. ASSUME NEW d \in Delivery, consumeDelivery(d) PROVE Custody'
  BY <1>7, SameCustody DEF consumeDelivery, runs, mems, turns, flags, where, hist,
     count, TypeOK
<1>8. ASSUME NEW d \in Delivery, deleteMessage(d) PROVE Custody'
  BY <1>8, SameCustody DEF deleteMessage, Act, runs, mems, turns, flags, where, hist,
     Serving, TypeOK
<1>9. ASSUME NEW d \in Delivery, Redeliver(d) PROVE Custody'
  BY <1>9, RedeliverCustody DEF Redeliver, Act, Serving
<1>10. ASSUME NEW d \in Delivery, RetryRunResends(d) PROVE Custody'
  BY <1>10, RedeliverCustody DEF RetryRunResends, Custody, BootOK
<1>11. ASSUME NEW d \in Delivery, ReleaseRefused(d) PROVE Custody'
  <2>1. {d} \in SUBSET Delivery /\ \A e \in {d} : dstate[e] = "held"
    BY <1>11 DEF ReleaseRefused
  <2>2. \A e \in Delivery : dstate'[e] # dstate[e] => dstate'[e] = "consumed"
    BY <1>11 DEF ReleaseRefused, TypeOK
  <2> QED BY <1>11, <2>1, <2>2, DroppedCustody
          DEF ReleaseRefused, Act, Serving, turns, where
<1>12. ASSUME NEW d \in Delivery, ReleaseResumes(d) PROVE Custody'
  <2> DEFINE G == {e \in BoundTo(bound[d]) : dstate[e] = "held" /\ To[e] = To[d]}
  <2>1. /\ beginTurn(To[d], G, {}, bound[d], "none")
        /\ UNCHANGED <<todo, seen, phase, resend>>
        /\ To[d] \notin inflight /\ bound[d] # NoRun /\ phase = "ready"
        /\ status[bound[d]] = "interrupted"
    BY <1>12 DEF ReleaseResumes, turnStartEligibility, where, Act, Serving
  <2>2. To[d] \in Agent /\ bound[d] \in Run /\ author[bound[d]] = To[d]
    BY <2>1, ConstantsAssumption DEF TypeOK, TurnsOK, BoundOK
  <2>3. G \in SUBSET Delivery /\ \A e \in G : To[e] = To[d]
    BY DEF BoundTo
  <2>4. ~Active(bound[d])
    BY <2>1, <2>2 DEF TurnsOK, OneTurnPerMember
  <2>5. \A e \in Delivery : bound[e] = bound[d] => dstate[e] # "delivering"
    BY <2>1 DEF Custody, CustodyOK
  <2>6. todo' = todo \ {bound[d]} /\ phase \notin {"crashed", "closed"}
    BY <2>1 DEF Custody, BootOK
  <2> HIDE DEF G
  <2> QED BY <2>1, <2>2, <2>3, <2>4, <2>5, <2>6, BeginCustody
<1>13. ASSUME NEW d \in Delivery, ReleaseQueues(d) PROVE Custody'
  BY <1>13, SameCustody DEF ReleaseQueues, Act, runs, mems, turns, Serving, TypeOK
<1>14. ASSUME NEW m \in Agent, AnswerAsk(m) PROVE Custody'
  BY <1>14, SameCustody DEF AnswerAsk, delv, runs, turns, flags, where, hist, count,
     TypeOK
<1>15. ASSUME NEW m \in Agent, interruptMember(m) PROVE Custody'
  BY <1>15, SameCustody DEF interruptMember, Act, delv, runs, mems, turns, where,
     hist, Serving, TypeOK
<1>16. ASSUME NEW m \in Agent, killMember(m) PROVE Custody'
  BY <1>16, SameCustody DEF killMember, Act, runs, turns, flags, where, hist,
     SkippedWith, Serving, TypeOK
<1>17. ASSUME NEW m \in Agent, reviveMember(m) PROVE Custody'
  BY <1>17, SameCustody DEF reviveMember, Act, delv, runs, flags, hist, Serving,
     TypeOK
<1>18. ASSUME NEW m \in Agent, pauseMember(m) PROVE Custody'
  BY <1>18, SameCustody DEF pauseMember, Act, delv, runs, turns, flags, where, hist,
     Serving, TypeOK
<1>19. ASSUME NEW m \in Agent, unpauseMember(m) PROVE Custody'
  BY <1>19, SameCustody DEF unpauseMember, Act, delv, runs, turns, flags, hist,
     Serving, TypeOK
<1>20. ASSUME NEW m \in Agent, removeMember(m) PROVE Custody'
  <2>1. /\ Waiting(m) \in SUBSET Delivery
        /\ \A e \in Waiting(m) : dstate[e] \in {"queued", "held"}
    BY DEF Waiting
  <2>2. \A e \in Delivery : dstate'[e] # dstate[e] => dstate'[e] = "consumed"
    BY <1>20 DEF removeMember
  <2> QED BY <1>20, <2>1, <2>2, DroppedCustody DEF removeMember, Act, Serving, where
<1>21. ASSUME NEW m \in Agent, PumpNothing(m) PROVE Custody'
  BY <1>21, SameCustody DEF PumpNothing, delv, runs, mems, turns, flags, hist, count,
     TypeOK
<1>22. ASSUME NEW m \in Agent, PumpStart(m) PROVE Custody'
  <2> DEFINE B == selectDeliveryBatchPrefix(Queue(m))
  <2>1. /\ m \notin inflight /\ UNCHANGED <<todo, seen, phase, resend>>
        /\ B \subseteq Delivery /\ \A d \in B : To[d] = m /\ dstate[d] = "queued"
    BY <1>22 DEF PumpStart, turnStartEligibility, selectDeliveryBatchPrefix, Queue
  <2>2. phase \notin {"crashed", "closed"}
    BY <1>22 DEF PumpStart, Custody, BootOK
  <2> HIDE DEF B
  <2>3. CASE \E H \in SUBSET Delivery : \E r \in FreshRuns :
                beginTurn(m, B \ H, H, r, "drain")
    <3>1. PICK H \in SUBSET Delivery : \E r \in FreshRuns :
                 beginTurn(m, B \ H, H, r, "drain")
      BY <2>3
    <3>2. PICK r \in FreshRuns : beginTurn(m, B \ H, H, r, "drain")
      BY <3>1
    <3>3. r \in Run /\ status[r] = "none"
      BY DEF FreshRuns
    <3>4. \A d \in Delivery : bound[d] # r
      BY <3>3, ConstantsAssumption DEF TurnsOK, BoundOK
    <3>5. ~Active(r) /\ todo' = todo \ {r}
      BY <2>1, <3>3 DEF Custody, BootOK, BatchOK
    <3> QED BY <2>1, <2>2, <3>2, <3>3, <3>4, <3>5, BeginCustody
  <2>4. CASE /\ dstate' = [d \in Delivery |-> IF d \in B THEN "held" ELSE dstate[d]]
             /\ UNCHANGED <<bound, runs, turns>> /\ pump' = pump \ {m}
    BY <2>1, <2>4, SameCustody DEF runs, turns, TypeOK
  <2> QED BY <1>22, <2>1, <2>3, <2>4 DEF PumpStart, Brakable, B
<1>23. ASSUME NEW m \in Agent, PumpFenced(m) PROVE Custody'
  BY <1>23, SameCustody DEF PumpFenced, runs, hist, count, TypeOK
<1>24. ASSUME NEW m \in Agent, PumpAgain(m) PROVE Custody'
  BY <1>24, SameCustody DEF PumpAgain, delv, runs, mems, flags, hist, count, TypeOK
<1>25. ASSUME NEW r \in Run, StartThrows(r) PROVE Custody'
  <2>1. /\ \A q \in Run : q # r => pc'[q] = pc[q]
        /\ pc'[r] = "idle" /\ author[r] \in BrokenStart /\ phase \in {"ready", "closing"}
        /\ UNCHANGED <<delv, status, author, batch, phase, todo, seen, resend>>
    BY <1>25 DEF StartThrows, Custody, ThrowOK, TypeOK, runs, where, flags
  <2>2. \A d \in Delivery : bound[d] = r => To[d] \in BrokenStart
    BY <2>1, ConstantsAssumption DEF TurnsOK, BoundOK
  <2>3. ThrowOK'
    BY <2>1 DEF Custody, ThrowOK
  <2>4. CustodyOK'
    BY <2>1, <2>2 DEF Custody, CustodyOK, Active, delv, TypeOK
  <2>5. BatchOK'
    BY <2>1 DEF Custody, BatchOK, Active, BoundTo, delv
  <2>6. BootOK'
    BY <2>1 DEF Custody, BootOK, Active
  <2> QED BY <2>3, <2>4, <2>5, <2>6 DEF Custody
<1>26. ASSUME NEW r \in Run, AdapterSpawns(r) PROVE Custody'
  BY <1>26, SameCustody DEF AdapterSpawns, delv, runs, mems, flags, where, count,
     TypeOK
<1>27. ASSUME NEW r \in Run, setDeliveryAttemptProcess(r) PROVE Custody'
  BY <1>27, SameCustody DEF setDeliveryAttemptProcess, runs, mems, flags, where,
     count, TypeOK
<1>28. ASSUME NEW r \in Run, JournalStarted(r) PROVE Custody'
  BY <1>28, SameCustody DEF JournalStarted, delv, mems, flags, where, count, TypeOK
<1>29. ASSUME NEW r \in Run, RaiseAsk(r) PROVE Custody'
  BY <1>29, SameCustody DEF RaiseAsk, delv, runs, turns, flags, where, hist, count,
     TypeOK
<1>30. ASSUME NEW r \in Run, NEW o \in Outcome, JournalCompleted(r, o) PROVE Custody'
  BY <1>30, SameCustody DEF JournalCompleted, delv, mems, flags, where, hist, count,
     TypeOK
<1>31. ASSUME NEW r \in Run, NEW o \in Outcome, StreamEnds(r, o) PROVE Custody'
  BY <1>31, SameCustody DEF StreamEnds, delv, runs, mems, flags, where, hist, count,
     TypeOK
<1>32. ASSUME NEW r \in Run, FinalizeLifecycle(r) PROVE Custody'
  <2>1. /\ Active(r) /\ phase \in {"ready", "closing"}
        /\ pc' = [pc EXCEPT ![r] = "idle"] /\ batch' = [batch EXCEPT ![r] = {}]
        /\ UNCHANGED <<author, phase, todo, seen, resend>>
    BY <1>32
    DEF FinalizeLifecycle, Turning, TurnReturns, Active, settleLifecycleInterruption
  <2>2. \A q \in Run \ {r} : status'[q] = status[q]
    BY <1>32 DEF FinalizeLifecycle, settleLifecycleInterruption, TypeOK
  <2>3. \A d \in Delivery : bound[d] = r /\ dstate[d] = "delivering" => d \in batch[r]
    BY <2>1 DEF Custody, BatchOK, BoundTo
  <2>5. ASSUME NEW d \in Delivery
        PROVE  /\ bound'[d] \in {bound[d], NoRun}
               /\ dstate'[d] = "delivering" => /\ dstate[d] = "delivering"
                                               /\ bound'[d] = bound[d] /\ bound[d] # r
    BY <1>32, <2>3
    DEF FinalizeLifecycle, settleLifecycleInterruption, LifecycleRows, LifecycleRetry,
        TypeOK
  <2> QED BY <2>1, <2>2, <2>5, ReturnCustody
<1>33. ASSUME NEW r \in Run, FinalizeRepairs(r) PROVE Custody'
  <2>1. /\ Active(r) /\ phase \in {"ready", "closing"}
        /\ pc' = [pc EXCEPT ![r] = "idle"] /\ batch' = [batch EXCEPT ![r] = {}]
        /\ UNCHANGED <<author, phase, todo, seen, resend>>
    BY <1>33
    DEF FinalizeRepairs, Turning, TurnReturns, Active, repairFailedFinalization, runs
  <2>2. \A q \in Run \ {r} : status'[q] = status[q]
    BY <1>33 DEF FinalizeRepairs, repairFailedFinalization, TypeOK, runs
  <2>3. \A d \in Delivery : bound[d] = r /\ dstate[d] = "delivering" => d \in batch[r]
    BY <2>1 DEF Custody, BatchOK, BoundTo
  <2>4. \A d \in Delivery :
          bound[d] = r /\ dstate[d] = "delivering" => status[r] = "running"
    BY DEF Custody, CustodyOK
  <2>5. ASSUME NEW d \in Delivery
        PROVE  /\ bound'[d] \in {bound[d], NoRun}
               /\ dstate'[d] = "delivering" => /\ dstate[d] = "delivering"
                                               /\ bound'[d] = bound[d] /\ bound[d] # r
    BY <1>33, <2>3, <2>4 DEF FinalizeRepairs, repairFailedFinalization, TypeOK, delv
  <2> QED BY <2>1, <2>2, <2>5, ReturnCustody
<1>34. ASSUME NEW r \in Run, NEW f \in FanOut, FinalizeCommits(r, f[1], f[2])
      PROVE  Custody'
  <2>1. /\ Active(r) /\ phase \in {"ready", "closing"}
        /\ pc' = [pc EXCEPT ![r] = "idle"] /\ batch' = [batch EXCEPT ![r] = {}]
        /\ UNCHANGED <<author, phase, todo, seen, resend>>
    BY <1>34 DEF FinalizeCommits, Turning, TurnReturns, Active, completeTurn
  <2>2. \A q \in Run \ {r} : status'[q] = status[q]
    BY <1>34 DEF FinalizeCommits, completeTurn, TypeOK
  <2>3. \A d \in Delivery : bound[d] = r /\ dstate[d] = "delivering" => d \in batch[r]
    BY <2>1 DEF Custody, BatchOK, BoundTo
  <2>4. f[1] \subseteq Delivery
    BY DEF FanOut, NextRow
  <2>5. ASSUME NEW d \in Delivery
        PROVE  /\ bound'[d] \in {bound[d], NoRun}
               /\ dstate'[d] = "delivering" => /\ dstate[d] = "delivering"
                                               /\ bound'[d] = bound[d] /\ bound[d] # r
    BY <1>34, <2>3, <2>4 DEF FinalizeCommits, completeTurn, RoutedState, TypeOK
  <2> QED BY <2>1, <2>2, <2>5, ReturnCustody
<1>35. ASSUME NEW r \in Run, retryRun(r) PROVE Custody'
  BY <1>35, SameCustody DEF retryRun, Act, delv, runs, flags, hist, Serving, TypeOK
<1>36. ASSUME NEW r \in Run, OrphanExits(r) PROVE Custody'
  BY <1>36, SameCustody DEF OrphanExits, delv, runs, mems, turns, flags, where, hist,
     count, TypeOK
<1>37. ASSUME NEW r \in Run, ReconcileRetries(r) PROVE Custody'
  <2>1. /\ Group(r) \in SUBSET Delivery /\ author[r] \in Agent /\ author[r] \notin inflight
        /\ r \in todo /\ todo' = todo \ {r} /\ phase = "boot" /\ pump = {}
        /\ UNCHANGED <<seen, phase, resend, pump>>
    BY <1>37, BoundAuthor
       DEF ReconcileRetries, Reconciling, Group, BoundTo, TurnsOK, turnStartEligibility
  <2>2. \A d \in Group(r) : To[d] = author[r]
    BY ConstantsAssumption DEF Group, BoundTo, TurnsOK, BoundOK
  <2>3. /\ ~Active(r)
        /\ \A d \in Delivery \ Group(r) : bound[d] = r => dstate[d] # "delivering"
    BY <2>1 DEF Custody, BootOK, Group, BoundTo
  <2>4. CASE \E then \in After : beginTurn(author[r], Group(r), {}, r, then)
    <3>1. PICK then \in After : beginTurn(author[r], Group(r), {}, r, then)
      BY <2>4
    <3> HIDE DEF Group
    <3> QED BY <2>1, <2>2, <2>3, <3>1, BeginCustody
  <2>5. CASE /\ dstate' = [d \in Delivery |-> IF d \in Group(r) THEN "held" ELSE dstate[d]]
             /\ UNCHANGED <<bound, runs, turns>>
    <3>1. \A d \in Delivery :
            dstate'[d] = "delivering" => dstate[d] = "delivering" /\ bound[d] # r
      BY <2>5 DEF Group, BoundTo, TypeOK
    <3> QED BY <2>1, <2>5, <3>1, LeaveCustody DEF runs, turns
  <2> QED BY <1>37, <2>4, <2>5 DEF ReconcileRetries, After
<1>38. ASSUME NEW r \in Run, HoldRows(r) PROVE Custody'
  BY <1>38, SameCustody DEF HoldRows, runs, mems, turns, flags, where, hist, count,
     TypeOK
<1>39. ASSUME NEW r \in Run, HoldRetires(r) PROVE Custody'
  <2>1. \A d \in Delivery : dstate[d] = "delivering" => bound[d] # r
    BY <1>39 DEF HoldRetires, Group, BoundTo
  <2> QED BY <1>39, <2>1, LeaveCustody DEF HoldRetires, delv, turns, flags, TypeOK, Status
<1>40. ASSUME NEW r \in Run, SettleStranded(r) PROVE Custody'
  BY <1>40, SameCustody DEF SettleStranded, settleLifecycleInterruption, turns, where,
     count, Stranded, BoundTo, LifecycleRows, LifecycleRetry, Custody, BootOK, TypeOK
<1>41. ASSUME NEW r \in Run, NEW f \in FanOut, ReconcileFinishes(r, f[1], f[2])
      PROVE  Custody'
  <2>1. /\ r \in todo /\ todo' = todo \ {r} /\ phase = "boot" /\ journal[r] \in Outcome
        /\ UNCHANGED <<turns, phase, seen, resend, author, bound>>
    BY <1>41 DEF ReconcileFinishes, Reconciling, completeTurn, repairFailedFinalization
  <2>2. \/ status' = [status EXCEPT ![r] = journal[r]]
        \/ status' = [status EXCEPT ![r] = "failed"]
    BY <1>41 DEF ReconcileFinishes, completeTurn, repairFailedFinalization
  <2>3. \A d \in Delivery :
          dstate'[d] = "delivering" => dstate[d] = "delivering" /\ bound[d] # r
    <3>1. f[1] \subseteq Delivery
      BY DEF FanOut, NextRow
    <3>2. CASE completeTurn(r, Group(r), journal[r], f[1], f[2])
      BY <3>1, <3>2 DEF completeTurn, RoutedState, Group, BoundTo, TypeOK
    <3>3. CASE repairFailedFinalization(r, Group(r))
      BY <3>3 DEF repairFailedFinalization, Group, BoundTo, TypeOK
    <3> QED BY <1>41, <3>2, <3>3 DEF ReconcileFinishes
  <2> QED BY <2>1, <2>2, <2>3, LeaveCustody DEF turns, TypeOK, Outcome
<1>42. ASSUME Boot PROVE Custody'
  <2>1. ThrowOK'
    BY <1>42 DEF Boot, delv, runs, mems, turns, flags, hist, count, BoundTo, Custody,
       ThrowOK, Active, TypeOK
  <2>2. CustodyOK'
    BY <1>42, ConstantsAssumption DEF Boot, delv, runs, mems, turns, flags, hist,
       count, BoundTo, Custody, CustodyOK, Active, TypeOK
  <2>3. BatchOK'
    BY <1>42 DEF Boot, delv, runs, mems, turns, flags, hist, count, BoundTo, Custody,
       BatchOK, Active, TypeOK
  <2>4. BootOK'
    BY <1>42 DEF Boot, delv, runs, mems, turns, flags, hist, count, BoundTo, Custody,
       BootOK, Active, TypeOK, CustodyOK
  <2> QED BY <2>1, <2>2, <2>3, <2>4 DEF Custody
<1>43. ASSUME Sweep PROVE Custody'
  <2>1. ThrowOK'
    BY <1>43 DEF Sweep, delv, runs, mems, turns, flags, hist, count, Custody, ThrowOK,
       Active, TypeOK
  <2>2. CustodyOK'
    BY <1>43 DEF Sweep, delv, runs, mems, turns, flags, hist, count, Custody,
       CustodyOK, Active, TypeOK
  <2>3. BatchOK'
    BY <1>43 DEF Sweep, delv, runs, mems, turns, flags, hist, count, Custody, BatchOK,
       Active, TypeOK, BoundTo
  <2>4. BootOK'
    BY <1>43 DEF Sweep, delv, runs, mems, turns, flags, hist, count, Custody, BootOK,
       Active, TypeOK
  <2> QED BY <2>1, <2>2, <2>3, <2>4 DEF Custody
<1>44. ASSUME Serve PROVE Custody'
  <2>1. ThrowOK'
    BY <1>44 DEF Serve, delv, runs, mems, turns, flags, hist, count, Custody, ThrowOK,
       Active, TypeOK
  <2>2. CustodyOK'
    BY <1>44 DEF Serve, delv, runs, mems, turns, flags, hist, count, Custody,
       CustodyOK, Active, TypeOK
  <2>3. BatchOK'
    BY <1>44 DEF Serve, delv, runs, mems, turns, flags, hist, count, Custody, BatchOK,
       Active, TypeOK, BoundTo
  <2>4. BootOK'
    BY <1>44 DEF Serve, delv, runs, mems, turns, flags, hist, count, Custody, BootOK,
       Active, TypeOK
  <2> QED BY <2>1, <2>2, <2>3, <2>4 DEF Custody
<1>45. ASSUME Close PROVE Custody'
  <2>1. ThrowOK'
    BY <1>45 DEF Close, delv, runs, mems, turns, hist, Serving, Quiet, Custody,
       ThrowOK, Active, TypeOK
  <2>2. CustodyOK'
    BY <1>45 DEF Close, delv, runs, mems, turns, hist, Serving, Quiet, Custody,
       CustodyOK, Active, TypeOK
  <2>3. BatchOK'
    BY <1>45 DEF Close, delv, runs, mems, turns, hist, Serving, Quiet, Custody,
       BatchOK, Active, TypeOK, BoundTo
  <2>4. BootOK'
    BY <1>45 DEF Close, delv, runs, mems, turns, hist, Serving, Quiet, Custody, BootOK,
       Active, TypeOK
  <2> QED BY <2>1, <2>2, <2>3, <2>4 DEF Custody
<1>46. ASSUME Closed PROVE Custody'
  <2>1. ThrowOK'
    BY <1>46 DEF Closed, MemoryLost, delv, runs, mems, hist, count, Quiet,
       OneTurnPerMember, TurnsOK, Custody, ThrowOK, Active, TypeOK
  <2>2. CustodyOK'
    BY <1>46 DEF Closed, MemoryLost, delv, runs, mems, hist, count, Quiet,
       OneTurnPerMember, TurnsOK, Custody, CustodyOK, Active, TypeOK
  <2>3. BatchOK'
    BY <1>46 DEF Closed, MemoryLost, delv, runs, mems, hist, count, Quiet,
       OneTurnPerMember, TurnsOK, Custody, BatchOK, Active, TypeOK, BoundTo
  <2>4. BootOK'
    BY <1>46 DEF Closed, MemoryLost, delv, runs, mems, hist, count, Quiet,
       OneTurnPerMember, TurnsOK, Custody, BootOK, Active, TypeOK
  <2> QED BY <2>1, <2>2, <2>3, <2>4 DEF Custody
<1>47. ASSUME Crash PROVE Custody'
  <2>1. ThrowOK'
    BY <1>47 DEF Crash, MemoryLost, delv, runs, mems, hist, Custody, ThrowOK, Active,
       TypeOK
  <2>2. CustodyOK'
    BY <1>47 DEF Crash, MemoryLost, delv, runs, mems, hist, Custody, CustodyOK, Active,
       TypeOK
  <2>3. BatchOK'
    BY <1>47 DEF Crash, MemoryLost, delv, runs, mems, hist, Custody, BatchOK, Active,
       TypeOK, BoundTo
  <2>4. BootOK'
    BY <1>47 DEF Crash, MemoryLost, delv, runs, mems, hist, Custody, BootOK, Active,
       TypeOK
  <2> QED BY <2>1, <2>2, <2>3, <2>4 DEF Custody
<1>48. ASSUME AwaitInput PROVE Custody'
  BY <1>48, SameCustody DEF AwaitInput, delv, runs, mems, turns, flags, where, hist,
     count, TypeOK, vars
<1>49. CASE UNCHANGED vars
  BY <1>49, SameCustody DEF vars, delv, runs, mems, turns, flags, where, hist, count,
     TypeOK
<1> QED BY <1>1, <1>2, <1>3, <1>4, <1>5, <1>6, <1>7, <1>8, <1>9, <1>10, <1>11,
          <1>12, <1>13, <1>14, <1>15, <1>16, <1>17, <1>18, <1>19, <1>20, <1>21,
          <1>22, <1>23, <1>24, <1>25, <1>26, <1>27, <1>28, <1>29, <1>30, <1>31,
          <1>32, <1>33, <1>34, <1>35, <1>36, <1>37, <1>38, <1>39, <1>40, <1>41,
          <1>42, <1>43, <1>44, <1>45, <1>46, <1>47, <1>48, <1>49
         DEF Next, SteerStep, DeliveryAct, MemberAct, TurnStep, Pump, BootStep
-----------------------------------------------------------------------------
(***************************************************************************)
(* Stops, and what leaves custody or the queue                             *)
(***************************************************************************)
\* Steps in which no one asks for a stop.
LEMMA SameStops ==
  ASSUME StopsOK, stops' \subseteq stops, lifes' \subseteq lifes, UNCHANGED phase
  PROVE  StopsOK'
BY DEF StopsOK

\* Every step keeps the two kinds of stop apart.
LEMMA StopsStep ==
  ASSUME StopsOK, [Next]_vars
  PROVE  StopsOK'
<1>1. ASSUME NEW d \in Delivery, NEW how \in {"skip", "hold", "steer", "queue"},
             Post(d, how)
      PROVE  StopsOK'
  BY <1>1, SameStops DEF Post
<1>2. ASSUME NEW d \in Delivery, SteerSkipped(d) PROVE StopsOK'
  BY <1>2, SameStops DEF SteerSkipped, SteerFallsBack
<1>3. ASSUME NEW d \in Delivery, SteerSent(d) PROVE StopsOK'
  BY <1>3, SameStops DEF SteerSent, where
<1>4. ASSUME NEW d \in Delivery, SteerRefused(d) PROVE StopsOK'
  BY <1>4, SameStops DEF SteerRefused, SteerFallsBack
<1>5. ASSUME NEW d \in Delivery, SteerAcknowledged(d) PROVE StopsOK'
  BY <1>5, SameStops DEF SteerAcknowledged, where
<1>6. ASSUME NEW d \in Delivery, HarnessAccepts(d) PROVE StopsOK'
  BY <1>6, SameStops DEF HarnessAccepts, where
<1>7. ASSUME NEW d \in Delivery, consumeDelivery(d) PROVE StopsOK'
  BY <1>7, SameStops DEF consumeDelivery, flags, where
<1>8. ASSUME NEW d \in Delivery, deleteMessage(d) PROVE StopsOK'
  BY <1>8, SameStops DEF deleteMessage, Act, flags, where
<1>9. ASSUME NEW d \in Delivery, Redeliver(d) PROVE StopsOK'
  BY <1>9, SameStops DEF Redeliver, Act, redeliver
<1>10. ASSUME NEW d \in Delivery, RetryRunResends(d) PROVE StopsOK'
  BY <1>10, SameStops DEF RetryRunResends, redeliver
<1>11. ASSUME NEW d \in Delivery, ReleaseRefused(d) PROVE StopsOK'
  BY <1>11, SameStops DEF ReleaseRefused, Act, flags, where
<1>12. ASSUME NEW d \in Delivery, ReleaseResumes(d) PROVE StopsOK'
  BY <1>12, SameStops DEF ReleaseResumes, Act, where
<1>13. ASSUME NEW d \in Delivery, ReleaseQueues(d) PROVE StopsOK'
  BY <1>13, SameStops DEF ReleaseQueues, Act
<1>14. ASSUME NEW m \in Agent, AnswerAsk(m) PROVE StopsOK'
  BY <1>14, SameStops DEF AnswerAsk, flags, where
<1>15. ASSUME NEW m \in Agent, interruptMember(m) PROVE StopsOK'
  BY <1>15 DEF interruptMember, Act, where, Serving, StopsOK
<1>16. ASSUME NEW m \in Agent, killMember(m) PROVE StopsOK'
  BY <1>16, SameStops DEF killMember, Act, flags, where
<1>17. ASSUME NEW m \in Agent, reviveMember(m) PROVE StopsOK'
  BY <1>17, SameStops DEF reviveMember, Act, flags
<1>18. ASSUME NEW m \in Agent, pauseMember(m) PROVE StopsOK'
  BY <1>18, SameStops DEF pauseMember, Act, flags, where
<1>19. ASSUME NEW m \in Agent, unpauseMember(m) PROVE StopsOK'
  BY <1>19, SameStops DEF unpauseMember, Act, flags
<1>20. ASSUME NEW m \in Agent, removeMember(m) PROVE StopsOK'
  BY <1>20, SameStops DEF removeMember, Act, flags, where
<1>21. ASSUME NEW m \in Agent, PumpNothing(m) PROVE StopsOK'
  BY <1>21, SameStops DEF PumpNothing, flags
<1>22. ASSUME NEW m \in Agent, PumpStart(m) PROVE StopsOK'
  BY <1>22, SameStops DEF PumpStart
<1>23. ASSUME NEW m \in Agent, PumpFenced(m) PROVE StopsOK'
  BY <1>23, SameStops DEF PumpFenced
<1>24. ASSUME NEW m \in Agent, PumpAgain(m) PROVE StopsOK'
  BY <1>24, SameStops DEF PumpAgain, flags
<1>25. ASSUME NEW r \in Run, StartThrows(r) PROVE StopsOK'
  BY <1>25, SameStops DEF StartThrows, flags, where
<1>26. ASSUME NEW r \in Run, AdapterSpawns(r) PROVE StopsOK'
  BY <1>26, SameStops DEF AdapterSpawns, flags, where
<1>27. ASSUME NEW r \in Run, setDeliveryAttemptProcess(r) PROVE StopsOK'
  BY <1>27, SameStops DEF setDeliveryAttemptProcess, flags, where
<1>28. ASSUME NEW r \in Run, JournalStarted(r) PROVE StopsOK'
  BY <1>28, SameStops DEF JournalStarted, flags, where
<1>29. ASSUME NEW r \in Run, RaiseAsk(r) PROVE StopsOK'
  BY <1>29, SameStops DEF RaiseAsk, flags, where
<1>30. ASSUME NEW r \in Run, NEW o \in Outcome, JournalCompleted(r, o) PROVE StopsOK'
  BY <1>30, SameStops DEF JournalCompleted, flags, where
<1>31. ASSUME NEW r \in Run, NEW o \in Outcome, StreamEnds(r, o) PROVE StopsOK'
  BY <1>31, SameStops DEF StreamEnds, flags, where
<1>32. ASSUME NEW r \in Run, FinalizeLifecycle(r) PROVE StopsOK'
  BY <1>32, SameStops DEF FinalizeLifecycle
<1>33. ASSUME NEW r \in Run, FinalizeRepairs(r) PROVE StopsOK'
  BY <1>33, SameStops DEF FinalizeRepairs
<1>34. ASSUME NEW r \in Run, NEW f \in FanOut, FinalizeCommits(r, f[1], f[2])
      PROVE  StopsOK'
  BY <1>34, SameStops DEF FinalizeCommits
<1>35. ASSUME NEW r \in Run, retryRun(r) PROVE StopsOK'
  BY <1>35, SameStops DEF retryRun, Act, flags
<1>36. ASSUME NEW r \in Run, OrphanExits(r) PROVE StopsOK'
  BY <1>36, SameStops DEF OrphanExits, flags, where
<1>37. ASSUME NEW r \in Run, ReconcileRetries(r) PROVE StopsOK'
  BY <1>37, SameStops DEF ReconcileRetries
<1>38. ASSUME NEW r \in Run, HoldRows(r) PROVE StopsOK'
  BY <1>38, SameStops DEF HoldRows, flags, where
<1>39. ASSUME NEW r \in Run, HoldRetires(r) PROVE StopsOK'
  BY <1>39, SameStops DEF HoldRetires, flags
<1>40. ASSUME NEW r \in Run, SettleStranded(r) PROVE StopsOK'
  BY <1>40, SameStops DEF SettleStranded, where
<1>41. ASSUME NEW r \in Run, NEW f \in FanOut, ReconcileFinishes(r, f[1], f[2])
      PROVE  StopsOK'
  BY <1>41, SameStops DEF ReconcileFinishes
<1>42. ASSUME Boot PROVE StopsOK'
  BY <1>42 DEF Boot, flags, StopsOK
<1>43. ASSUME Sweep PROVE StopsOK'
  BY <1>43 DEF Sweep, flags, StopsOK
<1>44. ASSUME Serve PROVE StopsOK'
  BY <1>44 DEF Serve, flags, StopsOK
<1>45. ASSUME Close PROVE StopsOK'
  <2>1. phase = "ready" /\ phase' = "closing" /\ UNCHANGED stops /\ lifes = {}
    BY <1>45 DEF Close, Serving, StopsOK
  <2>2. \A m \in lifes' : m \notin stops
    BY <1>45, <2>1 DEF Close, snapshotInFlightTurns
  <2> QED BY <2>1, <2>2 DEF StopsOK
<1>46. ASSUME Closed PROVE StopsOK'
  BY <1>46 DEF Closed, MemoryLost, StopsOK
<1>47. ASSUME Crash PROVE StopsOK'
  BY <1>47 DEF Crash, MemoryLost, StopsOK
<1>48. ASSUME AwaitInput PROVE StopsOK'
  BY <1>48, SameStops DEF AwaitInput, vars, flags, where
<1>49. CASE UNCHANGED vars
  BY <1>49, SameStops DEF vars, flags, where
<1> QED BY <1>1, <1>2, <1>3, <1>4, <1>5, <1>6, <1>7, <1>8, <1>9, <1>10, <1>11,
          <1>12, <1>13, <1>14, <1>15, <1>16, <1>17, <1>18, <1>19, <1>20, <1>21,
          <1>22, <1>23, <1>24, <1>25, <1>26, <1>27, <1>28, <1>29, <1>30, <1>31,
          <1>32, <1>33, <1>34, <1>35, <1>36, <1>37, <1>38, <1>39, <1>40, <1>41,
          <1>42, <1>43, <1>44, <1>45, <1>46, <1>47, <1>48, <1>49
         DEF Next, SteerStep, DeliveryAct, MemberAct, TurnStep, Pump, BootStep
\* Fed back to the queue without an operator asking: only by a shutdown, or by
\* the second pass of boot.
Requeued(d) == dstate[d] = "delivering" /\ dstate'[d] = "queued"

\* Put on hold while it waits in the queue.
PutOnHold(d) == dstate[d] = "queued" /\ dstate'[d] = "held"

RowMoves(d) ==
  /\ Requeued(d) => \/ d \in forced'
                    \/ phase = "sweep"
                    \/ \E r \in Run : FinalizeLifecycle(r) /\ d \in batch[r]
  /\ PutOnHold(d) => d \notin released

\* Rows that move to no queue and no hold, or that were not in custody or queued.
LEMMA StillRows ==
  ASSUME NEW d \in Delivery,
         dstate'[d] \in {"queued", "held"} => dstate'[d] = dstate[d]
  PROVE  RowMoves(d)
BY DEF RowMoves, Requeued, PutOnHold

\* A batch of a collaboration round is a single row.
LEMMA GroupedBatch ==
  ASSUME NEW m \in Agent, NEW d \in selectDeliveryBatchPrefix(Queue(m)), Grouped(d)
  PROVE  selectDeliveryBatchPrefix(Queue(m)) = {d}
<1>1. ASSUME NEW e \in selectDeliveryBatchPrefix(Queue(m)) PROVE e = d
  <2>1. /\ d \in Delivery /\ e \in Delivery /\ To[d] = m /\ To[e] = m
        /\ d \in Queue(m) /\ e \in Queue(m)
        /\ \A x, y \in Queue(m) : x <= d /\ y <= d => Class[x] = Class[y]
        /\ \A x, y \in Queue(m) : x <= e /\ y <= e => Class[x] = Class[y]
    BY DEF selectDeliveryBatchPrefix, Queue
  <2>2. d \in Nat /\ e \in Nat
    BY <2>1, ConstantsAssumption
  <2>3. Class[d] = Class[e]
    BY <2>1, <2>2
  <2> QED BY <2>1, <2>3, ConstantsAssumption DEF Grouped
<1> QED BY <1>1

\* How a row leaves custody for the queue, and the queue for a hold.
LEMMA MovesStep ==
  ASSUME TypeOK, NEW x \in Delivery, [Next]_vars
  PROVE  RowMoves(x)
<1>1. ASSUME NEW d \in Delivery, NEW how \in {"skip", "hold", "steer", "queue"},
             Post(d, how)
      PROVE  RowMoves(x)
  <2>1. dstate'[x] = dstate[x] \/ dstate[x] = "absent"
    BY <1>1 DEF Post, NextRow, TypeOK
  <2> QED BY <2>1 DEF RowMoves, Requeued, PutOnHold
<1>2. ASSUME NEW d \in Delivery, SteerSkipped(d) PROVE RowMoves(x)
  BY <1>2, StillRows DEF SteerSkipped, SteerFallsBack, delv, TypeOK
<1>3. ASSUME NEW d \in Delivery, SteerSent(d) PROVE RowMoves(x)
  BY <1>3, StillRows DEF SteerSent, delv, TypeOK
<1>4. ASSUME NEW d \in Delivery, SteerRefused(d) PROVE RowMoves(x)
  BY <1>4, StillRows DEF SteerRefused, SteerFallsBack, delv, TypeOK
<1>5. ASSUME NEW d \in Delivery, SteerAcknowledged(d) PROVE RowMoves(x)
  BY <1>5, StillRows DEF SteerAcknowledged, TypeOK
<1>6. ASSUME NEW d \in Delivery, HarnessAccepts(d) PROVE RowMoves(x)
  BY <1>6, StillRows DEF HarnessAccepts, delv, TypeOK
<1>7. ASSUME NEW d \in Delivery, consumeDelivery(d) PROVE RowMoves(x)
  BY <1>7, StillRows DEF consumeDelivery, TypeOK
<1>8. ASSUME NEW d \in Delivery, deleteMessage(d) PROVE RowMoves(x)
  BY <1>8, StillRows DEF deleteMessage, Act, TypeOK
<1>9. ASSUME NEW d \in Delivery, Redeliver(d) PROVE RowMoves(x)
  BY <1>9 DEF Redeliver, redeliver, RowMoves, Requeued, PutOnHold, TypeOK
<1>10. ASSUME NEW d \in Delivery, RetryRunResends(d) PROVE RowMoves(x)
  BY <1>10 DEF RetryRunResends, redeliver, RowMoves, Requeued, PutOnHold, TypeOK
<1>11. ASSUME NEW d \in Delivery, ReleaseRefused(d) PROVE RowMoves(x)
  BY <1>11, StillRows DEF ReleaseRefused, Act, TypeOK
<1>12. ASSUME NEW d \in Delivery, ReleaseResumes(d) PROVE RowMoves(x)
  <2>1. dstate'[x] \in {"delivering", dstate[x]}
    BY <1>12 DEF ReleaseResumes, beginTurn
  <2> QED BY <2>1, StillRows
<1>13. ASSUME NEW d \in Delivery, ReleaseQueues(d) PROVE RowMoves(x)
  BY <1>13 DEF ReleaseQueues, RowMoves, Requeued, PutOnHold, TypeOK
<1>14. ASSUME NEW m \in Agent, AnswerAsk(m) PROVE RowMoves(x)
  BY <1>14, StillRows DEF AnswerAsk, delv, TypeOK
<1>15. ASSUME NEW m \in Agent, interruptMember(m) PROVE RowMoves(x)
  BY <1>15, StillRows DEF interruptMember, Act, delv, TypeOK
<1>16. ASSUME NEW m \in Agent, killMember(m) PROVE RowMoves(x)
  BY <1>16, StillRows DEF killMember, Act, TypeOK
<1>17. ASSUME NEW m \in Agent, reviveMember(m) PROVE RowMoves(x)
  BY <1>17, StillRows DEF reviveMember, Act, delv, TypeOK
<1>18. ASSUME NEW m \in Agent, pauseMember(m) PROVE RowMoves(x)
  BY <1>18, StillRows DEF pauseMember, Act, delv, TypeOK
<1>19. ASSUME NEW m \in Agent, unpauseMember(m) PROVE RowMoves(x)
  BY <1>19, StillRows DEF unpauseMember, Act, delv, TypeOK
<1>20. ASSUME NEW m \in Agent, removeMember(m) PROVE RowMoves(x)
  BY <1>20, StillRows DEF removeMember, Act, TypeOK
<1>21. ASSUME NEW m \in Agent, PumpNothing(m) PROVE RowMoves(x)
  BY <1>21, StillRows DEF PumpNothing, delv, TypeOK
<1>22. ASSUME NEW m \in Agent, PumpStart(m) PROVE RowMoves(x)
  <2> DEFINE B == selectDeliveryBatchPrefix(Queue(m))
  <2>1. PICK H \in SUBSET Brakable(B) :
          LET HH == IF H # {} /\ \E d \in B : Grouped(d) THEN B ELSE H
          IN \/ /\ HH = B
                /\ dstate' = [d \in Delivery |-> IF d \in B THEN "held" ELSE dstate[d]]
             \/ \E r \in FreshRuns : beginTurn(m, B \ HH, HH, r, "drain")
    BY <1>22 DEF PumpStart
  <2>2. H \cap released = {} /\ \A d \in B : dstate[d] = "queued"
    BY DEF Brakable, selectDeliveryBatchPrefix, Queue
  <2>3. H # {} /\ (\E d \in B : Grouped(d)) => B = H
    <3>1. H \subseteq B
      BY DEF Brakable
    <3>2. ASSUME NEW d \in B, Grouped(d) PROVE B = {d}
      BY <3>2, GroupedBatch
    <3> QED BY <3>1, <3>2
  <2>4. PICK HH : /\ HH \cap released = {}
                  /\ \/ /\ HH = B
                        /\ dstate' = [d \in Delivery |-> IF d \in B THEN "held"
                                                       ELSE dstate[d]]
                     \/ \E r \in FreshRuns : beginTurn(m, B \ HH, HH, r, "drain")
    BY <2>1, <2>2, <2>3
  <2> HIDE DEF B
  <2>5. /\ dstate'[x] \in {"delivering", "held", dstate[x]}
        /\ dstate'[x] = "held" => x \in HH \/ dstate[x] = "held"
    BY <2>4 DEF beginTurn
  <2> QED BY <2>4, <2>5 DEF RowMoves, Requeued, PutOnHold
<1>23. ASSUME NEW m \in Agent, PumpFenced(m) PROVE RowMoves(x)
  <2>1. /\ dstate'[x] \in {"held", dstate[x]}
        /\ dstate'[x] = "held" => x \notin released \/ dstate[x] = "held"
    BY <1>23 DEF PumpFenced, Brakable
  <2> QED BY <2>1 DEF RowMoves, Requeued, PutOnHold
<1>24. ASSUME NEW m \in Agent, PumpAgain(m) PROVE RowMoves(x)
  BY <1>24, StillRows DEF PumpAgain, delv, TypeOK
<1>25. ASSUME NEW r \in Run, StartThrows(r) PROVE RowMoves(x)
  BY <1>25, StillRows DEF StartThrows, delv, TypeOK
<1>26. ASSUME NEW r \in Run, AdapterSpawns(r) PROVE RowMoves(x)
  BY <1>26, StillRows DEF AdapterSpawns, delv, TypeOK
<1>27. ASSUME NEW r \in Run, setDeliveryAttemptProcess(r) PROVE RowMoves(x)
  BY <1>27, StillRows DEF setDeliveryAttemptProcess, TypeOK
<1>28. ASSUME NEW r \in Run, JournalStarted(r) PROVE RowMoves(x)
  BY <1>28, StillRows DEF JournalStarted, delv, TypeOK
<1>29. ASSUME NEW r \in Run, RaiseAsk(r) PROVE RowMoves(x)
  BY <1>29, StillRows DEF RaiseAsk, delv, TypeOK
<1>30. ASSUME NEW r \in Run, NEW o \in Outcome, JournalCompleted(r, o)
      PROVE  RowMoves(x)
  BY <1>30, StillRows DEF JournalCompleted, delv, TypeOK
<1>31. ASSUME NEW r \in Run, NEW o \in Outcome, StreamEnds(r, o) PROVE RowMoves(x)
  BY <1>31, StillRows DEF StreamEnds, delv, TypeOK
<1>32. ASSUME NEW r \in Run, FinalizeLifecycle(r) PROVE RowMoves(x)
  BY <1>32 DEF FinalizeLifecycle, settleLifecycleInterruption, LifecycleRows,
     LifecycleRetry, RowMoves, Requeued, PutOnHold, TypeOK
<1>33. ASSUME NEW r \in Run, FinalizeRepairs(r) PROVE RowMoves(x)
  <2>1. \/ dstate'[x] \in {"consumed", dstate[x]}
        \/ dstate[x] = "delivering" /\ dstate'[x] = "held"
    BY <1>33 DEF FinalizeRepairs, repairFailedFinalization, delv
  <2> QED BY <2>1 DEF RowMoves, Requeued, PutOnHold
<1>34. ASSUME NEW r \in Run, NEW f \in FanOut, FinalizeCommits(r, f[1], f[2])
      PROVE  RowMoves(x)
  <2>1. \A y \in f[1] : y \in Delivery /\ dstate[y] = "absent"
    BY DEF FanOut, NextRow
  <2>2. dstate'[x] \in {"consumed", dstate[x]} \/ dstate[x] = "absent"
    BY <1>34, <2>1 DEF FinalizeCommits, completeTurn
  <2> QED BY <2>2 DEF RowMoves, Requeued, PutOnHold
<1>35. ASSUME NEW r \in Run, retryRun(r) PROVE RowMoves(x)
  BY <1>35, StillRows DEF retryRun, Act, delv, TypeOK
<1>36. ASSUME NEW r \in Run, OrphanExits(r) PROVE RowMoves(x)
  BY <1>36, StillRows DEF OrphanExits, delv, TypeOK
<1>37. ASSUME NEW r \in Run, ReconcileRetries(r) PROVE RowMoves(x)
  <2>1. \/ dstate'[x] \in {"delivering", dstate[x]}
        \/ dstate[x] = "delivering" /\ dstate'[x] = "held"
    BY <1>37 DEF ReconcileRetries, beginTurn, Group, BoundTo
  <2> QED BY <2>1 DEF RowMoves, Requeued, PutOnHold
<1>38. ASSUME NEW r \in Run, HoldRows(r) PROVE RowMoves(x)
  <2>1. dstate'[x] = dstate[x] \/ (dstate[x] = "delivering" /\ dstate'[x] = "held")
    BY <1>38 DEF HoldRows, Group, BoundTo
  <2> QED BY <2>1 DEF RowMoves, Requeued, PutOnHold
<1>39. ASSUME NEW r \in Run, HoldRetires(r) PROVE RowMoves(x)
  BY <1>39, StillRows DEF HoldRetires, delv, TypeOK
<1>40. ASSUME NEW r \in Run, SettleStranded(r) PROVE RowMoves(x)
  BY <1>40 DEF SettleStranded, settleLifecycleInterruption, LifecycleRows,
     LifecycleRetry, RowMoves, Requeued, PutOnHold, TypeOK
<1>41. ASSUME NEW r \in Run, NEW f \in FanOut, ReconcileFinishes(r, f[1], f[2])
      PROVE  RowMoves(x)
  <2>1. \A y \in f[1] : y \in Delivery /\ dstate[y] = "absent"
    BY DEF FanOut, NextRow
  <2>2. \/ dstate'[x] \in {"consumed", dstate[x]} \/ dstate[x] = "absent"
        \/ (dstate[x] = "delivering" /\ dstate'[x] = "held")
    BY <1>41, <2>1 DEF ReconcileFinishes, completeTurn, repairFailedFinalization
  <2> QED BY <2>2 DEF RowMoves, Requeued, PutOnHold
<1>42. ASSUME Boot PROVE RowMoves(x)
  BY <1>42, StillRows DEF Boot, delv, TypeOK
<1>43. ASSUME Sweep PROVE RowMoves(x)
  BY <1>43, StillRows DEF Sweep, delv, TypeOK
<1>44. ASSUME Serve PROVE RowMoves(x)
  BY <1>44, StillRows DEF Serve, delv, TypeOK
<1>45. ASSUME Close PROVE RowMoves(x)
  BY <1>45, StillRows DEF Close, delv, TypeOK
<1>46. ASSUME Closed PROVE RowMoves(x)
  BY <1>46, StillRows DEF Closed, delv, TypeOK
<1>47. ASSUME Crash PROVE RowMoves(x)
  BY <1>47, StillRows DEF Crash, delv, TypeOK
<1>48. ASSUME AwaitInput PROVE RowMoves(x)
  BY <1>48, StillRows DEF AwaitInput, vars, delv, TypeOK
<1>49. CASE UNCHANGED vars
  BY <1>49, StillRows DEF vars, delv
<1> QED BY <1>1, <1>2, <1>3, <1>4, <1>5, <1>6, <1>7, <1>8, <1>9, <1>10, <1>11,
          <1>12, <1>13, <1>14, <1>15, <1>16, <1>17, <1>18, <1>19, <1>20, <1>21,
          <1>22, <1>23, <1>24, <1>25, <1>26, <1>27, <1>28, <1>29, <1>30, <1>31,
          <1>32, <1>33, <1>34, <1>35, <1>36, <1>37, <1>38, <1>39, <1>40, <1>41,
          <1>42, <1>43, <1>44, <1>45, <1>46, <1>47, <1>48, <1>49
         DEF Next, SteerStep, DeliveryAct, MemberAct, TurnStep, Pump, BootStep
-----------------------------------------------------------------------------
(***************************************************************************)
(* Runs                                                                    *)
(***************************************************************************)
\* Steps that change no run and send no bound row to the queue or on hold.
LEMMA SameRuns ==
  ASSUME TypeOK, RunsOK,
         \A d \in Delivery : \/ dstate'[d] = dstate[d]
                             \/ dstate'[d] = "consumed"
                             \/ bound[d] = NoRun /\ dstate'[d] # "absent",
         \A r \in Run : pc'[r] = "idle" <=> pc[r] = "idle",
         UNCHANGED <<bound, status, phase, todo, seen>>
  PROVE  RunsOK'
<1>1. AccountedFor'
  BY DEF RunsOK, AccountedFor, Active
<1>2. ASSUME NEW r \in Run PROVE BoundTo(r)' = BoundTo(r) /\ (Whole(r) => Whole(r)')
  BY ConstantsAssumption DEF BoundTo, Whole
<1>3. ASSUME NEW r \in Run, HalfHeld(r) PROVE HalfHeld(r)'
  BY <1>3, ConstantsAssumption DEF BoundTo, HalfHeld, Group
<1>4. RowsOK'
  BY <1>2, <1>3 DEF RunsOK, RowsOK, Active
<1>5. WaitingOK'
  BY DEF RunsOK, WaitingOK
<1> QED BY <1>1, <1>4, <1>5 DEF RunsOK

\* redeliver leaves no running run without a row.
LEMMA RedeliverRuns ==
  ASSUME TypeOK, Custody, RunsOK, NEW d \in Delivery, redeliver(d), phase = "ready"
  PROVE  RunsOK'
<1>1. todo = {} /\ UNCHANGED <<pc, phase, todo, seen>>
  BY DEF redeliver, Custody, BootOK
<1>2. /\ dstate'[d] = "queued" /\ bound'[d] = NoRun
      /\ \A e \in Delivery : e # d => dstate'[e] = dstate[e] /\ bound'[e] = bound[e]
  BY DEF redeliver, TypeOK
<1>3. \A r \in Run : IF status[r] = "running" /\ BoundTo(r) = {d}
                     THEN status'[r] = "interrupted" ELSE status'[r] = status[r]
  BY DEF redeliver, RetiredWith
<1>4. \A r \in Run : BoundTo(r)' = BoundTo(r) \ {d}
  BY <1>2, ConstantsAssumption DEF BoundTo
<1>5. AccountedFor'
  BY <1>1, <1>3 DEF RunsOK, AccountedFor, Active
<1>6. \A r \in Run : ~HalfHeld(r)
  BY DEF HalfHeld
<1>7. ASSUME NEW r \in Run, Whole(r) PROVE Whole(r)'
  BY <1>2, <1>4, <1>7 DEF Whole, BoundTo
<1>8. ASSUME NEW r \in Run, status'[r] = "running" PROVE Whole(r)' /\ BoundTo(r)' # {}
  <2>1. status[r] = "running" /\ BoundTo(r) # {d}
    BY <1>3, <1>8
  <2>2. Whole(r) /\ BoundTo(r) # {}
    BY <1>6, <2>1 DEF RunsOK, RowsOK
  <2> QED BY <1>4, <1>7, <2>1, <2>2
<1>9. RowsOK'
  BY <1>1, <1>7, <1>8 DEF RunsOK, RowsOK, Active
<1>10. WaitingOK'
  <2>1. ASSUME NEW e \in Delivery, e # d, dstate[e] = "queued", bound[e] # NoRun
        PROVE  status'[bound[e]] \in {"failed", "completed"}
    BY <1>3, <2>1 DEF RunsOK, WaitingOK, TypeOK
  <2> QED BY <1>2, <2>1 DEF RunsOK, WaitingOK
<1> QED BY <1>5, <1>9, <1>10 DEF RunsOK

\* beginTurn on rows that no other run is running with.
LEMMA BeginRuns ==
  ASSUME TypeOK, RunsOK, NEW m \in Agent, NEW X \in SUBSET Delivery, NEW r \in Run,
         NEW then, beginTurn(m, X, {}, r, then), X # {},
         \A d \in Delivery \ X : bound[d] = r => dstate[d] \in {"delivering", "consumed"},
         \A d \in X : bound[d] \in {NoRun, r} \/ status[bound[d]] # "running",
         todo' = todo \ {r}, UNCHANGED <<seen, phase>>
  PROVE  RunsOK'
<1>1. /\ \A d \in X : dstate'[d] = "delivering" /\ bound'[d] = r
      /\ \A d \in Delivery \ X : dstate'[d] = dstate[d] /\ bound'[d] = bound[d]
  BY DEF beginTurn
<1>2. /\ status'[r] = "running" /\ pc'[r] # "idle"
      /\ \A q \in Run : q # r => status'[q] = status[q] /\ pc'[q] = pc[q]
  <2>1. pc' = [pc EXCEPT ![r] = "begun"] \/ pc' = [pc EXCEPT ![r] = "threw"]
    BY DEF beginTurn
  <2>2. status' = [status EXCEPT ![r] = "running"]
    BY DEF beginTurn
  <2> QED BY <2>1, <2>2 DEF TypeOK
<1>3. AccountedFor'
  BY <1>2 DEF RunsOK, AccountedFor, Active
<1>4. Whole(r)' /\ BoundTo(r)' # {}
  BY <1>1 DEF Whole, BoundTo
<1>5. ASSUME NEW q \in Run, q # r
      PROVE  /\ BoundTo(q)' = BoundTo(q) \ X
             /\ Whole(q) => Whole(q)'
             /\ HalfHeld(q) => HalfHeld(q)'
  <2>1. BoundTo(q)' = BoundTo(q) \ X
    BY <1>1, <1>5 DEF BoundTo
  <2>2. Whole(q) => Whole(q)'
    BY <1>1, <2>1 DEF Whole, BoundTo
  <2>3. HalfHeld(q) => HalfHeld(q)'
    BY <1>1, <1>5, <2>1 DEF HalfHeld, Group, BoundTo
  <2> QED BY <2>1, <2>2, <2>3
<1>6. ASSUME NEW q \in Run, q # r, status[q] = "running" PROVE BoundTo(q) \ X = BoundTo(q)
  BY <1>6, ConstantsAssumption DEF BoundTo
<1>7. RowsOK'
  <2>1. ASSUME NEW q \in Run, q # r
        PROVE  /\ status'[q] = "running" => (Whole(q) /\ BoundTo(q) # {})' \/ HalfHeld(q)'
               /\ Active(q)' => Whole(q)'
    BY <1>2, <1>5, <1>6, <2>1 DEF RunsOK, RowsOK, Active
  <2> QED BY <1>4, <2>1 DEF RowsOK
<1>8. WaitingOK'
  <2>1. ASSUME NEW d \in Delivery, dstate'[d] = "queued", bound'[d] # NoRun
        PROVE  status'[bound'[d]] \in {"failed", "completed"}
    <3>1. dstate[d] = "queued" /\ bound'[d] = bound[d] /\ bound[d] # r /\ bound[d] \in Run
      BY <1>1, <2>1 DEF TypeOK
    <3> QED BY <1>2, <2>1, <3>1 DEF RunsOK, WaitingOK
  <2> QED BY <1>1, <2>1 DEF RunsOK, WaitingOK
<1> QED BY <1>3, <1>7, <1>8 DEF RunsOK

\* A run that is settled: its turn returns, boot leaves it, or the sweep settles it.
LEMMA EndRuns ==
  ASSUME TypeOK, RunsOK, NEW r \in Run, status'[r] # "running",
         \A q \in Run \ {r} : status'[q] = status[q] /\ (Active(q)' <=> Active(q)),
         todo' = todo \ {r}, UNCHANGED <<phase, seen>>,
         \A d \in Delivery :
           /\ bound[d] \notin {r, NoRun} => /\ bound'[d] = bound[d]
                                            /\ dstate'[d] \in {dstate[d], "consumed"}
           /\ bound[d] \in {r, NoRun} => bound'[d] \in {bound[d], NoRun}
           /\ bound'[d] = r => /\ dstate'[d] \notin {"absent", "queued"}
                               /\ Active(r)' => dstate'[d] = "consumed"
  PROVE  RunsOK'
<1>1. AccountedFor'
  BY DEF RunsOK, AccountedFor
<1>2. ASSUME NEW q \in Run, q # r
      PROVE  /\ BoundTo(q)' = BoundTo(q)
             /\ Whole(q) => Whole(q)'
             /\ HalfHeld(q) => HalfHeld(q)'
  <2>1. BoundTo(q)' = BoundTo(q)
    BY <1>2, ConstantsAssumption DEF BoundTo
  <2>2. \A d \in BoundTo(q) : dstate'[d] \in {dstate[d], "consumed"}
    BY <1>2, ConstantsAssumption DEF BoundTo
  <2>3. Whole(q) => Whole(q)'
    BY <2>1, <2>2 DEF Whole
  <2>4. HalfHeld(q) => HalfHeld(q)'
    BY <1>2, <2>1, <2>2 DEF HalfHeld, Group
  <2> QED BY <2>1, <2>3, <2>4
<1>3. Active(r)' => Whole(r)'
  BY DEF Whole, BoundTo
<1>4. RowsOK'
  <2>1. ASSUME NEW q \in Run, q # r
        PROVE  /\ status'[q] = "running" => (Whole(q) /\ BoundTo(q) # {})' \/ HalfHeld(q)'
               /\ Active(q)' => Whole(q)'
    BY <1>2, <2>1 DEF RunsOK, RowsOK
  <2> QED BY <1>3, <2>1 DEF RowsOK
<1>5. WaitingOK'
  <2>1. ASSUME NEW d \in Delivery, dstate'[d] = "queued", bound'[d] # NoRun
        PROVE  status'[bound'[d]] \in {"failed", "completed"}
    <3>1. bound'[d] # r /\ bound'[d] = bound[d] /\ dstate[d] = "queued" /\ bound[d] \in Run
      BY <2>1 DEF TypeOK
    <3> QED BY <2>1, <3>1 DEF RunsOK, WaitingOK
  <2>2. ASSUME NEW d \in Delivery, dstate'[d] = "absent" PROVE bound'[d] = NoRun
    BY <2>2 DEF RunsOK, WaitingOK, TypeOK
  <2> QED BY <2>1, <2>2 DEF WaitingOK
<1> QED BY <1>1, <1>4, <1>5 DEF RunsOK

\* While the daemon serves, no row of a running run is on the queue or on hold.
LEMMA NoneLeft ==
  ASSUME TypeOK, RunsOK, phase # "boot", NEW X \in SUBSET Delivery,
         \A d \in X : dstate[d] \in {"queued", "held"}
  PROVE  LeftWithout(X) = {}
BY DEF RunsOK, RowsOK, HalfHeld, Whole, LeftWithout, BoundTo

\* Every step keeps running runs accounted for.
LEMMA RunsStep ==
  ASSUME BrokenStart = {}, Brakes = FALSE, TypeOK, TurnsOK, Custody, RunsOK,
         HoldIsWhole, [Next]_vars
  PROVE  RunsOK'
<1>1. ASSUME NEW d \in Delivery, NEW how \in {"skip", "hold", "steer", "queue"},
             Post(d, how)
      PROVE  RunsOK'
  <2>1. dstate[d] = "absent" /\ bound[d] = NoRun
    BY <1>1 DEF Post, NextRow, RunsOK, WaitingOK
  <2> QED BY <1>1, <2>1, SameRuns DEF Post, RoutedState, runs, turns, TypeOK
<1>2. ASSUME NEW d \in Delivery, SteerSkipped(d) PROVE RunsOK'
  BY <1>2, SameRuns DEF SteerSkipped, SteerFallsBack, delv, runs, turns, hist, count,
     TypeOK
<1>3. ASSUME NEW d \in Delivery, SteerSent(d) PROVE RunsOK'
  BY <1>3, SameRuns DEF SteerSent, delv, runs, mems, turns, where, hist, count, TypeOK
<1>4. ASSUME NEW d \in Delivery, SteerRefused(d) PROVE RunsOK'
  BY <1>4, SameRuns DEF SteerRefused, SteerFallsBack, delv, runs, turns, hist, count,
     TypeOK
<1>5. ASSUME NEW d \in Delivery, SteerAcknowledged(d) PROVE RunsOK'
  BY <1>5, SameRuns DEF SteerAcknowledged, runs, mems, turns, where, hist, count,
     TypeOK
<1>6. ASSUME NEW d \in Delivery, HarnessAccepts(d) PROVE RunsOK'
  BY <1>6, SameRuns DEF HarnessAccepts, delv, runs, mems, turns, where, count, TypeOK
<1>7. ASSUME NEW d \in Delivery, consumeDelivery(d) PROVE RunsOK'
  BY <1>7, SameRuns DEF consumeDelivery, runs, mems, turns, flags, where, hist, count,
     TypeOK
<1>8. ASSUME NEW d \in Delivery, deleteMessage(d) PROVE RunsOK'
  BY <1>8, SameRuns DEF deleteMessage, Act, runs, mems, turns, flags, where, hist,
     TypeOK
<1>9. ASSUME NEW d \in Delivery, Redeliver(d) PROVE RunsOK'
  BY <1>9, RedeliverRuns DEF Redeliver, Act, Serving
<1>10. ASSUME NEW d \in Delivery, RetryRunResends(d) PROVE RunsOK'
  BY <1>10, RedeliverRuns DEF RetryRunResends, Custody, BootOK
<1>11. ASSUME NEW d \in Delivery, ReleaseRefused(d) PROVE RunsOK'
  <2>1. {d} \in SUBSET Delivery /\ (\A e \in {d} : dstate[e] = "held") /\ phase # "boot"
    BY <1>11 DEF ReleaseRefused, Act, Serving
  <2>2. UNCHANGED status
    BY <1>11, <2>1, NoneLeft DEF ReleaseRefused, TypeOK
  <2> QED BY <1>11, <2>2, SameRuns DEF ReleaseRefused, turns, where, TypeOK
<1>12. ASSUME NEW d \in Delivery, ReleaseResumes(d) PROVE RunsOK'
  <2> DEFINE G == {e \in BoundTo(bound[d]) : dstate[e] = "held" /\ To[e] = To[d]}
  <2>1. /\ beginTurn(To[d], G, {}, bound[d], "none") /\ UNCHANGED <<todo, seen, phase>>
        /\ bound[d] # NoRun /\ status[bound[d]] = "interrupted" /\ dstate[d] = "held"
        /\ phase = "ready"
    BY <1>12 DEF ReleaseResumes, where, Act, Serving
  <2>2. To[d] \in Agent /\ bound[d] \in Run
    BY <2>1, ConstantsAssumption DEF TypeOK
  <2>3. G \in SUBSET Delivery /\ G # {} /\ \A e \in G : bound[e] = bound[d]
    BY <2>1 DEF BoundTo
  <2>4. ASSUME NEW e \in Delivery \ G, bound[e] = bound[d]
        PROVE  dstate[e] \in {"delivering", "consumed"}
    <3>1. author[bound[d]] = To[d] /\ author[bound[d]] = To[e]
      BY <2>1, <2>4 DEF TurnsOK, BoundOK
    <3>2. dstate[e] # "held"
      BY <2>4, <3>1 DEF BoundTo
    <3>3. dstate[e] \notin {"absent", "queued"}
      BY <2>1, <2>4 DEF RunsOK, WaitingOK
    <3> QED BY <3>2, <3>3 DEF TypeOK, DState
  <2>5. todo' = todo \ {bound[d]}
    BY <2>1 DEF Custody, BootOK
  <2> HIDE DEF G
  <2> QED BY <2>1, <2>2, <2>3, <2>4, <2>5, BeginRuns
<1>13. ASSUME NEW d \in Delivery, ReleaseQueues(d) PROVE RunsOK'
  <2>1. /\ dstate[d] = "held" /\ phase = "ready"
        /\ bound[d] # NoRun => status[bound[d]] # "interrupted"
        /\ dstate' = [dstate EXCEPT ![d] = "queued"]
        /\ UNCHANGED <<bound, status, pc, phase, todo, seen>>
    BY <1>13 DEF ReleaseQueues, Act, Serving, runs, turns
  <2>2. \A r \in Run : bound[d] = r => ~Active(r) /\ status[r] # "running"
    BY <2>1 DEF RunsOK, RowsOK, HalfHeld, Whole, BoundTo
  <2>3. bound[d] # NoRun => status[bound[d]] \in {"failed", "completed"}
    BY <2>1, <2>2 DEF TurnsOK, BoundOK, TypeOK, Status, Outcome
  <2>4. \A r \in Run : BoundTo(r)' = BoundTo(r) /\ (bound[d] # r => (Whole(r) => Whole(r)'))
    BY <2>1 DEF BoundTo, Whole
  <2>5. AccountedFor'
    BY <2>1 DEF RunsOK, AccountedFor, Active
  <2>6. RowsOK'
    BY <2>1, <2>2, <2>4 DEF RunsOK, RowsOK, HalfHeld, Active
  <2>7. WaitingOK'
    BY <2>1, <2>3 DEF RunsOK, WaitingOK, TypeOK
  <2> QED BY <2>5, <2>6, <2>7 DEF RunsOK
<1>14. ASSUME NEW m \in Agent, AnswerAsk(m) PROVE RunsOK'
  BY <1>14, SameRuns DEF AnswerAsk, delv, runs, turns, flags, where, hist, count,
     TypeOK
<1>15. ASSUME NEW m \in Agent, interruptMember(m) PROVE RunsOK'
  BY <1>15, SameRuns DEF interruptMember, Act, delv, runs, mems, turns, where, hist,
     TypeOK
<1>16. ASSUME NEW m \in Agent, killMember(m) PROVE RunsOK'
  BY <1>16, SameRuns DEF killMember, Act, runs, turns, flags, where, hist, TypeOK,
     SkippedWith
<1>17. ASSUME NEW m \in Agent, reviveMember(m) PROVE RunsOK'
  BY <1>17, SameRuns DEF reviveMember, Act, delv, runs, flags, hist, TypeOK
<1>18. ASSUME NEW m \in Agent, pauseMember(m) PROVE RunsOK'
  BY <1>18, SameRuns DEF pauseMember, Act, delv, runs, turns, flags, where, hist,
     TypeOK
<1>19. ASSUME NEW m \in Agent, unpauseMember(m) PROVE RunsOK'
  BY <1>19, SameRuns DEF unpauseMember, Act, delv, runs, turns, flags, hist, TypeOK
<1>20. ASSUME NEW m \in Agent, removeMember(m) PROVE RunsOK'
  <2>1. /\ Waiting(m) \in SUBSET Delivery /\ phase # "boot"
        /\ \A e \in Waiting(m) : dstate[e] \in {"queued", "held"}
    BY <1>20 DEF removeMember, Act, Serving, Waiting
  <2>2. UNCHANGED status
    BY <1>20, <2>1, NoneLeft DEF removeMember, TypeOK
  <2> QED BY <1>20, <2>2, SameRuns DEF removeMember, where, TypeOK
<1>21. ASSUME NEW m \in Agent, PumpNothing(m) PROVE RunsOK'
  BY <1>21, SameRuns DEF PumpNothing, delv, runs, mems, turns, flags, hist, count,
     TypeOK
<1>22. ASSUME NEW m \in Agent, PumpStart(m) PROVE RunsOK'
  <2> DEFINE B == selectDeliveryBatchPrefix(Queue(m))
  <2>1. /\ UNCHANGED <<todo, seen, phase>>
        /\ B \subseteq Delivery /\ \A d \in B : dstate[d] = "queued"
    BY <1>22 DEF PumpStart, selectDeliveryBatchPrefix, Queue
  <2>2. \/ \E r \in FreshRuns : B # {} /\ beginTurn(m, B, {}, r, "drain")
        \/ B = {} /\ UNCHANGED <<bound, runs, turns>>
                  /\ dstate' = [d \in Delivery |-> IF d \in B THEN "held" ELSE dstate[d]]
    <3>1. \A S \in SUBSET Brakable(B) : S = {}
      BY DEF Brakable
    <3> QED BY <1>22, <3>1 DEF PumpStart
  <2> HIDE DEF B
  <2>3. CASE \E r \in FreshRuns : B # {} /\ beginTurn(m, B, {}, r, "drain")
    <3>1. PICK r \in FreshRuns : B # {} /\ beginTurn(m, B, {}, r, "drain")
      BY <2>3
    <3>2. r \in Run /\ status[r] = "none"
      BY DEF FreshRuns
    <3>3. \A d \in Delivery : bound[d] # r
      BY <3>2, ConstantsAssumption DEF TurnsOK, BoundOK
    <3>4. \A d \in B : bound[d] \in {NoRun, r} \/ status[bound[d]] # "running"
      BY <2>1 DEF RunsOK, WaitingOK
    <3>5. todo' = todo \ {r}
      BY <2>1, <3>2 DEF Custody, BootOK
    <3> QED BY <2>1, <3>1, <3>2, <3>3, <3>4, <3>5, BeginRuns
  <2>4. CASE B = {} /\ UNCHANGED <<bound, runs, turns>>
                    /\ dstate' = [d \in Delivery |-> IF d \in B THEN "held" ELSE dstate[d]]
    BY <2>1, <2>4, SameRuns DEF runs, turns, TypeOK
  <2> QED BY <2>2, <2>3, <2>4
<1>23. ASSUME NEW m \in Agent, PumpFenced(m) PROVE RunsOK'
  <2>1. \A S \in SUBSET Brakable(selectDeliveryBatchPrefix(Queue(m))) : S = {}
    BY DEF Brakable
  <2>2. \A d \in Delivery : dstate'[d] = dstate[d]
    BY <1>23, <2>1 DEF PumpFenced
  <2> QED BY <1>23, <2>2, SameRuns DEF PumpFenced, runs, hist, count
<1>24. ASSUME NEW m \in Agent, PumpAgain(m) PROVE RunsOK'
  BY <1>24, SameRuns DEF PumpAgain, delv, runs, mems, flags, hist, count, TypeOK
<1>25. ASSUME NEW r \in Run, StartThrows(r) PROVE RunsOK'
  BY <1>25 DEF StartThrows, Custody, ThrowOK
<1>26. ASSUME NEW r \in Run, AdapterSpawns(r) PROVE RunsOK'
  BY <1>26, SameRuns DEF AdapterSpawns, delv, runs, mems, flags, where, count, TypeOK
<1>27. ASSUME NEW r \in Run, setDeliveryAttemptProcess(r) PROVE RunsOK'
  BY <1>27, SameRuns DEF setDeliveryAttemptProcess, runs, mems, flags, where, count,
     TypeOK
<1>28. ASSUME NEW r \in Run, JournalStarted(r) PROVE RunsOK'
  BY <1>28, SameRuns DEF JournalStarted, delv, mems, flags, where, count, TypeOK
<1>29. ASSUME NEW r \in Run, RaiseAsk(r) PROVE RunsOK'
  BY <1>29, SameRuns DEF RaiseAsk, delv, runs, turns, flags, where, hist, count,
     TypeOK
<1>30. ASSUME NEW r \in Run, NEW o \in Outcome, JournalCompleted(r, o) PROVE RunsOK'
  BY <1>30, SameRuns DEF JournalCompleted, delv, mems, flags, where, hist, count,
     TypeOK
<1>31. ASSUME NEW r \in Run, NEW o \in Outcome, StreamEnds(r, o) PROVE RunsOK'
  BY <1>31, SameRuns DEF StreamEnds, delv, runs, mems, flags, where, hist, count,
     TypeOK
<1>32. ASSUME NEW r \in Run, FinalizeLifecycle(r) PROVE RunsOK'
  <2>1. /\ Active(r) /\ phase \in {"ready", "closing"} /\ todo = {}
        /\ pc' = [pc EXCEPT ![r] = "idle"] /\ UNCHANGED <<phase, todo, seen>>
    BY <1>32 DEF FinalizeLifecycle, Turning, TurnReturns, Active, Custody, BootOK
  <2>2. status'[r] # "running" /\ \A q \in Run \ {r} : status'[q] = status[q]
    BY <1>32 DEF FinalizeLifecycle, settleLifecycleInterruption, TypeOK
  <2>3. /\ batch[r] \subseteq Delivery
        /\ \A d \in batch[r] : bound[d] \in {r, NoRun}
        /\ \A d \in Delivery : bound[d] = r /\ dstate[d] = "delivering" => d \in batch[r]
        /\ \A d \in Delivery : bound[d] = r => dstate[d] \in {"delivering", "consumed"}
    BY <2>1 DEF Custody, BatchOK, BoundTo, TypeOK, RunsOK, RowsOK, Whole
  <2>5. ASSUME NEW d \in Delivery
        PROVE  /\ bound[d] \notin {r, NoRun} => /\ bound'[d] = bound[d]
                                                /\ dstate'[d] \in {dstate[d], "consumed"}
               /\ bound[d] \in {r, NoRun} => bound'[d] \in {bound[d], NoRun}
               /\ bound'[d] = r => dstate'[d] \notin {"absent", "queued"}
    BY <1>32, <2>3, ConstantsAssumption
    DEF FinalizeLifecycle, settleLifecycleInterruption, LifecycleRows, LifecycleRetry
  <2>6. /\ ~Active(r)' /\ todo' = todo \ {r}
        /\ \A q \in Run \ {r} : Active(q)' <=> Active(q)
    BY <2>1 DEF Active, TypeOK
  <2> QED BY <2>1, <2>2, <2>5, <2>6, EndRuns
<1>33. ASSUME NEW r \in Run, FinalizeRepairs(r) PROVE RunsOK'
  <2>1. /\ Active(r) /\ phase \in {"ready", "closing"} /\ todo = {}
        /\ pc' = [pc EXCEPT ![r] = "idle"] /\ UNCHANGED <<phase, todo, seen>>
    BY <1>33 DEF FinalizeRepairs, Turning, TurnReturns, Active, Custody, BootOK
  <2>2. status'[r] # "running" /\ \A q \in Run \ {r} : status'[q] = status[q]
    BY <1>33 DEF FinalizeRepairs, repairFailedFinalization, TypeOK, runs
  <2>3. /\ batch[r] \subseteq Delivery
        /\ \A d \in batch[r] : bound[d] \in {r, NoRun}
        /\ \A d \in Delivery : bound[d] = r /\ dstate[d] = "delivering" => d \in batch[r]
        /\ \A d \in Delivery : bound[d] = r => dstate[d] \in {"delivering", "consumed"}
    BY <2>1 DEF Custody, BatchOK, BoundTo, TypeOK, RunsOK, RowsOK, Whole
  <2>5. ASSUME NEW d \in Delivery
        PROVE  /\ bound[d] \notin {r, NoRun} => /\ bound'[d] = bound[d]
                                                /\ dstate'[d] \in {dstate[d], "consumed"}
               /\ bound[d] \in {r, NoRun} => bound'[d] \in {bound[d], NoRun}
               /\ bound'[d] = r => dstate'[d] \notin {"absent", "queued"}
    BY <1>33, <2>3, ConstantsAssumption
    DEF FinalizeRepairs, repairFailedFinalization, delv
  <2>6. /\ ~Active(r)' /\ todo' = todo \ {r}
        /\ \A q \in Run \ {r} : Active(q)' <=> Active(q)
    BY <2>1 DEF Active, TypeOK
  <2> QED BY <2>1, <2>2, <2>5, <2>6, EndRuns
<1>34. ASSUME NEW r \in Run, NEW f \in FanOut, FinalizeCommits(r, f[1], f[2])
      PROVE  RunsOK'
  <2>1. /\ Active(r) /\ phase \in {"ready", "closing"} /\ todo = {}
        /\ pc' = [pc EXCEPT ![r] = "idle"] /\ UNCHANGED <<phase, todo, seen>>
    BY <1>34 DEF FinalizeCommits, Turning, TurnReturns, Active, Custody, BootOK
  <2>2. status'[r] # "running" /\ \A q \in Run \ {r} : status'[q] = status[q]
    BY <1>34 DEF FinalizeCommits, completeTurn, TypeOK, Classified, Outcome
  <2>3. /\ batch[r] \subseteq Delivery
        /\ \A d \in batch[r] : bound[d] \in {r, NoRun}
        /\ \A d \in Delivery : bound[d] = r /\ dstate[d] = "delivering" => d \in batch[r]
        /\ \A d \in Delivery : bound[d] = r => dstate[d] \in {"delivering", "consumed"}
    BY <2>1 DEF Custody, BatchOK, BoundTo, TypeOK, RunsOK, RowsOK, Whole
  <2>4. \A d \in f[1] : d \in Delivery /\ dstate[d] = "absent" /\ bound[d] = NoRun
    BY DEF FanOut, NextRow, RunsOK, WaitingOK
  <2>5. ASSUME NEW d \in Delivery
        PROVE  /\ bound[d] \notin {r, NoRun} => /\ bound'[d] = bound[d]
                                                /\ dstate'[d] \in {dstate[d], "consumed"}
               /\ bound[d] \in {r, NoRun} => bound'[d] \in {bound[d], NoRun}
               /\ bound'[d] = r => dstate'[d] \notin {"absent", "queued"}
    BY <1>34, <2>3, <2>4, ConstantsAssumption
    DEF FinalizeCommits, completeTurn, RoutedState
  <2>6. /\ ~Active(r)' /\ todo' = todo \ {r}
        /\ \A q \in Run \ {r} : Active(q)' <=> Active(q)
    BY <2>1 DEF Active, TypeOK
  <2> QED BY <2>1, <2>2, <2>5, <2>6, EndRuns
<1>35. ASSUME NEW r \in Run, retryRun(r) PROVE RunsOK'
  BY <1>35, SameRuns DEF retryRun, Act, delv, runs, flags, hist, TypeOK
<1>36. ASSUME NEW r \in Run, OrphanExits(r) PROVE RunsOK'
  BY <1>36, SameRuns DEF OrphanExits, delv, runs, mems, turns, flags, where, hist,
     count, TypeOK
<1>37. ASSUME NEW r \in Run, ReconcileRetries(r) PROVE RunsOK'
  <2>1. /\ Group(r) \in SUBSET Delivery /\ author[r] \in Agent /\ Group(r) # {}
        /\ todo' = todo \ {r} /\ r \in todo /\ UNCHANGED <<seen, phase>>
        /\ \E then \in After : beginTurn(author[r], Group(r), {}, r, then)
    BY <1>37, BoundAuthor
       DEF ReconcileRetries, Reconciling, Group, BoundTo, TurnsOK, Brakable, After
  <2>2. /\ \A d \in Group(r) : bound[d] = r
        /\ \A d \in Delivery \ Group(r) :
             bound[d] = r => dstate[d] \in {"delivering", "consumed"}
    BY <2>1 DEF Group, BoundTo, RunsOK, RowsOK, Custody, BootOK, HalfHeld, Whole
  <2>3. PICK then \in After : beginTurn(author[r], Group(r), {}, r, then)
    BY <2>1
  <2> HIDE DEF Group
  <2> QED BY <2>1, <2>2, <2>3, BeginRuns
<1>38. ASSUME NEW r \in Run, HoldRows(r) PROVE RunsOK'
  <2>1. /\ dstate' = [d \in Delivery |-> IF d \in Group(r) THEN "held" ELSE dstate[d]]
        /\ phase = "boot" /\ r \in todo /\ UNCHANGED <<bound, status, pc, phase, todo, seen>>
    BY <1>38 DEF HoldRows, Reconciling, runs, turns, where
  <2>2. AccountedFor'
    BY <2>1 DEF RunsOK, AccountedFor, Active
  <2>3. HalfHeld(r)' /\ ~Active(r)'
    BY <2>1 DEF HalfHeld, Group, BoundTo, Active, Custody, BootOK
  <2>4. ASSUME NEW q \in Run, q # r
        PROVE  /\ BoundTo(q)' = BoundTo(q) /\ (Active(q)' => Active(q))
               /\ Whole(q) => Whole(q)'
               /\ HalfHeld(q) => HalfHeld(q)'
    BY <2>1, <2>4 DEF HalfHeld, Group, BoundTo, Whole, Active
  <2>5. RowsOK'
    BY <2>1, <2>3, <2>4 DEF RunsOK, RowsOK
  <2>6. WaitingOK'
    BY <2>1 DEF RunsOK, WaitingOK
  <2> QED BY <2>2, <2>5, <2>6 DEF RunsOK
<1>39. ASSUME NEW r \in Run, HoldRetires(r) PROVE RunsOK'
  <2>1. /\ phase = "boot" /\ r \in todo /\ todo' = todo \ {r} /\ status[r] = "running"
        /\ status' = [status EXCEPT ![r] = "interrupted"]
        /\ UNCHANGED <<dstate, bound, pc, phase, seen>> /\ ~Active(r)
    BY <1>39 DEF HoldRetires, delv, turns, Custody, BootOK
  <2>2. \A d \in Delivery : bound[d] = r => dstate[d] \notin {"absent", "queued"}
    BY <2>1, ConstantsAssumption DEF RunsOK, WaitingOK
  <2> QED BY <2>1, <2>2, EndRuns DEF Active, TypeOK
<1>40. ASSUME NEW r \in Run, SettleStranded(r) PROVE RunsOK'
  <2>1. /\ phase = "sweep" /\ status[r] = "running" /\ todo = {}
        /\ UNCHANGED <<pc, phase, todo, seen>>
        /\ status' = [status EXCEPT ![r] = "interrupted"]
    BY <1>40
    DEF SettleStranded, Stranded, settleLifecycleInterruption, turns, where, Custody,
        BootOK
  <2>2. \A d \in BoundTo(r) : dstate[d] \in {"delivering", "consumed"}
    BY <2>1 DEF RunsOK, RowsOK, HalfHeld, Whole
  <2>3. ASSUME NEW d \in Delivery
        PROVE  /\ bound[d] # r => bound'[d] = bound[d] /\ dstate'[d] = dstate[d]
               /\ bound[d] = r => bound'[d] \in {r, NoRun}
               /\ bound'[d] = r => dstate'[d] = "consumed"
    BY <1>40, <2>2, ConstantsAssumption
       DEF SettleStranded, settleLifecycleInterruption, LifecycleRows, LifecycleRetry,
           BoundTo
  <2> QED BY <2>1, <2>3, EndRuns DEF Active, TypeOK
<1>41. ASSUME NEW r \in Run, NEW f \in FanOut, ReconcileFinishes(r, f[1], f[2])
      PROVE  RunsOK'
  <2>1. /\ r \in todo /\ todo' = todo \ {r} /\ status[r] = "running" /\ ~Active(r)
        /\ journal[r] \in Outcome /\ UNCHANGED <<pc, phase, seen, bound>> /\ phase = "boot"
        /\ Group(r) # {}
    BY <1>41 DEF ReconcileFinishes, Reconciling, completeTurn, repairFailedFinalization,
                turns, Custody, BootOK
  <2>2. status'[r] # "running" /\ \A q \in Run \ {r} : status'[q] = status[q]
    BY <1>41, <2>1
    DEF ReconcileFinishes, completeTurn, repairFailedFinalization, TypeOK, Outcome
  <2>3. \A d \in f[1] : d \in Delivery /\ dstate[d] = "absent" /\ bound[d] = NoRun
    BY DEF FanOut, NextRow, RunsOK, WaitingOK
  <2>4. \A d \in Delivery : bound[d] = r => dstate[d] \in {"delivering", "consumed"}
    BY <2>1 DEF RunsOK, RowsOK, HalfHeld, Whole, BoundTo
  <2>5. ASSUME NEW d \in Delivery
        PROVE  /\ bound[d] \notin {r, NoRun} => dstate'[d] \in {dstate[d], "consumed"}
               /\ bound[d] = r => dstate'[d] \notin {"absent", "queued"}
    <3>1. CASE completeTurn(r, Group(r), journal[r], f[1], f[2])
      BY <2>3, <2>4, <3>1, ConstantsAssumption DEF completeTurn, Group, BoundTo
    <3>2. CASE repairFailedFinalization(r, Group(r))
      BY <2>4, <3>2 DEF repairFailedFinalization, Group, BoundTo
    <3> QED BY <1>41, <3>1, <3>2 DEF ReconcileFinishes
  <2> QED BY <2>1, <2>2, <2>5, EndRuns DEF Active
<1>42. ASSUME Boot PROVE RunsOK'
  <2>1. /\ phase \in {"closed", "crashed"} /\ phase' = "boot" /\ seen' = todo'
        /\ UNCHANGED <<dstate, bound, status, pc>>
    BY <1>42 DEF Boot, delv, runs, turns
  <2>2. AccountedFor'
    BY <2>1 DEF AccountedFor
  <2>3. RowsOK'
    BY <2>1 DEF RunsOK, RowsOK, HalfHeld, Whole, BoundTo, Active
  <2>4. WaitingOK'
    BY <2>1 DEF RunsOK, WaitingOK
  <2> QED BY <2>2, <2>3, <2>4 DEF RunsOK
<1>43. ASSUME Sweep PROVE RunsOK'
  <2>1. /\ phase = "boot" /\ phase' = "sweep" /\ todo = {} /\ UNCHANGED seen
        /\ UNCHANGED <<dstate, bound, status, pc>>
    BY <1>43 DEF Sweep, delv, runs, turns
  <2>2. AccountedFor'
    BY <2>1 DEF RunsOK, AccountedFor, Active
  <2>3. RowsOK'
    BY <2>1 DEF RunsOK, RowsOK, HalfHeld, Whole, BoundTo, Active
  <2>4. WaitingOK'
    BY <2>1 DEF RunsOK, WaitingOK
  <2> QED BY <2>2, <2>3, <2>4 DEF RunsOK
<1>44. ASSUME Serve PROVE RunsOK'
  <2>1. /\ phase = "sweep" /\ phase' = "ready" /\ Stranded = {}
        /\ UNCHANGED <<dstate, bound, status, pc>>
    BY <1>44 DEF Serve, delv, runs, turns
  <2>2. AccountedFor'
    BY <2>1 DEF RunsOK, AccountedFor, RowsOK, Stranded, HalfHeld, Whole, Active, BoundTo
  <2>3. RowsOK'
    BY <2>1 DEF RunsOK, RowsOK, HalfHeld, Whole, BoundTo, Active
  <2>4. WaitingOK'
    BY <2>1 DEF RunsOK, WaitingOK
  <2> QED BY <2>2, <2>3, <2>4 DEF RunsOK
<1>45. ASSUME Close PROVE RunsOK'
  <2>1. /\ phase = "ready" /\ phase' = "closing" /\ UNCHANGED <<todo, seen>>
        /\ UNCHANGED <<dstate, bound, status, pc>>
    BY <1>45 DEF Close, Serving, delv, runs, turns
  <2>2. AccountedFor'
    BY <2>1 DEF RunsOK, AccountedFor, Active
  <2>3. RowsOK'
    BY <2>1 DEF RunsOK, RowsOK, HalfHeld, Whole, BoundTo, Active
  <2>4. WaitingOK'
    BY <2>1 DEF RunsOK, WaitingOK
  <2> QED BY <2>2, <2>3, <2>4 DEF RunsOK
<1>46. ASSUME Closed PROVE RunsOK'
  <2>1. /\ phase = "closing" /\ phase' = "closed"
        /\ UNCHANGED <<dstate, bound, status>> /\ \A r \in Run : ~Active(r)' 
    BY <1>46 DEF Closed, MemoryLost, delv, runs, Active
  <2>2. AccountedFor'
    BY <2>1 DEF RunsOK, AccountedFor, Active
  <2>3. RowsOK'
    BY <2>1 DEF RunsOK, RowsOK, HalfHeld, Whole, BoundTo, Active
  <2>4. WaitingOK'
    BY <2>1 DEF RunsOK, WaitingOK
  <2> QED BY <2>2, <2>3, <2>4 DEF RunsOK
<1>47. ASSUME Crash PROVE RunsOK'
  <2>1. /\ phase' = "crashed" /\ UNCHANGED <<dstate, bound, status>>
        /\ \A r \in Run : ~Active(r)'
    BY <1>47 DEF Crash, MemoryLost, delv, runs, Active
  <2>2. \A r \in Run : ~HalfHeld(r)
    BY <2>1 DEF HoldIsWhole
  <2>3. AccountedFor'
    BY <2>1 DEF AccountedFor
  <2>4. RowsOK'
    BY <2>1, <2>2 DEF RunsOK, RowsOK, Whole, BoundTo
  <2>5. WaitingOK'
    BY <2>1 DEF RunsOK, WaitingOK
  <2> QED BY <2>3, <2>4, <2>5 DEF RunsOK
<1>48. ASSUME AwaitInput PROVE RunsOK'
  BY <1>48, SameRuns DEF AwaitInput, vars, delv, runs, mems, turns, flags, where,
     hist, count, TypeOK
<1>49. CASE UNCHANGED vars
  BY <1>49, SameRuns DEF vars, delv, runs, mems, turns, flags, where, hist, count
<1> QED BY <1>1, <1>2, <1>3, <1>4, <1>5, <1>6, <1>7, <1>8, <1>9, <1>10, <1>11,
          <1>12, <1>13, <1>14, <1>15, <1>16, <1>17, <1>18, <1>19, <1>20, <1>21,
          <1>22, <1>23, <1>24, <1>25, <1>26, <1>27, <1>28, <1>29, <1>30, <1>31,
          <1>32, <1>33, <1>34, <1>35, <1>36, <1>37, <1>38, <1>39, <1>40, <1>41,
          <1>42, <1>43, <1>44, <1>45, <1>46, <1>47, <1>48, <1>49
         DEF Next, SteerStep, DeliveryAct, MemberAct, TurnStep, Pump, BootStep
-----------------------------------------------------------------------------
(***************************************************************************)
(* The theorems                                                            *)
(***************************************************************************)
\* IInv is inductive.
THEOREM Invariant == Spec => []IInv
<1>1. Init => IInv
  <2>1. Init => TypeOK /\ TurnsOK /\ AttemptsOK
    BY ConstantsAssumption
       DEF Init, TypeOK, TurnsOK, BoundOK, OneTurnPerMember, SpinOK, AttemptsOK,
           Active, DState, Status, Journal, MState, Pc, After, Steer, Phase, Outcome
  <2>2. Init => StopsOK /\ Custody
    BY DEF Init, StopsOK, Custody, ThrowOK, CustodyOK, BatchOK, BootOK, Active
  <2> QED BY <2>1, <2>2 DEF IInv
<1>2. IInv /\ [Next]_vars => IInv'
  BY TypeStep, TurnsStep, AttemptsStep, StopsStep, CustodyStep DEF IInv, TurnsOK
<1> QED BY <1>1, <1>2, PTL DEF Spec

\* Every variable keeps its type.
THEOREM TypeCorrect == Spec => []TypeOK
<1>1. IInv => TypeOK
  BY DEF IInv
<1> QED BY <1>1, Invariant, PTL

\* maybeStartTurn, retryTurn and boot never give a member two adapter turns, and
\* `inflight` covers each until it has returned.
THEOREM OneTurnCorrect == Spec => []OneTurnPerMember
<1>1. IInv => OneTurnPerMember
  BY DEF IInv, TurnsOK
<1> QED BY <1>1, Invariant, PTL

\* Stops, crashes and blocked cards never make recovery spend more attempts on a
\* row than RECOVERY_ATTEMPT_CEILING + 1.
THEOREM AttemptsCorrect == Spec => []AttemptsBounded
<1>1. IInv => AttemptsBounded
  BY DEF IInv, AttemptsOK, AttemptsBounded
<1> QED BY <1>1, Invariant, PTL

\* Where sessions can be built, no row is left in custody without a turn while the
\* daemon serves, whatever was killed, redelivered, released or recovered before.
THEOREM CustodyCorrect ==
  ASSUME BrokenStart = {}
  PROVE  Spec => []NoStrandedDelivery
<1>1. IInv => NoStrandedDelivery
  <2> SUFFICES ASSUME IInv, Turning, NEW d \in Delivery, dstate[d] = "delivering"
               PROVE  /\ bound[d] # NoRun /\ Active(bound[d])
                      /\ status[bound[d]] = "running" /\ d \in batch[bound[d]]
    BY DEF NoStrandedDelivery
  <2>1. phase \in {"ready", "closing"}
    BY DEF Turning
  <2>2. bound[d] # NoRun /\ Active(bound[d]) /\ status[bound[d]] = "running"
    BY <2>1 DEF IInv, Custody, CustodyOK
  <2>3. bound[d] \in Run
    BY <2>2 DEF IInv, TypeOK
  <2>4. d \in batch[bound[d]]
    BY <2>2, <2>3 DEF IInv, Custody, BatchOK, BoundTo
  <2> QED BY <2>2, <2>4
<1> QED BY <1>1, Invariant, PTL

\* A Stop is terminal: neither the shutdown that follows it nor the next boot puts
\* a row of the stopped turn back on the queue.
THEOREM StopCorrect == Spec => StopIsTerminal
<1>1. ASSUME IInv, [Next]_vars, NEW d \in Delivery,
             dstate[d] = "delivering", dstate'[d] = "queued",
             bound[d] # NoRun, Active(bound[d]), author[bound[d]] \in stops
      PROVE  d \in forced'
  <2>1. \/ d \in forced'
        \/ phase = "sweep"
        \/ \E r \in Run : FinalizeLifecycle(r) /\ d \in batch[r]
    BY <1>1, MovesStep DEF IInv, RowMoves, Requeued
  <2>2. phase # "sweep" /\ stops \cap lifes = {}
    BY <1>1 DEF IInv, StopsOK
  <2>3. ASSUME NEW r \in Run, FinalizeLifecycle(r), d \in batch[r] PROVE FALSE
    <3>1. Active(r) /\ author[r] \in lifes
      BY <2>3 DEF FinalizeLifecycle, IsLifecycle, Active
    <3>2. To[d] = author[r]
      <4>1. BatchOK
        BY <1>1 DEF IInv, Custody
      <4> QED BY <2>3, <3>1, <4>1 DEF BatchOK
    <3>3. author[bound[d]] = To[d]
      BY <1>1 DEF IInv, TurnsOK, BoundOK
    <3> QED BY <1>1, <2>2, <3>1, <3>2, <3>3
  <2> QED BY <2>1, <2>2, <2>3
<1>2. IInv /\ [Next]_vars =>
        [\A d \in Delivery :
           /\ dstate[d] = "delivering" /\ dstate'[d] = "queued"
           /\ bound[d] # NoRun /\ Active(bound[d]) /\ author[bound[d]] \in stops
           => d \in forced']_vars
  BY <1>1
<1> QED BY <1>2, Invariant, PTL DEF Spec, StopIsTerminal

\* applyTurnStartBrakes spares the rows that release_hold exempted, and a grouped
\* batch is a single row, so that no other row drags a released one on hold.
THEOREM ReleaseCorrect == Spec => ReleaseIsHonoured
<1>1. ASSUME IInv, [Next]_vars, NEW d \in released, dstate[d] = "queued"
      PROVE  dstate'[d] # "held"
  <2>1. d \in Delivery /\ TypeOK
    BY <1>1 DEF IInv, TypeOK
  <2> QED BY <1>1, <2>1, MovesStep DEF RowMoves, PutOnHold
<1>2. IInv /\ [Next]_vars =>
        [\A d \in released : dstate[d] = "queued" => dstate'[d] # "held"]_vars
  BY <1>1
<1> QED BY <1>2, Invariant, PTL DEF Spec, ReleaseIsHonoured

\* Where sessions can be built, no brake is on and the daemon does not die inside
\* holdAmbiguousTurn, no run says `running` in history with no turn behind it, and
\* a held row never waits on a run that claims to be running.
THEOREM RunsCorrect ==
  ASSUME BrokenStart = {}, Brakes = FALSE
  PROVE  Init /\ [][Next /\ HoldIsWhole]_vars => [](NoPhantomRun /\ HeldRunInactive)
<1>1. Init => IInv /\ RunsOK
  <2>1. Init => IInv
    <3>1. Init => TypeOK /\ TurnsOK /\ AttemptsOK
      BY ConstantsAssumption
         DEF Init, TypeOK, TurnsOK, BoundOK, OneTurnPerMember, SpinOK, AttemptsOK,
             Active, DState, Status, Journal, MState, Pc, After, Steer, Phase, Outcome
    <3>2. Init => StopsOK /\ Custody
      BY DEF Init, StopsOK, Custody, ThrowOK, CustodyOK, BatchOK, BootOK, Active
    <3> QED BY <3>1, <3>2 DEF IInv
  <2>2. Init => RunsOK
    BY DEF Init, RunsOK, AccountedFor, RowsOK, WaitingOK, Whole, Active
  <2> QED BY <2>1, <2>2
<1>2. IInv /\ RunsOK /\ [Next /\ HoldIsWhole]_vars => (IInv /\ RunsOK)'
  <2> SUFFICES ASSUME IInv, RunsOK, [Next /\ HoldIsWhole]_vars
               PROVE  (IInv /\ RunsOK)'
    OBVIOUS
  <2>1. [Next]_vars
    OBVIOUS
  <2>2. HoldIsWhole
    <3>1. CASE UNCHANGED vars
      BY <3>1 DEF HoldIsWhole, HalfHeld, vars, where
    <3> QED BY <3>1
  <2>3. IInv'
    BY <2>1, TypeStep, TurnsStep, AttemptsStep, StopsStep, CustodyStep DEF IInv, TurnsOK
  <2>4. RunsOK'
    BY <2>1, <2>2, RunsStep DEF IInv
  <2> QED BY <2>3, <2>4
<1>3. IInv /\ RunsOK => NoPhantomRun /\ HeldRunInactive
  <2> SUFFICES ASSUME IInv, RunsOK, Turning PROVE NoPhantomRun /\ HeldRunInactive
    BY DEF NoPhantomRun, HeldRunInactive
  <2>1. phase \in {"ready", "closing"}
    BY DEF Turning
  <2>2. NoPhantomRun
    BY <2>1 DEF NoPhantomRun, RunsOK, AccountedFor
  <2>3. HeldRunInactive
    BY <2>1 DEF HeldRunInactive, RunsOK, RowsOK, HalfHeld, Whole, BoundTo, IInv, TypeOK
  <2> QED BY <2>2, <2>3
<1> QED BY <1>1, <1>2, <1>3, PTL

-----------------------------------------------------------------------------
(***************************************************************************)
(* Exactly once, or held                                                   *)
(***************************************************************************)
\* Boot recovery fans nothing out to another member: a turn it would start that
\* way is taken by its own second pass for one a crash left behind.
NoFanOut == (\A a, b \in Agent : a = b) \/ \A d \in Delivery : Grouped(d)

\* What exactly-once takes beyond the code: also, no harness gets its payload at
\* spawn (a crash before the journal's run.started would leave no trace of it),
\* nothing is steered into a live turn, and no member is killed and revived under
\* its turn.
Confined ==
  /\ NoFanOut
  /\ ArgvPayload = {} /\ Steers = {}
  /\ MaxOps <= 1 \/ "kill" \notin Acts \/ Acts \cap {"revive", "retry"} = {}

\* Rows that no operator act, graceful stop or blocked card has re-queued.
Untouched == Delivery \ (forced \cup requeued)

\* A turn that has its batch in memory and has not handed it over.
Unfed(r) == pc[r] \in {"begun", "spawned", "recorded"}

\* While boot recovery runs nothing pumps, every row in custody is one of its list,
\* and so is every turn; it started them on rows already attempted.
SeenOK ==
  phase \in {"boot", "sweep"} =>
    /\ pump = {}
    /\ \A d \in Delivery : dstate[d] = "delivering" => bound[d] \in seen
    /\ \A r \in Run : Active(r) =>
         r \in seen /\ \A d \in batch[r] \cap Untouched : attempts[d] >= 2

\* A row that waits for its first turn is unbound, a bound one was attempted, and
\* the rows of a run are in custody, and are consumed, together; the second pass
\* of boot can only take back rows of members that are gone.
FirstTimeOK ==
  \A d \in Untouched :
    /\ dstate[d] \in {"absent", "queued"} => bound[d] = NoRun
    /\ bound[d] # NoRun => attempts[d] >= 1
    /\ dstate[d] = "delivering" => Whole(bound[d])
    /\ /\ dstate[d] = "consumed" /\ d \notin purged \cup settled
       /\ bound[d] # NoRun /\ To[d] \notin removed
       => /\ status[bound[d]] # "running"
          /\ \A e \in BoundTo(bound[d]) : dstate[e] = "consumed"

\* The batch of a turn is bound to its run, which has nothing on the queue or on hold.
OwnBatchOK ==
  \A r \in Run : Active(r) => \A d \in batch[r] \cap Untouched : bound[d] = r /\ Whole(r)

\* Where the untouched rows are, and which of them recovery may still hand out.
HistoryOK == SeenOK /\ FirstTimeOK /\ OwnBatchOK

\* What a row may do in a step that begins no turn.  The rows of the run r may leave
\* custody; after that none of them is in it.
RowKeeps(d, r) ==
  \/ dstate'[d] = dstate[d] /\ bound'[d] = bound[d]
  \/ /\ dstate[d] \in {"absent", "queued", "held"} /\ dstate'[d] = "consumed"
     /\ bound'[d] = bound[d]
     /\ \/ bound[d] = NoRun \/ To[d] \in removed'
        \/ d \in forced' \cup requeued' \cup purged' \cup settled'
  \/ /\ dstate[d] \in {"absent", "queued"} /\ dstate'[d] \in {"queued", "held"}
     /\ bound'[d] = bound[d]
  \/ d \in forced' /\ bound'[d] = bound[d]
     /\ dstate[d] = "held" /\ dstate'[d] = "queued"
  \/ d \in forced' \cup requeued' /\ bound'[d] = NoRun /\ dstate'[d] = "queued"
  \/ /\ bound[d] = r /\ To[d] \in removed
     /\ bound'[d] = NoRun /\ dstate'[d] = "queued"
  \/ /\ bound[d] = r /\ dstate[d] = "delivering" /\ bound'[d] = bound[d]
     /\ \/ dstate'[d] = "held"
        \/ dstate'[d] = "consumed"
           /\ \/ d \in forced' \cup requeued' \cup purged' \cup settled'
              \/ /\ status'[r] # "running"
                 /\ \A e \in Delivery : bound'[e] = r => dstate'[e] = "consumed"

\* What a run and its turn may do in such a step.  The turn of r may end; a turn is
\* fenced with its removed, or its dead and revived, member.
RunKeeps(q, r) ==
  /\ Active(q)' => /\ Active(q) /\ q # r /\ batch'[q] = batch[q]
                   /\ pc'[q] \in {pc[q], "ended"}
  /\ status'[q] = "running" => status[q] = "running"
  /\ journal'[q] = "empty" => journal[q] = "empty"
  /\ author'[q] = author[q]
  /\ Active(q)' /\ q \in fenced' =>
       \/ q \in fenced \/ author[q] \in removed'
       \/ /\ mstate[author[q]] = "dead" /\ ops < MaxOps
          /\ Acts \cap {"revive", "retry"} # {}
  /\ Active(q)' /\ mstate'[author[q]] = "dead" =>
       \/ mstate[author[q]] = "dead" \/ author[q] \in removed'
       \/ phase \in {"boot", "sweep"}
       \/ ops' >= 1 /\ "kill" \in Acts

\* Only a row that is being routed may begin to be steered.
SteersNew(d) ==
  steer'[d] # "no" => steer[d] # "no" \/ (dstate[d] = "absent" /\ Steers # {})

\* What the rest of the state may do in such a step: boot recovery may end, not begin.
RestKeeps ==
  /\ purged \subseteq purged' /\ settled \subseteq settled' /\ removed \subseteq removed'
  /\ forced \subseteq forced' /\ requeued \subseteq requeued'
  /\ \A d \in Untouched' : attempts'[d] = attempts[d]
  /\ \A d \in Delivery : dstate'[d] = "delivering" => evidence'[d] = evidence[d]
  /\ phase' \in {"boot", "sweep"} =>
       phase \in {"boot", "sweep"} /\ seen' = seen /\ pump' \subseteq pump
  /\ ops' \in Nat /\ ops' >= ops
  /\ \A d \in Delivery : SteersNew(d)
  /\ UNCHANGED <<fed, proven>>

\* A step that begins no turn and hands nothing over.
Keeps(r) ==
  /\ \A d \in Delivery : RowKeeps(d, r)
  /\ \A d \in Delivery : bound'[d] = r => dstate'[d] # "delivering"
  /\ \A q \in Run : RunKeeps(q, r)
  /\ RestKeeps

\* A step that begins the turn r on the rows X, which waited, or are the held or the
\* stranded rows of r; the untouched ones among them never reached a harness that
\* left a trace, and r keeps no row consumed behind it.
Begins(m, X, H, r, then) ==
  /\ beginTurn(m, X, H, r, then)
  /\ ~Active(r) /\ X \cap H = {} /\ \A d \in H : dstate[d] = "queued"
  /\ \A d \in X : bound[d] = r \/ (dstate[d] = "queued" /\ steer[d] = "no")
  /\ \A d \in X \cap Untouched' :
       /\ To[d] \notin removed
       /\ bound[d] # NoRun => /\ dstate[d] = "delivering" /\ journal[r] = "empty"
                              /\ attempts[d] <= 1 /\ evidence[d] = NoRun
  /\ \A d \in Untouched' : bound'[d] = r =>
       /\ dstate'[d] # "consumed" \/ d \in purged \cup settled \/ To[d] \in removed
       /\ dstate'[d] = "delivering" => Whole(r)'
  /\ forced \subseteq forced' /\ requeued \subseteq requeued'
  /\ phase \in {"boot", "sweep"} =>
       /\ pump' = pump /\ r \in seen
       /\ \A d \in X : bound[d] = r
  /\ ops' >= ops /\ ops' \in Nat
  /\ UNCHANGED <<fed, proven, removed, steer, phase, seen>>

\* A step of the turn r on its way to the harness.
HandsOver(r) == AdapterSpawns(r) \/ setDeliveryAttemptProcess(r) \/ JournalStarted(r)

\* Every step is of one of these kinds.
Kinds ==
  \/ \E r \in Run \cup {NoRun} : Keeps(r)
  \/ \E m \in Agent, X, H \in SUBSET Delivery, r \in Run, then \in After :
       Begins(m, X, H, r, then)
  \/ \E r \in Run : HandsOver(r)
  \/ \E d \in Delivery : HarnessAccepts(d)
  \/ Boot

LEMMA SomeKeep ==
  ASSUME NEW r \in Run \cup {NoRun},
         \A d \in Delivery : RowKeeps(d, r),
         \A d \in Delivery : bound'[d] = r => dstate'[d] # "delivering",
         \A q \in Run : RunKeeps(q, r), RestKeeps
  PROVE  Kinds
BY DEF Kinds, Keeps

\* ... that end no turn and take no row out of custody.
LEMMA AllKeep ==
  ASSUME TypeOK, Custody,
         \A d \in Delivery : RowKeeps(d, NoRun),
         \A q \in Run : RunKeeps(q, NoRun), RestKeeps
  PROVE  Kinds
<1>1. \A d \in Delivery : bound'[d] = NoRun => dstate'[d] # "delivering"
  BY DEF RowKeeps, Custody, CustodyOK
<1> QED BY <1>1, SomeKeep

LEMMA OneBegins ==
  ASSUME NEW m \in Agent, NEW X \in SUBSET Delivery, NEW H \in SUBSET Delivery,
         NEW r \in Run, NEW then \in After, Begins(m, X, H, r, then)
  PROVE  Kinds
BY DEF Kinds

\* completeTurn consumes the rows of the run together, and steers only a new row.
LEMMA CompleteKeeps ==
  ASSUME NoFanOut, TypeOK, Custody, HistoryOK, NEW r \in Run, NEW X \in SUBSET Delivery,
         NEW o \in Outcome, NEW f \in FanOut, completeTurn(r, X, o, f[1], f[2]),
         \A d \in X : bound[d] \in {r, NoRun},
         \A d \in BoundTo(r) : dstate[d] = "delivering" => d \in X,
         \A d \in X \cap Untouched :
           dstate[d] \in {"delivering", "consumed"} \/ bound[d] = NoRun,
         UNCHANGED <<forced, requeued, removed>>
  PROVE  /\ \A d \in Delivery : RowKeeps(d, r) /\ SteersNew(d)
         /\ \A d \in Delivery : bound'[d] = r => dstate'[d] # "delivering"
<1>1. f[1] \subseteq Delivery /\ \A d \in f[1] : dstate[d] = "absent"
  BY DEF FanOut, NextRow
<1>2. f[1] # {} /\ f[2] = "steer" => Steers # {}
  BY DEF completeTurn, Routes, Steerable
<1>3. \A d \in Delivery : SteersNew(d)
  BY <1>1, <1>2 DEF completeTurn, steerRouted, SteersNew
<1>4. /\ UNCHANGED <<bound, purged>> /\ status'[r] # "running" /\ settled \subseteq settled'
      /\ f[2] = "skip" => f[1] \subseteq settled'
  BY DEF completeTurn, TypeOK, Outcome
<1>5. ASSUME NEW d \in Delivery
      PROVE  /\ d \notin f[1] \cup X => dstate'[d] = dstate[d]
             /\ d \in X \ f[1] => dstate'[d] = "consumed"
             /\ d \in f[1] => \/ dstate'[d] \in {"queued", "held", "consumed"}
             /\ d \in f[1] \ X /\ dstate'[d] = "consumed" => d \in settled'
  BY <1>4 DEF completeTurn, RoutedState
<1>6. \A d \in Delivery : bound'[d] = r => dstate'[d] # "delivering"
  BY <1>4, <1>5 DEF BoundTo
<1>7. ASSUME NEW d \in Delivery, d \in X, d \in Untouched, dstate[d] = "delivering"
      PROVE  \A e \in Delivery : bound'[e] = r => dstate'[e] = "consumed"
  <2>1. bound[d] = r
    BY <1>7 DEF Custody, CustodyOK
  <2>2. \A e \in Delivery : bound[e] = r => dstate[e] \in {"delivering", "consumed"}
    BY <1>7, <2>1 DEF HistoryOK, FirstTimeOK, Whole, BoundTo
  <2> QED BY <1>1, <1>4, <1>5, <2>2 DEF BoundTo
<1>8. ASSUME NEW d \in Delivery PROVE RowKeeps(d, r)
  <2>1. CASE d \in f[1]
    <3>1. d \in forced \cup requeued \/ bound[d] = NoRun
      BY <1>1, <2>1 DEF HistoryOK, FirstTimeOK, Untouched
    <3> QED BY <1>1, <1>4, <1>5, <2>1, <3>1 DEF RowKeeps
  <2>2. CASE d \in X \ f[1] /\ dstate[d] = "delivering"
    <3>1. bound[d] = r
      BY <2>2 DEF Custody, CustodyOK
    <3> QED BY <1>4, <1>5, <1>7, <2>2, <3>1 DEF RowKeeps, Untouched
  <2>3. CASE d \in X \ f[1] /\ dstate[d] # "delivering"
    BY <1>4, <1>5, <2>3 DEF RowKeeps, Untouched, TypeOK, DState
  <2>4. CASE d \notin f[1] \cup X
    BY <1>4, <1>5, <2>4 DEF RowKeeps
  <2> QED BY <2>1, <2>2, <2>3, <2>4
<1> QED BY <1>3, <1>6, <1>8

\* Every step is of one of the kinds.
LEMMA KindsStep ==
  ASSUME NoFanOut, TypeOK, TurnsOK, Custody, HistoryOK, [Next]_vars
  PROVE  Kinds
<1>b. \A q \in Run : Active(q) => author[q] \in Agent
  BY DEF TurnsOK, OneTurnPerMember, TypeOK
<1>c. \A q \in Run : q # NoRun
  BY ConstantsAssumption
<1>1. ASSUME NEW d \in Delivery, NEW how \in {"skip", "hold", "steer", "queue"},
             Post(d, how)
      PROVE  Kinds
  <2>1. how = "steer" => Steers # {}
    BY <1>1 DEF Post, Routes, Steerable
  <2>2. /\ dstate[d] = "absent" /\ dstate'[d] = RoutedState(how)
        /\ \A e \in Delivery : e # d => dstate'[e] = dstate[e]
    BY <1>1 DEF Post, NextRow, TypeOK
  <2>3. \A e \in Delivery : SteersNew(e)
    BY <1>1, <2>1, <2>2 DEF Post, steerRouted, SteersNew
  <2>4. \/ dstate'[d] \in {"held", "queued"}
        \/ dstate'[d] = "consumed" /\ d \in settled'
    <3>1. CASE how = "skip"
      BY <1>1, <2>2, <3>1 DEF Post, RoutedState
    <3>2. CASE how # "skip"
      BY <2>2, <3>2 DEF RoutedState
    <3> QED BY <3>1, <3>2
  <2>5. \A e \in Delivery : RowKeeps(e, NoRun)
    BY <1>1, <2>2, <2>4 DEF Post, RowKeeps
  <2>6. \A m \in Agent : mstate'[m] = "dead" => mstate[m] = "dead"
    BY <1>1 DEF Post, QueuedState, TypeOK
  <2>7. \A q \in Run : RunKeeps(q, NoRun)
    BY <1>b, <1>c, <1>1, <2>6 DEF Post, RunKeeps, runs, turns, Active
  <2>8. RestKeeps
    BY <1>1, <2>3 DEF Post, RestKeeps, Serving, SteersNew, hist, count, TypeOK
  <2> QED BY <2>5, <2>7, <2>8, AllKeep
<1>d. ASSUME NEW d \in Delivery, SteerFallsBack(d), phase \in {"ready", "closing"}
      PROVE  Kinds
  <2>1. \A e \in Delivery : RowKeeps(e, NoRun)
    BY <1>d DEF SteerFallsBack, delv, RowKeeps
  <2>2. \A q \in Run : RunKeeps(q, NoRun)
    <3>1. \A m \in Agent : mstate'[m] = "dead" => mstate[m] = "dead"
      BY <1>d DEF SteerFallsBack, QueuedState, TypeOK
    <3> QED BY <1>b, <1>c, <1>d, <3>1 DEF SteerFallsBack, RunKeeps, runs, turns, Active
  <2>3. RestKeeps
    BY <1>d DEF SteerFallsBack, RestKeeps, SteersNew, delv, hist, count, TypeOK
  <2> QED BY <2>1, <2>2, <2>3, AllKeep
<1>2. ASSUME NEW d \in Delivery, SteerSkipped(d) PROVE Kinds
  BY <1>d, <1>2 DEF SteerSkipped, Turning
<1>3. ASSUME NEW d \in Delivery, SteerSent(d) PROVE Kinds
  <2>1. \A e \in Delivery : RowKeeps(e, NoRun)
    BY <1>3 DEF SteerSent, delv, RowKeeps
  <2>2. \A q \in Run : RunKeeps(q, NoRun)
    BY <1>b, <1>c, <1>3 DEF SteerSent, RunKeeps, runs, mems, turns, Active, TypeOK
  <2>3. RestKeeps
    BY <1>3 DEF SteerSent, RestKeeps, SteersNew, delv, mems, where, hist, count, TypeOK
  <2> QED BY <2>1, <2>2, <2>3, AllKeep
<1>4. ASSUME NEW d \in Delivery, SteerRefused(d) PROVE Kinds
  BY <1>d, <1>4 DEF SteerRefused, Turning
<1>5. ASSUME NEW d \in Delivery, SteerAcknowledged(d) PROVE Kinds
  <2>1. \A e \in Delivery : RowKeeps(e, NoRun)
    <3>1. dstate[d] = "queued" => d \in forced \cup requeued \/ bound[d] = NoRun
      BY DEF HistoryOK, FirstTimeOK, Untouched
    <3> QED BY <1>5, <3>1 DEF SteerAcknowledged, hist, RowKeeps, TypeOK
  <2>2. \A q \in Run : RunKeeps(q, NoRun)
    BY <1>b, <1>c, <1>5 DEF SteerAcknowledged, RunKeeps, runs, mems, turns, Active, TypeOK
  <2>3. RestKeeps
    BY <1>5 DEF SteerAcknowledged, RestKeeps, SteersNew, mems, where, hist, count, TypeOK
  <2> QED BY <2>1, <2>2, <2>3, AllKeep
<1>6. ASSUME NEW d \in Delivery, HarnessAccepts(d) PROVE Kinds
  BY <1>6 DEF Kinds
<1>7. ASSUME NEW d \in Delivery, consumeDelivery(d) PROVE Kinds
  <2>1. \A e \in Delivery : RowKeeps(e, NoRun)
    <3>1. d \in forced \cup requeued \/ bound[d] = NoRun
      BY <1>7 DEF consumeDelivery, HistoryOK, FirstTimeOK, Untouched
    <3> QED BY <1>7, <3>1 DEF consumeDelivery, hist, RowKeeps, TypeOK
  <2>2. \A q \in Run : RunKeeps(q, NoRun)
    BY <1>b, <1>c, <1>7 DEF consumeDelivery, delv, runs, mems, turns, flags, where,
       hist, count, RunKeeps, Active, TypeOK
  <2>3. RestKeeps
    BY <1>7 DEF consumeDelivery, delv, runs, mems, turns, flags, where, hist,
       count, RestKeeps, SteersNew, TypeOK
  <2> QED BY <2>1, <2>2, <2>3, AllKeep
<1>8. ASSUME NEW d \in Delivery, deleteMessage(d) PROVE Kinds
  <2>1. \A e \in Delivery : RowKeeps(e, NoRun)
    BY <1>8 DEF deleteMessage, Act, delv, runs, mems, turns, flags, where, hist, count,
       RowKeeps, TypeOK
  <2>2. \A q \in Run : RunKeeps(q, NoRun)
    BY <1>b, <1>c, <1>8 DEF deleteMessage, Act, delv, runs, mems, turns, flags, where,
       hist, count, RunKeeps, Active, TypeOK
  <2>3. RestKeeps
    BY <1>8 DEF deleteMessage, Act, delv, runs, mems, turns, flags, where, hist,
       count, RestKeeps, SteersNew, TypeOK
  <2> QED BY <2>1, <2>2, <2>3, AllKeep
<1>9. ASSUME NEW d \in Delivery, Redeliver(d) PROVE Kinds
  <2>1. \A e \in Delivery : RowKeeps(e, NoRun)
    BY <1>9 DEF Redeliver, Act, redeliver, RetiredWith, Serving, delv, runs, mems,
       turns, flags, where, hist, count, RowKeeps, TypeOK
  <2>2. \A q \in Run : RunKeeps(q, NoRun)
    BY <1>b, <1>c, <1>9 DEF Redeliver, Act, redeliver, RetiredWith, Serving, delv, runs,
       mems, turns, flags, where, hist, count, RunKeeps, Active, TypeOK
  <2>3. RestKeeps
    <3>1. phase' = "ready" /\ \A e \in Untouched' : attempts'[e] = attempts[e]
      BY <1>9 DEF Redeliver, Act, Serving, redeliver, Untouched, TypeOK
    <3> QED BY <1>9, <3>1 DEF Redeliver, Act, redeliver, RestKeeps, SteersNew, TypeOK
  <2> QED BY <2>1, <2>2, <2>3, AllKeep
<1>10. ASSUME NEW d \in Delivery, RetryRunResends(d) PROVE Kinds
  <2>1. \A e \in Delivery : RowKeeps(e, NoRun)
    BY <1>10 DEF RetryRunResends, redeliver, RetiredWith, delv, runs, mems, turns,
       flags, where, hist, count, RowKeeps, TypeOK
  <2>2. \A q \in Run : RunKeeps(q, NoRun)
    BY <1>b, <1>c, <1>10 DEF RetryRunResends, redeliver, RetiredWith, delv, runs, mems,
       turns, flags, where, hist, count, RunKeeps, Active, TypeOK
  <2>3. RestKeeps
    <3>1. phase' = "ready" /\ \A e \in Untouched' : attempts'[e] = attempts[e]
      BY <1>10 DEF RetryRunResends, Custody, BootOK, redeliver, Untouched, TypeOK
    <3> QED
      BY <1>10, <3>1 DEF RetryRunResends, redeliver, count, RestKeeps, SteersNew, TypeOK
  <2> QED BY <2>1, <2>2, <2>3, AllKeep
<1>11. ASSUME NEW d \in Delivery, ReleaseRefused(d) PROVE Kinds
  <2>1. \A e \in Delivery : RowKeeps(e, NoRun)
    BY <1>11 DEF ReleaseRefused, Act, delv, runs, mems, turns, flags, where, hist,
       count, RowKeeps, TypeOK
  <2>2. \A q \in Run : RunKeeps(q, NoRun)
    BY <1>b, <1>c, <1>11 DEF ReleaseRefused, Act, delv, runs, mems, turns, flags, where,
       hist, count, RunKeeps, Active, TypeOK
  <2>3. RestKeeps
    BY <1>11 DEF ReleaseRefused, Act, delv, runs, mems, turns, flags, where, hist,
       count, RestKeeps, SteersNew, TypeOK
  <2> QED BY <2>1, <2>2, <2>3, AllKeep
<1>12. ASSUME NEW d \in Delivery, ReleaseResumes(d) PROVE Kinds
  <2> DEFINE G == {e \in BoundTo(bound[d]) : dstate[e] = "held" /\ To[e] = To[d]}
  <2>1. /\ beginTurn(To[d], G, {}, bound[d], "none") /\ forced' = forced \cup G
        /\ UNCHANGED <<fed, proven, requeued, removed, steer, phase, seen>>
        /\ To[d] \notin inflight /\ bound[d] # NoRun /\ phase = "ready"
        /\ status[bound[d]] = "interrupted" /\ dstate[d] = "held" /\ ops' = ops + 1
    BY <1>12 DEF ReleaseResumes, turnStartEligibility, where, Act, Serving
  <2>2. To[d] \in Agent /\ bound[d] \in Run /\ author[bound[d]] = To[d]
    BY <2>1, ConstantsAssumption DEF TypeOK, TurnsOK, BoundOK
  <2>3. /\ G \in SUBSET Delivery /\ \A e \in G : bound[e] = bound[d]
        /\ \A e \in G : e \notin Untouched'
    BY <2>1 DEF BoundTo, Untouched
  <2>4. ~Active(bound[d])
    BY <2>1, <2>2 DEF TurnsOK, OneTurnPerMember
  <2>5. ASSUME NEW e \in Untouched', bound'[e] = bound[d]
        PROVE  /\ dstate'[e] # "consumed" \/ e \in purged \cup settled \/ To[e] \in removed
               /\ dstate'[e] # "delivering"
    <3>1. e \in Delivery /\ e \in Untouched /\ e \notin G
      BY <2>1, <2>3, <2>5 DEF Untouched
    <3>2. dstate'[e] = dstate[e] /\ bound[e] = bound[d]
      BY <2>1, <2>5, <3>1 DEF beginTurn
    <3>3. dstate[e] # "delivering"
      BY <2>1, <3>1, <3>2 DEF Custody, CustodyOK
    <3>4. dstate[e] # "consumed" \/ e \in purged \cup settled \/ To[e] \in removed
      BY <2>1, <3>1, <3>2 DEF HistoryOK, FirstTimeOK, BoundTo
    <3> QED BY <3>2, <3>3, <3>4
  <2>6. ops' \in Nat /\ ops' >= ops
    BY <2>1 DEF TypeOK
  <2> HIDE DEF G
  <2>7. Begins(To[d], G, {}, bound[d], "none")
    BY <2>1, <2>3, <2>4, <2>5, <2>6 DEF Begins
  <2>8. "none" \in After
    BY DEF After
  <2> QED BY <2>2, <2>3, <2>7, <2>8, OneBegins
<1>13. ASSUME NEW d \in Delivery, ReleaseQueues(d) PROVE Kinds
  <2>1. \A e \in Delivery : RowKeeps(e, NoRun)
    BY <1>13 DEF ReleaseQueues, Act, Serving, delv, runs, mems, turns, flags, where,
       hist, count, RowKeeps, TypeOK
  <2>2. \A q \in Run : RunKeeps(q, NoRun)
    BY <1>b, <1>c, <1>13 DEF ReleaseQueues, Act, Serving, delv, runs, mems, turns,
       flags, where, hist, count, RunKeeps, Active, TypeOK
  <2>3. RestKeeps
    BY <1>13 DEF ReleaseQueues, Act, Serving, delv, runs, mems, turns, flags,
       where, hist, count, RestKeeps, SteersNew, TypeOK
  <2> QED BY <2>1, <2>2, <2>3, AllKeep
<1>14. ASSUME NEW m \in Agent, AnswerAsk(m) PROVE Kinds
  <2>1. \A e \in Delivery : RowKeeps(e, NoRun)
    BY <1>14 DEF AnswerAsk, delv, runs, mems, turns, flags, where, hist, count,
       RowKeeps, TypeOK
  <2>2. \A q \in Run : RunKeeps(q, NoRun)
    BY <1>b, <1>c, <1>14 DEF AnswerAsk, delv, runs, mems, turns, flags, where, hist,
       count, RunKeeps, Active, TypeOK
  <2>3. RestKeeps
    BY <1>14 DEF AnswerAsk, delv, runs, mems, turns, flags, where, hist, count,
       RestKeeps, SteersNew, TypeOK
  <2> QED BY <2>1, <2>2, <2>3, AllKeep
<1>15. ASSUME NEW m \in Agent, interruptMember(m) PROVE Kinds
  <2>1. \A e \in Delivery : RowKeeps(e, NoRun)
    BY <1>15 DEF interruptMember, Act, delv, runs, mems, turns, flags, where, hist,
       count, RowKeeps, TypeOK
  <2>2. \A q \in Run : RunKeeps(q, NoRun)
    BY <1>b, <1>c, <1>15 DEF interruptMember, Act, delv, runs, mems, turns, flags,
       where, hist, count, RunKeeps, Active, TypeOK
  <2>3. RestKeeps
    BY <1>15 DEF interruptMember, Act, delv, runs, mems, turns, flags, where,
       hist, count, RestKeeps, SteersNew, TypeOK
  <2> QED BY <2>1, <2>2, <2>3, AllKeep
<1>16. ASSUME NEW m \in Agent, killMember(m) PROVE Kinds
  <2>1. \A e \in Delivery : RowKeeps(e, NoRun)
    BY <1>16 DEF killMember, Act, SkippedWith, delv, runs, mems, turns, flags, where,
       hist, count, RowKeeps, TypeOK
  <2>2. \A q \in Run : RunKeeps(q, NoRun)
    BY <1>b, <1>c, <1>16 DEF killMember, Act, SkippedWith, delv, runs, mems, turns,
       flags, where, hist, count, RunKeeps, Active, TypeOK
  <2>3. RestKeeps
    BY <1>16 DEF killMember, Act, SkippedWith, delv, runs, mems, turns, flags,
       where, hist, count, RestKeeps, SteersNew, TypeOK
  <2> QED BY <2>1, <2>2, <2>3, AllKeep
<1>17. ASSUME NEW m \in Agent, reviveMember(m) PROVE Kinds
  <2>1. \A e \in Delivery : RowKeeps(e, NoRun)
    BY <1>17 DEF reviveMember, Act, ActiveOf, Serving, delv, runs, mems, turns, flags,
       where, hist, count, RowKeeps, TypeOK
  <2>2. \A q \in Run : RunKeeps(q, NoRun)
    <3>1. mstate[m] = "dead" /\ ops < MaxOps /\ Acts \cap {"revive", "retry"} # {}
      BY <1>17 DEF reviveMember, Act
    <3> QED BY <1>b, <1>c, <1>17, <3>1
            DEF reviveMember, ActiveOf, runs, RunKeeps, Active, TypeOK
  <2>3. RestKeeps
    BY <1>17 DEF reviveMember, Act, ActiveOf, Serving, delv, runs, mems, turns,
       flags, where, hist, count, RestKeeps, SteersNew, TypeOK
  <2> QED BY <2>1, <2>2, <2>3, AllKeep
<1>18. ASSUME NEW m \in Agent, pauseMember(m) PROVE Kinds
  <2>1. \A e \in Delivery : RowKeeps(e, NoRun)
    BY <1>18 DEF pauseMember, Act, delv, runs, mems, turns, flags, where, hist, count,
       RowKeeps, TypeOK
  <2>2. \A q \in Run : RunKeeps(q, NoRun)
    BY <1>b, <1>c, <1>18 DEF pauseMember, Act, delv, runs, mems, turns, flags, where,
       hist, count, RunKeeps, Active, TypeOK
  <2>3. RestKeeps
    BY <1>18 DEF pauseMember, Act, delv, runs, mems, turns, flags, where, hist,
       count, RestKeeps, SteersNew, TypeOK
  <2> QED BY <2>1, <2>2, <2>3, AllKeep
<1>19. ASSUME NEW m \in Agent, unpauseMember(m) PROVE Kinds
  <2>1. \A e \in Delivery : RowKeeps(e, NoRun)
    BY <1>19 DEF unpauseMember, Act, Serving, delv, runs, mems, turns, flags, where,
       hist, count, RowKeeps, TypeOK
  <2>2. \A q \in Run : RunKeeps(q, NoRun)
    BY <1>b, <1>c, <1>19 DEF unpauseMember, Act, Serving, delv, runs, mems, turns,
       flags, where, hist, count, RunKeeps, Active, TypeOK
  <2>3. RestKeeps
    BY <1>19 DEF unpauseMember, Act, Serving, delv, runs, mems, turns, flags,
       where, hist, count, RestKeeps, SteersNew, TypeOK
  <2> QED BY <2>1, <2>2, <2>3, AllKeep
<1>20. ASSUME NEW m \in Agent, removeMember(m) PROVE Kinds
  <2>1. \A e \in Delivery : RowKeeps(e, NoRun)
    BY <1>20 DEF removeMember, Act, ActiveOf, Waiting, delv, runs, mems, turns, flags,
       where, hist, count, RowKeeps, TypeOK
  <2>2. \A q \in Run : RunKeeps(q, NoRun)
    BY <1>b, <1>c, <1>20 DEF removeMember, Act, ActiveOf, Waiting, delv, runs, mems,
       turns, flags, where, hist, count, RunKeeps, Active, TypeOK
  <2>3. RestKeeps
    BY <1>20 DEF removeMember, Act, ActiveOf, Waiting, delv, runs, mems, turns,
       flags, where, hist, count, RestKeeps, SteersNew, TypeOK
  <2> QED BY <2>1, <2>2, <2>3, AllKeep
<1>21. ASSUME NEW m \in Agent, PumpNothing(m) PROVE Kinds
  <2>1. \A e \in Delivery : RowKeeps(e, NoRun)
    BY <1>21 DEF PumpNothing, delv, runs, mems, turns, flags, where, hist, count,
       RowKeeps, TypeOK
  <2>2. \A q \in Run : RunKeeps(q, NoRun)
    BY <1>b, <1>c, <1>21 DEF PumpNothing, delv, runs, mems, turns, flags, where, hist,
       count, RunKeeps, Active, TypeOK
  <2>3. RestKeeps
    BY <1>21 DEF PumpNothing, delv, runs, mems, turns, flags, where, hist, count,
       RestKeeps, SteersNew, TypeOK
  <2> QED BY <2>1, <2>2, <2>3, AllKeep
<1>22. ASSUME NEW m \in Agent, PumpStart(m) PROVE Kinds
  <2> DEFINE B == selectDeliveryBatchPrefix(Queue(m))
  <2>1. /\ m \notin inflight /\ m \notin removed
        /\ UNCHANGED <<removed, steer, phase, seen, fed, proven, forced, requeued, ops>>
        /\ B \subseteq Delivery
        /\ \A d \in B : To[d] = m /\ dstate[d] = "queued" /\ steer[d] = "no"
    BY <1>22 DEF PumpStart, turnStartEligibility, selectDeliveryBatchPrefix, Queue, hist,
       count
  <2>2. phase \notin {"boot", "sweep"} /\ Untouched' = Untouched
    BY <1>22, <2>1 DEF PumpStart, HistoryOK, SeenOK, Untouched
  <2>3. \A d \in B \cap Untouched : bound[d] = NoRun
    BY <2>1 DEF HistoryOK, FirstTimeOK
  <2> HIDE DEF B
  <2>4. CASE \E H \in SUBSET B : \E r \in FreshRuns :
                beginTurn(m, B \ H, H, r, "drain")
    <3>1. PICK H \in SUBSET B : \E r \in FreshRuns :
                 beginTurn(m, B \ H, H, r, "drain")
      BY <2>4
    <3>2. PICK r \in FreshRuns : beginTurn(m, B \ H, H, r, "drain")
      BY <3>1
    <3>3. r \in Run /\ status[r] = "none"
      BY DEF FreshRuns
    <3>4. \A d \in Delivery : bound[d] # r
      BY <3>3, ConstantsAssumption DEF TurnsOK, BoundOK
    <3>5. ~Active(r)
      BY <3>3 DEF Custody, BatchOK
    <3>6. \A d \in Delivery : bound'[d] = r => dstate'[d] = "delivering"
      BY <3>2, <3>4, <2>1 DEF beginTurn
    <3>7. Whole(r)'
      BY <3>6 DEF Whole, BoundTo
    <3>8. ops' \in Nat /\ ops' >= ops
      BY <2>1 DEF TypeOK
    <3>9. \A d \in Untouched' : d \in Delivery
      BY DEF Untouched
    <3>10. Begins(m, B \ H, H, r, "drain")
      BY <2>1, <2>2, <2>3, <3>2, <3>5, <3>6, <3>7, <3>8, <3>9 DEF Begins
    <3>11. B \ H \in SUBSET Delivery /\ H \in SUBSET Delivery /\ "drain" \in After
      BY <2>1 DEF After
    <3> QED BY <3>3, <3>10, <3>11, OneBegins
  <2>5. CASE /\ dstate' = [d \in Delivery |-> IF d \in B THEN "held" ELSE dstate[d]]
             /\ mstate' = [mstate EXCEPT ![m] = IF @ = "queued" THEN "idle" ELSE @]
             /\ UNCHANGED <<bound, attempts, evidence, purged, settled, runs, turns>>
             /\ pump' = pump \ {m}
    <3>1. \A e \in Delivery : RowKeeps(e, NoRun)
      BY <2>1, <2>5 DEF RowKeeps
    <3>2. \A q \in Run : RunKeeps(q, NoRun)
      BY <1>b, <1>c, <2>5 DEF RunKeeps, runs, turns, Active, TypeOK
    <3>3. RestKeeps
      BY <2>1, <2>5 DEF RestKeeps, SteersNew, TypeOK
    <3> QED BY <3>1, <3>2, <3>3, AllKeep
  <2>6. \A H \in SUBSET Brakable(B) : H \in SUBSET B
    BY DEF Brakable
  <2> QED BY <1>22, <2>4, <2>5, <2>6 DEF PumpStart, B
<1>23. ASSUME NEW m \in Agent, PumpFenced(m) PROVE Kinds
  <2>1. \A e \in Delivery : RowKeeps(e, NoRun)
    <3>1. \A e \in selectDeliveryBatchPrefix(Queue(m)) : dstate[e] = "queued"
      BY DEF selectDeliveryBatchPrefix, Queue
    <3> QED BY <1>23, <3>1 DEF PumpFenced, Brakable, RowKeeps
  <2>2. \A q \in Run : RunKeeps(q, NoRun)
    BY <1>b, <1>c, <1>23 DEF PumpFenced, Queue, selectDeliveryBatchPrefix, Brakable,
       delv, runs, mems, turns, flags, where, hist, count, RunKeeps, Active,
       TypeOK
  <2>3. RestKeeps
    BY <1>23 DEF PumpFenced, Queue, selectDeliveryBatchPrefix, Brakable, delv,
       runs, mems, turns, flags, where, hist, count, RestKeeps, SteersNew, TypeOK
  <2> QED BY <2>1, <2>2, <2>3, AllKeep
<1>24. ASSUME NEW m \in Agent, PumpAgain(m) PROVE Kinds
  <2>1. \A e \in Delivery : RowKeeps(e, NoRun)
    BY <1>24 DEF PumpAgain, delv, runs, mems, turns, flags, where, hist, count,
       RowKeeps, TypeOK
  <2>2. \A q \in Run : RunKeeps(q, NoRun)
    BY <1>b, <1>c, <1>24 DEF PumpAgain, delv, runs, mems, turns, flags, where, hist,
       count, RunKeeps, Active, TypeOK
  <2>3. RestKeeps
    BY <1>24 DEF PumpAgain, delv, runs, mems, turns, flags, where, hist, count,
       RestKeeps, SteersNew, TypeOK
  <2> QED BY <2>1, <2>2, <2>3, AllKeep
<1>25. ASSUME NEW r \in Run, StartThrows(r) PROVE Kinds
  <2>1. \A e \in Delivery : RowKeeps(e, NoRun)
    BY <1>25 DEF StartThrows, delv, runs, mems, turns, flags, where, hist, count,
       RowKeeps, TypeOK
  <2>2. \A q \in Run : RunKeeps(q, NoRun)
    BY <1>b, <1>c, <1>25 DEF StartThrows, delv, runs, mems, turns, flags, where, hist,
       count, RunKeeps, Active, TypeOK
  <2>3. RestKeeps
    BY <1>25 DEF StartThrows, delv, runs, mems, turns, flags, where, hist, count,
       RestKeeps, SteersNew, TypeOK
  <2> QED BY <2>1, <2>2, <2>3, AllKeep
<1>26. ASSUME NEW r \in Run, AdapterSpawns(r) PROVE Kinds
  BY <1>26 DEF Kinds, HandsOver
<1>27. ASSUME NEW r \in Run, setDeliveryAttemptProcess(r) PROVE Kinds
  BY <1>27 DEF Kinds, HandsOver
<1>28. ASSUME NEW r \in Run, JournalStarted(r) PROVE Kinds
  BY <1>28 DEF Kinds, HandsOver
<1>29. ASSUME NEW r \in Run, RaiseAsk(r) PROVE Kinds
  <2>1. \A e \in Delivery : RowKeeps(e, NoRun)
    BY <1>29 DEF RaiseAsk, delv, runs, mems, turns, flags, where, hist, count, RowKeeps,
       TypeOK
  <2>2. \A q \in Run : RunKeeps(q, NoRun)
    BY <1>b, <1>c, <1>29 DEF RaiseAsk, delv, runs, mems, turns, flags, where, hist,
       count, RunKeeps, Active, TypeOK
  <2>3. RestKeeps
    BY <1>29 DEF RaiseAsk, delv, runs, mems, turns, flags, where, hist, count,
       RestKeeps, SteersNew, TypeOK
  <2> QED BY <2>1, <2>2, <2>3, AllKeep
<1>30. ASSUME NEW r \in Run, NEW o \in Outcome, JournalCompleted(r, o) PROVE Kinds
  <2>1. \A e \in Delivery : RowKeeps(e, NoRun)
    BY <1>30 DEF JournalCompleted, Outcome, delv, runs, mems, turns, flags, where, hist,
       count, RowKeeps, TypeOK
  <2>2. \A q \in Run : RunKeeps(q, NoRun)
    BY <1>b, <1>c, <1>30 DEF JournalCompleted, Outcome, delv, runs, mems, turns, flags,
       where, hist, count, RunKeeps, Active, TypeOK
  <2>3. RestKeeps
    BY <1>30 DEF JournalCompleted, Outcome, delv, runs, mems, turns, flags, where,
       hist, count, RestKeeps, SteersNew, TypeOK
  <2> QED BY <2>1, <2>2, <2>3, AllKeep
<1>31. ASSUME NEW r \in Run, NEW o \in Outcome, StreamEnds(r, o) PROVE Kinds
  <2>1. \A e \in Delivery : RowKeeps(e, NoRun)
    BY <1>31 DEF StreamEnds, delv, runs, mems, turns, flags, where, hist, count,
       RowKeeps, TypeOK
  <2>2. \A q \in Run : RunKeeps(q, NoRun)
    BY <1>b, <1>c, <1>31 DEF StreamEnds, delv, runs, mems, turns, flags, where, hist,
       count, RunKeeps, Active, TypeOK
  <2>3. RestKeeps
    BY <1>31 DEF StreamEnds, delv, runs, mems, turns, flags, where, hist, count,
       RestKeeps, SteersNew, TypeOK
  <2> QED BY <2>1, <2>2, <2>3, AllKeep
<1>32. ASSUME NEW r \in Run, FinalizeLifecycle(r) PROVE Kinds
  <2>1. /\ settleLifecycleInterruption(r, batch[r], FALSE) /\ TurnReturns(r) /\ Active(r)
        /\ requeued' = requeued \cup LifecycleRetry(batch[r])
        /\ phase \in {"ready", "closing"}
        /\ UNCHANGED <<removed, phase, fed, proven, forced, count>>
    BY <1>32 DEF FinalizeLifecycle, Turning, Active
  <2>2. \A d \in batch[r] : d \in Delivery /\ bound[d] \in {r, NoRun}
    BY <2>1 DEF Custody, BatchOK, TypeOK
  <2>3. /\ \A d \in BoundTo(r) : dstate[d] = "delivering" => d \in batch[r]
        /\ status'[r] # "running"
    BY <2>1 DEF Custody, BatchOK, settleLifecycleInterruption, TypeOK
  <2>4. ASSUME NEW d \in Delivery
        PROVE  IF d \in LifecycleRetry(batch[r])
               THEN d \in requeued' /\ bound'[d] = NoRun /\ dstate'[d] = "queued"
               ELSE /\ bound'[d] = bound[d]
                    /\ dstate'[d] = IF d \in batch[r] /\ dstate[d] = "delivering"
                                    THEN "consumed" ELSE dstate[d]
    BY <2>1 DEF settleLifecycleInterruption, LifecycleRows, LifecycleRetry
  <2>5. ASSUME NEW d \in Delivery, bound[d] = r, d \in Untouched, d \in batch[r],
               dstate[d] = "delivering"
        PROVE  \A e \in Delivery : bound'[e] = r => dstate'[e] = "consumed"
    <3>1. \A e \in Delivery : bound[e] = r => dstate[e] \in {"delivering", "consumed"}
      BY <2>5 DEF HistoryOK, FirstTimeOK, Whole, BoundTo
    <3>2. \A e \in Delivery : bound'[e] = r => bound[e] = r
      BY <2>4, <1>c
    <3> QED BY <2>3, <2>4, <3>1, <3>2, <1>c DEF BoundTo
  <2>6. \A d \in Delivery : RowKeeps(d, r)
    <3> SUFFICES ASSUME NEW d \in Delivery PROVE RowKeeps(d, r)
      OBVIOUS
    <3>1. CASE d \in LifecycleRetry(batch[r])
      BY <2>4, <3>1 DEF RowKeeps
    <3>2. CASE d \notin LifecycleRetry(batch[r])
               /\ ~(d \in batch[r] /\ dstate[d] = "delivering")
      BY <2>4, <3>2 DEF RowKeeps
    <3>3. CASE d \notin LifecycleRetry(batch[r])
               /\ d \in batch[r] /\ dstate[d] = "delivering"
      <4>1. bound[d] = r
        BY <2>2, <3>3 DEF Custody, CustodyOK
      <4> QED BY <2>1, <2>3, <2>4, <2>5, <3>3, <4>1 DEF RowKeeps, Untouched
    <3> QED BY <3>1, <3>2, <3>3
  <2>7. \A d \in Delivery : bound'[d] = r => dstate'[d] # "delivering"
    BY <2>3, <2>4, <1>c DEF BoundTo
  <2>8. \A q \in Run : RunKeeps(q, r)
    BY <1>b, <2>1
    DEF settleLifecycleInterruption, TurnReturns, RestState, RunKeeps, Active, TypeOK
  <2>9. RestKeeps
    BY <2>1 DEF settleLifecycleInterruption, LifecycleRows, LifecycleRetry, RestKeeps,
       SteersNew,
       count, TypeOK
  <2> QED BY <2>6, <2>7, <2>8, <2>9, SomeKeep
<1>33. ASSUME NEW r \in Run, FinalizeRepairs(r) PROVE Kinds
  <2>1. /\ TurnReturns(r) /\ Active(r) /\ phase \in {"ready", "closing"}
        /\ UNCHANGED <<removed, phase, fed, proven, forced, requeued, count, bound,
                       attempts, purged, settled, author, journal, steer>>
    BY <1>33 DEF FinalizeRepairs, Turning, Active, repairFailedFinalization, delv, runs
  <2>2. \A d \in BoundTo(r) : dstate[d] = "delivering" => d \in batch[r] /\ status[r] = "running"
    BY <2>1 DEF Custody, BatchOK, CustodyOK, BoundTo
  <2>3. \A d \in batch[r] : dstate[d] = "delivering" => bound[d] = r
    BY <2>1 DEF Custody, BatchOK, CustodyOK, TypeOK
  <2>4. ASSUME NEW d \in Delivery
        PROVE  /\ dstate'[d] \in {dstate[d], "held", "consumed"}
               /\ dstate'[d] # dstate[d] =>
                    dstate[d] = "delivering" /\ d \in batch[r]
                    /\ (dstate'[d] = "consumed" => d \in settled)
               /\ d \in batch[r] /\ status[r] = "running" => dstate'[d] # "delivering"
               /\ dstate'[d] = "delivering" => evidence'[d] = evidence[d]
    BY <1>33
    DEF FinalizeRepairs, repairFailedFinalization, collaborationWorkIsSettled, delv, TypeOK
  <2>6. \A d \in Delivery : RowKeeps(d, r)
    BY <2>1, <2>3, <2>4 DEF RowKeeps
  <2>7. \A d \in Delivery : bound'[d] = r => dstate'[d] # "delivering"
    BY <2>1, <2>2, <2>4 DEF BoundTo
  <2>8. \A q \in Run : RunKeeps(q, r)
    BY <1>b, <1>33
    DEF FinalizeRepairs, repairFailedFinalization, TurnReturns, RestState, RunKeeps, Active, runs, TypeOK
  <2>9. RestKeeps
    BY <2>1, <2>4 DEF RestKeeps, SteersNew, Untouched, count, TypeOK
  <2> QED BY <2>6, <2>7, <2>8, <2>9, SomeKeep
<1>34. ASSUME NEW r \in Run, NEW f \in FanOut, FinalizeCommits(r, f[1], f[2])
      PROVE  Kinds
  <2>1. /\ completeTurn(r, batch[r], Classified(r), f[1], f[2])
        /\ TurnReturns(r) /\ Active(r) /\ phase \in {"ready", "closing"}
        /\ UNCHANGED <<removed, phase, fed, proven, forced, count>>
    BY <1>34 DEF FinalizeCommits, Turning, Active
  <2>2. /\ \A d \in batch[r] : d \in Delivery /\ bound[d] \in {r, NoRun}
        /\ \A d \in BoundTo(r) : dstate[d] = "delivering" => d \in batch[r]
    BY <2>1 DEF Custody, BatchOK, TypeOK
  <2>3. \A d \in batch[r] \cap Untouched :
          dstate[d] \in {"delivering", "consumed"} \/ bound[d] = NoRun
    BY <2>1 DEF HistoryOK, OwnBatchOK, Whole, BoundTo, Untouched
  <2>4. requeued' = requeued /\ Classified(r) \in Outcome
    BY <2>1 DEF completeTurn, Classified, Outcome, TypeOK
  <2>5. /\ \A d \in Delivery : RowKeeps(d, r) /\ SteersNew(d)
        /\ \A d \in Delivery : bound'[d] = r => dstate'[d] # "delivering"
    <3>1. batch[r] \in SUBSET Delivery
      BY DEF TypeOK
    <3> QED BY <2>1, <2>2, <2>3, <2>4, <3>1, CompleteKeeps
  <2>6. \A q \in Run : RunKeeps(q, r)
    <3>1. \A a \in Agent : mstate'[a] = "dead" => a = author[r] \/ mstate[a] = "dead"
      BY <2>1 DEF completeTurn, QueuedState, TypeOK
    <3>2. \A q \in Run : Active(q) /\ q # r => author[q] # author[r]
      BY <2>1 DEF TurnsOK, OneTurnPerMember
    <3>3. \A q \in Run : /\ Active(q)' => Active(q) /\ q # r /\ batch'[q] = batch[q]
                         /\ Active(q)' => pc'[q] = pc[q]
                         /\ q \in fenced' => q \in fenced
      BY <2>1 DEF TurnReturns, Active, TypeOK
    <3>4. \A q \in Run : /\ status'[q] = "running" => status[q] = "running"
                         /\ journal'[q] = journal[q] /\ author'[q] = author[q]
      BY <2>1, <2>4 DEF completeTurn, Outcome, TypeOK
    <3> QED BY <1>b, <3>1, <3>2, <3>3, <3>4 DEF RunKeeps
  <2>7. RestKeeps
    BY <2>1, <2>4, <2>5 DEF completeTurn, RestKeeps, SteersNew, Untouched, count, TypeOK
  <2> QED BY <2>5, <2>6, <2>7, SomeKeep
<1>35. ASSUME NEW r \in Run, retryRun(r) PROVE Kinds
  <2>1. \A e \in Delivery : RowKeeps(e, NoRun)
    BY <1>35 DEF retryRun, Act, ActiveOf, Serving, delv, runs, mems, turns, flags,
       where, hist, count, RowKeeps, TypeOK
  <2>2. \A q \in Run : RunKeeps(q, NoRun)
    <3>1. ops < MaxOps /\ Acts \cap {"revive", "retry"} # {}
      BY <1>35 DEF retryRun, Act
    <3>2. /\ UNCHANGED <<pc, batch, status, author, journal>>
          /\ \/ fenced' = fenced
             \/ fenced' = fenced \cup ActiveOf(author[r]) /\ mstate[author[r]] = "dead"
          /\ \A a \in Agent : mstate'[a] = "dead" => mstate[a] = "dead"
      BY <1>35 DEF retryRun, runs, TypeOK
    <3> QED BY <1>b, <1>c, <3>1, <3>2 DEF RunKeeps, ActiveOf, Active, TypeOK
  <2>3. RestKeeps
    BY <1>35 DEF retryRun, Act, ActiveOf, Serving, delv, runs, mems, turns, flags,
       where, hist, count, RestKeeps, SteersNew, TypeOK
  <2> QED BY <2>1, <2>2, <2>3, AllKeep
<1>36. ASSUME NEW r \in Run, OrphanExits(r) PROVE Kinds
  <2>1. \A e \in Delivery : RowKeeps(e, NoRun)
    BY <1>36 DEF OrphanExits, delv, runs, mems, turns, flags, where, hist, count,
       RowKeeps, TypeOK
  <2>2. \A q \in Run : RunKeeps(q, NoRun)
    BY <1>b, <1>c, <1>36 DEF OrphanExits, delv, runs, mems, turns, flags, where, hist,
       count, RunKeeps, Active, TypeOK
  <2>3. RestKeeps
    BY <1>36 DEF OrphanExits, delv, runs, mems, turns, flags, where, hist, count,
       RestKeeps, SteersNew, TypeOK
  <2> QED BY <2>1, <2>2, <2>3, AllKeep
<1>37. ASSUME NEW r \in Run, ReconcileRetries(r) PROVE Kinds
  <2>1. /\ Group(r) \in SUBSET Delivery /\ Group(r) # {} /\ author[r] \in Agent
        /\ r \in todo /\ phase = "boot" /\ author[r] \notin removed
        /\ UNCHANGED <<fed, proven, forced, removed, steer, phase, seen, pump, ops>>
        /\ ~Blocked(r) => NeverStarted(r)
    BY <1>37, BoundAuthor
       DEF ReconcileRetries, Reconciling, Group, BoundTo, TurnsOK, turnStartEligibility,
           Retryable, count
  <2>2. /\ \A d \in Group(r) : To[d] = author[r] /\ bound[d] = r /\ dstate[d] = "delivering"
        /\ ~Active(r) /\ r \in seen /\ r # NoRun
    BY <2>1, ConstantsAssumption DEF Group, BoundTo, TurnsOK, BoundOK, Custody, BootOK
  <2>3. \A d \in Untouched : bound[d] = r /\ dstate[d] = "consumed" =>
                              d \in purged \cup settled \/ To[d] \in removed
    BY <2>1, <2>2 DEF HistoryOK, FirstTimeOK, BoundTo, Group
  <2>4. CASE /\ \E then \in After : beginTurn(author[r], Group(r), {}, r, then)
             /\ requeued' = IF Blocked(r) THEN requeued \cup Group(r) ELSE requeued
    <3>1. PICK then \in After : beginTurn(author[r], Group(r), {}, r, then)
      BY <2>4
    <3>2. requeued \subseteq requeued' /\ \A d \in Untouched' : d \in Untouched /\ d \in Delivery
      BY <2>1, <2>4 DEF Untouched
    <3>3. ASSUME NEW d \in Group(r), d \in Untouched'
          PROVE  journal[r] = "empty" /\ attempts[d] <= 1 /\ evidence[d] = NoRun
      BY <2>1, <2>4, <3>3 DEF NeverStarted, Untouched
    <3>4. \A d \in Delivery : bound'[d] = bound[d] /\ dstate'[d] = dstate[d]
      BY <2>2, <3>1 DEF beginTurn
    <3>5. ASSUME NEW d \in Untouched', bound'[d] = r, dstate'[d] = "delivering"
          PROVE  Whole(r)'
      <4>1. Whole(r)
        BY <3>2, <3>4, <3>5 DEF HistoryOK, FirstTimeOK
      <4> QED BY <3>4, <4>1 DEF Whole, BoundTo
    <3>6. ops' \in Nat /\ ops' >= ops
      BY <2>1 DEF TypeOK
    <3> HIDE DEF Group
    <3>7. Begins(author[r], Group(r), {}, r, then)
      BY <2>1, <2>2, <2>3, <3>1, <3>2, <3>3, <3>4, <3>5, <3>6 DEF Begins
    <3> QED BY <2>1, <3>7, OneBegins
  <2>5. CASE /\ dstate' = [d \in Delivery |-> IF d \in Group(r) THEN "held" ELSE dstate[d]]
             /\ UNCHANGED <<bound, attempts, evidence, purged, settled, runs, mstate, turns,
                            requeued>>
    <3>1. \A d \in Delivery : RowKeeps(d, r)
      BY <2>2, <2>5 DEF RowKeeps
    <3>2. \A d \in Delivery : bound'[d] = r => dstate'[d] # "delivering"
      BY <2>5 DEF Group, BoundTo
    <3>3. \A q \in Run : RunKeeps(q, r)
      BY <2>2, <2>5 DEF RunKeeps, runs, turns, Active
    <3>4. RestKeeps
      BY <2>1, <2>5 DEF RestKeeps, SteersNew, Untouched, TypeOK
    <3> QED BY <3>1, <3>2, <3>3, <3>4, SomeKeep
  <2> QED BY <1>37, <2>4, <2>5 DEF ReconcileRetries, After
<1>38. ASSUME NEW r \in Run, HoldRows(r) PROVE Kinds
  <2>1. /\ ~Active(r) /\ dstate' = [d \in Delivery |-> IF d \in Group(r) THEN "held" ELSE dstate[d]]
        /\ UNCHANGED <<bound, attempts, evidence, hopped, purged, settled, runs, mems, turns,
                 flags, where, orphans, hist, count>>
    BY <1>38 DEF HoldRows, Reconciling, Custody, BootOK
  <2>2. \A d \in Delivery : RowKeeps(d, r)
    BY <2>1 DEF RowKeeps, Group, BoundTo
  <2>3. \A d \in Delivery : bound'[d] = r => dstate'[d] # "delivering"
    BY <2>1 DEF Group, BoundTo
  <2>4. \A q \in Run : RunKeeps(q, r)
    BY <2>1 DEF RunKeeps, runs, turns, mems, Active
  <2>5. RestKeeps
    BY <2>1 DEF RestKeeps, SteersNew, Untouched, mems, flags, where, hist, count, TypeOK
  <2> QED BY <2>2, <2>3, <2>4, <2>5, SomeKeep
<1>39. ASSUME NEW r \in Run, HoldRetires(r) PROVE Kinds
  <2>1. \A e \in Delivery : RowKeeps(e, NoRun)
    BY <1>39 DEF HoldRetires, RestState, delv, runs, mems, turns, flags, where, hist,
       count, RowKeeps, TypeOK
  <2>2. \A q \in Run : RunKeeps(q, NoRun)
    BY <1>b, <1>c, <1>39 DEF HoldRetires, RestState, delv, runs, mems, turns, flags,
       where, hist, count, RunKeeps, Active, TypeOK
  <2>3. RestKeeps
    BY <1>39 DEF HoldRetires, RestState, delv, runs, mems, turns, flags, where,
       hist, count, RestKeeps, SteersNew, TypeOK
  <2> QED BY <2>1, <2>2, <2>3, AllKeep
<1>40. ASSUME NEW r \in Run, SettleStranded(r) PROVE Kinds
  <2>1. /\ settleLifecycleInterruption(r, BoundTo(r), author[r] \in inflight)
        /\ phase = "sweep" /\ r \notin seen /\ status[r] = "running"
        /\ UNCHANGED <<requeued, removed, turns, where, fed, proven, forced, count>>
    BY <1>40 DEF SettleStranded, Stranded
  <2>2. /\ ~Active(r) /\ \A d \in Delivery : bound[d] = r => dstate[d] # "delivering"
    BY <2>1 DEF HistoryOK, SeenOK
  <2>3. ASSUME NEW d \in LifecycleRetry(BoundTo(r))
        PROVE  /\ d \in Delivery /\ bound[d] = r
               /\ d \in forced \cup requeued \/ To[d] \in removed
    <3>1. /\ d \in Delivery /\ bound[d] = r /\ dstate[d] = "consumed"
          /\ d \notin purged \cup settled
      BY <2>2 DEF LifecycleRetry, LifecycleRows, BoundTo, collaborationWorkIsSettled
    <3> QED BY <1>c, <2>1, <3>1 DEF HistoryOK, FirstTimeOK, Untouched
  <2>4. ASSUME NEW d \in Delivery
        PROVE  IF d \in LifecycleRetry(BoundTo(r))
               THEN bound'[d] = NoRun /\ dstate'[d] = "queued"
               ELSE bound'[d] = bound[d] /\ dstate'[d] = dstate[d]
    BY <2>1, <2>2 DEF settleLifecycleInterruption, LifecycleRows, LifecycleRetry, BoundTo
  <2>5. \A d \in Delivery : RowKeeps(d, r)
    BY <2>1, <2>3, <2>4 DEF RowKeeps
  <2>6. \A d \in Delivery : bound'[d] = r => dstate'[d] # "delivering"
    BY <1>c, <2>2, <2>4
  <2>7. \A q \in Run : RunKeeps(q, r)
    BY <1>b, <2>1, <2>2
    DEF settleLifecycleInterruption, RestState, RunKeeps, turns, Active, TypeOK
  <2>8. RestKeeps
    BY <2>1 DEF settleLifecycleInterruption, LifecycleRows, LifecycleRetry, RestKeeps,
       SteersNew,
       Untouched, where, count, TypeOK
  <2> QED BY <2>5, <2>6, <2>7, <2>8, SomeKeep
<1>41. ASSUME NEW r \in Run, NEW f \in FanOut, ReconcileFinishes(r, f[1], f[2])
      PROVE  Kinds
  <2>1. /\ r \in todo /\ phase = "boot" /\ pump = {} /\ Group(r) # {} /\ journal[r] \in Outcome
        /\ UNCHANGED <<removed, turns, phase, seen, fed, proven, forced, count>>
    BY <1>41 DEF ReconcileFinishes, Reconciling
  <2>2. /\ Group(r) \in SUBSET Delivery /\ ~Active(r)
        /\ \A d \in Group(r) : bound[d] = r /\ dstate[d] = "delivering" /\ To[d] = author[r]
        /\ \A d \in BoundTo(r) : dstate[d] = "delivering" => d \in Group(r)
    BY <1>c, <2>1 DEF Group, BoundTo, Custody, BootOK, TurnsOK, BoundOK
  <2>4. CASE completeTurn(r, Group(r), journal[r], f[1], f[2]) /\ pump' = QueuedFor(f[1], f[2])
    <3>1. f[1] = {}
      <4>1. ASSUME NEW d \in f[1] PROVE FALSE
        <5>1. d \in Delivery /\ To[d] # author[r] /\ \A e \in Group(r) : ~Grouped(e)
          BY <2>4, <4>1 DEF completeTurn, NextRow
        <5>2. PICK e \in Group(r) : TRUE
          BY <2>1
        <5>3. To[d] \in Agent /\ To[e] \in Agent /\ To[e] = author[r] /\ ~Grouped(e)
              /\ e \in Delivery
          BY <2>2, <5>1, <5>2, Recipients
        <5> QED BY <5>1, <5>3 DEF NoFanOut
      <4> QED BY <4>1
    <3>2. pump' = {}
      BY <2>4, <3>1 DEF QueuedFor
    <3>3. requeued' = requeued
      BY <2>4 DEF completeTurn
    <3>4. /\ \A d \in Delivery : RowKeeps(d, r) /\ SteersNew(d)
          /\ \A d \in Delivery : bound'[d] = r => dstate'[d] # "delivering"
      <4> HIDE DEF Group
      <4> QED BY <2>1, <2>2, <2>4, <3>3, CompleteKeeps
    <3>5. \A q \in Run : RunKeeps(q, r)
      <4>1. \A q \in Run : /\ status'[q] = "running" => status[q] = "running"
                           /\ journal'[q] = journal[q] /\ author'[q] = author[q]
        BY <2>1, <2>4 DEF completeTurn, Outcome, TypeOK
      <4> QED BY <2>1, <2>2, <4>1 DEF RunKeeps, turns, Active
    <3>6. RestKeeps
      BY <2>1, <2>4, <3>2, <3>4
      DEF completeTurn, RestKeeps, SteersNew, Untouched, count, TypeOK
    <3> QED BY <3>4, <3>5, <3>6, SomeKeep
  <2>5. CASE repairFailedFinalization(r, Group(r)) /\ pump' = pump
    <3>0. UNCHANGED <<bound, attempts, purged, settled, author, journal, steer, requeued>>
      BY <2>5 DEF repairFailedFinalization
    <3>1. ASSUME NEW d \in Delivery
          PROVE  IF d \in Group(r)
                 THEN dstate'[d] = "held" \/ (dstate'[d] = "consumed" /\ d \in settled)
                 ELSE dstate'[d] = dstate[d] /\ evidence'[d] = evidence[d]
      BY <2>2, <2>5 DEF repairFailedFinalization, collaborationWorkIsSettled, TypeOK
    <3>2. \A d \in Delivery : RowKeeps(d, r)
      BY <2>2, <3>0, <3>1 DEF RowKeeps
    <3>3. \A d \in Delivery : bound'[d] = r => dstate'[d] # "delivering"
      BY <2>2, <3>0, <3>1 DEF BoundTo
    <3>4. \A q \in Run : RunKeeps(q, r)
      BY <2>1, <2>2, <2>5, <3>1
      DEF repairFailedFinalization, RunKeeps, turns, Active, TypeOK
    <3>5. RestKeeps
      BY <2>1, <2>5, <3>0, <3>1 DEF RestKeeps, SteersNew, Untouched, count, TypeOK
    <3> QED BY <3>2, <3>3, <3>4, <3>5, SomeKeep
  <2> QED BY <1>41, <2>4, <2>5 DEF ReconcileFinishes
<1>42. ASSUME Boot PROVE Kinds
  BY <1>42 DEF Kinds
<1>43. ASSUME Sweep PROVE Kinds
  <2>1. \A e \in Delivery : RowKeeps(e, NoRun)
    BY <1>43 DEF Sweep, delv, runs, mems, turns, flags, where, hist, count, RowKeeps,
       TypeOK
  <2>2. \A q \in Run : RunKeeps(q, NoRun)
    BY <1>b, <1>c, <1>43 DEF Sweep, delv, runs, mems, turns, flags, where, hist, count,
       RunKeeps, Active, TypeOK
  <2>3. RestKeeps
    BY <1>43 DEF Sweep, delv, runs, mems, turns, flags, where, hist, count,
       RestKeeps, SteersNew, TypeOK
  <2> QED BY <2>1, <2>2, <2>3, AllKeep
<1>44. ASSUME Serve PROVE Kinds
  <2>1. \A e \in Delivery : RowKeeps(e, NoRun)
    BY <1>44 DEF Serve, delv, runs, mems, turns, flags, where, hist, count, RowKeeps,
       TypeOK
  <2>2. \A q \in Run : RunKeeps(q, NoRun)
    BY <1>b, <1>c, <1>44 DEF Serve, delv, runs, mems, turns, flags, where, hist, count,
       RunKeeps, Active, TypeOK
  <2>3. RestKeeps
    BY <1>44 DEF Serve, delv, runs, mems, turns, flags, where, hist, count,
       RestKeeps, SteersNew, TypeOK
  <2> QED BY <2>1, <2>2, <2>3, AllKeep
<1>45. ASSUME Close PROVE Kinds
  <2>1. \A e \in Delivery : RowKeeps(e, NoRun)
    BY <1>45 DEF Close, Serving, delv, runs, mems, turns, flags, where, hist, count,
       RowKeeps, TypeOK
  <2>2. \A q \in Run : RunKeeps(q, NoRun)
    BY <1>b, <1>c, <1>45 DEF Close, Serving, delv, runs, mems, turns, flags, where,
       hist, count, RunKeeps, Active, TypeOK
  <2>3. RestKeeps
    BY <1>45 DEF Close, Serving, delv, runs, mems, turns, flags, where, hist,
       count, RestKeeps, SteersNew, TypeOK
  <2> QED BY <2>1, <2>2, <2>3, AllKeep
<1>46. ASSUME Closed PROVE Kinds
  <2>1. \A e \in Delivery : RowKeeps(e, NoRun)
    BY <1>46 DEF Closed, MemoryLost, delv, runs, mems, turns, flags, where, hist, count,
       RowKeeps, TypeOK
  <2>2. \A q \in Run : RunKeeps(q, NoRun)
    BY <1>b, <1>c, <1>46 DEF Closed, MemoryLost, delv, runs, mems, turns, flags, where,
       hist, count, RunKeeps, Active, TypeOK
  <2>3. RestKeeps
    BY <1>46 DEF Closed, MemoryLost, delv, runs, mems, turns, flags, where, hist,
       count, RestKeeps, SteersNew, TypeOK
  <2> QED BY <2>1, <2>2, <2>3, AllKeep
<1>47. ASSUME Crash PROVE Kinds
  <2>1. \A e \in Delivery : RowKeeps(e, NoRun)
    BY <1>47 DEF Crash, MemoryLost, delv, runs, mems, turns, flags, where, hist, count,
       RowKeeps, TypeOK
  <2>2. \A q \in Run : RunKeeps(q, NoRun)
    BY <1>b, <1>c, <1>47 DEF Crash, MemoryLost, delv, runs, mems, turns, flags, where,
       hist, count, RunKeeps, Active, TypeOK
  <2>3. RestKeeps
    BY <1>47 DEF Crash, MemoryLost, delv, runs, mems, turns, flags, where, hist,
       count, RestKeeps, SteersNew, TypeOK
  <2> QED BY <2>1, <2>2, <2>3, AllKeep
<1>48. ASSUME AwaitInput PROVE Kinds
  <2>1. \A e \in Delivery : RowKeeps(e, NoRun)
    BY <1>48 DEF AwaitInput, vars, delv, runs, mems, turns, flags, where, hist, count,
       RowKeeps, TypeOK
  <2>2. \A q \in Run : RunKeeps(q, NoRun)
    BY <1>b, <1>c, <1>48 DEF AwaitInput, vars, delv, runs, mems, turns, flags, where,
       hist, count, RunKeeps, Active, TypeOK
  <2>3. RestKeeps
    BY <1>48 DEF AwaitInput, vars, delv, runs, mems, turns, flags, where, hist,
       count, RestKeeps, SteersNew, TypeOK
  <2> QED BY <2>1, <2>2, <2>3, AllKeep
<1>49. CASE UNCHANGED vars
  <2>1. \A e \in Delivery : RowKeeps(e, NoRun)
    BY <1>49 DEF vars, delv, runs, mems, turns, flags, where, hist, count, RowKeeps,
       TypeOK
  <2>2. \A q \in Run : RunKeeps(q, NoRun)
    BY <1>b, <1>c, <1>49 DEF vars, delv, runs, mems, turns, flags, where, hist, count,
       RunKeeps, Active, TypeOK
  <2>3. RestKeeps
    BY <1>49 DEF vars, delv, runs, mems, turns, flags, where, hist, count,
       RestKeeps, SteersNew, TypeOK
  <2> QED BY <2>1, <2>2, <2>3, AllKeep
<1> QED BY <1>1, <1>2, <1>3, <1>4, <1>5, <1>6, <1>7, <1>8, <1>9, <1>10, <1>11,
          <1>12, <1>13, <1>14, <1>15, <1>16, <1>17, <1>18, <1>19, <1>20, <1>21,
          <1>22, <1>23, <1>24, <1>25, <1>26, <1>27, <1>28, <1>29, <1>30, <1>31,
          <1>32, <1>33, <1>34, <1>35, <1>36, <1>37, <1>38, <1>39, <1>40, <1>41,
          <1>42, <1>43, <1>44, <1>45, <1>46, <1>47, <1>48, <1>49
         DEF Next, SteerStep, DeliveryAct, MemberAct, TurnStep, Pump, BootStep

\* Steps that begin no turn and hand nothing over keep the untouched rows' history.
LEMMA KeepsHistory ==
  ASSUME TypeOK, Custody, HistoryOK, NEW r \in Run \cup {NoRun}, Keeps(r)
  PROVE  HistoryOK'
<1> USE DEF Keeps, RestKeeps
<1>1. \A d \in Untouched' : d \in Delivery /\ d \in Untouched
  BY DEF Untouched
<1>2. ASSUME NEW q, q # NoRun, q # r, Whole(q) PROVE Whole(q)'
  BY <1>2 DEF Whole, BoundTo, RowKeeps
<1>4. FirstTimeOK'
  <2> SUFFICES ASSUME NEW d \in Delivery, d \in Untouched, d \in Untouched'
               PROVE  /\ dstate'[d] \in {"absent", "queued"} => bound'[d] = NoRun
                      /\ bound'[d] # NoRun => attempts'[d] >= 1
                      /\ dstate'[d] = "delivering" => Whole(bound[d])'
                      /\ /\ dstate'[d] = "consumed" /\ d \notin purged' \cup settled'
                         /\ bound'[d] # NoRun /\ To[d] \notin removed'
                         => /\ status'[bound'[d]] # "running"
                            /\ (\A e \in BoundTo(bound[d]) : dstate[e] = "consumed")'
    BY <1>1 DEF FirstTimeOK
  <2>0. d \notin forced' \cup requeued'
    BY DEF Untouched
  <2>1. dstate'[d] \in {"absent", "queued"} => bound'[d] = NoRun
    BY <2>0 DEF HistoryOK, RowKeeps, FirstTimeOK
  <2>2. bound'[d] # NoRun => attempts'[d] >= 1
    BY <2>0 DEF HistoryOK, RowKeeps, FirstTimeOK
  <2>3. ASSUME dstate'[d] = "delivering" PROVE Whole(bound[d])'
    <3>1. dstate[d] = "delivering" /\ bound'[d] = bound[d]
      BY <2>3 DEF RowKeeps
    <3>2. Whole(bound[d]) /\ bound[d] # NoRun /\ bound[d] # r
      BY <2>3, <3>1 DEF HistoryOK, FirstTimeOK, Custody, CustodyOK
    <3> DEFINE q == bound[d]
    <3>3. Whole(q) /\ q # NoRun /\ q # r
      BY <3>2
    <3> HIDE DEF q
    <3>4. \A e \in Delivery : bound'[e] = q => dstate'[e] \in {"delivering", "consumed"}
      BY <3>3 DEF Whole, BoundTo, RowKeeps
    <3> QED BY <3>1, <3>4 DEF q, Whole, BoundTo
  <2>4. ASSUME dstate'[d] = "consumed", d \notin purged' \cup settled',
               bound'[d] # NoRun, To[d] \notin removed'
        PROVE  /\ status'[bound'[d]] # "running"
               /\ \A e \in Delivery : bound'[e] = bound'[d] => dstate'[e] = "consumed"
    <3>1. bound'[d] = bound[d] /\ bound[d] \in Run
      BY <2>4 DEF RowKeeps, TypeOK
    <3>2. CASE dstate[d] = "consumed"
      <4>1. /\ status[bound[d]] # "running"
            /\ \A e \in Delivery : bound[e] = bound[d] => dstate[e] = "consumed"
        BY <2>4, <3>1, <3>2 DEF HistoryOK, FirstTimeOK, BoundTo
      <4>2. \A e \in Delivery : bound'[e] = bound[d] => dstate'[e] = "consumed"
        BY <2>4, <3>1, <4>1 DEF RowKeeps
      <4> QED BY <3>1, <4>1, <4>2 DEF RunKeeps
    <3>3. CASE dstate[d] # "consumed"
      <4>1. /\ bound[d] = r /\ status'[r] # "running"
            /\ \A e \in Delivery : bound'[e] = r => dstate'[e] = "consumed"
        BY <2>0, <2>4, <3>1, <3>3 DEF RowKeeps
      <4> QED BY <3>1, <4>1
    <3> QED BY <3>2, <3>3
  <2>5. /\ dstate'[d] = "consumed" /\ d \notin purged' \cup settled'
        /\ bound'[d] # NoRun /\ To[d] \notin removed'
        => /\ status'[bound'[d]] # "running"
           /\ (\A e \in BoundTo(bound[d]) : dstate[e] = "consumed")'
    BY <2>4 DEF BoundTo
  <2> QED BY <2>1, <2>2, <2>3, <2>5
<1>5. OwnBatchOK'
  <2>1. ASSUME NEW q \in Run, Active(q)', NEW d \in batch'[q], d \in Untouched'
        PROVE  bound'[d] = q /\ Whole(q)'
    <3>1. Active(q) /\ q # r /\ d \in batch[q] /\ d \in Untouched /\ d \in Delivery
      BY <1>1, <2>1 DEF RunKeeps
    <3>2. bound[d] = q /\ Whole(q) /\ q # NoRun
      BY <3>1, ConstantsAssumption DEF HistoryOK, OwnBatchOK
    <3>3. bound'[d] = q
      BY <2>1, <3>1, <3>2 DEF RowKeeps, Untouched
    <3> QED BY <1>2, <3>1, <3>2, <3>3
  <2> QED BY <2>1 DEF OwnBatchOK
<1>6. SeenOK'
  <2>1. \A d \in Delivery :
          dstate'[d] = "delivering" => dstate[d] = "delivering" /\ bound'[d] = bound[d]
    BY DEF RowKeeps
  <2> QED BY <1>1, <2>1 DEF HistoryOK, SeenOK, RunKeeps
<1> QED BY <1>4, <1>5, <1>6 DEF HistoryOK

\* What beginTurn does to the rows, the runs and their turns.
LEMMA RowsBegin ==
  ASSUME NEW m \in Agent, NEW X \in SUBSET Delivery, NEW H \in SUBSET Delivery,
         NEW r \in Run, NEW then, Begins(m, X, H, r, then)
  PROVE  /\ \A d \in Untouched' : d \in Delivery /\ d \in Untouched
         /\ \A d \in X : dstate'[d] = "delivering" /\ bound'[d] = r
                         /\ attempts'[d] = attempts[d] + 1
         /\ \A d \in Delivery \ X :
              /\ bound'[d] = bound[d] /\ attempts'[d] = attempts[d]
              /\ evidence'[d] = evidence[d]
              /\ dstate'[d] # dstate[d] => dstate[d] = "queued" /\ dstate'[d] = "held"
         /\ UNCHANGED <<purged, settled, journal>>
<1>1. /\ \A d \in Untouched' : d \in Delivery /\ d \in Untouched
      /\ \A d \in X : d \notin H
  BY DEF Begins, Untouched
<1> QED BY <1>1 DEF Begins, beginTurn

LEMMA RunsBegin ==
  ASSUME TypeOK, NEW m \in Agent, NEW X \in SUBSET Delivery, NEW H \in SUBSET Delivery,
         NEW r \in Run, NEW then, Begins(m, X, H, r, then)
  PROVE  /\ \A q \in Run : q # r => /\ pc'[q] = pc[q] /\ batch'[q] = batch[q]
                                    /\ status'[q] = status[q] /\ author'[q] = author[q]
                                    /\ q \in fenced' => q \in fenced
         /\ batch'[r] = X /\ author'[r] = m /\ r \notin fenced'
         /\ mstate'[m] = "running" /\ \A a \in Agent : a # m => mstate'[a] = mstate[a]
<1>1. pc' = [pc EXCEPT ![r] = "begun"] \/ pc' = [pc EXCEPT ![r] = "threw"]
  BY DEF Begins, beginTurn
<1> QED BY <1>1 DEF Begins, beginTurn, TypeOK

\* An untouched row of another turn is none of those a turn begins on.
LEMMA OthersRow ==
  ASSUME TypeOK, HistoryOK, NEW m \in Agent, NEW X \in SUBSET Delivery,
         NEW H \in SUBSET Delivery, NEW r \in Run, NEW then, Begins(m, X, H, r, then),
         NEW q \in Run, q # r, Active(q), NEW d \in batch[q], d \in Untouched'
  PROVE  /\ d \in Delivery /\ d \in Untouched
         /\ d \notin X /\ bound[d] = q /\ Whole(q) /\ q # NoRun
<1>1. bound[d] = q /\ Whole(q) /\ q # NoRun /\ d \in Delivery /\ d \in Untouched
  BY RowsBegin, ConstantsAssumption DEF HistoryOK, OwnBatchOK
<1>2. d \notin X
  BY <1>1 DEF HistoryOK, FirstTimeOK, Begins
<1> QED BY <1>1, <1>2

\* A step that begins a turn keeps the untouched rows' history.
LEMMA BeginsHistory ==
  ASSUME TypeOK, Custody, HistoryOK,
         NEW m \in Agent, NEW X \in SUBSET Delivery, NEW H \in SUBSET Delivery,
         NEW r \in Run, NEW then, Begins(m, X, H, r, then)
  PROVE  HistoryOK'
<1>1. \A d \in Untouched' : d \in Delivery /\ d \in Untouched
  BY RowsBegin
<1>2. /\ \A d \in X : dstate'[d] = "delivering" /\ bound'[d] = r
                      /\ attempts'[d] = attempts[d] + 1
      /\ \A d \in Delivery \ X :
           /\ bound'[d] = bound[d] /\ attempts'[d] = attempts[d]
           /\ evidence'[d] = evidence[d]
           /\ dstate'[d] # dstate[d] => dstate[d] = "queued" /\ dstate'[d] = "held"
      /\ UNCHANGED <<purged, settled, journal>>
  BY RowsBegin
<1>3. /\ \A q \in Run : q # r => /\ pc'[q] = pc[q] /\ batch'[q] = batch[q]
                                 /\ status'[q] = status[q] /\ author'[q] = author[q]
                                 /\ q \in fenced' => q \in fenced
      /\ batch'[r] = X /\ author'[r] = m /\ r \notin fenced'
      /\ mstate'[m] = "running" /\ \A a \in Agent : a # m => mstate'[a] = mstate[a]
  BY RunsBegin
<1>4. \A d \in Delivery : attempts'[d] >= attempts[d] /\ attempts[d] \in Nat
  BY <1>2 DEF TypeOK
<1>5. \A d \in X \cap Untouched' : phase \in {"boot", "sweep"} => attempts'[d] >= 2
  BY <1>1, <1>2, <1>4, ConstantsAssumption DEF HistoryOK, FirstTimeOK, Begins
<1>6. ASSUME NEW q, q # NoRun, q # r
      PROVE  /\ BoundTo(q)' = BoundTo(q) \ X
             /\ Whole(q) => Whole(q)'
  <2>1. BoundTo(q)' = BoundTo(q) \ X
    BY <1>2, <1>6 DEF BoundTo
  <2> QED BY <1>2, <2>1 DEF Whole, BoundTo
<1>7. FirstTimeOK'
  <2> SUFFICES ASSUME NEW d \in Delivery, d \in Untouched, d \in Untouched'
               PROVE  /\ dstate'[d] \in {"absent", "queued"} => bound'[d] = NoRun
                      /\ bound'[d] # NoRun => attempts'[d] >= 1
                      /\ dstate'[d] = "delivering" => Whole(bound[d])'
                      /\ /\ dstate'[d] = "consumed" /\ d \notin purged' \cup settled'
                         /\ bound'[d] # NoRun /\ To[d] \notin removed'
                         => /\ status'[bound'[d]] # "running"
                            /\ (\A e \in BoundTo(bound[d]) : dstate[e] = "consumed")'
    BY <1>1 DEF FirstTimeOK
  <2>1. dstate'[d] \in {"absent", "queued"} => bound'[d] = NoRun
    BY <1>2 DEF HistoryOK, FirstTimeOK
  <2>2. bound'[d] # NoRun => attempts'[d] >= 1
    BY <1>2, <1>4 DEF HistoryOK, FirstTimeOK
  <2>3. ASSUME bound'[d] = r
        PROVE  /\ dstate'[d] = "delivering" => Whole(bound[d])'
               /\ ~(/\ dstate'[d] = "consumed" /\ d \notin purged' \cup settled'
                    /\ To[d] \notin removed')
    <3>0. /\ dstate'[d] # "consumed" \/ d \in purged \cup settled \/ To[d] \in removed
          /\ dstate'[d] = "delivering" => Whole(r)'
          /\ removed' = removed
      BY <2>3 DEF Begins
    <3>1. dstate'[d] = "delivering" =>
            \A e \in Delivery : bound'[e] = r => dstate'[e] \in {"delivering", "consumed"}
      BY <3>0 DEF Whole, BoundTo
    <3>2. dstate'[d] = "delivering" => Whole(bound[d])'
      BY <2>3, <3>1 DEF Whole, BoundTo
    <3> QED BY <1>2, <3>0, <3>2
  <2>4. ASSUME bound'[d] # r
        PROVE  /\ dstate'[d] = "delivering" => Whole(bound[d])'
               /\ /\ dstate'[d] = "consumed" /\ d \notin purged' \cup settled'
                  /\ bound'[d] # NoRun /\ To[d] \notin removed'
                  => /\ status'[bound'[d]] # "running"
                     /\ (\A e \in BoundTo(bound[d]) : dstate[e] = "consumed")'
    <3> DEFINE q == bound[d]
    <3>1. d \notin X /\ bound'[d] = q /\ removed' = removed
      BY <1>2, <2>4 DEF Begins
    <3>2. dstate'[d] \in {"delivering", "consumed"} => dstate'[d] = dstate[d]
      BY <1>2, <3>1
    <3>3. ASSUME dstate'[d] = "delivering" PROVE Whole(bound[d])'
      <4>1. Whole(q) /\ q # NoRun /\ q # r
        BY <2>4, <3>1, <3>2, <3>3 DEF HistoryOK, FirstTimeOK, Custody, CustodyOK
      <4> HIDE DEF q
      <4>2. \A e \in Delivery : bound'[e] = q => dstate'[e] \in {"delivering", "consumed"}
        BY <1>6, <4>1 DEF Whole, BoundTo
      <4> QED BY <3>1, <4>2 DEF Whole, BoundTo
    <3>4. ASSUME dstate'[d] = "consumed", d \notin purged' \cup settled',
                 bound'[d] # NoRun, To[d] \notin removed'
          PROVE  /\ status'[bound'[d]] # "running"
                 /\ (\A e \in BoundTo(bound[d]) : dstate[e] = "consumed")'
      <4>1. /\ status[q] # "running" /\ q \in Run /\ q # r
            /\ \A e \in Delivery : bound[e] = q => dstate[e] = "consumed"
        BY <1>2, <2>4, <3>1, <3>2, <3>4 DEF HistoryOK, FirstTimeOK, BoundTo, TypeOK
      <4> HIDE DEF q
      <4>2. \A e \in Delivery : bound'[e] = q => dstate'[e] = "consumed"
        BY <1>2, <4>1
      <4> QED BY <1>3, <3>1, <4>1, <4>2 DEF BoundTo
    <3> QED BY <3>3, <3>4
  <2> QED BY <2>1, <2>2, <2>3, <2>4
<1>8. ASSUME NEW q \in Run, q # r, Active(q), NEW d \in batch[q], d \in Untouched'
      PROVE  /\ d \in Delivery /\ d \in Untouched
             /\ d \notin X /\ bound[d] = q /\ Whole(q) /\ q # NoRun
  BY <1>8, OthersRow
<1>9. OwnBatchOK'
  <2>1. ASSUME NEW d \in X, d \in Untouched' PROVE bound'[d] = r /\ Whole(r)'
    BY <1>2, <2>1 DEF Begins
  <2>2. ASSUME NEW q \in Run, q # r, Active(q)', NEW d \in batch'[q], d \in Untouched'
        PROVE  bound'[d] = q /\ Whole(q)'
    <3>1. Active(q) /\ d \in batch[q]
      BY <1>3, <2>2 DEF Active
    <3>2. d \in Delivery /\ d \notin X /\ bound[d] = q /\ Whole(q) /\ q # NoRun
      BY <1>8, <2>2, <3>1
    <3> QED BY <1>2, <1>6, <2>2, <3>2
  <2> QED BY <1>3, <2>1, <2>2 DEF OwnBatchOK
<1>11. SeenOK'
  <2>0. /\ UNCHANGED <<phase, seen>>
        /\ phase \in {"boot", "sweep"} => pump' = pump /\ r \in seen
    BY DEF Begins
  <2> SUFFICES ASSUME phase \in {"boot", "sweep"}
               PROVE  /\ pump' = {}
                      /\ \A d \in Delivery : dstate'[d] = "delivering" => bound'[d] \in seen
                      /\ \A q \in Run : Active(q)' =>
                           q \in seen /\ \A d \in batch'[q] \cap Untouched' : attempts'[d] >= 2
    BY <2>0 DEF SeenOK
  <2>1. /\ pump = {} /\ \A d \in Delivery : dstate[d] = "delivering" => bound[d] \in seen
        /\ \A q \in Run : Active(q) =>
             q \in seen /\ \A d \in batch[q] \cap Untouched : attempts[d] >= 2
    BY DEF HistoryOK, SeenOK
  <2>2. \A d \in Delivery : dstate'[d] = "delivering" => bound'[d] \in seen
    BY <1>2, <2>0, <2>1
  <2>3. ASSUME NEW q \in Run, Active(q)', q # r
        PROVE  q \in seen /\ \A d \in batch'[q] \cap Untouched' : attempts'[d] >= 2
    <3>1. Active(q) /\ batch'[q] = batch[q]
      BY <1>3, <2>3 DEF Active
    <3>2. ASSUME NEW d \in batch[q], d \in Untouched' PROVE attempts'[d] >= 2
      BY <1>2, <1>8, <2>1, <2>3, <3>1, <3>2
    <3> QED BY <2>1, <3>1, <3>2
  <2> QED BY <1>3, <1>5, <2>0, <2>1, <2>2, <2>3
<1> QED BY <1>7, <1>9, <1>11 DEF HistoryOK

\* A step that moves no row and ends no turn keeps the history.
LEMMA StillHistory ==
  ASSUME HistoryOK, \A r \in Run : Active(r)' <=> Active(r),
         UNCHANGED <<dstate, bound, attempts, purged, settled, status, removed, batch,
                     phase, pump, seen, forced, requeued>>
  PROVE  HistoryOK'
<1>1. Untouched' = Untouched
  BY DEF Untouched
<1> QED BY <1>1
        DEF HistoryOK, SeenOK, FirstTimeOK, OwnBatchOK, Whole, BoundTo

\* Every step keeps the history.
LEMMA HistoryStep ==
  ASSUME NoFanOut, TypeOK, TurnsOK, Custody, HistoryOK, [Next]_vars
  PROVE  HistoryOK'
<1>1. Kinds
  BY KindsStep
<1>2. ASSUME NEW r \in Run \cup {NoRun}, Keeps(r) PROVE HistoryOK'
  BY <1>2, KeepsHistory
<1>3. ASSUME NEW m \in Agent, NEW X \in SUBSET Delivery, NEW H \in SUBSET Delivery,
             NEW r \in Run, NEW then \in After, Begins(m, X, H, r, then)
      PROVE  HistoryOK'
  BY <1>3, BeginsHistory
<1>4. ASSUME NEW r \in Run, HandsOver(r) PROVE HistoryOK'
  <2>1. \A q \in Run : Active(q)' <=> Active(q)
    BY <1>4 DEF HandsOver, AdapterSpawns, setDeliveryAttemptProcess, JournalStarted,
                Active, TypeOK
  <2>2. UNCHANGED <<dstate, bound, attempts, purged, settled, status, removed, batch,
                    phase, pump, seen, forced, requeued>>
    BY <1>4 DEF HandsOver, AdapterSpawns, setDeliveryAttemptProcess, JournalStarted,
                delv, runs, mems, where
  <2> QED BY <2>1, <2>2, StillHistory
<1>5. ASSUME NEW d \in Delivery, HarnessAccepts(d) PROVE HistoryOK'
  BY <1>5, StillHistory DEF HarnessAccepts, delv, runs, mems, turns, where, Active
<1>6. ASSUME Boot PROVE HistoryOK'
  <2>1. SeenOK'
    BY <1>6 DEF Boot, turns, BoundTo, Custody, CustodyOK, BootOK, Active, delv, TypeOK,
       SeenOK
  <2>2. FirstTimeOK' /\ OwnBatchOK'
    BY <1>6 DEF Boot, delv, runs, mems, turns, hist, HistoryOK, FirstTimeOK, OwnBatchOK,
       Untouched, Whole, BoundTo, Active
  <2> QED BY <2>1, <2>2 DEF HistoryOK
<1> QED BY <1>1, <1>2, <1>3, <1>4, <1>5, <1>6 DEF Kinds

\* In a Confined configuration nothing is ever steered.
SteerOK == \A d \in Delivery : steer[d] = "no"

\* No recovery will run the rows of this turn a second time by itself.
Spent(r) == author[r] \in removed \/ \A d \in batch[r] \cap Untouched : attempts[d] >= 2

\* A turn whose session was replaced is spent, and so is the turn of a dead member
\* unless an operator killed it.
FenceOK ==
  \A r \in Run : Active(r) =>
    /\ r \in fenced => Spent(r)
    /\ mstate[author[r]] = "dead" => Spent(r) \/ (ops >= 1 /\ "kill" \in Acts)

\* A row that was handed over is bound to a run that shows it in its journal, or
\* has no attempt left; what a turn is about to hand over was never handed over.
FedOK ==
  /\ \A d \in Untouched :
       /\ fed[d] \in {0, 1}
       /\ fed[d] = 1 => \/ To[d] \in removed
                        \/ /\ bound[d] # NoRun
                           /\ journal[bound[d]] # "empty" \/ attempts[d] >= 2
  /\ \A r \in Run : Unfed(r) => \A d \in batch[r] \cap Untouched : fed[d] = 0

OnceOK == SteerOK /\ FenceOK /\ FedOK

LEMMA KeepsOnce ==
  ASSUME Confined, TypeOK, TurnsOK, HistoryOK, OnceOK,
         NEW r \in Run \cup {NoRun}, Keeps(r)
  PROVE  OnceOK'
<1> USE DEF Keeps, RestKeeps
<1>1. \A d \in Untouched' : d \in Delivery /\ d \in Untouched
  BY DEF Untouched
<1>2. SteerOK'
  BY DEF OnceOK, SteerOK, SteersNew, Confined
<1>3. FedOK'
  <2>1. ASSUME NEW d \in Untouched'
        PROVE  /\ fed'[d] \in {0, 1}
               /\ fed'[d] = 1 => \/ To[d] \in removed'
                                 \/ /\ bound'[d] # NoRun
                                    /\ journal'[bound'[d]] # "empty" \/ attempts'[d] >= 2
    <3>1. /\ d \in Delivery /\ d \in Untouched /\ fed'[d] = fed[d]
          /\ attempts'[d] = attempts[d]
      BY <1>1
    <3>2. bound'[d] = bound[d] \/ To[d] \in removed
      BY <2>1, <3>1 DEF RowKeeps, Untouched
    <3> QED BY <3>1, <3>2 DEF OnceOK, FedOK, RunKeeps, TypeOK
  <2>2. ASSUME NEW q \in Run, Unfed(q)', NEW d \in batch'[q], d \in Untouched'
        PROVE  fed'[d] = 0
    <3>1. Unfed(q) /\ batch'[q] = batch[q]
      BY <2>2 DEF Unfed, Active, RunKeeps
    <3> QED BY <1>1, <2>2, <3>1 DEF OnceOK, FedOK
  <2> QED BY <2>1, <2>2 DEF FedOK
<1>4. FenceOK'
  <2>1. ASSUME NEW q \in Run, Active(q)', Spent(q) PROVE Spent(q)'
    BY <1>1, <2>1 DEF Spent, RunKeeps
  <2>2. \A q \in Run : Active(q)' /\ author[q] \in removed' => Spent(q)'
    BY DEF Spent, RunKeeps
  <2>3. ASSUME NEW q \in Run, Active(q), mstate[author[q]] = "dead", ops < MaxOps,
               Acts \cap {"revive", "retry"} # {}
        PROVE  Spent(q)
    <3>1. "kill" \notin Acts \/ ops = 0
      BY <2>3, ConstantsAssumption DEF Confined, TypeOK
    <3> QED BY <2>3, <3>1 DEF OnceOK, FenceOK
  <2>4. ASSUME NEW q \in Run, Active(q)', q \in fenced' PROVE Spent(q)'
    BY <2>1, <2>2, <2>3, <2>4 DEF OnceOK, FenceOK, RunKeeps
  <2>5. ASSUME NEW q \in Run, Active(q)', mstate'[author'[q]] = "dead"
        PROVE  Spent(q)' \/ (ops' >= 1 /\ "kill" \in Acts)
    <3>1. ops >= 1 => ops' >= 1
      BY DEF TypeOK
    <3>2. Active(q) /\ phase \in {"boot", "sweep"} => Spent(q)
      BY DEF HistoryOK, SeenOK, Spent
    <3> QED BY <2>1, <2>2, <2>5, <3>1, <3>2 DEF OnceOK, FenceOK, RunKeeps
  <2> QED BY <2>4, <2>5 DEF FenceOK
<1> QED BY <1>2, <1>3, <1>4 DEF OnceOK

LEMMA BeginsOnce ==
  ASSUME TypeOK, TurnsOK, HistoryOK, OnceOK,
         NEW m \in Agent, NEW X \in SUBSET Delivery, NEW H \in SUBSET Delivery,
         NEW r \in Run, NEW then, Begins(m, X, H, r, then)
  PROVE  OnceOK'
<1>1. \A d \in Untouched' : d \in Delivery /\ d \in Untouched
  BY RowsBegin
<1>2. /\ \A d \in X : dstate'[d] = "delivering" /\ bound'[d] = r
                      /\ attempts'[d] = attempts[d] + 1
      /\ \A d \in Delivery \ X :
           /\ bound'[d] = bound[d] /\ attempts'[d] = attempts[d]
           /\ evidence'[d] = evidence[d]
           /\ dstate'[d] # dstate[d] => dstate[d] = "queued" /\ dstate'[d] = "held"
      /\ UNCHANGED <<purged, settled, journal>>
  BY RowsBegin
<1>3. /\ \A q \in Run : q # r => /\ pc'[q] = pc[q] /\ batch'[q] = batch[q]
                                 /\ status'[q] = status[q] /\ author'[q] = author[q]
                                 /\ q \in fenced' => q \in fenced
      /\ batch'[r] = X /\ author'[r] = m /\ r \notin fenced'
      /\ mstate'[m] = "running" /\ \A a \in Agent : a # m => mstate'[a] = mstate[a]
  BY RunsBegin
<1>4. UNCHANGED <<fed, removed, steer>> /\ ops' >= ops /\ ops' \in Nat
  BY DEF Begins
<1>5. ASSUME NEW d \in X, d \in Untouched' PROVE fed[d] = 0
  <2>1. /\ To[d] \notin removed
        /\ bound[d] # NoRun => bound[d] = r /\ journal[r] = "empty" /\ attempts[d] <= 1
    <3>1. /\ To[d] \notin removed
          /\ bound[d] # NoRun => /\ dstate[d] = "delivering" /\ journal[r] = "empty"
                                 /\ attempts[d] <= 1
      BY <1>5 DEF Begins
    <3>2. bound[d] = r \/ dstate[d] = "queued"
      BY <1>5 DEF Begins
    <3> QED BY <3>1, <3>2
  <2>2. attempts[d] \in Nat
    BY DEF TypeOK
  <2> QED BY <1>1, <1>5, <2>1, <2>2 DEF OnceOK, FedOK
<1>6. FedOK'
  <2>1. ASSUME NEW d \in Untouched'
        PROVE  /\ fed'[d] \in {0, 1}
               /\ fed'[d] = 1 => \/ To[d] \in removed'
                                 \/ /\ bound'[d] # NoRun
                                    /\ journal'[bound'[d]] # "empty" \/ attempts'[d] >= 2
    <3>1. d \in Delivery /\ d \in Untouched
      BY <1>1
    <3>2. CASE d \in X
      BY <1>4, <1>5, <2>1, <3>2
    <3>3. CASE d \notin X
      BY <1>2, <1>4, <3>1, <3>3 DEF OnceOK, FedOK
    <3> QED BY <3>2, <3>3
  <2>2. ASSUME NEW q \in Run, Unfed(q)', NEW d \in batch'[q], d \in Untouched'
        PROVE  fed'[d] = 0
    <3>1. CASE q = r
      BY <1>3, <1>4, <1>5, <2>2, <3>1
    <3>2. CASE q # r
      BY <1>1, <1>3, <1>4, <2>2, <3>2 DEF OnceOK, FedOK, Unfed
    <3> QED BY <3>1, <3>2
  <2> QED BY <2>1, <2>2 DEF FedOK
<1>7. FenceOK'
  <2>1. ASSUME NEW q \in Run, q # r, Active(q)', Spent(q) PROVE Spent(q)'
    <3>1. Active(q) /\ batch'[q] = batch[q] /\ author'[q] = author[q]
      BY <1>3, <2>1 DEF Active
    <3>2. ASSUME NEW d \in batch[q], d \in Untouched' PROVE attempts'[d] = attempts[d]
      BY <1>2, <2>1, <3>1, <3>2, OthersRow
    <3> QED BY <1>1, <1>4, <2>1, <3>1, <3>2 DEF Spent
  <2>2. ASSUME NEW q \in Run, q # r, Active(q)'
        PROVE  /\ q \in fenced' => Spent(q)'
               /\ mstate'[author'[q]] = "dead" => Spent(q)' \/ (ops' >= 1 /\ "kill" \in Acts)
    <3>1. Active(q) /\ author'[q] = author[q] /\ (q \in fenced' => q \in fenced)
      BY <1>3, <2>2 DEF Active
    <3>2. author[q] \in Agent
      BY <3>1 DEF TurnsOK, OneTurnPerMember, TypeOK
    <3>3. mstate'[author[q]] = "dead" => mstate[author[q]] = "dead"
      BY <1>3, <3>2
    <3>4. ops >= 1 => ops' >= 1
      BY <1>4 DEF TypeOK
    <3> QED BY <2>1, <2>2, <3>1, <3>3, <3>4 DEF OnceOK, FenceOK
  <2> QED BY <1>3, <2>2 DEF FenceOK
<1>8. SteerOK'
  BY <1>4 DEF OnceOK, SteerOK
<1> QED BY <1>6, <1>7, <1>8 DEF OnceOK

LEMMA HandsOnce ==
  ASSUME Confined, TypeOK, TurnsOK, Custody, HistoryOK, OnceOK,
         NEW r \in Run, HandsOver(r)
  PROVE  OnceOK'
<1>1. /\ Unfed(r) /\ Active(r)
      /\ \A q \in Run : (Active(q)' <=> Active(q)) /\ (Unfed(q)' => Unfed(q))
      /\ UNCHANGED <<dstate, bound, attempts, author, mstate, removed, batch, fenced, steer,
                     forced, requeued, ops>>
  BY DEF HandsOver, AdapterSpawns, setDeliveryAttemptProcess, JournalStarted, delv, runs,
         mems, flags, count, Unfed, Active, TypeOK
<1>2. Untouched' = Untouched
  BY <1>1 DEF Untouched
<1>3. SteerOK' /\ FenceOK'
  BY <1>1, <1>2 DEF OnceOK, SteerOK, FenceOK, Spent
<1>4. CASE AdapterSpawns(r) \/ setDeliveryAttemptProcess(r)
  <2>1. UNCHANGED <<fed, journal>>
    BY <1>4 DEF AdapterSpawns, setDeliveryAttemptProcess, runs, Confined
  <2> QED BY <1>1, <1>2, <1>3, <2>1 DEF OnceOK, FedOK
<1>5. CASE JournalStarted(r)
  <2>1. /\ \A q \in Run : journal'[q] = "empty" => journal[q] = "empty"
        /\ r \in fenced \/ journal'[r] # "empty"
        /\ ~Unfed(r)'
        /\ \A d \in Delivery : fed'[d] = IF d \in batch[r] THEN fed[d] + 1 ELSE fed[d]
    BY <1>5 DEF JournalStarted, Fed, Confined, Unfed, TypeOK
  <2>2. ASSUME NEW d \in Untouched, d \in batch[r]
        PROVE  /\ fed'[d] = 1 /\ bound[d] = r /\ r # NoRun
               /\ To[d] \in removed \/ journal'[r] # "empty" \/ attempts[d] >= 2
    <3>1. fed'[d] = 1 /\ d \in Delivery
      BY <1>1, <2>1, <2>2 DEF OnceOK, FedOK, Untouched
    <3>2. bound[d] = r /\ r # NoRun /\ To[d] = author[r]
      BY <1>1, <2>2, ConstantsAssumption DEF HistoryOK, OwnBatchOK, Custody, BatchOK
    <3>3. r \in fenced => To[d] \in removed \/ attempts[d] >= 2
      BY <1>1, <2>2, <3>2 DEF OnceOK, FenceOK, Spent
    <3> QED BY <2>1, <3>1, <3>2, <3>3
  <2>3. ASSUME NEW d \in Untouched
        PROVE  /\ fed'[d] \in {0, 1}
               /\ fed'[d] = 1 => \/ To[d] \in removed
                                 \/ /\ bound[d] # NoRun
                                    /\ journal'[bound[d]] # "empty" \/ attempts[d] >= 2
    <3>1. CASE d \in batch[r]
      BY <2>2, <3>1
    <3>2. CASE d \notin batch[r]
      BY <2>1, <3>2 DEF OnceOK, FedOK, Untouched, TypeOK
    <3> QED BY <3>1, <3>2
  <2>4. ASSUME NEW q \in Run, Unfed(q)', NEW d \in batch[q], d \in Untouched
        PROVE  fed'[d] = 0
    <3>1. Unfed(q) /\ Active(q) /\ q # r /\ bound[d] = q
      BY <1>1, <2>1, <2>4 DEF HistoryOK, OwnBatchOK, Unfed, Active
    <3>2. d \notin batch[r]
      BY <1>1, <2>4, <3>1 DEF HistoryOK, OwnBatchOK
    <3> QED BY <2>1, <2>4, <3>1, <3>2 DEF OnceOK, FedOK, Untouched
  <2>5. FedOK'
    BY <1>1, <1>2, <2>3, <2>4 DEF FedOK
  <2> QED BY <1>3, <2>5 DEF OnceOK
<1> QED BY <1>4, <1>5 DEF HandsOver

LEMMA OnceStep ==
  ASSUME Confined, TypeOK, TurnsOK, Custody, HistoryOK, OnceOK, [Next]_vars
  PROVE  OnceOK'
<1>1. Kinds
  BY KindsStep DEF Confined
<1>2. ASSUME NEW r \in Run \cup {NoRun}, Keeps(r) PROVE OnceOK'
  BY <1>2, KeepsOnce
<1>3. ASSUME NEW m \in Agent, NEW X \in SUBSET Delivery, NEW H \in SUBSET Delivery,
             NEW r \in Run, NEW then \in After, Begins(m, X, H, r, then)
      PROVE  OnceOK'
  BY <1>3, BeginsOnce
<1>4. ASSUME NEW r \in Run, HandsOver(r) PROVE OnceOK'
  BY <1>4, HandsOnce
<1>5. ASSUME NEW d \in Delivery, HarnessAccepts(d) PROVE OnceOK'
  BY <1>5 DEF HarnessAccepts, OnceOK, SteerOK
<1>6. ASSUME Boot PROVE OnceOK'
  BY <1>6 DEF Boot, delv, runs, mems, turns, flags, hist, count, OnceOK, FedOK, FenceOK,
              SteerOK, Untouched, Unfed, Spent, Active
<1> QED BY <1>1, <1>2, <1>3, <1>4, <1>5, <1>6 DEF Kinds

\* Boot's second pass and every other recovery leave the untouched rows' history as
\* NoFanOut promises.
THEOREM HistoryCorrect ==
  ASSUME NoFanOut
  PROVE  Spec => []HistoryOK
<1>1. Init => HistoryOK
  BY DEF Init, HistoryOK, SeenOK, FirstTimeOK, OwnBatchOK, Active, Untouched
<1>2. IInv /\ HistoryOK /\ [Next]_vars => HistoryOK'
  BY HistoryStep DEF IInv
<1> QED BY <1>1, <1>2, Invariant, PTL DEF Spec

\* The text of a row reaches a harness a second time only after an operator act, a
\* graceful stop or a blocked card re-queued it, whatever stops, kills, crashes and
\* failed commits follow each other, in the configurations Confined describes.
THEOREM ExactlyOnceCorrect ==
  ASSUME Confined
  PROVE  Spec => []ExactlyOnceOrHeld
<1>1. Init => OnceOK
  BY DEF Init, OnceOK, SteerOK, FenceOK, FedOK, Active, Unfed, Untouched
<1>2. IInv /\ HistoryOK /\ OnceOK /\ [Next]_vars => OnceOK'
  BY OnceStep DEF IInv
<1>3. OnceOK => ExactlyOnceOrHeld
  BY DEF OnceOK, FedOK, Untouched, ExactlyOnceOrHeld
<1>4. NoFanOut
  BY DEF Confined
<1>5. Spec => []HistoryOK
  BY <1>4, HistoryCorrect
<1> QED BY <1>1, <1>2, <1>3, <1>5, Invariant, PTL DEF Spec

\* A row that is bound to a run is not being steered.
SteeredOK == \A d \in Untouched : bound[d] # NoRun => steer[d] = "no"

\* A turn that has its batch in memory and left no durable evidence of it.
Unproven(r) == \/ pc[r] \in {"begun", "spawned"}
               \/ pc[r] = "recorded" /\ author[r] \notin ArgvPayload \cap Pid

\* A row with durable evidence is in no batch that leaves some, and as long as it is
\* in custody it shows: in the journal of its run, or in the row itself.
ProvenOK ==
  \A d \in proven \cap Untouched :
    /\ steer[d] = "no" /\ dstate[d] # "absent"
    /\ \A r \in Run : Unproven(r) => d \notin batch[r]
    /\ \/ To[d] \in removed
       \/ /\ bound[d] # NoRun
          /\ dstate[d] = "delivering" => journal[bound[d]] # "empty" \/ evidence[d] # NoRun

EvidenceOK == SteeredOK /\ ProvenOK

\* ProvenOK of the next state, for one row.
ProvenNext(d) ==
  /\ steer'[d] = "no" /\ dstate'[d] # "absent"
  /\ \A r \in Run : Unproven(r)' => d \notin batch'[r]
  /\ \/ To[d] \in removed'
     \/ /\ bound'[d] # NoRun
        /\ dstate'[d] = "delivering" => journal'[bound'[d]] # "empty" \/ evidence'[d] # NoRun

LEMMA EachProven ==
  ASSUME \A d \in proven' \cap Untouched' : ProvenNext(d)
  PROVE  ProvenOK'
BY DEF ProvenNext, ProvenOK

LEMMA KeepsEvidence ==
  ASSUME TypeOK, HistoryOK, EvidenceOK, NEW r \in Run \cup {NoRun}, Keeps(r)
  PROVE  EvidenceOK'
<1> USE DEF Keeps, RestKeeps
<1>1. \A d \in Untouched' : d \in Delivery /\ d \in Untouched
  BY DEF Untouched
<1>2. \A d \in Untouched' : bound'[d] = bound[d] \/ (bound'[d] = NoRun /\ To[d] \in removed')
  BY <1>1 DEF RowKeeps, Untouched
<1>3. SteeredOK'
  <2>1. ASSUME NEW d \in Untouched', bound'[d] # NoRun PROVE steer'[d] = "no"
    <3>1. d \in Delivery /\ steer[d] = "no" /\ dstate[d] # "absent"
      BY <1>1, <1>2, <2>1 DEF EvidenceOK, SteeredOK, HistoryOK, FirstTimeOK
    <3> QED BY <3>1 DEF SteersNew
  <2> QED BY <2>1 DEF SteeredOK
<1>4. ASSUME NEW d \in proven' \cap Untouched' PROVE ProvenNext(d)
  <2>1. d \in Delivery /\ d \in Untouched /\ d \in proven
    BY <1>1
  <2>2. steer[d] = "no" /\ dstate[d] # "absent"
    BY <2>1 DEF EvidenceOK, ProvenOK
  <2>3. steer'[d] = "no" /\ dstate'[d] # "absent"
    BY <2>1, <2>2 DEF SteersNew, RowKeeps
  <2>4. ASSUME NEW q \in Run, Unproven(q)' PROVE d \notin batch'[q]
    <3>1. Unproven(q) /\ batch'[q] = batch[q]
      BY <2>4 DEF RunKeeps, Unproven, Active
    <3> QED BY <2>1, <3>1 DEF EvidenceOK, ProvenOK
  <2>5. CASE To[d] \in removed'
    BY <2>3, <2>4, <2>5 DEF ProvenNext
  <2>6. CASE To[d] \notin removed'
    <3>1. /\ bound'[d] = bound[d] /\ bound[d] # NoRun
          /\ dstate[d] = "delivering" => journal[bound[d]] # "empty" \/ evidence[d] # NoRun
      BY <1>2, <2>1, <2>6 DEF EvidenceOK, ProvenOK
    <3>2. bound[d] \in Run
      BY <2>1, <3>1 DEF TypeOK
    <3>3. dstate'[d] = "delivering" => dstate[d] = "delivering"
      BY <2>1 DEF RowKeeps
    <3>4. dstate'[d] = "delivering" => journal'[bound'[d]] # "empty" \/ evidence'[d] # NoRun
      BY <2>1, <3>1, <3>2, <3>3 DEF RunKeeps
    <3> QED BY <2>3, <2>4, <3>1, <3>4 DEF ProvenNext
  <2> QED BY <2>5, <2>6
<1>5. ProvenOK'
  BY <1>4, EachProven
<1> QED BY <1>3, <1>5 DEF EvidenceOK

LEMMA BeginsEvidence ==
  ASSUME TypeOK, HistoryOK, EvidenceOK,
         NEW m \in Agent, NEW X \in SUBSET Delivery, NEW H \in SUBSET Delivery,
         NEW r \in Run, NEW then, Begins(m, X, H, r, then)
  PROVE  EvidenceOK'
<1>1. /\ \A d \in Untouched' : d \in Delivery /\ d \in Untouched
      /\ \A d \in X : dstate'[d] = "delivering" /\ bound'[d] = r
                      /\ attempts'[d] = attempts[d] + 1
      /\ \A d \in Delivery \ X :
           /\ bound'[d] = bound[d] /\ attempts'[d] = attempts[d]
           /\ evidence'[d] = evidence[d]
           /\ dstate'[d] # dstate[d] => dstate[d] = "queued" /\ dstate'[d] = "held"
      /\ UNCHANGED <<purged, settled, journal>>
  BY RowsBegin
<1>2. /\ \A q \in Run : q # r => /\ pc'[q] = pc[q] /\ batch'[q] = batch[q]
                                 /\ status'[q] = status[q] /\ author'[q] = author[q]
                                 /\ q \in fenced' => q \in fenced
      /\ batch'[r] = X /\ author'[r] = m /\ r \notin fenced'
      /\ mstate'[m] = "running" /\ \A a \in Agent : a # m => mstate'[a] = mstate[a]
  BY RunsBegin
<1>3. /\ UNCHANGED <<proven, removed, steer>>
      /\ \A d \in X : bound[d] = r \/ (dstate[d] = "queued" /\ steer[d] = "no")
      /\ \A d \in X \cap Untouched' :
           /\ To[d] \notin removed
           /\ bound[d] # NoRun => /\ dstate[d] = "delivering" /\ journal[r] = "empty"
                                  /\ attempts[d] <= 1 /\ evidence[d] = NoRun
  BY DEF Begins
<1>c. r # NoRun
  BY ConstantsAssumption
<1>4. SteeredOK'
  BY <1>1, <1>3, <1>c DEF EvidenceOK, SteeredOK
<1>5. ASSUME NEW d \in proven' \cap Untouched' PROVE ProvenNext(d)
  <2>1. d \in Delivery /\ d \in Untouched /\ d \in proven
    BY <1>1, <1>3
  <2>2. /\ steer[d] = "no" /\ dstate[d] # "absent"
        /\ \A q \in Run : Unproven(q) => d \notin batch[q]
        /\ \/ To[d] \in removed
           \/ /\ bound[d] # NoRun
              /\ dstate[d] = "delivering" => journal[bound[d]] # "empty" \/ evidence[d] # NoRun
    BY <2>1 DEF EvidenceOK, ProvenOK
  <2>3. d \notin X
    BY <1>3, <2>1, <2>2
  <2>4. ASSUME NEW q \in Run, Unproven(q)' PROVE d \notin batch'[q]
    BY <1>2, <2>2, <2>3, <2>4 DEF Unproven
  <2>5. /\ steer'[d] = "no" /\ dstate'[d] # "absent"
        /\ dstate'[d] = "delivering" => dstate[d] = "delivering"
        /\ bound'[d] = bound[d] /\ evidence'[d] = evidence[d]
        /\ UNCHANGED <<journal, removed>>
    BY <1>1, <1>3, <2>1, <2>2, <2>3
  <2> QED BY <2>2, <2>4, <2>5 DEF ProvenNext
<1>6. ProvenOK'
  BY <1>5, EachProven
<1> QED BY <1>4, <1>6 DEF EvidenceOK

\* Each of the three steps of a turn towards the harness keeps the evidence.
LEMMA HandsEvidence ==
  ASSUME TypeOK, HistoryOK, EvidenceOK, NEW r \in Run, HandsOver(r)
  PROVE  EvidenceOK'
<1>1. /\ UNCHANGED <<dstate, bound, author, removed, batch, fenced, steer, forced, requeued>>
      /\ pc[r] \in {"begun", "spawned", "recorded"}
      /\ \A q \in Run : q # r => pc'[q] = pc[q]
      /\ Unproven(r)' => Unproven(r)
      /\ \A q \in Run : journal[q] # "empty" => journal'[q] # "empty"
  BY DEF HandsOver, AdapterSpawns, setDeliveryAttemptProcess, JournalStarted, delv, runs,
         mems, flags, Unproven, TypeOK
<1>2. Untouched' = Untouched /\ Active(r) /\ r # NoRun
  BY <1>1, ConstantsAssumption DEF Untouched, Active
<1>3. SteeredOK'
  BY <1>1, <1>2 DEF EvidenceOK, SteeredOK
<1>4. \A q \in Run : Unproven(q)' => Unproven(q)
  BY <1>1 DEF Unproven
<1>5. ASSUME NEW d \in Untouched, d \in batch[r]
      PROVE  /\ bound[d] = r /\ steer[d] = "no" /\ dstate[d] # "absent"
             /\ \A q \in Run : q # r /\ Unproven(q) => d \notin batch[q]
  <2>1. bound[d] = r /\ dstate[d] \in {"delivering", "consumed"}
    BY <1>2, <1>5 DEF HistoryOK, OwnBatchOK, Whole, BoundTo, Untouched
  <2>2. ASSUME NEW q \in Run, q # r, Unproven(q) PROVE d \notin batch[q]
    BY <1>5, <2>1, <2>2 DEF HistoryOK, OwnBatchOK, Unproven, Active
  <2> QED BY <1>2, <1>5, <2>1, <2>2 DEF EvidenceOK, SteeredOK
<1>6. ASSUME NEW d \in proven, d \in Untouched, evidence'[d] # NoRun \/ evidence'[d] = evidence[d]
      PROVE  ProvenNext(d)
  <2>1. /\ steer[d] = "no" /\ dstate[d] # "absent"
        /\ \A q \in Run : Unproven(q) => d \notin batch[q]
        /\ \/ To[d] \in removed
           \/ /\ bound[d] # NoRun
              /\ dstate[d] = "delivering" => journal[bound[d]] # "empty" \/ evidence[d] # NoRun
    BY <1>6 DEF EvidenceOK, ProvenOK
  <2>2. bound[d] # NoRun => bound[d] \in Run
    BY <1>6 DEF TypeOK, Untouched
  <2> QED BY <1>1, <1>4, <1>6, <2>1, <2>2 DEF ProvenNext
<1>7. ASSUME NEW d \in batch[r], d \in Untouched, ~Unproven(r)',
             journal'[r] # "empty" \/ evidence'[d] # NoRun
      PROVE  ProvenNext(d)
  BY <1>1, <1>2, <1>4, <1>5, <1>7 DEF ProvenNext
<1>8. CASE AdapterSpawns(r)
  <2>1. UNCHANGED <<proven, evidence>>
    BY <1>8 DEF AdapterSpawns, delv
  <2>2. ProvenOK'
    BY <1>2, <1>6, <2>1, EachProven
  <2> QED BY <1>3, <2>2 DEF EvidenceOK
<1>9. CASE setDeliveryAttemptProcess(r)
  <2>1. ASSUME NEW d \in proven, d \in Untouched PROVE ProvenNext(d)
    <3>1. d \notin batch[r]
      BY <1>9, <2>1 DEF setDeliveryAttemptProcess, EvidenceOK, ProvenOK, Unproven
    <3>2. evidence'[d] = evidence[d]
      BY <1>9, <2>1, <3>1 DEF setDeliveryAttemptProcess, Untouched
    <3> QED BY <1>6, <2>1, <3>2
  <2>2. ASSUME NEW d \in proven', d \notin proven, d \in Untouched PROVE ProvenNext(d)
    <3>1. d \in batch[r] /\ r \notin fenced /\ author[r] \in Pid \cap ArgvPayload /\ d \in Delivery
      BY <1>9, <2>2 DEF setDeliveryAttemptProcess, Untouched
    <3>2. evidence'[d] = r
      BY <1>9, <3>1 DEF setDeliveryAttemptProcess
    <3>3. ~Unproven(r)'
      BY <1>1, <1>9, <3>1 DEF setDeliveryAttemptProcess, Unproven, TypeOK
    <3> QED BY <1>2, <1>7, <2>2, <3>1, <3>2, <3>3
  <2>3. ProvenOK'
    BY <1>2, <2>1, <2>2, EachProven
  <2> QED BY <1>3, <2>3 DEF EvidenceOK
<1>10. CASE JournalStarted(r)
  <2>1. evidence' = evidence
    BY <1>10 DEF JournalStarted, delv
  <2>2. ASSUME NEW d \in proven', d \notin proven, d \in Untouched PROVE ProvenNext(d)
    <3>1. d \in batch[r] /\ r \notin fenced
      BY <1>10, <2>2 DEF JournalStarted
    <3>2. ~Unproven(r)' /\ journal'[r] # "empty"
      BY <1>10, <3>1 DEF JournalStarted, Unproven, TypeOK
    <3> QED BY <1>7, <2>2, <3>1, <3>2
  <2>3. ProvenOK'
    BY <1>2, <1>6, <2>1, <2>2, EachProven
  <2> QED BY <1>3, <2>3 DEF EvidenceOK
<1> QED BY <1>8, <1>9, <1>10 DEF HandsOver

\* Every step keeps the evidence, and hands out no row that has some.
LEMMA EvidenceStep ==
  ASSUME NoFanOut, TypeOK, TurnsOK, Custody, HistoryOK, EvidenceOK, [Next]_vars
  PROVE  /\ EvidenceOK'
         /\ \A d \in proven : fed'[d] > fed[d] => d \in forced \cup requeued
<1>1. Kinds
  BY KindsStep
<1>2. \A d \in Delivery : fed[d] \in Nat /\ ~(fed[d] > fed[d])
  BY DEF TypeOK
<1>3. proven \subseteq Delivery
  BY DEF TypeOK
<1>4. UNCHANGED fed => \A d \in proven : fed'[d] > fed[d] => d \in forced \cup requeued
  BY <1>2, <1>3
<1>5. ASSUME NEW r \in Run \cup {NoRun}, Keeps(r) PROVE EvidenceOK' /\ UNCHANGED fed
  <2>1. UNCHANGED fed
    BY <1>5 DEF Keeps, RestKeeps
  <2> QED BY <1>5, <2>1, KeepsEvidence
<1>6. ASSUME NEW m \in Agent, NEW X \in SUBSET Delivery, NEW H \in SUBSET Delivery,
             NEW r \in Run, NEW then \in After, Begins(m, X, H, r, then)
      PROVE  EvidenceOK' /\ UNCHANGED fed
  <2>1. UNCHANGED fed
    BY <1>6 DEF Begins
  <2> QED BY <1>6, <2>1, BeginsEvidence
<1>7. ASSUME NEW r \in Run, HandsOver(r)
      PROVE  /\ EvidenceOK'
             /\ \A d \in proven : fed'[d] > fed[d] => d \in forced \cup requeued
  <2>1. EvidenceOK'
    BY <1>7, HandsEvidence
  <2>2. ASSUME NEW d \in proven, d \in Untouched PROVE ~(fed'[d] > fed[d])
    <3>1. d \in Delivery
      BY <1>3, <2>2
    <3>2. fed'[d] = fed[d] \/ (d \in batch[r] /\ Unproven(r))
      BY <1>7, <3>1 DEF HandsOver, AdapterSpawns, setDeliveryAttemptProcess,
         JournalStarted,
                        Fed, Unproven
    <3> QED BY <1>2, <2>2, <3>1, <3>2 DEF EvidenceOK, ProvenOK
  <2> QED BY <1>3, <2>1, <2>2 DEF Untouched
<1>8. ASSUME NEW e \in Delivery, HarnessAccepts(e)
      PROVE  /\ EvidenceOK'
             /\ \A d \in proven : fed'[d] > fed[d] => d \in forced \cup requeued
  <2>1. /\ steer[e] = "sent" /\ \A d \in Delivery : d # e => steer'[d] = steer[d]
        /\ \A d \in Delivery : d # e => fed'[d] = fed[d]
        /\ UNCHANGED <<dstate, bound, evidence, author, journal, removed, pc, batch, proven,
                       forced, requeued>>
    BY <1>8 DEF HarnessAccepts, Fed, delv, runs, mems, turns, TypeOK
  <2>2. Untouched' = Untouched
    BY <2>1 DEF Untouched
  <2>3. e \in Untouched => bound[e] = NoRun /\ e \notin proven
    BY <2>1 DEF EvidenceOK, SteeredOK, ProvenOK
  <2>4. EvidenceOK'
    BY <2>1, <2>2, <2>3 DEF EvidenceOK, SteeredOK, ProvenOK, Unproven, Untouched
  <2>5. \A d \in proven : fed'[d] > fed[d] => d \in forced \cup requeued
    BY <1>2, <1>3, <2>1, <2>3 DEF Untouched
  <2> QED BY <2>4, <2>5
<1>9. ASSUME Boot PROVE EvidenceOK' /\ UNCHANGED fed
  BY <1>9 DEF Boot, delv, runs, mems, turns, flags, hist, EvidenceOK, SteeredOK, ProvenOK,
              Untouched, Unproven
<1> QED BY <1>1, <1>4, <1>5, <1>6, <1>7, <1>8, <1>9 DEF Kinds

\* Once durable evidence says that a row reached a harness, nothing but an operator
\* act, a graceful stop or a blocked card hands it out again, where boot recovery
\* fans nothing out, whatever is stopped, killed, steered, fenced or crashes.
THEOREM EvidenceCorrect ==
  ASSUME NoFanOut
  PROVE  Spec => EvidenceHonoured
<1>1. Init => EvidenceOK
  BY DEF Init, EvidenceOK, SteeredOK, ProvenOK, Untouched
<1>2. IInv /\ HistoryOK /\ EvidenceOK /\ [Next]_vars => EvidenceOK'
  BY EvidenceStep DEF IInv
<1>3. IInv /\ HistoryOK /\ EvidenceOK /\ [Next]_vars
        => [\A d \in proven : fed'[d] > fed[d] => d \in forced \cup requeued]_vars
  BY EvidenceStep DEF IInv
<1>4. Spec => []HistoryOK
  BY HistoryCorrect
<1> QED BY <1>1, <1>2, <1>3, <1>4, Invariant, PTL DEF Spec, EvidenceHonoured

=============================================================================
