------------------------ MODULE CollaborationProofs ------------------------
(***************************************************************************)
(* Theorems about CollaborationRounds, for any finite set of agents and any *)
(* number of rounds, operator acts and crashes.                            *)
(***************************************************************************)
EXTENDS CollaborationRounds, FiniteSetTheorems, SequenceTheorems, TLAPS

\* A round that is being gathered is the latest one and its group is open; an
\* open group has one.
OneRoundAtATime ==
  /\ group = "none" => \A r \in Round : round[r] = "none"
  /\ group = "open" => \E r \in Round : Collecting(r)
  /\ \A r \in Round : Collecting(r) => /\ group = "open"
                                       /\ \A q \in Round : q > r => round[q] = "none"

\* Only the round being gathered waits for anybody, and a round has its
\* participants, each with a delivery, from the transaction that creates it.
PartsFollowRounds ==
  \A a \in Agent, r \in Round :
    /\ part[<<a, r>>] = "waiting" => Collecting(r)
    /\ round[r] = "none" => part[<<a, r>>] = "out"
    /\ row[<<a, r>>] = "absent" <=> part[<<a, r>>] = "out"

\* OwedAnswersAreComing without its hypothesis: inside a handler's stretch, too,
\* no transaction takes a row and leaves its participant.
OwedRowsAreKept ==
  \A a \in Agent, r \in Round :
    part[<<a, r>>] = "waiting" =>
      \/ row[<<a, r>>] \in {"queued", "held", "delivering"}
      \/ purged \/ <<a, r>> \in taken

\* The calls of s dispatch deliveries of f only.
HasRows(f, s) ==
  \A i \in 1..Len(s) : s[i].op = "dispatch" =>
    \A a \in s[i].who, r \in s[i].rs : f[<<a, r>>] # "absent"

\* The inductive invariant: dispatchCreatedDeliveries runs on deliveries that
\* were created (it may hold one, whatever it is).
RoundsIInv ==
  /\ RoundsTypeOK /\ OneRoundAtATime /\ PartsFollowRounds /\ OwedRowsAreKept
  /\ HasRows(row, todo)

-----------------------------------------------------------------------------
(* The two kinds of step that neither open a round nor end the group        *)

\* No answer arrives; a row stays a row.
Quiet ==
  /\ UNCHANGED <<group, round, part>>
  /\ \A a \in Agent, r \in Round : (row[<<a, r>>])' = "absent" <=> row[<<a, r>>] = "absent"

\* The answer of a to round r arrives.
Answered(a, r) ==
  /\ part[<<a, r>>] = "waiting"
  /\ \E o \in Terminal : part' = [part EXCEPT ![<<a, r>>] = o]
  /\ UNCHANGED <<group, round>>
  /\ \A b \in Agent, q \in Round : (row[<<b, q>>])' = "absent" <=> row[<<b, q>>] = "absent"

LEMMA QuietKeeps ==
  ASSUME OneRoundAtATime, PartsFollowRounds, Quiet
  PROVE  OneRoundAtATime' /\ PartsFollowRounds'
BY DEF OneRoundAtATime, PartsFollowRounds, Quiet, Collecting

LEMMA AnsweredKeeps ==
  ASSUME RoundsTypeOK, OneRoundAtATime, PartsFollowRounds,
         NEW a \in Agent, NEW r \in Round, Answered(a, r)
  PROVE  OneRoundAtATime' /\ PartsFollowRounds'
<1>1. OneRoundAtATime'
  BY DEF OneRoundAtATime, Answered, Collecting
<1>2. PICK o \in Terminal : part' = [part EXCEPT ![<<a, r>>] = o]
  BY DEF Answered
<1>3. part \in [Slot -> {"out", "waiting"} \cup Terminal]
  BY DEF RoundsTypeOK, StoreOK
<1>4. ASSUME NEW b \in Agent, NEW q \in Round
      PROVE  (part[<<b, q>>])' = IF b = a /\ q = r THEN o ELSE part[<<b, q>>]
  BY <1>2, <1>3 DEF Slot
<1>5. /\ part[<<a, r>>] = "waiting" /\ round' = round
      /\ \A b \in Agent, q \in Round : (row[<<b, q>>])' = "absent" <=> row[<<b, q>>] = "absent"
  BY DEF Answered
<1>6. ASSUME NEW b \in Agent, NEW q \in Round
      PROVE  /\ (part[<<b, q>>])' = "waiting" => Collecting(q)'
             /\ (round[q])' = "none" => (part[<<b, q>>])' = "out"
             /\ (row[<<b, q>>])' = "absent" <=> (part[<<b, q>>])' = "out"
  <2>1. /\ part[<<b, q>>] = "waiting" => round[q] = "collecting"
        /\ round[q] = "none" => part[<<b, q>>] = "out"
        /\ row[<<b, q>>] = "absent" <=> part[<<b, q>>] = "out"
    BY DEF PartsFollowRounds, Collecting
  <2>2. (part[<<b, q>>])' = IF b = a /\ q = r THEN o ELSE part[<<b, q>>]
    BY <1>4
  <2>3. o # "waiting" /\ o # "out"
    BY DEF Terminal
  <2> QED
    BY <1>5, <2>1, <2>2, <2>3 DEF Collecting
<1>7. PartsFollowRounds'
  BY <1>6 DEF PartsFollowRounds
<1> QED
  BY <1>1, <1>7
-----------------------------------------------------------------------------
(* Types                                                                    *)

LEMMA CallsTyped ==
  ASSUME NEW op \in {"settle", "skip", "dispatch"}, NEW R \in SUBSET Round,
         NEW who \in SUBSET Agent
  PROVE  Calls(op, R, who) \in Seq(Call)
<1>1. [op |-> op, rs |-> R, who |-> who] \in Call
  BY DEF Call
<1>2. <<[op |-> op, rs |-> R, who |-> who]>> \in Seq(Call)
  BY <1>1
<1> QED
  BY <1>2 DEF Calls

LEMMA AfterRoundTyped ==
  ASSUME todo \in Seq(Call), todo # <<>>, NEW r \in Round
  PROVE  AfterRound(r) \in Seq(Call)
<1>1. Tail(todo) \in Seq(Call) /\ Head1 \in Call
  BY HeadTailProperties DEF Head1
<1>2. /\ Head1.op \in {"settle", "skip", "dispatch"}
      /\ Head1.rs \ {r} \in SUBSET Round /\ Head1.who \in SUBSET Agent
  BY <1>1 DEF Call
<1>3. Calls(Head1.op, Head1.rs \ {r}, Head1.who) \in Seq(Call)
  BY <1>2, CallsTyped
<1> QED
  BY <1>1, <1>3 DEF AfterRound

LEMMA AfterTyped ==
  ASSUME todo \in Seq(Call), todo # <<>>, NEW a \in Agent, NEW r \in Round
  PROVE  AfterAgent(a, r) \in Seq(Call)
<1>1. Tail(todo) \in Seq(Call) /\ Head1 \in Call
  BY HeadTailProperties DEF Head1
<1>2. /\ Head1.op \in {"settle", "skip", "dispatch"}
      /\ Head1.rs \in SUBSET Round /\ Head1.who \ {a} \in SUBSET Agent
  BY <1>1 DEF Call
<1>3. Calls(Head1.op, Head1.rs, Head1.who \ {a}) \in Seq(Call)
  BY <1>2, CallsTyped
<1>4. AfterRound(r) \in Seq(Call)
  BY AfterRoundTyped
<1> QED
  BY <1>1, <1>3, <1>4 DEF AfterAgent

LEMMA StartTurnTyped ==
  ASSUME RoundsTypeOK, NEW a \in Agent, NEW r \in Round, StartTurn(a, r)
  PROVE  RoundsTypeOK'
<1>1. StoreOK'
  BY DEF StartTurn, round_, count, RoundsTypeOK, StoreOK, Terminal, Slot
<1>2. ProcessOK'
  BY DEF StartTurn, round_, count, RoundsTypeOK, ProcessOK
<1>3. CountsOK'
  BY DEF StartTurn, count, RoundsTypeOK, CountsOK
<1> QED
  BY <1>1, <1>2, <1>3 DEF RoundsTypeOK

LEMMA StartBrakedTyped ==
  ASSUME RoundsTypeOK, NEW a \in Agent, NEW r \in Round, StartBraked(a, r)
  PROVE  RoundsTypeOK'
<1>1. StoreOK'
  BY DEF StartBraked, round_, RoundsTypeOK, StoreOK, Terminal, Slot
<1>2. ProcessOK'
  BY DEF StartBraked, round_, RoundsTypeOK, ProcessOK
<1>3. CountsOK'
  BY RoundsAssumption DEF StartBraked, RoundsTypeOK, CountsOK
<1> QED
  BY <1>1, <1>2, <1>3 DEF RoundsTypeOK

LEMMA FinishTurnTyped ==
  ASSUME RoundsTypeOK, NEW a \in Agent, NEW r \in Round,
         NEW o \in {"completed", "failed", "interrupted"},
         NEW M \in SUBSET (Agent \cup {Stale}), FinishTurn(a, r, o, M)
  PROVE  RoundsTypeOK'
<1>1. StoreOK'
  BY DEF FinishTurn, count, RoundsTypeOK, StoreOK, Terminal, Slot
<1>2. ProcessOK'
  BY CallsTyped DEF FinishTurn, count, RoundsTypeOK, ProcessOK
<1>3. CountsOK'
  BY DEF FinishTurn, count, RoundsTypeOK, CountsOK
<1> QED
  BY <1>1, <1>2, <1>3 DEF RoundsTypeOK

LEMMA RepairTurnTyped ==
  ASSUME RoundsTypeOK, NEW a \in Agent, NEW r \in Round, RepairTurn(a, r)
  PROVE  RoundsTypeOK'
<1>1. RepairedRow(a, r) \in {"consumed", "held"}
  BY DEF RepairedRow
<1>2. row' \in [Slot -> {"absent", "queued", "held", "delivering", "consumed"}]
  BY <1>1
  DEF RepairTurn, RoundsTypeOK, StoreOK, round_, rows, count, RoundsAct, Slot, Terminal
<1>3. StoreOK'
  BY <1>2
  DEF RepairTurn, RoundsTypeOK, StoreOK, round_, rows, count, RoundsAct, Slot, Terminal
<1>4. ProcessOK'
  BY DEF RepairTurn, RoundsTypeOK, ProcessOK
<1>5. CountsOK'
  BY RoundsAssumption DEF RepairTurn, RoundsTypeOK, CountsOK
<1> QED
  BY <1>3, <1>4, <1>5 DEF RoundsTypeOK

LEMMA LifecycleRequeuesTyped ==
  ASSUME RoundsTypeOK, NEW a \in Agent, NEW r \in Round, LifecycleRequeues(a, r)
  PROVE  RoundsTypeOK'
<1>1. StoreOK'
  BY DEF LifecycleRequeues, round_, count, RoundsTypeOK, StoreOK, Terminal, Slot
<1>2. ProcessOK'
  BY DEF LifecycleRequeues, round_, count, RoundsTypeOK, ProcessOK
<1>3. CountsOK'
  BY DEF LifecycleRequeues, count, RoundsTypeOK, CountsOK
<1> QED
  BY <1>1, <1>2, <1>3 DEF RoundsTypeOK

LEMMA LifecycleSettlesTyped ==
  ASSUME RoundsTypeOK, NEW a \in Agent, NEW r \in Round, LifecycleSettles(a, r)
  PROVE  RoundsTypeOK'
<1>1. StoreOK'
  BY DEF LifecycleSettles, count, RoundsTypeOK, StoreOK, Terminal, Slot
<1>2. ProcessOK'
  BY CallsTyped DEF LifecycleSettles, count, RoundsTypeOK, ProcessOK
<1>3. CountsOK'
  BY DEF LifecycleSettles, count, RoundsTypeOK, CountsOK
<1> QED
  BY <1>1, <1>2, <1>3 DEF RoundsTypeOK

LEMMA BootHoldsTyped ==
  ASSUME RoundsTypeOK, NEW a \in Agent, NEW r \in Round, BootHolds(a, r)
  PROVE  RoundsTypeOK'
<1>1. StoreOK'
  BY DEF BootHolds, round_, count, RoundsTypeOK, StoreOK, Terminal, Slot
<1>2. ProcessOK'
  BY DEF BootHolds, round_, count, RoundsTypeOK, ProcessOK
<1>3. CountsOK'
  BY DEF BootHolds, count, RoundsTypeOK, CountsOK
<1> QED
  BY <1>1, <1>2, <1>3 DEF RoundsTypeOK

LEMMA ReconcileParticipantTyped ==
  ASSUME RoundsTypeOK, NEW a \in Agent, NEW r \in Round, ReconcileParticipant(a, r)
  PROVE  RoundsTypeOK'
<1>1. PICK o \in Terminal : part' = [part EXCEPT ![<<a, r>>] = o]
  BY DEF ReconcileParticipant, Recoverable, Terminal
<1>2. part' \in [Slot -> {"out", "waiting"} \cup Terminal]
  BY <1>1 DEF RoundsTypeOK, StoreOK, Slot
<1>3. row' \in [Slot -> {"absent", "queued", "held", "delivering", "consumed"}]
  BY DEF ReconcileParticipant, RoundsTypeOK, StoreOK, Slot
<1>4. UNCHANGED <<group, round, run, says, member>>
  BY DEF ReconcileParticipant
<1>5. StoreOK'
  BY <1>2, <1>3, <1>4 DEF RoundsTypeOK, StoreOK
<1>6. ProcessOK'
  BY DEF ReconcileParticipant, RoundsTypeOK, ProcessOK
<1>7. CountsOK'
  BY DEF ReconcileParticipant, RoundsTypeOK, CountsOK, count
<1> QED
  BY <1>5, <1>6, <1>7 DEF RoundsTypeOK

LEMMA releaseHoldTyped ==
  ASSUME RoundsTypeOK, NEW a \in Agent, NEW r \in Round, releaseHold(a, r)
  PROVE  RoundsTypeOK'
<1>1. Calls("settle", {r}, {}) \in Seq(Call)
  BY CallsTyped
<1>2. todo' = Calls("settle", {r}, {}) \/ todo' = todo
  BY DEF releaseHold
<1>3. ProcessOK'
  BY <1>1, <1>2 DEF releaseHold, RoundsTypeOK, ProcessOK
<1>4. \E v \in {"consumed", "delivering", "queued"} : row' = [row EXCEPT ![<<a, r>>] = v]
  BY DEF releaseHold
<1>5. row' \in [Slot -> {"absent", "queued", "held", "delivering", "consumed"}]
  BY <1>4 DEF RoundsTypeOK, StoreOK, Slot
<1>6. part' = part \/ \E o \in Terminal : part' = [part EXCEPT ![<<a, r>>] = o]
  BY DEF releaseHold, Terminal
<1>7. part' \in [Slot -> {"out", "waiting"} \cup Terminal]
  BY <1>6 DEF RoundsTypeOK, StoreOK, Slot
<1>8. run' = run \/ run' = [run EXCEPT ![<<a, r>>] = "running"]
  BY DEF releaseHold
<1>9. run' \in [Slot -> {"none", "running", "completed", "failed", "interrupted"}]
  BY <1>8 DEF RoundsTypeOK, StoreOK, Slot
<1>10. UNCHANGED <<group, round, says, member>>
  BY DEF releaseHold
<1>11. StoreOK'
  BY <1>5, <1>7, <1>9, <1>10 DEF RoundsTypeOK, StoreOK
<1>12. CountsOK'
  BY RoundsAssumption DEF releaseHold, RoundsAct, RoundsTypeOK, CountsOK
<1> QED
  BY <1>3, <1>11, <1>12 DEF RoundsTypeOK

LEMMA redeliverRowTyped ==
  ASSUME RoundsTypeOK, NEW a \in Agent, NEW r \in Round, redeliverRow(a, r)
  PROVE  RoundsTypeOK'
<1>1. StoreOK'
  BY DEF redeliverRow, RoundsAct, round_, RoundsTypeOK, StoreOK, Terminal, Slot
<1>2. ProcessOK'
  BY DEF redeliverRow, RoundsAct, round_, RoundsTypeOK, ProcessOK
<1>3. CountsOK'
  BY RoundsAssumption DEF redeliverRow, RoundsAct, RoundsTypeOK, CountsOK
<1> QED
  BY <1>1, <1>2, <1>3 DEF RoundsTypeOK

LEMMA consumeOwnRowTyped ==
  ASSUME RoundsTypeOK, NEW a \in Agent, NEW r \in Round, consumeOwnRow(a, r)
  PROVE  RoundsTypeOK'
<1>1. StoreOK'
  BY DEF consumeOwnRow, RoundsAct, round_, RoundsTypeOK, StoreOK, Terminal, Slot
<1>2. ProcessOK'
  BY DEF consumeOwnRow, RoundsAct, round_, RoundsTypeOK, ProcessOK
<1>3. CountsOK'
  BY RoundsAssumption DEF consumeOwnRow, RoundsAct, RoundsTypeOK, CountsOK, Slot
<1> QED
  BY <1>1, <1>2, <1>3 DEF RoundsTypeOK

LEMMA killMemberTyped ==
  ASSUME RoundsTypeOK, NEW a \in Agent, killMember(a)
  PROVE  RoundsTypeOK'
<1>1. Calls("skip", Unstarted(a), {a}) \in Seq(Call)
  BY CallsTyped DEF Unstarted
<1>2. todo' = Calls("skip", Unstarted(a), {a})
  BY DEF killMember
<1>3. todo' \in Seq(Call)
  BY <1>1, <1>2
<1>4. waits' \in [Agent -> SUBSET Agent]
  BY DEF killMember, Cleared, RoundsTypeOK, ProcessOK, round_, rows, count
<1>5. phase' \in {"ready", "closing", "boot", "groups"}
  BY DEF killMember, RoundsTypeOK, ProcessOK
<1>6. StoreOK'
  BY DEF killMember, RoundsAct, round_, rows, RoundsTypeOK, StoreOK, Terminal, Slot
<1>7. ProcessOK'
  BY <1>3, <1>4, <1>5 DEF ProcessOK
<1>8. CountsOK'
  BY RoundsAssumption DEF killMember, RoundsAct, RoundsTypeOK, CountsOK
<1> QED
  BY <1>6, <1>7, <1>8 DEF RoundsTypeOK

LEMMA OtherTurnFailsTyped ==
  ASSUME RoundsTypeOK, NEW a \in Agent, OtherTurnFails(a)
  PROVE  RoundsTypeOK'
<1>1. StoreOK'
  BY DEF OtherTurnFails, RoundsAct, round_, rows, RoundsTypeOK, StoreOK, Terminal, Slot
<1>2. ProcessOK'
  BY DEF OtherTurnFails, RoundsAct, round_, rows, RoundsTypeOK, ProcessOK
<1>3. CountsOK'
  BY RoundsAssumption DEF OtherTurnFails, RoundsAct, RoundsTypeOK, CountsOK
<1> QED
  BY <1>1, <1>2, <1>3 DEF RoundsTypeOK

LEMMA reviveMemberTyped ==
  ASSUME RoundsTypeOK, NEW a \in Agent, reviveMember(a)
  PROVE  RoundsTypeOK'
<1>1. StoreOK'
  BY DEF reviveMember, RoundsAct, round_, rows, RoundsTypeOK, StoreOK, Terminal, Slot
<1>2. ProcessOK'
  BY DEF reviveMember, RoundsAct, round_, rows, RoundsTypeOK, ProcessOK
<1>3. CountsOK'
  BY RoundsAssumption DEF reviveMember, RoundsAct, RoundsTypeOK, CountsOK
<1> QED
  BY <1>1, <1>2, <1>3 DEF RoundsTypeOK

LEMMA removeMemberTyped ==
  ASSUME RoundsTypeOK, NEW a \in Agent, removeMember(a)
  PROVE  RoundsTypeOK'
<1>1. Calls("settle", Started(a), {}) \in Seq(Call)
  BY CallsTyped DEF Started
<1>2. Calls("skip", Unstarted(a), {a}) \in Seq(Call)
  BY CallsTyped DEF Unstarted
<1>3. todo' = Calls("settle", Started(a), {}) \o Calls("skip", Unstarted(a), {a})
  BY DEF removeMember
<1>4. todo' \in Seq(Call)
  BY <1>1, <1>2, <1>3
<1>5. waits' \in [Agent -> SUBSET Agent]
  BY DEF removeMember, Cleared, RoundsTypeOK, ProcessOK, round_, rows, count
<1>6. phase' \in {"ready", "closing", "boot", "groups"}
  BY DEF removeMember, RoundsTypeOK, ProcessOK
<1>7. StoreOK'
  BY DEF removeMember, RoundsTypeOK, StoreOK, Terminal, Slot
<1>8. ProcessOK'
  BY <1>4, <1>5, <1>6 DEF ProcessOK
<1>9. CountsOK'
  BY RoundsAssumption DEF removeMember, count, RoundsTypeOK, CountsOK
<1> QED
  BY <1>7, <1>8, <1>9 DEF RoundsTypeOK

LEMMA endWaitTyped ==
  ASSUME RoundsTypeOK, NEW a \in Agent, endWait(a)
  PROVE  RoundsTypeOK'
<1>1. StoreOK'
  BY DEF endWait, round_, rows, count, RoundsTypeOK, StoreOK, Terminal, Slot
<1>2. ProcessOK'
  BY DEF endWait, round_, rows, count, RoundsTypeOK, ProcessOK
<1>3. CountsOK'
  BY DEF endWait, count, RoundsTypeOK, CountsOK
<1> QED
  BY <1>1, <1>2, <1>3 DEF RoundsTypeOK

LEMMA beginWaitTyped ==
  ASSUME RoundsTypeOK, NEW a \in Agent, NEW P \in SUBSET Agent, beginWait(a, P)
  PROVE  RoundsTypeOK'
<1>1. StoreOK'
  BY DEF beginWait, round_, rows, RoundsTypeOK, StoreOK, Terminal, Slot
<1>2. ProcessOK'
  BY DEF beginWait, round_, rows, RoundsTypeOK, ProcessOK
<1>3. CountsOK'
  BY RoundsAssumption DEF beginWait, RoundsTypeOK, CountsOK
<1> QED
  BY <1>1, <1>2, <1>3 DEF RoundsTypeOK

LEMMA AdvancePendingTyped ==
  ASSUME RoundsTypeOK, NEW r \in Round, AdvancePending(r)
  PROVE  RoundsTypeOK'
<1>1. AfterRound(r) \in Seq(Call)
  BY AfterRoundTyped DEF AdvancePending, Calling, RoundsTypeOK, ProcessOK
<1>2. todo' = AfterRound(r)
  BY DEF AdvancePending
<1>3. todo' \in Seq(Call)
  BY <1>1, <1>2
<1>4. waits' \in [Agent -> SUBSET Agent]
  BY DEF AdvancePending, Cleared, RoundsTypeOK, ProcessOK, round_, rows, count
<1>5. phase' \in {"ready", "closing", "boot", "groups"}
  BY DEF AdvancePending, RoundsTypeOK, ProcessOK
<1>6. StoreOK'
  BY DEF AdvancePending, round_, rows, count, RoundsTypeOK, StoreOK, Terminal, Slot
<1>7. ProcessOK'
  BY <1>3, <1>4, <1>5 DEF ProcessOK
<1>8. CountsOK'
  BY DEF AdvancePending, count, RoundsTypeOK, CountsOK
<1> QED
  BY <1>6, <1>7, <1>8 DEF RoundsTypeOK

LEMMA AdvanceClosesTyped ==
  ASSUME RoundsTypeOK, NEW r \in Round, AdvanceCloses(r)
  PROVE  RoundsTypeOK'
<1>1. AfterRound(r) \in Seq(Call)
  BY AfterRoundTyped DEF AdvanceCloses, Calling, RoundsTypeOK, ProcessOK
<1>2. todo' = AfterRound(r)
  BY DEF AdvanceCloses
<1>3. todo' \in Seq(Call)
  BY <1>1, <1>2
<1>4. waits' \in [Agent -> SUBSET Agent]
  BY DEF AdvanceCloses, Cleared, RoundsTypeOK, ProcessOK, round_, rows, count
<1>5. phase' \in {"ready", "closing", "boot", "groups"}
  BY DEF AdvanceCloses, RoundsTypeOK, ProcessOK
<1>6. StoreOK'
  BY RoundsAssumption
  DEF AdvanceCloses, rows, count, RoundsTypeOK, StoreOK, Terminal, Slot, Round
<1>7. ProcessOK'
  BY <1>3, <1>4, <1>5 DEF ProcessOK
<1>8. CountsOK'
  BY DEF AdvanceCloses, count, RoundsTypeOK, CountsOK
<1> QED
  BY <1>6, <1>7, <1>8 DEF RoundsTypeOK

LEMMA AdvanceReleasesTyped ==
  ASSUME RoundsTypeOK, NEW r \in Round, AdvanceReleases(r)
  PROVE  RoundsTypeOK'
<1>1. AfterRound(r) \in Seq(Call)
  BY AfterRoundTyped DEF AdvanceReleases, Calling, RoundsTypeOK, ProcessOK
<1>2. r + 1 \in Round
  BY RoundsAssumption DEF AdvanceReleases, Round
<1>3. Calls("dispatch", {r + 1}, NextMembers(r)) \in Seq(Call)
  BY CallsTyped, <1>2 DEF NextMembers
<1>4. todo' = Calls("dispatch", {r + 1}, NextMembers(r)) \o AfterRound(r)
  BY DEF AdvanceReleases
<1>5. todo' \in Seq(Call)
  BY <1>1, <1>2, <1>3, <1>4
<1>6. waits' \in [Agent -> SUBSET Agent]
  BY DEF AdvanceReleases, Cleared, RoundsTypeOK, ProcessOK, round_, rows, count
<1>7. phase' \in {"ready", "closing", "boot", "groups"}
  BY DEF AdvanceReleases, RoundsTypeOK, ProcessOK
<1>8. StoreOK'
  BY RoundsAssumption
  DEF AdvanceReleases, count, Materialized, RoundsTypeOK, StoreOK, Terminal, Slot, Round
<1>9. ProcessOK'
  BY <1>5, <1>6, <1>7 DEF ProcessOK
<1>10. CountsOK'
  BY DEF AdvanceReleases, count, RoundsTypeOK, CountsOK
<1> QED
  BY <1>8, <1>9, <1>10 DEF RoundsTypeOK

LEMMA SkipCallTyped ==
  ASSUME RoundsTypeOK, NEW a \in Agent, NEW r \in Round, SkipCall(a, r)
  PROVE  RoundsTypeOK'
<1>1. AfterAgent(a, r) \in Seq(Call)
  BY AfterTyped DEF SkipCall, Calling, RoundsTypeOK, ProcessOK
<1>2. SkipTail(r) \in Seq(Call)
  BY CallsTyped DEF SkipTail
<1>3. todo' = SkipTail(r) \o AfterAgent(a, r)
  BY DEF SkipCall
<1>4. todo' \in Seq(Call)
  BY <1>1, <1>2, <1>3
<1>5. waits' \in [Agent -> SUBSET Agent]
  BY DEF SkipCall, Cleared, RoundsTypeOK, ProcessOK, round_, rows, count
<1>6. phase' \in {"ready", "closing", "boot", "groups"}
  BY DEF SkipCall, RoundsTypeOK, ProcessOK
<1>7. StoreOK'
  BY DEF SkipCall, count, RoundsTypeOK, StoreOK, Terminal, Slot
<1>8. ProcessOK'
  BY <1>4, <1>5, <1>6 DEF ProcessOK
<1>9. CountsOK'
  BY DEF SkipCall, count, RoundsTypeOK, CountsOK
<1> QED
  BY <1>7, <1>8, <1>9 DEF RoundsTypeOK

LEMMA DispatchCallTyped ==
  ASSUME RoundsTypeOK, NEW a \in Agent, NEW r \in Round, DispatchCall(a, r)
  PROVE  RoundsTypeOK'
<1>1. AfterAgent(a, r) \in Seq(Call)
  BY AfterTyped DEF DispatchCall, Calling, RoundsTypeOK, ProcessOK
<1>2. Calls("skip", {r}, {a}) \in Seq(Call)
  BY CallsTyped
<1>3. Calls("skip", {r}, {a}) \o AfterAgent(a, r) \in Seq(Call)
  BY <1>1, <1>2
<1>4. \/ todo' = Calls("skip", {r}, {a}) \o AfterAgent(a, r)
      \/ todo' = AfterAgent(a, r)
  BY DEF DispatchCall
<1>5. todo' \in Seq(Call)
  BY <1>1, <1>3, <1>4
<1>6. ProcessOK'
  BY <1>5 DEF DispatchCall, RoundsTypeOK, ProcessOK
<1>7. row' = row \/ row' = [row EXCEPT ![<<a, r>>] = "held"]
  BY DEF DispatchCall
<1>8. row' \in [Slot -> {"absent", "queued", "held", "delivering", "consumed"}]
  BY <1>7 DEF RoundsTypeOK, StoreOK, Slot
<1>9. UNCHANGED <<group, round, part, says, run, member>>
  BY DEF DispatchCall, round_
<1>10. StoreOK'
  BY <1>8, <1>9 DEF RoundsTypeOK, StoreOK
<1>11. ops' = ops \/ (ops < MaxOps /\ ops' = ops + 1)
  BY DEF DispatchCall
<1>12. CountsOK'
  BY <1>11, RoundsAssumption DEF DispatchCall, RoundsTypeOK, CountsOK
<1> QED
  BY <1>6, <1>10, <1>12 DEF RoundsTypeOK

LEMMA createCollaborationGroupTyped ==
  ASSUME RoundsTypeOK, createCollaborationGroup
  PROVE  RoundsTypeOK'
<1>1. PICK S \in SUBSET Agent : /\ Materialized(S, 1)
                               /\ todo' = Calls("dispatch", {1}, S)
  BY DEF createCollaborationGroup
<1>2. {1} \in SUBSET Round
  BY RoundsAssumption DEF Round
<1>3. ProcessOK'
  BY <1>1, <1>2, CallsTyped DEF createCollaborationGroup, RoundsTypeOK, ProcessOK
<1>4. part' \in [Slot -> {"out", "waiting"} \cup Terminal]
  BY <1>1 DEF Materialized, RoundsTypeOK, StoreOK
<1>5. row' \in [Slot -> {"absent", "queued", "held", "delivering", "consumed"}]
  BY <1>1 DEF Materialized, RoundsTypeOK, StoreOK
<1>6. /\ group' = "open" /\ round' = [round EXCEPT ![1] = "collecting"]
      /\ UNCHANGED <<run, says, member>>
  BY DEF createCollaborationGroup
<1>7. StoreOK'
  BY <1>4, <1>5, <1>6 DEF RoundsTypeOK, StoreOK
<1>8. CountsOK'
  BY DEF createCollaborationGroup, RoundsTypeOK, CountsOK, count
<1> QED
  BY <1>3, <1>7, <1>8 DEF RoundsTypeOK

LEMMA deleteRootTyped ==
  ASSUME RoundsTypeOK, deleteRoot
  PROVE  RoundsTypeOK'
<1>1. StoreOK'
  BY DEF deleteRoot, RoundsAct, round_, RoundsTypeOK, StoreOK, Terminal, Slot
<1>2. ProcessOK'
  BY DEF deleteRoot, RoundsAct, round_, RoundsTypeOK, ProcessOK
<1>3. CountsOK'
  BY RoundsAssumption DEF deleteRoot, RoundsAct, RoundsTypeOK, CountsOK
<1> QED
  BY <1>1, <1>2, <1>3 DEF RoundsTypeOK

LEMMA CloseDaemonTyped ==
  ASSUME RoundsTypeOK, CloseDaemon
  PROVE  RoundsTypeOK'
<1>1. StoreOK'
  BY DEF CloseDaemon, round_, rows, RoundsTypeOK, StoreOK, Terminal, Slot
<1>2. ProcessOK'
  BY DEF CloseDaemon, round_, rows, RoundsTypeOK, ProcessOK
<1>3. CountsOK'
  BY RoundsAssumption DEF CloseDaemon, RoundsTypeOK, CountsOK
<1> QED
  BY <1>1, <1>2, <1>3 DEF RoundsTypeOK

LEMMA RestartTyped ==
  ASSUME RoundsTypeOK, Restart
  PROVE  RoundsTypeOK'
<1>1. StoreOK'
  BY DEF Restart, round_, rows, count, RoundsTypeOK, StoreOK, Terminal, Slot
<1>2. ProcessOK'
  BY DEF Restart, round_, rows, count, RoundsTypeOK, ProcessOK
<1>3. CountsOK'
  BY DEF Restart, count, RoundsTypeOK, CountsOK
<1> QED
  BY <1>1, <1>2, <1>3 DEF RoundsTypeOK

LEMMA CrashDaemonTyped ==
  ASSUME RoundsTypeOK, CrashDaemon
  PROVE  RoundsTypeOK'
<1>1. StoreOK'
  BY DEF CrashDaemon, round_, rows, RoundsTypeOK, StoreOK, Terminal, Slot
<1>2. ProcessOK'
  BY DEF CrashDaemon, round_, rows, RoundsTypeOK, ProcessOK
<1>3. CountsOK'
  BY RoundsAssumption DEF CrashDaemon, RoundsTypeOK, CountsOK
<1> QED
  BY <1>1, <1>2, <1>3 DEF RoundsTypeOK

LEMMA BootReconciledTyped ==
  ASSUME RoundsTypeOK, BootReconciled
  PROVE  RoundsTypeOK'
<1>1. StoreOK'
  BY DEF BootReconciled, round_, rows, count, RoundsTypeOK, StoreOK, Terminal, Slot
<1>2. ProcessOK'
  BY DEF BootReconciled, round_, rows, count, RoundsTypeOK, ProcessOK
<1>3. CountsOK'
  BY DEF BootReconciled, count, RoundsTypeOK, CountsOK
<1> QED
  BY <1>1, <1>2, <1>3 DEF RoundsTypeOK

LEMMA ReconcileRoundTyped ==
  ASSUME RoundsTypeOK, ReconcileRound
  PROVE  RoundsTypeOK'
<1>1. StoreOK'
  BY DEF ReconcileRound, round_, rows, count, Recoverable, Skips, RoundsTypeOK, StoreOK,
     Terminal, Slot
<1>2. ProcessOK'
  BY CallsTyped DEF ReconcileRound, round_, rows, count, RoundsTypeOK, ProcessOK
<1>3. CountsOK'
  BY DEF ReconcileRound, count, RoundsTypeOK, CountsOK
<1> QED
  BY <1>1, <1>2, <1>3 DEF RoundsTypeOK

-----------------------------------------------------------------------------
(* The calls a handler has left                                             *)

LEMMA OtherCallsHaveRows ==
  ASSUME NEW op \in {"settle", "skip"}, NEW R \in SUBSET Round, NEW who \in SUBSET Agent,
         NEW f
  PROVE  HasRows(f, Calls(op, R, who))
BY DEF HasRows, Calls

LEMMA CallsHaveRows ==
  ASSUME NEW R \in SUBSET Round, NEW who \in SUBSET Agent, NEW op, NEW f,
         \A a \in who, r \in R : f[<<a, r>>] # "absent"
  PROVE  HasRows(f, Calls(op, R, who))
<1>1. CASE R = {}
  BY <1>1 DEF HasRows, Calls
<1>2. CASE R # {}
  <2> DEFINE c == [op |-> op, rs |-> R, who |-> who]
  <2>1. Calls(op, R, who) = <<c>> /\ c.rs = R /\ c.who = who
    BY <1>2 DEF Calls
  <2> HIDE DEF c
  <2>2. ASSUME NEW i \in 1..Len(<<c>>), NEW a \in <<c>>[i].who, NEW r \in <<c>>[i].rs
        PROVE  f[<<a, r>>] # "absent"
    <3>1. <<c>>[i] = c
      OBVIOUS
    <3>2. a \in who /\ r \in R
      BY <2>1, <3>1
    <3> QED
      BY <3>2
  <2>3. HasRows(f, <<c>>)
    BY <2>2 DEF HasRows
  <2> QED
    BY <2>1, <2>3
<1> QED
  BY <1>1, <1>2

LEMMA BothHaveRows ==
  ASSUME NEW s \in Seq(Call), NEW t \in Seq(Call), NEW f, HasRows(f, s), HasRows(f, t)
  PROVE  HasRows(f, s \o t)
<1> SUFFICES ASSUME NEW i \in 1..Len(s \o t), (s \o t)[i].op = "dispatch",
                    NEW a \in (s \o t)[i].who, NEW r \in (s \o t)[i].rs
             PROVE  f[<<a, r>>] # "absent"
  BY DEF HasRows
<1>1. \/ i \in 1..Len(s) /\ (s \o t)[i] = s[i]
      \/ i - Len(s) \in 1..Len(t) /\ (s \o t)[i] = t[i - Len(s)]
  OBVIOUS
<1> QED
  BY <1>1 DEF HasRows

LEMMA TailHasRows ==
  ASSUME NEW s \in Seq(Call), s # <<>>, NEW f, HasRows(f, s)
  PROVE  /\ HasRows(f, Tail(s))
         /\ Head(s).op = "dispatch" =>
              \A a \in Head(s).who, r \in Head(s).rs : f[<<a, r>>] # "absent"
<1>1. /\ Len(s) \in Nat /\ Len(Tail(s)) = Len(s) - 1 /\ Len(s) >= 1
      /\ \A i \in 1..Len(Tail(s)) : Tail(s)[i] = s[i + 1]
      /\ Head(s) = s[1]
  BY HeadTailProperties
<1>2. \A i \in 1..Len(Tail(s)) : i + 1 \in 1..Len(s)
  BY <1>1
<1> QED
  BY <1>1, <1>2 DEF HasRows

LEMMA AfterHasRows ==
  ASSUME todo \in Seq(Call), todo # <<>>, HasRows(row, todo),
         NEW r \in Round
  PROVE  /\ HasRows(row, AfterRound(r))
         /\ \A a \in Agent : HasRows(row, AfterAgent(a, r))
<1>1. Tail(todo) \in Seq(Call) /\ Head1 \in Call
  BY HeadTailProperties DEF Head1
<1>2. /\ Head1.op \in {"settle", "skip", "dispatch"}
      /\ Head1.rs \in SUBSET Round /\ Head1.rs \ {r} \in SUBSET Round
      /\ Head1.who \in SUBSET Agent
  BY <1>1 DEF Call
<1>3. /\ HasRows(row, Tail(todo))
      /\ Head1.op = "dispatch" =>
           \A b \in Head1.who, q \in Head1.rs : row[<<b, q>>] # "absent"
  BY TailHasRows DEF Head1
<1>4. ASSUME NEW R \in SUBSET Head1.rs, NEW who \in SUBSET Head1.who
      PROVE  HasRows(row, Calls(Head1.op, R, who) \o Tail(todo))
  <2>1. R \in SUBSET Round /\ who \in SUBSET Agent
    BY <1>2
  <2>2. HasRows(row, Calls(Head1.op, R, who))
    <3>1. CASE Head1.op = "dispatch"
      BY <1>3, <2>1, <3>1, CallsHaveRows
    <3>2. CASE Head1.op \in {"settle", "skip"}
      BY <2>1, <3>2, OtherCallsHaveRows
    <3> QED
      BY <1>2, <3>1, <3>2
  <2>3. Calls(Head1.op, R, who) \in Seq(Call)
    BY <1>2, <2>1, CallsTyped
  <2> QED
    BY <1>1, <1>3, <2>2, <2>3, BothHaveRows
<1>5. HasRows(row, AfterRound(r))
  BY <1>4 DEF AfterRound
<1>6. \A a \in Agent : HasRows(row, Calls(Head1.op, Head1.rs, Head1.who \ {a}) \o Tail(todo))
  BY <1>4
<1> QED
  BY <1>5, <1>6 DEF AfterAgent

\* A delivery that exists goes on existing: what a call dispatches stays.
LEMMA RowsStayRows ==
  ASSUME NEW s \in Seq(Call), NEW f, NEW g, HasRows(f, s),
         \A a \in Agent, r \in Round : f[<<a, r>>] # "absent" => g[<<a, r>>] # "absent"
  PROVE  HasRows(g, s)
<1> SUFFICES ASSUME NEW i \in 1..Len(s), s[i].op = "dispatch",
                    NEW a \in s[i].who, NEW r \in s[i].rs
             PROVE  g[<<a, r>>] # "absent"
  BY DEF HasRows
<1>1. s[i] \in Call
  OBVIOUS
<1>2. a \in Agent /\ r \in Round
  BY <1>1 DEF Call
<1> QED
  BY <1>2 DEF HasRows

-----------------------------------------------------------------------------
(* What each step does to answers and rows                                  *)

\* A delivery that goes from one place in the queue, in hold or in a turn to
\* another changes no answer and leaves none uncovered.
LEMMA RowMoves ==
  ASSUME RoundsIInv, NEW a \in Agent, NEW r \in Round,
         NEW v \in {"queued", "held", "delivering"},
         row[<<a, r>>] # "absent", row' = [row EXCEPT ![<<a, r>>] = v],
         UNCHANGED <<group, round, part, purged, taken>>
  PROVE  Quiet /\ OwedRowsAreKept'
<1>1. ASSUME NEW b \in Agent, NEW q \in Round
      PROVE  (row[<<b, q>>])' = IF b = a /\ q = r THEN v ELSE row[<<b, q>>]
  BY DEF RoundsIInv, RoundsTypeOK, StoreOK, Slot
<1>2. Quiet
  BY <1>1 DEF Quiet
<1>3. OwedRowsAreKept'
  BY <1>1 DEF RoundsIInv, OwedRowsAreKept
<1> QED
  BY <1>2, <1>3

\* A delivery is consumed together with the answer it owes.
LEMMA RowAnswers ==
  ASSUME RoundsIInv, NEW a \in Agent, NEW r \in Round,
         row[<<a, r>>] # "absent", row' = [row EXCEPT ![<<a, r>>] = "consumed"],
         \/ part[<<a, r>>] # "waiting" /\ part' = part
         \/ part[<<a, r>>] = "waiting" /\ \E o \in Terminal : part' = [part EXCEPT ![<<a, r>>] = o],
         UNCHANGED <<group, round, purged, taken>>
  PROVE  (Quiet \/ Answered(a, r)) /\ OwedRowsAreKept'
<1>1. ASSUME NEW b \in Agent, NEW q \in Round
      PROVE  (row[<<b, q>>])' = IF b = a /\ q = r THEN "consumed" ELSE row[<<b, q>>]
  BY DEF RoundsIInv, RoundsTypeOK, StoreOK, Slot
<1>2. ASSUME NEW b \in Agent, NEW q \in Round
      PROVE  (part[<<b, q>>])' = "waiting" => part[<<b, q>>] = "waiting" /\ (b # a \/ q # r)
  <2>1. part \in [Slot -> {"out", "waiting"} \cup Terminal]
    BY DEF RoundsIInv, RoundsTypeOK, StoreOK
  <2>2. CASE part[<<a, r>>] # "waiting" /\ part' = part
    BY <2>2
  <2>3. ASSUME NEW o \in Terminal, part' = [part EXCEPT ![<<a, r>>] = o]
        PROVE  (part[<<b, q>>])' = "waiting" => part[<<b, q>>] = "waiting" /\ (b # a \/ q # r)
    BY <2>1, <2>3 DEF Slot, Terminal
  <2> QED
    BY <2>2, <2>3
<1>3. Quiet \/ Answered(a, r)
  BY <1>1 DEF Quiet, Answered
<1>4. OwedRowsAreKept'
  BY <1>1, <1>2 DEF RoundsIInv, OwedRowsAreKept
<1> QED
  BY <1>3, <1>4

LEMMA StartTurnKeeps ==
  ASSUME RoundsIInv, NEW a \in Agent, NEW r \in Round, StartTurn(a, r)
  PROVE  Quiet /\ OwedRowsAreKept' /\ HasRows(row, todo')
<1>1. Quiet
  BY DEF Quiet, StartTurn, round_, count, RoundsIInv, RoundsTypeOK, StoreOK,
     PartsFollowRounds, Slot
<1>2. OwedRowsAreKept'
  BY DEF OwedRowsAreKept, StartTurn, round_, count, RoundsIInv, RoundsTypeOK, StoreOK,
     PartsFollowRounds, Slot, Terminal
<1>3. HasRows(row, todo')
  BY DEF StartTurn, RoundsIInv
<1> QED
  BY <1>3, <1>1, <1>2

LEMMA StartBrakedKeeps ==
  ASSUME RoundsIInv, NEW a \in Agent, NEW r \in Round, StartBraked(a, r)
  PROVE  Quiet /\ OwedRowsAreKept' /\ HasRows(row, todo')
<1>1. Quiet
  BY DEF Quiet, StartBraked, round_, RoundsIInv, RoundsTypeOK, StoreOK,
     PartsFollowRounds, Slot
<1>2. OwedRowsAreKept'
  BY DEF OwedRowsAreKept, StartBraked, round_, RoundsIInv, RoundsTypeOK, StoreOK,
     PartsFollowRounds, Slot, Terminal
<1>3. HasRows(row, todo')
  BY DEF StartBraked, RoundsIInv
<1> QED
  BY <1>3, <1>1, <1>2

LEMMA FinishTurnKeeps ==
  ASSUME RoundsIInv, NEW a \in Agent, NEW r \in Round,
         NEW o \in {"completed", "failed", "interrupted"},
         NEW M \in SUBSET (Agent \cup {Stale}), FinishTurn(a, r, o, M)
  PROVE  (Quiet \/ Answered(a, r)) /\ OwedRowsAreKept' /\ HasRows(row, todo')
<1>1. /\ row[<<a, r>>] # "absent" /\ part[<<a, r>>] \notin Terminal
      /\ row' = [row EXCEPT ![<<a, r>>] = "consumed"]
      /\ part' = [part EXCEPT ![<<a, r>>] = o]
      /\ UNCHANGED <<group, round, purged, taken>>
  BY DEF FinishTurn, Ending, WorkIsSettled
<1>2. part[<<a, r>>] = "waiting"
  BY <1>1 DEF RoundsIInv, RoundsTypeOK, StoreOK, PartsFollowRounds, Slot
<1>3. o \in Terminal
  BY DEF Terminal
<1>4. HasRows(row, todo')
  BY OtherCallsHaveRows DEF FinishTurn
<1> QED
  BY <1>4, <1>1, <1>2, <1>3, RowAnswers

LEMMA RepairTurnKeeps ==
  ASSUME RoundsIInv, NEW a \in Agent, NEW r \in Round, RepairTurn(a, r)
  PROVE  Quiet /\ OwedRowsAreKept' /\ HasRows(row, todo')
<1>1. HasRows(row, todo')
  BY DEF RepairTurn, RoundsIInv
<1>2. /\ row[<<a, r>>] # "absent" /\ row' = [row EXCEPT ![<<a, r>>] = RepairedRow(a, r)]
      /\ UNCHANGED <<group, round, part, purged, taken>>
  BY DEF RepairTurn, Ending, round_
<1>3. CASE WorkIsSettled(a, r)
  <2>1. part[<<a, r>>] # "waiting"
    BY <1>3 DEF RoundsIInv, PartsFollowRounds, WorkIsSettled, Terminal
  <2>2. RepairedRow(a, r) = "consumed"
    BY <1>3 DEF RepairedRow
  <2>3. (Quiet \/ Answered(a, r)) /\ OwedRowsAreKept'
    BY <1>2, <2>1, <2>2, RowAnswers
  <2> QED
    BY <1>1, <2>1, <2>3 DEF Answered
<1>4. CASE ~WorkIsSettled(a, r)
  <2>1. RepairedRow(a, r) = "held"
    BY <1>4 DEF RepairedRow
  <2> QED
    BY <1>1, <1>2, <2>1, RowMoves
<1> QED
  BY <1>3, <1>4

LEMMA LifecycleRequeuesKeeps ==
  ASSUME RoundsIInv, NEW a \in Agent, NEW r \in Round, LifecycleRequeues(a, r)
  PROVE  Quiet /\ OwedRowsAreKept' /\ HasRows(row, todo')
<1>1. /\ row[<<a, r>>] # "absent" /\ row' = [row EXCEPT ![<<a, r>>] = "queued"]
      /\ UNCHANGED <<group, round, part, purged, taken>>
  BY DEF LifecycleRequeues, Ending, round_
<1>2. HasRows(row, todo')
  BY DEF LifecycleRequeues, RoundsIInv
<1> QED
  BY <1>2, <1>1, RowMoves

LEMMA LifecycleSettlesKeeps ==
  ASSUME RoundsIInv, NEW a \in Agent, NEW r \in Round, LifecycleSettles(a, r)
  PROVE  (Quiet \/ Answered(a, r)) /\ OwedRowsAreKept' /\ HasRows(row, todo')
<1>1. /\ row[<<a, r>>] # "absent" /\ row' = [row EXCEPT ![<<a, r>>] = "consumed"]
      /\ UNCHANGED <<group, round, purged, taken>>
  BY DEF LifecycleSettles, Ending
<1>2. \/ part[<<a, r>>] # "waiting" /\ part' = part
      \/ part[<<a, r>>] = "waiting" /\ part' = [part EXCEPT ![<<a, r>>] = "interrupted"]
  BY DEF LifecycleSettles
<1>3. "interrupted" \in Terminal
  BY DEF Terminal
<1>4. HasRows(row, todo')
  BY OtherCallsHaveRows DEF LifecycleSettles
<1> QED
  BY <1>4, <1>1, <1>2, <1>3, RowAnswers

LEMMA BootHoldsKeeps ==
  ASSUME RoundsIInv, NEW a \in Agent, NEW r \in Round, BootHolds(a, r)
  PROVE  Quiet /\ OwedRowsAreKept' /\ HasRows(row, todo')
<1>1. Quiet
  BY DEF Quiet, BootHolds, round_, count, RoundsIInv, RoundsTypeOK, StoreOK,
     PartsFollowRounds, Slot
<1>2. OwedRowsAreKept'
  BY DEF OwedRowsAreKept, BootHolds, round_, count, RoundsIInv, RoundsTypeOK, StoreOK,
     PartsFollowRounds, Slot, Terminal
<1>3. HasRows(row, todo')
  BY DEF BootHolds, RoundsIInv
<1> QED
  BY <1>3, <1>1, <1>2

LEMMA ReconcileParticipantKeeps ==
  ASSUME RoundsIInv, NEW a \in Agent, NEW r \in Round, ReconcileParticipant(a, r)
  PROVE  (Quiet \/ Answered(a, r)) /\ OwedRowsAreKept' /\ HasRows(row, todo')
<1>1. /\ part[<<a, r>>] = "waiting" /\ row' = [row EXCEPT ![<<a, r>>] = "consumed"]
      /\ UNCHANGED <<group, round, purged, taken>>
  BY DEF ReconcileParticipant, Recoverable, Skips
<1>2. \E o \in Terminal : part' = [part EXCEPT ![<<a, r>>] = o]
  BY DEF ReconcileParticipant, Recoverable, Terminal
<1>3. row[<<a, r>>] # "absent"
  BY <1>1 DEF RoundsIInv, PartsFollowRounds
<1>4. HasRows(row, todo')
  BY DEF ReconcileParticipant, RoundsIInv
<1> QED
  BY <1>4, <1>1, <1>2, <1>3, RowAnswers

LEMMA releaseHoldKeeps ==
  ASSUME RoundsIInv, NEW a \in Agent, NEW r \in Round, releaseHold(a, r)
  PROVE  (Quiet \/ Answered(a, r)) /\ OwedRowsAreKept' /\ HasRows(row, todo')
<1>1. HasRows(row, todo')
  BY OtherCallsHaveRows DEF releaseHold, RoundsIInv
<1>2. /\ row[<<a, r>>] # "absent"
      /\ UNCHANGED <<group, round, purged, taken>>
  BY DEF releaseHold
<1>3. CASE member[a] = "removed"
  <2>1. row' = [row EXCEPT ![<<a, r>>] = "consumed"]
    BY <1>3 DEF releaseHold
  <2>2. \/ part[<<a, r>>] # "waiting" /\ part' = part
        \/ part[<<a, r>>] = "waiting" /\ \E o \in Terminal : part' = [part EXCEPT ![<<a, r>>] = o]
    BY <1>3 DEF releaseHold, Terminal
  <2> QED
    BY <1>1, <1>2, <2>1, <2>2, RowAnswers
<1>4. CASE member[a] # "removed"
  <2>1. part' = part /\ \E v \in {"queued", "delivering"} : row' = [row EXCEPT ![<<a, r>>] = v]
    BY <1>4 DEF releaseHold
  <2> QED
    BY <1>1, <1>2, <2>1, RowMoves
<1> QED
  BY <1>3, <1>4

LEMMA redeliverRowKeeps ==
  ASSUME RoundsIInv, NEW a \in Agent, NEW r \in Round, redeliverRow(a, r)
  PROVE  Quiet /\ OwedRowsAreKept' /\ HasRows(row, todo')
<1>1. Quiet
  BY DEF Quiet, redeliverRow, RoundsAct, round_, RoundsIInv, RoundsTypeOK, StoreOK,
     PartsFollowRounds, Slot
<1>2. OwedRowsAreKept'
  BY DEF OwedRowsAreKept, redeliverRow, RoundsAct, round_, RoundsIInv, RoundsTypeOK,
     StoreOK, PartsFollowRounds, Slot, Terminal
<1>3. HasRows(row, todo')
  BY DEF redeliverRow, RoundsIInv
<1> QED
  BY <1>3, <1>1, <1>2

LEMMA consumeOwnRowKeeps ==
  ASSUME RoundsIInv, NEW a \in Agent, NEW r \in Round, consumeOwnRow(a, r)
  PROVE  Quiet /\ OwedRowsAreKept' /\ HasRows(row, todo')
<1>1. Quiet
  BY DEF Quiet, consumeOwnRow, RoundsAct, round_, RoundsIInv, RoundsTypeOK, StoreOK,
     PartsFollowRounds, Slot
<1>2. OwedRowsAreKept'
  BY DEF OwedRowsAreKept, consumeOwnRow, RoundsAct, round_, RoundsIInv, RoundsTypeOK,
     StoreOK, PartsFollowRounds, Slot, Terminal
<1>3. HasRows(row, todo')
  BY DEF consumeOwnRow, RoundsIInv
<1> QED
  BY <1>3, <1>1, <1>2

LEMMA killMemberKeeps ==
  ASSUME RoundsIInv, NEW a \in Agent, killMember(a)
  PROVE  Quiet /\ OwedRowsAreKept' /\ HasRows(row, todo')
<1>1. Quiet
  BY DEF Quiet, killMember, RoundsAct, round_, rows, RoundsIInv, RoundsTypeOK, StoreOK,
     PartsFollowRounds, Slot
<1>2. OwedRowsAreKept'
  BY DEF OwedRowsAreKept, killMember, RoundsAct, round_, rows, RoundsIInv, RoundsTypeOK,
     StoreOK, PartsFollowRounds, Slot, Terminal
<1>3. HasRows(row, todo')
  BY OtherCallsHaveRows DEF killMember, Unstarted
<1> QED
  BY <1>3, <1>1, <1>2

LEMMA OtherTurnFailsKeeps ==
  ASSUME RoundsIInv, NEW a \in Agent, OtherTurnFails(a)
  PROVE  Quiet /\ OwedRowsAreKept' /\ HasRows(row, todo')
<1>1. Quiet
  BY DEF Quiet, OtherTurnFails, RoundsAct, round_, rows, RoundsIInv, RoundsTypeOK,
     StoreOK, PartsFollowRounds, Slot
<1>2. OwedRowsAreKept'
  BY DEF OwedRowsAreKept, OtherTurnFails, RoundsAct, round_, rows, RoundsIInv,
     RoundsTypeOK, StoreOK, PartsFollowRounds, Slot, Terminal
<1>3. HasRows(row, todo')
  BY DEF OtherTurnFails, RoundsIInv
<1> QED
  BY <1>3, <1>1, <1>2

LEMMA reviveMemberKeeps ==
  ASSUME RoundsIInv, NEW a \in Agent, reviveMember(a)
  PROVE  Quiet /\ OwedRowsAreKept' /\ HasRows(row, todo')
<1>1. Quiet
  BY DEF Quiet, reviveMember, RoundsAct, round_, rows, RoundsIInv, RoundsTypeOK, StoreOK,
     PartsFollowRounds, Slot
<1>2. OwedRowsAreKept'
  BY DEF OwedRowsAreKept, reviveMember, RoundsAct, round_, rows, RoundsIInv,
     RoundsTypeOK, StoreOK, PartsFollowRounds, Slot, Terminal
<1>3. HasRows(row, todo')
  BY DEF reviveMember, RoundsIInv
<1> QED
  BY <1>3, <1>1, <1>2

LEMMA endWaitKeeps ==
  ASSUME RoundsIInv, NEW a \in Agent, endWait(a)
  PROVE  Quiet /\ OwedRowsAreKept' /\ HasRows(row, todo')
<1>1. Quiet
  BY DEF Quiet, endWait, round_, rows, count, RoundsIInv, RoundsTypeOK, StoreOK,
     PartsFollowRounds, Slot
<1>2. OwedRowsAreKept'
  BY DEF OwedRowsAreKept, endWait, round_, rows, count, RoundsIInv, RoundsTypeOK,
     StoreOK, PartsFollowRounds, Slot, Terminal
<1>3. HasRows(row, todo')
  BY DEF endWait, RoundsIInv
<1> QED
  BY <1>3, <1>1, <1>2

LEMMA beginWaitKeeps ==
  ASSUME RoundsIInv, NEW a \in Agent, NEW P \in SUBSET Agent, beginWait(a, P)
  PROVE  Quiet /\ OwedRowsAreKept' /\ HasRows(row, todo')
<1>1. Quiet
  BY DEF Quiet, beginWait, round_, rows, RoundsIInv, RoundsTypeOK, StoreOK,
     PartsFollowRounds, Slot
<1>2. OwedRowsAreKept'
  BY DEF OwedRowsAreKept, beginWait, round_, rows, RoundsIInv, RoundsTypeOK, StoreOK,
     PartsFollowRounds, Slot, Terminal
<1>3. HasRows(row, todo')
  BY DEF beginWait, RoundsIInv
<1> QED
  BY <1>3, <1>1, <1>2

LEMMA AdvancePendingKeeps ==
  ASSUME RoundsIInv, NEW r \in Round, AdvancePending(r)
  PROVE  Quiet /\ OwedRowsAreKept' /\ HasRows(row, todo')
<1>1. Quiet
  BY DEF Quiet, AdvancePending, round_, rows, count, RoundsIInv, RoundsTypeOK, StoreOK,
     PartsFollowRounds, Slot
<1>2. OwedRowsAreKept'
  BY DEF OwedRowsAreKept, AdvancePending, round_, rows, count, RoundsIInv, RoundsTypeOK,
     StoreOK, PartsFollowRounds, Slot, Terminal
<1>3. HasRows(row, todo')
  BY AfterHasRows DEF AdvancePending, Calling, RoundsIInv, RoundsTypeOK, ProcessOK
<1> QED
  BY <1>3, <1>1, <1>2

LEMMA SkipCallKeeps ==
  ASSUME RoundsIInv, NEW a \in Agent, NEW r \in Round, SkipCall(a, r)
  PROVE  (Quiet \/ Answered(a, r)) /\ OwedRowsAreKept' /\ HasRows(row, todo')
<1>1. HasRows(row, todo')
  <2>1. todo \in Seq(Call) /\ todo # <<>> /\ todo' = SkipTail(r) \o AfterAgent(a, r)
    BY DEF SkipCall, Calling, RoundsIInv, RoundsTypeOK, ProcessOK
  <2>2. HasRows(row, AfterAgent(a, r)) /\ AfterAgent(a, r) \in Seq(Call)
    BY <2>1, AfterHasRows, AfterTyped DEF RoundsIInv
  <2>3. HasRows(row, SkipTail(r)) /\ SkipTail(r) \in Seq(Call)
    BY OtherCallsHaveRows, CallsTyped DEF SkipTail
  <2> QED
    BY <2>1, <2>2, <2>3, BothHaveRows
<1>2. UNCHANGED <<group, round, purged, taken>>
  BY DEF SkipCall
<1>3. CASE Skippable(a, r)
  <2>1. /\ part[<<a, r>>] = "waiting" /\ part' = [part EXCEPT ![<<a, r>>] = "skipped"]
        /\ row[<<a, r>>] # "absent" /\ row' = [row EXCEPT ![<<a, r>>] = "consumed"]
    BY <1>3 DEF SkipCall, Skippable
  <2>2. "skipped" \in Terminal
    BY DEF Terminal
  <2> QED
    BY <1>1, <1>2, <2>1, <2>2, RowAnswers
<1>4. CASE ~Skippable(a, r)
  <2>1. UNCHANGED <<part, row>>
    BY <1>4 DEF SkipCall
  <2> QED
    BY <1>1, <1>2, <2>1 DEF Quiet, RoundsIInv, OwedRowsAreKept
<1> QED
  BY <1>3, <1>4

LEMMA DispatchCallKeeps ==
  ASSUME RoundsIInv, NEW a \in Agent, NEW r \in Round, DispatchCall(a, r)
  PROVE  Quiet /\ OwedRowsAreKept' /\ HasRows(row, todo')
<1>1. HasRows(row, todo')
  <2>1. /\ todo \in Seq(Call) /\ todo # <<>>
        /\ \/ todo' = Calls("skip", {r}, {a}) \o AfterAgent(a, r)
           \/ todo' = AfterAgent(a, r)
    BY DEF DispatchCall, Calling, RoundsIInv, RoundsTypeOK, ProcessOK
  <2>2. HasRows(row, AfterAgent(a, r)) /\ AfterAgent(a, r) \in Seq(Call)
    BY <2>1, AfterHasRows, AfterTyped DEF RoundsIInv
  <2>3. HasRows(row, Calls("skip", {r}, {a})) /\ Calls("skip", {r}, {a}) \in Seq(Call)
    BY OtherCallsHaveRows, CallsTyped
  <2>4. HasRows(row, Calls("skip", {r}, {a}) \o AfterAgent(a, r))
    BY <2>2, <2>3, BothHaveRows
  <2> QED
    BY <2>1, <2>2, <2>4
<1>2. UNCHANGED <<group, round, part, purged, taken>>
  BY DEF DispatchCall, round_
<1>3. row' = row \/ row' = [row EXCEPT ![<<a, r>>] = "held"]
  BY DEF DispatchCall
<1>4. row[<<a, r>>] # "absent"
  <2>1. todo \in Seq(Call) /\ todo # <<>> /\ HasRows(row, todo)
    BY DEF DispatchCall, Calling, RoundsIInv, RoundsTypeOK, ProcessOK
  <2>2. Head(todo).op = "dispatch" /\ r \in Head(todo).rs /\ a \in Head(todo).who
    BY DEF DispatchCall, Calling, Head1
  <2> QED
    BY <2>1, <2>2, TailHasRows
<1>5. CASE row' = row
  BY <1>1, <1>2, <1>5 DEF Quiet, RoundsIInv, OwedRowsAreKept
<1>6. CASE row' = [row EXCEPT ![<<a, r>>] = "held"]
  BY <1>1, <1>2, <1>4, <1>6, RowMoves
<1> QED
  BY <1>3, <1>5, <1>6

LEMMA deleteRootKeeps ==
  ASSUME RoundsIInv, deleteRoot
  PROVE  Quiet /\ OwedRowsAreKept' /\ HasRows(row, todo')
<1>1. Quiet
  BY DEF Quiet, deleteRoot, RoundsAct, round_, RoundsIInv, RoundsTypeOK, StoreOK,
     PartsFollowRounds, Slot
<1>2. OwedRowsAreKept'
  BY DEF OwedRowsAreKept, deleteRoot, RoundsAct, round_, RoundsIInv, RoundsTypeOK,
     StoreOK, PartsFollowRounds, Slot, Terminal
<1>3. HasRows(row, todo')
  BY DEF deleteRoot, RoundsIInv
<1> QED
  BY <1>3, <1>1, <1>2

LEMMA CloseDaemonKeeps ==
  ASSUME RoundsIInv, CloseDaemon
  PROVE  Quiet /\ OwedRowsAreKept' /\ HasRows(row, todo')
<1>1. Quiet
  BY DEF Quiet, CloseDaemon, round_, rows, RoundsIInv, RoundsTypeOK, StoreOK,
     PartsFollowRounds, Slot
<1>2. OwedRowsAreKept'
  BY DEF OwedRowsAreKept, CloseDaemon, round_, rows, RoundsIInv, RoundsTypeOK, StoreOK,
     PartsFollowRounds, Slot, Terminal
<1>3. HasRows(row, todo')
  BY DEF CloseDaemon, RoundsIInv
<1> QED
  BY <1>3, <1>1, <1>2

LEMMA RestartKeeps ==
  ASSUME RoundsIInv, Restart
  PROVE  Quiet /\ OwedRowsAreKept' /\ HasRows(row, todo')
<1>1. Quiet
  BY DEF Quiet, Restart, round_, rows, count, RoundsIInv, RoundsTypeOK, StoreOK,
     PartsFollowRounds, Slot
<1>2. OwedRowsAreKept'
  BY DEF OwedRowsAreKept, Restart, round_, rows, count, RoundsIInv, RoundsTypeOK,
     StoreOK, PartsFollowRounds, Slot, Terminal
<1>3. HasRows(row, todo')
  BY DEF Restart, RoundsIInv
<1> QED
  BY <1>3, <1>1, <1>2

LEMMA CrashDaemonKeeps ==
  ASSUME RoundsIInv, CrashDaemon
  PROVE  Quiet /\ OwedRowsAreKept' /\ HasRows(row, todo')
<1>1. Quiet
  BY DEF Quiet, CrashDaemon, round_, rows, RoundsIInv, RoundsTypeOK, StoreOK,
     PartsFollowRounds, Slot
<1>2. OwedRowsAreKept'
  BY DEF OwedRowsAreKept, CrashDaemon, round_, rows, RoundsIInv, RoundsTypeOK, StoreOK,
     PartsFollowRounds, Slot, Terminal
<1>3. HasRows(row, todo')
  BY DEF CrashDaemon, HasRows
<1> QED
  BY <1>3, <1>1, <1>2

LEMMA BootReconciledKeeps ==
  ASSUME RoundsIInv, BootReconciled
  PROVE  Quiet /\ OwedRowsAreKept' /\ HasRows(row, todo')
<1>1. Quiet
  BY DEF Quiet, BootReconciled, round_, rows, count, RoundsIInv, RoundsTypeOK, StoreOK,
     PartsFollowRounds, Slot
<1>2. OwedRowsAreKept'
  BY DEF OwedRowsAreKept, BootReconciled, round_, rows, count, RoundsIInv, RoundsTypeOK,
     StoreOK, PartsFollowRounds, Slot, Terminal
<1>3. HasRows(row, todo')
  BY DEF BootReconciled, RoundsIInv
<1> QED
  BY <1>3, <1>1, <1>2

LEMMA ReconcileRoundKeeps ==
  ASSUME RoundsIInv, ReconcileRound
  PROVE  Quiet /\ OwedRowsAreKept' /\ HasRows(row, todo')
<1>1. Quiet
  BY DEF Quiet, ReconcileRound, round_, rows, count, Collecting, Recoverable, Skips,
     RoundsIInv, RoundsTypeOK, StoreOK, PartsFollowRounds, Slot
<1>2. OwedRowsAreKept'
  BY DEF OwedRowsAreKept, ReconcileRound, round_, rows, count, Collecting, Recoverable,
     Skips, RoundsIInv, RoundsTypeOK, StoreOK, PartsFollowRounds, Slot, Terminal
<1>3. HasRows(row, todo')
  BY OtherCallsHaveRows DEF ReconcileRound
<1> QED
  BY <1>3, <1>1, <1>2

LEMMA removeMemberKeeps ==
  ASSUME RoundsIInv, NEW a \in Agent, removeMember(a)
  PROVE  /\ Quiet \/ \E r \in Round : Answered(a, r)
         /\ OwedRowsAreKept' /\ HasRows(row, todo')
<1>1. ASSUME NEW b \in Agent, NEW q \in Round
      PROVE  /\ (row[<<b, q>>])' = IF b = a /\ q \in Started(a) THEN "consumed" ELSE row[<<b, q>>]
             /\ (part[<<b, q>>])' = IF b = a /\ q \in Started(a) /\ part[<<b, q>>] = "waiting"
                                    THEN "interrupted" ELSE part[<<b, q>>]
  BY DEF removeMember, Slot
<1>2. UNCHANGED <<group, round, purged, taken>> /\ part \in [Slot -> {"out", "waiting"} \cup Terminal]
  BY DEF removeMember, RoundsIInv, RoundsTypeOK, StoreOK
<1>3. Started(a) \in SUBSET Round /\ \A q \in Started(a) : row[<<a, q>>] # "absent"
  BY DEF Started
<1>4. OwedRowsAreKept'
  BY <1>1, <1>2 DEF RoundsIInv, OwedRowsAreKept
<1>5. HasRows(row, todo')
  <2>1. /\ HasRows(row, Calls("settle", Started(a), {})) /\ Calls("settle", Started(a), {}) \in Seq(Call)
        /\ HasRows(row, Calls("skip", Unstarted(a), {a})) /\ Calls("skip", Unstarted(a), {a}) \in Seq(Call)
    BY <1>3, OtherCallsHaveRows, CallsTyped DEF Unstarted
  <2> QED
    BY <2>1, BothHaveRows DEF removeMember
<1>6. \A b \in Agent, q \in Round : (row[<<b, q>>])' = "absent" <=> row[<<b, q>>] = "absent"
  BY <1>1, <1>3
<1>7. part' = [s \in Slot |-> IF s \in {a} \X Started(a) /\ part[s] = "waiting"
                              THEN "interrupted" ELSE part[s]]
  BY DEF removeMember
<1>8. CASE \A q \in Started(a) : part[<<a, q>>] # "waiting"
  <2>1. part' = part
    BY <1>2, <1>7, <1>8
  <2> QED
    BY <1>2, <1>4, <1>5, <1>6, <2>1 DEF Quiet
<1>9. ASSUME NEW r \in Started(a), part[<<a, r>>] = "waiting"
      PROVE  Answered(a, r)
  <2>1. \A q \in Round : part[<<a, q>>] = "waiting" => q = r
    BY <1>3, <1>9 DEF RoundsIInv, PartsFollowRounds, OneRoundAtATime, Collecting, Round
  <2>2. \A s \in Slot : s \in {a} \X Started(a) /\ part[s] = "waiting" <=> s = <<a, r>>
    BY <1>3, <1>9, <2>1 DEF Slot
  <2>3. part' = [part EXCEPT ![<<a, r>>] = "interrupted"]
    BY <1>2, <1>7, <2>2
  <2>4. "interrupted" \in Terminal
    BY DEF Terminal
  <2> QED
    BY <1>2, <1>6, <1>9, <2>3, <2>4 DEF Answered
<1> QED
  BY <1>3, <1>4, <1>5, <1>8, <1>9

-----------------------------------------------------------------------------
(* The barrier                                                              *)

\* The round that is latest is the one Current names.
LEMMA LatestRound ==
  ASSUME NEW f, NEW r \in Round, f[r] # "none", \A q \in Round : q > r => f[q] = "none"
  PROVE  Max({q \in Round : f[q] # "none"}) = r
<1> DEFINE T == {q \in Round : f[q] # "none"}
<1>1. r \in T /\ T \subseteq Nat /\ \A q \in T : r >= q
  BY RoundsAssumption DEF Round
<1>2. \A x \in T : (\A y \in T : x >= y) => x = r
  BY <1>1
<1> HIDE DEF T
<1>3. Max(T) = r
  BY <1>1, <1>2 DEF Max
<1> QED
  BY <1>3 DEF T

LEMMA CurrentIsCollecting ==
  ASSUME RoundsIInv, NEW r \in Round, Collecting(r)
  PROVE  group = "open" /\ Current = r
<1>1. group = "open" /\ round[r] # "none" /\ \A q \in Round : q > r => round[q] = "none"
  BY DEF RoundsIInv, OneRoundAtATime, Collecting
<1> QED
  BY <1>1, LatestRound DEF Current

LEMMA QuietStutters ==
  ASSUME Quiet
  PROVE  UNCHANGED B!barrierVars
BY DEF Quiet, B!barrierVars, Current

LEMMA AnsweredArrives ==
  ASSUME RoundsIInv, NEW a \in Agent, NEW r \in Round, Answered(a, r)
  PROVE  B!Arrive
<1>1. Collecting(r)
  BY DEF Answered, RoundsIInv, PartsFollowRounds
<1>2. group = "open" /\ Current = r
  BY <1>1, CurrentIsCollecting
<1>3. group' = "open" /\ Current' = r /\ r # 0
  BY <1>2, RoundsAssumption DEF Answered, Current, Round
<1>4. PICK o \in Terminal : part' = [part EXCEPT ![<<a, r>>] = o]
  BY DEF Answered
<1>5. [b \in Agent |-> (part[<<b, r>>])'] = [[b \in Agent |-> part[<<b, r>>]] EXCEPT ![a] = o]
  BY <1>4 DEF RoundsIInv, RoundsTypeOK, StoreOK, Slot
<1>6. part[<<a, r>>] = "waiting"
  BY DEF Answered
<1> QED
  BY <1>2, <1>3, <1>4, <1>5, <1>6 DEF B!Arrive

-----------------------------------------------------------------------------
(* The steps that open a round or end the group                             *)

\* What a step must keep besides the types.
Kept == OneRoundAtATime /\ PartsFollowRounds /\ OwedRowsAreKept /\ HasRows(row, todo)

\* materializeCollaborationRound: the members of the round wait, each with a row.
LEMMA MaterializedRound ==
  ASSUME RoundsTypeOK, NEW r \in Round, NEW S \in SUBSET Agent, Materialized(S, r)
  PROVE  \A b \in Agent, q \in Round :
           /\ (part[<<b, q>>])' = IF b \in S /\ q = r THEN "waiting" ELSE part[<<b, q>>]
           /\ (row[<<b, q>>])' = IF b \in S /\ q = r THEN "queued" ELSE row[<<b, q>>]
BY DEF Materialized, Slot

LEMMA createCollaborationGroupKeeps ==
  ASSUME RoundsIInv, createCollaborationGroup
  PROVE  Kept' /\ B!Open
<1>1. PICK S \in SUBSET Agent : /\ Cardinality(S) >= 2 /\ Materialized(S, 1)
                               /\ todo' = Calls("dispatch", {1}, S)
  BY DEF createCollaborationGroup
<1>2. /\ group = "none" /\ group' = "open" /\ round' = [round EXCEPT ![1] = "collecting"]
      /\ round \in [Round -> {"none", "collecting", "released", "closed"}]
      /\ UNCHANGED <<purged, taken>>
  BY DEF createCollaborationGroup, RoundsIInv, RoundsTypeOK, StoreOK
<1>3. 1 \in Round /\ \A q \in Round : round[q] = "none" /\ q >= 1
  BY <1>2, RoundsAssumption DEF RoundsIInv, OneRoundAtATime, Round
<1>4. \A q \in Round : (round[q])' = IF q = 1 THEN "collecting" ELSE "none"
  BY <1>2, <1>3
<1>5. S # {}
  BY <1>1, FS_EmptySet
<1>6. \A b \in Agent, q \in Round :
           /\ (part[<<b, q>>])' = IF b \in S /\ q = 1 THEN "waiting" ELSE "out"
           /\ (row[<<b, q>>])' = IF b \in S /\ q = 1 THEN "queued" ELSE "absent"
  <2>1. \A b \in Agent, q \in Round : part[<<b, q>>] = "out" /\ row[<<b, q>>] = "absent"
    BY <1>3 DEF RoundsIInv, PartsFollowRounds
  <2>2. \A b \in Agent, q \in Round :
           /\ (part[<<b, q>>])' = IF b \in S /\ q = 1 THEN "waiting" ELSE part[<<b, q>>]
           /\ (row[<<b, q>>])' = IF b \in S /\ q = 1 THEN "queued" ELSE row[<<b, q>>]
    BY <1>1, <1>3, MaterializedRound DEF RoundsIInv
  <2>3. ASSUME NEW b \in Agent, NEW q \in Round
        PROVE  /\ (part[<<b, q>>])' = IF b \in S /\ q = 1 THEN "waiting" ELSE "out"
               /\ (row[<<b, q>>])' = IF b \in S /\ q = 1 THEN "queued" ELSE "absent"
    BY <2>1, <2>2
  <2> QED
    BY <2>3
<1>7. OneRoundAtATime'
  BY <1>2, <1>3, <1>4 DEF OneRoundAtATime, Collecting
<1>8. PartsFollowRounds'
  BY <1>4, <1>6, ZenonT(40) DEF PartsFollowRounds, Collecting
<1>9. OwedRowsAreKept'
  BY <1>6 DEF OwedRowsAreKept
<1>10. HasRows(row', todo')
  BY <1>1, <1>3, <1>6, CallsHaveRows
<1>11. B!Open
  <2>1. Current = 0
    BY <1>2 DEF Current
  <2>2. Current' = 1
    <3>1. /\ (round[1])' # "none" /\ \A q \in Round : q > 1 => (round[q])' = "none"
          /\ group' # "none"
      BY <1>2, <1>3, <1>4
    <3> QED
      BY <1>3, <3>1, LatestRound DEF Current
  <2>3. [b \in Agent |-> (part[<<b, 1>>])'] = [b \in Agent |-> IF b \in S THEN "waiting" ELSE "out"]
    BY <1>3, <1>6
  <2> QED
    BY <1>2, <1>5, <2>1, <2>2, <2>3 DEF B!Open, B!Gathering
<1> QED
  BY <1>7, <1>8, <1>9, <1>10, <1>11 DEF Kept

LEMMA AdvanceClosesKeeps ==
  ASSUME RoundsIInv, NEW r \in Round, AdvanceCloses(r)
  PROVE  Kept' /\ B!End
<1>1. /\ Collecting(r) /\ AllTerminal(r)
      /\ group' = "completed" /\ round' = [round EXCEPT ![r] = "closed"]
      /\ round \in [Round -> {"none", "collecting", "released", "closed"}]
      /\ todo \in Seq(Call) /\ todo # <<>>
      /\ todo' = AfterRound(r) /\ UNCHANGED <<part, row, purged, taken>>
  BY DEF AdvanceCloses, MayRelease, Calling, rows, RoundsIInv, RoundsTypeOK, StoreOK,
     ProcessOK
<1>2. group = "open" /\ Current = r
  BY <1>1, CurrentIsCollecting
<1>3. \A q \in Round : q # r => ~Collecting(q)
  BY <1>1 DEF RoundsIInv, OneRoundAtATime, Collecting, Round
<1>4. \A a \in Agent, q \in Round : part[<<a, q>>] # "waiting"
  BY <1>1, <1>3 DEF AllTerminal, Participants, Terminal, RoundsIInv, PartsFollowRounds
<1>5. \A q \in Round : (round[q])' = IF q = r THEN "closed" ELSE round[q]
  BY <1>1
<1>6. OneRoundAtATime'
  BY <1>1, <1>3, <1>5 DEF OneRoundAtATime, Collecting
<1>7. PartsFollowRounds'
  BY <1>1, <1>4, <1>5 DEF RoundsIInv, PartsFollowRounds, Collecting
<1>8. OwedRowsAreKept'
  BY <1>1, <1>4 DEF OwedRowsAreKept
<1>9. HasRows(row, todo)'
  BY <1>1, AfterHasRows DEF RoundsIInv
<1>10. B!End
  <2>1. Current' = r
    <3>1. /\ (round[r])' # "none" /\ \A q \in Round : q > r => (round[q])' = "none"
          /\ group' # "none"
      BY <1>1, <1>5 DEF RoundsIInv, OneRoundAtATime
    <3> QED
      BY <3>1, LatestRound DEF Current
  <2>2. r # 0 /\ \A a \in Agent : part[<<a, r>>] # "waiting"
    BY <1>4, RoundsAssumption DEF Round
  <2> QED
    BY <1>1, <1>2, <2>1, <2>2 DEF B!End, B!NobodyWaits
<1> QED
  BY <1>6, <1>7, <1>8, <1>9, <1>10 DEF Kept

LEMMA AdvanceReleasesKeeps ==
  ASSUME RoundsIInv, NEW r \in Round, AdvanceReleases(r)
  PROVE  Kept' /\ B!Turn
<1> DEFINE S == NextMembers(r)
<1>1. /\ Collecting(r) /\ AllTerminal(r) /\ r + 1 \in Round
      /\ S \in (SUBSET Agent) \ {{}} /\ Materialized(S, r + 1)
      /\ round' = [round EXCEPT ![r] = "released", ![r + 1] = "collecting"]
      /\ round \in [Round -> {"none", "collecting", "released", "closed"}]
      /\ todo \in Seq(Call) /\ todo # <<>>
      /\ todo' = Calls("dispatch", {r + 1}, S) \o AfterRound(r)
      /\ UNCHANGED <<group, purged, taken>>
  <2>1. /\ Collecting(r) /\ AllTerminal(r) /\ r < MaxRound
        /\ S # {} /\ Materialized(S, r + 1)
        /\ round' = [round EXCEPT ![r] = "released", ![r + 1] = "collecting"]
        /\ todo # <<>> /\ todo' = Calls("dispatch", {r + 1}, S) \o AfterRound(r)
        /\ UNCHANGED <<group, purged, taken>>
    BY DEF AdvanceReleases, MayRelease, Calling
  <2>2. S \in SUBSET Agent
    BY DEF NextMembers
  <2>3. r + 1 \in Round
    BY <2>1, RoundsAssumption DEF Round
  <2>4. round \in [Round -> {"none", "collecting", "released", "closed"}] /\ todo \in Seq(Call)
    BY DEF RoundsIInv, RoundsTypeOK, StoreOK, ProcessOK
  <2> QED
    BY <2>1, <2>2, <2>3, <2>4
<1> HIDE DEF S
<1>2. group = "open" /\ Current = r
  BY <1>1, CurrentIsCollecting
<1>3. \A q \in Round : /\ q # r => ~Collecting(q)
                       /\ q > r => round[q] = "none"
  BY <1>1 DEF RoundsIInv, OneRoundAtATime, Collecting, Round
<1>4. \A a \in Agent, q \in Round : part[<<a, q>>] # "waiting"
  BY <1>1, <1>3 DEF AllTerminal, Participants, Terminal, RoundsIInv, PartsFollowRounds
<1>5. \A q \in Round : /\ q \in Nat
                       /\ (round[q])' = IF q = r + 1 THEN "collecting"
                                       ELSE IF q = r THEN "released" ELSE round[q]
  BY <1>1 DEF Round
<1>6. \A b \in Agent :
           /\ part[<<b, r + 1>>] = "out" /\ row[<<b, r + 1>>] = "absent"
           /\ (part[<<b, r + 1>>])' = IF b \in S THEN "waiting" ELSE "out"
           /\ (row[<<b, r + 1>>])' = IF b \in S THEN "queued" ELSE "absent"
  <2>1. round[r + 1] = "none"
    BY <1>1, <1>3, <1>5
  <2>2. \A b \in Agent : part[<<b, r + 1>>] = "out" /\ row[<<b, r + 1>>] = "absent"
    BY <1>1, <2>1 DEF RoundsIInv, PartsFollowRounds
  <2> QED
    BY <1>1, <2>2, MaterializedRound DEF RoundsIInv
<1>7. \A b \in Agent, q \in Round : q # r + 1 =>
           /\ (part[<<b, q>>])' = part[<<b, q>>]
           /\ (row[<<b, q>>])' = row[<<b, q>>]
  BY <1>1, MaterializedRound DEF RoundsIInv
<1>8. OneRoundAtATime'
  BY <1>1, <1>2, <1>3, <1>5 DEF OneRoundAtATime, Collecting
<1>9. PartsFollowRounds'
  <2> SUFFICES ASSUME NEW b \in Agent, NEW q \in Round
               PROVE  /\ (part[<<b, q>>])' = "waiting" => Collecting(q)'
                      /\ (round[q])' = "none" => (part[<<b, q>>])' = "out"
                      /\ (row[<<b, q>>])' = "absent" <=> (part[<<b, q>>])' = "out"
    BY DEF PartsFollowRounds
  <2>1. CASE q = r + 1
    BY <1>5, <1>6, <2>1 DEF Collecting
  <2>2. CASE q # r + 1
    <3>1. /\ part[<<b, q>>] # "waiting" /\ (round[q] = "none" => part[<<b, q>>] = "out")
          /\ row[<<b, q>>] = "absent" <=> part[<<b, q>>] = "out"
      BY <1>4 DEF RoundsIInv, PartsFollowRounds
    <3> QED
      BY <1>5, <1>7, <2>2, <3>1
  <2> QED
    BY <2>1, <2>2
<1>10. OwedRowsAreKept'
  <2> SUFFICES ASSUME NEW b \in Agent, NEW q \in Round, (part[<<b, q>>])' = "waiting"
               PROVE  (row[<<b, q>>])' = "queued"
    BY DEF OwedRowsAreKept
  <2>1. q = r + 1
    BY <1>4, <1>7
  <2> QED
    BY <1>6, <2>1
<1>11. HasRows(row, todo)'
  <2>1. /\ HasRows(row', Calls("dispatch", {r + 1}, S)) /\ Calls("dispatch", {r + 1}, S) \in Seq(Call)
    BY <1>1, <1>6, CallsHaveRows, CallsTyped
  <2>2. /\ HasRows(row', AfterRound(r)) /\ AfterRound(r) \in Seq(Call)
    <3>1. HasRows(row, AfterRound(r)) /\ AfterRound(r) \in Seq(Call)
      BY <1>1, AfterHasRows, AfterRoundTyped DEF RoundsIInv
    <3>2. \A b \in Agent, q \in Round : row[<<b, q>>] # "absent" => row'[<<b, q>>] # "absent"
      BY <1>6, <1>7
    <3> QED
      BY <3>1, <3>2, RowsStayRows
  <2> QED
    BY <1>1, <2>1, <2>2, BothHaveRows
<1>12. B!Turn
  <2>1. Current' = r + 1
    <3>1. /\ (round[r + 1])' # "none" /\ \A q \in Round : q > r + 1 => (round[q])' = "none"
          /\ group' # "none"
      BY <1>1, <1>2, <1>3, <1>5
    <3>2. PICK n \in Round : n = r + 1
      BY <1>1
    <3>3. (round[n])' # "none" /\ \A q \in Round : q > n => (round[q])' = "none"
      BY <3>1, <3>2
    <3>4. Max({q \in Round : (round[q])' # "none"}) = n
      BY <3>3, LatestRound
    <3> QED
      BY <3>1, <3>2, <3>4 DEF Current
  <2>2. r # 0 /\ r + 1 # 0 /\ \A a \in Agent : part[<<a, r>>] # "waiting"
    BY <1>4, <1>5, RoundsAssumption DEF Round
  <2>3. [b \in Agent |-> (part[<<b, r + 1>>])'] = [b \in Agent |-> IF b \in S THEN "waiting" ELSE "out"]
    BY <1>6
  <2> QED
    BY <1>1, <1>2, <2>1, <2>2, <2>3 DEF B!Turn, B!NobodyWaits, B!Gathering
<1> QED
  BY <1>8, <1>9, <1>10, <1>11, <1>12 DEF Kept

-----------------------------------------------------------------------------
(* Every step                                                               *)

\* What a step does to the barrier.
BarrierStep == B!Open \/ B!Arrive \/ B!Turn \/ B!End \/ UNCHANGED B!barrierVars

LEMMA KeepsSuffices ==
  ASSUME RoundsIInv, RoundsTypeOK', Quiet \/ \E a \in Agent, r \in Round : Answered(a, r),
         OwedRowsAreKept', HasRows(row, todo')
  PROVE  RoundsIInv' /\ BarrierStep
<1>1. OneRoundAtATime' /\ PartsFollowRounds'
  BY QuietKeeps, AnsweredKeeps DEF RoundsIInv
<1>2. \A a \in Agent, r \in Round : row[<<a, r>>] # "absent" => row'[<<a, r>>] # "absent"
  BY DEF Quiet, Answered
<1>3. todo' \in Seq(Call)
  BY DEF RoundsTypeOK, ProcessOK
<1>4. HasRows(row', todo')
  BY <1>2, <1>3, RowsStayRows
<1>5. BarrierStep
  BY QuietStutters, AnsweredArrives DEF BarrierStep
<1> QED
  BY <1>1, <1>4, <1>5 DEF RoundsIInv

LEMMA StepKeeps ==
  ASSUME RoundsIInv, NEW a \in Agent, NEW r \in Round, Step(a, r)
  PROVE  RoundsIInv' /\ BarrierStep
<1>1. CASE StartTurn(a, r)
  BY <1>1, StartTurnTyped, StartTurnKeeps, KeepsSuffices DEF RoundsIInv
<1>2. ASSUME NEW o \in {"completed", "failed", "interrupted"},
             NEW M \in SUBSET (Agent \cup {Stale}), FinishTurn(a, r, o, M)
      PROVE  RoundsIInv' /\ BarrierStep
  BY <1>2, FinishTurnTyped, FinishTurnKeeps, KeepsSuffices DEF RoundsIInv
<1>3. CASE RepairTurn(a, r)
  BY <1>3, RepairTurnTyped, RepairTurnKeeps, KeepsSuffices DEF RoundsIInv
<1>4. CASE LifecycleRequeues(a, r)
  BY <1>4, LifecycleRequeuesTyped, LifecycleRequeuesKeeps, KeepsSuffices DEF RoundsIInv
<1>5. CASE LifecycleSettles(a, r)
  BY <1>5, LifecycleSettlesTyped, LifecycleSettlesKeeps, KeepsSuffices DEF RoundsIInv
<1>6. CASE BootHolds(a, r)
  BY <1>6, BootHoldsTyped, BootHoldsKeeps, KeepsSuffices DEF RoundsIInv
<1>7. CASE ReconcileParticipant(a, r)
  BY <1>7, ReconcileParticipantTyped, ReconcileParticipantKeeps, KeepsSuffices
  DEF RoundsIInv
<1>8. \A o \in {"completed", "failed", "interrupted"} :
       (IF o = "completed" THEN Mentions(r) ELSE {{}}) \subseteq SUBSET (Agent \cup {Stale})
  BY DEF Mentions
<1> QED
  BY <1>1, <1>2, <1>3, <1>4, <1>5, <1>6, <1>7, <1>8 DEF Step

LEMMA RoundOperationKeeps ==
  ASSUME RoundsIInv, NEW a \in Agent, NEW r \in Round, RoundOperation(a, r)
  PROVE  RoundsIInv' /\ BarrierStep
<1>1. CASE StartBraked(a, r)
  BY <1>1, StartBrakedTyped, StartBrakedKeeps, KeepsSuffices DEF RoundsIInv
<1>2. CASE releaseHold(a, r)
  BY <1>2, releaseHoldTyped, releaseHoldKeeps, KeepsSuffices DEF RoundsIInv
<1>3. CASE redeliverRow(a, r)
  BY <1>3, redeliverRowTyped, redeliverRowKeeps, KeepsSuffices DEF RoundsIInv
<1>4. CASE consumeOwnRow(a, r)
  BY <1>4, consumeOwnRowTyped, consumeOwnRowKeeps, KeepsSuffices DEF RoundsIInv
<1> QED
  BY <1>1, <1>2, <1>3, <1>4 DEF RoundOperation

LEMMA MemberOperationKeeps ==
  ASSUME RoundsIInv, NEW a \in Agent, MemberOperation(a)
  PROVE  RoundsIInv' /\ BarrierStep
<1>1. CASE killMember(a)
  BY <1>1, killMemberTyped, killMemberKeeps, KeepsSuffices DEF RoundsIInv
<1>2. CASE OtherTurnFails(a)
  BY <1>2, OtherTurnFailsTyped, OtherTurnFailsKeeps, KeepsSuffices DEF RoundsIInv
<1>3. CASE reviveMember(a)
  BY <1>3, reviveMemberTyped, reviveMemberKeeps, KeepsSuffices DEF RoundsIInv
<1>4. CASE removeMember(a)
  BY <1>4, removeMemberTyped, removeMemberKeeps, KeepsSuffices DEF RoundsIInv
<1>5. CASE endWait(a)
  BY <1>5, endWaitTyped, endWaitKeeps, KeepsSuffices DEF RoundsIInv
<1>6. ASSUME NEW P \in SUBSET Agent, beginWait(a, P)
      PROVE  RoundsIInv' /\ BarrierStep
  BY <1>6, beginWaitTyped, beginWaitKeeps, KeepsSuffices DEF RoundsIInv
<1> QED
  BY <1>1, <1>2, <1>3, <1>4, <1>5, <1>6 DEF MemberOperation

LEMMA TailsKeep ==
  ASSUME RoundsIInv, Tails
  PROVE  RoundsIInv' /\ BarrierStep
<1>1. ASSUME NEW r \in Round, AdvancePending(r)
      PROVE  RoundsIInv' /\ BarrierStep
  BY <1>1, AdvancePendingTyped, AdvancePendingKeeps, KeepsSuffices DEF RoundsIInv
<1>2. ASSUME NEW r \in Round, AdvanceCloses(r)
      PROVE  RoundsIInv' /\ BarrierStep
  BY <1>2, AdvanceClosesTyped, AdvanceClosesKeeps DEF RoundsIInv, Kept, BarrierStep
<1>3. ASSUME NEW r \in Round, AdvanceReleases(r)
      PROVE  RoundsIInv' /\ BarrierStep
  BY <1>3, AdvanceReleasesTyped, AdvanceReleasesKeeps DEF RoundsIInv, Kept, BarrierStep
<1>4. ASSUME NEW a \in Agent, NEW r \in Round, SkipCall(a, r)
      PROVE  RoundsIInv' /\ BarrierStep
  BY <1>4, SkipCallTyped, SkipCallKeeps, KeepsSuffices DEF RoundsIInv
<1>5. ASSUME NEW a \in Agent, NEW r \in Round, DispatchCall(a, r)
      PROVE  RoundsIInv' /\ BarrierStep
  BY <1>5, DispatchCallTyped, DispatchCallKeeps, KeepsSuffices DEF RoundsIInv
<1> QED
  BY <1>1, <1>2, <1>3, <1>4, <1>5 DEF Tails

LEMMA DaemonKeeps ==
  ASSUME RoundsIInv,
         \/ createCollaborationGroup \/ deleteRoot \/ CloseDaemon \/ Restart \/ CrashDaemon
         \/ BootReconciled \/ ReconcileRound
  PROVE  RoundsIInv' /\ BarrierStep
<1>1. CASE createCollaborationGroup
  BY <1>1, createCollaborationGroupTyped, createCollaborationGroupKeeps
  DEF RoundsIInv, Kept, BarrierStep
<1>2. CASE deleteRoot
  BY <1>2, deleteRootTyped, deleteRootKeeps, KeepsSuffices DEF RoundsIInv
<1>3. CASE CloseDaemon
  BY <1>3, CloseDaemonTyped, CloseDaemonKeeps, KeepsSuffices DEF RoundsIInv
<1>4. CASE Restart
  BY <1>4, RestartTyped, RestartKeeps, KeepsSuffices DEF RoundsIInv
<1>5. CASE CrashDaemon
  BY <1>5, CrashDaemonTyped, CrashDaemonKeeps, KeepsSuffices DEF RoundsIInv
<1>6. CASE BootReconciled
  BY <1>6, BootReconciledTyped, BootReconciledKeeps, KeepsSuffices DEF RoundsIInv
<1>7. CASE ReconcileRound
  BY <1>7, ReconcileRoundTyped, ReconcileRoundKeeps, KeepsSuffices DEF RoundsIInv
<1> QED
  BY <1>1, <1>2, <1>3, <1>4, <1>5, <1>6, <1>7

LEMMA RoundsInitIInv == RoundsInit => RoundsIInv /\ B!BarrierInit
<1> SUFFICES ASSUME RoundsInit PROVE RoundsIInv /\ B!BarrierInit
  OBVIOUS
<1>1. RoundsTypeOK
  <2>1. StoreOK
    BY DEF RoundsInit, StoreOK, Slot
  <2>2. ProcessOK
    BY DEF RoundsInit, ProcessOK
  <2>3. purged \in BOOLEAN /\ taken \subseteq Slot
    BY Zenon DEF RoundsInit
  <2>4. ops \in 0..MaxOps /\ crashes \in 0..MaxCrash
    BY RoundsAssumption DEF RoundsInit
  <2> QED
    BY <2>1, <2>2, <2>3, <2>4 DEF RoundsTypeOK, CountsOK
<1>2. OneRoundAtATime
  BY DEF RoundsInit, OneRoundAtATime, Collecting
<1>3. PartsFollowRounds /\ OwedRowsAreKept
  BY DEF RoundsInit, PartsFollowRounds, OwedRowsAreKept, Slot
<1>4. HasRows(row, todo)
  BY DEF RoundsInit, HasRows
<1>5. B!BarrierInit
  BY DEF RoundsInit, B!BarrierInit, Current
<1> QED
  BY <1>1, <1>2, <1>3, <1>4, <1>5 DEF RoundsIInv

LEMMA RoundsNextIInv == RoundsIInv /\ [RoundsNext]_roundsVars => RoundsIInv' /\ BarrierStep
<1> SUFFICES ASSUME RoundsIInv, [RoundsNext]_roundsVars PROVE RoundsIInv' /\ BarrierStep
  OBVIOUS
<1>1. CASE RoundsNext
  BY <1>1, StepKeeps, RoundOperationKeeps, MemberOperationKeeps, TailsKeep, DaemonKeeps
  DEF RoundsNext
<1>2. CASE UNCHANGED roundsVars
  <2>1. RoundsIInv'
    BY <1>2
    DEF roundsVars, RoundsIInv, RoundsTypeOK, StoreOK, ProcessOK, CountsOK,
        OneRoundAtATime,
                PartsFollowRounds, OwedRowsAreKept, HasRows, Collecting
  <2>2. Quiet
    BY <1>2 DEF roundsVars, Quiet
  <2> QED
    BY <2>1, <2>2, QuietStutters DEF BarrierStep
<1> QED
  BY <1>1, <1>2

LEMMA RoundsInvariant == RoundsSpec => []RoundsIInv
<1> HIDE DEF RoundsInit, RoundsNext, roundsVars, RoundsIInv, BarrierStep
<1> QED
  BY RoundsInitIInv, RoundsNextIInv, PTL DEF RoundsSpec

-----------------------------------------------------------------------------
\* The variables of the group, its rounds, deliveries, runs, members and of a
\* handler's remaining calls stay in their ranges.
THEOREM RoundsTypeCorrect == RoundsSpec => []RoundsTypeOK
<1>1. RoundsIInv => RoundsTypeOK
  BY DEF RoundsIInv
<1> HIDE DEF RoundsSpec, RoundsIInv, RoundsTypeOK
<1> QED
  BY <1>1, RoundsInvariant, PTL

\* Through kills, removals, holds, failed commits, stops and crashes at every
\* point of a handler, an answer a round waits for has a delivery that can still
\* bring it, unless the root message was deleted or the agent took the delivery
\* out of its own inbox.
THEOREM OwedCorrect == RoundsSpec => []OwedAnswersAreComing
<1>1. RoundsIInv => OwedAnswersAreComing
  BY DEF RoundsIInv, OwedRowsAreKept, OwedAnswersAreComing
<1> HIDE DEF RoundsSpec, RoundsIInv, OwedAnswersAreComing
<1> QED
  BY <1>1, RoundsInvariant, PTL

\* The group of store.ts and daemon.ts implements the barrier: a round opens only
\* when nobody of the one before owes an answer, and an answer, once given, stays.
THEOREM BarrierCorrect == RoundsSpec => GroupIsABarrier
<1>1. RoundsInit => B!BarrierInit
  BY RoundsInitIInv
<1>2. RoundsIInv /\ [RoundsNext]_roundsVars
        => [B!Open \/ B!Arrive \/ B!Turn \/ B!End]_B!barrierVars
  BY RoundsNextIInv DEF BarrierStep
<1> HIDE DEF RoundsInit, RoundsNext, roundsVars, RoundsIInv,
             B!BarrierInit, B!Open, B!Arrive, B!Turn, B!End, B!barrierVars
<1> QED
  BY <1>1, <1>2, RoundsInvariant, PTL DEF RoundsSpec, GroupIsABarrier, B!BarrierSpec
=============================================================================
