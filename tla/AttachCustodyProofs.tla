------------------------- MODULE AttachCustodyProofs -------------------------
(***************************************************************************)
(* Theorems about AttachCustody, for any attach commands, queue length and *)
(* number of operator acts and crashes.                                    *)
(***************************************************************************)
EXTENDS AttachCustody, TLAPS

\* A command that has not reported a terminal of its own.
BeforeReport == {"out", "waiting", "granted", "cut"}

\* A command that may open a terminal, or has one open, holds the lease, and its
\* agent is mirrored and has no turn; unless an operator adopted the lease away.
CustodyOK ==
  \A c \in Cli \ adopted :
     cli[c] \in {"granted", "cut"} \/ child[c] = "alive"
       => lease = c /\ custody = "mirrored" /\ ~inflight

\* Custody comes back after the lease is deleted; a grant meets no turn.
StepOK ==
  /\ step \in {"finish", "adopt"} => lease = None
  /\ step = "grant" => lease # None /\ ~inflight

\* Who waits for a turn to end waits for a session nobody has borrowed.
WaitOK == waiting # None => sessionRef /\ (lease = None \/ step = "grant")

\* A recorded child is one that its command has spawned.
ReportOK ==
  /\ lease # None /\ recorded => cli[lease] \notin BeforeReport
  /\ \A c \in Cli : "child" \in mail[c] => cli[c] \notin BeforeReport

ResetOK == ResetIsAlone /\ (resetting => custody = "owned")

Sound == CustodyOK /\ StepOK /\ WaitOK /\ ReportOK /\ ResetOK /\ LeaseHasSession

\* The inductive invariant.
IInv == TypeOK /\ Sound

-----------------------------------------------------------------------------
USE AttachAssumption
    DEF TypeOK, FlagsOK, ValuesOK, MemberState, CliState, member, rows, leases,
        memory, handler, outside, counts, Quiet, BeforeReport, CustodyOK, StepOK,
        WaitOK, ReportOK, ResetOK, ResetIsAlone, LeaseHasSession, Sound, IInv

\* Every initial state satisfies the invariant.
LEMMA InitIInv == Init => IInv
<1> SUFFICES ASSUME Init PROVE IInv
  OBVIOUS
<1>1. FlagsOK
  BY Zenon DEF Init
<1>2. ValuesOK /\ Sound
  BY DEF Init
<1> QED
  BY <1>1, <1>2

\* What a settled lease leaves: uncertain custody, or a free session.
LEMMA SettleKeeps ==
  ASSUME IInv, NEW c \in Cli, Quiet, lease = c, Settle(c),
         UNCHANGED <<rows, inflight, waiting, compacting, resetting, pump, outside,
                     counts>>
  PROVE  IInv'
<1>1. CASE attachChildRecorded(c) /\ child[c] # "alive" /\ finishAttachLease
  <2>1. FlagsOK'
    BY <1>1, Zenon DEF finishAttachLease, deleteAttachLease
  <2>2. (ValuesOK /\ Sound)'
    BY <1>1 DEF attachChildRecorded, finishAttachLease, deleteAttachLease
  <2> QED
    BY <2>1, <2>2
<1>2. CASE markCustodyUncertain
  <2>1. FlagsOK'
    BY <1>2, Zenon DEF markCustodyUncertain
  <2>2. (ValuesOK /\ Sound)'
    BY <1>2 DEF markCustodyUncertain
  <2> QED
    BY <2>1, <2>2
<1> QED
  BY <1>1, <1>2 DEF Settle

\* Every step keeps the invariant.
LEMMA NextIInv == IInv /\ [Next]_vars => IInv'
<1> SUFFICES ASSUME IInv, [Next]_vars PROVE IInv'
  OBVIOUS
<1>1. ASSUME queueAgentDelivery PROVE IInv'
  <2>1. FlagsOK'
    BY <1>1, Zenon DEF queueAgentDelivery, QueuedState
  <2>2. (ValuesOK /\ Sound)'
    BY <1>1 DEF queueAgentDelivery, QueuedState
  <2> QED
    BY <2>1, <2>2
<1>2. ASSUME maybeStartTurn PROVE IInv'
  <2>1. FlagsOK'
    BY <1>2, Zenon DEF maybeStartTurn, turnStartEligibility, BeginTurn
  <2>2. (ValuesOK /\ Sound)'
    BY <1>2 DEF maybeStartTurn, turnStartEligibility, BeginTurn
  <2> QED
    BY <2>1, <2>2
<1>3. ASSUME onSessionRef PROVE IInv'
  <2>1. FlagsOK'
    BY <1>3, Zenon DEF onSessionRef
  <2>2. (ValuesOK /\ Sound)'
    BY <1>3 DEF onSessionRef
  <2> QED
    BY <2>1, <2>2
<1>4. ASSUME RaiseAsk PROVE IInv'
  <2>1. FlagsOK'
    BY <1>4, Zenon DEF RaiseAsk
  <2>2. (ValuesOK /\ Sound)'
    BY <1>4 DEF RaiseAsk
  <2> QED
    BY <2>1, <2>2
<1>5. ASSUME AnswerAsk PROVE IInv'
  <2>1. FlagsOK'
    BY <1>5, Zenon DEF AnswerAsk
  <2>2. (ValuesOK /\ Sound)'
    BY <1>5 DEF AnswerAsk
  <2> QED
    BY <2>1, <2>2
<1>6. ASSUME NEW failed \in BOOLEAN, FinalizeTurn(failed) PROVE IInv'
  <2>1. FlagsOK'
    BY <1>6, Zenon DEF FinalizeTurn
  <2>2. (ValuesOK /\ Sound)'
    BY <1>6 DEF FinalizeTurn
  <2> QED
    BY <2>1, <2>2
<1>7. ASSUME killMember PROVE IInv'
  <2>1. FlagsOK'
    BY <1>7, Zenon DEF killMember, Act, Unattached
  <2>2. (ValuesOK /\ Sound)'
    BY <1>7 DEF killMember, Act, Unattached
  <2> QED
    BY <2>1, <2>2
<1>8. ASSUME reviveMember PROVE IInv'
  <2>1. FlagsOK'
    BY <1>8, Zenon DEF reviveMember, Act, Unattached
  <2>2. (ValuesOK /\ Sound)'
    BY <1>8 DEF reviveMember, Act, Unattached
  <2> QED
    BY <2>1, <2>2
<1>9. ASSUME pauseMember PROVE IInv'
  <2>1. FlagsOK'
    BY <1>9, Zenon DEF pauseMember, Act, Unattached
  <2>2. (ValuesOK /\ Sound)'
    BY <1>9 DEF pauseMember, Act, Unattached
  <2> QED
    BY <2>1, <2>2
<1>10. ASSUME unpauseMember PROVE IInv'
  <2>1. FlagsOK'
    BY <1>10, Zenon DEF unpauseMember, Act
  <2>2. (ValuesOK /\ Sound)'
    BY <1>10 DEF unpauseMember, Act
  <2> QED
    BY <2>1, <2>2
<1>11. ASSUME removeMember PROVE IInv'
  <2>1. FlagsOK'
    BY <1>11, Zenon DEF removeMember, Act, Unattached
  <2>2. (ValuesOK /\ Sound)'
    BY <1>11 DEF removeMember, Act, Unattached
  <2> QED
    BY <2>1, <2>2
<1>12. ASSUME releaseHold PROVE IInv'
  <2>1. FlagsOK'
    BY <1>12, Zenon DEF releaseHold, Act, turnStartEligibility, BeginTurn
  <2>2. (ValuesOK /\ Sound)'
    BY <1>12 DEF releaseHold, Act, turnStartEligibility, BeginTurn
  <2> QED
    BY <2>1, <2>2
<1>13. ASSUME compactMember PROVE IInv'
  <2>1. FlagsOK'
    BY <1>13, Zenon DEF compactMember, Act
  <2>2. (ValuesOK /\ Sound)'
    BY <1>13 DEF compactMember, Act
  <2> QED
    BY <2>1, <2>2
<1>14. ASSUME CompactEnds PROVE IInv'
  <2>1. FlagsOK'
    BY <1>14, Zenon DEF CompactEnds
  <2>2. (ValuesOK /\ Sound)'
    BY <1>14 DEF CompactEnds
  <2> QED
    BY <2>1, <2>2
<1>15. ASSUME clearMemberContext PROVE IInv'
  <2>1. FlagsOK'
    BY <1>15, Zenon DEF clearMemberContext, Act, Clearable, Unattached
  <2>2. (ValuesOK /\ Sound)'
    BY <1>15 DEF clearMemberContext, Act, Clearable, Unattached
  <2> QED
    BY <2>1, <2>2
<1>16. ASSUME ResetEnds PROVE IInv'
  <2>1. FlagsOK'
    BY <1>16, Zenon DEF ResetEnds
  <2>2. (ValuesOK /\ Sound)'
    BY <1>16 DEF ResetEnds
  <2> QED
    BY <2>1, <2>2
<1>17. ASSUME CommitGrant PROVE IInv'
  <2>1. FlagsOK'
    BY <1>17, Zenon DEF CommitGrant
  <2>2. (ValuesOK /\ Sound)'
    BY <1>17 DEF CommitGrant
  <2> QED
    BY <2>1, <2>2
<1>18. ASSUME HeartbeatLapses PROVE IInv'
  <2>1. FlagsOK'
    BY <1>18, Zenon DEF HeartbeatLapses
  <2>2. (ValuesOK /\ Sound)'
    BY <1>18 DEF HeartbeatLapses
  <2> QED
    BY <2>1, <2>2
<1>19. ASSUME Readopt PROVE IInv'
  <2>1. FlagsOK'
    BY <1>19, Zenon DEF Readopt
  <2>2. (ValuesOK /\ Sound)'
    BY <1>19 DEF Readopt
  <2> QED
    BY <2>1, <2>2
<1>20. ASSUME adoptMember PROVE IInv'
  <2>1. FlagsOK'
    BY <1>20, Zenon DEF adoptMember, deleteAttachLease
  <2>2. (ValuesOK /\ Sound)'
    BY <1>20 DEF adoptMember, deleteAttachLease
  <2> QED
    BY <2>1, <2>2
<1>21. ASSUME mirrorSessionEnd PROVE IInv'
  <2>1. FlagsOK'
    BY <1>21, Zenon DEF mirrorSessionEnd
  <2>2. (ValuesOK /\ Sound)'
    BY <1>21 DEF mirrorSessionEnd
  <2> QED
    BY <2>1, <2>2
<1>22. ASSUME NEW c \in Cli, acquireAttachLease(c) PROVE IInv'
  <2>1. FlagsOK'
    BY <1>22, Zenon DEF acquireAttachLease, Attachable, Unattached
  <2>2. (ValuesOK /\ Sound)'
    BY <1>22 DEF acquireAttachLease, Attachable, Unattached
  <2> QED
    BY <2>1, <2>2
<1>23. ASSUME NEW c \in Cli, GrantLease(c) PROVE IInv'
  <2>1. FlagsOK'
    BY <1>23, Zenon DEF GrantLease
  <2>2. (ValuesOK /\ Sound)'
    BY <1>23 DEF GrantLease
  <2> QED
    BY <2>1, <2>2
<1>24. ASSUME NEW c \in Cli, reportAttachChild(c) PROVE IInv'
  <2>1. FlagsOK'
    BY <1>24, Zenon DEF reportAttachChild
  <2>2. (ValuesOK /\ Sound)'
    BY <1>24 DEF reportAttachChild
  <2> QED
    BY <2>1, <2>2
<1>25. ASSUME NEW c \in Cli, heartbeatAttachLease(c) PROVE IInv'
  <2>1. FlagsOK'
    BY <1>25, Zenon DEF heartbeatAttachLease
  <2>2. (ValuesOK /\ Sound)'
    BY <1>25 DEF heartbeatAttachLease
  <2> QED
    BY <2>1, <2>2
<1>26. ASSUME NEW c \in Cli, completeAttachLease(c) PROVE IInv'
  <2>1. FlagsOK'
    BY <1>26, Zenon DEF completeAttachLease, Settle, attachChildRecorded, finishAttachLease,
           deleteAttachLease, markCustodyUncertain
  <2>2. (ValuesOK /\ Sound)'
    BY <1>26 DEF completeAttachLease, Settle, attachChildRecorded, finishAttachLease,
           deleteAttachLease, markCustodyUncertain
  <2> QED
    BY <2>1, <2>2
<1>27. ASSUME NEW c \in Cli, reconcileAttachLeases(c) PROVE IInv'
  BY <1>27, SettleKeeps DEF reconcileAttachLeases, Expired
<1>28. ASSUME NEW c \in Cli, SpawnChild(c) PROVE IInv'
  <2>1. FlagsOK'
    BY <1>28, Zenon DEF SpawnChild
  <2>2. (ValuesOK /\ Sound)'
    BY <1>28 DEF SpawnChild
  <2> QED
    BY <2>1, <2>2
<1>29. ASSUME NEW c \in Cli, SendComplete(c) PROVE IInv'
  <2>1. FlagsOK'
    BY <1>29, Zenon DEF SendComplete
  <2>2. (ValuesOK /\ Sound)'
    BY <1>29 DEF SendComplete
  <2> QED
    BY <2>1, <2>2
<1>30. ASSUME NEW c \in Cli, ChildExits(c) PROVE IInv'
  <2>1. FlagsOK'
    BY <1>30, Zenon DEF ChildExits
  <2>2. (ValuesOK /\ Sound)'
    BY <1>30 DEF ChildExits
  <2> QED
    BY <2>1, <2>2
<1>31. ASSUME NEW c \in Cli, CliDies(c) PROVE IInv'
  <2>1. FlagsOK'
    BY <1>31, Zenon DEF CliDies
  <2>2. (ValuesOK /\ Sound)'
    BY <1>31 DEF CliDies
  <2> QED
    BY <2>1, <2>2
<1>32. ASSUME Crash PROVE IInv'
  <2>1. FlagsOK'
    BY <1>32, Zenon DEF Crash
  <2>2. (ValuesOK /\ Sound)'
    BY <1>32 DEF Crash
  <2> QED
    BY <2>1, <2>2
<1>33. ASSUME Boot PROVE IInv'
  <2>1. FlagsOK'
    BY <1>33, Zenon DEF Boot, turnStartEligibility, BeginTurn
  <2>2. (ValuesOK /\ Sound)'
    BY <1>33 DEF Boot, turnStartEligibility, BeginTurn
  <2> QED
    BY <2>1, <2>2
<1>34. ASSUME UNCHANGED vars PROVE IInv'
  <2>1. FlagsOK'
    BY <1>34, Zenon DEF vars
  <2>2. (ValuesOK /\ Sound)'
    BY <1>34 DEF vars
  <2> QED
    BY <2>1, <2>2
<1> QED
  BY <1>1, <1>2, <1>3, <1>4, <1>5, <1>6, <1>7, <1>8, <1>9, <1>10, <1>11,
     <1>12, <1>13, <1>14, <1>15, <1>16, <1>17, <1>18, <1>19, <1>20, <1>21,
     <1>22, <1>23, <1>24, <1>25, <1>26, <1>27, <1>28, <1>29, <1>30, <1>31,
     <1>32, <1>33, <1>34 DEF Next

LEMMA IInvAlways == Spec => []IInv
BY InitIInv, NextIInv, PTL DEF Spec

HIDE AttachAssumption DEF TypeOK, ResetIsAlone, LeaseHasSession, IInv

\* Every variable keeps its type.
THEOREM TypeCorrect == Spec => []TypeOK
<1>1. IInv => TypeOK
  BY DEF IInv
<1> QED
  BY <1>1, IInvAlways, PTL

\* While a context reset awaits the adapter, nothing else uses the session.
THEOREM ResetCorrect == Spec => []ResetIsAlone
<1>1. IInv => ResetIsAlone
  BY DEF IInv
<1> QED
  BY <1>1, IInvAlways, PTL

\* A borrowed agent always has a session to be taken back with.
THEOREM SessionCorrect == Spec => []LeaseHasSession
<1>1. IInv => LeaseHasSession
  BY DEF IInv
<1> QED
  BY <1>1, IInvAlways, PTL

USE AttachAssumption DEF TypeOK, ResetIsAlone, LeaseHasSession, IInv

-----------------------------------------------------------------------------
(* Leases *)

LeaseStep ==
  \A c \in Cli : lease = c /\ lease' # c =>
     (recorded /\ child[c] # "alive") \/ c \in adopted'

\* A settled lease ends only if its recorded child is gone.
LEMMA SettleEnds ==
  ASSUME NEW c \in Cli, lease = c, Settle(c)  PROVE LeaseStep
BY DEF Settle, attachChildRecorded, finishAttachLease, deleteAttachLease,
       markCustodyUncertain, LeaseStep

LEMMA NextLeases == IInv /\ [Next]_vars => LeaseStep
<1> SUFFICES ASSUME IInv, [Next]_vars PROVE LeaseStep
  OBVIOUS
<1>1. ASSUME NEW c \in Cli, GrantLease(c) PROVE LeaseStep
  BY <1>1 DEF GrantLease, LeaseStep
<1>2. ASSUME adoptMember PROVE LeaseStep
  BY <1>2 DEF adoptMember, LeaseStep
<1>3. ASSUME NEW c \in Cli, completeAttachLease(c) PROVE LeaseStep
  BY <1>3, SettleEnds DEF completeAttachLease, LeaseStep
<1>4. ASSUME NEW c \in Cli, reconcileAttachLeases(c) PROVE LeaseStep
  BY <1>4, SettleEnds DEF reconcileAttachLeases, Expired
<1>5. CASE
     \/ queueAgentDelivery \/ maybeStartTurn \/ onSessionRef \/ RaiseAsk \/
        AnswerAsk \/ killMember \/ reviveMember \/ pauseMember \/
        unpauseMember \/ removeMember \/ releaseHold \/ compactMember \/
        CompactEnds \/ clearMemberContext \/ ResetEnds \/ CommitGrant \/
        HeartbeatLapses \/ Readopt \/ mirrorSessionEnd \/ Crash \/ Boot
     \/ \E failed \in BOOLEAN : FinalizeTurn(failed)
     \/ \E c \in Cli : acquireAttachLease(c) \/ reportAttachChild(c) \/
          heartbeatAttachLease(c) \/ SpawnChild(c) \/ SendComplete(c) \/
          ChildExits(c) \/ CliDies(c)
  <2>1. lease' = lease
    BY <1>5 DEF queueAgentDelivery, maybeStartTurn, onSessionRef, RaiseAsk,
       AnswerAsk, FinalizeTurn, killMember, reviveMember, pauseMember,
       unpauseMember, removeMember, releaseHold, compactMember, CompactEnds,
       clearMemberContext, ResetEnds, CommitGrant, HeartbeatLapses, Readopt,
       mirrorSessionEnd, acquireAttachLease, reportAttachChild,
       heartbeatAttachLease, SpawnChild, SendComplete, ChildExits, CliDies,
       Crash, Boot, Act, Attachable, BeginTurn, Clearable, QueuedState,
       Unattached, turnStartEligibility
  <2> QED
    BY <2>1 DEF LeaseStep
<1>6. CASE UNCHANGED vars
  BY <1>6 DEF vars, LeaseStep
<1> QED
  BY <1>1, <1>2, <1>3, <1>4, <1>5, <1>6 DEF Next

\* A lease ends only on proof that its terminal is gone, or by an adoption.
THEOREM LeasesCorrect == Spec => LeaseEnds
<1>1. IInv /\ [Next]_vars => [LeaseStep]_vars
  BY NextLeases
<1> QED
  BY <1>1, IInvAlways, PTL DEF Spec, LeaseEnds, LeaseStep

-----------------------------------------------------------------------------
(* Refinement *)

LEMMA InitOneWriter == Init => Session!Init
BY DEF Init, Session!Init, Terminals

\* A turn starts only when no terminal is open.
LEMMA EligibleIsFree ==
  ASSUME IInv, turnStartEligibility  PROVE ~inflight /\ Terminals = {}
BY DEF turnStartEligibility, Terminals

\* Every step is one of the abstract writer's, or none of its business.
LEMMA NextOneWriter == IInv /\ [Next]_vars => [Session!Next]_<<inflight, Terminals>>
<1> DEFINE Abstract == [Session!Next]_<<inflight, Terminals>>
<1> SUFFICES ASSUME IInv, [Next]_vars PROVE Abstract
  OBVIOUS
<1>1. ASSUME turnStartEligibility, inflight', UNCHANGED <<child, adopted>>
      PROVE  Abstract
  <2>1. Terminals' = Terminals
    BY <1>1 DEF Terminals
  <2>2. Session!TurnStarts
    BY <1>1, <2>1, EligibleIsFree DEF Session!TurnStarts, Session!Free
  <2> QED
    BY <2>2 DEF Session!Next
<1>2. ASSUME UNCHANGED <<inflight, child, adopted>> PROVE Abstract
  <2>1. Terminals' = Terminals
    BY <1>2 DEF Terminals
  <2> QED
    BY <1>2, <2>1
<1>3. ASSUME ~inflight', UNCHANGED <<child, adopted>> PROVE Abstract
  <2>1. Terminals' = Terminals
    BY <1>3 DEF Terminals
  <2>2. Session!TurnEnds
    BY <1>3, <2>1 DEF Session!TurnEnds
  <2> QED
    BY <2>2 DEF Session!Next
<1>4. CASE maybeStartTurn
  <2>1. CASE turnStartEligibility /\ queued > 0
    BY <1>1, <1>4, <2>1 DEF maybeStartTurn, BeginTurn
  <2>2. CASE ~(turnStartEligibility /\ queued > 0)
    BY <1>2, <1>4, <2>2 DEF maybeStartTurn
  <2> QED
    BY <2>1, <2>2
<1>5. CASE releaseHold
  BY <1>1, <1>5 DEF releaseHold, Act, BeginTurn
<1>6. CASE Boot
  <2>1. CASE turnStartEligibility /\ BeginTurn
    BY <1>1, <1>6, <2>1 DEF Boot, BeginTurn
  <2>2. CASE UNCHANGED <<leases, memory, outside>>
    BY <1>2, <1>6, <2>2 DEF Boot
  <2> QED
    BY <1>6, <2>1, <2>2 DEF Boot
<1>7. CASE Crash \/ \E failed \in BOOLEAN : FinalizeTurn(failed)
  BY <1>3, <1>7 DEF Crash, FinalizeTurn
<1>8. ASSUME NEW c \in Cli, SpawnChild(c) PROVE Abstract
  <2>1. CASE c \in adopted
    <3>1. UNCHANGED <<inflight, Terminals>>
      BY <1>8, <2>1 DEF SpawnChild, Terminals
    <3> QED
      BY <3>1
  <2>2. CASE c \notin adopted
    <3>1. ~inflight /\ Terminals \subseteq {c}
      BY <1>8, <2>2 DEF SpawnChild, Terminals
    <3>2. Terminals' = Terminals \cup {c} /\ inflight' = inflight
      BY <1>8, <2>2 DEF SpawnChild, Terminals
    <3>3. CASE c \in Terminals
      BY <3>1, <3>2, <3>3
    <3>4. CASE Terminals = {}
      BY <3>1, <3>2, <3>4 DEF Session!Next, Session!TerminalOpens, Session!Free
    <3> QED
      BY <3>1, <3>3, <3>4
  <2> QED
    BY <2>1, <2>2
<1>9. ASSUME NEW c \in Cli, ChildExits(c) PROVE Abstract
  <2>1. Terminals' = Terminals \ {c} /\ inflight' = inflight
    BY <1>9 DEF ChildExits, Terminals
  <2> QED
    BY <2>1 DEF Session!Next, Session!TerminalCloses
<1>10. CASE adoptMember
  <2>1. Terminals' = Terminals \ {lease} /\ inflight' = inflight
    BY <1>10 DEF adoptMember, deleteAttachLease, Terminals
  <2>2. CASE lease \in Cli
    BY <2>1, <2>2 DEF Session!Next, Session!TerminalCloses
  <2>3. CASE lease = None
    <3>1. None \notin Terminals
      BY DEF Terminals
    <3> QED
      BY <2>1, <2>3, <3>1
  <2> QED
    BY <2>2, <2>3
<1>11. CASE
     \/ queueAgentDelivery \/ onSessionRef \/ RaiseAsk \/ AnswerAsk \/
        killMember \/ reviveMember \/ pauseMember \/ unpauseMember \/
        removeMember \/ compactMember \/ CompactEnds \/ clearMemberContext
        \/ ResetEnds \/ CommitGrant \/ HeartbeatLapses \/ Readopt \/
        mirrorSessionEnd
     \/ \E c \in Cli : acquireAttachLease(c) \/ GrantLease(c) \/
          reportAttachChild(c) \/ heartbeatAttachLease(c) \/
          completeAttachLease(c) \/ reconcileAttachLeases(c) \/
          SendComplete(c) \/ CliDies(c)
  <2>1. UNCHANGED <<inflight, child, adopted>>
    BY <1>11 DEF queueAgentDelivery, onSessionRef, RaiseAsk, AnswerAsk,
       killMember, reviveMember, pauseMember, unpauseMember, removeMember,
       compactMember, CompactEnds, clearMemberContext, ResetEnds, CommitGrant,
       HeartbeatLapses, Readopt, mirrorSessionEnd, acquireAttachLease,
       GrantLease, reportAttachChild, heartbeatAttachLease,
       completeAttachLease, reconcileAttachLeases, SendComplete, CliDies, Act,
       Attachable, Clearable, QueuedState, Settle, Unattached,
       attachChildRecorded, deleteAttachLease, finishAttachLease,
       markCustodyUncertain
  <2> QED
    BY <1>2, <2>1
<1>12. CASE UNCHANGED vars
  BY <1>2, <1>12 DEF vars
<1> QED
  BY <1>4, <1>5, <1>6, <1>7, <1>8, <1>9, <1>10, <1>11, <1>12 DEF Next

\* A session has one writer: AttachCustody implements SingleWriter.
THEOREM OneWriterCorrect == Spec => OneWriter
BY InitOneWriter, NextOneWriter, IInvAlways, PTL DEF Spec, OneWriter, Session!Spec
=============================================================================
