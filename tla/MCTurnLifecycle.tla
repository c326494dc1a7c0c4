-------------------------- MODULE MCTurnLifecycle --------------------------
(* Small instances of TurnLifecycle for TLC.                               *)
EXTENDS TurnLifecycle

CONSTANTS a, b, rowsN, runsN

Rows == 1..rowsN
RunIds == 1..runsN

\* Every operator act.
AllActs == {"stop", "kill", "revive", "pause", "unpause", "remove", "delete",
            "redeliver", "retry", "release"}

\* Every row is for agent a.
ToOne == [d \in Rows |-> a]
\* Rows alternate between the two agents.
ToTwo == [d \in Rows |-> IF d % 2 = 1 THEN a ELSE b]

\* No row belongs to a collaboration group.
AllDirect == [d \in Rows |-> 0]
\* The second row is the only one of its collaboration round.
SecondGrouped == [d \in Rows |-> IF d = 2 THEN 1 ELSE 0]
=============================================================================
