---------------------------- MODULE RoundBarrier ----------------------------
(* What a collaboration group promises: rounds of answers.  A round opens   *)
(* with a set of members, every member of it answers exactly once, and the  *)
(* group turns to its next round, or ends, only when nobody is waited for.  *)
EXTENDS Naturals

CONSTANTS Member, Answer

VARIABLES stage,   \* "idle", "gathering" or "over"
          number,  \* the round being gathered
          answer   \* Member -> "out", "waiting" or an answer

barrierVars == <<stage, number, answer>>

Gathering(S) == answer' = [m \in Member |-> IF m \in S THEN "waiting" ELSE "out"]

BarrierInit == stage = "idle" /\ number = 0 /\ answer = [m \in Member |-> "out"]

Open == \E S \in (SUBSET Member) \ {{}} :
  /\ stage = "idle" /\ stage' = "gathering" /\ number' = 1
  /\ Gathering(S)

Arrive == \E m \in Member, o \in Answer :
  /\ stage = "gathering" /\ answer[m] = "waiting"
  /\ answer' = [answer EXCEPT ![m] = o]
  /\ UNCHANGED <<stage, number>>

NobodyWaits == \A m \in Member : answer[m] # "waiting"

Turn == \E S \in (SUBSET Member) \ {{}} :
  /\ stage = "gathering" /\ NobodyWaits
  /\ number' = number + 1 /\ Gathering(S)
  /\ UNCHANGED stage

End == /\ stage = "gathering" /\ NobodyWaits
       /\ stage' = "over"
       /\ UNCHANGED <<number, answer>>

BarrierSpec == BarrierInit /\ [][Open \/ Arrive \/ Turn \/ End]_barrierVars
=============================================================================
