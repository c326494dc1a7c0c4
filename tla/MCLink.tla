------------------------------- MODULE MCLink -------------------------------
(***************************************************************************)
(* Two protocols that run through a link which may be lost: the streams of *)
(* a browser's app (TunnelMux) and the turns of an agent on another        *)
(* computer (Residency).  They share no state; one run checks both, and    *)
(* `part' says which of them a behaviour is about.                         *)
(***************************************************************************)
EXTENDS TunnelMux, Residency

CONSTANTS w, h

EachAndBoth ==
  {[streams |-> {w}, up |-> 2, down |-> 2, bodies |-> {}],
   [streams |-> {h}, up |-> 2, down |-> 0, bodies |-> {0, 2, 3}],
   [streams |-> {h}, up |-> 3, down |-> 0, bodies |-> {1}],
   [streams |-> {w, h}, up |-> 0, down |-> 2, bodies |-> {1}]}
SocketAndRequest == [s \in Stream |-> IF s = w THEN "ws" ELSE "http"]

VARIABLE part

linkVars == <<part, muxVars, residencyVars>>

LinkInit ==
  /\ part \in {"mux", "remote"} /\ MuxInit /\ ResidencyInit
  /\ part = "remote" => mix = CHOOSE m \in Mixes : TRUE

Muxing(A) == part = "mux" /\ A /\ UNCHANGED <<part, residencyVars>>
Remotely(A) == part = "remote" /\ A /\ UNCHANGED <<part, muxVars>>

LinkNext == Muxing(MuxNext) \/ Remotely(ResidencyNext)

LinkSpec == LinkInit /\ [][LinkNext]_linkVars

\* The fairness of MuxFairSpec and of ResidencyFairSpec, each in its own part.
LinkFairSpec ==
  /\ LinkSpec
  /\ \A e \in End : WF_linkVars(Muxing(receivePacket(e)))
  /\ \A s \in Stream :
       /\ WF_linkVars(Muxing(LoopbackAnswers(s))) /\ WF_linkVars(Muxing(AnswerChunk(s)))
       /\ WF_linkVars(Muxing(AnswerEnds(s)))
  /\ WF_linkVars(Remotely(StartTurn)) /\ WF_linkVars(Remotely(HomeReceives))
  /\ WF_linkVars(Remotely(Finalize)) /\ WF_linkVars(Remotely(RetryCompletionAck))
  /\ WF_linkVars(Remotely(ResidentReceives)) /\ WF_linkVars(Remotely(LinkUp))
  /\ WF_linkVars(Remotely(Starts \/ Works \/ Completes \/ Fails))
=============================================================================
