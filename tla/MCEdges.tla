------------------------------- MODULE MCEdges -------------------------------
(***************************************************************************)
(* Three parts at the edges of the daemon that share no state: the Claude  *)
(* and the Codex adapter under one agent each, and the schedules.  One run *)
(* checks them, and `part' says which of them a behaviour is about.        *)
(***************************************************************************)
EXTENDS ClaudeRuntime, CodexRuntime, Schedules, TLC

TwoDue == 1 :> 1 @@ 2 :> 3

VARIABLE part

edgeVars == <<part, claudeVars, codexVars, schedulesVars>>

EdgeInit ==
  part \in {"claude", "codex", "schedules"} /\ ClaudeInit /\ CodexInit /\ SchedulesInit

InClaude(A) == part = "claude" /\ A /\ UNCHANGED <<part, codexVars, schedulesVars>>
InCodex(A) == part = "codex" /\ A /\ UNCHANGED <<part, claudeVars, schedulesVars>>
Scheduling(A) == part = "schedules" /\ A /\ UNCHANGED <<part, claudeVars, codexVars>>

EdgeNext == InClaude(ClaudeNext) \/ InCodex(CodexNext) \/ Scheduling(SchedulesNext)

EdgeSpec == EdgeInit /\ [][EdgeNext]_edgeVars

\* The fairness of SchedulesFairSpec; the adapters promise nothing that needs one.
EdgeFairSpec ==
  /\ EdgeSpec
  /\ WF_edgeVars(Scheduling(Tick)) /\ WF_edgeVars(Scheduling(AlarmRings))
  /\ WF_edgeVars(Scheduling(Stretch))
  /\ WF_edgeVars(Scheduling(Construct)) /\ WF_edgeVars(Scheduling(Reconcile))
=============================================================================
