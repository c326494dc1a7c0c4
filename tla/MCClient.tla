------------------------------- MODULE MCClient -------------------------------
(* Two concerns of the browser's connector, which share no state: a room's     *)
(* projection (RoomSync) and the operator's submissions (PostDelivery).  One   *)
(* run checks both: `part` says which of them a behaviour is about, and the    *)
(* other one stays in its initial state.                                       *)
EXTENDS RoomSync, PostDelivery, TLC

CONSTANTS i1, i2

VARIABLE part
clientVars == <<roomSyncVars, postVars, part>>

KindOf == "msg" :> "message" @@ "sched" :> "schedule" @@ "mem" :> "overlay"
ExactCommits == {<<"exact", <<"msg">>>>, <<"exact", <<"sched">>>>,
                 <<"exact", <<"msg", "sched">>>>, <<"exact", <<"mem">>>>}
UnlabelledCommits == {<<"current", <<"msg", "mem">>>>}
AllCommits == {<<"exact", <<"msg">>>>, <<"exact", <<"msg", "sched">>>>, <<"exact", <<"sched">>>>,
               <<"current", <<"msg", "mem">>>>, <<"silent", <<"mem">>>>}

ClientInit ==
  /\ part \in {"sync", "posts"}
  /\ RoomSyncInit /\ PostInit
  /\ part = "sync" => daemon = "full"
  /\ part = "posts" => ~foreground

Syncing(action) == part = "sync" /\ action /\ UNCHANGED <<postVars, part>>
Posting(action) == part = "posts" /\ action /\ UNCHANGED <<roomSyncVars, part>>

ClientNext == Syncing(RoomSyncNext) \/ Posting(PostNext)

ClientSpec == ClientInit /\ [][ClientNext]_clientVars

\* RoomSyncFairness and PostFairness, each in the behaviours of its part.
ClientFairSpec ==
  /\ ClientSpec
  /\ WF_clientVars(Syncing(ServeRequest)) /\ WF_clientVars(Syncing(Receive))
  /\ WF_clientVars(Syncing(Open)) /\ WF_clientVars(Syncing(Probe))
  /\ WF_clientVars(Posting(HandleFrame)) /\ WF_clientVars(Posting(HandleAnswer))
  /\ WF_clientVars(Posting(CloseSocket /\ ~wired))
  /\ WF_clientVars(Posting(OpenSocket)) /\ WF_clientVars(Posting(CapabilityAnswer))
=============================================================================
