----------------------------- MODULE CodexRuntime -----------------------------
(***************************************************************************)
(* The Codex adapter (adapters/codex/src/adapter.ts) under one agent of    *)
(* the daemon: an app-server, here a child, outlives turns and serves a    *)
(* runtime through a client.  deliver() awaits the spawning of the child,  *)
(* its handshake and the start of the turn; interrupt() may come at each   *)
(* of these, and asks a running turn to stop before it retires the runtime.*)
(*                                                                         *)
(* The daemon never overlaps a turn, a compaction and a reset of one agent.*)
(* It makes a new Session, with a credential of its own, when the agent is *)
(* configured, revived or back from a terminal: the adapter finds the      *)
(* runtime by the Session object or the member's key, and retires it if    *)
(* the Session is another one.  The child is external: it works its starts *)
(* off in order, may be silent, and may exit.  thread/start is one request *)
(* with the handshake, and a child that fails to spawn is a failed request.*)
(***************************************************************************)
EXTENDS Naturals, Sequences, FiniteSets

CONSTANTS
  MaxCodexTurn,    \* bound: turns delivered
  MaxRuntime,      \* bound: runtimes
  MaxInterrupt,    \* bound: interrupts
  MaxCompaction,   \* bound: compactions
  MaxClear,        \* bound: context resets
  MaxChange,       \* bound: configurations and releases to a terminal
  MaxChildExit     \* bound: children that exit by themselves, and turns given up

ASSUME CodexAssumption ==
  {MaxCodexTurn, MaxRuntime, MaxInterrupt, MaxCompaction, MaxClear, MaxChange,
   MaxChildExit} \subseteq Nat

None == 0
CompactTurn == 0           \* the native turn of a compaction
CodexRt == 1..MaxRuntime
Child == 1..(MaxCodexTurn + MaxCompaction)

VARIABLES
  current,     \* the runtime that is found for the Session, or None (liveRuntime)
  listed,      \* is it in memberRuntimes?
  serves,      \* CodexRt -> did it last serve the Session that the daemon has?
  identity,    \* of that Session: the runtime's own, new, or due (staleSessions)
  duty,        \* may the agent take turns, or is it killed, or in a terminal?
  client,      \* CodexRt -> the child its client speaks to, or None
  retiringChild, \* CodexRt -> the child a reset waits for
  of,          \* Child -> the runtime it was made for; None before
  process,     \* Child -> none, live, closing, ended
  starts,      \* Child -> native turns it was given and has not completed
  run,         \* the daemon's turn
  asked,       \* runtimes with a turn/interrupt under way
  shrink,      \* the daemon's compaction
  clearing,    \* the runtime of the daemon's reset
  overdue,     \* was a compaction given up while its child still works on it?
  cleared,     \* children that a reset asked to exit
  spilled,     \* turns begun on a runtime with a turn/interrupt under way
  tally        \* what the bounds count

codexVars == <<current, listed, serves, identity, duty, client, retiringChild, of, process, starts,
               run, asked, shrink, clearing, overdue, cleared, spilled, tally>>
agent == <<serves, identity, duty>>
children == <<of, process, starts>>
history == <<overdue, cleared, spilled, tally>>

NoRun == [no |-> 0, rt |-> None, at |-> "none", by |-> "none"]
NoShrink == [rt |-> None, at |-> "none"]
Caps == [turns |-> MaxCodexTurn, interrupts |-> MaxInterrupt, compactions |-> MaxCompaction,
         clears |-> MaxClear, changes |-> MaxChange, exits |-> MaxChildExit]
Tallied(k) == tally[k] < Caps[k] /\ tally' = [tally EXCEPT ![k] = @ + 1]

CodexTypeOK ==
  /\ current \in CodexRt \cup {None} /\ clearing \in CodexRt \cup {None}
  /\ listed \in BOOLEAN /\ serves \in [CodexRt -> BOOLEAN]
  /\ identity \in {"own", "new", "due"} /\ duty \in {"on", "killed", "terminal"}
  /\ client \in [CodexRt -> Child \cup {None}] /\ retiringChild \in [CodexRt -> Child \cup {None}]
  /\ of \in [Child -> CodexRt \cup {None}]
  /\ process \in [Child -> {"none", "live", "closing", "ended"}]
  /\ starts \in [Child -> Seq(0..MaxCodexTurn)]
  /\ run \in [no : 0..MaxCodexTurn, rt : CodexRt \cup {None},
              at : {"none", "spawning", "handshake", "starting", "running"},
              by : {"none", "own", "other", "stop", "error"}]
  /\ asked \subseteq CodexRt
  /\ shrink \in [rt : CodexRt \cup {None}, at : {"none", "spawning", "handshake", "pending"}]
  /\ overdue \in BOOLEAN /\ cleared \subseteq Child /\ spilled \subseteq 1..MaxCodexTurn

CodexInit ==
  /\ current = None /\ listed = FALSE /\ serves = [r \in CodexRt |-> FALSE]
  /\ identity = "new" /\ duty = "on" /\ client = [r \in CodexRt |-> None]
  /\ retiringChild = [r \in CodexRt |-> None]
  /\ of = [c \in Child |-> None] /\ process = [c \in Child |-> "none"]
  /\ starts = [c \in Child |-> <<>>]
  /\ run = NoRun /\ asked = {} /\ shrink = NoShrink /\ clearing = None
  /\ overdue = FALSE /\ cleared = {} /\ spilled = {} /\ tally = [k \in DOMAIN Caps |-> 0]

------------------------------------------------------------------------------
\* The runtime.

\* failCompaction.
ShrinkAfter(r) == IF shrink.rt = r /\ shrink.at = "pending" THEN NoShrink ELSE shrink

\* completeTurn: the first completion of a turn is the one that counts.
Completed(by) == IF run.by = "none" THEN [run EXCEPT !.by = by] ELSE run

\* dispose: the child is asked to exit, and not waited for.
Disposes(r) ==
  /\ client' = [client EXCEPT ![r] = None]
  /\ process' = [c \in Child |-> IF c = client[r] /\ process[c] = "live" THEN "closing"
                                 ELSE process[c]]

\* The entries of a runtime are the Session's it last served and the member's: the
\* runtime of a later Session is still found by that one.
Unrelated(r) == ~serves[r] /\ current \in {q \in CodexRt : serves[q]}

RetireRuntime(r, remove) ==
  /\ Disposes(r)
  /\ current' = IF remove /\ ~Unrelated(r) THEN None ELSE current
  /\ listed' = (listed /\ ~remove)
  /\ shrink' = ShrinkAfter(r)

Send(c, item) == starts' = [starts EXCEPT ![c] = Append(@, item)]

\* ensureClient refuses while a reset still waits for the last child.
RefusedLater(r) == FALSE
Refused(r) == retiringChild[r] # None /\ process[retiringChild[r]] # "ended"

\* connect: the child is there, and the client is the runtime's, in the maps or not.
Connects(r) ==
  \E c \in Child :
    /\ process[c] = "none" /\ \A d \in Child : process[d] = "none" => c <= d
    /\ client' = [client EXCEPT ![r] = c]
    /\ of' = [of EXCEPT ![c] = r] /\ process' = [process EXCEPT ![c] = "live"]
    /\ retiringChild' = [retiringChild EXCEPT ![r] = None]

------------------------------------------------------------------------------
\* Turns.

\* inflight, compacting, resettingContext, the member's state and its lease.
Ready == run.at = "none" /\ shrink.at = "none" /\ clearing = None /\ duty = "on"

\* runtimeFor, after sessionFor.
Found == IF identity = "due" /\ ~listed THEN None ELSE current
Unmade(r) == \A c \in Child : of[c] # r
IsRuntimeFor(r) == r = Found \/ (Found = None /\ Unmade(r) /\ \A q \in CodexRt : Unmade(q) => r <= q)

\* deliver(), up to its first wait: the runtime has a client for this Session, or
\* one for another (prepareRuntime), or none.
Prepares(r, t) ==
  \/ /\ client[r] # None /\ identity = "own"
     /\ run' = [t EXCEPT !.at = "starting"] /\ Send(client[r], t.no)
     /\ UNCHANGED <<client, process>>
  \/ /\ client[r] # None /\ identity # "own"
     /\ run' = t /\ Disposes(r) /\ UNCHANGED starts
  \/ /\ client[r] = None /\ ~Refused(r)
     /\ run' = t /\ UNCHANGED <<starts, client, process>>
  \/ /\ client[r] = None /\ Refused(r)
     /\ run' = [t EXCEPT !.at = "running", !.by = "error"]
     /\ UNCHANGED <<starts, client, process>>

DeliverTurn ==
  /\ Ready /\ Tallied("turns")
  /\ \E r \in CodexRt :
       /\ IsRuntimeFor(r)
       /\ current' = r /\ listed' = (listed \/ Found = None)
       /\ serves' = [q \in CodexRt |-> q = r \/ (identity # "due" /\ serves[q])]
       /\ spilled' = spilled \cup (IF r \in asked THEN {tally.turns + 1} ELSE {})
       /\ Prepares(r, [no |-> tally.turns + 1, rt |-> r, at |-> "spawning", by |-> "none"])
  /\ identity' = "own"
  /\ UNCHANGED <<duty, retiringChild, of, asked, shrink, clearing, overdue, cleared>>

\* The factory has spawned the child.
Spawned ==
  /\ run.at = "spawning" /\ Connects(run.rt)
  /\ run' = [run EXCEPT !.at = "handshake"]
  /\ UNCHANGED <<current, listed, agent, starts, asked, shrink, clearing, history>>

\* initialize and thread/resume are answered: turn/start is sent, whether or not
\* the turn was stopped meanwhile.
Handshaken ==
  /\ run.at = "handshake" /\ client[run.rt] # None
  /\ run' = [run EXCEPT !.at = "starting"] /\ Send(client[run.rt], run.no)
  /\ UNCHANGED <<current, listed, agent, client, retiringChild, of, process, asked, shrink, clearing, history>>

\* turn/start is answered.
Started ==
  /\ run.at = "starting" /\ client[run.rt] # None
  /\ run' = [run EXCEPT !.at = "running"]
  /\ UNCHANGED <<current, listed, agent, client, retiringChild, children, asked, shrink, clearing, history>>

\* A request fails, times out, or is rejected with its client.
RequestFails ==
  /\ run.at \in {"spawning", "handshake", "starting"}
  /\ run' = [Completed("error") EXCEPT !.at = "running"]
  /\ RetireRuntime(run.rt, FALSE)
  /\ UNCHANGED <<agent, retiringChild, of, starts, asked, clearing, history>>

\* The daemon fails at an event and returns from the generator (its finally).
TurnGivenUp ==
  /\ run.at = "running" /\ run.by = "none" /\ Tallied("exits")
  /\ run' = NoRun
  /\ RetireRuntime(run.rt, FALSE)
  /\ UNCHANGED <<agent, retiringChild, of, starts, asked, clearing, overdue, cleared, spilled>>

\* The generator is through with its requests and has yielded the completion.
TurnReturns ==
  /\ run.at = "running" /\ run.by # "none"
  /\ run' = NoRun
  /\ UNCHANGED <<current, listed, agent, client, retiringChild, children, asked, shrink, clearing, history>>

------------------------------------------------------------------------------
\* The child.

\* turn/completed of the native turn a child is at.  routeNotification takes it
\* for the active turn's, whichever turn it names; observeCompaction does not.
TurnCompleted(c) ==
  /\ process[c] = "live" /\ starts[c] # <<>>
  /\ starts' = [starts EXCEPT ![c] = Tail(@)]
  /\ LET heard == client[of[c]] = c
         item == Head(starts[c])
     IN /\ run' = IF heard /\ run.rt = of[c] /\ run.at # "none"
                  THEN Completed(IF item = run.no THEN "own" ELSE "other") ELSE run
        /\ shrink' = IF heard /\ item = CompactTurn THEN ShrinkAfter(of[c]) ELSE shrink
  /\ UNCHANGED <<current, listed, agent, client, retiringChild, of, process, asked, clearing, history>>

ChildEnds(c) ==
  /\ process[c] = "closing"
  /\ process' = [process EXCEPT ![c] = "ended"]
  /\ UNCHANGED <<current, listed, agent, client, retiringChild, of, starts, run, asked, shrink, clearing, history>>

\* A child exits by itself (handleClientClose).
RunKeptAfterExit(c) == run
RunAfterExit(c) ==
  IF client[of[c]] = c /\ run.rt = of[c] /\ run.at # "none" THEN Completed("error") ELSE run

ChildExits(c) ==
  /\ process[c] = "live" /\ Tallied("exits")
  /\ process' = [process EXCEPT ![c] = "ended"]
  /\ LET heard == client[of[c]] = c
     IN /\ client' = IF heard THEN [client EXCEPT ![of[c]] = None] ELSE client
        /\ run' = RunAfterExit(c)
        /\ shrink' = IF heard THEN ShrinkAfter(of[c]) ELSE shrink
  /\ UNCHANGED <<current, listed, agent, retiringChild, of, starts, asked, clearing, overdue, cleared,
                 spilled>>

------------------------------------------------------------------------------
\* The operator.

\* interruptMember, or killMember.
Stops == duty = "on" /\ current # None /\ duty' \in {"on", "killed"}
Stoppable == run.rt = current /\ run.at # "none" /\ run.by = "none"

\* interrupt(): without a client, or before the id of the native turn is known,
\* the runtime is retired at once; otherwise when turn/interrupt is answered.
InterruptNow ==
  /\ Stops /\ Tallied("interrupts")
  /\ \/ ~Stoppable /\ UNCHANGED run
     \/ /\ Stoppable /\ (client[current] = None \/ run.at # "running")
        /\ run' = Completed("stop")
  /\ RetireRuntime(current, TRUE)
  /\ UNCHANGED <<serves, identity, retiringChild, of, starts, asked, clearing, overdue, cleared, spilled>>

InterruptAsks ==
  /\ Stops /\ Stoppable /\ Tallied("interrupts")
  /\ client[current] # None /\ run.at \in {"starting", "running"}
  /\ run' = Completed("stop") /\ asked' = asked \cup {current}
  /\ UNCHANGED <<current, listed, serves, identity, client, retiringChild, children, shrink, clearing,
                 overdue, cleared, spilled>>

\* The answer to turn/interrupt, its timeout, or its rejection.
InterruptAnswered(r) ==
  /\ r \in asked /\ asked' = asked \ {r}
  /\ RetireRuntime(r, TRUE)
  /\ UNCHANGED <<agent, retiringChild, of, starts, run, clearing, history>>

\* configureMember, and the release to a terminal (acquireAttachLease).
Change ==
  /\ Tallied("changes") /\ duty = "on"
  /\ \/ identity' = "due" /\ UNCHANGED duty
     \/ /\ run.at = "none" /\ clearing = None
        /\ duty' = "terminal" /\ UNCHANGED identity
  /\ UNCHANGED <<current, listed, serves, client, retiringChild, children, run, asked, shrink, clearing,
                 overdue, cleared, spilled>>

\* reviveMember and finishAttachLease make a Session: its runtime is the member's.
BackOnDuty ==
  /\ duty # "on" /\ duty' = "on"
  /\ identity' = IF identity = "due" THEN "due" ELSE "new"
  /\ serves' = [r \in CodexRt |-> FALSE]
  /\ current' = IF listed THEN current ELSE None
  /\ UNCHANGED <<listed, client, retiringChild, children, run, asked, shrink, clearing, history>>

\* compactSession.
Compact ==
  /\ Ready /\ current # None /\ Tallied("compactions")
  /\ \/ /\ client[current] # None
        /\ shrink' = [rt |-> current, at |-> "pending"] /\ Send(client[current], CompactTurn)
     \/ /\ client[current] = None /\ ~Refused(current)
        /\ shrink' = [rt |-> current, at |-> "spawning"] /\ UNCHANGED starts
  /\ UNCHANGED <<current, listed, agent, client, retiringChild, of, process, run, asked, clearing, overdue,
                 cleared, spilled>>

CompactConnects ==
  /\ shrink.at = "spawning" /\ Connects(shrink.rt)
  /\ shrink' = [shrink EXCEPT !.at = "handshake"]
  /\ UNCHANGED <<current, listed, agent, starts, run, asked, clearing, history>>

CompactStarts ==
  /\ shrink.at = "handshake" /\ client[shrink.rt] # None
  /\ shrink' = [shrink EXCEPT !.at = "pending"] /\ Send(client[shrink.rt], CompactTurn)
  /\ UNCHANGED <<current, listed, agent, client, retiringChild, of, process, run, asked, clearing, history>>

\* Its requests are bounded, and so is the wait for its turn/completed; only a
\* failed connect disposes the client.
CompactFails ==
  /\ shrink.at # "none" /\ shrink' = NoShrink
  /\ overdue' = (overdue \/ shrink.at = "pending")
  /\ \/ shrink.at = "handshake" /\ Disposes(shrink.rt)
     \/ shrink.at # "handshake" /\ UNCHANGED <<client, process>>
  /\ UNCHANGED <<current, listed, agent, retiringChild, of, starts, run, asked, clearing, cleared, spilled,
                 tally>>

\* resetSession: the runtime is forgotten when its child is known to have exited.
ResetSession ==
  /\ Ready /\ current # None /\ Tallied("clears")
  /\ retiringChild' = [retiringChild EXCEPT ![current] =
                         IF client[current] # None THEN client[current] ELSE @]
  /\ clearing' = current
  /\ cleared' = (cleared \cup {retiringChild'[current]}) \ {None}
  /\ RetireRuntime(current, FALSE)
  /\ UNCHANGED <<agent, of, starts, run, asked, overdue, spilled>>

ResetConfirmed ==
  /\ clearing # None /\ ~Refused(clearing)
  /\ retiringChild' = [retiringChild EXCEPT ![clearing] = None]
  /\ clearing' = None /\ current' = None /\ listed' = FALSE
  /\ identity' = "new" /\ serves' = [r \in CodexRt |-> FALSE]
  /\ UNCHANGED <<duty, client, children, run, asked, shrink, history>>

ResetGivesUp ==
  /\ clearing # None /\ Refused(clearing)
  /\ clearing' = None
  /\ UNCHANGED <<current, listed, agent, client, retiringChild, children, run, asked, shrink, history>>

------------------------------------------------------------------------------
CodexNext ==
  \/ DeliverTurn \/ Spawned \/ Handshaken \/ Started \/ RequestFails \/ TurnGivenUp \/ TurnReturns
  \/ \E c \in Child : TurnCompleted(c) \/ ChildEnds(c) \/ ChildExits(c)
  \/ InterruptNow \/ InterruptAsks \/ \E r \in CodexRt : InterruptAnswered(r)
  \/ Change \/ BackOnDuty
  \/ Compact \/ CompactConnects \/ CompactStarts \/ CompactFails
  \/ ResetSession \/ ResetConfirmed \/ ResetGivesUp

\* A step that makes a child.
Connected == \E c \in Child : process[c] = "none" /\ process'[c] = "live"

CodexSpec == CodexInit /\ [][CodexNext]_codexVars

------------------------------------------------------------------------------
\* A turn under way has a client that can tell its end, and is completed by the
\* turn/completed of its own native turn, unless it began before the stop of the
\* last turn was answered, or a compaction was given up before it (interrupt,
\* retireRuntime, handleClientClose, routeNotification).
ServedByItsClient ==
  run.no \notin spilled =>
    /\ run.at = "running" /\ run.by = "none" =>
         /\ client[run.rt] # None /\ process[client[run.rt]] = "live"
         /\ \E i \in DOMAIN starts[client[run.rt]] : starts[client[run.rt]][i] = run.no
    /\ run.by = "other" => overdue

\* No child is connected beside one that a context reset asked to exit, whether
\* the reset confirmed its exit or gave up, if nobody has stopped the agent
\* (resetSession, ensureClient).
ResetChildIsAlone ==
  [][Connected /\ tally.interrupts = 0 => \A c \in cleared : process[c] = "ended"]_codexVars

\* ... without the exceptions.  The turn after a stopped one begins before
\* turn/interrupt is answered: it ends by the old turn's completion, fails with
\* the retirement, or is left without a client and never ends.
AlwaysHasAClient == run.at = "running" /\ run.by = "none" => client[run.rt] # None

\* A stop that comes while the child is being spawned: turn/start is sent all the
\* same, by a runtime that is in no map any more.
StoppedIsNotStarted == [][Handshaken => run.by # "stop"]_codexVars

\* A stop of an agent whose reset gave up forgets the runtime, and with it the
\* child that has not exited.
ResetChildIsAlwaysAlone ==
  [][Connected => \A c \in cleared : process[c] = "ended"]_codexVars

\* One child at a time works for the agent: retireRuntime does not wait for its exit.
OneChild == Cardinality({c \in Child : process[c] \in {"live", "closing"}}) <= 1
=============================================================================
