---------------------------- MODULE ClaudeRuntime ----------------------------
(***************************************************************************)
(* The Claude Code adapter (adapters/claude-code/src/adapter.ts) under one *)
(* agent of the daemon.  An SDK query, here an engine, outlives turns; it  *)
(* is retired when the agent is stopped, killed or reset, when a turn is   *)
(* given up, and before a turn of another Session: every Session object    *)
(* carries its own credential (issueMemberCredential), so a configuration, *)
(* a revival and a terminal all change the identity that prepareRuntime    *)
(* compares.  The adapter finds the runtime of a Session object by         *)
(* identity and, for a new object, by the member's key.                    *)
(*                                                                         *)
(* The daemon never overlaps a turn, a compaction and a reset of one agent *)
(* (TurnLifecycle, AttachCustody).  The engine is external: it takes its   *)
(* inputs in order, ends each with a result, and may be silent or exit.    *)
(***************************************************************************)
EXTENDS Naturals, Sequences, FiniteSets

CONSTANTS
  MaxTurn,      \* bound: turns delivered
  MaxSession,   \* bound: Session objects
  MaxStop,      \* bound: stops and kills
  MaxConfigure, \* bound: configurations, and releases to a terminal
  MaxCompact,   \* bound: compactions
  MaxReset,     \* bound: context resets
  MaxExit       \* bound: engines that exit by themselves, and turns given up

ASSUME ClaudeAssumption ==
  {MaxTurn, MaxSession, MaxStop, MaxConfigure, MaxCompact, MaxReset, MaxExit} \subseteq Nat

Absent == 0
Compaction == 0            \* the input `/compact'; other inputs are turns
Compacted == MaxTurn + 1   \* ... when the engine has told its boundary, and not its end
Session == 1..MaxSession
Runtime == Session         \* a runtime is created for a session
Engine == 1..(MaxTurn + MaxCompact)

VARIABLES
  session,     \* the daemon's cached Session, or Absent
  stale,       \* has the agent been configured since?
  dead,        \* has it been killed?
  sessions,    \* Session objects made so far
  runtimes,    \* Session -> runtime, the adapter's WeakMap
  memberRuntime, \* the member's entry of memberRuntimes
  query,       \* Runtime -> its current engine
  retiring,    \* Runtime -> the engine being retired
  removing,    \* Runtime -> does a retirement remove the member's entry?
  bound,       \* Runtime -> the Session it was last prepared for
  owner,       \* Engine -> [rt, ses] it was made for; Absent before
  life,        \* Engine -> none, live, closing, ended
  inputs,      \* Engine -> inputs it has not ended yet
  turn,        \* the daemon's turn
  compact,     \* its compaction
  resetting,   \* its reset: the runtime, or Absent
  terminal,    \* is the agent released to a terminal?
  behind,      \* engines that lived while a terminal wrote their session
  late,        \* was a compaction let go while its engine still works on it?
  missed,      \* turns stopped while they waited for a retirement
  used       \* what the bounds count

claudeVars == <<session, stale, dead, sessions, runtimes, memberRuntime, query, retiring,
                removing, bound, owner, life, inputs, turn, compact, resetting,
                terminal, behind, late, missed, used>>
daemonVars == <<session, stale, dead, sessions>>
maps == <<runtimes, memberRuntime>>
engines == <<owner, life, inputs>>
runtimeVars == <<query, retiring, removing>>
attachVars == <<terminal, behind>>
others == <<bound, attachVars, late, missed, used>>

NoTurn == [no |-> 0, rt |-> Absent, phase |-> "none", by |-> "none"]
NoCompaction == [rt |-> Absent, phase |-> "none"]
Limits == [turns |-> MaxTurn, stops |-> MaxStop, configures |-> MaxConfigure,
           compacts |-> MaxCompact, resets |-> MaxReset, exits |-> MaxExit]
Counted(k) == used[k] < Limits[k] /\ used' = [used EXCEPT ![k] = @ + 1]

ClaudeTypeOK ==
  /\ session \in Session \cup {Absent} /\ {stale, dead, late} \subseteq BOOLEAN
  /\ sessions \in 0..MaxSession
  /\ runtimes \in [Session -> Runtime \cup {Absent}]
  /\ memberRuntime \in Runtime \cup {Absent}
  /\ query \in [Runtime -> Engine \cup {Absent}] /\ retiring \in [Runtime -> Engine \cup {Absent}]
  /\ removing \in [Runtime -> BOOLEAN]
  /\ owner \in [Engine -> [rt : Runtime \cup {Absent}, ses : 0..MaxSession]]
  /\ bound \in [Runtime -> 0..MaxSession]
  /\ life \in [Engine -> {"none", "live", "closing", "ended"}]
  /\ inputs \in [Engine -> Seq(0..Compacted)]
  /\ turn \in [no : 0..MaxTurn, rt : Runtime \cup {Absent},
               phase : {"none", "waits", "active", "done"},
               by : {"none", "own", "other", "stop", "error"}]
  /\ compact \in [rt : Runtime \cup {Absent}, phase : {"none", "waits", "pending"}]
  /\ resetting \in Runtime \cup {Absent} /\ missed \subseteq 1..MaxTurn
  /\ terminal \in BOOLEAN /\ behind \subseteq Engine

ClaudeInit ==
  /\ session = Absent /\ stale = FALSE /\ dead = FALSE /\ sessions = 0
  /\ runtimes = [s \in Session |-> Absent] /\ memberRuntime = Absent
  /\ query = [r \in Runtime |-> Absent] /\ retiring = [r \in Runtime |-> Absent]
  /\ removing = [r \in Runtime |-> FALSE]
  /\ owner = [e \in Engine |-> [rt |-> Absent, ses |-> Absent]]
  /\ bound = [r \in Runtime |-> Absent] /\ terminal = FALSE /\ behind = {}
  /\ life = [e \in Engine |-> "none"] /\ inputs = [e \in Engine |-> <<>>]
  /\ turn = NoTurn /\ compact = NoCompaction /\ resetting = Absent
  /\ late = FALSE /\ missed = {} /\ used = [k \in DOMAIN Limits |-> 0]

------------------------------------------------------------------------------
\* The runtime.

Unused == CHOOSE e \in Engine : life[e] = "none" /\ \A f \in Engine : life[f] = "none" => e <= f

\* ensureQuery and the push of an input: the current engine, or a new one.
Input(r, s, item) ==
  LET e == IF query[r] # Absent THEN query[r] ELSE Unused
  IN  /\ query' = [query EXCEPT ![r] = e]
      /\ life' = [life EXCEPT ![e] = "live"]
      /\ owner' = IF query[r] # Absent THEN owner
                  ELSE [owner EXCEPT ![e] = [rt |-> r, ses |-> s]]
      /\ inputs' = [inputs EXCEPT ![e] = Append(@, item)]
      /\ UNCHANGED <<retiring, removing>>

\* retireQuery: the runtime forgets its engine at once and waits for its end.  One
\* that joins an earlier retirement removes the member's entry if it waits that out.
Retire(r, remove) ==
  /\ retiring' = [retiring EXCEPT ![r] = IF @ = Absent THEN query[r] ELSE @]
  /\ query' = [query EXCEPT ![r] = Absent]
  /\ life' = [e \in Engine |-> IF e = query[r] THEN "closing" ELSE life[e]]
  /\ IF retiring'[r] = Absent
     THEN /\ memberRuntime' = IF remove THEN Absent ELSE memberRuntime
          /\ UNCHANGED removing
     ELSE /\ \E waited \in BOOLEAN :
               /\ waited \/ retiring[r] # Absent
               /\ removing' = [removing EXCEPT ![r] = @ \/ (remove /\ waited)]
          /\ UNCHANGED memberRuntime
  /\ UNCHANGED <<owner, inputs>>

\* failCompaction of retireQuery.
CompactionAfterRetirement(r) ==
  IF compact = [rt |-> r, phase |-> "pending"] THEN NoCompaction ELSE compact

\* retireQuery confirms the end of the engine, and of its pump.
RetiredAtOnce(r) == retiring[r] # Absent
Retired(r) == retiring[r] # Absent /\ life[retiring[r]] = "ended"

Retirement(r) ==
  /\ Retired(r)
  /\ retiring' = [retiring EXCEPT ![r] = Absent]
  /\ removing' = [removing EXCEPT ![r] = FALSE]
  /\ memberRuntime' = IF removing[r] THEN Absent ELSE memberRuntime
  /\ UNCHANGED <<daemonVars, runtimes, query, engines, turn, compact, resetting, others>>

\* liveRuntime.
LiveRuntime(s) ==
  IF s = Absent THEN Absent ELSE IF runtimes[s] # Absent THEN runtimes[s] ELSE memberRuntime

------------------------------------------------------------------------------
\* Turns.

\* sessionFor, with a fresh Session after a configuration or a reset, and runtimeFor.
Bind(s) ==
  /\ session' = s /\ sessions' = IF s > sessions THEN s ELSE sessions
  /\ IF runtimes[s] # Absent THEN UNCHANGED maps
     ELSE LET r == IF memberRuntime # Absent THEN memberRuntime ELSE s
          IN runtimes' = [runtimes EXCEPT ![s] = r] /\ memberRuntime' = r

\* What keeps a turn, a compaction, a reset and a terminal of one agent apart:
\* inflight, compacting, resettingContext and the lease.
ApartButForCompaction == ~terminal /\ turn.phase = "none" /\ resetting = Absent /\ ~dead
Apart == ~terminal /\ turn.phase = "none" /\ compact.phase = "none" /\ resetting = Absent /\ ~dead

\* deliver(), up to its first wait: the runtime retires, or its engine was made
\* for another Session (prepareRuntime), or the turn begins, or no engine can be made.
Begins(r, s, t) ==
  \/ /\ retiring[r] # Absent
     /\ turn' = t
     /\ UNCHANGED <<runtimeVars, engines>>
  \/ /\ retiring[r] = Absent /\ query[r] # Absent /\ owner[query[r]].ses # s
     /\ retiring' = [retiring EXCEPT ![r] = query[r]]
     /\ query' = [query EXCEPT ![r] = Absent]
     /\ life' = [life EXCEPT ![query[r]] = "closing"]
     /\ turn' = t
     /\ UNCHANGED <<removing, owner, inputs>>
  \/ /\ retiring[r] = Absent
     /\ query[r] # Absent => owner[query[r]].ses = s
     /\ turn' = [t EXCEPT !.phase = "active"]
     /\ Input(r, s, t.no)
  \/ /\ retiring[r] = Absent /\ query[r] = Absent
     /\ turn' = [t EXCEPT !.phase = "done", !.by = "error"]
     /\ UNCHANGED <<runtimeVars, engines>>

Deliver ==
  /\ Apart /\ Counted("turns")
  /\ \E s \in Session :
       /\ s = IF session = Absent \/ stale THEN sessions + 1 ELSE session
       /\ Bind(s)
       /\ bound' = [bound EXCEPT ![runtimes'[s]] = s]
       /\ Begins(runtimes'[s], s, [no |-> used.turns + 1, rt |-> runtimes'[s],
                                    phase |-> "waits", by |-> "none"])
  /\ stale' = FALSE
  /\ UNCHANGED <<dead, compact, resetting, attachVars, late, missed>>

\* ... and behind it.
Resume ==
  /\ turn.phase = "waits" /\ retiring[turn.rt] = Absent
  /\ turn' = [turn EXCEPT !.phase = "active"]
  /\ Input(turn.rt, bound[turn.rt], turn.no)
  /\ UNCHANGED <<daemonVars, maps, compact, resetting, others>>

\* The bounded wait throws out of deliver(), or no engine can be made behind it.
WaitTimesOut ==
  /\ turn.phase = "waits"
  /\ turn' = [turn EXCEPT !.phase = "done", !.by = "error"]
  /\ UNCHANGED <<daemonVars, maps, runtimeVars, engines, compact, resetting, others>>

\* The turn fails when its engine is there (deliver's catch), or the daemon fails
\* at one of its events and returns from the generator (its finally).
GivenUp ==
  /\ turn.phase = "active" /\ Counted("exits")
  /\ turn' \in {NoTurn, [turn EXCEPT !.phase = "done", !.by = "error"]}
  /\ compact' = CompactionAfterRetirement(turn.rt)
  /\ Retire(turn.rt, FALSE)
  /\ UNCHANGED <<daemonVars, runtimes, resetting, bound, attachVars, late, missed>>

\* The daemon has taken the last event and finalized the turn.
Returns ==
  /\ turn.phase = "done"
  /\ turn' = NoTurn
  /\ UNCHANGED <<daemonVars, maps, runtimeVars, engines, compact, resetting, others>>

------------------------------------------------------------------------------
\* The engine.

\* The engine ends an input.  runQueryPump drops what a retired engine says;
\* routeMessage gives a result to the turn, if there is one, and
\* observeCompaction to a pending compaction otherwise.
RoutedTo(e, r) == query[r] = e

Result(e) ==
  /\ life[e] \in {"live", "closing"} /\ inputs[e] # <<>>
  /\ inputs' = [inputs EXCEPT ![e] = Tail(@)]
  /\ LET r == owner[e].rt
         mine == turn.phase = "active" /\ turn.rt = r
     IN \/ /\ RoutedTo(e, r) /\ mine
           /\ turn' = [turn EXCEPT !.phase = "done",
                                   !.by = IF Head(inputs[e]) = turn.no THEN "own" ELSE "other"]
           /\ UNCHANGED compact
        \/ /\ RoutedTo(e, r) /\ ~mine
           /\ compact' = CompactionAfterRetirement(r)
           /\ UNCHANGED turn
        \/ /\ ~RoutedTo(e, r) /\ UNCHANGED <<turn, compact>>
  /\ UNCHANGED <<daemonVars, maps, runtimeVars, owner, life, resetting, others>>

\* The engine tells the boundary of a compaction: observeCompaction settles it
\* there, and the result of the input is still to come.
Boundary(e) ==
  /\ life[e] \in {"live", "closing"} /\ inputs[e] # <<>> /\ Head(inputs[e]) = Compaction
  /\ inputs' = [inputs EXCEPT ![e] = <<Compacted>> \o Tail(@)]
  /\ LET settles == /\ RoutedTo(e, owner[e].rt) /\ turn.phase # "active"
                    /\ compact = [rt |-> owner[e].rt, phase |-> "pending"]
     IN /\ compact' = IF settles THEN NoCompaction ELSE compact
        /\ late' = (late \/ settles)
  /\ UNCHANGED <<daemonVars, maps, runtimeVars, owner, life, turn, resetting, bound,
                 attachVars, missed, used>>

\* A retired engine ends.
Ends(e) ==
  /\ life[e] = "closing"
  /\ life' = [life EXCEPT ![e] = "ended"]
  /\ UNCHANGED <<daemonVars, maps, runtimeVars, owner, inputs, turn, compact, resetting, others>>

\* An engine exits by itself (runQueryPump, its finally).
Exits(e) ==
  /\ life[e] = "live" /\ Counted("exits")
  /\ life' = [life EXCEPT ![e] = "ended"]
  /\ LET r == owner[e].rt
     IN /\ query' = [query EXCEPT ![r] = Absent]
        /\ turn' = IF turn.phase = "active" /\ turn.rt = r
                   THEN [turn EXCEPT !.phase = "done", !.by = "error"] ELSE turn
        /\ compact' = CompactionAfterRetirement(r)
  /\ UNCHANGED <<daemonVars, maps, retiring, removing, owner, inputs, resetting, bound,
                 attachVars, late, missed>>

------------------------------------------------------------------------------
\* The operator.

\* interrupt().
StoppedTurnLater(r) == turn
StoppedTurn(r) ==
  IF turn.phase = "active" /\ turn.rt = r
  THEN [turn EXCEPT !.phase = "done", !.by = "stop"] ELSE turn

Interrupt ==
  LET r == LiveRuntime(session)
  IN IF r = Absent THEN UNCHANGED <<maps, runtimeVars, engines, turn, compact>>
     ELSE /\ turn' = StoppedTurn(r)
          /\ compact' = CompactionAfterRetirement(r)
          /\ Retire(r, TRUE)
          /\ UNCHANGED runtimes

\* interruptMember, killMember.
Stop ==
  /\ session # Absent /\ ~dead /\ Counted("stops")
  /\ Interrupt
  /\ missed' = missed \cup (IF turn.phase = "waits" THEN {turn.no} ELSE {})
  /\ dead' \in BOOLEAN
  /\ UNCHANGED <<session, stale, sessions, resetting, bound, attachVars, late>>

\* reviveMember: a fresh Session.
Revive ==
  /\ dead /\ sessions < MaxSession
  /\ dead' = FALSE
  /\ session' = sessions + 1 /\ sessions' = sessions + 1
  /\ UNCHANGED <<stale, maps, runtimeVars, engines, turn, compact, resetting, others>>

Configure ==
  /\ ~dead /\ ~stale /\ session # Absent /\ Counted("configures")
  /\ stale' = TRUE
  /\ UNCHANGED <<session, dead, sessions, maps, runtimeVars, engines, turn, compact, resetting,
                 bound, attachVars, late, missed>>

\* compactSession: of an idle agent that has a runtime.
CompactSession ==
  /\ Apart /\ LiveRuntime(session) # Absent /\ Counted("compacts")
  /\ LET r == LiveRuntime(session)
     IN \/ /\ retiring[r] # Absent
           /\ compact' = [rt |-> r, phase |-> "waits"]
           /\ UNCHANGED <<runtimeVars, engines>>
        \/ /\ retiring[r] = Absent
           /\ compact' = [rt |-> r, phase |-> "pending"]
           /\ Input(r, bound[r], Compaction)
  /\ UNCHANGED <<daemonVars, maps, turn, resetting, bound, attachVars, late, missed>>

CompactionResumes ==
  /\ compact.phase = "waits" /\ retiring[compact.rt] = Absent
  /\ compact' = [compact EXCEPT !.phase = "pending"]
  /\ Input(compact.rt, bound[compact.rt], Compaction)
  /\ UNCHANGED <<daemonVars, maps, turn, resetting, others>>

\* Either wait of it, for the retirement or for the boundary, is bounded.
CompactionTimesOut ==
  /\ compact.phase # "none"
  /\ compact' = NoCompaction
  /\ late' = (late \/ compact.phase = "pending")
  /\ UNCHANGED <<daemonVars, maps, runtimeVars, engines, turn, resetting, bound, attachVars,
                 missed, used>>

\* clearMemberContext, resetSession: without a runtime there is nothing to wait for.
Reset ==
  /\ Apart /\ session # Absent /\ Counted("resets")
  /\ LET r == LiveRuntime(session)
     IN \/ /\ r = Absent
           /\ session' = Absent /\ stale' = FALSE
           /\ UNCHANGED <<maps, runtimeVars, engines, resetting>>
        \/ /\ r # Absent
           /\ Retire(r, TRUE) /\ resetting' = r
           /\ UNCHANGED <<session, stale, runtimes>>
  /\ UNCHANGED <<dead, sessions, turn, compact, bound, attachVars, late, missed>>

ResetEnds ==
  /\ resetting # Absent
  /\ \/ /\ retiring[resetting] = Absent
        /\ runtimes' = [runtimes EXCEPT ![session] = Absent]
        /\ session' = Absent /\ stale' = FALSE
     \/ /\ retiring[resetting] # Absent       \* the bounded wait throws
        /\ UNCHANGED <<runtimes, session, stale>>
  /\ resetting' = Absent
  /\ UNCHANGED <<dead, sessions, memberRuntime, runtimeVars, engines, turn, compact, others>>

\* acquireAttachLease forgets the Session and says nothing to the adapter;
\* finishAttachLease makes a new one, with a new credential (attachedSession).
Attach ==
  /\ ApartButForCompaction /\ session # Absent /\ Counted("configures")
  /\ terminal' = TRUE /\ session' = Absent
  /\ behind' = behind \cup {e \in Engine : life[e] = "live"}
  /\ UNCHANGED <<stale, dead, sessions, maps, runtimeVars, engines, turn, compact, resetting,
                 bound, late, missed>>

Detach ==
  /\ terminal /\ sessions < MaxSession
  /\ terminal' = FALSE
  /\ session' = sessions + 1 /\ sessions' = sessions + 1
  /\ UNCHANGED <<stale, dead, maps, runtimeVars, engines, turn, compact, resetting, bound,
                 behind, late, missed, used>>

------------------------------------------------------------------------------
ClaudeNext ==
  \/ Deliver \/ Resume \/ WaitTimesOut \/ GivenUp \/ Returns
  \/ \E r \in Runtime : Retirement(r)
  \/ \E e \in Engine : Result(e) \/ Boundary(e) \/ Ends(e) \/ Exits(e)
  \/ Stop \/ Revive \/ Configure
  \/ CompactSession \/ CompactionResumes \/ CompactionTimesOut \/ Reset \/ ResetEnds
  \/ Attach \/ Detach

ClaudeSpec == ClaudeInit /\ [][ClaudeNext]_claudeVars

------------------------------------------------------------------------------
\* Two engines never work for one runtime: the next is made only when the last
\* one, retired or crashed, is known to have ended (retireQuery, ensureQuery).
EngineIsAlone ==
  \A r \in Runtime :
    Cardinality({e \in Engine : owner[e].rt = r /\ life[e] \in {"live", "closing"}}) <= 1

\* A turn is served by its engine: while it is under way the engine of its
\* runtime lives, has seen all that terminals wrote to the session, and has the
\* payload before it, whatever is stopped, reset, compacted, configured or released;
\* and the result that ends the turn is that payload's, unless a compaction was
\* let go before it (interrupt, prepareRuntime, runQueryPump, routeMessage).
ServedByItsEngine ==
  /\ turn.phase = "active" =>
       /\ query[turn.rt] # Absent /\ life[query[turn.rt]] = "live"
       /\ query[turn.rt] \notin behind
       /\ \E i \in DOMAIN inputs[query[turn.rt]] : inputs[query[turn.rt]][i] = turn.no
  /\ turn.by = "other" => late

\* ... without the exceptions.  A compaction that was given up is ended by its
\* engine when the next turn is under way: the turn ends by that result.  So is one
\* that was settled by its boundary, if the turn begins before the result comes.
TurnsAlwaysEndByTheirOwn == turn.by # "other"

\* A stop that finds its turn waiting for an earlier retirement is lost.
NoStopIsLost == missed # {} => turn.phase # "active" \/ turn.no \notin missed

\* An agent has one engine: a stop takes its runtime out of memberRuntimes, and
\* the next Session gets another one beside it.
OneEngine == Cardinality({e \in Engine : life[e] = "live"}) <= 1

\* A compaction works on all of its session: unlike a turn it compares no identity,
\* and goes to the engine that lived through an interactive terminal.
NoCompactionIsBehind == compact.phase = "pending" => query[compact.rt] \notin behind
=============================================================================
