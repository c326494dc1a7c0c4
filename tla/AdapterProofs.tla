---------------------------- MODULE AdapterProofs ----------------------------
(***************************************************************************)
(* Theorems about ClaudeRuntime and CodexRuntime, for any number of turns, *)
(* sessions, stops, configurations, compactions, resets and releases.      *)
(***************************************************************************)
EXTENDS ClaudeRuntime, CodexRuntime, FiniteSetTheorems, SequenceTheorems, TLAPS

-----------------------------------------------------------------------------
(* ClaudeRuntime.                                                          *)

\* What the variables that the argument turns on may hold.
DaemonOK ==
  /\ session \in Session \cup {Absent} /\ sessions \in 0..MaxSession
  /\ runtimes \in [Session -> Runtime \cup {Absent}]
  /\ memberRuntime \in Runtime \cup {Absent}
RuntimesOK ==
  /\ query \in [Runtime -> Engine \cup {Absent}]
  /\ retiring \in [Runtime -> Engine \cup {Absent}]
EnginesOK ==
  /\ owner \in [Engine -> [rt : Runtime \cup {Absent}, ses : 0..MaxSession]]
  /\ life \in [Engine -> {"none", "live", "closing", "ended"}]
  /\ inputs \in [Engine -> Seq(0..Compacted)]
WorkOK ==
  /\ turn \in [no : 0..MaxTurn, rt : Runtime \cup {Absent},
               phase : {"none", "waits", "active", "done"},
               by : {"none", "own", "other", "stop", "error"}]
  /\ compact \in [rt : Runtime \cup {Absent}, phase : {"none", "waits", "pending"}]
  /\ turn.phase \in {"waits", "active"} => turn.rt \in Runtime /\ turn.no # Compaction
  /\ compact.phase # "none" => compact.rt \in Runtime
UsedOK ==
  /\ used \in [{"turns", "stops", "configures", "compacts", "resets", "exits"} -> Nat]
  /\ used["turns"] <= MaxTurn /\ used["compacts"] <= MaxCompact
BoundOK == bound \in [Runtime -> 0..MaxSession]

\* Engines are made in order, one for a turn or a compaction that does not wait.
Waits(phase) == IF phase = "waits" THEN 1 ELSE 0
EnginesSuffice ==
  \E k \in 0..(MaxTurn + MaxCompact) :
    /\ \A e \in Engine : life[e] # "none" <=> e <= k
    /\ k + Waits(turn.phase) + Waits(compact.phase) <= used["turns"] + used["compacts"]

\* A runtime has an engine it works with or one it retires, and every engine
\* that has not ended is known to its runtime as the one or the other.
CurrentOK ==
  \A r \in Runtime : query[r] # Absent =>
    life[query[r]] = "live" /\ owner[query[r]].rt = r /\ retiring[r] = Absent
RetiringOK ==
  \A r \in Runtime : retiring[r] # Absent =>
    life[retiring[r]] \in {"closing", "ended"} /\ owner[retiring[r]].rt = r
KnownOK ==
  \A e \in Engine :
    /\ life[e] = "live" => owner[e].rt \in Runtime /\ query[owner[e].rt] = e
    /\ life[e] = "closing" => owner[e].rt \in Runtime /\ retiring[owner[e].rt] = e
    /\ life[e] = "none" => inputs[e] = <<>>

\* Until a compaction is let go, an engine has before it what the daemon waits
\* for and nothing else.
Exclusive == turn.phase # "none" => compact.phase = "none"
Before(r) ==
  IF turn.phase = "active" /\ turn.rt = r THEN <<turn.no>>
  ELSE IF compact = [rt |-> r, phase |-> "pending"] THEN <<Compaction>>
  ELSE <<>>
Served ==
  turn.phase = "active" =>
    /\ query[turn.rt] # Absent /\ life[query[turn.rt]] = "live"
    /\ \E i \in DOMAIN inputs[query[turn.rt]] : inputs[query[turn.rt]][i] = turn.no
OwnResult == turn.by = "other" => late
OnTime == ~late => \A r \in Runtime : query[r] # Absent => inputs[query[r]] = Before(r)

\* What the runtimes and the engines keep together.
EnginesKept == RuntimesOK /\ EnginesOK /\ CurrentOK /\ RetiringOK /\ KnownOK

\* The inductive invariant.
ClaudeIInv ==
  /\ DaemonOK /\ EnginesKept /\ WorkOK /\ UsedOK /\ BoundOK /\ EnginesSuffice
  /\ Exclusive /\ OnTime /\ Served /\ OwnResult

-----------------------------------------------------------------------------
\* The engines made so far are the first k.
Made(k) == \A e \in Engine : life[e] # "none" <=> e <= k

\* The engine that is made next is the one after the last.
LEMMA UnusedIsNext ==
  ASSUME NEW k \in Nat, k < MaxTurn + MaxCompact, Made(k)
  PROVE  Unused = k + 1 /\ k + 1 \in Engine
<1>1. MaxTurn + MaxCompact \in Nat
  BY ClaudeAssumption
<1>2. k + 1 \in Engine
  BY <1>1 DEF Engine
<1>3. life[k + 1] = "none"
  BY <1>2 DEF Made, Engine
<1>4. \A e \in Engine : life[e] = "none" => k + 1 <= e
  BY DEF Made, Engine
<1> DEFINE P(e) == life[e] = "none" /\ \A f \in Engine : life[f] = "none" => e <= f
<1>5. P(k + 1)
  BY <1>3, <1>4
<1>6. \A e \in Engine : P(e) => e = k + 1
  BY <1>2, <1>3, <1>4 DEF Engine
<1>7. Unused = CHOOSE e \in Engine : P(e)
  BY DEF Unused
<1> HIDE DEF P
<1>8. Unused \in Engine /\ P(Unused)
  BY <1>2, <1>5, <1>7
<1> QED
  BY <1>2, <1>6, <1>8

\* What an input does to the engines, whatever it is for (ensureQuery, push).
InputDone(r, item, k) ==
  /\ query'[r] # Absent /\ retiring' = retiring /\ life'[query'[r]] = "live"
  /\ \E i \in DOMAIN inputs'[query'[r]] : inputs'[query'[r]][i] = item
  /\ inputs'[query'[r]] =
       Append(IF query[r] # Absent THEN inputs[query[r]] ELSE <<>>, item)
  /\ \A s \in Runtime : s # r => query'[s] = query[s]
  /\ \A s \in Runtime : s # r /\ query[s] # Absent => inputs'[query[s]] = inputs[query[s]]
  /\ Made(k)' \/ Made(k + 1)'

LEMMA InputKeeps ==
  ASSUME EnginesKept, NEW r \in Runtime, retiring[r] = Absent,
         NEW ses \in 0..MaxSession, NEW item \in 0..Compacted,
         NEW k \in Nat, k < MaxTurn + MaxCompact, Made(k),
         Input(r, ses, item)
  PROVE  EnginesKept' /\ InputDone(r, item, k)
<1> DEFINE e == IF query[r] # Absent THEN query[r] ELSE Unused
<1>0. /\ \A s \in Runtime : query[s] \in Engine \cup {Absent}
      /\ \A s \in Runtime : retiring[s] \in Engine \cup {Absent}
      /\ Absent \notin Engine
  BY DEF EnginesKept, RuntimesOK, Absent, Engine
<1>k. /\ \A s \in Runtime : query[s] # Absent =>
           life[query[s]] = "live" /\ owner[query[s]].rt = s /\ retiring[s] = Absent
      /\ \A s \in Runtime : retiring[s] # Absent =>
           life[retiring[s]] \in {"closing", "ended"} /\ owner[retiring[s]].rt = s
  BY DEF EnginesKept, CurrentOK, RetiringOK
<1>n. \A f \in Engine :
        /\ life[f] = "live" => owner[f].rt \in Runtime /\ query[owner[f].rt] = f
        /\ life[f] = "closing" => owner[f].rt \in Runtime /\ retiring[owner[f].rt] = f
        /\ life[f] = "none" => inputs[f] = <<>>
  BY DEF EnginesKept, KnownOK
<1>t. /\ owner \in [Engine -> [rt : Runtime \cup {Absent}, ses : 0..MaxSession]]
      /\ life \in [Engine -> {"none", "live", "closing", "ended"}]
      /\ inputs \in [Engine -> Seq(0..Compacted)]
      /\ query \in [Runtime -> Engine \cup {Absent}] /\ retiring \in [Runtime -> Engine \cup {Absent}]
  BY DEF EnginesKept, RuntimesOK, EnginesOK
<1>1. /\ e \in Engine
      /\ query[r] = Absent => e = k + 1 /\ life[e] = "none"
      /\ query[r] # Absent => e = query[r] /\ life[e] = "live" /\ owner[e].rt = r
  <2>1. CASE query[r] # Absent
    BY <1>0, <1>k, <2>1
  <2>2. CASE query[r] = Absent
    <3>1. Unused = k + 1 /\ k + 1 \in Engine
      BY UnusedIsNext
    <3>2. life[k + 1] = "none"
      BY <3>1 DEF Made, Engine
    <3> QED
      BY <2>2, <3>1, <3>2
  <2> QED
    BY <2>1, <2>2
<1>3. /\ query' = [query EXCEPT ![r] = e]
      /\ life' = [life EXCEPT ![e] = "live"]
      /\ owner' = IF query[r] # Absent THEN owner
                  ELSE [owner EXCEPT ![e] = [rt |-> r, ses |-> ses]]
      /\ inputs' = [inputs EXCEPT ![e] = Append(inputs[e], item)]
      /\ retiring' = retiring
  BY DEF Input
<1> HIDE DEF e
<1>4. owner'[e].rt = r /\ life'[e] = "live" /\ query'[r] = e /\ inputs'[e] = Append(inputs[e], item)
  BY <1>1, <1>3, <1>t
<1>5. \A f \in Engine : f # e => owner'[f] = owner[f] /\ life'[f] = life[f] /\ inputs'[f] = inputs[f]
  BY <1>1, <1>3, <1>t
<1>6. \A s \in Runtime : s # r => query'[s] = query[s]
  BY <1>3, <1>t
<1>7. query' \in [Runtime -> Engine \cup {Absent}] /\ retiring' \in [Runtime -> Engine \cup {Absent}]
  BY <1>1, <1>3, <1>t
<1>8. EnginesOK'
  <2>1. owner' \in [Engine -> [rt : Runtime \cup {Absent}, ses : 0..MaxSession]]
    <3>1. [rt |-> r, ses |-> ses] \in [rt : Runtime \cup {Absent}, ses : 0..MaxSession]
      OBVIOUS
    <3> QED
      BY <1>1, <1>3, <1>t, <3>1
  <2>2. life' \in [Engine -> {"none", "live", "closing", "ended"}]
    BY <1>1, <1>3, <1>t
  <2>3. inputs' \in [Engine -> Seq(0..Compacted)]
    <3>1. Append(inputs[e], item) \in Seq(0..Compacted)
      BY <1>1, <1>t
    <3> QED
      BY <1>1, <1>3, <1>t, <3>1
  <2> QED
    BY <2>1, <2>2, <2>3 DEF EnginesOK
<1>9. \A s \in Runtime : s # r /\ query[s] # Absent => query[s] \in Engine /\ query[s] # e
  BY <1>0, <1>1, <1>k
<1>10. \A s \in Runtime : retiring[s] # Absent => retiring[s] \in Engine /\ retiring[s] # e
  BY <1>0, <1>1, <1>k
<1>11. CurrentOK'
  <2> SUFFICES ASSUME NEW s \in Runtime, query'[s] # Absent
               PROVE  life'[query'[s]] = "live" /\ owner'[query'[s]].rt = s /\ retiring'[s] = Absent
    BY DEF CurrentOK
  <2>1. CASE s = r
    BY <1>3, <1>4, <2>1
  <2>2. CASE s # r
    BY <1>3, <1>5, <1>6, <1>9, <1>k, <2>2
  <2> QED
    BY <2>1, <2>2
<1>12. RetiringOK'
  BY <1>3, <1>5, <1>10, <1>k DEF RetiringOK
<1>13. KnownOK'
  <2> SUFFICES ASSUME NEW f \in Engine
               PROVE  /\ life'[f] = "live" => owner'[f].rt \in Runtime /\ query'[owner'[f].rt] = f
                      /\ life'[f] = "closing" => owner'[f].rt \in Runtime /\ retiring'[owner'[f].rt] = f
                      /\ life'[f] = "none" => inputs'[f] = <<>>
    BY DEF KnownOK
  <2>1. CASE f = e
    BY <1>4, <2>1
  <2>2. CASE f # e
    <3>1. life[f] = "live" => owner[f].rt # r
      BY <1>0, <1>1, <1>n, <2>2
    <3> QED
      BY <1>3, <1>5, <1>6, <1>n, <2>2, <3>1
  <2> QED
    BY <2>1, <2>2
<1>14. inputs'[e] = Append(IF query[r] # Absent THEN inputs[query[r]] ELSE <<>>, item)
  <2>1. CASE query[r] # Absent
    BY <1>1, <1>4, <2>1
  <2>2. CASE query[r] = Absent
    BY <1>1, <1>4, <1>n, <2>2
  <2> QED
    BY <2>1, <2>2
<1>15. Made(k)' \/ Made(k + 1)'
  <2>1. CASE query[r] # Absent
    <3>1. \A f \in Engine : life'[f] # "none" <=> life[f] # "none"
      BY <1>1, <1>4, <1>5, <2>1
    <3> QED
      BY <3>1 DEF Made
  <2>2. CASE query[r] = Absent
    <3>1. \A f \in Engine : life'[f] # "none" <=> (f <= k \/ f = k + 1)
      BY <1>1, <1>4, <1>5, <2>2 DEF Made
    <3>2. \A f \in Engine : (f <= k \/ f = k + 1) <=> f <= k + 1
      BY DEF Engine
    <3> QED
      BY <3>1, <3>2 DEF Made
  <2> QED
    BY <2>1, <2>2
<1>16. EnginesKept'
  BY <1>7, <1>8, <1>11, <1>12, <1>13 DEF EnginesKept, RuntimesOK
<1>17. \A s \in Runtime : s # r /\ query[s] # Absent => inputs'[query[s]] = inputs[query[s]]
  BY <1>5, <1>9
<1>18. \E i \in DOMAIN inputs'[e] : inputs'[e][i] = item
  <2>1. inputs[e] \in Seq(0..Compacted)
    BY <1>1, <1>t
  <2>2. /\ Len(inputs[e]) + 1 \in DOMAIN Append(inputs[e], item)
        /\ Append(inputs[e], item)[Len(inputs[e]) + 1] = item
    BY <2>1
  <2> QED
    BY <1>4, <2>2
<1> QED
  BY <1>0, <1>1, <1>3, <1>4, <1>6, <1>14, <1>15, <1>16, <1>17, <1>18 DEF InputDone

\* What retiring its engine does to a runtime (retireQuery, prepareRuntime).
Closes(r) ==
  /\ retiring' = [retiring EXCEPT ![r] = IF retiring[r] = Absent THEN query[r] ELSE retiring[r]]
  /\ query' = [query EXCEPT ![r] = Absent]
  /\ life' = [e \in Engine |-> IF e = query[r] THEN "closing" ELSE life[e]]
  /\ UNCHANGED <<owner, inputs>>

LEMMA RetireKeeps ==
  ASSUME EnginesKept, NEW r \in Runtime, Closes(r)
  PROVE  /\ EnginesKept'
         /\ query'[r] = Absent
         /\ \A s \in Runtime : s # r => query'[s] = query[s]
         /\ \A k \in Nat : Made(k) => Made(k)'
<1>0. /\ \A s \in Runtime : query[s] \in Engine \cup {Absent}
      /\ \A s \in Runtime : retiring[s] \in Engine \cup {Absent}
      /\ Absent \notin Engine
  BY DEF EnginesKept, RuntimesOK, Absent, Engine
<1>k. /\ \A s \in Runtime : query[s] # Absent =>
           life[query[s]] = "live" /\ owner[query[s]].rt = s /\ retiring[s] = Absent
      /\ \A s \in Runtime : retiring[s] # Absent =>
           life[retiring[s]] \in {"closing", "ended"} /\ owner[retiring[s]].rt = s
  BY DEF EnginesKept, CurrentOK, RetiringOK
<1>n. \A f \in Engine :
        /\ life[f] = "live" => owner[f].rt \in Runtime /\ query[owner[f].rt] = f
        /\ life[f] = "closing" => owner[f].rt \in Runtime /\ retiring[owner[f].rt] = f
        /\ life[f] = "none" => inputs[f] = <<>>
  BY DEF EnginesKept, KnownOK
<1>t. /\ life \in [Engine -> {"none", "live", "closing", "ended"}]
      /\ query \in [Runtime -> Engine \cup {Absent}] /\ retiring \in [Runtime -> Engine \cup {Absent}]
  BY DEF EnginesKept, RuntimesOK, EnginesOK
<1>1. /\ retiring' = [retiring EXCEPT ![r] = IF retiring[r] = Absent THEN query[r] ELSE retiring[r]]
      /\ query' = [query EXCEPT ![r] = Absent]
      /\ life' = [e \in Engine |-> IF e = query[r] THEN "closing" ELSE life[e]]
      /\ owner' = owner /\ inputs' = inputs
  BY DEF Closes
<1>2. /\ query'[r] = Absent /\ \A s \in Runtime : s # r => query'[s] = query[s]
      /\ \A s \in Runtime : s # r => retiring'[s] = retiring[s]
      /\ retiring'[r] = IF retiring[r] = Absent THEN query[r] ELSE retiring[r]
      /\ \A f \in Engine : life'[f] = IF f = query[r] THEN "closing" ELSE life[f]
  BY <1>1, <1>t
<1>3. RuntimesOK'
  BY <1>0, <1>1, <1>t DEF RuntimesOK
<1>4. EnginesOK'
  <2>1. life' \in [Engine -> {"none", "live", "closing", "ended"}]
    BY <1>1, <1>t
  <2> QED
    BY <1>1, <2>1 DEF EnginesKept, EnginesOK
<1>5. CurrentOK'
  <2> SUFFICES ASSUME NEW s \in Runtime, query'[s] # Absent
               PROVE  life'[query'[s]] = "live" /\ owner'[query'[s]].rt = s /\ retiring'[s] = Absent
    BY DEF CurrentOK
  <2>1. s # r /\ query'[s] = query[s] /\ query[s] \in Engine
    BY <1>0, <1>2
  <2>2. query[s] # query[r]
    BY <1>0, <1>k, <2>1
  <2> QED
    BY <1>1, <1>2, <1>k, <2>1, <2>2
<1>6. RetiringOK'
  <2> SUFFICES ASSUME NEW s \in Runtime, retiring'[s] # Absent
               PROVE  life'[retiring'[s]] \in {"closing", "ended"} /\ owner'[retiring'[s]].rt = s
    BY DEF RetiringOK
  <2>1. CASE s = r /\ retiring[r] = Absent
    BY <1>0, <1>1, <1>2, <1>k, <2>1
  <2>2. CASE retiring[s] # Absent
    <3>1. retiring'[s] = retiring[s] /\ retiring[s] \in Engine
      BY <1>0, <1>2, <2>2
    <3> QED
      BY <1>1, <1>2, <1>k, <2>2, <3>1
  <2> QED
    BY <1>2, <2>1, <2>2
<1>7. KnownOK'
  <2> SUFFICES ASSUME NEW f \in Engine
               PROVE  /\ life'[f] = "live" => owner'[f].rt \in Runtime /\ query'[owner'[f].rt] = f
                      /\ life'[f] = "closing" => owner'[f].rt \in Runtime /\ retiring'[owner'[f].rt] = f
                      /\ life'[f] = "none" => inputs'[f] = <<>>
    BY DEF KnownOK
  <2>1. CASE f = query[r]
    <3>1. owner[f].rt = r /\ retiring[r] = Absent
      BY <1>0, <1>k, <2>1
    <3>2. life'[f] = "closing" /\ owner'[f].rt = r /\ retiring'[r] = f
      BY <1>1, <1>2, <2>1, <3>1
    <3> QED
      BY <3>2
  <2>2. CASE f # query[r]
    <3>1. life'[f] = life[f] /\ owner'[f] = owner[f] /\ inputs'[f] = inputs[f]
      BY <1>1, <1>2, <2>2
    <3>2. life[f] = "live" => owner[f].rt # r
      BY <1>n, <2>2
    <3>3. life[f] = "closing" => retiring'[owner[f].rt] = f
      BY <1>2, <1>n, <1>0
    <3> QED
      BY <1>2, <1>n, <3>1, <3>2, <3>3
  <2> QED
    BY <2>1, <2>2
<1>8. \A f \in Engine : life'[f] # "none" <=> life[f] # "none"
  BY <1>0, <1>2, <1>k
<1>9. \A k \in Nat : Made(k) => Made(k)'
  BY <1>8 DEF Made
<1> QED
  BY <1>2, <1>3, <1>4, <1>5, <1>6, <1>7, <1>9 DEF EnginesKept

\* What the bounds count.
LEMMA CountedKeeps ==
  ASSUME UsedOK, NEW k \in {"turns", "stops", "configures", "compacts", "resets", "exits"},
         Counted(k)
  PROVE  /\ UsedOK'
         /\ used'[k] = used[k] + 1
         /\ \A j \in {"turns", "stops", "configures", "compacts", "resets", "exits"} :
              used[j] \in Nat /\ used'[j] \in Nat /\ (j # k => used'[j] = used[j])
         /\ k = "turns" => used["turns"] < MaxTurn
         /\ k = "compacts" => used["compacts"] < MaxCompact
<1>1. /\ used' = [used EXCEPT ![k] = used[k] + 1]
      /\ used[k] < Limits[k]
  BY DEF Counted
<1>2. Limits["turns"] = MaxTurn /\ Limits["compacts"] = MaxCompact
  BY DEF Limits
<1>3. used[k] \in Nat /\ used'[k] = used[k] + 1
  BY <1>1 DEF UsedOK
<1>4. \A j \in {"turns", "stops", "configures", "compacts", "resets", "exits"} :
        used[j] \in Nat /\ used'[j] \in Nat /\ (j # k => used'[j] = used[j])
  BY <1>1, <1>3 DEF UsedOK
<1>5. used' \in [{"turns", "stops", "configures", "compacts", "resets", "exits"} -> Nat]
  BY <1>1, <1>3 DEF UsedOK
<1>6. used'["turns"] <= MaxTurn
  BY <1>1, <1>2, <1>3, <1>4, ClaudeAssumption DEF UsedOK
<1>7. used'["compacts"] <= MaxCompact
  BY <1>1, <1>2, <1>3, <1>4, ClaudeAssumption DEF UsedOK
<1>8. UsedOK'
  BY <1>5, <1>6, <1>7 DEF UsedOK
<1> QED
  BY <1>1, <1>2, <1>3, <1>4, <1>8

\* What a step leaves of the argument when it does nothing to an engine.
LEMMA EnginesStay ==
  ASSUME EnginesKept, UNCHANGED <<query, retiring, owner, life, inputs>>
  PROVE  EnginesKept' /\ \A k \in Nat : Made(k) => Made(k)'
BY DEF EnginesKept, RuntimesOK, EnginesOK, CurrentOK, RetiringOK, KnownOK, Made

\* A step that does nothing to an engine needs only what it does to the turn and
\* the compaction.
Idle == turn' = turn /\ compact' = compact /\ late' = late

LEMMA IdleKeeps ==
  ASSUME ClaudeIInv, Idle, UNCHANGED <<query, retiring, owner, life, inputs>>, UsedOK',
         used'["turns"] + used'["compacts"] >= used["turns"] + used["compacts"]
  PROVE  /\ EnginesKept' /\ WorkOK' /\ EnginesSuffice' /\ Exclusive' /\ OnTime'
         /\ Served' /\ OwnResult'
<1>1. EnginesKept'
  BY EnginesStay DEF ClaudeIInv
<1>2. WorkOK'
  BY DEF ClaudeIInv, WorkOK, Idle
<1>3. EnginesSuffice'
  <2>1. PICK k \in 0..(MaxTurn + MaxCompact) :
          /\ \A e \in Engine : life[e] # "none" <=> e <= k
          /\ k + Waits(turn.phase) + Waits(compact.phase) <= used["turns"] + used["compacts"]
    BY DEF ClaudeIInv, EnginesSuffice
  <2>2. k + Waits(turn.phase) + Waits(compact.phase) \in Nat
    BY ClaudeAssumption DEF Waits
  <2>3. /\ used["turns"] + used["compacts"] \in Nat
        /\ used'["turns"] + used'["compacts"] \in Nat
    BY DEF ClaudeIInv, UsedOK
  <2>4. k + Waits(turn'.phase) + Waits(compact'.phase) <= used'["turns"] + used'["compacts"]
    BY <2>1, <2>2, <2>3 DEF Idle
  <2> QED
    BY <2>1, <2>4 DEF EnginesSuffice
<1>4. Exclusive' /\ OwnResult'
  BY DEF ClaudeIInv, Exclusive, OwnResult, Idle
<1>5. OnTime'
  BY DEF ClaudeIInv, OnTime, Before, Idle
<1>6. Served'
  BY DEF ClaudeIInv, Served, Idle
<1> QED
  BY <1>1, <1>2, <1>3, <1>4, <1>5, <1>6

\* An engine more is made only for work that is counted and waits no longer.
LEMMA SufficesNext ==
  ASSUME NEW k \in Nat, k < MaxTurn + MaxCompact, Made(k)' \/ Made(k + 1)',
         k + 1 <= used'["turns"] + used'["compacts"],
         used'["turns"] \in Nat, used'["compacts"] \in Nat,
         Waits(turn'.phase) = 0, Waits(compact'.phase) = 0
  PROVE  EnginesSuffice'
<1>1. k \in 0..(MaxTurn + MaxCompact) /\ k + 1 \in 0..(MaxTurn + MaxCompact)
  BY ClaudeAssumption
<1>2. CASE Made(k)'
  <2>1. k + Waits(turn'.phase) + Waits(compact'.phase) <= used'["turns"] + used'["compacts"]
    OBVIOUS
  <2> QED
    BY <1>1, <1>2, <2>1 DEF Made, EnginesSuffice
<1>3. CASE Made(k + 1)'
  <2>1. (k + 1) + Waits(turn'.phase) + Waits(compact'.phase) <= used'["turns"] + used'["compacts"]
    OBVIOUS
  <2> QED
    BY <1>1, <1>3, <2>1 DEF Made, EnginesSuffice
<1> QED
  BY <1>2, <1>3

-----------------------------------------------------------------------------
\* Turns.
LEMMA DeliverKeeps ==
  ASSUME ClaudeIInv, Deliver
  PROVE  ClaudeIInv'
<1>1. /\ turn.phase = "none" /\ compact.phase = "none" /\ Counted("turns")
      /\ compact' = compact /\ late' = late
  BY DEF Deliver, Apart
<1>2. /\ UsedOK' /\ used'["turns"] = used["turns"] + 1 /\ used'["compacts"] = used["compacts"]
      /\ used["turns"] \in Nat /\ used["compacts"] \in Nat /\ used["turns"] < MaxTurn
      /\ used["compacts"] <= MaxCompact
  BY <1>1, CountedKeeps DEF ClaudeIInv, UsedOK
<1>3. PICK s \in Session :
        /\ Bind(s)
        /\ bound' = [bound EXCEPT ![runtimes'[s]] = s]
        /\ Begins(runtimes'[s], s, [no |-> used.turns + 1, rt |-> runtimes'[s],
                                     phase |-> "waits", by |-> "none"])
  BY DEF Deliver
<1> DEFINE r == runtimes'[s]
           n == used["turns"] + 1
<1>a. \/ /\ retiring[r] # Absent
         /\ turn' = [no |-> n, rt |-> r, phase |-> "waits", by |-> "none"]
         /\ UNCHANGED <<query, retiring, owner, life, inputs>>
      \/ /\ retiring[r] = Absent /\ query[r] # Absent
         /\ turn' = [no |-> n, rt |-> r, phase |-> "waits", by |-> "none"]
         /\ retiring' = [retiring EXCEPT ![r] = query[r]]
         /\ query' = [query EXCEPT ![r] = Absent]
         /\ life' = [life EXCEPT ![query[r]] = "closing"]
         /\ UNCHANGED <<owner, inputs>>
      \/ /\ turn' = [no |-> n, rt |-> r, phase |-> "active", by |-> "none"]
         /\ retiring[r] = Absent /\ Input(r, s, n)
      \/ /\ turn' = [no |-> n, rt |-> r, phase |-> "done", by |-> "error"]
         /\ UNCHANGED <<query, retiring, owner, life, inputs>>
  BY <1>3 DEF Begins, runtimeVars, engines
<1>4. DaemonOK' /\ r \in Runtime
  <2>1. /\ session \in Session \cup {Absent} /\ sessions \in 0..MaxSession
        /\ runtimes \in [Session -> Runtime \cup {Absent}]
        /\ memberRuntime \in Runtime \cup {Absent} /\ s \in 1..MaxSession /\ MaxSession \in Nat
    BY ClaudeAssumption DEF ClaudeIInv, DaemonOK, Session
  <2>2. session' \in Session \cup {Absent} /\ sessions' \in 0..MaxSession
    BY <1>3, <2>1 DEF Bind
  <2>3. CASE runtimes[s] # Absent
    BY <1>3, <2>1, <2>2, <2>3 DEF Bind, maps, DaemonOK
  <2>4. CASE runtimes[s] = Absent
    BY <1>3, <2>1, <2>2, <2>4 DEF Bind, DaemonOK, Runtime
  <2> QED
    BY <2>3, <2>4
<1>5. BoundOK'
  <2>1. s \in 0..MaxSession
    BY ClaudeAssumption DEF Session
  <2> QED
    BY <1>3, <1>4, <2>1 DEF ClaudeIInv, BoundOK
<1>6. PICK k \in 0..(MaxTurn + MaxCompact) :
        Made(k) /\ k + Waits(turn.phase) + Waits(compact.phase) <= used["turns"] + used["compacts"]
  BY DEF ClaudeIInv, EnginesSuffice, Made
<1>7. k <= used["turns"] + used["compacts"] /\ k \in Nat /\ k < MaxTurn + MaxCompact
      /\ n \in 1..MaxTurn /\ n \in Nat
  BY <1>1, <1>2, <1>6, ClaudeAssumption DEF Waits
<1>8. CASE turn' = [no |-> n, rt |-> r, phase |-> "waits", by |-> "none"]
  <2>1. WorkOK' /\ Exclusive' /\ Served' /\ OwnResult'
    BY <1>1, <1>4, <1>7, <1>8, ClaudeAssumption
       DEF ClaudeIInv, WorkOK, Exclusive, Served, OwnResult, Compaction
  <2>2. EnginesKept' /\ Made(k)' /\ inputs' = inputs
        /\ \A q \in Runtime : query'[q] # Absent => query'[q] = query[q]
    <3>1. CASE retiring[r] # Absent /\ UNCHANGED <<query, retiring, owner, life, inputs>>
      BY <1>6, <1>7, <3>1, EnginesStay DEF ClaudeIInv
    <3>2. CASE Closes(r)
      <4>1. inputs' = inputs
        BY <3>2 DEF Closes
      <4>2. EnginesKept
        BY DEF ClaudeIInv
      <4> HIDE DEF r
      <4> QED
        BY <1>4, <1>6, <1>7, <3>2, <4>1, <4>2, RetireKeeps
    <3>4. CASE /\ retiring[r] = Absent /\ query[r] # Absent
               /\ retiring' = [retiring EXCEPT ![r] = query[r]]
               /\ query' = [query EXCEPT ![r] = Absent]
               /\ life' = [life EXCEPT ![query[r]] = "closing"]
               /\ UNCHANGED <<owner, inputs>>
      <4>1. life \in [Engine -> {"none", "live", "closing", "ended"}] /\ query[r] \in Engine
        BY <1>4, <3>4 DEF ClaudeIInv, EnginesKept, EnginesOK, RuntimesOK
      <4>2. life' = [e \in Engine |-> IF e = query[r] THEN "closing" ELSE life[e]]
        BY <3>4, <4>1
      <4>3. Closes(r)
        BY <3>4, <4>2 DEF Closes
      <4> QED
        BY <3>2, <4>3
    <3>5. turn'.phase = "waits"
      BY <1>8
    <3> QED
      BY <1>a, <3>1, <3>4, <3>5
  <2>3. EnginesSuffice'
    BY <1>1, <1>2, <1>6, <1>7, <1>8, <2>2 DEF EnginesSuffice, Made, Waits
  <2>4. OnTime'
    BY <1>1, <1>8, <2>2 DEF ClaudeIInv, OnTime, Before
  <2> QED
    BY <1>2, <1>4, <1>5, <2>1, <2>2, <2>3, <2>4 DEF ClaudeIInv
<1>9. CASE /\ turn' = [no |-> n, rt |-> r, phase |-> "active", by |-> "none"]
           /\ retiring[r] = Absent /\ Input(r, s, n)
  <2>1. WorkOK' /\ Exclusive' /\ OwnResult'
    BY <1>1, <1>4, <1>7, <1>9, ClaudeAssumption DEF ClaudeIInv, WorkOK, Exclusive, OwnResult, Compaction
  <2>2. EnginesKept' /\ InputDone(r, n, k)
    <3>1. n \in 0..Compacted
      BY <1>7, ClaudeAssumption DEF Compacted
    <3>2. EnginesKept /\ s \in 0..MaxSession
      BY ClaudeAssumption DEF ClaudeIInv, Session
    <3> HIDE DEF r, n
    <3> QED
      BY <1>2, <1>4, <1>6, <1>7, <1>9, <3>1, <3>2, InputKeeps
  <2>3. EnginesSuffice'
    <3>1. Waits(turn'.phase) = 0 /\ Waits(compact'.phase) = 0
      BY <1>1, <1>9 DEF Waits
    <3> QED
      BY <1>2, <1>7, <2>2, <3>1, SufficesNext DEF InputDone
  <2>4. Served'
    BY <1>9, <2>2 DEF Served, InputDone
  <2>5. OnTime'
    BY <1>1, <1>4, <1>9, <2>2 DEF ClaudeIInv, OnTime, Before, InputDone
  <2> QED
    BY <1>2, <1>4, <1>5, <2>1, <2>2, <2>3, <2>4, <2>5 DEF ClaudeIInv
<1>10. CASE /\ turn' = [no |-> n, rt |-> r, phase |-> "done", by |-> "error"]
            /\ UNCHANGED <<query, retiring, owner, life, inputs>>
  <2>1. WorkOK' /\ Exclusive' /\ Served' /\ OwnResult'
    BY <1>1, <1>4, <1>7, <1>10 DEF ClaudeIInv, WorkOK, Exclusive, Served, OwnResult
  <2>2. EnginesKept' /\ Made(k)'
    BY <1>6, <1>7, <1>10, EnginesStay DEF ClaudeIInv
  <2>3. EnginesSuffice'
    BY <1>1, <1>2, <1>6, <1>7, <1>10, <2>2 DEF EnginesSuffice, Made, Waits
  <2>4. OnTime'
    BY <1>1, <1>10 DEF ClaudeIInv, OnTime, Before
  <2> QED
    BY <1>2, <1>4, <1>5, <2>1, <2>2, <2>3, <2>4 DEF ClaudeIInv
<1> QED
  BY <1>a, <1>8, <1>9, <1>10

LEMMA ResumeKeeps ==
  ASSUME ClaudeIInv, Resume
  PROVE  ClaudeIInv'
<1> DEFINE r == turn.rt
<1>1. /\ turn.phase = "waits" /\ retiring[r] = Absent /\ compact.phase = "none"
      /\ turn' = [turn EXCEPT !.phase = "active"]
      /\ Input(r, bound[r], turn.no)
      /\ compact' = compact /\ late' = late /\ bound' = bound /\ used' = used
  BY DEF Resume, others, ClaudeIInv, Exclusive
<1>2. DaemonOK' /\ BoundOK' /\ UsedOK'
  BY <1>1 DEF Resume, daemonVars, maps, ClaudeIInv, DaemonOK, BoundOK, UsedOK
<1>3. /\ r \in Runtime /\ turn.no \in 0..MaxTurn /\ turn.no # Compaction /\ bound[r] \in 0..MaxSession
      /\ turn \in [no : 0..MaxTurn, rt : Runtime \cup {Absent},
                   phase : {"none", "waits", "active", "done"},
                   by : {"none", "own", "other", "stop", "error"}]
  BY <1>1 DEF ClaudeIInv, WorkOK, BoundOK
<1>4. /\ turn'.phase = "active" /\ turn'.rt = r /\ turn'.no = turn.no /\ turn'.by = turn.by
      /\ turn' \in [no : 0..MaxTurn, rt : Runtime \cup {Absent},
                    phase : {"none", "waits", "active", "done"},
                    by : {"none", "own", "other", "stop", "error"}]
  BY <1>1, <1>3
<1>5. WorkOK' /\ Exclusive' /\ OwnResult'
  BY <1>1, <1>3, <1>4 DEF ClaudeIInv, WorkOK, Exclusive, OwnResult
<1>6. PICK k \in 0..(MaxTurn + MaxCompact) :
        Made(k) /\ k + Waits(turn.phase) + Waits(compact.phase) <= used["turns"] + used["compacts"]
  BY DEF ClaudeIInv, EnginesSuffice, Made
<1>7. /\ used["turns"] \in Nat /\ used["compacts"] \in Nat
      /\ used["turns"] <= MaxTurn /\ used["compacts"] <= MaxCompact
  BY DEF ClaudeIInv, UsedOK
<1>8. k + 1 <= used["turns"] + used["compacts"] /\ k \in Nat /\ k < MaxTurn + MaxCompact
  BY <1>1, <1>6, <1>7, ClaudeAssumption DEF Waits
<1>9. EnginesKept' /\ InputDone(r, turn.no, k)
  <2>1. turn.no \in 0..Compacted /\ EnginesKept
    BY <1>3, ClaudeAssumption DEF Compacted, ClaudeIInv
  <2> HIDE DEF r
  <2> QED
    BY <1>1, <1>3, <1>6, <1>8, <2>1, InputKeeps
<1>10. EnginesSuffice'
  <2>1. Waits(turn'.phase) = 0 /\ Waits(compact'.phase) = 0
    BY <1>1, <1>4 DEF Waits
  <2> QED
    BY <1>1, <1>7, <1>8, <1>9, <2>1, SufficesNext DEF InputDone
<1>11. Served'
  BY <1>4, <1>9 DEF Served, InputDone
<1>12. OnTime'
  BY <1>1, <1>3, <1>4, <1>9 DEF ClaudeIInv, OnTime, Before, InputDone
<1> QED
  BY <1>2, <1>5, <1>9, <1>10, <1>11, <1>12 DEF ClaudeIInv

\* The end of a turn, by whatever ended it, when no engine is touched.
LEMMA TurnEndsKeeps ==
  ASSUME ClaudeIInv, WaitTimesOut \/ Returns
  PROVE  ClaudeIInv'
<1>1. /\ UNCHANGED <<query, retiring, owner, life, inputs>>
      /\ compact' = compact /\ late' = late /\ bound' = bound /\ used' = used
      /\ turn.phase \in {"waits", "done"}
      /\ turn'.phase \in {"done", "none"} /\ turn'.by \in {"error", "none"}
      /\ turn'.phase = "done" => turn.phase = "waits"
      /\ turn' \in [no : 0..MaxTurn, rt : Runtime \cup {Absent},
                    phase : {"none", "waits", "active", "done"},
                    by : {"none", "own", "other", "stop", "error"}]
  <2>1. turn \in [no : 0..MaxTurn, rt : Runtime \cup {Absent},
                  phase : {"none", "waits", "active", "done"},
                  by : {"none", "own", "other", "stop", "error"}]
    BY DEF ClaudeIInv, WorkOK
  <2>2. CASE WaitTimesOut
    BY <2>1, <2>2 DEF WaitTimesOut, others, runtimeVars, engines
  <2>3. CASE Returns
    <3>1. 0 \in 0..MaxTurn
      BY ClaudeAssumption
    <3> QED
      BY <2>1, <2>3, <3>1 DEF Returns, others, runtimeVars, engines, NoTurn
  <2> QED
    BY <2>2, <2>3
<1>2. DaemonOK' /\ BoundOK' /\ UsedOK'
  BY <1>1 DEF WaitTimesOut, Returns, daemonVars, maps, ClaudeIInv, DaemonOK, BoundOK, UsedOK
<1>3. EnginesKept'
  BY <1>1, EnginesStay DEF ClaudeIInv
<1>4. WorkOK' /\ Served' /\ OwnResult' /\ Exclusive'
  BY <1>1 DEF ClaudeIInv, WorkOK, Served, OwnResult, Exclusive
<1>5. EnginesSuffice'
  <2>1. PICK k \in 0..(MaxTurn + MaxCompact) :
          /\ \A e \in Engine : life[e] # "none" <=> e <= k
          /\ k + Waits(turn.phase) + Waits(compact.phase) <= used["turns"] + used["compacts"]
    BY DEF ClaudeIInv, EnginesSuffice
  <2>2. used["turns"] + used["compacts"] \in Nat
    BY DEF ClaudeIInv, UsedOK
  <2>3. k + Waits(turn'.phase) + Waits(compact'.phase) <= used'["turns"] + used'["compacts"]
    BY <1>1, <2>1, <2>2, ClaudeAssumption DEF Waits
  <2> QED
    BY <1>1, <2>1, <2>3 DEF EnginesSuffice
<1>6. OnTime'
  BY <1>1 DEF ClaudeIInv, OnTime, Before
<1> QED
  BY <1>2, <1>3, <1>4, <1>5, <1>6 DEF ClaudeIInv

-----------------------------------------------------------------------------
\* The operator's steps that touch neither engine nor turn nor compaction.
LEMMA IdleStepKeeps ==
  ASSUME ClaudeIInv,
         \/ Revive \/ Configure \/ ResetEnds \/ Attach \/ Detach
         \/ UNCHANGED claudeVars
  PROVE  ClaudeIInv'
<1> USE DEF runtimeVars, engines, daemonVars, maps, attachVars, others
<1>1. UNCHANGED <<query, retiring, owner, life, inputs, turn, compact, late, bound>>
  BY DEF Revive, Configure, ResetEnds, Attach, Detach, claudeVars
<1>2. used' = used \/ Counted("configures")
  BY DEF Revive, Configure, ResetEnds, Attach, Detach, claudeVars
<1>3. /\ UsedOK'
      /\ used["turns"] \in Nat /\ used["compacts"] \in Nat
      /\ used'["turns"] = used["turns"] /\ used'["compacts"] = used["compacts"]
  <2>1. UsedOK
    BY DEF ClaudeIInv
  <2>2. CASE used' = used
    BY <2>1, <2>2 DEF UsedOK
  <2>3. CASE Counted("configures")
    BY <2>1, <2>3, CountedKeeps
  <2> QED
    BY <1>2, <2>2, <2>3
<1>4. BoundOK'
  BY <1>1 DEF ClaudeIInv, BoundOK
<1>5. DaemonOK'
  <2>1. /\ session \in Session \cup {Absent} /\ sessions \in 0..MaxSession
        /\ runtimes \in [Session -> Runtime \cup {Absent}]
        /\ memberRuntime \in Runtime \cup {Absent} /\ MaxSession \in Nat
    BY ClaudeAssumption DEF ClaudeIInv, DaemonOK
  <2>2. runtimes' \in [Session -> Runtime \cup {Absent}]
    BY <2>1 DEF Revive, Configure, ResetEnds, Attach, Detach, claudeVars
  <2>3. memberRuntime' \in Runtime \cup {Absent}
    BY <2>1 DEF Revive, Configure, ResetEnds, Attach, Detach, claudeVars
  <2>4. sessions' \in 0..MaxSession
    BY <2>1 DEF Revive, Configure, ResetEnds, Attach, Detach, claudeVars
  <2>5. session' \in Session \cup {Absent}
    BY <2>1 DEF Revive, Configure, ResetEnds, Attach, Detach, claudeVars, Session
  <2> QED
    BY <2>2, <2>3, <2>4, <2>5 DEF DaemonOK
<1>6. Idle
  BY <1>1 DEF Idle
<1>7. used'["turns"] + used'["compacts"] >= used["turns"] + used["compacts"]
  BY <1>3
<1> QED
  BY <1>1, <1>3, <1>4, <1>5, <1>6, <1>7, IdleKeeps DEF ClaudeIInv

-----------------------------------------------------------------------------
\* The engine.

LEMMA RetirementKeeps ==
  ASSUME ClaudeIInv, NEW r \in Runtime, Retirement(r)
  PROVE  ClaudeIInv'
<1>1. /\ UNCHANGED <<query, owner, life, inputs, turn, compact, late, bound, used>>
      /\ retiring[r] # Absent /\ life[retiring[r]] = "ended"
      /\ retiring' = [retiring EXCEPT ![r] = Absent]
  BY DEF Retirement, Retired, others, engines
<1>2. DaemonOK' /\ BoundOK' /\ UsedOK'
  BY <1>1 DEF Retirement, daemonVars, ClaudeIInv, DaemonOK, BoundOK, UsedOK
<1>3. EnginesKept'
  <2>1. EnginesKept /\ RuntimesOK /\ EnginesOK /\ CurrentOK /\ RetiringOK /\ KnownOK
    BY DEF ClaudeIInv, EnginesKept
  <2>2. /\ retiring'[r] = Absent
        /\ \A s \in Runtime : s # r => retiring'[s] = retiring[s]
        /\ RuntimesOK'
    BY <1>1, <2>1 DEF RuntimesOK
  <2>3. EnginesOK'
    BY <1>1, <2>1 DEF EnginesOK
  <2>4. CurrentOK'
    BY <1>1, <2>1, <2>2 DEF CurrentOK
  <2>5. RetiringOK'
    BY <1>1, <2>1, <2>2 DEF RetiringOK
  <2>6. KnownOK'
    <3> SUFFICES ASSUME NEW f \in Engine, life[f] = "closing"
                 PROVE  owner[f].rt # r
      BY <1>1, <2>1, <2>2 DEF KnownOK
    <3> QED
      BY <1>1, <2>1 DEF KnownOK
  <2> QED
    BY <2>2, <2>3, <2>4, <2>5, <2>6 DEF EnginesKept
<1>4. WorkOK' /\ EnginesSuffice' /\ Exclusive' /\ OnTime' /\ Served' /\ OwnResult'
  BY <1>1 DEF ClaudeIInv, WorkOK, EnginesSuffice, Exclusive, OnTime, Before, Served, OwnResult
<1> QED
  BY <1>2, <1>3, <1>4 DEF ClaudeIInv

LEMMA EndsKeeps ==
  ASSUME ClaudeIInv, NEW e \in Engine, Ends(e)
  PROVE  ClaudeIInv'
<1>1. /\ UNCHANGED <<query, retiring, owner, inputs, turn, compact, late, bound, used>>
      /\ life[e] = "closing" /\ life' = [life EXCEPT ![e] = "ended"]
  BY DEF Ends, others, runtimeVars
<1>2. DaemonOK' /\ BoundOK' /\ UsedOK'
  BY <1>1 DEF Ends, daemonVars, maps, ClaudeIInv, DaemonOK, BoundOK, UsedOK
<1>3. EnginesKept /\ RuntimesOK /\ EnginesOK /\ CurrentOK /\ RetiringOK /\ KnownOK
  BY DEF ClaudeIInv, EnginesKept
<1>4. /\ life'[e] = "ended"
      /\ \A f \in Engine : f # e => life'[f] = life[f]
  BY <1>1, <1>3 DEF EnginesOK
<1>5. EnginesKept'
  <2>1. RuntimesOK' /\ EnginesOK'
    BY <1>1, <1>3 DEF RuntimesOK, EnginesOK
  <2>2. CurrentOK'
    BY <1>1, <1>3, <1>4 DEF CurrentOK, RuntimesOK
  <2>3. RetiringOK'
    BY <1>1, <1>3, <1>4 DEF RetiringOK, RuntimesOK
  <2>4. KnownOK'
    BY <1>1, <1>3, <1>4 DEF KnownOK
  <2> QED
    BY <2>1, <2>2, <2>3, <2>4 DEF EnginesKept
<1>6. WorkOK' /\ Exclusive' /\ OnTime' /\ OwnResult'
  BY <1>1 DEF ClaudeIInv, WorkOK, Exclusive, OnTime, Before, OwnResult
<1>7. EnginesSuffice'
  <2>1. \A f \in Engine : life'[f] # "none" <=> life[f] # "none"
    BY <1>1, <1>4
  <2> QED
    BY <1>1, <2>1 DEF ClaudeIInv, EnginesSuffice
<1>8. Served'
  BY <1>1, <1>3, <1>4 DEF ClaudeIInv, Served, WorkOK, RuntimesOK
<1> QED
  BY <1>2, <1>5, <1>6, <1>7, <1>8 DEF ClaudeIInv

LEMMA ExitsKeeps ==
  ASSUME ClaudeIInv, NEW e \in Engine, Exits(e)
  PROVE  ClaudeIInv'
<1> DEFINE r == owner[e].rt
<1>1. /\ UNCHANGED <<retiring, owner, inputs, late, bound>>
      /\ life[e] = "live" /\ life' = [life EXCEPT ![e] = "ended"]
      /\ query' = [query EXCEPT ![r] = Absent]
      /\ turn' = IF turn.phase = "active" /\ turn.rt = r
                 THEN [turn EXCEPT !.phase = "done", !.by = "error"] ELSE turn
      /\ compact' = IF compact = [rt |-> r, phase |-> "pending"] THEN NoCompaction ELSE compact
      /\ Counted("exits")
  BY DEF Exits, others, CompactionAfterRetirement, attachVars
<1>2. /\ UsedOK' /\ used'["turns"] = used["turns"] /\ used'["compacts"] = used["compacts"]
      /\ used["turns"] \in Nat /\ used["compacts"] \in Nat
  BY <1>1, CountedKeeps DEF ClaudeIInv
<1>3. EnginesKept /\ RuntimesOK /\ EnginesOK /\ CurrentOK /\ RetiringOK /\ KnownOK
  BY DEF ClaudeIInv, EnginesKept
<1>4. DaemonOK' /\ BoundOK'
  BY <1>1 DEF Exits, daemonVars, maps, ClaudeIInv, DaemonOK, BoundOK
<1>5. /\ r \in Runtime /\ query[r] = e /\ query'[r] = Absent
      /\ life'[e] = "ended"
      /\ \A f \in Engine : f # e => life'[f] = life[f]
      /\ \A s \in Runtime : s # r => query'[s] = query[s] /\ query[s] # e
  BY <1>1, <1>3 DEF EnginesOK, RuntimesOK, KnownOK, CurrentOK, Engine, Absent
<1>6. EnginesKept'
  <2>1. RuntimesOK' /\ EnginesOK'
    BY <1>1, <1>3 DEF RuntimesOK, EnginesOK
  <2>2. CurrentOK'
    BY <1>1, <1>3, <1>5 DEF CurrentOK, RuntimesOK
  <2>3. RetiringOK'
    BY <1>1, <1>3, <1>5 DEF RetiringOK, RuntimesOK
  <2>4. KnownOK'
    BY <1>1, <1>3, <1>5 DEF KnownOK
  <2> QED
    BY <2>1, <2>2, <2>3, <2>4 DEF EnginesKept
<1>t. /\ turn \in [no : 0..MaxTurn, rt : Runtime \cup {Absent},
                   phase : {"none", "waits", "active", "done"},
                   by : {"none", "own", "other", "stop", "error"}]
      /\ compact \in [rt : Runtime \cup {Absent}, phase : {"none", "waits", "pending"}]
  BY DEF ClaudeIInv, WorkOK
<1>7. /\ turn' \in [no : 0..MaxTurn, rt : Runtime \cup {Absent},
                    phase : {"none", "waits", "active", "done"},
                    by : {"none", "own", "other", "stop", "error"}]
      /\ turn'.phase \in {"waits", "active"} =>
           turn' = turn /\ ~ (turn.phase = "active" /\ turn.rt = r)
      /\ turn' = turn \/ (turn.phase = "active" /\ turn.rt = r /\ turn'.phase = "done" /\ turn'.by = "error")
      /\ turn'.phase = "none" <=> turn.phase = "none"
  BY <1>1, <1>t
<1>8. /\ compact' \in [rt : Runtime \cup {Absent}, phase : {"none", "waits", "pending"}]
      /\ compact' = compact \/ (compact.phase = "pending" /\ compact.rt = r /\ compact' = NoCompaction)
      /\ compact'.phase # "none" => compact' = compact
      /\ compact' # [rt |-> r, phase |-> "pending"]
  BY <1>1, <1>t DEF NoCompaction
<1>9. WorkOK' /\ Exclusive' /\ OwnResult'
  BY <1>1, <1>7, <1>8 DEF ClaudeIInv, WorkOK, Exclusive, OwnResult
<1>10. EnginesSuffice'
  <2>1. PICK k \in 0..(MaxTurn + MaxCompact) :
          /\ \A f \in Engine : life[f] # "none" <=> f <= k
          /\ k + Waits(turn.phase) + Waits(compact.phase) <= used["turns"] + used["compacts"]
    BY DEF ClaudeIInv, EnginesSuffice
  <2>2. \A f \in Engine : life'[f] # "none" <=> life[f] # "none"
    BY <1>1, <1>5
  <2>3. Waits(turn'.phase) = Waits(turn.phase) /\ Waits(compact'.phase) = Waits(compact.phase)
    BY <1>7, <1>8 DEF Waits, NoCompaction
  <2> QED
    BY <1>2, <2>1, <2>2, <2>3 DEF EnginesSuffice
<1>11. OnTime'
  <2> SUFFICES ASSUME ~late, NEW s \in Runtime, query'[s] # Absent
               PROVE  inputs[query'[s]] = Before(s)'
    BY <1>1 DEF OnTime
  <2>1. s # r /\ query'[s] = query[s]
    BY <1>5
  <2>2. Before(s)' = Before(s)
    BY <1>7, <1>8, <2>1 DEF Before, NoCompaction
  <2> QED
    BY <2>1, <2>2 DEF ClaudeIInv, OnTime
<1>12. Served'
  <2> SUFFICES ASSUME turn'.phase = "active"
               PROVE  /\ query'[turn.rt] # Absent /\ life'[query'[turn.rt]] = "live"
                      /\ \E i \in DOMAIN inputs[query'[turn.rt]] : inputs[query'[turn.rt]][i] = turn.no
    BY <1>1, <1>7 DEF Served
  <2>1. turn.phase = "active" /\ turn.rt \in Runtime /\ turn.rt # r
    BY <1>7 DEF ClaudeIInv, WorkOK
  <2>2. query'[turn.rt] = query[turn.rt] /\ query[turn.rt] # e /\ query[turn.rt] \in Engine \cup {Absent}
    BY <1>3, <1>5, <2>1 DEF RuntimesOK
  <2>3. query[turn.rt] # Absent /\ life[query[turn.rt]] = "live"
        /\ \E i \in DOMAIN inputs[query[turn.rt]] : inputs[query[turn.rt]][i] = turn.no
    BY <2>1 DEF ClaudeIInv, Served
  <2> QED
    BY <1>5, <2>2, <2>3
<1> QED
  BY <1>2, <1>4, <1>6, <1>9, <1>10, <1>11, <1>12 DEF ClaudeIInv

\* Result and Boundary change one engine's inputs.
LEMMA InputsKeep ==
  ASSUME EnginesKept, NEW e \in Engine, life[e] # "none",
         UNCHANGED <<query, retiring, owner, life>>,
         NEW tail \in Seq(0..Compacted), inputs' = [inputs EXCEPT ![e] = tail]
  PROVE  /\ EnginesKept'
         /\ inputs'[e] = tail
         /\ \A f \in Engine : f # e => inputs'[f] = inputs[f]
<1>1. RuntimesOK /\ EnginesOK /\ CurrentOK /\ RetiringOK /\ KnownOK
  BY DEF EnginesKept
<1>2. /\ inputs' \in [Engine -> Seq(0..Compacted)]
      /\ inputs'[e] = tail
      /\ \A f \in Engine : f # e => inputs'[f] = inputs[f]
  BY <1>1 DEF EnginesOK
<1>3. RuntimesOK' /\ EnginesOK' /\ CurrentOK' /\ RetiringOK'
  BY <1>1, <1>2 DEF RuntimesOK, EnginesOK, CurrentOK, RetiringOK
<1>4. KnownOK'
  BY <1>1, <1>2 DEF KnownOK
<1> QED
  BY <1>2, <1>3, <1>4 DEF EnginesKept

LEMMA TailOfOne == \A x : Tail(<<x>>) = <<>>
OBVIOUS

LEMMA ResultKeeps ==
  ASSUME ClaudeIInv, NEW e \in Engine, Result(e)
  PROVE  ClaudeIInv'
<1> DEFINE r == owner[e].rt
           mine == turn.phase = "active" /\ turn.rt = r
<1>1. /\ UNCHANGED <<query, retiring, owner, life, late, bound, used>>
      /\ life[e] \in {"live", "closing"} /\ inputs[e] # <<>>
      /\ inputs' = [inputs EXCEPT ![e] = Tail(inputs[e])]
  BY DEF Result, others, runtimeVars
<1>2. \/ /\ query[r] = e /\ mine
         /\ turn' = [turn EXCEPT !.phase = "done",
                                 !.by = IF Head(inputs[e]) = turn.no THEN "own" ELSE "other"]
         /\ compact' = compact
      \/ /\ query[r] = e /\ ~mine
         /\ compact' = IF compact = [rt |-> r, phase |-> "pending"] THEN NoCompaction ELSE compact
         /\ turn' = turn
      \/ query[r] # e /\ turn' = turn /\ compact' = compact
  BY DEF Result, RoutedTo, CompactionAfterRetirement
<1>3. DaemonOK' /\ BoundOK' /\ UsedOK'
  BY <1>1 DEF Result, daemonVars, maps, ClaudeIInv, DaemonOK, BoundOK, UsedOK
<1>4. EnginesKept /\ RuntimesOK /\ EnginesOK /\ CurrentOK /\ RetiringOK /\ KnownOK
  BY DEF ClaudeIInv, EnginesKept
<1>5. inputs[e] \in Seq(0..Compacted) /\ Tail(inputs[e]) \in Seq(0..Compacted)
  BY <1>1, <1>4 DEF EnginesOK
<1>6. /\ EnginesKept'
      /\ inputs'[e] = Tail(inputs[e])
      /\ \A f \in Engine : f # e => inputs'[f] = inputs[f]
  BY <1>1, <1>4, <1>5, InputsKeep
<1>t. /\ turn \in [no : 0..MaxTurn, rt : Runtime \cup {Absent},
                   phase : {"none", "waits", "active", "done"},
                   by : {"none", "own", "other", "stop", "error"}]
      /\ compact \in [rt : Runtime \cup {Absent}, phase : {"none", "waits", "pending"}]
  BY DEF ClaudeIInv, WorkOK
<1>7. /\ turn' \in [no : 0..MaxTurn, rt : Runtime \cup {Absent},
                    phase : {"none", "waits", "active", "done"},
                    by : {"none", "own", "other", "stop", "error"}]
      /\ turn' = turn \/ (turn.phase = "active" /\ turn'.phase = "done")
      /\ compact' \in [rt : Runtime \cup {Absent}, phase : {"none", "waits", "pending"}]
      /\ compact' = compact \/ (compact.phase = "pending" /\ compact' = NoCompaction)
  <2>1. CASE query[r] = e /\ mine
    BY <1>2, <1>t, <2>1
  <2>2. CASE query[r] = e /\ ~mine
    BY <1>2, <1>t, <2>2 DEF NoCompaction
  <2>3. CASE query[r] # e
    BY <1>2, <1>t, <2>3
  <2> QED
    BY <2>1, <2>2, <2>3
<1>8. WorkOK' /\ Exclusive'
  BY <1>7 DEF ClaudeIInv, WorkOK, Exclusive, NoCompaction
<1>9. EnginesSuffice'
  <2>1. Waits(turn'.phase) = Waits(turn.phase) /\ Waits(compact'.phase) = Waits(compact.phase)
    BY <1>7 DEF Waits, NoCompaction
  <2> QED
    BY <1>1, <2>1 DEF ClaudeIInv, EnginesSuffice
<1>10. OwnResult'
  <2>1. CASE turn' = turn
    BY <1>1, <2>1 DEF ClaudeIInv, OwnResult
  <2>2. CASE mine /\ query[r] = e
    <3> SUFFICES ASSUME ~late
                 PROVE  Head(inputs[e]) = turn.no
      BY <1>1, <1>2, <1>t, <2>2 DEF OwnResult
    <3>1. r \in Runtime /\ query[r] # Absent
      BY <1>t, <2>2 DEF ClaudeIInv, WorkOK, Engine, Absent
    <3>2. inputs[e] = <<turn.no>>
      BY <2>2, <3>1 DEF ClaudeIInv, OnTime, Before
    <3> QED
      BY <3>2
  <2> QED
    BY <1>2, <2>1, <2>2
<1>11. OnTime'
  <2> SUFFICES ASSUME ~late, NEW s \in Runtime, query[s] # Absent
               PROVE  inputs'[query[s]] = Before(s)'
    BY <1>1 DEF OnTime
  <2>1. query[s] \in Engine /\ owner[query[s]].rt = s /\ inputs[query[s]] = Before(s)
    BY <1>4 DEF ClaudeIInv, RuntimesOK, CurrentOK, OnTime
  <2>2. CASE query[s] # e
    <3>1. s # r \/ query[r] # e
      BY <2>2
    <3>2. Before(s)' = Before(s)
      <4>1. CASE query[r] = e /\ mine
        BY <1>2, <1>t, <3>1, <4>1 DEF Before
      <4>2. CASE query[r] = e /\ ~mine
        BY <1>2, <1>t, <3>1, <4>2 DEF Before, NoCompaction
      <4>3. CASE query[r] # e
        BY <1>2, <4>3 DEF Before
      <4> QED
        BY <4>1, <4>2, <4>3
    <3> QED
      BY <1>6, <2>1, <2>2, <3>2
  <2>3. CASE query[s] = e
    <3>1. r = s
      BY <2>1, <2>3
    <3>2. CASE mine
      <4>1. Before(s) = <<turn.no>>
        BY <3>1, <3>2 DEF Before
      <4>2. turn'.phase = "done" /\ compact' = compact /\ compact.phase = "none"
        BY <1>2, <1>t, <2>3, <3>1, <3>2 DEF ClaudeIInv, Exclusive
      <4>3. Before(s)' = <<>>
        BY <4>2 DEF Before
      <4> QED
        BY <1>6, <2>1, <2>3, <4>1, <4>3, TailOfOne
    <3>3. CASE ~mine
      <4>1. compact = [rt |-> r, phase |-> "pending"] /\ Before(s) = <<Compaction>>
        BY <1>1, <2>1, <2>3, <3>1, <3>3 DEF Before
      <4>2. compact' = NoCompaction /\ turn' = turn
        BY <1>2, <2>3, <3>1, <3>3, <4>1
      <4>3. Before(s)' = <<>>
        BY <3>1, <3>3, <4>2 DEF Before, NoCompaction
      <4> QED
        BY <1>6, <2>1, <2>3, <4>1, <4>3, TailOfOne
    <3> QED
      BY <3>2, <3>3
  <2> QED
    BY <2>2, <2>3
<1>12. Served'
  <2> SUFFICES ASSUME turn'.phase = "active"
               PROVE  /\ query[turn.rt] # Absent /\ life[query[turn.rt]] = "live"
                      /\ \E i \in DOMAIN inputs'[query[turn.rt]] : inputs'[query[turn.rt]][i] = turn.no
    BY <1>1, <1>7 DEF Served
  <2>1. turn' = turn /\ turn.phase = "active" /\ turn.rt \in Runtime
    BY <1>7 DEF ClaudeIInv, WorkOK
  <2>2. /\ query[turn.rt] # Absent /\ life[query[turn.rt]] = "live"
        /\ \E i \in DOMAIN inputs[query[turn.rt]] : inputs[query[turn.rt]][i] = turn.no
    BY <2>1 DEF ClaudeIInv, Served
  <2>3. query[turn.rt] \in Engine /\ owner[query[turn.rt]].rt = turn.rt
    BY <1>4, <2>1, <2>2 DEF RuntimesOK, CurrentOK
  <2>4. query[turn.rt] # e
    <3> SUFFICES ASSUME query[turn.rt] = e PROVE FALSE
      OBVIOUS
    <3>1. r = turn.rt /\ query[r] = e /\ mine
      BY <2>1, <2>3
    <3>2. turn'.phase = "done"
      BY <1>2, <1>t, <3>1
    <3> QED
      BY <3>2
  <2> QED
    BY <1>6, <2>2, <2>3, <2>4
<1> QED
  BY <1>3, <1>6, <1>8, <1>9, <1>10, <1>11, <1>12 DEF ClaudeIInv

LEMMA BoundaryKeeps ==
  ASSUME ClaudeIInv, NEW e \in Engine, Boundary(e)
  PROVE  ClaudeIInv'
<1> DEFINE r == owner[e].rt
           settles == /\ query[r] = e /\ turn.phase # "active"
                      /\ compact = [rt |-> r, phase |-> "pending"]
           rest == <<Compacted>> \o Tail(inputs[e])
<1>1. /\ UNCHANGED <<query, retiring, owner, life, turn, bound, used>>
      /\ life[e] \in {"live", "closing"} /\ inputs[e] # <<>> /\ Head(inputs[e]) = Compaction
      /\ inputs' = [inputs EXCEPT ![e] = rest]
      /\ compact' = IF settles THEN NoCompaction ELSE compact
      /\ late' = (late \/ settles)
  BY DEF Boundary, RoutedTo, runtimeVars
<1>3. DaemonOK' /\ BoundOK' /\ UsedOK'
  BY <1>1 DEF Boundary, daemonVars, maps, ClaudeIInv, DaemonOK, BoundOK, UsedOK
<1>4. EnginesKept /\ RuntimesOK /\ EnginesOK /\ CurrentOK /\ RetiringOK /\ KnownOK
  BY DEF ClaudeIInv, EnginesKept
<1>5. /\ inputs[e] \in Seq(0..Compacted) /\ rest \in Seq(0..Compacted)
      /\ Len(rest) = Len(inputs[e])
      /\ \A i \in 2..Len(inputs[e]) : rest[i] = inputs[e][i]
  <2>1. inputs[e] \in Seq(0..Compacted) /\ Compacted \in 0..Compacted
    BY <1>1, <1>4, ClaudeAssumption DEF EnginesOK, Compacted
  <2>2. Len(inputs[e]) \in Nat /\ Len(inputs[e]) >= 1
    BY <1>1, <2>1
  <2>t. /\ Tail(inputs[e]) \in Seq(0..Compacted) /\ Len(Tail(inputs[e])) = Len(inputs[e]) - 1
        /\ \A i \in 1..Len(Tail(inputs[e])) : Tail(inputs[e])[i] = inputs[e][i + 1]
    BY <1>1, <2>1, HeadTailProperties
  <2>4. Tail(inputs[e]) \in Seq(0..Compacted) /\ Len(Tail(inputs[e])) = Len(inputs[e]) - 1
    BY <2>t
  <2>5. \A i \in 1..(Len(inputs[e]) - 1) : Tail(inputs[e])[i] = inputs[e][i + 1]
    BY <2>t
  <2>3. <<Compacted>> \in Seq(0..Compacted) /\ Len(<<Compacted>>) = 1
    BY <2>1
  <2>6. rest \in Seq(0..Compacted) /\ Len(rest) = Len(inputs[e])
    BY <2>2, <2>3, <2>4
  <2>7. ASSUME NEW i \in 2..Len(inputs[e]) PROVE rest[i] = inputs[e][i]
    <3>1. i - 1 \in 1..(Len(inputs[e]) - 1)
      BY <2>2
    <3>2. rest[i] = Tail(inputs[e])[i - 1]
      BY <2>2, <2>3, <2>4, <3>1
    <3> QED
      BY <2>2, <2>5, <3>1, <3>2
  <2> QED
    BY <2>1, <2>6, <2>7
<1> HIDE DEF rest
<1>6. /\ EnginesKept'
      /\ inputs'[e] = rest
      /\ \A f \in Engine : f # e => inputs'[f] = inputs[f]
  BY <1>1, <1>4, <1>5, InputsKeep
<1>t. /\ turn \in [no : 0..MaxTurn, rt : Runtime \cup {Absent},
                   phase : {"none", "waits", "active", "done"},
                   by : {"none", "own", "other", "stop", "error"}]
      /\ compact \in [rt : Runtime \cup {Absent}, phase : {"none", "waits", "pending"}]
  BY DEF ClaudeIInv, WorkOK
<1>7. /\ compact' \in [rt : Runtime \cup {Absent}, phase : {"none", "waits", "pending"}]
      /\ compact' = compact \/ (compact.phase = "pending" /\ compact' = NoCompaction)
  BY <1>1, <1>t DEF NoCompaction
<1>8. WorkOK' /\ Exclusive' /\ OwnResult'
  BY <1>1, <1>7 DEF ClaudeIInv, WorkOK, Exclusive, NoCompaction, OwnResult
<1>9. EnginesSuffice'
  <2>1. Waits(compact'.phase) = Waits(compact.phase)
    BY <1>7 DEF Waits, NoCompaction
  <2> QED
    BY <1>1, <2>1 DEF ClaudeIInv, EnginesSuffice
<1>10. OnTime'
  <2> SUFFICES ASSUME ~late, ~settles, NEW s \in Runtime, query[s] # Absent
               PROVE  inputs'[query[s]] = Before(s)
    BY <1>1 DEF OnTime, Before
  <2>1. query[s] \in Engine /\ owner[query[s]].rt = s /\ inputs[query[s]] = Before(s)
    BY <1>4 DEF ClaudeIInv, RuntimesOK, CurrentOK, OnTime
  <2>2. query[s] # e
    <3> SUFFICES ASSUME query[s] = e PROVE FALSE
      OBVIOUS
    <3>1. r = s /\ Before(s) # <<>> /\ Head(Before(s)) = Compaction
      BY <1>1, <2>1
    <3>2. ~ (turn.phase = "active" /\ turn.rt = s)
      <4> SUFFICES ASSUME turn.phase = "active", turn.rt = s PROVE FALSE
        OBVIOUS
      <4>1. Before(s) = <<turn.no>> /\ turn.no # Compaction
        BY DEF Before, ClaudeIInv, WorkOK
      <4> QED
        BY <3>1, <4>1
    <3>3. compact = [rt |-> s, phase |-> "pending"]
      BY <3>1, <3>2 DEF Before
    <3>4. turn.phase # "active"
      BY <3>3 DEF ClaudeIInv, Exclusive
    <3> QED
      BY <3>1, <3>3, <3>4
  <2> QED
    BY <1>6, <2>1, <2>2
<1>11. Served'
  <2> SUFFICES ASSUME turn.phase = "active"
               PROVE  /\ query[turn.rt] # Absent /\ life[query[turn.rt]] = "live"
                      /\ \E i \in DOMAIN inputs'[query[turn.rt]] : inputs'[query[turn.rt]][i] = turn.no
    BY <1>1 DEF Served
  <2>1. turn.rt \in Runtime /\ turn.no # Compaction
    BY DEF ClaudeIInv, WorkOK
  <2>2. query[turn.rt] # Absent /\ life[query[turn.rt]] = "live" /\ query[turn.rt] \in Engine
    BY <1>4, <2>1 DEF ClaudeIInv, Served, RuntimesOK
  <2>3. PICK i \in DOMAIN inputs[query[turn.rt]] : inputs[query[turn.rt]][i] = turn.no
    BY DEF ClaudeIInv, Served
  <2>4. CASE query[turn.rt] # e
    BY <1>6, <2>2, <2>3, <2>4
  <2>5. CASE query[turn.rt] = e
    <3>1. i \in 1..Len(inputs[e]) /\ inputs[e][i] = turn.no
      BY <1>5, <2>3, <2>5
    <3>2. i # 1
      BY <1>1, <1>5, <2>1, <3>1
    <3>3. i \in 1..Len(rest) /\ rest[i] = turn.no
      BY <1>5, <3>1, <3>2
    <3>4. DOMAIN rest = 1..Len(rest)
      BY <1>5
    <3> QED
      BY <1>6, <2>2, <2>5, <3>3, <3>4
  <2> QED
    BY <2>4, <2>5
<1> QED
  BY <1>3, <1>6, <1>8, <1>9, <1>10, <1>11 DEF ClaudeIInv

-----------------------------------------------------------------------------
\* Stops, compactions and resets.

\* A retirement that leaves the turns and the compactions of other runtimes as
\* they are, and this one's neither under way.
LEMMA RetiredWorkKeeps ==
  ASSUME ClaudeIInv, NEW r \in Runtime, Closes(r), late' = late, UsedOK',
         used'["turns"] + used'["compacts"] >= used["turns"] + used["compacts"],
         \/ turn' = turn /\ ~ (turn.phase = "active" /\ turn.rt = r)
         \/ /\ turn.phase = "active" /\ turn.rt = r
            /\ turn' \in {NoTurn, [turn EXCEPT !.phase = "done", !.by = "stop"],
                          [turn EXCEPT !.phase = "done", !.by = "error"]},
         \/ compact' = compact /\ compact # [rt |-> r, phase |-> "pending"]
         \/ compact = [rt |-> r, phase |-> "pending"] /\ compact' = NoCompaction
  PROVE  /\ EnginesKept' /\ WorkOK' /\ EnginesSuffice' /\ Exclusive' /\ OnTime'
         /\ Served' /\ OwnResult'
<1>1. EnginesKept /\ RuntimesOK /\ EnginesOK /\ CurrentOK /\ RetiringOK /\ KnownOK
  BY DEF ClaudeIInv, EnginesKept
<1>2. /\ EnginesKept'
      /\ query'[r] = Absent
      /\ \A s \in Runtime : s # r => query'[s] = query[s]
      /\ \A k \in Nat : Made(k) => Made(k)'
  BY <1>1, RetireKeeps
<1>3. inputs' = inputs
  BY DEF Closes
<1>t. /\ turn \in [no : 0..MaxTurn, rt : Runtime \cup {Absent},
                   phase : {"none", "waits", "active", "done"},
                   by : {"none", "own", "other", "stop", "error"}]
      /\ compact \in [rt : Runtime \cup {Absent}, phase : {"none", "waits", "pending"}]
  BY DEF ClaudeIInv, WorkOK
<1>4. /\ turn' \in [no : 0..MaxTurn, rt : Runtime \cup {Absent},
                    phase : {"none", "waits", "active", "done"},
                    by : {"none", "own", "other", "stop", "error"}]
      /\ \/ turn' = turn /\ ~ (turn.phase = "active" /\ turn.rt = r)
         \/ /\ turn.phase = "active" /\ turn.rt = r /\ turn'.phase \in {"done", "none"}
            /\ turn'.by \in {"stop", "error", "none"}
  <2>1. CASE turn' = turn /\ ~ (turn.phase = "active" /\ turn.rt = r)
    BY <1>t, <2>1
  <2>2. CASE turn.phase = "active" /\ turn.rt = r /\ turn' = NoTurn
    <3>1. 0 \in 0..MaxTurn
      BY ClaudeAssumption
    <3> QED
      BY <1>t, <2>2, <3>1 DEF NoTurn
  <2>3. CASE turn.phase = "active" /\ turn.rt = r /\ turn' = [turn EXCEPT !.phase = "done", !.by = "stop"]
    BY <1>t, <2>3
  <2>4. CASE turn.phase = "active" /\ turn.rt = r /\ turn' = [turn EXCEPT !.phase = "done", !.by = "error"]
    BY <1>t, <2>4
  <2> QED
    BY <2>1, <2>2, <2>3, <2>4
<1>5. /\ compact' \in [rt : Runtime \cup {Absent}, phase : {"none", "waits", "pending"}]
      /\ compact' = compact \/ (compact.phase = "pending" /\ compact' = NoCompaction)
  BY <1>t DEF NoCompaction
<1>6. WorkOK' /\ Exclusive' /\ OwnResult'
  BY <1>4, <1>5 DEF ClaudeIInv, WorkOK, Exclusive, OwnResult, NoCompaction
<1>7. EnginesSuffice'
  <2>1. PICK k \in 0..(MaxTurn + MaxCompact) :
          Made(k) /\ k + Waits(turn.phase) + Waits(compact.phase) <= used["turns"] + used["compacts"]
    BY DEF ClaudeIInv, EnginesSuffice, Made
  <2>2. Waits(turn'.phase) = Waits(turn.phase) /\ Waits(compact'.phase) = Waits(compact.phase)
    BY <1>4, <1>5 DEF Waits, NoCompaction
  <2>3. k + Waits(turn.phase) + Waits(compact.phase) \in Nat /\ k \in Nat
    BY ClaudeAssumption DEF Waits
  <2>4. used["turns"] + used["compacts"] \in Nat /\ used'["turns"] + used'["compacts"] \in Nat
    BY DEF ClaudeIInv, UsedOK
  <2>5. k + Waits(turn'.phase) + Waits(compact'.phase) <= used'["turns"] + used'["compacts"]
    BY <2>1, <2>2, <2>3, <2>4
  <2>6. Made(k)'
    BY <1>2, <2>1, <2>3
  <2> QED
    BY <2>5, <2>6 DEF EnginesSuffice, Made
<1>8. OnTime'
  <2> SUFFICES ASSUME ~late, NEW s \in Runtime, query'[s] # Absent
               PROVE  inputs[query'[s]] = Before(s)'
    BY <1>3 DEF OnTime
  <2>1. s # r /\ query'[s] = query[s]
    BY <1>2
  <2>2. (turn'.phase = "active" /\ turn'.rt = s) <=> (turn.phase = "active" /\ turn.rt = s)
    BY <1>4, <2>1
  <2>3. turn.phase = "active" /\ turn.rt = s => turn' = turn
    BY <1>t, <2>1
  <2>4. compact' = [rt |-> s, phase |-> "pending"] <=> compact = [rt |-> s, phase |-> "pending"]
    BY <1>t, <2>1 DEF NoCompaction
  <2>5. Before(s)' = Before(s)
    BY <2>2, <2>3, <2>4 DEF Before
  <2> QED
    BY <2>1, <2>5 DEF ClaudeIInv, OnTime
<1>9. Served'
  <2> SUFFICES ASSUME turn'.phase = "active"
               PROVE  /\ query'[turn.rt] # Absent /\ life'[query'[turn.rt]] = "live"
                      /\ \E i \in DOMAIN inputs[query'[turn.rt]] : inputs[query'[turn.rt]][i] = turn.no
    BY <1>3, <1>4 DEF Served
  <2>1. turn.phase = "active" /\ turn.rt \in Runtime /\ turn.rt # r
    <3>1. turn' = turn
      BY <1>4
    <3>2. turn.phase = "active" /\ turn.rt # r
      BY <1>4, <3>1
    <3> QED
      BY <3>2 DEF ClaudeIInv, WorkOK
  <2>2. /\ query'[turn.rt] = query[turn.rt] /\ query[turn.rt] # Absent
        /\ \E i \in DOMAIN inputs[query[turn.rt]] : inputs[query[turn.rt]][i] = turn.no
    BY <1>2, <2>1 DEF ClaudeIInv, Served
  <2>3. life'[query'[turn.rt]] = "live"
    BY <1>2, <2>1, <2>2 DEF EnginesKept, CurrentOK
  <2> QED
    BY <2>2, <2>3
<1> QED
  BY <1>2, <1>6, <1>7, <1>8, <1>9

LEMMA LiveRuntimeIsOne ==
  ASSUME DaemonOK, LiveRuntime(session) # Absent
  PROVE  LiveRuntime(session) \in Runtime
BY DEF DaemonOK, LiveRuntime, Session, Runtime

LEMMA RetireCloses ==
  ASSUME NEW r \in Runtime, NEW remove \in BOOLEAN, Retire(r, remove),
         memberRuntime \in Runtime \cup {Absent}
  PROVE  Closes(r) /\ memberRuntime' \in Runtime \cup {Absent}
<1>1. Closes(r)
  BY DEF Retire, Closes
<1>2. memberRuntime' \in Runtime \cup {Absent}
  BY DEF Retire
<1> QED
  BY <1>1, <1>2

LEMMA StopKeeps ==
  ASSUME ClaudeIInv, Stop
  PROVE  ClaudeIInv'
<1> DEFINE r == LiveRuntime(session)
<1>1. /\ Counted("stops") /\ Interrupt
      /\ UNCHANGED <<session, sessions, bound, late>>
  BY DEF Stop
<1>2. /\ UsedOK' /\ used'["turns"] = used["turns"] /\ used'["compacts"] = used["compacts"]
      /\ used["turns"] \in Nat /\ used["compacts"] \in Nat
  BY <1>1, CountedKeeps DEF ClaudeIInv
<1>3. BoundOK' /\ DaemonOK
  BY <1>1 DEF ClaudeIInv, BoundOK
<1>4. CASE r = Absent
  <2>1. UNCHANGED <<query, retiring, owner, life, inputs, turn, compact, runtimes, memberRuntime>>
    BY <1>1, <1>4 DEF Interrupt, maps, runtimeVars, engines
  <2>2. Idle /\ used'["turns"] + used'["compacts"] >= used["turns"] + used["compacts"]
    BY <1>1, <1>2, <2>1 DEF Idle
  <2>3. DaemonOK'
    BY <1>1, <1>3, <2>1 DEF DaemonOK
  <2> QED
    BY <1>2, <1>3, <2>1, <2>2, <2>3, IdleKeeps DEF ClaudeIInv
<1>5. CASE r # Absent
  <2>1. r \in Runtime
    BY <1>3, <1>5, LiveRuntimeIsOne
  <2>2. /\ turn' = IF turn.phase = "active" /\ turn.rt = r
                   THEN [turn EXCEPT !.phase = "done", !.by = "stop"] ELSE turn
        /\ compact' = IF compact = [rt |-> r, phase |-> "pending"] THEN NoCompaction ELSE compact
        /\ Retire(r, TRUE) /\ runtimes' = runtimes
    BY <1>1, <1>5 DEF Interrupt, StoppedTurn, CompactionAfterRetirement
  <2> HIDE DEF r
  <2>3. Closes(r) /\ memberRuntime' \in Runtime \cup {Absent}
    BY <1>3, <2>1, <2>2, RetireCloses DEF DaemonOK
  <2>4. DaemonOK'
    BY <1>1, <1>3, <2>2, <2>3 DEF DaemonOK
  <2>5. used'["turns"] + used'["compacts"] >= used["turns"] + used["compacts"]
    BY <1>2
  <2> QED
    BY <1>1, <1>2, <1>3, <2>1, <2>2, <2>3, <2>4, <2>5, RetiredWorkKeeps DEF ClaudeIInv
<1> QED
  BY <1>4, <1>5

\* A turn that is given up.
LEMMA GivenUpKeeps ==
  ASSUME ClaudeIInv, GivenUp
  PROVE  ClaudeIInv'
<1> DEFINE r == turn.rt
<1>1. /\ Counted("exits") /\ turn.phase = "active" /\ Retire(r, FALSE)
      /\ turn' \in {NoTurn, [turn EXCEPT !.phase = "done", !.by = "error"]}
      /\ compact' = IF compact = [rt |-> r, phase |-> "pending"] THEN NoCompaction ELSE compact
      /\ UNCHANGED <<session, sessions, runtimes, bound, late>>
  BY DEF GivenUp, daemonVars, CompactionAfterRetirement
<1>2. /\ UsedOK' /\ used'["turns"] = used["turns"] /\ used'["compacts"] = used["compacts"]
      /\ used["turns"] \in Nat /\ used["compacts"] \in Nat
  BY <1>1, CountedKeeps DEF ClaudeIInv
<1>3. BoundOK' /\ DaemonOK /\ r \in Runtime
  BY <1>1 DEF ClaudeIInv, BoundOK, WorkOK
<1> HIDE DEF r
<1>4. Closes(r) /\ memberRuntime' \in Runtime \cup {Absent}
  BY <1>1, <1>3, RetireCloses DEF DaemonOK
<1>5. DaemonOK'
  BY <1>1, <1>3, <1>4 DEF DaemonOK
<1>6. used'["turns"] + used'["compacts"] >= used["turns"] + used["compacts"]
  BY <1>2
<1>7. turn.rt = r
  BY DEF r
<1> QED
  BY <1>1, <1>2, <1>3, <1>4, <1>5, <1>6, <1>7, RetiredWorkKeeps DEF ClaudeIInv

LEMMA ResetKeeps ==
  ASSUME ClaudeIInv, Reset
  PROVE  ClaudeIInv'
<1> DEFINE r == LiveRuntime(session)
<1>1. /\ Counted("resets") /\ turn.phase = "none" /\ compact.phase = "none"
      /\ UNCHANGED <<sessions, turn, compact, bound, late>>
      /\ session' \in {session, Absent}
  BY DEF Reset, Apart
<1>2. /\ UsedOK' /\ used'["turns"] = used["turns"] /\ used'["compacts"] = used["compacts"]
      /\ used["turns"] \in Nat /\ used["compacts"] \in Nat
  BY <1>1, CountedKeeps DEF ClaudeIInv
<1>3. BoundOK' /\ DaemonOK
  BY <1>1 DEF ClaudeIInv, BoundOK
<1>4. used'["turns"] + used'["compacts"] >= used["turns"] + used["compacts"]
  BY <1>2
<1>5. CASE r = Absent
  <2>1. UNCHANGED <<query, retiring, owner, life, inputs, runtimes, memberRuntime>>
    BY <1>5 DEF Reset, maps, runtimeVars, engines
  <2>2. Idle
    BY <1>1 DEF Idle
  <2>3. DaemonOK'
    BY <1>1, <1>3, <2>1 DEF DaemonOK
  <2> QED
    BY <1>2, <1>3, <1>4, <2>1, <2>2, <2>3, IdleKeeps DEF ClaudeIInv
<1>6. CASE r # Absent
  <2>1. r \in Runtime
    BY <1>3, <1>6, LiveRuntimeIsOne
  <2>2. Retire(r, TRUE) /\ runtimes' = runtimes
    BY <1>6, Zenon DEF Reset
  <2> HIDE DEF r
  <2>3. Closes(r) /\ memberRuntime' \in Runtime \cup {Absent}
    BY <1>3, <2>1, <2>2, RetireCloses DEF DaemonOK
  <2>4. DaemonOK'
    BY <1>1, <1>3, <2>2, <2>3 DEF DaemonOK
  <2>5. compact # [rt |-> r, phase |-> "pending"]
    BY <1>1
  <2> QED
    BY <1>1, <1>2, <1>3, <1>4, <2>1, <2>3, <2>4, <2>5, RetiredWorkKeeps DEF ClaudeIInv
<1> QED
  BY <1>5, <1>6

\* Work that begins to wait, or gives up waiting, of the compaction alone.
LEMMA CompactionAloneKeeps ==
  ASSUME ClaudeIInv, UNCHANGED <<query, retiring, owner, life, inputs, turn, bound>>,
         UNCHANGED <<session, sessions, runtimes, memberRuntime>>, UsedOK',
         \/ /\ turn.phase = "none" /\ compact.phase = "none" /\ late' = late
            /\ \E r \in Runtime : compact' = [rt |-> r, phase |-> "waits"]
            /\ used'["compacts"] = used["compacts"] + 1 /\ used'["turns"] = used["turns"]
         \/ /\ compact' = NoCompaction /\ used' = used
            /\ late' = (late \/ compact.phase = "pending")
  PROVE  ClaudeIInv'
<1>1. EnginesKept' /\ DaemonOK' /\ BoundOK'
  BY EnginesStay DEF ClaudeIInv, DaemonOK, BoundOK
<1>2. /\ compact' \in [rt : Runtime \cup {Absent}, phase : {"none", "waits", "pending"}]
      /\ compact'.phase # "none" => compact'.rt \in Runtime /\ turn.phase = "none"
      /\ compact'.phase # "pending"
  BY DEF NoCompaction
<1>3. WorkOK' /\ Exclusive' /\ Served' /\ OwnResult'
  BY <1>2 DEF ClaudeIInv, WorkOK, Exclusive, Served, OwnResult
<1>4. EnginesSuffice'
  <2>1. PICK k \in 0..(MaxTurn + MaxCompact) :
          /\ \A e \in Engine : life[e] # "none" <=> e <= k
          /\ k + Waits(turn.phase) + Waits(compact.phase) <= used["turns"] + used["compacts"]
    BY DEF ClaudeIInv, EnginesSuffice
  <2>2. used["turns"] \in Nat /\ used["compacts"] \in Nat
    BY DEF ClaudeIInv, UsedOK
  <2>3. Waits(turn.phase) \in Nat /\ k \in Nat
    BY ClaudeAssumption DEF Waits
  <2>4. k + Waits(turn.phase) + Waits(compact'.phase) <= used'["turns"] + used'["compacts"]
    BY <2>1, <2>2, <2>3 DEF Waits, NoCompaction
  <2> QED
    BY <2>1, <2>4 DEF EnginesSuffice
<1>5. OnTime'
  <2> SUFFICES ASSUME ~late', NEW s \in Runtime, query[s] # Absent
               PROVE  inputs[query[s]] = Before(s)'
    BY DEF OnTime
  <2>1. ~late /\ compact.phase # "pending"
    <3>1. CASE turn.phase = "none" /\ compact.phase = "none" /\ late' = late
      BY <3>1
    <3>2. CASE late' = (late \/ compact.phase = "pending")
      BY <3>2
    <3> QED
      BY <3>1, <3>2
  <2>2. Before(s)' = Before(s)
    BY <1>2, <2>1 DEF Before
  <2> QED
    BY <2>1, <2>2 DEF ClaudeIInv, OnTime
<1> QED
  BY <1>1, <1>3, <1>4, <1>5 DEF ClaudeIInv

\* The input of a compaction, at once or behind a retirement.
LEMMA CompactionInputKeeps ==
  ASSUME ClaudeIInv, NEW r \in Runtime, retiring[r] = Absent,
         turn.phase = "none", turn' = turn, late' = late, bound' = bound,
         UNCHANGED <<session, sessions, runtimes, memberRuntime>>, UsedOK',
         compact.phase # "pending", compact' = [rt |-> r, phase |-> "pending"],
         used'["turns"] = used["turns"],
         \/ compact.phase = "waits" /\ used'["compacts"] = used["compacts"]
         \/ compact.phase = "none" /\ used'["compacts"] = used["compacts"] + 1,
         Input(r, bound[r], Compaction)
  PROVE  ClaudeIInv'
<1>1. DaemonOK' /\ BoundOK'
  BY DEF ClaudeIInv, DaemonOK, BoundOK
<1>2. WorkOK' /\ Exclusive' /\ OwnResult' /\ Served'
  BY DEF ClaudeIInv, WorkOK, Exclusive, OwnResult, Served
<1>3. PICK k \in 0..(MaxTurn + MaxCompact) :
        Made(k) /\ k + Waits(turn.phase) + Waits(compact.phase) <= used["turns"] + used["compacts"]
  BY DEF ClaudeIInv, EnginesSuffice, Made
<1>4. /\ used["turns"] \in Nat /\ used["compacts"] \in Nat
      /\ used'["turns"] \in Nat /\ used'["compacts"] \in Nat
      /\ used'["turns"] <= MaxTurn /\ used'["compacts"] <= MaxCompact
  BY DEF ClaudeIInv, UsedOK
<1>5. k + 1 <= used'["turns"] + used'["compacts"] /\ k \in Nat /\ k < MaxTurn + MaxCompact
  BY <1>3, <1>4, ClaudeAssumption DEF Waits
<1>6. EnginesKept' /\ InputDone(r, Compaction, k)
  <2>1. Compaction \in 0..Compacted /\ EnginesKept /\ bound[r] \in 0..MaxSession
    BY ClaudeAssumption DEF Compacted, Compaction, ClaudeIInv, BoundOK
  <2> QED
    BY <1>3, <1>5, <2>1, InputKeeps
<1>7. EnginesSuffice'
  <2>1. Waits(turn'.phase) = 0 /\ Waits(compact'.phase) = 0
    BY DEF Waits
  <2> QED
    BY <1>4, <1>5, <1>6, <2>1, SufficesNext DEF InputDone
<1>8. OnTime'
  <2> SUFFICES ASSUME ~late, NEW s \in Runtime, query'[s] # Absent
               PROVE  inputs'[query'[s]] = Before(s)'
    BY DEF OnTime
  <2>1. query[s] # Absent => inputs[query[s]] = <<>>
    BY DEF ClaudeIInv, OnTime, Before
  <2>2. Before(s)' = IF s = r THEN <<Compaction>> ELSE <<>>
    BY DEF Before
  <2>3. CASE s = r
    BY <1>6, <2>1, <2>2, <2>3 DEF InputDone
  <2>4. CASE s # r
    BY <1>6, <2>1, <2>2, <2>4 DEF InputDone
  <2> QED
    BY <2>3, <2>4
<1> QED
  BY <1>1, <1>2, <1>6, <1>7, <1>8 DEF ClaudeIInv

LEMMA CompactKeeps ==
  ASSUME ClaudeIInv, CompactSession \/ CompactionResumes \/ CompactionTimesOut
  PROVE  ClaudeIInv'
<1> USE DEF daemonVars, maps
<1>1. CASE CompactSession
  <2> DEFINE r == LiveRuntime(session)
  <2>1. /\ turn.phase = "none" /\ compact.phase = "none" /\ r # Absent /\ Counted("compacts")
        /\ UNCHANGED <<session, sessions, runtimes, memberRuntime, turn, bound, late>>
    BY <1>1 DEF CompactSession, Apart
  <2>2. /\ UsedOK' /\ used'["turns"] = used["turns"] /\ used'["compacts"] = used["compacts"] + 1
    BY <2>1, CountedKeeps DEF ClaudeIInv
  <2>3. r \in Runtime
    BY <2>1, LiveRuntimeIsOne DEF ClaudeIInv
  <2>4. \/ /\ compact' = [rt |-> r, phase |-> "waits"]
           /\ UNCHANGED <<query, retiring, owner, life, inputs>>
        \/ /\ retiring[r] = Absent
           /\ compact' = [rt |-> r, phase |-> "pending"]
           /\ Input(r, bound[r], Compaction)
    BY <1>1 DEF CompactSession, runtimeVars, engines
  <2> HIDE DEF r
  <2>5. CASE /\ compact' = [rt |-> r, phase |-> "waits"]
             /\ UNCHANGED <<query, retiring, owner, life, inputs>>
    BY <2>1, <2>2, <2>3, <2>5, CompactionAloneKeeps
  <2>6. CASE /\ retiring[r] = Absent
             /\ compact' = [rt |-> r, phase |-> "pending"]
             /\ Input(r, bound[r], Compaction)
    BY <2>1, <2>2, <2>3, <2>6, CompactionInputKeeps
  <2> QED
    BY <2>4, <2>5, <2>6
<1>2. CASE CompactionResumes
  <2> DEFINE r == compact.rt
  <2>1. /\ compact.phase = "waits" /\ retiring[r] = Absent
        /\ compact' = [compact EXCEPT !.phase = "pending"]
        /\ Input(r, bound[r], Compaction)
        /\ UNCHANGED <<session, sessions, runtimes, memberRuntime, turn, bound, late, used>>
    BY <1>2 DEF CompactionResumes, others
  <2>2. /\ r \in Runtime
        /\ compact \in [rt : Runtime \cup {Absent}, phase : {"none", "waits", "pending"}]
        /\ turn.phase = "none"
    BY <2>1 DEF ClaudeIInv, WorkOK, Exclusive
  <2>3. compact' = [rt |-> r, phase |-> "pending"] /\ compact.phase # "pending"
    BY <2>1, <2>2
  <2>4. UsedOK'
    BY <2>1 DEF ClaudeIInv, UsedOK
  <2> HIDE DEF r
  <2> QED
    BY <2>1, <2>2, <2>3, <2>4, CompactionInputKeeps
<1>3. CASE CompactionTimesOut
  <2>1. /\ compact' = NoCompaction /\ late' = (late \/ compact.phase = "pending")
        /\ UNCHANGED <<query, retiring, owner, life, inputs, turn, bound, used>>
        /\ UNCHANGED <<session, sessions, runtimes, memberRuntime>>
    BY <1>3 DEF CompactionTimesOut, runtimeVars, engines
  <2>2. UsedOK'
    BY <2>1 DEF ClaudeIInv, UsedOK
  <2> QED
    BY <2>1, <2>2, CompactionAloneKeeps
<1> QED
  BY <1>1, <1>2, <1>3

-----------------------------------------------------------------------------
\* The invariant.

LEMMA ClaudeInitHolds == ClaudeInit => ClaudeIInv
<1> SUFFICES ASSUME ClaudeInit PROVE ClaudeIInv
  OBVIOUS
<1>a. 0 \in 0..MaxSession
  BY ClaudeAssumption
<1>1. DaemonOK /\ BoundOK
  BY <1>a DEF ClaudeInit, DaemonOK, BoundOK, Absent
<1>2. EnginesKept
  <2>1. RuntimesOK /\ CurrentOK /\ RetiringOK /\ KnownOK
    BY DEF ClaudeInit, RuntimesOK, CurrentOK, RetiringOK, KnownOK
  <2>2. EnginesOK
    <3>1. \A e \in Engine : owner[e] = [rt |-> Absent, ses |-> Absent]
      BY DEF ClaudeInit
    <3>2. owner \in [Engine -> [rt : Runtime \cup {Absent}, ses : 0..MaxSession]]
      BY <1>a DEF ClaudeInit, Absent
    <3>3. life \in [Engine -> {"none", "live", "closing", "ended"}] /\ inputs \in [Engine -> Seq(0..Compacted)]
      BY DEF ClaudeInit
    <3> QED
      BY <3>2, <3>3 DEF EnginesOK
  <2> QED
    BY <2>1, <2>2 DEF EnginesKept
<1>3. WorkOK
  BY ClaudeAssumption DEF ClaudeInit, WorkOK, NoTurn, NoCompaction
<1>4. UsedOK
  <2>1. DOMAIN Limits = {"turns", "stops", "configures", "compacts", "resets", "exits"}
    BY DEF Limits
  <2>2. used \in [{"turns", "stops", "configures", "compacts", "resets", "exits"} -> Nat]
        /\ used["turns"] = 0 /\ used["compacts"] = 0 /\ used["configures"] = 0
    BY <2>1 DEF ClaudeInit
  <2> QED
    BY <2>2, ClaudeAssumption DEF UsedOK
<1>5. EnginesSuffice
  <2>1. \A e \in Engine : life[e] # "none" <=> e <= 0
    BY DEF ClaudeInit, Engine
  <2>2. 0 + Waits(turn.phase) + Waits(compact.phase) <= used["turns"] + used["compacts"]
    <3>1. used["turns"] = 0 /\ used["compacts"] = 0
      BY DEF ClaudeInit, Limits
    <3>2. Waits(turn.phase) = 0 /\ Waits(compact.phase) = 0
      BY DEF ClaudeInit, NoTurn, NoCompaction, Waits
    <3> QED
      BY <3>1, <3>2
  <2>3. 0 \in 0..(MaxTurn + MaxCompact)
    BY ClaudeAssumption
  <2> QED
    BY <2>1, <2>2, <2>3 DEF EnginesSuffice
<1>6. Exclusive /\ OnTime /\ Served /\ OwnResult
  BY DEF ClaudeInit, Exclusive, OnTime, Served, OwnResult, NoTurn, NoCompaction
<1> QED
  BY <1>1, <1>2, <1>3, <1>4, <1>5, <1>6 DEF ClaudeIInv

LEMMA ClaudeInductive ==
  ASSUME ClaudeIInv, [ClaudeNext]_claudeVars
  PROVE  ClaudeIInv'
<1>1. CASE Deliver
  BY <1>1, DeliverKeeps
<1>2. CASE Resume
  BY <1>2, ResumeKeeps
<1>3. CASE WaitTimesOut \/ Returns
  BY <1>3, TurnEndsKeeps
<1>4. CASE \E r \in Runtime : Retirement(r)
  BY <1>4, RetirementKeeps
<1>5. CASE \E e \in Engine : Result(e)
  BY <1>5, ResultKeeps
<1>6. CASE \E e \in Engine : Boundary(e)
  BY <1>6, BoundaryKeeps
<1>7. CASE \E e \in Engine : Ends(e)
  BY <1>7, EndsKeeps
<1>8. CASE \E e \in Engine : Exits(e)
  BY <1>8, ExitsKeeps
<1>9. CASE Stop
  BY <1>9, StopKeeps
<1>10. CASE CompactSession \/ CompactionResumes \/ CompactionTimesOut
  BY <1>10, CompactKeeps
<1>11. CASE Reset
  BY <1>11, ResetKeeps
<1>12. CASE Revive \/ Configure \/ ResetEnds \/ Attach \/ Detach \/ UNCHANGED claudeVars
  BY <1>12, IdleStepKeeps
<1>13. CASE GivenUp
  BY <1>13, GivenUpKeeps
<1> QED
  BY <1>1, <1>2, <1>3, <1>4, <1>5, <1>6, <1>7, <1>8, <1>9, <1>10, <1>11, <1>12, <1>13 DEF ClaudeNext

-----------------------------------------------------------------------------
\* What a turn's engine has seen.  It is what a second invariant is about, beside
\* the first.

\* No Session is newer than the last one, neither the daemon's nor an engine's.
SessionsMade ==
  /\ session <= sessions
  /\ \A r \in Runtime : bound[r] <= sessions
  /\ \A e \in Engine : owner[e].ses <= sessions

\* An engine that a terminal left behind was made for an earlier Session than the
\* daemon's, and the daemon's next one is newer still.
BehindOK ==
  /\ behind \subseteq Engine
  /\ \A e \in behind : life[e] # "none" /\ (session # Absent => owner[e].ses < session)

\* A turn that waits gets an engine of its own, and one under way has one that saw
\* all of the session.
WaitsEmpty == turn.phase = "waits" => query[turn.rt] = Absent
Sees == turn.phase = "active" => query[turn.rt] \notin behind

SeenOK == SessionsMade /\ BehindOK /\ WaitsEmpty /\ Sees

\* A step that makes neither a Session nor an engine, and begins no turn.
LEMMA QuietSeen ==
  ASSUME ClaudeIInv, SeenOK, UNCHANGED <<owner, bound, behind, sessions>>,
         session' \in {session, Absent},
         \A e \in Engine : life[e] # "none" => life'[e] # "none",
         \A r \in Runtime : query'[r] \in {query[r], Absent},
         turn'.phase \in {"waits", "active"} => turn' = turn
  PROVE  SeenOK'
<1>1. sessions \in Nat /\ Absent \notin Engine
  BY ClaudeAssumption DEF ClaudeIInv, DaemonOK, Absent, Engine
<1>2. SessionsMade'
  BY <1>1 DEF SeenOK, SessionsMade, Absent
<1>3. BehindOK'
  BY DEF SeenOK, BehindOK
<1>4. turn.phase \in {"waits", "active"} => turn.rt \in Runtime
  BY DEF ClaudeIInv, WorkOK
<1>5. WaitsEmpty'
  BY <1>4 DEF SeenOK, WaitsEmpty
<1>6. Sees'
  BY <1>1, <1>4 DEF SeenOK, Sees, BehindOK
<1> QED
  BY <1>2, <1>3, <1>5, <1>6 DEF SeenOK

\* The engine of an input: the current one, or a new one, which no terminal has
\* left behind.
LEMMA InputSeen ==
  ASSUME ClaudeIInv, SeenOK, behind' = behind,
         \/ used["turns"] < MaxTurn \/ used["compacts"] < MaxCompact
         \/ turn.phase = "waits" \/ compact.phase = "waits",
         NEW r \in Runtime, NEW s \in 0..MaxSession, NEW item, Input(r, s, item),
         sessions' \in Nat, sessions <= sessions', s <= sessions'
  PROVE  /\ \A e \in Engine : owner'[e].ses <= sessions'
         /\ \A e \in behind : life'[e] # "none" /\ owner'[e] = owner[e]
         /\ query[r] = Absent => query'[r] \notin behind
         /\ query[r] # Absent => query'[r] = query[r]
<1> DEFINE e == IF query[r] # Absent THEN query[r] ELSE Unused
<1>1. PICK k \in 0..(MaxTurn + MaxCompact) :
        Made(k) /\ k + Waits(turn.phase) + Waits(compact.phase) <= used["turns"] + used["compacts"]
  BY DEF ClaudeIInv, EnginesSuffice, Made
<1>2. k \in Nat /\ k < MaxTurn + MaxCompact
  <2>1. /\ used["turns"] \in Nat /\ used["compacts"] \in Nat
        /\ used["turns"] <= MaxTurn /\ used["compacts"] <= MaxCompact
    BY DEF ClaudeIInv, UsedOK
  <2>2. /\ Waits(turn.phase) \in {0, 1} /\ Waits(compact.phase) \in {0, 1}
        /\ turn.phase = "waits" => Waits(turn.phase) = 1
        /\ compact.phase = "waits" => Waits(compact.phase) = 1
    BY DEF Waits
  <2> QED
    BY <1>1, <2>1, <2>2, ClaudeAssumption
<1>3. Unused \in Engine /\ life[Unused] = "none"
  <2>1. Unused = k + 1 /\ k + 1 \in Engine
    BY <1>1, <1>2, UnusedIsNext
  <2> QED
    BY <1>1, <1>2, <2>1 DEF Made
<1>4. /\ query' = [query EXCEPT ![r] = e]
      /\ life' = [life EXCEPT ![e] = "live"]
      /\ owner' = IF query[r] # Absent THEN owner
                  ELSE [owner EXCEPT ![e] = [rt |-> r, ses |-> s]]
  BY DEF Input
<1>5. /\ owner \in [Engine -> [rt : Runtime \cup {Absent}, ses : 0..MaxSession]]
      /\ life \in [Engine -> {"none", "live", "closing", "ended"}]
      /\ query \in [Runtime -> Engine \cup {Absent}]
  BY DEF ClaudeIInv, EnginesKept, EnginesOK, RuntimesOK
<1>6. /\ query[r] = Absent => e = Unused
      /\ query[r] # Absent => e = query[r]
      /\ e \in Engine
  BY <1>3, <1>5
<1> HIDE DEF e
<1>7. query'[r] = e
  BY <1>4, <1>5
<1>8. \A f \in Engine : f # e => owner'[f] = owner[f] /\ life'[f] = life[f]
  BY <1>4, <1>5, <1>6
<1>9. life'[e] = "live"
  BY <1>4, <1>5, <1>6
<1>10. behind \subseteq Engine /\ Unused \notin behind /\ \A f \in behind : life[f] # "none"
  BY <1>3 DEF SeenOK, BehindOK
<1>11. owner'[e] = owner[e] \/ owner'[e] = [rt |-> r, ses |-> s]
  BY <1>4, <1>5, <1>6
<1>12. query[r] # Absent => owner'[e] = owner[e]
  BY <1>4
<1>13. ASSUME NEW f \in Engine PROVE owner'[f].ses <= sessions'
  <2>1. owner[f].ses <= sessions /\ owner[f].ses \in Nat
    BY <1>5, ClaudeAssumption DEF SeenOK, SessionsMade
  <2>2. sessions \in Nat /\ s \in Nat
    BY ClaudeAssumption DEF ClaudeIInv, DaemonOK
  <2>3. owner[f].ses <= sessions'
    BY <2>1, <2>2
  <2>4. CASE f = e
    BY <1>11, <2>3, <2>4
  <2>5. CASE f # e
    BY <1>8, <2>3, <2>5
  <2> QED
    BY <2>4, <2>5
<1>14. \A f \in behind : life'[f] # "none" /\ owner'[f] = owner[f]
  BY <1>6, <1>8, <1>9, <1>10, <1>12
<1> QED
  BY <1>6, <1>7, <1>10, <1>13, <1>14

LEMMA DeliverSeen ==
  ASSUME ClaudeIInv, SeenOK, Deliver
  PROVE  SeenOK'
<1>1. /\ turn.phase = "none" /\ compact.phase = "none" /\ Counted("turns")
      /\ behind' = behind
  BY DEF Deliver, Apart, attachVars
<1>2. used["turns"] < MaxTurn
  BY <1>1, CountedKeeps DEF ClaudeIInv
<1>3. PICK s \in Session :
        /\ s = IF session = Absent \/ stale THEN sessions + 1 ELSE session
        /\ Bind(s)
        /\ bound' = [bound EXCEPT ![runtimes'[s]] = s]
        /\ Begins(runtimes'[s], s, [no |-> used.turns + 1, rt |-> runtimes'[s],
                                     phase |-> "waits", by |-> "none"])
  BY DEF Deliver
<1> DEFINE r == runtimes'[s]
<1>4. r \in Runtime
  <2>1. ClaudeIInv'
    BY DeliverKeeps
  <2>2. runtimes' \in [Session -> Runtime \cup {Absent}] /\ runtimes'[s] # Absent
    <3>1. runtimes' \in [Session -> Runtime \cup {Absent}]
      BY <2>1 DEF ClaudeIInv, DaemonOK
    <3>2. runtimes \in [Session -> Runtime \cup {Absent}] /\ s # Absent
      BY DEF ClaudeIInv, DaemonOK, Session, Absent
    <3> QED
      BY <1>3, <3>1, <3>2 DEF Bind, maps
  <2> QED
    BY <2>2
<1>5. /\ session' = s /\ sessions' = IF s > sessions THEN s ELSE sessions
      /\ s \in Nat /\ sessions \in Nat /\ s # Absent /\ s \in 0..MaxSession
      /\ session <= sessions /\ session \in Nat
  BY <1>3, ClaudeAssumption DEF Bind, Session, Absent, ClaudeIInv, DaemonOK, SeenOK, SessionsMade
<1>6. sessions' \in Nat /\ sessions <= sessions' /\ s <= sessions'
  BY <1>5
<1>7. \A e \in behind : e \in Engine /\ owner[e].ses < s /\ life[e] # "none"
  <2> SUFFICES ASSUME NEW e \in behind PROVE e \in Engine /\ owner[e].ses < s /\ life[e] # "none"
    OBVIOUS
  <2>1. e \in Engine /\ life[e] # "none" /\ (session # Absent => owner[e].ses < session)
    BY DEF SeenOK, BehindOK
  <2>2. owner[e].ses <= sessions /\ owner[e].ses \in Nat
    BY <2>1, ClaudeAssumption DEF SeenOK, SessionsMade, ClaudeIInv, EnginesKept, EnginesOK
  <2> QED
    BY <1>3, <1>5, <2>1, <2>2
<1>8. /\ \A e \in Engine : owner'[e].ses <= sessions'
      /\ \A e \in behind : life'[e] # "none" /\ owner'[e] = owner[e]
      /\ WaitsEmpty' /\ Sees'
  <2>1. \A e \in Engine : owner[e].ses <= sessions'
    BY <1>5, <1>6, ClaudeAssumption DEF SeenOK, SessionsMade, ClaudeIInv, EnginesKept, EnginesOK
  <2>2. CASE /\ retiring[r] # Absent /\ turn'.phase = "waits" /\ turn'.rt = r
             /\ UNCHANGED <<query, retiring, owner, life, inputs>>
    <3>1. query[r] = Absent
      BY <1>4, <2>2 DEF ClaudeIInv, EnginesKept, CurrentOK
    <3> QED
      BY <1>7, <2>1, <2>2, <3>1 DEF WaitsEmpty, Sees
  <2>3. CASE /\ query[r] # Absent /\ turn'.phase = "waits" /\ turn'.rt = r
             /\ query' = [query EXCEPT ![r] = Absent]
             /\ life' = [life EXCEPT ![query[r]] = "closing"] /\ owner' = owner
    <3>1. query \in [Runtime -> Engine \cup {Absent}]
          /\ life \in [Engine -> {"none", "live", "closing", "ended"}]
      BY DEF ClaudeIInv, EnginesKept, EnginesOK, RuntimesOK
    <3>2. query'[r] = Absent /\ \A e \in Engine : life[e] # "none" => life'[e] # "none"
      BY <1>4, <2>3, <3>1
    <3> QED
      BY <1>7, <2>1, <2>3, <3>2 DEF WaitsEmpty, Sees
  <2>4. CASE /\ query[r] # Absent => owner[query[r]].ses = s
             /\ turn'.phase = "active" /\ turn'.rt = r
             /\ \E item : Input(r, s, item)
    <3>1. /\ \A e \in Engine : owner'[e].ses <= sessions'
          /\ \A e \in behind : life'[e] # "none" /\ owner'[e] = owner[e]
          /\ query[r] = Absent => query'[r] \notin behind
          /\ query[r] # Absent => query'[r] = query[r]
      <4> HIDE DEF r
      <4> QED
        BY <1>1, <1>2, <1>4, <1>5, <1>6, <2>4, InputSeen
    <3>2. query'[r] \notin behind
      BY <1>5, <1>7, <2>4, <3>1
    <3> QED
      BY <1>1, <2>4, <3>1, <3>2 DEF WaitsEmpty, Sees
  <2>5. CASE turn'.phase = "done" /\ UNCHANGED <<query, retiring, owner, life, inputs>>
    BY <1>7, <2>1, <2>5 DEF WaitsEmpty, Sees
  <2> QED
    <3> DEFINE t == [no |-> used.turns + 1, rt |-> r, phase |-> "waits", by |-> "none"]
    <3>1. /\ t.phase = "waits" /\ t.rt = r
          /\ [t EXCEPT !.phase = "active"].phase = "active" /\ [t EXCEPT !.phase = "active"].rt = r
          /\ [t EXCEPT !.phase = "done", !.by = "error"].phase = "done"
      OBVIOUS
    <3>2. Begins(r, s, t)
      BY <1>3
    <3> HIDE DEF t, r
    <3>3. \/ /\ retiring[r] # Absent /\ turn' = t
             /\ UNCHANGED <<runtimeVars, engines>>
          \/ /\ query[r] # Absent /\ turn' = t
             /\ query' = [query EXCEPT ![r] = Absent]
             /\ life' = [life EXCEPT ![query[r]] = "closing"]
             /\ UNCHANGED <<removing, owner, inputs>>
          \/ /\ query[r] # Absent => owner[query[r]].ses = s
             /\ turn' = [t EXCEPT !.phase = "active"] /\ Input(r, s, t.no)
          \/ /\ turn' = [t EXCEPT !.phase = "done", !.by = "error"]
             /\ UNCHANGED <<runtimeVars, engines>>
      BY <3>2, Zenon DEF Begins
    <3> QED
      BY <2>2, <2>3, <2>4, <2>5, <3>1, <3>3 DEF runtimeVars, engines
<1>9. SessionsMade'
  <2>1. \A q \in Runtime : bound'[q] <= sessions'
    <3>1. bound \in [Runtime -> 0..MaxSession] /\ \A q \in Runtime : bound[q] <= sessions
      BY DEF ClaudeIInv, BoundOK, SeenOK, SessionsMade
    <3>2. \A q \in Runtime : bound'[q] = s \/ bound'[q] = bound[q]
      BY <1>3, <1>4, <3>1
    <3> QED
      BY <1>5, <1>6, <3>1, <3>2, ClaudeAssumption
  <2> QED
    BY <1>5, <1>6, <1>8, <2>1 DEF SessionsMade
<1>10. BehindOK'
  BY <1>1, <1>5, <1>7, <1>8 DEF BehindOK
<1> QED
  BY <1>8, <1>9, <1>10 DEF SeenOK

\* The input of a turn that waited, or of a compaction.
LEMMA LaterInputSeen ==
  ASSUME ClaudeIInv, SeenOK, NEW r \in Runtime, NEW item, Input(r, bound[r], item),
         UNCHANGED <<behind, sessions, session, bound>>,
         \/ used["turns"] < MaxTurn \/ used["compacts"] < MaxCompact
         \/ turn.phase = "waits" \/ compact.phase = "waits",
         \/ turn.phase = "waits" /\ turn.rt = r /\ turn' = [turn EXCEPT !.phase = "active"]
         \/ turn.phase = "none" /\ turn' = turn
  PROVE  SeenOK'
<1>1. /\ sessions' \in Nat /\ sessions <= sessions'
      /\ bound[r] \in 0..MaxSession /\ bound[r] <= sessions'
  BY ClaudeAssumption DEF ClaudeIInv, DaemonOK, BoundOK, SeenOK, SessionsMade
<1>2. /\ \A e \in Engine : owner'[e].ses <= sessions'
      /\ \A e \in behind : life'[e] # "none" /\ owner'[e] = owner[e]
      /\ query[r] = Absent => query'[r] \notin behind
      /\ query[r] # Absent => query'[r] = query[r]
  BY <1>1, InputSeen
<1>3. SessionsMade' /\ BehindOK'
  BY <1>2 DEF SeenOK, SessionsMade, BehindOK
<1>4. WaitsEmpty' /\ Sees'
  <2>1. CASE turn.phase = "none" /\ turn' = turn
    BY <2>1 DEF WaitsEmpty, Sees
  <2>2. CASE turn.phase = "waits" /\ turn.rt = r /\ turn' = [turn EXCEPT !.phase = "active"]
    <3>1. turn'.phase = "active" /\ turn'.rt = r
      BY <2>2 DEF ClaudeIInv, WorkOK
    <3>2. query[r] = Absent
      BY <2>2 DEF SeenOK, WaitsEmpty
    <3> QED
      BY <1>2, <3>1, <3>2 DEF WaitsEmpty, Sees
  <2> QED
    BY <2>1, <2>2
<1> QED
  BY <1>3, <1>4 DEF SeenOK

\* A new Session, and the release to a terminal.
LEMMA SessionSeen ==
  ASSUME ClaudeIInv, SeenOK, Revive \/ Detach \/ Attach
  PROVE  SeenOK'
<1> USE DEF runtimeVars, engines, others, attachVars
<1>1. UNCHANGED <<query, owner, life, turn, bound>>
  BY DEF Revive, Detach, Attach
<1>2. /\ session \in Nat /\ sessions \in Nat /\ session <= sessions
      /\ \A q \in Runtime : bound[q] \in Nat /\ bound[q] <= sessions
      /\ \A e \in Engine : owner[e].ses \in Nat /\ owner[e].ses <= sessions
  BY ClaudeAssumption
     DEF ClaudeIInv, DaemonOK, BoundOK, EnginesKept, EnginesOK, Session, Absent, SeenOK, SessionsMade
<1>3. CASE Attach
  <2>1. /\ turn.phase = "none" /\ session' = Absent /\ sessions' = sessions
        /\ behind' = behind \cup {e \in Engine : life[e] = "live"}
    BY <1>3 DEF Attach, ApartButForCompaction, daemonVars
  <2>2. SessionsMade'
    BY <1>1, <1>2, <2>1 DEF SessionsMade, Absent
  <2>3. BehindOK'
    BY <1>1, <2>1 DEF SeenOK, BehindOK
  <2> QED
    BY <1>1, <2>1, <2>2, <2>3 DEF SeenOK, WaitsEmpty, Sees
<1>4. CASE Revive \/ Detach
  <2>1. session' = sessions + 1 /\ sessions' = sessions + 1 /\ behind' = behind
    BY <1>4 DEF Revive, Detach
  <2>2. SessionsMade'
    BY <1>1, <1>2, <2>1 DEF SessionsMade
  <2>3. BehindOK'
    BY <1>1, <1>2, <2>1 DEF SeenOK, BehindOK
  <2> QED
    BY <1>1, <2>1, <2>2, <2>3 DEF SeenOK, WaitsEmpty, Sees
<1> QED
  BY <1>3, <1>4


LEMMA SeenInitHolds == ClaudeInit => SeenOK
BY DEF ClaudeInit, SeenOK, SessionsMade, BehindOK, WaitsEmpty, Sees, Absent, NoTurn

LEMMA SeenInductive ==
  ASSUME ClaudeIInv, SeenOK, [ClaudeNext]_claudeVars
  PROVE  SeenOK'
<1> USE DEF daemonVars, maps, runtimeVars, engines, attachVars, others
<1>t. /\ life \in [Engine -> {"none", "live", "closing", "ended"}]
      /\ query \in [Runtime -> Engine \cup {Absent}]
      /\ \A k \in {"turns", "compacts"} : used[k] \in Nat
  BY DEF ClaudeIInv, EnginesKept, EnginesOK, RuntimesOK, UsedOK
<1>0. ASSUME UNCHANGED <<owner, bound, behind, sessions, query, life>>,
             session' \in {session, Absent},
             turn'.phase \in {"waits", "active"} => turn' = turn
      PROVE  SeenOK'
  BY <1>0, QuietSeen
<1>r. ASSUME NEW r \in Runtime, Closes(r), UNCHANGED <<bound, behind, sessions>>,
             session' = session,
             turn'.phase \in {"waits", "active"} => turn' = turn
      PROVE  SeenOK'
  <2>1. \A q \in Runtime : query'[q] \in {query[q], Absent}
    BY <1>t, <1>r DEF Closes
  <2>2. \A e \in Engine : life[e] # "none" => life'[e] # "none"
    BY <1>t, <1>r DEF Closes
  <2>3. owner' = owner
    BY <1>r DEF Closes
  <2> QED
    BY <1>r, <2>1, <2>2, <2>3, QuietSeen
<1>1. CASE Deliver
  BY <1>1, DeliverSeen
<1>2. CASE Resume
  <2>1. /\ turn.phase = "waits" /\ turn.rt \in Runtime
        /\ turn' = [turn EXCEPT !.phase = "active"]
        /\ Input(turn.rt, bound[turn.rt], turn.no)
        /\ UNCHANGED <<behind, sessions, session, bound>>
    BY <1>2 DEF Resume, ClaudeIInv, WorkOK
  <2> QED
    BY <2>1, LaterInputSeen
<1>3. CASE WaitTimesOut \/ Returns
  <2>1. turn'.phase \in {"waits", "active"} => turn' = turn
    <3>1. CASE turn' = NoTurn
      BY <3>1 DEF NoTurn
    <3>2. CASE turn' = [turn EXCEPT !.phase = "done", !.by = "error"]
      BY <3>2 DEF ClaudeIInv, WorkOK
    <3> QED
      BY <1>3, <3>1, <3>2 DEF WaitTimesOut, Returns
  <2>2. UNCHANGED <<owner, bound, behind, sessions, query, life, session>>
    BY <1>3 DEF WaitTimesOut, Returns
  <2> QED
    BY <1>0, <2>1, <2>2
<1>4. CASE \E r \in Runtime : Retirement(r)
  BY <1>0, <1>4 DEF Retirement
<1>5. CASE \E e \in Engine : Result(e) \/ Boundary(e)
  <2>1. turn'.phase \in {"waits", "active"} => turn' = turn
    BY <1>5 DEF Result, Boundary, ClaudeIInv, WorkOK
  <2>2. UNCHANGED <<owner, bound, behind, sessions, query, life, session>>
    BY <1>5 DEF Result, Boundary
  <2> QED
    BY <1>0, <2>1, <2>2
<1>6. CASE \E e \in Engine : Ends(e)
  <2>1. PICK e \in Engine : Ends(e)
    BY <1>6
  <2>2. /\ UNCHANGED <<owner, bound, behind, sessions, query, turn, session>>
        /\ life' = [life EXCEPT ![e] = "ended"]
    BY <2>1 DEF Ends
  <2>3. \A f \in Engine : life[f] # "none" => life'[f] # "none"
    BY <1>t, <2>2
  <2> QED
    BY <2>2, <2>3, QuietSeen
<1>7. CASE \E e \in Engine : Exits(e)
  <2>1. PICK e \in Engine : Exits(e)
    BY <1>7
  <2>2. /\ UNCHANGED <<owner, bound, behind, sessions, session>>
        /\ life' = [life EXCEPT ![e] = "ended"]
        /\ query' = [query EXCEPT ![owner[e].rt] = Absent]
    BY <2>1 DEF Exits
  <2>3. \A f \in Engine : life[f] # "none" => life'[f] # "none"
    BY <1>t, <2>2
  <2>4. \A q \in Runtime : query'[q] \in {query[q], Absent}
    BY <1>t, <2>2
  <2>5. turn'.phase \in {"waits", "active"} => turn' = turn
    BY <2>1 DEF Exits, ClaudeIInv, WorkOK
  <2> QED
    BY <2>2, <2>3, <2>4, <2>5, QuietSeen
<1>8. CASE GivenUp
  <2>1. turn.rt \in Runtime /\ Retire(turn.rt, FALSE) /\ memberRuntime \in Runtime \cup {Absent}
    BY <1>8 DEF GivenUp, ClaudeIInv, WorkOK, DaemonOK
  <2>2. Closes(turn.rt)
    BY <2>1, RetireCloses
  <2>3. turn'.phase \in {"waits", "active"} => turn' = turn
    <3>1. CASE turn' = NoTurn
      BY <3>1 DEF NoTurn
    <3>2. CASE turn' = [turn EXCEPT !.phase = "done", !.by = "error"]
      BY <3>2 DEF ClaudeIInv, WorkOK
    <3> QED
      BY <1>8, <3>1, <3>2 DEF GivenUp
  <2>4. UNCHANGED <<bound, behind, sessions, session>>
    BY <1>8 DEF GivenUp
  <2> QED
    BY <1>r, <2>1, <2>2, <2>3, <2>4
<1>9. CASE Stop
  <2> DEFINE r == LiveRuntime(session)
  <2>1. Interrupt /\ UNCHANGED <<bound, behind, sessions, session>>
    BY <1>9 DEF Stop
  <2>2. turn'.phase \in {"waits", "active"} => turn' = turn
    BY <2>1 DEF Interrupt, StoppedTurn, ClaudeIInv, WorkOK
  <2>3. CASE r = Absent
    BY <1>0, <2>1, <2>2, <2>3 DEF Interrupt
  <2>4. CASE r # Absent
    <3>1. r \in Runtime /\ memberRuntime \in Runtime \cup {Absent}
      BY <2>4, LiveRuntimeIsOne DEF ClaudeIInv, DaemonOK
    <3>2. Retire(r, TRUE)
      BY <2>1, <2>4, Zenon DEF Interrupt
    <3> HIDE DEF r
    <3>3. Closes(r)
      BY <3>1, <3>2, RetireCloses
    <3> QED
      BY <1>r, <2>1, <2>2, <3>1, <3>3
  <2> QED
    BY <2>3, <2>4
<1>10. CASE CompactSession \/ CompactionResumes
  <2> DEFINE r == IF compact.phase = "waits" THEN compact.rt ELSE LiveRuntime(session)
  <2>1. /\ turn.phase = "none" /\ turn' = turn
        /\ UNCHANGED <<behind, sessions, session, bound>>
    BY <1>10 DEF CompactSession, CompactionResumes, Apart, ClaudeIInv, Exclusive
  <2>2. used["compacts"] < MaxCompact \/ compact.phase = "waits"
    BY <1>10 DEF CompactSession, CompactionResumes, Counted, Limits
  <2>3. r \in Runtime
    BY <1>10, LiveRuntimeIsOne DEF CompactSession, CompactionResumes, Apart, ClaudeIInv, WorkOK
  <2>4. Input(r, bound[r], Compaction) \/ UNCHANGED <<query, owner, life>>
    BY <1>10 DEF CompactSession, CompactionResumes, Apart
  <2> HIDE DEF r
  <2> QED
    BY <1>0, <2>1, <2>2, <2>3, <2>4, LaterInputSeen
<1>11. CASE CompactionTimesOut \/ Configure \/ ResetEnds \/ UNCHANGED claudeVars
  <2>1. /\ UNCHANGED <<owner, bound, behind, sessions, query, life, turn>>
        /\ session' \in {session, Absent}
    BY <1>11 DEF CompactionTimesOut, Configure, ResetEnds, claudeVars
  <2> QED
    BY <1>0, <2>1
<1>12. CASE Reset
  <2> DEFINE r == LiveRuntime(session)
  <2>1. UNCHANGED <<bound, behind, sessions, turn>> /\ (session' = session \/ session' = Absent)
    BY <1>12, Zenon DEF Reset
  <2>2. CASE r = Absent
    BY <1>0, <1>12, <2>1, <2>2 DEF Reset
  <2>3. CASE r # Absent
    <3>1. r \in Runtime /\ memberRuntime \in Runtime \cup {Absent}
      BY <2>3, LiveRuntimeIsOne DEF ClaudeIInv, DaemonOK
    <3>2. Retire(r, TRUE) /\ session' = session
      BY <1>12, <2>3, Zenon DEF Reset
    <3> HIDE DEF r
    <3>3. Closes(r)
      BY <3>1, <3>2, RetireCloses
    <3> QED
      BY <1>r, <2>1, <3>1, <3>2, <3>3
  <2> QED
    BY <2>2, <2>3
<1>13. CASE Revive \/ Detach \/ Attach
  BY <1>13, SessionSeen
<1> QED
  BY <1>1, <1>2, <1>3, <1>4, <1>5, <1>6, <1>7, <1>8, <1>9, <1>10, <1>11, <1>12, <1>13 DEF ClaudeNext

\* A turn is under way on a live engine of its runtime, with its payload before
\* it and no terminal's work behind its back, and the result that ends it is that
\* payload's unless a compaction was let go before it.  Retirements, stops, resets,
\* configurations and terminals in any order do not change that: an engine is
\* forgotten by its runtime before it is closed, and serves one Session's turns.
THEOREM ServedCorrect == ClaudeSpec => []ServedByItsEngine
<1>1. ClaudeIInv /\ SeenOK => ServedByItsEngine
  BY DEF ClaudeIInv, SeenOK, Sees, ServedByItsEngine, Served, OwnResult
<1> QED
  BY <1>1, ClaudeInitHolds, ClaudeInductive, SeenInitHolds, SeenInductive, PTL DEF ClaudeSpec

\* At most one engine works for a runtime: the one it uses or the one it retires.
THEOREM EngineAloneCorrect == ClaudeSpec => []EngineIsAlone
<1>1. ClaudeIInv => EngineIsAlone
  <2> SUFFICES ASSUME ClaudeIInv, NEW r \in Runtime
               PROVE  Cardinality({e \in Engine : owner[e].rt = r
                                                  /\ life[e] \in {"live", "closing"}}) <= 1
    BY DEF EngineIsAlone
  <2> DEFINE W == {e \in Engine : owner[e].rt = r /\ life[e] \in {"live", "closing"}}
  <2>1. RuntimesOK /\ CurrentOK /\ RetiringOK /\ KnownOK
    BY DEF ClaudeIInv, EnginesKept
  <2>2. \A e \in W : IF query[r] # Absent THEN e = query[r] ELSE e = retiring[r]
    BY <2>1 DEF KnownOK, CurrentOK, RetiringOK, Engine, Absent
  <2>3. \E x : W \subseteq {x}
    BY <2>2
  <2> HIDE DEF W
  <2>4. PICK x : W = {} \/ W = {x}
    BY <2>3
  <2>5. Cardinality({}) = 0 /\ Cardinality({x}) = 1
    BY FS_EmptySet, FS_Singleton
  <2>6. Cardinality(W) <= 1
    BY <2>4, <2>5
  <2> QED
    BY <2>6 DEF W
<1> QED
  BY <1>1, ClaudeInitHolds, ClaudeInductive, PTL DEF ClaudeSpec

-----------------------------------------------------------------------------
(* CodexRuntime.                                                           *)

Tallies == {"turns", "interrupts", "compactions", "clears", "changes", "exits"}

\* What the variables that the argument turns on may hold.
ClientsOK ==
  /\ current \in CodexRt \cup {None} /\ clearing \in CodexRt \cup {None}
  /\ client \in [CodexRt -> Child \cup {None}]
  /\ retiringChild \in [CodexRt -> Child \cup {None}]
ChildrenOK ==
  /\ of \in [Child -> CodexRt \cup {None}]
  /\ process \in [Child -> {"none", "live", "closing", "ended"}]
  /\ starts \in [Child -> Seq(0..MaxCodexTurn)]
RunOK ==
  /\ run \in [no : 0..MaxCodexTurn, rt : CodexRt \cup {None},
              at : {"none", "spawning", "handshake", "starting", "running"},
              by : {"none", "own", "other", "stop", "error"}]
  /\ shrink \in [rt : CodexRt \cup {None}, at : {"none", "spawning", "handshake", "pending"}]
  /\ run.at # "none" => run.rt \in CodexRt /\ run.no # CompactTurn
  /\ shrink.at # "none" => shrink.rt \in CodexRt
  /\ run.at # "none" => shrink.at = "none"
TallyOK == tally \in [Tallies -> Nat] /\ tally["turns"] <= MaxCodexTurn

\* A client speaks to a live child of its runtime; a child that was never made
\* was given nothing.
ClientOK ==
  /\ \A r \in CodexRt : client[r] # None =>
       process[client[r]] = "live" /\ of[client[r]] = r /\ retiringChild[r] = None
  /\ \A c \in Child : process[c] = "none" => of[c] = None /\ starts[c] = <<>>

\* A child that is waited for was made.
WasMade == \A r \in CodexRt : retiringChild[r] # None => process[retiringChild[r]] # "none"

\* A spawn is for a runtime without a client, and a handshake is not yet followed
\* by a turn.
ConnectingOK ==
  /\ run.at = "spawning" => client[run.rt] = None
  /\ shrink.at = "spawning" => client[shrink.rt] = None
  /\ run.at = "handshake" /\ client[run.rt] # None => starts[client[run.rt]] = <<>>
  /\ shrink.at = "handshake" /\ client[shrink.rt] # None => starts[client[shrink.rt]] = <<>>

\* A turn that is under way beside a turn/interrupt of its runtime began there.
AskedBefore ==
  run.at # "none" /\ run.by = "none" /\ run.rt \in asked => run.no \in spilled

\* A turn under way, or stopped, on a runtime that is still the member's.
HasClient ==
  run.at = "running" /\ run.by = "none" /\ run.no \notin spilled => client[run.rt] # None
HasStarted ==
  run.at \in {"starting", "running"} /\ run.by = "none" /\ client[run.rt] # None =>
    \E i \in DOMAIN starts[client[run.rt]] : starts[client[run.rt]][i] = run.no
Settled ==
  /\ run.at # "none" /\ run.by = "stop" => run.rt # current \/ run.rt \in asked
  /\ run.at # "none" /\ run.by = "error" => client[run.rt] = None
  /\ run.at \in {"none", "spawning", "handshake"} => run.by \notin {"own", "other"}
  /\ run.at \in {"none", "spawning"} => run.by # "error"

\* A runtime that somebody still works with, and nobody asked to stop, has before
\* it what the daemon waits for and nothing else.
Clean(r) ==
  /\ r \notin asked
  /\ \/ r = current
     \/ run.at # "none" /\ run.rt = r /\ run.by = "none"
     \/ shrink.at # "none" /\ shrink.rt = r
Expected(r) ==
  IF run.at \in {"starting", "running"} /\ run.rt = r /\ run.by = "none" THEN <<run.no>>
  ELSE IF shrink.at = "pending" /\ shrink.rt = r THEN <<CompactTurn>>
  ELSE <<>>
InStep ==
  ~overdue => \A r \in CodexRt : Clean(r) /\ client[r] # None => starts[client[r]] = Expected(r)
OwnCompletion == run.by = "other" /\ run.no \notin spilled => overdue

\* What the reset of a context left behind, while nobody has stopped the agent.
LeftBehind(c) == process[c] = "ended" \/ (current # None /\ retiringChild[current] = c)
Unstopped ==
  tally["interrupts"] = 0 =>
    /\ asked = {} /\ cleared \subseteq Child
    /\ \A c \in cleared : process[c] # "none" /\ LeftBehind(c)
    /\ clearing # None => clearing = current
    /\ run.at = "spawning" \/ shrink.at = "spawning" => \A c \in cleared : process[c] = "ended"

\* Nobody but a stop takes the runtime of the member out of its map.
ListedOK == tally["interrupts"] = 0 /\ current # None => listed

\* The inductive invariant, together with ListedOK.
CodexIInv ==
  /\ ClientsOK /\ ChildrenOK /\ RunOK /\ TallyOK /\ ClientOK /\ WasMade
  /\ ConnectingOK /\ AskedBefore /\ HasClient /\ HasStarted /\ Settled /\ InStep /\ OwnCompletion
  /\ Unstopped

-----------------------------------------------------------------------------
LEMMA NoneIsNone ==
  /\ None \notin CodexRt /\ None \notin Child
BY DEF None, CodexRt, Child

LEMMA TalliedKeeps ==
  ASSUME TallyOK, NEW k \in Tallies, Tallied(k)
  PROVE  /\ TallyOK'
         /\ tally'["turns"] = IF k = "turns" THEN tally["turns"] + 1 ELSE tally["turns"]
         /\ k = "turns" => tally["turns"] < MaxCodexTurn
         /\ tally["interrupts"] \in Nat
         /\ tally'["interrupts"] = IF k = "interrupts" THEN tally["interrupts"] + 1 ELSE tally["interrupts"]
<1>1. tally' = [tally EXCEPT ![k] = tally[k] + 1] /\ tally[k] < Caps[k]
  BY DEF Tallied
<1>2. Caps["turns"] = MaxCodexTurn /\ MaxCodexTurn \in Nat
  BY CodexAssumption DEF Caps
<1>3. \A j \in Tallies : tally[j] \in Nat /\ tally'[j] = IF j = k THEN tally[k] + 1 ELSE tally[j]
  BY <1>1 DEF TallyOK
<1>4. tally' \in [Tallies -> Nat]
  BY <1>1, <1>3 DEF TallyOK
<1>5. "turns" \in Tallies /\ "interrupts" \in Tallies
  BY DEF Tallies
<1>6. k = "turns" => tally["turns"] < MaxCodexTurn
  BY <1>1, <1>2
<1>7. tally'["turns"] <= MaxCodexTurn
  BY <1>2, <1>3, <1>5, <1>6 DEF TallyOK
<1> QED
  BY <1>3, <1>4, <1>5, <1>6, <1>7 DEF TallyOK

\* What disposing a client does (retireRuntime).
Disposed(r) ==
  /\ client' = [client EXCEPT ![r] = None]
  /\ process' = [c \in Child |-> IF c = client[r] /\ process[c] = "live" THEN "closing"
                                 ELSE process[c]]
  /\ of' = of /\ starts' = starts

LEMMA DisposedKeeps ==
  ASSUME ClientsOK, ChildrenOK, ClientOK, NEW r \in CodexRt, Disposed(r)
  PROVE  /\ client' \in [CodexRt -> Child \cup {None}] /\ ChildrenOK'
         /\ client'[r] = None /\ \A s \in CodexRt : s # r => client'[s] = client[s]
         /\ \A s \in CodexRt : client'[s] # None => client'[s] = client[s] /\ s # r
         /\ \A s \in CodexRt : client'[s] # None =>
              process'[client'[s]] = "live" /\ of'[client'[s]] = s /\ retiringChild[s] = None
         /\ \A c \in Child : process'[c] = "none" => of'[c] = None /\ starts'[c] = <<>>
         /\ \A c \in Child : process[c] = "ended" => process'[c] = "ended"
         /\ \A c \in Child : process[c] # "none" <=> process'[c] # "none"
         /\ \A c \in Child : process'[c] = "live" => process[c] = "live"
<1>1. /\ client' = [client EXCEPT ![r] = None]
      /\ process' = [c \in Child |-> IF c = client[r] /\ process[c] = "live" THEN "closing"
                                     ELSE process[c]]
      /\ of' = of /\ starts' = starts
  BY DEF Disposed
<1>2. /\ client \in [CodexRt -> Child \cup {None}]
      /\ process \in [Child -> {"none", "live", "closing", "ended"}]
      /\ of \in [Child -> CodexRt \cup {None}] /\ starts \in [Child -> Seq(0..MaxCodexTurn)]
  BY DEF ClientsOK, ChildrenOK
<1>3. client' \in [CodexRt -> Child \cup {None}]
  BY <1>1, <1>2
<1>4. process' \in [Child -> {"none", "live", "closing", "ended"}]
  BY <1>1, <1>2
<1>5. ChildrenOK'
  BY <1>1, <1>2, <1>4 DEF ChildrenOK
<1>6. client'[r] = None /\ \A s \in CodexRt : s # r => client'[s] = client[s]
  BY <1>1, <1>2
<1>7. \A c \in Child : process'[c] = IF c = client[r] /\ process[c] = "live" THEN "closing" ELSE process[c]
  BY <1>1
<1>8. \A s \in CodexRt : client'[s] # None => client'[s] = client[s] /\ s # r
  BY <1>6
<1>9. ASSUME NEW s \in CodexRt, client'[s] # None
      PROVE  process'[client'[s]] = "live" /\ of'[client'[s]] = s /\ retiringChild[s] = None
  <2>1. client'[s] = client[s] /\ s # r /\ client[s] \in Child
    BY <1>2, <1>8, <1>9
  <2>2. process[client[s]] = "live" /\ of[client[s]] = s /\ retiringChild[s] = None
    BY <1>9, <2>1 DEF ClientOK
  <2>3. client[s] # client[r]
    BY <1>9, <2>1, <2>2, NoneIsNone DEF ClientOK
  <2> QED
    BY <1>1, <1>7, <2>1, <2>2, <2>3
<1>10. \A c \in Child : process'[c] = "none" => of'[c] = None /\ starts'[c] = <<>>
  BY <1>1, <1>7 DEF ClientOK
<1> QED
  BY <1>3, <1>5, <1>6, <1>7, <1>8, <1>9, <1>10

\* What connecting a child does.
LEMMA ConnectsKeeps ==
  ASSUME ClientsOK, ChildrenOK, ClientOK, NEW r \in CodexRt, Connects(r), starts' = starts
  PROVE  \E d \in Child :
         /\ process[d] = "none" /\ starts[d] = <<>>
         /\ client' \in [CodexRt -> Child \cup {None}] /\ ChildrenOK'
         /\ retiringChild' \in [CodexRt -> Child \cup {None}]
         /\ client'[r] = d /\ \A s \in CodexRt : s # r => client'[s] = client[s]
         /\ retiringChild'[r] = None
         /\ \A s \in CodexRt : s # r => retiringChild'[s] = retiringChild[s]
         /\ \A s \in CodexRt : client'[s] # None =>
              process'[client'[s]] = "live" /\ of'[client'[s]] = s /\ retiringChild'[s] = None
         /\ \A c \in Child : process'[c] = "none" => of'[c] = None /\ starts'[c] = <<>>
         /\ process'[d] = "live" /\ \A c \in Child : c # d => process'[c] = process[c]
<1>1. PICK d \in Child :
        /\ process[d] = "none"
        /\ client' = [client EXCEPT ![r] = d]
        /\ of' = [of EXCEPT ![d] = r] /\ process' = [process EXCEPT ![d] = "live"]
        /\ retiringChild' = [retiringChild EXCEPT ![r] = None]
  BY DEF Connects
<1>2. /\ client \in [CodexRt -> Child \cup {None}]
      /\ retiringChild \in [CodexRt -> Child \cup {None}]
      /\ process \in [Child -> {"none", "live", "closing", "ended"}]
      /\ of \in [Child -> CodexRt \cup {None}] /\ starts \in [Child -> Seq(0..MaxCodexTurn)]
  BY DEF ClientsOK, ChildrenOK
<1>3. starts[d] = <<>>
  BY <1>1 DEF ClientOK
<1>4. client' \in [CodexRt -> Child \cup {None}] /\ retiringChild' \in [CodexRt -> Child \cup {None}]
  BY <1>1, <1>2
<1>5. ChildrenOK'
  <2>1. of' \in [Child -> CodexRt \cup {None}]
    BY <1>1, <1>2
  <2>2. process' \in [Child -> {"none", "live", "closing", "ended"}]
    BY <1>1, <1>2
  <2> QED
    BY <1>2, <2>1, <2>2 DEF ChildrenOK
<1>6. /\ client'[r] = d /\ \A s \in CodexRt : s # r => client'[s] = client[s]
      /\ retiringChild'[r] = None
      /\ \A s \in CodexRt : s # r => retiringChild'[s] = retiringChild[s]
      /\ process'[d] = "live" /\ \A c \in Child : c # d => process'[c] = process[c]
      /\ of'[d] = r /\ \A c \in Child : c # d => of'[c] = of[c]
  BY <1>1, <1>2
<1>7. ASSUME NEW s \in CodexRt, client'[s] # None
      PROVE  process'[client'[s]] = "live" /\ of'[client'[s]] = s /\ retiringChild'[s] = None
  <2>1. CASE s = r
    BY <1>6, <2>1
  <2>2. CASE s # r
    <3>1. client'[s] = client[s] /\ client[s] \in Child
      BY <1>2, <1>6, <1>7, <2>2
    <3>2. process[client[s]] = "live" /\ of[client[s]] = s /\ retiringChild[s] = None
      BY <1>7, <3>1 DEF ClientOK
    <3>3. client[s] # d
      BY <1>1, <3>2
    <3> QED
      BY <1>6, <2>2, <3>1, <3>2, <3>3
  <2> QED
    BY <2>1, <2>2
<1>8. \A c \in Child : process'[c] = "none" => of'[c] = None /\ starts'[c] = <<>>
  BY <1>6 DEF ClientOK
<1> QED
  BY <1>1, <1>3, <1>4, <1>5, <1>6, <1>7, <1>8

\* What giving a child a native turn does.
LEMMA SendKeeps ==
  ASSUME ChildrenOK, ClientOK, NEW c \in Child, process[c] = "live",
         NEW item \in 0..MaxCodexTurn, Send(c, item), UNCHANGED <<of, process>>
  PROVE  /\ ChildrenOK'
         /\ starts'[c] = Append(starts[c], item)
         /\ \E i \in DOMAIN starts'[c] : starts'[c][i] = item
         /\ \A d \in Child : d # c => starts'[d] = starts[d]
         /\ \A d \in Child : process'[d] = "none" => of'[d] = None /\ starts'[d] = <<>>
<1>1. starts' = [starts EXCEPT ![c] = Append(starts[c], item)]
  BY DEF Send
<1>2. starts \in [Child -> Seq(0..MaxCodexTurn)] /\ starts[c] \in Seq(0..MaxCodexTurn)
  BY DEF ChildrenOK
<1>3. Append(starts[c], item) \in Seq(0..MaxCodexTurn)
  BY <1>2
<1>4. starts' \in [Child -> Seq(0..MaxCodexTurn)]
  BY <1>1, <1>2, <1>3
<1>5. starts'[c] = Append(starts[c], item) /\ \A d \in Child : d # c => starts'[d] = starts[d]
  BY <1>1, <1>2
<1>6. \E i \in DOMAIN starts'[c] : starts'[c][i] = item
  <2>1. /\ Len(starts[c]) + 1 \in DOMAIN Append(starts[c], item)
        /\ Append(starts[c], item)[Len(starts[c]) + 1] = item
    BY <1>2
  <2> QED
    BY <1>5, <2>1
<1>7. \A d \in Child : process'[d] = "none" => of'[d] = None /\ starts'[d] = <<>>
  BY <1>5 DEF ClientOK
<1> QED
  BY <1>4, <1>5, <1>6, <1>7 DEF ChildrenOK

LEMMA AppendToNothing == \A x : Append(<<>>, x) = <<x>>
OBVIOUS

LEMMA StartedKeeps ==
  ASSUME CodexIInv, Started
  PROVE  CodexIInv'
<1>i. /\ ClientsOK /\ ChildrenOK /\ RunOK /\ TallyOK /\ ClientOK /\ WasMade /\ ConnectingOK
      /\ AskedBefore /\ HasClient /\ HasStarted /\ Settled /\ InStep /\ OwnCompletion
      /\ Unstopped
  BY DEF CodexIInv
<1>r. /\ run \in [no : 0..MaxCodexTurn, rt : CodexRt \cup {None},
                 at : {"none", "spawning", "handshake", "starting", "running"},
                 by : {"none", "own", "other", "stop", "error"}]
      /\ shrink \in [rt : CodexRt \cup {None}, at : {"none", "spawning", "handshake", "pending"}]
      /\ run.at # "none" => run.rt \in CodexRt /\ run.no # CompactTurn
      /\ shrink.at # "none" => shrink.rt \in CodexRt
      /\ run.at # "none" => shrink.at = "none"
  BY <1>i DEF RunOK
<1>1. /\ run.at = "starting" /\ client[run.rt] # None
      /\ run' = [run EXCEPT !.at = "running"]
      /\ UNCHANGED <<current, client, retiringChild, of, process, starts, asked, shrink, clearing,
                     overdue, cleared, spilled, tally>>
  BY DEF Started, children, history
<1>2. run'.at = "running" /\ run'.rt = run.rt /\ run'.no = run.no /\ run'.by = run.by
  BY <1>1, <1>r
<1>ClientsOK. ClientsOK'
  BY <1>i, <1>r, <1>1, <1>2 DEF ClientsOK
<1>ChildrenOK. ChildrenOK'
  BY <1>i, <1>r, <1>1, <1>2 DEF ChildrenOK
<1>RunOK. RunOK'
  <2>1. run' \in [no : 0..MaxCodexTurn, rt : CodexRt \cup {None},
                   at : {"none", "spawning", "handshake", "starting", "running"},
                   by : {"none", "own", "other", "stop", "error"}]
    BY <1>1, <1>r
  <2> QED
    BY <1>1, <1>2, <1>r, <2>1 DEF RunOK
<1>TallyOK. TallyOK'
  BY <1>i, <1>r, <1>1, <1>2 DEF TallyOK
<1>ClientOK. ClientOK'
  BY <1>i, <1>r, <1>1, <1>2 DEF ClientOK
<1>WasMade. WasMade'
  BY <1>i, <1>r, <1>1, <1>2 DEF WasMade
<1>ConnectingOK. ConnectingOK'
  BY <1>i, <1>r, <1>1, <1>2 DEF ConnectingOK
<1>AskedBefore. AskedBefore'
  BY <1>i, <1>r, <1>1, <1>2 DEF AskedBefore
<1>HasClient. HasClient'
  BY <1>i, <1>r, <1>1, <1>2 DEF HasClient
<1>HasStarted. HasStarted'
  BY <1>i, <1>r, <1>1, <1>2 DEF HasStarted
<1>Settled. Settled'
  BY <1>i, <1>r, <1>1, <1>2 DEF Settled
<1>InStep. InStep'
  <2> SUFFICES ASSUME ~overdue', NEW s \in CodexRt, Clean(s)', client'[s] # None
               PROVE  starts'[client'[s]] = Expected(s)'
    BY DEF InStep
  <2>1. Clean(s) /\ client'[s] = client[s] /\ ~overdue
    BY <1>1, <1>2 DEF Clean
  <2>2. Expected(s)' = Expected(s)
    BY <1>1, <1>2, <2>1 DEF Expected
  <2>3. starts'[client[s]] = starts[client[s]]
    BY <1>1, <1>2, <2>1
  <2> QED
    BY <1>i, <2>1, <2>2, <2>3 DEF InStep
<1>OwnCompletion. OwnCompletion'
  BY <1>i, <1>r, <1>1, <1>2 DEF OwnCompletion
<1>Unstopped. Unstopped'
  BY <1>i, <1>1, <1>2 DEF Unstopped, LeftBehind
<1> QED
  BY <1>ClientsOK, <1>ChildrenOK, <1>RunOK, <1>TallyOK, <1>ClientOK, <1>WasMade, <1>ConnectingOK,
     <1>AskedBefore, <1>HasClient, <1>HasStarted, <1>Settled, <1>InStep, <1>OwnCompletion,
     <1>Unstopped DEF CodexIInv

LEMMA TurnReturnsKeeps ==
  ASSUME CodexIInv, TurnReturns
  PROVE  CodexIInv'
<1>i. /\ ClientsOK /\ ChildrenOK /\ RunOK /\ TallyOK /\ ClientOK /\ WasMade /\ ConnectingOK
      /\ AskedBefore /\ HasClient /\ HasStarted /\ Settled /\ InStep /\ OwnCompletion
      /\ Unstopped
  BY DEF CodexIInv
<1>r. /\ run \in [no : 0..MaxCodexTurn, rt : CodexRt \cup {None},
                 at : {"none", "spawning", "handshake", "starting", "running"},
                 by : {"none", "own", "other", "stop", "error"}]
      /\ shrink \in [rt : CodexRt \cup {None}, at : {"none", "spawning", "handshake", "pending"}]
      /\ run.at # "none" => run.rt \in CodexRt /\ run.no # CompactTurn
      /\ shrink.at # "none" => shrink.rt \in CodexRt
      /\ run.at # "none" => shrink.at = "none"
  BY <1>i DEF RunOK
<1>1. /\ run.at = "running" /\ run.by # "none" /\ run' = NoRun
      /\ UNCHANGED <<current, client, retiringChild, of, process, starts, asked, shrink, clearing,
                     overdue, cleared, spilled, tally>>
  BY DEF TurnReturns, children, history
<1>2. run'.at = "none" /\ run'.rt = None /\ run'.no = 0 /\ run'.by = "none" /\ shrink.at = "none"
  BY <1>1, <1>r DEF NoRun
<1>ClientsOK. ClientsOK'
  BY <1>i, <1>r, <1>1, <1>2 DEF ClientsOK
<1>ChildrenOK. ChildrenOK'
  BY <1>i, <1>r, <1>1, <1>2 DEF ChildrenOK
<1>RunOK. RunOK'
  <2>1. run' \in [no : 0..MaxCodexTurn, rt : CodexRt \cup {None},
                 at : {"none", "spawning", "handshake", "starting", "running"},
                 by : {"none", "own", "other", "stop", "error"}]
    BY <1>1, CodexAssumption DEF NoRun
  <2> QED
    BY <1>1, <1>2, <1>r, <2>1 DEF RunOK
<1>TallyOK. TallyOK'
  BY <1>i, <1>r, <1>1, <1>2 DEF TallyOK
<1>ClientOK. ClientOK'
  BY <1>i, <1>r, <1>1, <1>2 DEF ClientOK
<1>WasMade. WasMade'
  BY <1>i, <1>r, <1>1, <1>2 DEF WasMade
<1>ConnectingOK. ConnectingOK'
  BY <1>i, <1>r, <1>1, <1>2 DEF ConnectingOK
<1>AskedBefore. AskedBefore'
  BY <1>i, <1>r, <1>1, <1>2 DEF AskedBefore
<1>HasClient. HasClient'
  BY <1>i, <1>r, <1>1, <1>2 DEF HasClient
<1>HasStarted. HasStarted'
  BY <1>i, <1>r, <1>1, <1>2 DEF HasStarted
<1>Settled. Settled'
  BY <1>i, <1>r, <1>1, <1>2 DEF Settled
<1>InStep. InStep'
  <2> SUFFICES ASSUME ~overdue, NEW s \in CodexRt, Clean(s)', client[s] # None
               PROVE  starts[client[s]] = <<>>
    BY <1>1, <1>2 DEF InStep, Expected
  <2>1. s = current /\ s \notin asked
    BY <1>1, <1>2 DEF Clean
  <2>2. Expected(s) = <<>>
    BY <1>1, <1>2 DEF Expected
  <2> QED
    BY <1>i, <2>1, <2>2 DEF InStep, Clean
<1>OwnCompletion. OwnCompletion'
  BY <1>i, <1>r, <1>1, <1>2 DEF OwnCompletion
<1>Unstopped. Unstopped'
  BY <1>i, <1>1, <1>2 DEF Unstopped, LeftBehind
<1> QED
  BY <1>ClientsOK, <1>ChildrenOK, <1>RunOK, <1>TallyOK, <1>ClientOK, <1>WasMade, <1>ConnectingOK,
     <1>AskedBefore, <1>HasClient, <1>HasStarted, <1>Settled, <1>InStep, <1>OwnCompletion,
     <1>Unstopped DEF CodexIInv

LEMMA HandshakenKeeps ==
  ASSUME CodexIInv, Handshaken
  PROVE  CodexIInv'
<1>i. /\ ClientsOK /\ ChildrenOK /\ RunOK /\ TallyOK /\ ClientOK /\ WasMade /\ ConnectingOK
      /\ AskedBefore /\ HasClient /\ HasStarted /\ Settled /\ InStep /\ OwnCompletion
      /\ Unstopped
  BY DEF CodexIInv
<1>r. /\ run \in [no : 0..MaxCodexTurn, rt : CodexRt \cup {None},
                 at : {"none", "spawning", "handshake", "starting", "running"},
                 by : {"none", "own", "other", "stop", "error"}]
      /\ shrink \in [rt : CodexRt \cup {None}, at : {"none", "spawning", "handshake", "pending"}]
      /\ run.at # "none" => run.rt \in CodexRt /\ run.no # CompactTurn
      /\ shrink.at # "none" => shrink.rt \in CodexRt
      /\ run.at # "none" => shrink.at = "none"
  BY <1>i DEF RunOK
<1>1. /\ run.at = "handshake" /\ client[run.rt] # None
      /\ run' = [run EXCEPT !.at = "starting"] /\ Send(client[run.rt], run.no)
      /\ UNCHANGED <<current, client, retiringChild, of, process, asked, shrink, clearing,
                     overdue, cleared, spilled, tally>>
  BY DEF Handshaken, history
<1>2. /\ run'.at = "starting" /\ run'.rt = run.rt /\ run'.no = run.no /\ run'.by = run.by
      /\ run.by # "error" /\ run.by \notin {"own", "other"} /\ shrink.at = "none"
  BY <1>1, <1>r, <1>i DEF Settled
<1>3. client[run.rt] \in Child /\ process[client[run.rt]] = "live" /\ of[client[run.rt]] = run.rt
  BY <1>1, <1>i, <1>r DEF ClientOK, ClientsOK
<1>4. /\ ChildrenOK'
      /\ starts'[client[run.rt]] = Append(starts[client[run.rt]], run.no)
      /\ \E i \in DOMAIN starts'[client[run.rt]] : starts'[client[run.rt]][i] = run.no
      /\ \A d \in Child : d # client[run.rt] => starts'[d] = starts[d]
      /\ \A d \in Child : process'[d] = "none" => of'[d] = None /\ starts'[d] = <<>>
  BY <1>1, <1>3, <1>i, <1>r, SendKeeps
<1>5. \A s \in CodexRt : s # run.rt /\ client[s] # None => client[s] \in Child /\ client[s] # client[run.rt]
  BY <1>i, <1>3 DEF ClientOK, ClientsOK
<1>6. starts'[client[run.rt]] = <<run.no>>
  BY <1>1, <1>4, <1>i, AppendToNothing DEF ConnectingOK
<1>ClientsOK. ClientsOK'
  BY <1>i, <1>r, <1>1, <1>2, <1>4 DEF ClientsOK
<1>ChildrenOK. ChildrenOK'
  BY <1>4
<1>RunOK. RunOK'
  <2>1. run' \in [no : 0..MaxCodexTurn, rt : CodexRt \cup {None},
                 at : {"none", "spawning", "handshake", "starting", "running"},
                 by : {"none", "own", "other", "stop", "error"}]
    BY <1>1, <1>r
  <2> QED
    BY <1>1, <1>2, <1>r, <2>1 DEF RunOK
<1>TallyOK. TallyOK'
  BY <1>i, <1>r, <1>1, <1>2, <1>4 DEF TallyOK
<1>ClientOK. ClientOK'
  BY <1>i, <1>r, <1>1, <1>2, <1>4 DEF ClientOK
<1>WasMade. WasMade'
  BY <1>i, <1>r, <1>1, <1>2, <1>4 DEF WasMade
<1>ConnectingOK. ConnectingOK'
  BY <1>i, <1>r, <1>1, <1>2, <1>4 DEF ConnectingOK
<1>AskedBefore. AskedBefore'
  BY <1>i, <1>r, <1>1, <1>2, <1>4 DEF AskedBefore
<1>HasClient. HasClient'
  BY <1>i, <1>r, <1>1, <1>2, <1>4 DEF HasClient
<1>HasStarted. HasStarted'
  BY <1>i, <1>r, <1>1, <1>2, <1>4 DEF HasStarted
<1>Settled. Settled'
  BY <1>i, <1>r, <1>1, <1>2, <1>4 DEF Settled
<1>InStep. InStep'
  <2> SUFFICES ASSUME ~overdue, NEW s \in CodexRt, Clean(s)', client[s] # None
               PROVE  starts'[client[s]] = Expected(s)'
    BY <1>1 DEF InStep
  <2>1. CASE s = run.rt
    <3>1. run.by = "none"
      BY <1>1, <1>2, <1>i, <1>r, <2>1 DEF Clean, Settled
    <3>2. Expected(s)' = <<run.no>>
      BY <1>2, <2>1, <3>1 DEF Expected
    <3> QED
      BY <1>6, <2>1, <3>2
  <2>2. CASE s # run.rt
    <3>1. Clean(s)
      BY <1>1, <1>2, <2>2 DEF Clean
    <3>2. Expected(s)' = Expected(s)
      BY <1>1, <1>2, <2>2 DEF Expected
    <3>3. starts'[client[s]] = starts[client[s]]
      BY <1>4, <1>5, <2>2
    <3> QED
      BY <1>i, <3>1, <3>2, <3>3 DEF InStep
  <2> QED
    BY <2>1, <2>2
<1>OwnCompletion. OwnCompletion'
  BY <1>i, <1>r, <1>1, <1>2, <1>4 DEF OwnCompletion
<1>Unstopped. Unstopped'
  BY <1>i, <1>1, <1>2 DEF Unstopped, LeftBehind
<1> QED
  BY <1>ClientsOK, <1>ChildrenOK, <1>RunOK, <1>TallyOK, <1>ClientOK, <1>WasMade, <1>ConnectingOK,
     <1>AskedBefore, <1>HasClient, <1>HasStarted, <1>Settled, <1>InStep, <1>OwnCompletion,
     <1>Unstopped DEF CodexIInv

LEMMA SpawnedKeeps ==
  ASSUME CodexIInv, Spawned
  PROVE  CodexIInv'
<1>i. /\ ClientsOK /\ ChildrenOK /\ RunOK /\ TallyOK /\ ClientOK /\ WasMade /\ ConnectingOK
      /\ AskedBefore /\ HasClient /\ HasStarted /\ Settled /\ InStep /\ OwnCompletion
      /\ Unstopped
  BY DEF CodexIInv
<1>r. /\ run \in [no : 0..MaxCodexTurn, rt : CodexRt \cup {None},
                 at : {"none", "spawning", "handshake", "starting", "running"},
                 by : {"none", "own", "other", "stop", "error"}]
      /\ shrink \in [rt : CodexRt \cup {None}, at : {"none", "spawning", "handshake", "pending"}]
      /\ run.at # "none" => run.rt \in CodexRt /\ run.no # CompactTurn
      /\ shrink.at # "none" => shrink.rt \in CodexRt
      /\ run.at # "none" => shrink.at = "none"
  BY <1>i DEF RunOK
<1> DEFINE r == run.rt
<1>1. /\ run.at = "spawning" /\ Connects(r)
      /\ run' = [run EXCEPT !.at = "handshake"]
      /\ UNCHANGED <<current, starts, asked, shrink, clearing, overdue, cleared, spilled, tally>>
  BY DEF Spawned, history
<1>2. /\ run'.at = "handshake" /\ run'.rt = run.rt /\ run'.no = run.no /\ run'.by = run.by
      /\ shrink.at = "none" /\ run.by \notin {"own", "other", "error"}
  BY <1>1, <1>r, <1>i DEF Settled
<1>4. PICK d \in Child :
         /\ process[d] = "none" /\ starts[d] = <<>>
         /\ client' \in [CodexRt -> Child \cup {None}] /\ ChildrenOK'
         /\ retiringChild' \in [CodexRt -> Child \cup {None}]
         /\ client'[r] = d /\ \A s \in CodexRt : s # r => client'[s] = client[s]
         /\ retiringChild'[r] = None
         /\ \A s \in CodexRt : s # r => retiringChild'[s] = retiringChild[s]
         /\ \A s \in CodexRt : client'[s] # None =>
              process'[client'[s]] = "live" /\ of'[client'[s]] = s /\ retiringChild'[s] = None
         /\ \A c \in Child : process'[c] = "none" => of'[c] = None /\ starts'[c] = <<>>
         /\ process'[d] = "live" /\ \A c \in Child : c # d => process'[c] = process[c]
  <2>1. r \in CodexRt /\ Connects(r) /\ starts' = starts
    BY <1>1, <1>r
  <2> HIDE DEF r
  <2> QED
    BY <2>1, <1>i, ConnectsKeeps
<1>5. d # None /\ r \in CodexRt
  BY <1>1, <1>r, NoneIsNone
<1>ClientsOK. ClientsOK'
  BY <1>i, <1>r, <1>1, <1>2, <1>4, <1>5 DEF ClientsOK
<1>ChildrenOK. ChildrenOK'
  BY <1>4
<1>RunOK. RunOK'
  <2>1. run' \in [no : 0..MaxCodexTurn, rt : CodexRt \cup {None},
                 at : {"none", "spawning", "handshake", "starting", "running"},
                 by : {"none", "own", "other", "stop", "error"}]
    BY <1>1, <1>r
  <2> QED
    BY <1>1, <1>2, <1>r, <2>1 DEF RunOK
<1>TallyOK. TallyOK'
  BY <1>i, <1>r, <1>1, <1>2, <1>4, <1>5 DEF TallyOK
<1>ClientOK. ClientOK'
  BY <1>i, <1>r, <1>1, <1>2, <1>4, <1>5 DEF ClientOK
<1>WasMade. WasMade'
  BY <1>i, <1>r, <1>1, <1>2, <1>4, <1>5 DEF WasMade
<1>ConnectingOK. ConnectingOK'
  BY <1>i, <1>r, <1>1, <1>2, <1>4, <1>5 DEF ConnectingOK
<1>AskedBefore. AskedBefore'
  BY <1>i, <1>r, <1>1, <1>2, <1>4, <1>5 DEF AskedBefore
<1>HasClient. HasClient'
  BY <1>i, <1>r, <1>1, <1>2, <1>4, <1>5 DEF HasClient
<1>HasStarted. HasStarted'
  BY <1>i, <1>r, <1>1, <1>2, <1>4, <1>5 DEF HasStarted
<1>Settled. Settled'
  BY <1>i, <1>r, <1>1, <1>2, <1>4, <1>5 DEF Settled
<1>InStep. InStep'
  <2> SUFFICES ASSUME ~overdue, NEW s \in CodexRt, Clean(s)', client'[s] # None
               PROVE  starts[client'[s]] = Expected(s)'
    BY <1>1 DEF InStep
  <2>1. CASE s = r
    <3>1. Expected(s)' = <<>>
      BY <1>1, <1>2, <1>r, <2>1 DEF Expected
    <3> QED
      BY <1>4, <2>1, <3>1
  <2>2. CASE s # r
    <3>1. Clean(s) /\ client'[s] = client[s]
      BY <1>1, <1>2, <1>4, <2>2 DEF Clean
    <3>2. Expected(s)' = Expected(s)
      BY <1>1, <1>2, <2>2 DEF Expected
    <3> QED
      BY <1>i, <3>1, <3>2 DEF InStep
  <2> QED
    BY <2>1, <2>2
<1>OwnCompletion. OwnCompletion'
  BY <1>i, <1>r, <1>1, <1>2, <1>4, <1>5 DEF OwnCompletion
<1>Unstopped. Unstopped'
  <2> SUFFICES ASSUME tally["interrupts"] = 0
               PROVE  /\ asked = {} /\ cleared \subseteq Child
                      /\ \A c \in cleared : process'[c] = "ended" /\ process'[c] # "none"
                      /\ clearing # None => clearing = current
    BY <1>1 DEF Unstopped, LeftBehind
  <2>1. cleared \subseteq Child /\ \A c \in cleared : process[c] = "ended"
    BY <1>i, <1>1 DEF Unstopped
  <2>2. \A c \in cleared : c # d
    BY <1>4, <2>1
  <2> QED
    BY <1>i, <1>4, <2>1, <2>2 DEF Unstopped
<1> QED
  BY <1>ClientsOK, <1>ChildrenOK, <1>RunOK, <1>TallyOK, <1>ClientOK, <1>WasMade, <1>ConnectingOK,
     <1>AskedBefore, <1>HasClient, <1>HasStarted, <1>Settled, <1>InStep, <1>OwnCompletion,
     <1>Unstopped DEF CodexIInv

LEMMA CompactConnectsKeeps ==
  ASSUME CodexIInv, CompactConnects
  PROVE  CodexIInv'
<1>i. /\ ClientsOK /\ ChildrenOK /\ RunOK /\ TallyOK /\ ClientOK /\ WasMade /\ ConnectingOK
      /\ AskedBefore /\ HasClient /\ HasStarted /\ Settled /\ InStep /\ OwnCompletion
      /\ Unstopped
  BY DEF CodexIInv
<1>r. /\ run \in [no : 0..MaxCodexTurn, rt : CodexRt \cup {None},
                 at : {"none", "spawning", "handshake", "starting", "running"},
                 by : {"none", "own", "other", "stop", "error"}]
      /\ shrink \in [rt : CodexRt \cup {None}, at : {"none", "spawning", "handshake", "pending"}]
      /\ run.at # "none" => run.rt \in CodexRt /\ run.no # CompactTurn
      /\ shrink.at # "none" => shrink.rt \in CodexRt
      /\ run.at # "none" => shrink.at = "none"
  BY <1>i DEF RunOK
<1> DEFINE r == shrink.rt
<1>1. /\ shrink.at = "spawning" /\ Connects(r)
      /\ shrink' = [shrink EXCEPT !.at = "handshake"]
      /\ UNCHANGED <<current, starts, run, asked, clearing, overdue, cleared, spilled, tally>>
  BY DEF CompactConnects, history
<1>2. /\ shrink'.at = "handshake" /\ shrink'.rt = shrink.rt /\ run.at = "none"
  BY <1>1, <1>r
<1>4. PICK d \in Child :
         /\ process[d] = "none" /\ starts[d] = <<>>
         /\ client' \in [CodexRt -> Child \cup {None}] /\ ChildrenOK'
         /\ retiringChild' \in [CodexRt -> Child \cup {None}]
         /\ client'[r] = d /\ \A s \in CodexRt : s # r => client'[s] = client[s]
         /\ retiringChild'[r] = None
         /\ \A s \in CodexRt : s # r => retiringChild'[s] = retiringChild[s]
         /\ \A s \in CodexRt : client'[s] # None =>
              process'[client'[s]] = "live" /\ of'[client'[s]] = s /\ retiringChild'[s] = None
         /\ \A c \in Child : process'[c] = "none" => of'[c] = None /\ starts'[c] = <<>>
         /\ process'[d] = "live" /\ \A c \in Child : c # d => process'[c] = process[c]
  <2>1. r \in CodexRt /\ Connects(r) /\ starts' = starts
    BY <1>1, <1>r
  <2> HIDE DEF r
  <2> QED
    BY <2>1, <1>i, ConnectsKeeps
<1>5. d # None /\ r \in CodexRt
  BY <1>1, <1>r, NoneIsNone
<1>ClientsOK. ClientsOK'
  BY <1>i, <1>r, <1>1, <1>2, <1>4, <1>5 DEF ClientsOK
<1>ChildrenOK. ChildrenOK'
  BY <1>4
<1>RunOK. RunOK'
  <2>1. shrink' \in [rt : CodexRt \cup {None}, at : {"none", "spawning", "handshake", "pending"}]
    BY <1>1, <1>r
  <2> QED
    BY <1>1, <1>2, <1>r, <2>1 DEF RunOK
<1>TallyOK. TallyOK'
  BY <1>i, <1>r, <1>1, <1>2, <1>4, <1>5 DEF TallyOK
<1>ClientOK. ClientOK'
  BY <1>i, <1>r, <1>1, <1>2, <1>4, <1>5 DEF ClientOK
<1>WasMade. WasMade'
  BY <1>i, <1>r, <1>1, <1>2, <1>4, <1>5 DEF WasMade
<1>ConnectingOK. ConnectingOK'
  BY <1>i, <1>r, <1>1, <1>2, <1>4, <1>5 DEF ConnectingOK
<1>AskedBefore. AskedBefore'
  BY <1>i, <1>r, <1>1, <1>2, <1>4, <1>5 DEF AskedBefore
<1>HasClient. HasClient'
  BY <1>i, <1>r, <1>1, <1>2, <1>4, <1>5 DEF HasClient
<1>HasStarted. HasStarted'
  BY <1>i, <1>r, <1>1, <1>2, <1>4, <1>5 DEF HasStarted
<1>Settled. Settled'
  BY <1>i, <1>r, <1>1, <1>2, <1>4, <1>5 DEF Settled
<1>InStep. InStep'
  <2> SUFFICES ASSUME ~overdue, NEW s \in CodexRt, Clean(s)', client'[s] # None
               PROVE  starts[client'[s]] = Expected(s)'
    BY <1>1 DEF InStep
  <2>1. CASE s = r
    <3>1. Expected(s)' = <<>>
      BY <1>1, <1>2, <1>r, <2>1 DEF Expected
    <3> QED
      BY <1>4, <2>1, <3>1
  <2>2. CASE s # r
    <3>1. Clean(s) /\ client'[s] = client[s]
      BY <1>1, <1>2, <1>4, <2>2 DEF Clean
    <3>2. Expected(s)' = Expected(s)
      BY <1>1, <1>2, <2>2 DEF Expected
    <3> QED
      BY <1>i, <3>1, <3>2 DEF InStep
  <2> QED
    BY <2>1, <2>2
<1>OwnCompletion. OwnCompletion'
  BY <1>i, <1>r, <1>1, <1>2, <1>4, <1>5 DEF OwnCompletion
<1>Unstopped. Unstopped'
  <2> SUFFICES ASSUME tally["interrupts"] = 0
               PROVE  /\ asked = {} /\ cleared \subseteq Child
                      /\ \A c \in cleared : process'[c] = "ended" /\ process'[c] # "none"
                      /\ clearing # None => clearing = current
    BY <1>1 DEF Unstopped, LeftBehind
  <2>1. cleared \subseteq Child /\ \A c \in cleared : process[c] = "ended"
    BY <1>i, <1>1 DEF Unstopped
  <2>2. \A c \in cleared : c # d
    BY <1>4, <2>1
  <2> QED
    BY <1>i, <1>4, <2>1, <2>2 DEF Unstopped
<1> QED
  BY <1>ClientsOK, <1>ChildrenOK, <1>RunOK, <1>TallyOK, <1>ClientOK, <1>WasMade, <1>ConnectingOK,
     <1>AskedBefore, <1>HasClient, <1>HasStarted, <1>Settled, <1>InStep, <1>OwnCompletion,
     <1>Unstopped DEF CodexIInv

LEMMA CompactStartsKeeps ==
  ASSUME CodexIInv, CompactStarts
  PROVE  CodexIInv'
<1>i. /\ ClientsOK /\ ChildrenOK /\ RunOK /\ TallyOK /\ ClientOK /\ WasMade /\ ConnectingOK
      /\ AskedBefore /\ HasClient /\ HasStarted /\ Settled /\ InStep /\ OwnCompletion
      /\ Unstopped
  BY DEF CodexIInv
<1>r. /\ run \in [no : 0..MaxCodexTurn, rt : CodexRt \cup {None},
                 at : {"none", "spawning", "handshake", "starting", "running"},
                 by : {"none", "own", "other", "stop", "error"}]
      /\ shrink \in [rt : CodexRt \cup {None}, at : {"none", "spawning", "handshake", "pending"}]
      /\ run.at # "none" => run.rt \in CodexRt /\ run.no # CompactTurn
      /\ shrink.at # "none" => shrink.rt \in CodexRt
      /\ run.at # "none" => shrink.at = "none"
  BY <1>i DEF RunOK
<1> DEFINE r == shrink.rt
<1>1. /\ shrink.at = "handshake" /\ client[r] # None
      /\ shrink' = [shrink EXCEPT !.at = "pending"] /\ Send(client[r], CompactTurn)
      /\ UNCHANGED <<current, client, retiringChild, of, process, run, asked, clearing,
                     overdue, cleared, spilled, tally>>
  BY DEF CompactStarts, history
<1>2. /\ shrink'.at = "pending" /\ shrink'.rt = shrink.rt /\ run.at = "none" /\ r \in CodexRt
      /\ CompactTurn \in 0..MaxCodexTurn
  BY <1>1, <1>r, CodexAssumption DEF CompactTurn
<1>3. client[r] \in Child /\ process[client[r]] = "live" /\ of[client[r]] = r
  BY <1>1, <1>2, <1>i DEF ClientOK, ClientsOK
<1>4. /\ ChildrenOK'
      /\ starts'[client[r]] = Append(starts[client[r]], CompactTurn)
      /\ \E i \in DOMAIN starts'[client[r]] : starts'[client[r]][i] = CompactTurn
      /\ \A d \in Child : d # client[r] => starts'[d] = starts[d]
      /\ \A d \in Child : process'[d] = "none" => of'[d] = None /\ starts'[d] = <<>>
  BY <1>1, <1>2, <1>3, <1>i, SendKeeps
<1>5. \A s \in CodexRt : s # r /\ client[s] # None => client[s] \in Child /\ client[s] # client[r]
  BY <1>i, <1>3 DEF ClientOK, ClientsOK
<1>6. starts'[client[r]] = <<CompactTurn>>
  BY <1>1, <1>4, <1>i, AppendToNothing DEF ConnectingOK
<1>ClientsOK. ClientsOK'
  BY <1>i, <1>r, <1>1, <1>2, <1>4 DEF ClientsOK
<1>ChildrenOK. ChildrenOK'
  BY <1>4
<1>RunOK. RunOK'
  <2>1. shrink' \in [rt : CodexRt \cup {None}, at : {"none", "spawning", "handshake", "pending"}]
    BY <1>1, <1>r
  <2> QED
    BY <1>1, <1>2, <1>r, <2>1 DEF RunOK
<1>TallyOK. TallyOK'
  BY <1>i, <1>r, <1>1, <1>2, <1>4 DEF TallyOK
<1>ClientOK. ClientOK'
  BY <1>i, <1>r, <1>1, <1>2, <1>4 DEF ClientOK
<1>WasMade. WasMade'
  BY <1>i, <1>r, <1>1, <1>2, <1>4 DEF WasMade
<1>ConnectingOK. ConnectingOK'
  BY <1>i, <1>r, <1>1, <1>2, <1>4 DEF ConnectingOK
<1>AskedBefore. AskedBefore'
  BY <1>i, <1>r, <1>1, <1>2, <1>4 DEF AskedBefore
<1>HasClient. HasClient'
  BY <1>i, <1>r, <1>1, <1>2, <1>4 DEF HasClient
<1>HasStarted. HasStarted'
  BY <1>i, <1>r, <1>1, <1>2, <1>4 DEF HasStarted
<1>Settled. Settled'
  BY <1>i, <1>r, <1>1, <1>2, <1>4 DEF Settled
<1>InStep. InStep'
  <2> SUFFICES ASSUME ~overdue, NEW s \in CodexRt, Clean(s)', client[s] # None
               PROVE  starts'[client[s]] = Expected(s)'
    BY <1>1 DEF InStep
  <2>1. CASE s = r
    <3>1. Expected(s)' = <<CompactTurn>>
      BY <1>1, <1>2, <2>1 DEF Expected
    <3> QED
      BY <1>6, <2>1, <3>1
  <2>2. CASE s # r
    <3>1. Clean(s)
      BY <1>1, <1>2, <2>2 DEF Clean
    <3>2. Expected(s)' = Expected(s)
      BY <1>1, <1>2, <2>2 DEF Expected
    <3>3. starts'[client[s]] = starts[client[s]]
      BY <1>4, <1>5, <2>2
    <3> QED
      BY <1>i, <3>1, <3>2, <3>3 DEF InStep
  <2> QED
    BY <2>1, <2>2
<1>OwnCompletion. OwnCompletion'
  BY <1>i, <1>r, <1>1, <1>2, <1>4 DEF OwnCompletion
<1>Unstopped. Unstopped'
  BY <1>i, <1>1, <1>2 DEF Unstopped, LeftBehind
<1> QED
  BY <1>ClientsOK, <1>ChildrenOK, <1>RunOK, <1>TallyOK, <1>ClientOK, <1>WasMade, <1>ConnectingOK,
     <1>AskedBefore, <1>HasClient, <1>HasStarted, <1>Settled, <1>InStep, <1>OwnCompletion,
     <1>Unstopped DEF CodexIInv

LEMMA RequestFailsKeeps ==
  ASSUME CodexIInv, RequestFails
  PROVE  CodexIInv'
<1>i. /\ ClientsOK /\ ChildrenOK /\ RunOK /\ TallyOK /\ ClientOK /\ WasMade /\ ConnectingOK
      /\ AskedBefore /\ HasClient /\ HasStarted /\ Settled /\ InStep /\ OwnCompletion
      /\ Unstopped
  BY DEF CodexIInv
<1>r. /\ run \in [no : 0..MaxCodexTurn, rt : CodexRt \cup {None},
                 at : {"none", "spawning", "handshake", "starting", "running"},
                 by : {"none", "own", "other", "stop", "error"}]
      /\ shrink \in [rt : CodexRt \cup {None}, at : {"none", "spawning", "handshake", "pending"}]
      /\ run.at # "none" => run.rt \in CodexRt /\ run.no # CompactTurn
      /\ shrink.at # "none" => shrink.rt \in CodexRt
      /\ run.at # "none" => shrink.at = "none"
  BY <1>i DEF RunOK
<1> DEFINE r == run.rt
<1>1. /\ run.at \in {"spawning", "handshake", "starting"}
      /\ run' = [Completed("error") EXCEPT !.at = "running"]
      /\ RetireRuntime(r, FALSE) /\ current' = current /\ shrink' = ShrinkAfter(r)
      /\ UNCHANGED <<retiringChild, of, starts, asked, clearing, overdue, cleared, spilled, tally>>
  BY DEF RequestFails, history, RetireRuntime
<1>2. /\ run'.at = "running" /\ run'.rt = run.rt /\ run'.no = run.no
      /\ run'.by = IF run.by = "none" THEN "error" ELSE run.by
      /\ shrink.at = "none" /\ r \in CodexRt
  BY <1>1, <1>r DEF Completed
<1>3. shrink' = shrink
  BY <1>1, <1>2 DEF ShrinkAfter
<1>4. /\ client' \in [CodexRt -> Child \cup {None}] /\ ChildrenOK'
      /\ client'[r] = None /\ \A s \in CodexRt : s # r => client'[s] = client[s]
      /\ \A s \in CodexRt : client'[s] # None => client'[s] = client[s] /\ s # r
      /\ \A s \in CodexRt : client'[s] # None =>
           process'[client'[s]] = "live" /\ of'[client'[s]] = s /\ retiringChild[s] = None
      /\ \A c \in Child : process'[c] = "none" => of'[c] = None /\ starts'[c] = <<>>
      /\ \A c \in Child : process[c] = "ended" => process'[c] = "ended"
      /\ \A c \in Child : process[c] # "none" <=> process'[c] # "none"
  <2>1. r \in CodexRt /\ Disposed(r)
    BY <1>1, <1>2, <1>i DEF Disposed, ClientsOK, RetireRuntime, Disposes
  <2> HIDE DEF r
  <2> QED
    BY <2>1, <1>i, DisposedKeeps
<1>ClientsOK. ClientsOK'
  BY <1>i, <1>r, <1>1, <1>2, <1>3, <1>4 DEF ClientsOK
<1>ChildrenOK. ChildrenOK'
  BY <1>4
<1>RunOK. RunOK'
  <2>1. run' \in [no : 0..MaxCodexTurn, rt : CodexRt \cup {None},
                 at : {"none", "spawning", "handshake", "starting", "running"},
                 by : {"none", "own", "other", "stop", "error"}]
    BY <1>1, <1>r DEF Completed
  <2> QED
    BY <1>1, <1>2, <1>3, <1>r, <2>1 DEF RunOK
<1>TallyOK. TallyOK'
  BY <1>i, <1>r, <1>1, <1>2, <1>3, <1>4 DEF TallyOK
<1>ClientOK. ClientOK'
  BY <1>1, <1>4 DEF ClientOK
<1>WasMade. WasMade'
  BY <1>i, <1>1, <1>4 DEF WasMade, ClientsOK
<1>ConnectingOK. ConnectingOK'
  BY <1>i, <1>r, <1>1, <1>2, <1>3, <1>4 DEF ConnectingOK
<1>AskedBefore. AskedBefore'
  BY <1>i, <1>r, <1>1, <1>2, <1>3, <1>4 DEF AskedBefore
<1>HasClient. HasClient'
  BY <1>i, <1>r, <1>1, <1>2, <1>3, <1>4 DEF HasClient
<1>HasStarted. HasStarted'
  BY <1>i, <1>r, <1>1, <1>2, <1>3, <1>4 DEF HasStarted
<1>Settled. Settled'
  BY <1>i, <1>r, <1>1, <1>2, <1>3, <1>4 DEF Settled
<1>InStep. InStep'
  <2> SUFFICES ASSUME ~overdue, NEW s \in CodexRt, Clean(s)', client'[s] # None
               PROVE  starts[client[s]] = Expected(s)'
    BY <1>1, <1>4 DEF InStep
  <2>1. s # r /\ client'[s] = client[s]
    BY <1>4
  <2>2. Clean(s)
    BY <1>1, <1>2, <1>r, <1>3, <2>1, NoneIsNone DEF Clean
  <2>3. Expected(s)' = Expected(s)
    BY <1>1, <1>2, <1>r, <1>3, <2>1 DEF Expected
  <2> QED
    BY <1>i, <2>1, <2>2, <2>3 DEF InStep
<1>OwnCompletion. OwnCompletion'
  BY <1>i, <1>r, <1>1, <1>2, <1>3, <1>4 DEF OwnCompletion
<1>Unstopped. Unstopped'
  <2> SUFFICES ASSUME tally["interrupts"] = 0
               PROVE  /\ asked = {} /\ cleared \subseteq Child
                      /\ \A c \in cleared : process'[c] # "none" /\ LeftBehind(c)'
                      /\ clearing # None => clearing = current
    BY <1>1, <1>2, <1>3 DEF Unstopped
  <2>1. /\ asked = {} /\ cleared \subseteq Child
        /\ \A c \in cleared : process[c] # "none" /\ LeftBehind(c)
        /\ clearing # None => clearing = current
    BY <1>i DEF Unstopped
  <2>2. \A c \in cleared : process'[c] # "none" /\ LeftBehind(c)'
    BY <1>1, <1>4, <2>1 DEF LeftBehind
  <2> QED
    BY <2>1, <2>2
<1> QED
  BY <1>ClientsOK, <1>ChildrenOK, <1>RunOK, <1>TallyOK, <1>ClientOK, <1>WasMade, <1>ConnectingOK,
     <1>AskedBefore, <1>HasClient, <1>HasStarted, <1>Settled, <1>InStep, <1>OwnCompletion,
     <1>Unstopped DEF CodexIInv

LEMMA InterruptNowKeeps ==
  ASSUME CodexIInv, InterruptNow
  PROVE  CodexIInv'
<1>i. /\ ClientsOK /\ ChildrenOK /\ RunOK /\ TallyOK /\ ClientOK /\ WasMade /\ ConnectingOK
      /\ AskedBefore /\ HasClient /\ HasStarted /\ Settled /\ InStep /\ OwnCompletion
      /\ Unstopped
  BY DEF CodexIInv
<1>r. /\ run \in [no : 0..MaxCodexTurn, rt : CodexRt \cup {None},
                 at : {"none", "spawning", "handshake", "starting", "running"},
                 by : {"none", "own", "other", "stop", "error"}]
      /\ shrink \in [rt : CodexRt \cup {None}, at : {"none", "spawning", "handshake", "pending"}]
      /\ run.at # "none" => run.rt \in CodexRt /\ run.no # CompactTurn
      /\ shrink.at # "none" => shrink.rt \in CodexRt
      /\ run.at # "none" => shrink.at = "none"
  BY <1>i DEF RunOK
<1> DEFINE r == current
<1>1. /\ current # None /\ Tallied("interrupts") /\ RetireRuntime(r, TRUE)
      /\ \/ ~ (run.rt = r /\ run.at # "none" /\ run.by = "none") /\ run' = run
         \/ /\ run.rt = r /\ run.at # "none" /\ run.by = "none"
            /\ run' = [run EXCEPT !.by = "stop"]
      /\ current' = None /\ shrink' = ShrinkAfter(r)
      /\ UNCHANGED <<retiringChild, of, starts, asked, clearing, overdue, cleared, spilled>>
  BY DEF InterruptNow, RetireRuntime, Stoppable, Completed, Stops, Unrelated
<1>2. /\ run'.at = run.at /\ run'.rt = run.rt /\ run'.no = run.no
      /\ run'.by = "stop" \/ run'.by = run.by
      /\ run'.by = "none" => run.by = "none" /\ (run.at = "none" \/ run.rt # r)
      /\ run'.by # "none" /\ run.by = "none" => run.rt = r /\ run'.by = "stop" /\ run.at # "none"
      /\ run'.by # "stop" => run'.by = run.by
      /\ r \in CodexRt
  BY <1>1, <1>r, <1>i DEF ClientsOK
<1>3. /\ shrink' = shrink \/ (shrink.rt = r /\ shrink.at = "pending" /\ shrink'.at = "none" /\ shrink'.rt = None)
      /\ shrink'.at # "none" => shrink' = shrink
      /\ shrink.rt # r => shrink' = shrink
      /\ shrink' \in [rt : CodexRt \cup {None}, at : {"none", "spawning", "handshake", "pending"}]
  BY <1>1, <1>r DEF ShrinkAfter, NoShrink
<1>5. TallyOK' /\ tally'["interrupts"] # 0
  <2>1. "interrupts" \in Tallies
    BY DEF Tallies
  <2> QED
    BY <1>1, <1>i, <2>1, TalliedKeeps
<1>4. /\ client' \in [CodexRt -> Child \cup {None}] /\ ChildrenOK'
      /\ client'[r] = None /\ \A s \in CodexRt : s # r => client'[s] = client[s]
      /\ \A s \in CodexRt : client'[s] # None => client'[s] = client[s] /\ s # r
      /\ \A s \in CodexRt : client'[s] # None =>
           process'[client'[s]] = "live" /\ of'[client'[s]] = s /\ retiringChild[s] = None
      /\ \A c \in Child : process'[c] = "none" => of'[c] = None /\ starts'[c] = <<>>
      /\ \A c \in Child : process[c] = "ended" => process'[c] = "ended"
      /\ \A c \in Child : process[c] # "none" <=> process'[c] # "none"
  <2>1. r \in CodexRt /\ Disposed(r)
    BY <1>1, <1>2, <1>i DEF Disposed, ClientsOK, RetireRuntime, Disposes
  <2> HIDE DEF r
  <2> QED
    BY <2>1, <1>i, DisposedKeeps
<1>ClientsOK. ClientsOK'
  BY <1>i, <1>r, <1>1, <1>2, <1>3, <1>4, NoneIsNone DEF ClientsOK
<1>ChildrenOK. ChildrenOK'
  BY <1>4
<1>RunOK. RunOK'
  <2>1. run' \in [no : 0..MaxCodexTurn, rt : CodexRt \cup {None},
                 at : {"none", "spawning", "handshake", "starting", "running"},
                 by : {"none", "own", "other", "stop", "error"}]
    BY <1>1, <1>r
  <2> QED
    BY <1>1, <1>2, <1>3, <1>r, <2>1 DEF RunOK
<1>TallyOK. TallyOK'
  BY <1>5
<1>ClientOK. ClientOK'
  BY <1>1, <1>4 DEF ClientOK
<1>WasMade. WasMade'
  BY <1>i, <1>1, <1>4 DEF WasMade, ClientsOK
<1>ConnectingOK. ConnectingOK'
  BY <1>i, <1>r, <1>1, <1>2, <1>3, <1>4, NoneIsNone DEF ConnectingOK
<1>AskedBefore. AskedBefore'
  BY <1>i, <1>r, <1>1, <1>2, <1>3, <1>4, NoneIsNone DEF AskedBefore
<1>HasClient. HasClient'
  BY <1>i, <1>r, <1>1, <1>2, <1>3, <1>4, NoneIsNone DEF HasClient
<1>HasStarted. HasStarted'
  BY <1>i, <1>r, <1>1, <1>2, <1>3, <1>4, NoneIsNone DEF HasStarted
<1>Settled. Settled'
  BY <1>i, <1>r, <1>1, <1>2, <1>3, <1>4, NoneIsNone DEF Settled
<1>InStep. InStep'
  <2> SUFFICES ASSUME ~overdue, NEW s \in CodexRt, Clean(s)', client'[s] # None
               PROVE  starts[client[s]] = Expected(s)'
    BY <1>1, <1>4 DEF InStep
  <2>1. s # r /\ client'[s] = client[s]
    BY <1>4
  <2>2. Clean(s)
    BY <1>1, <1>2, <1>r, <1>3, <2>1, NoneIsNone DEF Clean
  <2>3. Expected(s)' = Expected(s)
    BY <1>1, <1>2, <1>r, <1>3, <2>1 DEF Expected
  <2> QED
    BY <1>i, <2>1, <2>2, <2>3 DEF InStep
<1>OwnCompletion. OwnCompletion'
  BY <1>i, <1>r, <1>1, <1>2, <1>3, <1>4, NoneIsNone DEF OwnCompletion
<1>Unstopped. Unstopped'
  BY <1>5 DEF Unstopped
<1> QED
  BY <1>ClientsOK, <1>ChildrenOK, <1>RunOK, <1>TallyOK, <1>ClientOK, <1>WasMade, <1>ConnectingOK,
     <1>AskedBefore, <1>HasClient, <1>HasStarted, <1>Settled, <1>InStep, <1>OwnCompletion,
     <1>Unstopped DEF CodexIInv

LEMMA InterruptAnsweredKeeps ==
  ASSUME CodexIInv, NEW r \in CodexRt, InterruptAnswered(r)
  PROVE  CodexIInv'
<1>i. /\ ClientsOK /\ ChildrenOK /\ RunOK /\ TallyOK /\ ClientOK /\ WasMade /\ ConnectingOK
      /\ AskedBefore /\ HasClient /\ HasStarted /\ Settled /\ InStep /\ OwnCompletion
      /\ Unstopped
  BY DEF CodexIInv
<1>r. /\ run \in [no : 0..MaxCodexTurn, rt : CodexRt \cup {None},
                 at : {"none", "spawning", "handshake", "starting", "running"},
                 by : {"none", "own", "other", "stop", "error"}]
      /\ shrink \in [rt : CodexRt \cup {None}, at : {"none", "spawning", "handshake", "pending"}]
      /\ run.at # "none" => run.rt \in CodexRt /\ run.no # CompactTurn
      /\ shrink.at # "none" => shrink.rt \in CodexRt
      /\ run.at # "none" => shrink.at = "none"
  BY <1>i DEF RunOK
<1>1. /\ r \in asked /\ asked' = asked \ {r} /\ RetireRuntime(r, TRUE)
      /\ current' = None \/ (current' = current /\ current # r)
      /\ shrink' = ShrinkAfter(r)
      /\ UNCHANGED <<retiringChild, of, starts, run, clearing, overdue, cleared, spilled, tally>>
  BY DEF InterruptAnswered, RetireRuntime, history, Unrelated
<1>2. r \in CodexRt
  OBVIOUS
<1>3. /\ shrink' = shrink \/ (shrink.rt = r /\ shrink.at = "pending" /\ shrink'.at = "none" /\ shrink'.rt = None)
      /\ shrink'.at # "none" => shrink' = shrink
      /\ shrink.rt # r => shrink' = shrink
      /\ shrink' \in [rt : CodexRt \cup {None}, at : {"none", "spawning", "handshake", "pending"}]
  BY <1>1, <1>r DEF ShrinkAfter, NoShrink
<1>4. /\ client' \in [CodexRt -> Child \cup {None}] /\ ChildrenOK'
      /\ client'[r] = None /\ \A s \in CodexRt : s # r => client'[s] = client[s]
      /\ \A s \in CodexRt : client'[s] # None => client'[s] = client[s] /\ s # r
      /\ \A s \in CodexRt : client'[s] # None =>
           process'[client'[s]] = "live" /\ of'[client'[s]] = s /\ retiringChild[s] = None
      /\ \A c \in Child : process'[c] = "none" => of'[c] = None /\ starts'[c] = <<>>
      /\ \A c \in Child : process[c] = "ended" => process'[c] = "ended"
      /\ \A c \in Child : process[c] # "none" <=> process'[c] # "none"
  <2>1. r \in CodexRt /\ Disposed(r)
    BY <1>1, <1>2, <1>i DEF Disposed, ClientsOK, RetireRuntime, Disposes
  <2> QED
    BY <2>1, <1>i, DisposedKeeps
<1>ClientsOK. ClientsOK'
  BY <1>i, <1>r, <1>1, <1>3, <1>4, NoneIsNone DEF ClientsOK
<1>ChildrenOK. ChildrenOK'
  BY <1>4
<1>RunOK. RunOK'
  BY <1>1, <1>3, <1>r DEF RunOK
<1>TallyOK. TallyOK'
  BY <1>i, <1>r, <1>1, <1>3, <1>4, NoneIsNone DEF TallyOK
<1>ClientOK. ClientOK'
  BY <1>1, <1>4 DEF ClientOK
<1>WasMade. WasMade'
  BY <1>i, <1>1, <1>4 DEF WasMade, ClientsOK
<1>ConnectingOK. ConnectingOK'
  BY <1>i, <1>r, <1>1, <1>3, <1>4, NoneIsNone DEF ConnectingOK
<1>AskedBefore. AskedBefore'
  BY <1>i, <1>r, <1>1, <1>3, <1>4, NoneIsNone DEF AskedBefore
<1>HasClient. HasClient'
  <2> SUFFICES ASSUME run.at = "running", run.by = "none", run.no \notin spilled
               PROVE  client'[run.rt] # None
    BY <1>1 DEF HasClient
  <2>1. client[run.rt] # None /\ run.rt \in CodexRt /\ run.rt \notin asked
    BY <1>i, <1>r DEF HasClient, AskedBefore
  <2> QED
    BY <1>1, <1>4, <2>1
<1>HasStarted. HasStarted'
  BY <1>i, <1>r, <1>1, <1>3, <1>4, NoneIsNone DEF HasStarted
<1>Settled. Settled'
  BY <1>i, <1>r, <1>1, <1>3, <1>4, NoneIsNone DEF Settled
<1>InStep. InStep'
  <2> SUFFICES ASSUME ~overdue, NEW s \in CodexRt, Clean(s)', client'[s] # None
               PROVE  starts[client[s]] = Expected(s)'
    BY <1>1, <1>4 DEF InStep
  <2>1. s # r /\ client'[s] = client[s]
    BY <1>4
  <2>2. Clean(s)
    BY <1>1, <1>2, <1>r, <1>3, <2>1, NoneIsNone DEF Clean
  <2>3. Expected(s)' = Expected(s)
    BY <1>1, <1>2, <1>r, <1>3, <2>1 DEF Expected
  <2> QED
    BY <1>i, <2>1, <2>2, <2>3 DEF InStep
<1>OwnCompletion. OwnCompletion'
  BY <1>i, <1>r, <1>1, <1>3, <1>4, NoneIsNone DEF OwnCompletion
<1>Unstopped. Unstopped'
  BY <1>i, <1>1 DEF Unstopped
<1> QED
  BY <1>ClientsOK, <1>ChildrenOK, <1>RunOK, <1>TallyOK, <1>ClientOK, <1>WasMade, <1>ConnectingOK,
     <1>AskedBefore, <1>HasClient, <1>HasStarted, <1>Settled, <1>InStep, <1>OwnCompletion,
     <1>Unstopped DEF CodexIInv

LEMMA ResetSessionKeeps ==
  ASSUME CodexIInv, ResetSession
  PROVE  CodexIInv'
<1>i. /\ ClientsOK /\ ChildrenOK /\ RunOK /\ TallyOK /\ ClientOK /\ WasMade /\ ConnectingOK
      /\ AskedBefore /\ HasClient /\ HasStarted /\ Settled /\ InStep /\ OwnCompletion
      /\ Unstopped
  BY DEF CodexIInv
<1>r. /\ run \in [no : 0..MaxCodexTurn, rt : CodexRt \cup {None},
                 at : {"none", "spawning", "handshake", "starting", "running"},
                 by : {"none", "own", "other", "stop", "error"}]
      /\ shrink \in [rt : CodexRt \cup {None}, at : {"none", "spawning", "handshake", "pending"}]
      /\ run.at # "none" => run.rt \in CodexRt /\ run.no # CompactTurn
      /\ shrink.at # "none" => shrink.rt \in CodexRt
      /\ run.at # "none" => shrink.at = "none"
  BY <1>i DEF RunOK
<1> DEFINE r == current
<1>1. /\ run.at = "none" /\ shrink.at = "none" /\ clearing = None
      /\ current # None /\ Tallied("clears")
      /\ retiringChild' = [retiringChild EXCEPT ![r] =
                             IF client[r] # None THEN client[r] ELSE retiringChild[r]]
      /\ clearing' = r
      /\ cleared' = (cleared \cup {retiringChild'[r]}) \ {None}
      /\ RetireRuntime(r, FALSE) /\ current' = current /\ shrink' = ShrinkAfter(r)
      /\ UNCHANGED <<of, starts, run, asked, overdue, spilled>>
  BY DEF ResetSession, RetireRuntime, Ready
<1>2. r \in CodexRt
  BY <1>1, <1>i DEF ClientsOK
<1>3. shrink' = shrink
  BY <1>1 DEF ShrinkAfter
<1>5. /\ TallyOK' /\ tally'["interrupts"] = tally["interrupts"]
  <2>1. "clears" \in Tallies
    BY DEF Tallies
  <2> QED
    BY <1>1, <1>i, <2>1, TalliedKeeps
<1>6. /\ retiringChild' \in [CodexRt -> Child \cup {None}]
      /\ retiringChild'[r] = IF client[r] # None THEN client[r] ELSE retiringChild[r]
      /\ \A s \in CodexRt : s # r => retiringChild'[s] = retiringChild[s]
  BY <1>1, <1>2, <1>i DEF ClientsOK
<1>4. /\ client' \in [CodexRt -> Child \cup {None}] /\ ChildrenOK'
      /\ client'[r] = None /\ \A s \in CodexRt : s # r => client'[s] = client[s]
      /\ \A s \in CodexRt : client'[s] # None => client'[s] = client[s] /\ s # r
      /\ \A s \in CodexRt : client'[s] # None =>
           process'[client'[s]] = "live" /\ of'[client'[s]] = s /\ retiringChild[s] = None
      /\ \A c \in Child : process'[c] = "none" => of'[c] = None /\ starts'[c] = <<>>
      /\ \A c \in Child : process[c] = "ended" => process'[c] = "ended"
      /\ \A c \in Child : process[c] # "none" <=> process'[c] # "none"
  <2>1. r \in CodexRt /\ Disposed(r)
    BY <1>1, <1>2, <1>i DEF Disposed, ClientsOK, RetireRuntime, Disposes
  <2> HIDE DEF r
  <2> QED
    BY <2>1, <1>i, DisposedKeeps
<1>ClientsOK. ClientsOK'
  BY <1>i, <1>r, <1>1, <1>2, <1>3, <1>4, <1>6, NoneIsNone DEF ClientsOK
<1>ChildrenOK. ChildrenOK'
  BY <1>4
<1>RunOK. RunOK'
  BY <1>1, <1>3, <1>r DEF RunOK
<1>TallyOK. TallyOK'
  BY <1>5
<1>ClientOK. ClientOK'
  <2>1. \A s \in CodexRt : client'[s] # None => retiringChild'[s] = None
    BY <1>4, <1>6
  <2> QED
    BY <1>4, <2>1 DEF ClientOK
<1>WasMade. WasMade'
  <2> SUFFICES ASSUME NEW s \in CodexRt, retiringChild'[s] # None
               PROVE  process'[retiringChild'[s]] # "none"
    BY DEF WasMade
  <2>1. retiringChild'[s] \in Child
    BY <1>6
  <2>2. process[retiringChild'[s]] # "none"
    <3>1. CASE s = r /\ client[r] # None
      BY <1>2, <1>6, <1>i, <3>1 DEF ClientOK
    <3>2. CASE ~ (s = r /\ client[r] # None)
      BY <1>6, <1>i, <3>2 DEF WasMade
    <3> QED
      BY <3>1, <3>2
  <2> QED
    BY <1>4, <2>1, <2>2
<1>ConnectingOK. ConnectingOK'
  BY <1>i, <1>r, <1>1, <1>2, <1>3, <1>4, <1>6, NoneIsNone DEF ConnectingOK
<1>AskedBefore. AskedBefore'
  BY <1>i, <1>r, <1>1, <1>2, <1>3, <1>4, <1>6, NoneIsNone DEF AskedBefore
<1>HasClient. HasClient'
  BY <1>i, <1>r, <1>1, <1>2, <1>3, <1>4, <1>6, NoneIsNone DEF HasClient
<1>HasStarted. HasStarted'
  BY <1>i, <1>r, <1>1, <1>2, <1>3, <1>4, <1>6, NoneIsNone DEF HasStarted
<1>Settled. Settled'
  BY <1>i, <1>r, <1>1, <1>2, <1>3, <1>4, <1>6, NoneIsNone DEF Settled
<1>InStep. InStep'
  <2> SUFFICES ASSUME ~overdue, NEW s \in CodexRt, Clean(s)', client'[s] # None
               PROVE  starts[client[s]] = Expected(s)'
    BY <1>1, <1>4 DEF InStep
  <2>1. s # r /\ client'[s] = client[s]
    BY <1>4
  <2>2. Clean(s)
    BY <1>1, <1>2, <1>r, <1>3, <2>1, NoneIsNone DEF Clean
  <2>3. Expected(s)' = Expected(s)
    BY <1>1, <1>2, <1>r, <1>3, <2>1 DEF Expected
  <2> QED
    BY <1>i, <2>1, <2>2, <2>3 DEF InStep
<1>OwnCompletion. OwnCompletion'
  BY <1>i, <1>r, <1>1, <1>2, <1>3, <1>4, <1>6, NoneIsNone DEF OwnCompletion
<1>Unstopped. Unstopped'
  <2> SUFFICES ASSUME tally["interrupts"] = 0
               PROVE  /\ asked = {} /\ cleared' \subseteq Child
                      /\ \A c \in cleared' : process'[c] # "none" /\ LeftBehind(c)'
    BY <1>1, <1>3, <1>5 DEF Unstopped
  <2>1. /\ asked = {} /\ cleared \subseteq Child
        /\ \A c \in cleared : process[c] # "none" /\ LeftBehind(c)
    BY <1>i DEF Unstopped
  <2>2. cleared' \subseteq Child
    BY <1>1, <1>6, <2>1
  <2> SUFFICES ASSUME NEW c \in cleared'
               PROVE  process'[c] # "none" /\ LeftBehind(c)'
    BY <2>1, <2>2
  <2>3. c \in Child /\ current' # None /\ current' = r
    BY <1>1, <2>2
  <2>4. CASE c = retiringChild'[r]
    <3>1. process[c] # "none"
      BY <1>i, <1>2, <1>6, <2>3, <2>4, NoneIsNone DEF ClientOK, WasMade
    <3> QED
      BY <1>4, <2>3, <2>4, <3>1 DEF LeftBehind
  <2>5. CASE c # retiringChild'[r]
    <3>1. c \in cleared
      BY <1>1, <2>5
    <3>2. process[c] = "ended"
      <4>1. process[c] = "ended" \/ retiringChild[r] = c
        BY <2>1, <3>1 DEF LeftBehind
      <4>2. retiringChild[r] # None => retiringChild'[r] = retiringChild[r]
        BY <1>2, <1>6, <1>i DEF ClientOK
      <4> QED
        BY <2>3, <2>5, <4>1, <4>2, NoneIsNone
    <3> QED
      BY <1>4, <2>3, <3>2 DEF LeftBehind
  <2> QED
    BY <2>4, <2>5
<1> QED
  BY <1>ClientsOK, <1>ChildrenOK, <1>RunOK, <1>TallyOK, <1>ClientOK, <1>WasMade, <1>ConnectingOK,
     <1>AskedBefore, <1>HasClient, <1>HasStarted, <1>Settled, <1>InStep, <1>OwnCompletion,
     <1>Unstopped DEF CodexIInv

LEMMA InterruptAsksKeeps ==
  ASSUME CodexIInv, InterruptAsks
  PROVE  CodexIInv'
<1>i. /\ ClientsOK /\ ChildrenOK /\ RunOK /\ TallyOK /\ ClientOK /\ WasMade /\ ConnectingOK
      /\ AskedBefore /\ HasClient /\ HasStarted /\ Settled /\ InStep /\ OwnCompletion
      /\ Unstopped
  BY DEF CodexIInv
<1>r. /\ run \in [no : 0..MaxCodexTurn, rt : CodexRt \cup {None},
                 at : {"none", "spawning", "handshake", "starting", "running"},
                 by : {"none", "own", "other", "stop", "error"}]
      /\ shrink \in [rt : CodexRt \cup {None}, at : {"none", "spawning", "handshake", "pending"}]
      /\ run.at # "none" => run.rt \in CodexRt /\ run.no # CompactTurn
      /\ shrink.at # "none" => shrink.rt \in CodexRt
      /\ run.at # "none" => shrink.at = "none"
  BY <1>i DEF RunOK
<1>1. /\ current # None /\ Tallied("interrupts")
      /\ run.rt = current /\ run.at \in {"starting", "running"} /\ run.by = "none"
      /\ run' = [run EXCEPT !.by = "stop"] /\ asked' = asked \cup {current}
      /\ UNCHANGED <<current, client, retiringChild, of, process, starts, shrink, clearing,
                     overdue, cleared, spilled>>
  BY DEF InterruptAsks, Stoppable, Completed, children, Stops
<1>2. run'.at = run.at /\ run'.rt = current /\ run'.no = run.no /\ run'.by = "stop"
  BY <1>1, <1>r
<1>5. TallyOK' /\ tally'["interrupts"] # 0
  <2>1. "interrupts" \in Tallies
    BY DEF Tallies
  <2> QED
    BY <1>1, <1>i, <2>1, TalliedKeeps
<1>ClientsOK. ClientsOK'
  BY <1>i, <1>r, <1>1, <1>2 DEF ClientsOK
<1>ChildrenOK. ChildrenOK'
  BY <1>i, <1>r, <1>1, <1>2 DEF ChildrenOK
<1>RunOK. RunOK'
  <2>1. run' \in [no : 0..MaxCodexTurn, rt : CodexRt \cup {None},
                 at : {"none", "spawning", "handshake", "starting", "running"},
                 by : {"none", "own", "other", "stop", "error"}]
    BY <1>1, <1>r
  <2> QED
    BY <1>1, <1>2, <1>r, <2>1 DEF RunOK
<1>TallyOK. TallyOK'
  BY <1>5
<1>ClientOK. ClientOK'
  BY <1>i, <1>r, <1>1, <1>2 DEF ClientOK
<1>WasMade. WasMade'
  BY <1>i, <1>r, <1>1, <1>2 DEF WasMade
<1>ConnectingOK. ConnectingOK'
  BY <1>i, <1>r, <1>1, <1>2 DEF ConnectingOK
<1>AskedBefore. AskedBefore'
  BY <1>i, <1>r, <1>1, <1>2 DEF AskedBefore
<1>HasClient. HasClient'
  BY <1>i, <1>r, <1>1, <1>2 DEF HasClient
<1>HasStarted. HasStarted'
  BY <1>i, <1>r, <1>1, <1>2 DEF HasStarted
<1>Settled. Settled'
  BY <1>i, <1>r, <1>1, <1>2 DEF Settled
<1>InStep. InStep'
  <2> SUFFICES ASSUME ~overdue, NEW s \in CodexRt, Clean(s)', client[s] # None
               PROVE  starts[client[s]] = Expected(s)'
    BY <1>1 DEF InStep
  <2>1. Clean(s) /\ s # run.rt
    BY <1>1, <1>2 DEF Clean
  <2>2. Expected(s)' = Expected(s)
    BY <1>1, <1>2, <2>1 DEF Expected
  <2> QED
    BY <1>i, <2>1, <2>2 DEF InStep
<1>OwnCompletion. OwnCompletion'
  BY <1>i, <1>r, <1>1, <1>2 DEF OwnCompletion
<1>Unstopped. Unstopped'
  BY <1>5 DEF Unstopped
<1> QED
  BY <1>ClientsOK, <1>ChildrenOK, <1>RunOK, <1>TallyOK, <1>ClientOK, <1>WasMade, <1>ConnectingOK,
     <1>AskedBefore, <1>HasClient, <1>HasStarted, <1>Settled, <1>InStep, <1>OwnCompletion,
     <1>Unstopped DEF CodexIInv

LEMMA ChildEndsKeeps ==
  ASSUME CodexIInv, NEW c \in Child, ChildEnds(c)
  PROVE  CodexIInv'
<1>i. /\ ClientsOK /\ ChildrenOK /\ RunOK /\ TallyOK /\ ClientOK /\ WasMade /\ ConnectingOK
      /\ AskedBefore /\ HasClient /\ HasStarted /\ Settled /\ InStep /\ OwnCompletion
      /\ Unstopped
  BY DEF CodexIInv
<1>r. /\ run \in [no : 0..MaxCodexTurn, rt : CodexRt \cup {None},
                 at : {"none", "spawning", "handshake", "starting", "running"},
                 by : {"none", "own", "other", "stop", "error"}]
      /\ shrink \in [rt : CodexRt \cup {None}, at : {"none", "spawning", "handshake", "pending"}]
      /\ run.at # "none" => run.rt \in CodexRt /\ run.no # CompactTurn
      /\ shrink.at # "none" => shrink.rt \in CodexRt
      /\ run.at # "none" => shrink.at = "none"
  BY <1>i DEF RunOK
<1>1. /\ process[c] = "closing"
      /\ process' = [process EXCEPT ![c] = "ended"]
      /\ UNCHANGED <<current, client, retiringChild, of, starts, run, asked, shrink, clearing,
                     overdue, cleared, spilled, tally>>
  BY DEF ChildEnds, history
<1>2. process'[c] = "ended" /\ \A d \in Child : d # c => process'[d] = process[d]
  BY <1>1, <1>i DEF ChildrenOK
<1>ClientsOK. ClientsOK'
  BY <1>i, <1>r, <1>1, <1>2 DEF ClientsOK
<1>ChildrenOK. ChildrenOK'
  BY <1>i, <1>r, <1>1, <1>2 DEF ChildrenOK
<1>RunOK. RunOK'
  BY <1>i, <1>r, <1>1, <1>2 DEF RunOK
<1>TallyOK. TallyOK'
  BY <1>i, <1>r, <1>1, <1>2 DEF TallyOK
<1>ClientOK. ClientOK'
  <2>1. ASSUME NEW s \in CodexRt, client[s] # None
        PROVE  process'[client[s]] = "live" /\ of[client[s]] = s /\ retiringChild[s] = None
    <3>1. client[s] \in Child /\ client[s] # c
      BY <1>1, <1>i, <2>1 DEF ClientOK, ClientsOK
    <3> QED
      BY <1>2, <1>i, <2>1, <3>1 DEF ClientOK
  <2>2. \A d \in Child : process'[d] = "none" => of[d] = None /\ starts[d] = <<>>
    BY <1>2, <1>i DEF ClientOK
  <2> QED
    BY <1>1, <2>1, <2>2 DEF ClientOK
<1>WasMade. WasMade'
  BY <1>i, <1>1, <1>2 DEF WasMade, ClientsOK
<1>ConnectingOK. ConnectingOK'
  BY <1>i, <1>r, <1>1, <1>2 DEF ConnectingOK
<1>AskedBefore. AskedBefore'
  BY <1>i, <1>r, <1>1, <1>2 DEF AskedBefore
<1>HasClient. HasClient'
  BY <1>i, <1>r, <1>1, <1>2 DEF HasClient
<1>HasStarted. HasStarted'
  BY <1>i, <1>r, <1>1, <1>2 DEF HasStarted
<1>Settled. Settled'
  BY <1>i, <1>r, <1>1, <1>2 DEF Settled
<1>InStep. InStep'
  BY <1>i, <1>1 DEF InStep, Clean, Expected
<1>OwnCompletion. OwnCompletion'
  BY <1>i, <1>r, <1>1, <1>2 DEF OwnCompletion
<1>Unstopped. Unstopped'
  BY <1>i, <1>1, <1>2 DEF Unstopped, LeftBehind
<1> QED
  BY <1>ClientsOK, <1>ChildrenOK, <1>RunOK, <1>TallyOK, <1>ClientOK, <1>WasMade, <1>ConnectingOK,
     <1>AskedBefore, <1>HasClient, <1>HasStarted, <1>Settled, <1>InStep, <1>OwnCompletion,
     <1>Unstopped DEF CodexIInv

LEMMA ResetConfirmedKeeps ==
  ASSUME CodexIInv, ResetConfirmed
  PROVE  CodexIInv'
<1>i. /\ ClientsOK /\ ChildrenOK /\ RunOK /\ TallyOK /\ ClientOK /\ WasMade /\ ConnectingOK
      /\ AskedBefore /\ HasClient /\ HasStarted /\ Settled /\ InStep /\ OwnCompletion
      /\ Unstopped
  BY DEF CodexIInv
<1>r. /\ run \in [no : 0..MaxCodexTurn, rt : CodexRt \cup {None},
                 at : {"none", "spawning", "handshake", "starting", "running"},
                 by : {"none", "own", "other", "stop", "error"}]
      /\ shrink \in [rt : CodexRt \cup {None}, at : {"none", "spawning", "handshake", "pending"}]
      /\ run.at # "none" => run.rt \in CodexRt /\ run.no # CompactTurn
      /\ shrink.at # "none" => shrink.rt \in CodexRt
      /\ run.at # "none" => shrink.at = "none"
  BY <1>i DEF RunOK
<1>1. /\ clearing # None
      /\ retiringChild[clearing] # None => process[retiringChild[clearing]] = "ended"
      /\ retiringChild' = [retiringChild EXCEPT ![clearing] = None]
      /\ clearing' = None /\ current' = None
      /\ UNCHANGED <<client, of, process, starts, run, asked, shrink,
                     overdue, cleared, spilled, tally>>
  BY DEF ResetConfirmed, Refused, children, history
<1>2. /\ clearing \in CodexRt /\ retiringChild'[clearing] = None
      /\ \A s \in CodexRt : s # clearing => retiringChild'[s] = retiringChild[s]
  BY <1>1, <1>i DEF ClientsOK
<1>ClientsOK. ClientsOK'
  BY <1>i, <1>r, <1>1, <1>2, NoneIsNone DEF ClientsOK
<1>ChildrenOK. ChildrenOK'
  BY <1>i, <1>r, <1>1, <1>2, NoneIsNone DEF ChildrenOK
<1>RunOK. RunOK'
  BY <1>i, <1>r, <1>1, <1>2, NoneIsNone DEF RunOK
<1>TallyOK. TallyOK'
  BY <1>i, <1>r, <1>1, <1>2, NoneIsNone DEF TallyOK
<1>ClientOK. ClientOK'
  BY <1>i, <1>r, <1>1, <1>2, NoneIsNone DEF ClientOK
<1>WasMade. WasMade'
  BY <1>i, <1>r, <1>1, <1>2, NoneIsNone DEF WasMade
<1>ConnectingOK. ConnectingOK'
  BY <1>i, <1>r, <1>1, <1>2, NoneIsNone DEF ConnectingOK
<1>AskedBefore. AskedBefore'
  BY <1>i, <1>r, <1>1, <1>2, NoneIsNone DEF AskedBefore
<1>HasClient. HasClient'
  BY <1>i, <1>r, <1>1, <1>2, NoneIsNone DEF HasClient
<1>HasStarted. HasStarted'
  BY <1>i, <1>r, <1>1, <1>2, NoneIsNone DEF HasStarted
<1>Settled. Settled'
  BY <1>i, <1>r, <1>1, <1>2, NoneIsNone DEF Settled
<1>InStep. InStep'
  <2> SUFFICES ASSUME ~overdue, NEW s \in CodexRt, Clean(s)', client[s] # None
               PROVE  starts[client[s]] = Expected(s)
    BY <1>1 DEF InStep, Expected
  <2>1. Clean(s)
    BY <1>1, NoneIsNone DEF Clean
  <2> QED
    BY <1>i, <2>1 DEF InStep
<1>OwnCompletion. OwnCompletion'
  BY <1>i, <1>r, <1>1, <1>2, NoneIsNone DEF OwnCompletion
<1>Unstopped. Unstopped'
  <2> SUFFICES ASSUME tally["interrupts"] = 0
               PROVE  /\ asked = {} /\ cleared \subseteq Child
                      /\ \A c \in cleared : process[c] = "ended"
    BY <1>1 DEF Unstopped, LeftBehind
  <2>1. /\ asked = {} /\ cleared \subseteq Child /\ clearing = current
        /\ \A c \in cleared : process[c] = "ended" \/ retiringChild[current] = c
    BY <1>1, <1>i DEF Unstopped, LeftBehind
  <2> QED
    BY <1>1, <2>1, NoneIsNone
<1> QED
  BY <1>ClientsOK, <1>ChildrenOK, <1>RunOK, <1>TallyOK, <1>ClientOK, <1>WasMade, <1>ConnectingOK,
     <1>AskedBefore, <1>HasClient, <1>HasStarted, <1>Settled, <1>InStep, <1>OwnCompletion,
     <1>Unstopped DEF CodexIInv

LEMMA ResetGivesUpKeeps ==
  ASSUME CodexIInv, ResetGivesUp
  PROVE  CodexIInv'
<1>i. /\ ClientsOK /\ ChildrenOK /\ RunOK /\ TallyOK /\ ClientOK /\ WasMade /\ ConnectingOK
      /\ AskedBefore /\ HasClient /\ HasStarted /\ Settled /\ InStep /\ OwnCompletion
      /\ Unstopped
  BY DEF CodexIInv
<1>r. /\ run \in [no : 0..MaxCodexTurn, rt : CodexRt \cup {None},
                 at : {"none", "spawning", "handshake", "starting", "running"},
                 by : {"none", "own", "other", "stop", "error"}]
      /\ shrink \in [rt : CodexRt \cup {None}, at : {"none", "spawning", "handshake", "pending"}]
      /\ run.at # "none" => run.rt \in CodexRt /\ run.no # CompactTurn
      /\ shrink.at # "none" => shrink.rt \in CodexRt
      /\ run.at # "none" => shrink.at = "none"
  BY <1>i DEF RunOK
<1>1. /\ clearing # None /\ clearing' = None
      /\ UNCHANGED <<current, client, retiringChild, of, process, starts, run, asked, shrink,
                     overdue, cleared, spilled, tally>>
  BY DEF ResetGivesUp, children, history
<1>ClientsOK. ClientsOK'
  BY <1>i, <1>r, <1>1, NoneIsNone DEF ClientsOK
<1>ChildrenOK. ChildrenOK'
  BY <1>i, <1>r, <1>1, NoneIsNone DEF ChildrenOK
<1>RunOK. RunOK'
  BY <1>i, <1>r, <1>1, NoneIsNone DEF RunOK
<1>TallyOK. TallyOK'
  BY <1>i, <1>r, <1>1, NoneIsNone DEF TallyOK
<1>ClientOK. ClientOK'
  BY <1>i, <1>r, <1>1, NoneIsNone DEF ClientOK
<1>WasMade. WasMade'
  BY <1>i, <1>r, <1>1, NoneIsNone DEF WasMade
<1>ConnectingOK. ConnectingOK'
  BY <1>i, <1>r, <1>1, NoneIsNone DEF ConnectingOK
<1>AskedBefore. AskedBefore'
  BY <1>i, <1>r, <1>1, NoneIsNone DEF AskedBefore
<1>HasClient. HasClient'
  BY <1>i, <1>r, <1>1, NoneIsNone DEF HasClient
<1>HasStarted. HasStarted'
  BY <1>i, <1>r, <1>1, NoneIsNone DEF HasStarted
<1>Settled. Settled'
  BY <1>i, <1>r, <1>1, NoneIsNone DEF Settled
<1>InStep. InStep'
  BY <1>i, <1>1 DEF InStep, Clean, Expected
<1>OwnCompletion. OwnCompletion'
  BY <1>i, <1>r, <1>1, NoneIsNone DEF OwnCompletion
<1>Unstopped. Unstopped'
  BY <1>i, <1>1 DEF Unstopped, LeftBehind
<1> QED
  BY <1>ClientsOK, <1>ChildrenOK, <1>RunOK, <1>TallyOK, <1>ClientOK, <1>WasMade, <1>ConnectingOK,
     <1>AskedBefore, <1>HasClient, <1>HasStarted, <1>Settled, <1>InStep, <1>OwnCompletion,
     <1>Unstopped DEF CodexIInv

LEMMA CodexStutters ==
  ASSUME CodexIInv, UNCHANGED codexVars
  PROVE  CodexIInv'
<1>i. /\ ClientsOK /\ ChildrenOK /\ RunOK /\ TallyOK /\ ClientOK /\ WasMade /\ ConnectingOK
      /\ AskedBefore /\ HasClient /\ HasStarted /\ Settled /\ InStep /\ OwnCompletion
      /\ Unstopped
  BY DEF CodexIInv
<1>r. /\ run \in [no : 0..MaxCodexTurn, rt : CodexRt \cup {None},
                 at : {"none", "spawning", "handshake", "starting", "running"},
                 by : {"none", "own", "other", "stop", "error"}]
      /\ shrink \in [rt : CodexRt \cup {None}, at : {"none", "spawning", "handshake", "pending"}]
      /\ run.at # "none" => run.rt \in CodexRt /\ run.no # CompactTurn
      /\ shrink.at # "none" => shrink.rt \in CodexRt
      /\ run.at # "none" => shrink.at = "none"
  BY <1>i DEF RunOK
<1>1. UNCHANGED <<current, client, retiringChild, of, process, starts, run, asked, shrink, clearing,
                  overdue, cleared, spilled, tally>>
  BY DEF codexVars
<1>ClientsOK. ClientsOK'
  BY <1>i, <1>r, <1>1, NoneIsNone DEF ClientsOK
<1>ChildrenOK. ChildrenOK'
  BY <1>i, <1>r, <1>1, NoneIsNone DEF ChildrenOK
<1>RunOK. RunOK'
  BY <1>i, <1>r, <1>1, NoneIsNone DEF RunOK
<1>TallyOK. TallyOK'
  BY <1>i, <1>r, <1>1, NoneIsNone DEF TallyOK
<1>ClientOK. ClientOK'
  BY <1>i, <1>r, <1>1, NoneIsNone DEF ClientOK
<1>WasMade. WasMade'
  BY <1>i, <1>r, <1>1, NoneIsNone DEF WasMade
<1>ConnectingOK. ConnectingOK'
  BY <1>i, <1>r, <1>1, NoneIsNone DEF ConnectingOK
<1>AskedBefore. AskedBefore'
  BY <1>i, <1>r, <1>1, NoneIsNone DEF AskedBefore
<1>HasClient. HasClient'
  BY <1>i, <1>r, <1>1, NoneIsNone DEF HasClient
<1>HasStarted. HasStarted'
  BY <1>i, <1>r, <1>1, NoneIsNone DEF HasStarted
<1>Settled. Settled'
  BY <1>i, <1>r, <1>1, NoneIsNone DEF Settled
<1>InStep. InStep'
  BY <1>i, <1>1 DEF InStep, Clean, Expected
<1>OwnCompletion. OwnCompletion'
  BY <1>i, <1>r, <1>1, NoneIsNone DEF OwnCompletion
<1>Unstopped. Unstopped'
  BY <1>i, <1>1 DEF Unstopped, LeftBehind
<1> QED
  BY <1>ClientsOK, <1>ChildrenOK, <1>RunOK, <1>TallyOK, <1>ClientOK, <1>WasMade, <1>ConnectingOK,
     <1>AskedBefore, <1>HasClient, <1>HasStarted, <1>Settled, <1>InStep, <1>OwnCompletion,
     <1>Unstopped DEF CodexIInv

LEMMA ChangeKeeps ==
  ASSUME CodexIInv, Change
  PROVE  CodexIInv'
<1>i. /\ ClientsOK /\ ChildrenOK /\ RunOK /\ TallyOK /\ ClientOK /\ WasMade /\ ConnectingOK
      /\ AskedBefore /\ HasClient /\ HasStarted /\ Settled /\ InStep /\ OwnCompletion
      /\ Unstopped
  BY DEF CodexIInv
<1>r. /\ run \in [no : 0..MaxCodexTurn, rt : CodexRt \cup {None},
                 at : {"none", "spawning", "handshake", "starting", "running"},
                 by : {"none", "own", "other", "stop", "error"}]
      /\ shrink \in [rt : CodexRt \cup {None}, at : {"none", "spawning", "handshake", "pending"}]
      /\ run.at # "none" => run.rt \in CodexRt /\ run.no # CompactTurn
      /\ shrink.at # "none" => shrink.rt \in CodexRt
      /\ run.at # "none" => shrink.at = "none"
  BY <1>i DEF RunOK
<1>1. UNCHANGED <<current, client, retiringChild, of, process, starts, run, asked, shrink, clearing,
                  overdue, cleared, spilled>> /\ Tallied("changes")
  BY DEF Change, children
<1>2. TallyOK' /\ tally'["interrupts"] = tally["interrupts"]
  <2>1. "changes" \in Tallies
    BY DEF Tallies
  <2> QED
    BY <1>1, <1>i, <2>1, TalliedKeeps
<1>ClientsOK. ClientsOK'
  BY <1>i, <1>r, <1>1, NoneIsNone DEF ClientsOK
<1>ChildrenOK. ChildrenOK'
  BY <1>i, <1>r, <1>1, NoneIsNone DEF ChildrenOK
<1>RunOK. RunOK'
  BY <1>i, <1>r, <1>1, NoneIsNone DEF RunOK
<1>TallyOK. TallyOK'
  BY <1>2
<1>ClientOK. ClientOK'
  BY <1>i, <1>r, <1>1, NoneIsNone DEF ClientOK
<1>WasMade. WasMade'
  BY <1>i, <1>r, <1>1, NoneIsNone DEF WasMade
<1>ConnectingOK. ConnectingOK'
  BY <1>i, <1>r, <1>1, NoneIsNone DEF ConnectingOK
<1>AskedBefore. AskedBefore'
  BY <1>i, <1>r, <1>1, NoneIsNone DEF AskedBefore
<1>HasClient. HasClient'
  BY <1>i, <1>r, <1>1, NoneIsNone DEF HasClient
<1>HasStarted. HasStarted'
  BY <1>i, <1>r, <1>1, NoneIsNone DEF HasStarted
<1>Settled. Settled'
  BY <1>i, <1>r, <1>1, NoneIsNone DEF Settled
<1>InStep. InStep'
  BY <1>i, <1>1 DEF InStep, Clean, Expected
<1>OwnCompletion. OwnCompletion'
  BY <1>i, <1>r, <1>1, NoneIsNone DEF OwnCompletion
<1>Unstopped. Unstopped'
  BY <1>i, <1>1, <1>2 DEF Unstopped, LeftBehind
<1> QED
  BY <1>ClientsOK, <1>ChildrenOK, <1>RunOK, <1>TallyOK, <1>ClientOK, <1>WasMade, <1>ConnectingOK,
     <1>AskedBefore, <1>HasClient, <1>HasStarted, <1>Settled, <1>InStep, <1>OwnCompletion,
     <1>Unstopped DEF CodexIInv

LEMMA BackOnDutyKeeps ==
  ASSUME CodexIInv, ListedOK, BackOnDuty
  PROVE  CodexIInv'
<1>i. /\ ClientsOK /\ ChildrenOK /\ RunOK /\ TallyOK /\ ClientOK /\ WasMade /\ ConnectingOK
      /\ AskedBefore /\ HasClient /\ HasStarted /\ Settled /\ InStep /\ OwnCompletion
      /\ Unstopped
  BY DEF CodexIInv
<1>r. /\ run \in [no : 0..MaxCodexTurn, rt : CodexRt \cup {None},
                 at : {"none", "spawning", "handshake", "starting", "running"},
                 by : {"none", "own", "other", "stop", "error"}]
      /\ shrink \in [rt : CodexRt \cup {None}, at : {"none", "spawning", "handshake", "pending"}]
      /\ run.at # "none" => run.rt \in CodexRt /\ run.no # CompactTurn
      /\ shrink.at # "none" => shrink.rt \in CodexRt
      /\ run.at # "none" => shrink.at = "none"
  BY <1>i DEF RunOK
<1>1. /\ current' = IF listed THEN current ELSE None
      /\ UNCHANGED <<client, retiringChild, of, process, starts, run, asked, shrink, clearing,
                     overdue, cleared, spilled, tally>>
  BY DEF BackOnDuty, children, history
<1>ClientsOK. ClientsOK'
  BY <1>i, <1>r, <1>1, NoneIsNone DEF ClientsOK
<1>ChildrenOK. ChildrenOK'
  BY <1>i, <1>r, <1>1, NoneIsNone DEF ChildrenOK
<1>RunOK. RunOK'
  BY <1>i, <1>r, <1>1, NoneIsNone DEF RunOK
<1>TallyOK. TallyOK'
  BY <1>i, <1>r, <1>1, NoneIsNone DEF TallyOK
<1>ClientOK. ClientOK'
  BY <1>i, <1>r, <1>1, NoneIsNone DEF ClientOK
<1>WasMade. WasMade'
  BY <1>i, <1>r, <1>1, NoneIsNone DEF WasMade
<1>ConnectingOK. ConnectingOK'
  BY <1>i, <1>r, <1>1, NoneIsNone DEF ConnectingOK
<1>AskedBefore. AskedBefore'
  BY <1>i, <1>r, <1>1, NoneIsNone DEF AskedBefore
<1>HasClient. HasClient'
  BY <1>i, <1>r, <1>1, NoneIsNone DEF HasClient
<1>HasStarted. HasStarted'
  BY <1>i, <1>r, <1>1, NoneIsNone DEF HasStarted
<1>Settled. Settled'
  BY <1>i, <1>r, <1>1, NoneIsNone DEF Settled
<1>InStep. InStep'
  <2> SUFFICES ASSUME ~overdue, NEW s \in CodexRt, Clean(s)', client[s] # None
               PROVE  starts[client[s]] = Expected(s)
    BY <1>1 DEF InStep, Expected
  <2>1. Clean(s)
    BY <1>1, NoneIsNone DEF Clean
  <2> QED
    BY <1>i, <2>1 DEF InStep
<1>OwnCompletion. OwnCompletion'
  BY <1>i, <1>r, <1>1, NoneIsNone DEF OwnCompletion
<1>Unstopped. Unstopped'
  <2>1. tally["interrupts"] = 0 => current' = current
    BY <1>1 DEF ListedOK
  <2> QED
    BY <1>i, <1>1, <2>1 DEF Unstopped, LeftBehind
<1> QED
  BY <1>ClientsOK, <1>ChildrenOK, <1>RunOK, <1>TallyOK, <1>ClientOK, <1>WasMade, <1>ConnectingOK,
     <1>AskedBefore, <1>HasClient, <1>HasStarted, <1>Settled, <1>InStep, <1>OwnCompletion,
     <1>Unstopped DEF CodexIInv

LEMMA TurnGivenUpKeeps ==
  ASSUME CodexIInv, TurnGivenUp
  PROVE  CodexIInv'
<1>i. /\ ClientsOK /\ ChildrenOK /\ RunOK /\ TallyOK /\ ClientOK /\ WasMade /\ ConnectingOK
      /\ AskedBefore /\ HasClient /\ HasStarted /\ Settled /\ InStep /\ OwnCompletion
      /\ Unstopped
  BY DEF CodexIInv
<1>r. /\ run \in [no : 0..MaxCodexTurn, rt : CodexRt \cup {None},
                 at : {"none", "spawning", "handshake", "starting", "running"},
                 by : {"none", "own", "other", "stop", "error"}]
      /\ shrink \in [rt : CodexRt \cup {None}, at : {"none", "spawning", "handshake", "pending"}]
      /\ run.at # "none" => run.rt \in CodexRt /\ run.no # CompactTurn
      /\ shrink.at # "none" => shrink.rt \in CodexRt
      /\ run.at # "none" => shrink.at = "none"
  BY <1>i DEF RunOK
<1> DEFINE r == run.rt
<1>1. /\ run.at = "running" /\ run.by = "none" /\ Tallied("exits") /\ run' = NoRun
      /\ RetireRuntime(r, FALSE) /\ current' = current /\ shrink' = ShrinkAfter(r)
      /\ UNCHANGED <<retiringChild, of, starts, asked, clearing, overdue, cleared, spilled>>
  BY DEF TurnGivenUp, RetireRuntime
<1>2. /\ run'.at = "none" /\ run'.rt = None /\ run'.no = 0 /\ run'.by = "none"
      /\ shrink.at = "none" /\ r \in CodexRt
  BY <1>1, <1>r DEF NoRun
<1>5. TallyOK' /\ tally'["interrupts"] = tally["interrupts"]
  <2>1. "exits" \in Tallies
    BY DEF Tallies
  <2> QED
    BY <1>1, <1>i, <2>1, TalliedKeeps
<1>3. shrink' = shrink
  BY <1>1, <1>2 DEF ShrinkAfter
<1>4. /\ client' \in [CodexRt -> Child \cup {None}] /\ ChildrenOK'
      /\ client'[r] = None /\ \A s \in CodexRt : s # r => client'[s] = client[s]
      /\ \A s \in CodexRt : client'[s] # None => client'[s] = client[s] /\ s # r
      /\ \A s \in CodexRt : client'[s] # None =>
           process'[client'[s]] = "live" /\ of'[client'[s]] = s /\ retiringChild[s] = None
      /\ \A c \in Child : process'[c] = "none" => of'[c] = None /\ starts'[c] = <<>>
      /\ \A c \in Child : process[c] = "ended" => process'[c] = "ended"
      /\ \A c \in Child : process[c] # "none" <=> process'[c] # "none"
  <2>1. r \in CodexRt /\ Disposed(r)
    BY <1>1, <1>2, <1>i DEF Disposed, ClientsOK, RetireRuntime, Disposes
  <2> HIDE DEF r
  <2> QED
    BY <2>1, <1>i, DisposedKeeps
<1>ClientsOK. ClientsOK'
  BY <1>i, <1>r, <1>1, <1>2, <1>3, <1>4 DEF ClientsOK
<1>ChildrenOK. ChildrenOK'
  BY <1>4
<1>RunOK. RunOK'
  <2>1. run' \in [no : 0..MaxCodexTurn, rt : CodexRt \cup {None},
                 at : {"none", "spawning", "handshake", "starting", "running"},
                 by : {"none", "own", "other", "stop", "error"}]
    BY <1>1, CodexAssumption DEF NoRun
  <2> QED
    BY <1>1, <1>2, <1>3, <1>r, <2>1 DEF RunOK
<1>TallyOK. TallyOK'
  BY <1>5
<1>ClientOK. ClientOK'
  BY <1>1, <1>4 DEF ClientOK
<1>WasMade. WasMade'
  BY <1>i, <1>1, <1>4 DEF WasMade, ClientsOK
<1>ConnectingOK. ConnectingOK'
  BY <1>i, <1>r, <1>1, <1>2, <1>3, <1>4 DEF ConnectingOK
<1>AskedBefore. AskedBefore'
  BY <1>i, <1>r, <1>1, <1>2, <1>3, <1>4 DEF AskedBefore
<1>HasClient. HasClient'
  BY <1>i, <1>r, <1>1, <1>2, <1>3, <1>4 DEF HasClient
<1>HasStarted. HasStarted'
  BY <1>i, <1>r, <1>1, <1>2, <1>3, <1>4 DEF HasStarted
<1>Settled. Settled'
  BY <1>i, <1>r, <1>1, <1>2, <1>3, <1>4 DEF Settled
<1>InStep. InStep'
  <2> SUFFICES ASSUME ~overdue, NEW s \in CodexRt, Clean(s)', client'[s] # None
               PROVE  starts[client[s]] = Expected(s)'
    BY <1>1, <1>4 DEF InStep
  <2>1. s # r /\ client'[s] = client[s]
    BY <1>4
  <2>2. Clean(s)
    BY <1>1, <1>2, <1>r, <1>3, <2>1, NoneIsNone DEF Clean
  <2>3. Expected(s)' = Expected(s)
    BY <1>1, <1>2, <1>r, <1>3, <2>1 DEF Expected
  <2> QED
    BY <1>i, <2>1, <2>2, <2>3 DEF InStep
<1>OwnCompletion. OwnCompletion'
  BY <1>i, <1>r, <1>1, <1>2, <1>3, <1>4 DEF OwnCompletion
<1>Unstopped. Unstopped'
  <2> SUFFICES ASSUME tally["interrupts"] = 0
               PROVE  /\ asked = {} /\ cleared \subseteq Child
                      /\ \A c \in cleared : process'[c] # "none" /\ LeftBehind(c)'
                      /\ clearing # None => clearing = current
    BY <1>1, <1>2, <1>3, <1>5 DEF Unstopped
  <2>1. /\ asked = {} /\ cleared \subseteq Child
        /\ \A c \in cleared : process[c] # "none" /\ LeftBehind(c)
        /\ clearing # None => clearing = current
    BY <1>i DEF Unstopped
  <2>2. \A c \in cleared : process'[c] # "none" /\ LeftBehind(c)'
    BY <1>1, <1>4, <2>1 DEF LeftBehind
  <2> QED
    BY <2>1, <2>2
<1> QED
  BY <1>ClientsOK, <1>ChildrenOK, <1>RunOK, <1>TallyOK, <1>ClientOK, <1>WasMade, <1>ConnectingOK,
     <1>AskedBefore, <1>HasClient, <1>HasStarted, <1>Settled, <1>InStep, <1>OwnCompletion,
     <1>Unstopped DEF CodexIInv

LEMMA CompactFailsKeeps ==
  ASSUME CodexIInv, CompactFails
  PROVE  CodexIInv'
<1>i. /\ ClientsOK /\ ChildrenOK /\ RunOK /\ TallyOK /\ ClientOK /\ WasMade /\ ConnectingOK
      /\ AskedBefore /\ HasClient /\ HasStarted /\ Settled /\ InStep /\ OwnCompletion
      /\ Unstopped
  BY DEF CodexIInv
<1>r. /\ run \in [no : 0..MaxCodexTurn, rt : CodexRt \cup {None},
                 at : {"none", "spawning", "handshake", "starting", "running"},
                 by : {"none", "own", "other", "stop", "error"}]
      /\ shrink \in [rt : CodexRt \cup {None}, at : {"none", "spawning", "handshake", "pending"}]
      /\ run.at # "none" => run.rt \in CodexRt /\ run.no # CompactTurn
      /\ shrink.at # "none" => shrink.rt \in CodexRt
      /\ run.at # "none" => shrink.at = "none"
  BY <1>i DEF RunOK
<1> DEFINE r == shrink.rt
<1>1. /\ shrink.at # "none" /\ shrink' = NoShrink
      /\ overdue' = (overdue \/ shrink.at = "pending")
      /\ UNCHANGED <<current, retiringChild, of, starts, run, asked, clearing,
                     cleared, spilled, tally>>
      /\ \/ /\ shrink.at = "handshake"
            /\ client' = [client EXCEPT ![r] = None]
            /\ process' = [c \in Child |-> IF c = client[r] /\ process[c] = "live"
                                           THEN "closing" ELSE process[c]]
         \/ shrink.at # "handshake" /\ UNCHANGED <<client, process>>
  BY DEF CompactFails, Disposes
<1>2. shrink'.at = "none" /\ shrink'.rt = None /\ run.at = "none" /\ r \in CodexRt
  BY <1>1, <1>r DEF NoShrink
<1>4. /\ client' \in [CodexRt -> Child \cup {None}] /\ ChildrenOK'
      /\ \A s \in CodexRt : client'[s] # None => client'[s] = client[s]
      /\ \A s \in CodexRt : client'[s] # None =>
           process'[client'[s]] = "live" /\ of'[client'[s]] = s /\ retiringChild[s] = None
      /\ \A c \in Child : process'[c] = "none" => of'[c] = None /\ starts'[c] = <<>>
      /\ \A c \in Child : process[c] = "ended" => process'[c] = "ended"
      /\ \A c \in Child : process[c] # "none" <=> process'[c] # "none"
  <2> HIDE DEF r
  <2>1. CASE UNCHANGED <<client, process>>
    <3>1. client \in [CodexRt -> Child \cup {None}] /\ ChildrenOK'
      BY <1>1, <1>i, <2>1 DEF ClientsOK, ChildrenOK
    <3> QED
      BY <1>1, <1>i, <2>1, <3>1 DEF ClientOK
  <2>2. CASE Disposed(r)
    BY <1>1, <1>2, <1>i, <2>2, DisposedKeeps
  <2> QED
    BY <1>1, <2>1, <2>2 DEF Disposed
<1>ClientsOK. ClientsOK'
  BY <1>i, <1>r, <1>1, <1>2, <1>4 DEF ClientsOK
<1>ChildrenOK. ChildrenOK'
  BY <1>4
<1>RunOK. RunOK'
  <2>1. shrink' \in [rt : CodexRt \cup {None}, at : {"none", "spawning", "handshake", "pending"}]
    BY <1>1 DEF NoShrink
  <2> QED
    BY <1>1, <1>2, <1>r, <2>1 DEF RunOK
<1>TallyOK. TallyOK'
  BY <1>i, <1>r, <1>1, <1>2, <1>4 DEF TallyOK
<1>ClientOK. ClientOK'
  BY <1>1, <1>4 DEF ClientOK
<1>WasMade. WasMade'
  BY <1>i, <1>1, <1>4 DEF WasMade, ClientsOK
<1>ConnectingOK. ConnectingOK'
  BY <1>i, <1>r, <1>1, <1>2, <1>4 DEF ConnectingOK
<1>AskedBefore. AskedBefore'
  BY <1>i, <1>r, <1>1, <1>2, <1>4 DEF AskedBefore
<1>HasClient. HasClient'
  BY <1>i, <1>r, <1>1, <1>2, <1>4 DEF HasClient
<1>HasStarted. HasStarted'
  BY <1>i, <1>r, <1>1, <1>2, <1>4 DEF HasStarted
<1>Settled. Settled'
  BY <1>i, <1>r, <1>1, <1>2, <1>4 DEF Settled
<1>InStep. InStep'
  <2> SUFFICES ASSUME ~overdue', NEW s \in CodexRt, Clean(s)', client'[s] # None
               PROVE  starts[client[s]] = Expected(s)'
    BY <1>1, <1>4 DEF InStep
  <2>0. ~overdue /\ shrink.at # "pending"
    <3>1. overdue' = (overdue \/ shrink.at = "pending")
      BY <1>1
    <3> QED
      BY <3>1
  <2>1. Clean(s) /\ client[s] # None
    BY <1>1, <1>2, <1>4 DEF Clean
  <2>2. Expected(s)' = Expected(s)
    BY <1>1, <1>2, <2>0 DEF Expected
  <2> QED
    BY <1>i, <2>0, <2>1, <2>2 DEF InStep
<1>OwnCompletion. OwnCompletion'
  <2>1. overdue' = (overdue \/ shrink.at = "pending") /\ run' = run /\ spilled' = spilled
    BY <1>1
  <2> QED
    BY <1>i, <2>1 DEF OwnCompletion
<1>Unstopped. Unstopped'
  <2> SUFFICES ASSUME tally["interrupts"] = 0
               PROVE  /\ asked = {} /\ cleared \subseteq Child
                      /\ \A c \in cleared : process'[c] # "none" /\ LeftBehind(c)'
                      /\ clearing # None => clearing = current
    BY <1>1, <1>2 DEF Unstopped
  <2>1. /\ asked = {} /\ cleared \subseteq Child
        /\ \A c \in cleared : process[c] # "none" /\ LeftBehind(c)
        /\ clearing # None => clearing = current
    BY <1>i DEF Unstopped
  <2>2. \A c \in cleared : process'[c] # "none" /\ LeftBehind(c)'
    BY <1>1, <1>4, <2>1 DEF LeftBehind
  <2> QED
    BY <2>1, <2>2
<1> QED
  BY <1>ClientsOK, <1>ChildrenOK, <1>RunOK, <1>TallyOK, <1>ClientOK, <1>WasMade, <1>ConnectingOK,
     <1>AskedBefore, <1>HasClient, <1>HasStarted, <1>Settled, <1>InStep, <1>OwnCompletion,
     <1>Unstopped DEF CodexIInv

LEMMA CompactTurnKeeps ==
  ASSUME CodexIInv, Compact
  PROVE  CodexIInv'
<1>i. /\ ClientsOK /\ ChildrenOK /\ RunOK /\ TallyOK /\ ClientOK /\ WasMade /\ ConnectingOK
      /\ AskedBefore /\ HasClient /\ HasStarted /\ Settled /\ InStep /\ OwnCompletion
      /\ Unstopped
  BY DEF CodexIInv
<1>r. /\ run \in [no : 0..MaxCodexTurn, rt : CodexRt \cup {None},
                 at : {"none", "spawning", "handshake", "starting", "running"},
                 by : {"none", "own", "other", "stop", "error"}]
      /\ shrink \in [rt : CodexRt \cup {None}, at : {"none", "spawning", "handshake", "pending"}]
      /\ run.at # "none" => run.rt \in CodexRt /\ run.no # CompactTurn
      /\ shrink.at # "none" => shrink.rt \in CodexRt
      /\ run.at # "none" => shrink.at = "none"
  BY <1>i DEF RunOK
<1> DEFINE r == current
<1>1. /\ run.at = "none" /\ shrink.at = "none" /\ clearing = None
      /\ current # None /\ Tallied("compactions")
      /\ \/ /\ client[r] # None
            /\ shrink' = [rt |-> r, at |-> "pending"] /\ Send(client[r], CompactTurn)
         \/ /\ client[r] = None
            /\ retiringChild[r] # None => process[retiringChild[r]] = "ended"
            /\ shrink' = [rt |-> r, at |-> "spawning"] /\ starts' = starts
      /\ UNCHANGED <<current, client, retiringChild, of, process, run, asked, clearing,
                     overdue, cleared, spilled>>
  BY DEF Compact, Ready, Refused
<1>2. /\ r \in CodexRt /\ shrink'.rt = r /\ CompactTurn \in 0..MaxCodexTurn
      /\ shrink'.at = IF client[r] # None THEN "pending" ELSE "spawning"
  BY <1>1, <1>i, CodexAssumption DEF ClientsOK, CompactTurn
<1>3. /\ ChildrenOK'
      /\ client[r] # None => starts'[client[r]] = Append(starts[client[r]], CompactTurn)
      /\ client[r] = None => starts' = starts
      /\ \A d \in Child : d # client[r] => starts'[d] = starts[d]
      /\ \A d \in Child : process'[d] = "none" => of'[d] = None /\ starts'[d] = <<>>
  <2> HIDE DEF r
  <2>1. CASE client[r] # None
    <3>1. client[r] \in Child /\ process[client[r]] = "live"
      BY <1>2, <1>i, <2>1 DEF ClientOK, ClientsOK
    <3>2. Send(client[r], CompactTurn)
      BY <1>1, <2>1
    <3> QED
      BY <1>1, <1>2, <1>i, <2>1, <3>1, <3>2, SendKeeps
  <2>2. CASE client[r] = None
    BY <1>1, <1>i, <2>2 DEF ClientOK, ChildrenOK
  <2> QED
    BY <2>1, <2>2
<1>5. \A s \in CodexRt : client[s] # None => client[s] \in Child /\ (s # r => client[s] # client[r])
  <2>1. \A s \in CodexRt : client[s] # None => client[s] \in Child /\ of[client[s]] = s
    BY <1>i DEF ClientOK, ClientsOK
  <2> QED
    BY <1>2, <2>1
<1>6. /\ TallyOK' /\ tally'["interrupts"] = tally["interrupts"]
  <2>1. "compactions" \in Tallies
    BY DEF Tallies
  <2> QED
    BY <1>1, <1>i, <2>1, TalliedKeeps
<1>ClientsOK. ClientsOK'
  BY <1>i, <1>r, <1>1, <1>2, <1>3 DEF ClientsOK
<1>ChildrenOK. ChildrenOK'
  BY <1>3
<1>RunOK. RunOK'
  <2>1. shrink' \in [rt : CodexRt \cup {None}, at : {"none", "spawning", "handshake", "pending"}]
    BY <1>1, <1>2
  <2> QED
    BY <1>1, <1>2, <1>r, <2>1 DEF RunOK
<1>TallyOK. TallyOK'
  BY <1>6
<1>ClientOK. ClientOK'
  BY <1>i, <1>r, <1>1, <1>2, <1>3 DEF ClientOK
<1>WasMade. WasMade'
  BY <1>i, <1>r, <1>1, <1>2, <1>3 DEF WasMade
<1>ConnectingOK. ConnectingOK'
  BY <1>i, <1>r, <1>1, <1>2, <1>3 DEF ConnectingOK
<1>AskedBefore. AskedBefore'
  BY <1>i, <1>r, <1>1, <1>2, <1>3 DEF AskedBefore
<1>HasClient. HasClient'
  BY <1>i, <1>r, <1>1, <1>2, <1>3 DEF HasClient
<1>HasStarted. HasStarted'
  BY <1>i, <1>r, <1>1, <1>2, <1>3 DEF HasStarted
<1>Settled. Settled'
  BY <1>i, <1>r, <1>1, <1>2, <1>3 DEF Settled
<1>InStep. InStep'
  <2> SUFFICES ASSUME ~overdue, NEW s \in CodexRt, Clean(s)', client[s] # None
               PROVE  starts'[client[s]] = Expected(s)'
    BY <1>1 DEF InStep
  <2>0. Clean(s) /\ Expected(s) = <<>>
    BY <1>1, <1>2 DEF Clean, Expected
  <2>1. starts[client[s]] = <<>>
    BY <1>i, <2>0 DEF InStep
  <2>2. CASE s = r /\ client[r] # None
    <3>1. Expected(s)' = <<CompactTurn>>
      BY <1>1, <1>2, <2>2 DEF Expected
    <3> QED
      BY <1>3, <2>1, <2>2, <3>1, AppendToNothing
  <2>3. CASE ~ (s = r /\ client[r] # None)
    <3>1. starts'[client[s]] = starts[client[s]]
      BY <1>3, <1>5, <2>3
    <3>2. Expected(s)' = <<>>
      BY <1>1, <1>2, <1>3, <2>3 DEF Expected
    <3> QED
      BY <2>1, <3>1, <3>2
  <2> QED
    BY <2>2, <2>3
<1>OwnCompletion. OwnCompletion'
  BY <1>i, <1>r, <1>1, <1>2, <1>3 DEF OwnCompletion
<1>Unstopped. Unstopped'
  <2> SUFFICES ASSUME tally["interrupts"] = 0
               PROVE  /\ asked = {} /\ cleared \subseteq Child
                      /\ \A c \in cleared : process[c] # "none" /\ LeftBehind(c)
                      /\ shrink'.at = "spawning" => \A c \in cleared : process[c] = "ended"
    BY <1>1, <1>6 DEF Unstopped, LeftBehind
  <2>1. /\ asked = {} /\ cleared \subseteq Child
        /\ \A c \in cleared : process[c] # "none" /\ LeftBehind(c)
    BY <1>i DEF Unstopped
  <2>2. shrink'.at = "spawning" => (retiringChild[r] # None => process[retiringChild[r]] = "ended")
    BY <1>1, <1>2
  <2>3. \A c \in cleared : c # None
    BY <2>1, NoneIsNone
  <2> QED
    BY <2>1, <2>2, <2>3 DEF LeftBehind
<1> QED
  BY <1>ClientsOK, <1>ChildrenOK, <1>RunOK, <1>TallyOK, <1>ClientOK, <1>WasMade, <1>ConnectingOK,
     <1>AskedBefore, <1>HasClient, <1>HasStarted, <1>Settled, <1>InStep, <1>OwnCompletion,
     <1>Unstopped DEF CodexIInv

LEMMA DeliverTurnKeeps ==
  ASSUME CodexIInv, ListedOK, DeliverTurn
  PROVE  CodexIInv'
<1>i. /\ ClientsOK /\ ChildrenOK /\ RunOK /\ TallyOK /\ ClientOK /\ WasMade /\ ConnectingOK
      /\ AskedBefore /\ HasClient /\ HasStarted /\ Settled /\ InStep /\ OwnCompletion
      /\ Unstopped
  BY DEF CodexIInv
<1>r. /\ run \in [no : 0..MaxCodexTurn, rt : CodexRt \cup {None},
                 at : {"none", "spawning", "handshake", "starting", "running"},
                 by : {"none", "own", "other", "stop", "error"}]
      /\ shrink \in [rt : CodexRt \cup {None}, at : {"none", "spawning", "handshake", "pending"}]
      /\ run.at # "none" => run.rt \in CodexRt /\ run.no # CompactTurn
      /\ shrink.at # "none" => shrink.rt \in CodexRt
      /\ run.at # "none" => shrink.at = "none"
  BY <1>i DEF RunOK
<1> DEFINE n == tally["turns"] + 1
           turnOf(r) == [no |-> n, rt |-> r, at |-> "spawning", by |-> "none"]
<1>0. /\ run.at = "none" /\ shrink.at = "none" /\ clearing = None /\ Tallied("turns")
      /\ UNCHANGED <<retiringChild, of, asked, shrink, clearing, overdue, cleared>>
  BY DEF DeliverTurn, Ready
<1>1. PICK r \in CodexRt :
        /\ IsRuntimeFor(r) /\ current' = r
        /\ spilled' = spilled \cup (IF r \in asked THEN {n} ELSE {})
        /\ Prepares(r, turnOf(r))
  BY Zenon DEF DeliverTurn
<1>6. /\ TallyOK' /\ tally'["interrupts"] = tally["interrupts"] /\ n \in 1..MaxCodexTurn
  <2>1. "turns" \in Tallies
    BY DEF Tallies
  <2>2. TallyOK' /\ tally'["interrupts"] = tally["interrupts"] /\ tally["turns"] < MaxCodexTurn
    BY <1>0, <1>i, <2>1, TalliedKeeps
  <2>3. tally["turns"] \in Nat
    BY <1>i, <2>1 DEF TallyOK
  <2> QED
    BY <2>2, <2>3, CodexAssumption
<1>n. n \in 0..MaxCodexTurn /\ n # CompactTurn
  BY <1>6 DEF CompactTurn
<1> DEFINE starting == [no |-> n, rt |-> r, at |-> "starting", by |-> "none"]
           refused == [no |-> n, rt |-> r, at |-> "running", by |-> "error"]
<1> HIDE DEF n
<1>p. \/ /\ client[r] # None /\ run' = starting /\ Send(client[r], n)
         /\ UNCHANGED <<client, process>>
      \/ client[r] # None /\ run' = turnOf(r) /\ Disposed(r)
      \/ /\ client[r] = None /\ (retiringChild[r] # None => process[retiringChild[r]] = "ended")
         /\ run' = turnOf(r) /\ UNCHANGED <<starts, client, process>>
      \/ /\ client[r] = None /\ run' = refused /\ UNCHANGED <<starts, client, process>>
  <2>1. \/ /\ client[r] # None /\ run' = [turnOf(r) EXCEPT !.at = "starting"]
           /\ Send(client[r], turnOf(r).no) /\ UNCHANGED <<client, process>>
        \/ client[r] # None /\ run' = turnOf(r) /\ Disposes(r) /\ starts' = starts
        \/ client[r] = None /\ ~Refused(r) /\ run' = turnOf(r) /\ UNCHANGED <<starts, client, process>>
        \/ /\ client[r] = None /\ run' = [turnOf(r) EXCEPT !.at = "running", !.by = "error"]
           /\ UNCHANGED <<starts, client, process>>
    <3> HIDE DEF turnOf
    <3> QED
      BY <1>1, Zenon DEF Prepares
  <2>2. /\ [turnOf(r) EXCEPT !.at = "starting"] = starting /\ turnOf(r).no = n
        /\ [turnOf(r) EXCEPT !.at = "running", !.by = "error"] = refused
    <3>1. turnOf(r).no = n /\ [turnOf(r) EXCEPT !.at = "starting"] = starting
      OBVIOUS
    <3>2. [turnOf(r) EXCEPT !.at = "running"]
            = [no |-> n, rt |-> r, at |-> "running", by |-> "none"]
      OBVIOUS
    <3>3. [[no |-> n, rt |-> r, at |-> "running", by |-> "none"] EXCEPT !.by = "error"] = refused
      OBVIOUS
    <3> QED
      BY <3>1, <3>2, <3>3
  <2>3. Disposes(r) /\ starts' = starts => Disposed(r)
    BY <1>0 DEF Disposes, Disposed
  <2>4. ~Refused(r) => (retiringChild[r] # None => process[retiringChild[r]] = "ended")
    BY DEF Refused
  <2> HIDE DEF turnOf, starting, refused
  <2> QED
    BY <2>1, <2>2, <2>3, <2>4, Zenon
\* A runtime with a client is the one that was found.
<1>7. r = current \/ (Found = None /\ client[r] = None)
  <2>1. Found \in {None, current} /\ r # None
    BY NoneIsNone DEF Found
  <2>2. client[r] # None => ~Unmade(r)
    BY <1>i DEF Unmade, ClientOK, ClientsOK
  <2> QED
    BY <1>1, <2>1, <2>2 DEF IsRuntimeFor
<1>8. client[r] # None => r = current /\ retiringChild[r] = None
  BY <1>7, <1>i DEF ClientOK
<1>2. /\ run'.no = n /\ run'.rt = r
      /\ run'.by = "none" \/ (run'.by = "error" /\ run'.at = "running" /\ client'[r] = None)
      /\ run'.at \in {"starting", "spawning", "running"}
      /\ run'.at = "running" <=> run'.by = "error"
      /\ run'.at = "spawning" => client'[r] = None
      /\ run' \in [no : 0..MaxCodexTurn, rt : CodexRt \cup {None},
                   at : {"none", "spawning", "handshake", "starting", "running"},
                   by : {"none", "own", "other", "stop", "error"}]
  <2>1. CASE run' = starting
    BY <1>n, <2>1
  <2>2. CASE run' = turnOf(r) /\ client'[r] = None
    BY <1>n, <2>2
  <2>3. CASE run' = refused /\ client'[r] = None
    BY <1>n, <2>3
  <2>4. Disposed(r) => client'[r] = None
    BY <1>i DEF Disposed, ClientsOK
  <2> HIDE DEF turnOf, starting, refused
  <2> QED
    BY <1>p, <2>1, <2>2, <2>3, <2>4
<1>3. /\ client' \in [CodexRt -> Child \cup {None}] /\ ChildrenOK'
      /\ \A s \in CodexRt : client'[s] # None => client'[s] = client[s]
      /\ \A s \in CodexRt : client'[s] # None =>
           process'[client'[s]] = "live" /\ of'[client'[s]] = s /\ retiringChild[s] = None
      /\ \A c \in Child : process'[c] = "none" => of'[c] = None /\ starts'[c] = <<>>
      /\ \A c \in Child : process[c] = "ended" => process'[c] = "ended"
      /\ \A c \in Child : process[c] # "none" <=> process'[c] # "none"
  <2> HIDE DEF turnOf, starting, refused
  <2>1. CASE client[r] # None /\ Send(client[r], n) /\ UNCHANGED <<client, process>>
    <3>1. client[r] \in Child /\ process[client[r]] = "live"
      BY <1>i, <2>1 DEF ClientOK, ClientsOK
    <3>2. /\ ChildrenOK'
          /\ starts'[client[r]] = Append(starts[client[r]], n)
          /\ \E i \in DOMAIN starts'[client[r]] : starts'[client[r]][i] = n
          /\ \A d \in Child : d # client[r] => starts'[d] = starts[d]
          /\ \A d \in Child : process'[d] = "none" => of'[d] = None /\ starts'[d] = <<>>
      BY <1>0, <1>n, <1>i, <2>1, <3>1, SendKeeps
    <3> QED
      BY <1>0, <1>i, <2>1, <3>2 DEF ClientOK, ClientsOK
  <2>2. CASE Disposed(r)
    BY <1>i, <2>2, DisposedKeeps
  <2>3. CASE UNCHANGED <<starts, client, process>>
    BY <1>0, <1>i, <2>3 DEF ClientOK, ClientsOK, ChildrenOK
  <2> QED
    BY <1>p, <2>1, <2>2, <2>3
<1>4. run'.at = "starting" =>
        /\ client'[r] = client[r] /\ client[r] # None
        /\ starts'[client[r]] = Append(starts[client[r]], n)
        /\ \E i \in DOMAIN starts'[client[r]] : starts'[client[r]][i] = n
  <2>1. turnOf(r).at # "starting" /\ refused.at # "starting"
    OBVIOUS
  <2> HIDE DEF turnOf, starting, refused
  <2> SUFFICES ASSUME run'.at = "starting"
               PROVE  /\ client'[r] = client[r] /\ client[r] # None
                      /\ starts'[client[r]] = Append(starts[client[r]], n)
                      /\ \E i \in DOMAIN starts'[client[r]] : starts'[client[r]][i] = n
    OBVIOUS
  <2>2. client[r] # None /\ Send(client[r], n) /\ UNCHANGED <<client, process>>
    BY <1>p, <2>1
  <2>3. client[r] \in Child /\ process[client[r]] = "live"
    BY <1>i, <2>2 DEF ClientOK, ClientsOK
  <2>4. /\ ChildrenOK'
        /\ starts'[client[r]] = Append(starts[client[r]], n)
        /\ \E i \in DOMAIN starts'[client[r]] : starts'[client[r]][i] = n
        /\ \A d \in Child : d # client[r] => starts'[d] = starts[d]
        /\ \A d \in Child : process'[d] = "none" => of'[d] = None /\ starts'[d] = <<>>
    BY <1>0, <1>n, <1>i, <2>2, <2>3, SendKeeps
  <2> QED
    BY <2>2, <2>4
<1>5. run'.at = "spawning" =>
        \/ client[r] # None
        \/ retiringChild[r] # None => process[retiringChild[r]] = "ended"
  <2>1. starting.at # "spawning" /\ refused.at # "spawning"
    OBVIOUS
  <2> HIDE DEF turnOf, starting, refused
  <2> QED
    BY <1>p, <2>1
<1> HIDE DEF turnOf, starting, refused
<1>ClientsOK. ClientsOK'
  BY <1>0, <1>1, <1>3, <1>i DEF ClientsOK
<1>ChildrenOK. ChildrenOK'
  BY <1>3
<1>RunOK. RunOK'
  BY <1>0, <1>2, <1>n, <1>r DEF RunOK
<1>TallyOK. TallyOK'
  BY <1>6
<1>ClientOK. ClientOK'
  BY <1>0, <1>3 DEF ClientOK
<1>WasMade. WasMade'
  BY <1>0, <1>3, <1>i DEF WasMade, ClientsOK
<1>ConnectingOK. ConnectingOK'
  BY <1>0, <1>2, <1>r DEF ConnectingOK
<1>AskedBefore. AskedBefore'
  BY <1>0, <1>1, <1>2 DEF AskedBefore
<1>HasClient. HasClient'
  BY <1>2 DEF HasClient
<1>HasStarted. HasStarted'
  <2>1. run'.by = "none" => run'.at # "running"
    BY <1>2
  <2> QED
    BY <1>2, <1>4, <2>1 DEF HasStarted
<1>Settled. Settled'
  BY <1>0, <1>2 DEF Settled
<1>InStep. InStep'
  <2> SUFFICES ASSUME ~overdue, NEW s \in CodexRt, Clean(s)', client'[s] # None
               PROVE  starts'[client'[s]] = Expected(s)'
    BY <1>0 DEF InStep
  <2>0. s = r
    BY <1>0, <1>1, <1>2 DEF Clean
  <2>3. run'.at = "starting" /\ run'.by = "none"
    BY <1>2, <2>0
  <2>1. Clean(r) /\ Expected(r) = <<>>
    BY <1>0, <1>4, <1>8, <2>0, <2>3 DEF Clean, Expected
  <2>2. starts[client[r]] = <<>>
    BY <1>i, <1>4, <2>1, <2>3 DEF InStep
  <2>4. Expected(s)' = <<n>>
    BY <1>2, <2>0, <2>3 DEF Expected
  <2> QED
    BY <1>4, <2>0, <2>2, <2>3, <2>4, AppendToNothing
<1>OwnCompletion. OwnCompletion'
  BY <1>2 DEF OwnCompletion
<1>Unstopped. Unstopped'
  <2> SUFFICES ASSUME tally["interrupts"] = 0
               PROVE  /\ asked = {} /\ cleared \subseteq Child
                      /\ \A c \in cleared : process'[c] # "none" /\ LeftBehind(c)'
                      /\ run'.at = "spawning" => \A c \in cleared : process'[c] = "ended"
    BY <1>0, <1>6 DEF Unstopped
  <2>1. /\ asked = {} /\ cleared \subseteq Child
        /\ \A c \in cleared : process[c] # "none" /\ LeftBehind(c)
    BY <1>i DEF Unstopped
  <2>3. \A c \in cleared : c # None /\ (process[c] = "ended" => process'[c] = "ended")
    BY <1>3, <2>1, NoneIsNone
  <2>4. r = current \/ current = None
    BY <1>7 DEF ListedOK, Found
  <2>5. \A c \in cleared : LeftBehind(c)'
    BY <1>0, <1>1, <2>1, <2>3, <2>4, NoneIsNone DEF LeftBehind
  <2>6. run'.at = "spawning" => (retiringChild[r] # None => process[retiringChild[r]] = "ended")
    BY <1>5, <1>8
  <2>7. run'.at = "spawning" => \A c \in cleared : process'[c] = "ended"
    BY <2>1, <2>3, <2>4, <2>6 DEF LeftBehind
  <2>8. \A c \in cleared : process'[c] # "none"
    BY <1>3, <2>1
  <2> QED
    BY <2>1, <2>5, <2>7, <2>8
<1> QED
  BY <1>ClientsOK, <1>ChildrenOK, <1>RunOK, <1>TallyOK, <1>ClientOK, <1>WasMade, <1>ConnectingOK,
     <1>AskedBefore, <1>HasClient, <1>HasStarted, <1>Settled, <1>InStep, <1>OwnCompletion,
     <1>Unstopped DEF CodexIInv

LEMMA ChildExitsKeeps ==
  ASSUME CodexIInv, NEW c \in Child, ChildExits(c)
  PROVE  CodexIInv'
<1>i. /\ ClientsOK /\ ChildrenOK /\ RunOK /\ TallyOK /\ ClientOK /\ WasMade /\ ConnectingOK
      /\ AskedBefore /\ HasClient /\ HasStarted /\ Settled /\ InStep /\ OwnCompletion
      /\ Unstopped
  BY DEF CodexIInv
<1>r. /\ run \in [no : 0..MaxCodexTurn, rt : CodexRt \cup {None},
                 at : {"none", "spawning", "handshake", "starting", "running"},
                 by : {"none", "own", "other", "stop", "error"}]
      /\ shrink \in [rt : CodexRt \cup {None}, at : {"none", "spawning", "handshake", "pending"}]
      /\ run.at # "none" => run.rt \in CodexRt /\ run.no # CompactTurn
      /\ shrink.at # "none" => shrink.rt \in CodexRt
      /\ run.at # "none" => shrink.at = "none"
  BY <1>i DEF RunOK
<1> DEFINE r == of[c]
           heard == client[r] = c
<1>1. /\ process[c] = "live" /\ Tallied("exits")
      /\ process' = [process EXCEPT ![c] = "ended"]
      /\ client' = IF heard THEN [client EXCEPT ![r] = None] ELSE client
      /\ run' = IF heard /\ run.rt = r /\ run.at # "none" /\ run.by = "none"
                THEN [run EXCEPT !.by = "error"] ELSE run
      /\ shrink' = IF heard /\ shrink.rt = r /\ shrink.at = "pending" THEN NoShrink ELSE shrink
      /\ UNCHANGED <<current, retiringChild, of, starts, asked, clearing, overdue, cleared, spilled>>
  BY DEF ChildExits, RunAfterExit, Completed, ShrinkAfter
<1>3. /\ process'[c] = "ended" /\ \A d \in Child : d # c => process'[d] = process[d]
      /\ process' \in [Child -> {"none", "live", "closing", "ended"}]
  BY <1>1, <1>i DEF ChildrenOK
<1>2. /\ run'.at = run.at /\ run'.rt = run.rt /\ run'.no = run.no
      /\ run'.by = run.by \/ (run'.by = "error" /\ run.by = "none" /\ heard /\ run.rt = r /\ run.at # "none")
      /\ heard /\ run.rt = r /\ run.at # "none" => run'.by # "none"
      /\ run'.by # run.by => run.at \notin {"none", "spawning"}
  BY <1>1, <1>r, <1>i, NoneIsNone DEF ConnectingOK
<1>4. /\ shrink' = shrink \/ (heard /\ shrink.rt = r /\ shrink.at = "pending" /\ shrink' = NoShrink)
      /\ shrink'.at # "none" => shrink' = shrink
      /\ shrink' \in [rt : CodexRt \cup {None}, at : {"none", "spawning", "handshake", "pending"}]
  BY <1>1, <1>r DEF NoShrink
<1>5. /\ client' \in [CodexRt -> Child \cup {None}]
      /\ \A s \in CodexRt : client'[s] # None => client'[s] = client[s] /\ client[s] # c
      /\ \A s \in CodexRt : client'[s] = None => client[s] = None \/ (heard /\ s = r)
      /\ \A s \in CodexRt : heard /\ s = r => client'[s] = None
  <2>1. \A s \in CodexRt : client[s] = c => s = r
    BY <1>i, NoneIsNone DEF ClientOK
  <2>2. client \in [CodexRt -> Child \cup {None}]
    BY <1>i DEF ClientsOK
  <2>3. CASE heard
    <3>1. \A s \in CodexRt : client'[s] = IF s = r THEN None ELSE client[s]
      BY <1>1, <2>2, <2>3
    <3> QED
      BY <1>1, <2>1, <2>2, <2>3, <3>1
  <2>4. CASE ~heard
    BY <1>1, <2>1, <2>2, <2>4
  <2> QED
    BY <2>3, <2>4
<1>6. TallyOK' /\ tally'["interrupts"] = tally["interrupts"]
  <2>1. "exits" \in Tallies
    BY DEF Tallies
  <2> QED
    BY <1>1, <1>i, <2>1, TalliedKeeps
<1>7. ChildrenOK'
  BY <1>1, <1>3, <1>i DEF ChildrenOK
<1> HIDE DEF r, heard
<1>ClientsOK. ClientsOK'
  BY <1>1, <1>5, <1>i DEF ClientsOK
<1>ChildrenOK. ChildrenOK'
  BY <1>7
<1>RunOK. RunOK'
  <2>1. run' \in [no : 0..MaxCodexTurn, rt : CodexRt \cup {None},
                 at : {"none", "spawning", "handshake", "starting", "running"},
                 by : {"none", "own", "other", "stop", "error"}]
    BY <1>1, <1>r
  <2> QED
    BY <1>2, <1>4, <1>r, <2>1 DEF RunOK, NoShrink
<1>TallyOK. TallyOK'
  BY <1>6
<1>ClientOK. ClientOK'
  <2>1. ASSUME NEW s \in CodexRt, client'[s] # None
        PROVE  process'[client'[s]] = "live" /\ of[client'[s]] = s /\ retiringChild[s] = None
    <3>1. client'[s] = client[s] /\ client[s] # c /\ client[s] \in Child
      BY <1>5, <1>i, <2>1 DEF ClientsOK
    <3> QED
      BY <1>3, <1>i, <2>1, <3>1 DEF ClientOK
  <2>2. \A d \in Child : process'[d] = "none" => of[d] = None /\ starts[d] = <<>>
    BY <1>3, <1>i DEF ClientOK
  <2> QED
    BY <1>1, <2>1, <2>2 DEF ClientOK
<1>WasMade. WasMade'
  BY <1>1, <1>3, <1>i DEF WasMade, ClientsOK
<1>ConnectingOK. ConnectingOK'
  BY <1>i, <1>r, <1>1, <1>2, <1>3, <1>4, <1>5 DEF ConnectingOK
<1>AskedBefore. AskedBefore'
  BY <1>i, <1>r, <1>1, <1>2, <1>3, <1>4, <1>5 DEF AskedBefore
<1>HasClient. HasClient'
  <2> SUFFICES ASSUME run.at = "running", run'.by = "none", run.no \notin spilled
               PROVE  client'[run.rt] # None
    BY <1>1, <1>2 DEF HasClient
  <2>1. run.by = "none" /\ ~(heard /\ run.rt = r)
    BY <1>2
  <2>2. client[run.rt] # None /\ run.rt \in CodexRt
    BY <1>i, <1>r, <2>1 DEF HasClient
  <2> QED
    BY <1>5, <2>1, <2>2
<1>HasStarted. HasStarted'
  BY <1>i, <1>r, <1>1, <1>2, <1>3, <1>4, <1>5 DEF HasStarted
<1>Settled. Settled'
  BY <1>i, <1>r, <1>1, <1>2, <1>3, <1>4, <1>5 DEF Settled
<1>InStep. InStep'
  <2> SUFFICES ASSUME ~overdue, NEW s \in CodexRt, Clean(s)', client'[s] # None
               PROVE  starts[client[s]] = Expected(s)'
    BY <1>1, <1>5 DEF InStep
  <2>1. ~(heard /\ s = r) /\ client[s] # None
    BY <1>5
  <2>2. Clean(s)
    BY <1>1, <1>2, <1>4, <2>1 DEF Clean, NoShrink
  <2>3. Expected(s)' = Expected(s)
    BY <1>1, <1>2, <1>4, <1>r, <2>1 DEF Expected, NoShrink
  <2> QED
    BY <1>i, <2>1, <2>2, <2>3 DEF InStep
<1>OwnCompletion. OwnCompletion'
  BY <1>i, <1>r, <1>1, <1>2, <1>3, <1>4, <1>5 DEF OwnCompletion
<1>Unstopped. Unstopped'
  <2> SUFFICES ASSUME tally["interrupts"] = 0
               PROVE  /\ asked = {} /\ cleared \subseteq Child
                      /\ \A d \in cleared : process'[d] # "none" /\ LeftBehind(d)'
                      /\ clearing # None => clearing = current
                      /\ run.at = "spawning" \/ shrink.at = "spawning" =>
                           \A d \in cleared : process'[d] = "ended"
    BY <1>1, <1>2, <1>4, <1>6 DEF Unstopped, NoShrink
  <2>1. /\ asked = {} /\ cleared \subseteq Child
        /\ \A d \in cleared : process[d] # "none" /\ LeftBehind(d)
        /\ clearing # None => clearing = current
        /\ run.at = "spawning" \/ shrink.at = "spawning" =>
             \A d \in cleared : process[d] = "ended"
    BY <1>i DEF Unstopped
  <2>2. \A d \in cleared : process[d] = "ended" => process'[d] = "ended"
    BY <1>3, <2>1
  <2>3. \A d \in cleared : process'[d] # "none" /\ LeftBehind(d)'
    BY <1>1, <1>3, <2>1, <2>2 DEF LeftBehind
  <2> QED
    BY <2>1, <2>2, <2>3
<1> QED
  BY <1>ClientsOK, <1>ChildrenOK, <1>RunOK, <1>TallyOK, <1>ClientOK, <1>WasMade, <1>ConnectingOK,
     <1>AskedBefore, <1>HasClient, <1>HasStarted, <1>Settled, <1>InStep, <1>OwnCompletion,
     <1>Unstopped DEF CodexIInv

LEMMA TailOfOneTurn == \A x : Tail(<<x>>) = <<>> /\ Head(<<x>>) = x
OBVIOUS

LEMMA TurnCompletedKeeps ==
  ASSUME CodexIInv, NEW c \in Child, TurnCompleted(c)
  PROVE  CodexIInv'
<1>i. /\ ClientsOK /\ ChildrenOK /\ RunOK /\ TallyOK /\ ClientOK /\ WasMade /\ ConnectingOK
      /\ AskedBefore /\ HasClient /\ HasStarted /\ Settled /\ InStep /\ OwnCompletion
      /\ Unstopped
  BY DEF CodexIInv
<1>r. /\ run \in [no : 0..MaxCodexTurn, rt : CodexRt \cup {None},
                 at : {"none", "spawning", "handshake", "starting", "running"},
                 by : {"none", "own", "other", "stop", "error"}]
      /\ shrink \in [rt : CodexRt \cup {None}, at : {"none", "spawning", "handshake", "pending"}]
      /\ run.at # "none" => run.rt \in CodexRt /\ run.no # CompactTurn
      /\ shrink.at # "none" => shrink.rt \in CodexRt
      /\ run.at # "none" => shrink.at = "none"
  BY <1>i DEF RunOK
<1> DEFINE r == of[c]
           heard == client[r] = c
           item == Head(starts[c])
           how == IF item = run.no THEN "own" ELSE "other"
           mine == heard /\ run.rt = r /\ run.at # "none"
           shrunk == heard /\ item = CompactTurn /\ shrink.rt = r /\ shrink.at = "pending"
<1>1. /\ process[c] = "live" /\ starts[c] # <<>>
      /\ starts' = [starts EXCEPT ![c] = Tail(starts[c])]
      /\ run' = IF mine /\ run.by = "none" THEN [run EXCEPT !.by = how] ELSE run
      /\ shrink' = IF shrunk THEN NoShrink ELSE shrink
      /\ UNCHANGED <<current, client, retiringChild, of, process, asked, clearing,
                     overdue, cleared, spilled, tally>>
  BY DEF TurnCompleted, history, Completed, ShrinkAfter
<1>2. /\ run'.at = run.at /\ run'.rt = run.rt /\ run'.no = run.no
      /\ run' = run \/ (mine /\ run.by = "none" /\ run'.by = how /\ run'.by \in {"own", "other"})
      /\ mine => run'.by # "none"
      /\ run'.by = "none" => run.by = "none"
      /\ run'.by \notin {"own", "other"} => run'.by = run.by
  BY <1>1, <1>r
<1>4. /\ shrink' = shrink \/ (shrunk /\ shrink' = NoShrink)
      /\ shrink'.at # "none" => shrink' = shrink /\ ~shrunk
      /\ shrink' \in [rt : CodexRt \cup {None}, at : {"none", "spawning", "handshake", "pending"}]
  BY <1>1, <1>r DEF NoShrink
<1>3. /\ ChildrenOK' /\ starts'[c] = Tail(starts[c])
      /\ \A d \in Child : d # c => starts'[d] = starts[d]
  <2>1. starts \in [Child -> Seq(0..MaxCodexTurn)] /\ Tail(starts[c]) \in Seq(0..MaxCodexTurn)
    BY <1>1, <1>i, HeadTailProperties DEF ChildrenOK
  <2>2. starts' \in [Child -> Seq(0..MaxCodexTurn)]
    BY <1>1, <2>1
  <2> QED
    BY <1>1, <1>i, <2>1, <2>2 DEF ChildrenOK
<1>5. \A s \in CodexRt : client[s] = c => s = r /\ heard
  BY <1>i, NoneIsNone DEF ClientOK
<1>6. \A s \in CodexRt : client[s] # None => client[s] \in Child
  BY <1>i DEF ClientsOK
\* A turn that this completion is heard for has been started, and not before.
<1>7. mine /\ run.by = "none" => run.at \in {"starting", "running"}
  <2> SUFFICES ASSUME mine, run.by = "none", run.at \in {"spawning", "handshake"} PROVE FALSE
    BY <1>r
  <2>1. client[run.rt] = c /\ run.rt \in CodexRt /\ client[run.rt] # None
    BY <1>r, NoneIsNone
  <2> QED
    BY <1>1, <1>i, <2>1 DEF ConnectingOK
<1> HIDE DEF r, heard, item, how, mine, shrunk
<1>ClientsOK. ClientsOK'
  BY <1>i, <1>r, <1>1, <1>2, <1>3, <1>4, NoneIsNone DEF ClientsOK
<1>ChildrenOK. ChildrenOK'
  BY <1>3
<1>RunOK. RunOK'
  <2>1. run' \in [no : 0..MaxCodexTurn, rt : CodexRt \cup {None},
                 at : {"none", "spawning", "handshake", "starting", "running"},
                 by : {"none", "own", "other", "stop", "error"}]
    BY <1>1, <1>2, <1>r DEF how
  <2> QED
    BY <1>2, <1>4, <1>r, <2>1 DEF RunOK, NoShrink
<1>TallyOK. TallyOK'
  BY <1>i, <1>r, <1>1, <1>2, <1>3, <1>4, NoneIsNone DEF TallyOK
<1>ClientOK. ClientOK'
  BY <1>1, <1>3, <1>i DEF ClientOK
<1>WasMade. WasMade'
  BY <1>i, <1>r, <1>1, <1>2, <1>3, <1>4, NoneIsNone DEF WasMade
<1>ConnectingOK. ConnectingOK'
  <2>1. run'.at = "spawning" => client[run.rt] = None
    BY <1>1, <1>2, <1>i DEF ConnectingOK
  <2>2. shrink'.at = "spawning" => client[shrink'.rt] = None
    BY <1>1, <1>4, <1>i DEF ConnectingOK
  <2>3. run'.at = "handshake" /\ client[run.rt] # None => starts'[client[run.rt]] = <<>>
    BY <1>1, <1>2, <1>3, <1>6, <1>i, <1>r DEF ConnectingOK
  <2>4. shrink'.at = "handshake" /\ client[shrink'.rt] # None => starts'[client[shrink'.rt]] = <<>>
    BY <1>1, <1>4, <1>3, <1>6, <1>i, <1>r DEF ConnectingOK
  <2> QED
    BY <1>1, <1>2, <2>1, <2>2, <2>3, <2>4 DEF ConnectingOK
<1>AskedBefore. AskedBefore'
  BY <1>i, <1>r, <1>1, <1>2, <1>3, <1>4, NoneIsNone DEF AskedBefore
<1>HasClient. HasClient'
  BY <1>i, <1>r, <1>1, <1>2, <1>3, <1>4, NoneIsNone DEF HasClient
<1>HasStarted. HasStarted'
  <2> SUFFICES ASSUME run.at \in {"starting", "running"}, run'.by = "none", client[run.rt] # None
               PROVE  \E i \in DOMAIN starts'[client[run.rt]] : starts'[client[run.rt]][i] = run.no
    BY <1>1, <1>2 DEF HasStarted
  <2>1. run.by = "none" /\ ~mine /\ run.rt \in CodexRt
    BY <1>2, <1>r
  <2>2. client[run.rt] # c /\ client[run.rt] \in Child
    BY <1>5, <1>6, <2>1 DEF mine
  <2> QED
    BY <1>3, <1>i, <2>1, <2>2 DEF HasStarted
<1>Settled. Settled'
  <2>1. run'.by \in {"own", "other"} => run.at \in {"starting", "running"}
    BY <1>2, <1>7, <1>i, <1>r DEF Settled
  <2> QED
    BY <1>1, <1>2, <1>i, <1>r, <2>1 DEF Settled
<1>InStep. InStep'
  <2> SUFFICES ASSUME ~overdue, NEW s \in CodexRt, Clean(s)', client[s] # None
               PROVE  starts'[client[s]] = Expected(s)'
    BY <1>1 DEF InStep
  <2>1. Clean(s)
    BY <1>1, <1>2, <1>4 DEF Clean
  <2>2. starts[client[s]] = Expected(s)
    BY <1>i, <2>1 DEF InStep
  <2>3. CASE client[s] # c
    <3>1. ~heard \/ s # r
      BY <2>3 DEF heard
    <3>2. Expected(s)' = Expected(s)
      BY <1>1, <1>2, <1>4, <1>r, <3>1 DEF Expected, NoShrink, mine, shrunk
    <3> QED
      BY <1>3, <1>6, <2>2, <2>3, <3>2
  <2>4. CASE client[s] = c
    <3>1. s = r /\ heard
      BY <1>5, <2>4
    <3>2. Expected(s) # <<>>
      BY <1>1, <2>2, <2>4
    <3>3. CASE run.at \in {"starting", "running"} /\ run.rt = s /\ run.by = "none"
      <4>1. mine
        BY <3>1, <3>3 DEF mine
      <4>2. Expected(s) = <<run.no>> /\ shrink.at = "none" /\ shrink'.at = "none"
        BY <1>4, <1>r, <3>3 DEF Expected, NoShrink
      <4>3. Expected(s)' = <<>>
        BY <1>2, <4>1, <4>2 DEF Expected
      <4> QED
        BY <1>3, <2>2, <2>4, <4>2, <4>3, TailOfOneTurn
    <3>4. CASE ~(run.at \in {"starting", "running"} /\ run.rt = s /\ run.by = "none")
      <4>1. shrink.at = "pending" /\ shrink.rt = s /\ Expected(s) = <<CompactTurn>>
        BY <3>2, <3>4 DEF Expected
      <4>2. item = CompactTurn
        BY <2>2, <2>4, <4>1, TailOfOneTurn DEF item
      <4>3. shrunk /\ run.at = "none"
        BY <1>r, <3>1, <4>1, <4>2 DEF shrunk
      <4>4. Expected(s)' = <<>>
        BY <1>1, <1>2, <4>3 DEF Expected, NoShrink
      <4> QED
        BY <1>3, <2>2, <2>4, <4>1, <4>4, TailOfOneTurn, ZenonT(40)
    <3> QED
      BY <3>3, <3>4
  <2> QED
    BY <2>3, <2>4
<1>OwnCompletion. OwnCompletion'
  <2> SUFFICES ASSUME run'.by = "other", run.no \notin spilled, ~overdue PROVE FALSE
    BY <1>1, <1>2 DEF OwnCompletion
  <2>1. run.by # "other"
    BY <1>i DEF OwnCompletion
  <2>2. mine /\ run.by = "none" /\ how = "other"
    BY <1>2, <2>1
  <2>3. run.at \in {"starting", "running"} /\ client[run.rt] = c /\ run.rt \in CodexRt /\ c # None
    BY <1>7, <1>r, <2>2, NoneIsNone DEF mine, heard
  <2>4. run.rt \notin asked
    BY <1>i, <2>2, <2>3 DEF AskedBefore
  <2>5. Clean(run.rt) /\ Expected(run.rt) = <<run.no>>
    BY <2>2, <2>3, <2>4 DEF Clean, Expected
  <2>6. starts[c] = <<run.no>>
    BY <1>i, <2>3, <2>5 DEF InStep
  <2> QED
    BY <2>2, <2>6, TailOfOneTurn DEF how, item
<1>Unstopped. Unstopped'
  BY <1>i, <1>1, <1>2, <1>4 DEF Unstopped, LeftBehind, NoShrink
<1> QED
  BY <1>ClientsOK, <1>ChildrenOK, <1>RunOK, <1>TallyOK, <1>ClientOK, <1>WasMade, <1>ConnectingOK,
     <1>AskedBefore, <1>HasClient, <1>HasStarted, <1>Settled, <1>InStep, <1>OwnCompletion,
     <1>Unstopped DEF CodexIInv

LEMMA CodexInitHolds == CodexInit => CodexIInv /\ ListedOK
<1> SUFFICES ASSUME CodexInit PROVE CodexIInv /\ ListedOK
  OBVIOUS
<1>1. ClientsOK /\ ClientOK /\ WasMade
  BY NoneIsNone DEF CodexInit, ClientsOK, ClientOK, WasMade
<1>2. ChildrenOK
  BY DEF CodexInit, ChildrenOK
<1>3. RunOK
  BY CodexAssumption DEF CodexInit, RunOK, NoRun, NoShrink
<1>4. TallyOK
  <2>1. DOMAIN Caps = Tallies
    BY DEF Caps, Tallies
  <2>2. tally \in [Tallies -> Nat] /\ tally["turns"] = 0
    BY <2>1 DEF CodexInit, Tallies
  <2> QED
    BY <2>2, CodexAssumption DEF TallyOK
<1>5. /\ ConnectingOK /\ AskedBefore /\ HasClient /\ HasStarted /\ Settled /\ InStep
      /\ OwnCompletion /\ Unstopped
  BY NoneIsNone DEF CodexInit, NoRun, NoShrink, ConnectingOK, AskedBefore, HasClient, HasStarted,
     Settled, InStep, OwnCompletion, Unstopped
<1>6. ListedOK
  BY DEF CodexInit, ListedOK
<1> QED
  BY <1>1, <1>2, <1>3, <1>4, <1>5, <1>6 DEF CodexIInv

LEMMA ListedKeeps ==
  ASSUME CodexIInv, ListedOK, [CodexNext]_codexVars
  PROVE  ListedOK'
<1>i. ClientsOK /\ TallyOK /\ (tally["interrupts"] = 0 => asked = {})
  BY DEF CodexIInv, Unstopped
<1> SUFFICES ASSUME tally'["interrupts"] = 0, current' # None
             PROVE  listed'
  BY DEF ListedOK
<1>1. \/ tally' = tally
      \/ \E k \in Tallies : Tallied(k)
  <2>1. ASSUME NEW c \in Child, TurnCompleted(c) \/ ChildEnds(c) \/ ChildExits(c)
        PROVE  tally' = tally \/ Tallied("exits")
    BY <2>1 DEF TurnCompleted, ChildEnds, ChildExits, history
  <2>2. ASSUME NEW r \in CodexRt, InterruptAnswered(r)
        PROVE  tally' = tally
    BY <2>2 DEF InterruptAnswered, history
  <2>3. ASSUME \/ Spawned \/ Handshaken \/ Started \/ RequestFails \/ TurnReturns \/ BackOnDuty
               \/ CompactConnects \/ CompactStarts \/ CompactFails \/ ResetConfirmed \/ ResetGivesUp
               \/ UNCHANGED codexVars
        PROVE  tally' = tally
    BY <2>3 DEF Spawned, Handshaken, Started, RequestFails, TurnReturns, BackOnDuty, CompactConnects,
       CompactStarts, CompactFails, ResetConfirmed, ResetGivesUp, codexVars, history
  <2>4. ASSUME \/ DeliverTurn \/ TurnGivenUp \/ InterruptNow \/ InterruptAsks \/ Change \/ Compact
               \/ ResetSession
        PROVE  \/ Tallied("turns") \/ Tallied("exits") \/ Tallied("interrupts")
               \/ Tallied("changes") \/ Tallied("compactions") \/ Tallied("clears")
    BY <2>4 DEF DeliverTurn, TurnGivenUp, InterruptNow, InterruptAsks, Change, Compact, ResetSession
  <2>5. Tallies = {"turns", "interrupts", "compactions", "clears", "changes", "exits"}
    BY DEF Tallies
  <2> QED
    BY <2>1, <2>2, <2>3, <2>4, <2>5 DEF CodexNext
<1>2. tally["interrupts"] = 0 /\ asked = {} /\ ~Tallied("interrupts")
  <2>1. tally["interrupts"] = 0
    BY <1>i, <1>1, TalliedKeeps
  <2>2. "interrupts" \in Tallies
    BY DEF Tallies
  <2>3. Tallied("interrupts") => tally'["interrupts"] = 1
    BY <1>i, <2>1, <2>2, TalliedKeeps
  <2> QED
    BY <1>i, <2>1, <2>3
<1>3. \/ (listed => listed') /\ current' \in {current, None}
      \/ DeliverTurn
      \/ listed' = listed /\ current' = IF listed THEN current ELSE None
  <2>1. ASSUME NEW c \in Child, TurnCompleted(c) \/ ChildEnds(c) \/ ChildExits(c)
        PROVE  listed' = listed /\ current' = current
    BY <2>1 DEF TurnCompleted, ChildEnds, ChildExits
  <2>2. ASSUME \/ Spawned \/ Handshaken \/ Started \/ TurnReturns \/ Change
               \/ CompactConnects \/ CompactStarts \/ CompactFails \/ ResetGivesUp
               \/ Compact \/ UNCHANGED codexVars
        PROVE  listed' = listed /\ current' = current
    BY <2>2 DEF Spawned, Handshaken, Started, TurnReturns, Change, CompactConnects,
       CompactStarts, CompactFails, ResetGivesUp, Compact, codexVars
  <2>3. ASSUME RequestFails \/ TurnGivenUp \/ ResetSession
        PROVE  (listed => listed') /\ current' = current
    BY <2>3 DEF RequestFails, TurnGivenUp, ResetSession, RetireRuntime
  <2>4. ~InterruptNow /\ ~InterruptAsks /\ \A r \in CodexRt : ~InterruptAnswered(r)
    BY <1>2 DEF InterruptNow, InterruptAsks, InterruptAnswered
  <2>5. ~ResetConfirmed
    BY DEF ResetConfirmed
  <2>6. BackOnDuty => listed' = listed /\ current' = IF listed THEN current ELSE None
    BY DEF BackOnDuty
  <2> QED
    BY <2>1, <2>2, <2>3, <2>4, <2>5, <2>6 DEF CodexNext
<1>4. CASE DeliverTurn
  <2>1. listed' = (listed \/ Found = None)
    BY <1>4 DEF DeliverTurn
  <2>2. Found = None \/ current # None
    BY DEF Found
  <2> QED
    BY <1>2, <2>1, <2>2 DEF ListedOK
<1> QED
  BY <1>2, <1>3, <1>4 DEF ListedOK

LEMMA CodexInductive ==
  ASSUME CodexIInv, ListedOK, [CodexNext]_codexVars
  PROVE  CodexIInv'
BY DeliverTurnKeeps, SpawnedKeeps, HandshakenKeeps, StartedKeeps, RequestFailsKeeps,
   TurnReturnsKeeps, TurnCompletedKeeps, ChildEndsKeeps, ChildExitsKeeps, InterruptNowKeeps,
   InterruptAsksKeeps, InterruptAnsweredKeeps, CompactTurnKeeps, CompactConnectsKeeps,
   CompactStartsKeeps, CompactFailsKeeps, ResetSessionKeeps, ResetConfirmedKeeps,
   ResetGivesUpKeeps, TurnGivenUpKeeps, ChangeKeeps, BackOnDutyKeeps, CodexStutters DEF CodexNext

\* A turn that did not begin beside a turn/interrupt has a client of its own and
\* its native turn before it, and is completed by that one, unless a compaction
\* was given up before it.
THEOREM ServedByClientCorrect == CodexSpec => []ServedByItsClient
<1>1. CodexIInv => ServedByItsClient
  <2> SUFFICES ASSUME CodexIInv, run.no \notin spilled
               PROVE  /\ run.at = "running" /\ run.by = "none" =>
                           /\ client[run.rt] # None /\ process[client[run.rt]] = "live"
                           /\ \E i \in DOMAIN starts[client[run.rt]] : starts[client[run.rt]][i] = run.no
                      /\ run.by = "other" => overdue
    BY DEF ServedByItsClient
  <2>1. run.by = "other" => overdue
    BY DEF CodexIInv, OwnCompletion
  <2>2. ASSUME run.at = "running", run.by = "none"
        PROVE  /\ client[run.rt] # None /\ process[client[run.rt]] = "live"
               /\ \E i \in DOMAIN starts[client[run.rt]] : starts[client[run.rt]][i] = run.no
    <3>1. client[run.rt] # None /\ run.rt \in CodexRt
      BY <2>2 DEF CodexIInv, HasClient, RunOK
    <3> QED
      BY <2>2, <3>1 DEF CodexIInv, HasStarted, ClientOK
  <2> QED
    BY <2>1, <2>2
<1> QED
  BY <1>1, CodexInitHolds, CodexInductive, ListedKeeps, PTL DEF CodexSpec

\* As long as nobody has stopped the agent, a child is connected only when every
\* child that a context reset asked to exit is known to have exited.
THEOREM ResetChildCorrect == CodexSpec => ResetChildIsAlone
<1> DEFINE Alone == Connected /\ tally.interrupts = 0 => \A c \in cleared : process[c] = "ended"
<1>1. CodexIInv /\ [CodexNext]_codexVars => [Alone]_codexVars
  <2> SUFFICES ASSUME CodexIInv, CodexNext, Connected, tally["interrupts"] = 0
               PROVE  \A c \in cleared : process[c] = "ended"
    OBVIOUS
  <2>1. PICK c \in Child : process[c] = "none" /\ process'[c] = "live"
    BY DEF Connected
  <2>2. CASE Spawned \/ CompactConnects
    BY <2>2 DEF CodexIInv, Unstopped, Spawned, CompactConnects
  <2>3. CASE ~ (Spawned \/ CompactConnects)
    <3>1. \/ process' = process
          \/ \E d \in Child : process' = [process EXCEPT ![d] = "ended"]
          \/ \E d : process' = [e \in Child |-> IF e = d /\ process[e] = "live" THEN "closing"
                                                ELSE process[e]]
      <4>1. ASSUME \/ Handshaken \/ Started \/ TurnReturns \/ InterruptAsks \/ Change \/ BackOnDuty
                   \/ Compact \/ CompactStarts \/ ResetConfirmed \/ ResetGivesUp
                   \/ \E d \in Child : TurnCompleted(d)
            PROVE  process' = process
        BY <4>1 DEF Handshaken, Started, TurnReturns, TurnCompleted, InterruptAsks, Change,
           BackOnDuty, Compact, CompactStarts, ResetConfirmed, ResetGivesUp, children
      <4>2. ASSUME NEW d \in Child, ChildEnds(d) \/ ChildExits(d)
            PROVE  process' = [process EXCEPT ![d] = "ended"]
        BY <4>2 DEF ChildEnds, ChildExits
      <4>3. ASSUME NEW r, Disposes(r)
            PROVE  \E d : process' = [e \in Child |-> IF e = d /\ process[e] = "live" THEN "closing"
                                                      ELSE process[e]]
        BY <4>3 DEF Disposes
      <4>4. ASSUME RequestFails \/ TurnGivenUp \/ InterruptNow \/ ResetSession
                   \/ \E r \in CodexRt : InterruptAnswered(r)
            PROVE  \E r : Disposes(r)
        BY <4>4 DEF RequestFails, TurnGivenUp, InterruptNow, ResetSession, InterruptAnswered,
           RetireRuntime
      <4>6. ASSUME DeliverTurn
            PROVE  process' = process \/ \E r : Disposes(r)
        BY <4>6 DEF DeliverTurn, Prepares
      <4>5. ASSUME CompactFails
            PROVE  \/ process' = process
                   \/ \E d : process' = [e \in Child |-> IF e = d /\ process[e] = "live"
                                                         THEN "closing" ELSE process[e]]
        BY <4>5, <4>3 DEF CompactFails
      <4> QED
        BY <2>3, <4>1, <4>2, <4>3, <4>4, <4>5, <4>6 DEF CodexNext
    <3>2. process'[c] # "live"
      BY <2>1, <3>1 DEF CodexIInv, ChildrenOK
    <3> QED
      BY <2>1, <3>2
  <2> QED
    BY <2>2, <2>3
<1> QED
  BY <1>1, CodexInitHolds, CodexInductive, ListedKeeps, PTL DEF CodexSpec, ResetChildIsAlone
=============================================================================
