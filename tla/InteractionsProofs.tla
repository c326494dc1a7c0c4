-------------------------- MODULE InteractionsProofs --------------------------
(***************************************************************************)
(* Theorems about Interactions, for any contents a harness may raise and   *)
(* any number of requests, crashes and kills.                              *)
(***************************************************************************)
EXTENDS Interactions, FiniteSetTheorems, TLAPS

\* Native ids are handed out in order.
Numbered == \E n \in 0..MaxRaise : Raised = 1..n

\* An open card is bound to a request that asks for what the card shows.
BoundOK ==
  \A c \in Request : card[c] \in Open =>
    c \in Raised /\ native[c] \in Raised /\ asked[native[c]] = asked[c]

\* No request has the answer of a card nobody has answered.
UnusedOK == \A c \in Request : card[c] = "pending" => \A r \in Request : given[r] # c

\* An answer goes to a request that exists, from a card that exists.
GivenOK == \A r \in Request : given[r] # NoOne => r \in Raised /\ given[r] \in Raised

\* Only a live turn of a running daemon waits for a human.
WaitOK == waiting # {} => power = "up" /\ turn = "live"

\* The inductive invariant.
InteractionsIInv ==
  /\ InteractionsTypeOK
  /\ Numbered /\ BoundOK /\ UnusedOK /\ GivenOK /\ WaitOK
  /\ ApprovalsAreExact /\ EveryRequestAnswerable

-----------------------------------------------------------------------------
USE InteractionsAssumption
    DEF InteractionsTypeOK, CardsOK, AgentOK, Request, NoOne, Open, Nothing

\* Requests with the same key have the same content: interactionKey compares
\* everything a human is shown.
LEMMA KeyIsContent ==
  ASSUME NEW k \in Content, NEW l \in Content, interactionKey(k) = interactionKey(l)
  PROVE  k = l
BY DEF interactionKey

\* The requests that exist are counted by the last of them, and the next one
\* is new.
LEMMA CountRaised ==
  ASSUME InteractionsTypeOK, Numbered
  PROVE  /\ Cardinality(Raised) \in 0..MaxRaise
         /\ \A r \in Request : r \in Raised <=> r <= Cardinality(Raised)
<1>1. PICK n \in 0..MaxRaise : Raised = 1..n
  BY DEF Numbered
<1>2. Cardinality(Raised) = n
  BY <1>1, FS_Interval
<1> QED
  BY <1>1, <1>2

\* A step that leaves requests and answers alone, and only closes cards, keeps
\* what binds the cards to the requests.
CardsClose ==
  /\ UNCHANGED <<asked, native, said, given>>
  /\ card' \in [Request -> {"none", "acked", "orphaned"} \cup Open]
  /\ \A c \in Request : card'[c] = card[c] \/ card'[c] = "orphaned"

LEMMA ClosingKeeps ==
  ASSUME InteractionsIInv, CardsClose
  PROVE  (Numbered /\ BoundOK /\ UnusedOK /\ GivenOK /\ ApprovalsAreExact)'
<1>1. Raised' = Raised
  BY DEF CardsClose, Raised
<1>2. Numbered'
  BY <1>1 DEF Numbered, InteractionsIInv
<1>3. BoundOK' /\ UnusedOK' /\ GivenOK'
  BY <1>1 DEF BoundOK, UnusedOK, GivenOK, InteractionsIInv, CardsClose
<1>4. ApprovalsAreExact'
  BY <1>1 DEF ApprovalsAreExact, InteractionsIInv, CardsClose
<1> QED
  BY <1>2, <1>3, <1>4

\* What is orphaned is closed.
LEMMA OrphanedCloses ==
  ASSUME InteractionsTypeOK, NEW cs
  PROVE  /\ Orphaned(cs) \in [Request -> {"none", "acked", "orphaned"} \cup Open]
         /\ \A c \in Request : Orphaned(cs)[c] = card[c] \/ Orphaned(cs)[c] = "orphaned"
         /\ \A c \in Request : c \in cs => Orphaned(cs)[c] \notin Open
BY DEF Orphaned

-----------------------------------------------------------------------------
\* Every initial state satisfies the invariant.
LEMMA InteractionsInitIInv == InteractionsInit => InteractionsIInv
<1> SUFFICES ASSUME InteractionsInit PROVE InteractionsIInv
  OBVIOUS
<1>1. FlagsOK
  BY Zenon DEF InteractionsInit, FlagsOK
<1>2. Raised = {}
  BY DEF InteractionsInit, Raised
<1>3. CardsOK /\ AgentOK
  BY <1>2 DEF InteractionsInit
<1>4. Numbered
  <2>1. Raised = 1..0 /\ 0 \in 0..MaxRaise
    BY <1>2
  <2> QED
    BY <2>1 DEF Numbered
<1>5. BoundOK /\ UnusedOK /\ GivenOK /\ WaitOK
  BY DEF InteractionsInit, BoundOK, UnusedOK, GivenOK, WaitOK
<1>6. ApprovalsAreExact /\ EveryRequestAnswerable
  BY <1>2 DEF InteractionsInit, ApprovalsAreExact, EveryRequestAnswerable
<1> QED
  BY <1>1, <1>3, <1>4, <1>5, <1>6 DEF InteractionsIInv

\* The flags of a turn stay Boolean.
LEMMA FlagsKept ==
  ASSUME InteractionsIInv, [InteractionsNext]_interactionsVars
  PROVE  FlagsOK'
BY Zenon DEF InteractionsIInv, FlagsOK, InteractionsNext, interactionsVars, cards, theTurn,
  daemonC, Raise, Withdraw, Answer, TurnStarts, Works, Completes, Finalizes, killMember,
  reviveMember, Crash, Stop, BootIdle, BootFinalizes, BootRetries, BootHolds, Blocked

\* The agent, its turn and the daemon stay well typed.
LEMMA AgentKept ==
  ASSUME InteractionsIInv, [InteractionsNext]_interactionsVars
  PROVE  AgentOK'
<1> USE DEF InteractionsIInv, interactionsVars, cards, theTurn, daemonC
<1>1. Cardinality(Raised) \in 0..MaxRaise
  BY CountRaised
<1>2. ASSUME NEW k \in Content, Raise(k) PROVE AgentOK'
  BY <1>2 DEF Raise, createInteraction, Running
<1>3. ASSUME NEW r \in Request, Withdraw(r) \/ Answer(r) PROVE AgentOK'
  BY <1>3 DEF Withdraw, Answer, Running
<1>4. CASE TurnStarts \/ Works \/ Completes \/ Finalizes
  BY <1>1, <1>4 DEF TurnStarts, Works, Completes, Finalizes
<1>5. CASE killMember \/ reviveMember
  BY <1>5 DEF killMember, reviveMember
<1>6. CASE Crash \/ Stop
  BY <1>6 DEF Crash, Stop
<1>7. CASE BootIdle \/ BootFinalizes \/ BootRetries \/ BootHolds
  BY <1>7 DEF BootIdle, BootFinalizes, BootRetries, BootHolds, Blocked, NeverBegan
<1>8. CASE UNCHANGED interactionsVars
  BY <1>8
<1> QED
  BY <1>2, <1>3, <1>4, <1>5, <1>6, <1>7, <1>8 DEF InteractionsNext

\* What a step must keep beside the types of the agent and the flags.
CardSide ==
  /\ CardsOK /\ Numbered /\ BoundOK /\ UnusedOK /\ GivenOK /\ WaitOK
  /\ ApprovalsAreExact /\ EveryRequestAnswerable

\* A raise binds the card it finds, or the one it makes, to the new request.
LEMMA RaiseKeeps ==
  ASSUME InteractionsIInv, NEW k \in Content, Raise(k)
  PROVE  CardSide'
<1> DEFINE n == Cardinality(Raised)
           r == n + 1
           match == {c \in OpenCards : interactionKey(asked[c]) = interactionKey(k)}
<1>1. /\ n \in 0..MaxRaise
      /\ \A q \in Request : q \in Raised <=> q <= n
  BY CountRaised DEF InteractionsIInv
<1>2. n < MaxRaise
  BY DEF Raise
<1> HIDE DEF n
<1>3. r \in Request /\ r \notin Raised
  BY <1>1, <1>2
<1>4. /\ power = "up" /\ turn = "live" /\ ~fenced
      /\ \A w \in waiting : asked[w] # k
      /\ asked' = [asked EXCEPT ![r] = k]
      /\ UNCHANGED <<turn, fenced, killed, power>>
  BY Zenon DEF Raise, n, theTurn, daemonC
<1>5. Raised' = Raised \cup {r}
  BY <1>3, <1>4 DEF Raised, InteractionsIInv
<1>6. Numbered'
  <2>1. Raised' = 1..(n + 1) /\ n + 1 \in 0..MaxRaise
    BY <1>1, <1>2, <1>3, <1>5 DEF Raised
  <2> QED
    BY <2>1 DEF Numbered
<1>7. \A q \in Request : q # r => asked'[q] = asked[q]
  BY <1>3, <1>4 DEF InteractionsIInv
<1>8. asked'[r] = k
  BY <1>3, <1>4 DEF InteractionsIInv
<1>13. \A q \in Raised : q \in Request /\ q # r /\ q \in Raised' /\ asked'[q] = asked[q]
  BY <1>3, <1>5, <1>7 DEF Raised
<1>9. \A c \in match : c \in Request /\ c \in Raised /\ c # r /\ card[c] \in Open /\ asked[c] = k
  BY <1>3, KeyIsContent DEF OpenCards, Raised, InteractionsIInv
<1>10. ASSUME NEW others \in [Request -> {"none", "acked", "orphaned"} \cup Open],
              \A c \in Request : \/ others[c] = card[c]
                                 \/ others[c] = "orphaned" /\ card[c] # "pending",
              createInteraction(r, others)
       PROVE  CardSide'
  <2>1. /\ card' = [others EXCEPT ![r] = "pending"]
        /\ native' = [native EXCEPT ![r] = r]
        /\ waiting' = waiting \cup {r}
        /\ UNCHANGED <<said, given>>
    BY <1>10 DEF createInteraction
  <2>2. CardsOK'
    BY <1>3, <1>4, <1>5, <1>10, <2>1 DEF InteractionsIInv
  <2>3. \A c \in Request : c # r => card'[c] = card[c] \/ card'[c] \notin Open
    BY <1>10, <2>1
  <2>4. card'[r] = "pending" /\ native'[r] = r
    BY <1>3, <1>10, <2>1 DEF InteractionsIInv
  <2>5. \A c \in Request : c # r => native'[c] = native[c]
    BY <1>3, <2>1 DEF InteractionsIInv
  <2>6. BoundOK'
    <3>1. ASSUME NEW d \in Request, d # r, card'[d] \in Open
          PROVE  d \in Raised /\ native'[d] \in Raised /\ asked[native'[d]] = asked[d]
      BY <2>3, <2>5, <3>1 DEF InteractionsIInv, BoundOK
    <3> QED
      BY <1>3, <1>5, <1>13, <2>4, <3>1 DEF BoundOK
  <2>7. \A q \in Request : given[q] # r
    BY <1>3 DEF InteractionsIInv, GivenOK
  <2>8. UnusedOK' /\ GivenOK'
    BY <1>3, <1>5, <2>1, <2>3, <2>7 DEF InteractionsIInv, UnusedOK, GivenOK
  <2>9. WaitOK'
    BY <1>4 DEF WaitOK
  <2>10. ApprovalsAreExact'
    <3>1. ASSUME NEW q \in Raised', given'[q] # NoOne
          PROVE  q \in Raised /\ given'[q] = given[q] /\ given[q] \in Raised /\ said' = said
      BY <1>3, <1>5, <1>13, <2>1, <3>1 DEF InteractionsIInv, GivenOK
    <3> SUFFICES ASSUME NEW q \in Raised', given'[q] # NoOne
                 PROVE  /\ asked'[given'[q]] = asked'[q]
                        /\ asked'[q].kind = "approval" =>
                             /\ q <= said'[given'[q]]
                             /\ \A other \in Raised' : given'[other] = given'[q] => other = q
      BY DEF ApprovalsAreExact
    <3>2. q \in Raised /\ given'[q] = given[q] /\ given[q] \in Raised
      BY <3>1
    <3>3. asked'[given'[q]] = asked'[q] /\ asked'[q] = asked[q]
      BY <1>13, <3>2 DEF InteractionsIInv, ApprovalsAreExact
    <3>4. \A other \in Raised' : given'[other] = given'[q] => other \in Raised
      BY <3>1, <3>2 DEF Raised
    <3> QED
      BY <2>1, <3>2, <3>3, <3>4 DEF InteractionsIInv, ApprovalsAreExact
  <2>11. EveryRequestAnswerable'
    <3> SUFFICES ASSUME ~killed, NEW w \in waiting'
                 PROVE  \E c \in Raised' : /\ card'[c] = "pending" /\ native'[c] = w
                                           /\ asked'[c] = asked'[w]
      BY <1>4 DEF EveryRequestAnswerable
    <3>1. CASE w = r
      BY <3>1, <1>5, <2>4
    <3>2. CASE w \in waiting
      <4>1. PICK c \in Raised : card[c] = "pending" /\ native[c] = w /\ asked[c] = asked[w]
        BY <1>4, <3>2 DEF InteractionsIInv, EveryRequestAnswerable
      <4>2. c \in Request /\ w \in Request /\ c # r /\ w # r
        BY <1>3, <3>2 DEF InteractionsIInv, Raised
      <4> QED
        BY <1>5, <1>7, <1>10, <2>1, <2>5, <4>1, <4>2
    <3> QED
      BY <2>1, <3>1, <3>2
  <2> QED
    BY <1>6, <2>2, <2>6, <2>8, <2>9, <2>10, <2>11 DEF CardSide
<1>11. ASSUME NEW c \in match, card[c] = "pending",
              native' = [native EXCEPT ![c] = r], waiting' = waiting \cup {r},
              UNCHANGED <<card, said, given, mstate>>
       PROVE  CardSide'
  <2>1. CardsOK'
    BY <1>3, <1>4, <1>5, <1>11 DEF InteractionsIInv
  <2>2. native'[c] = r /\ \A d \in Request : d # c => native'[d] = native[d]
    BY <1>9, <1>11 DEF InteractionsIInv
  <2>3. BoundOK'
    <3>1. ASSUME NEW d \in Request, d # c, card'[d] \in Open
          PROVE  d \in Raised /\ native'[d] \in Raised /\ asked[native'[d]] = asked[d]
      BY <1>11, <2>2, <3>1 DEF InteractionsIInv, BoundOK
    <3> QED
      BY <1>5, <1>8, <1>9, <1>13, <2>2, <3>1 DEF BoundOK
  <2>4. UnusedOK' /\ GivenOK'
    BY <1>5, <1>11 DEF InteractionsIInv, UnusedOK, GivenOK
  <2>5. WaitOK'
    BY <1>4 DEF WaitOK
  <2>6. ApprovalsAreExact'
    BY <1>3, <1>5, <1>7, <1>8, <1>11 DEF InteractionsIInv, ApprovalsAreExact, GivenOK, Raised
  <2>7. EveryRequestAnswerable'
    <3> SUFFICES ASSUME ~killed, NEW w \in waiting'
                 PROVE  \E d \in Raised' : /\ card'[d] = "pending" /\ native'[d] = w
                                           /\ asked'[d] = asked'[w]
      BY <1>4 DEF EveryRequestAnswerable
    <3>1. CASE w = r
      BY <3>1, <1>5, <1>7, <1>8, <1>9, <1>11, <2>2
    <3>2. CASE w \in waiting
      <4>1. PICK d \in Raised : card[d] = "pending" /\ native[d] = w /\ asked[d] = asked[w]
        BY <1>4, <3>2 DEF InteractionsIInv, EveryRequestAnswerable
      <4>2. d \in Request /\ w \in Request /\ d # r /\ w # r
        BY <1>3, <3>2 DEF InteractionsIInv, Raised
      <4>3. d # c
        BY <1>4, <1>9, <3>2, <4>1
      <4> QED
        BY <1>5, <1>7, <1>11, <2>2, <4>1, <4>2, <4>3
    <3> QED
      BY <1>11, <3>1, <3>2
  <2> QED
    BY <1>6, <2>1, <2>3, <2>4, <2>5, <2>6, <2>7 DEF CardSide
<1>12. ASSUME NEW c \in match, card[c] = "answered", Replays(k),
              native' = [native EXCEPT ![c] = r],
              card' = [card EXCEPT ![c] = "acked"],
              given' = [given EXCEPT ![r] = c],
              UNCHANGED <<said, waiting>>
       PROVE  CardSide'
  <2>1. CardsOK'
    BY <1>3, <1>4, <1>5, <1>9, <1>12 DEF InteractionsIInv
  <2>2. \A d \in Request : d # c => native'[d] = native[d] /\ card'[d] = card[d]
    BY <1>9, <1>12 DEF InteractionsIInv
  <2>3. card'[c] = "acked"
    BY <1>9, <1>12 DEF InteractionsIInv
  <2>4. given'[r] = c /\ \A q \in Request : q # r => given'[q] = given[q]
    BY <1>3, <1>12 DEF InteractionsIInv
  <2>5. BoundOK'
    <3>1. ASSUME NEW d \in Request, card'[d] \in Open
          PROVE  d \in Raised /\ native'[d] \in Raised /\ asked[native'[d]] = asked[d]
      BY <2>2, <2>3, <3>1 DEF InteractionsIInv, BoundOK
    <3> QED
      BY <1>13, <3>1 DEF BoundOK
  <2>6. UnusedOK' /\ GivenOK'
    <3>1. UnusedOK'
      <4> SUFFICES ASSUME NEW d \in Request, card'[d] = "pending", NEW q \in Request
                   PROVE  given'[q] # d
        BY DEF UnusedOK
      <4>1. d # c /\ card[d] = "pending"
        BY <2>2, <2>3
      <4> QED
        BY <2>4, <4>1 DEF InteractionsIInv, UnusedOK
    <3>2. GivenOK'
      <4>1. given'[r] \in Raised' /\ r \in Raised'
        BY <1>5, <1>9, <2>4
      <4>2. ASSUME NEW q \in Request, q # r, given'[q] # NoOne
            PROVE  q \in Raised' /\ given'[q] \in Raised'
        BY <1>5, <2>4, <4>2 DEF InteractionsIInv, GivenOK
      <4> QED
        BY <4>1, <4>2 DEF GivenOK
    <3> QED
      BY <3>1, <3>2
  <2>7. WaitOK'
    BY <1>4 DEF WaitOK
  <2>8. k.kind = "ask"
    BY <1>12 DEF Replays
  <2>9. ApprovalsAreExact'
    <3>1. asked'[c] = k /\ c # r
      BY <1>7, <1>9
    <3> SUFFICES ASSUME NEW q \in Raised', given'[q] # NoOne
                 PROVE  /\ asked'[given'[q]] = asked'[q]
                        /\ asked'[q].kind = "approval" =>
                             /\ q <= said'[given'[q]]
                             /\ \A other \in Raised' : given'[other] = given'[q] => other = q
      BY DEF ApprovalsAreExact
    <3>2. CASE q = r
      BY <1>8, <2>4, <2>8, <3>1, <3>2
    <3>3. CASE q # r
      <4>1. q \in Raised /\ q \in Request /\ given'[q] = given[q] /\ given[q] \in Raised
        BY <1>5, <2>4, <3>3 DEF Raised, InteractionsIInv, GivenOK
      <4>2. asked'[q] = asked[q] /\ asked'[given[q]] = asked[given[q]]
        BY <1>3, <1>7, <3>3, <4>1 DEF Raised
      <4>3. asked'[q].kind = "approval" => given'[q] # c
        <5>1. asked[given[q]] = asked[q] /\ asked[c] = k
          BY <1>9, <3>3, <4>1 DEF InteractionsIInv, ApprovalsAreExact
        <5> QED
          BY <2>8, <4>1, <4>2, <5>1
      <4> QED
        BY <1>5, <1>12, <2>4, <4>1, <4>2, <4>3, ZenonT(40) DEF InteractionsIInv, ApprovalsAreExact, Raised
    <3> QED
      BY <3>2, <3>3
  <2>10. EveryRequestAnswerable'
    <3> SUFFICES ASSUME ~killed, NEW w \in waiting
                 PROVE  \E d \in Raised' : /\ card'[d] = "pending" /\ native'[d] = w
                                           /\ asked'[d] = asked'[w]
      BY <1>4, <1>12 DEF EveryRequestAnswerable
    <3>1. PICK d \in Raised : card[d] = "pending" /\ native[d] = w /\ asked[d] = asked[w]
      BY <1>4 DEF InteractionsIInv, EveryRequestAnswerable
    <3>2. d \in Request /\ w \in Request /\ d # r /\ w # r
      BY <1>3 DEF InteractionsIInv, Raised
    <3> QED
      BY <1>5, <1>7, <1>12, <2>2, <3>1, <3>2
  <2> QED
    BY <1>6, <2>1, <2>5, <2>6, <2>7, <2>9, <2>10 DEF CardSide
<1> QED
  <2>1. CASE match = {} /\ createInteraction(r, card)
    BY <1>10, <2>1 DEF InteractionsIInv
  <2>2. ASSUME NEW c \in match, card[c] = "answered", createInteraction(r, Orphaned({c}))
        PROVE  CardSide'
    <3>1. /\ Orphaned({c}) \in [Request -> {"none", "acked", "orphaned"} \cup Open]
          /\ \A d \in Request : \/ Orphaned({c})[d] = card[d]
                                \/ Orphaned({c})[d] = "orphaned" /\ card[d] # "pending"
      BY <1>9, <2>2 DEF Orphaned, InteractionsIInv
    <3> QED
      BY <1>10, <2>2, <3>1
  <2>3. \/ match = {} /\ createInteraction(r, card)
        \/ \E c \in match :
             \/ /\ card[c] = "pending"
                /\ native' = [native EXCEPT ![c] = r]
                /\ waiting' = waiting \cup {r}
                /\ UNCHANGED <<card, said, given, mstate>>
             \/ /\ card[c] = "answered" /\ Replays(k)
                /\ native' = [native EXCEPT ![c] = r]
                /\ card' = [card EXCEPT ![c] = "acked"]
                /\ given' = [given EXCEPT ![r] = c]
                /\ UNCHANGED <<said, waiting>>
             \/ card[c] = "answered" /\ createInteraction(r, Orphaned({c}))
    BY Zenon DEF Raise, n
  <2> HIDE DEF match
  <2> QED
    BY <1>11, <1>12, <2>1, <2>2, <2>3

\* A human answers a pending card; the request it is bound to may get the answer.
Answered(c, outcome) ==
  /\ card[c] = "pending"
  /\ card' = [card EXCEPT ![c] = outcome]
  /\ said' = [said EXCEPT ![c] = Cardinality(Raised)]
  /\ given' = given \/ given' = [given EXCEPT ![native[c]] = c]
  /\ waiting' \subseteq waiting
  /\ UNCHANGED <<asked, native>>

LEMMA AnsweredKeeps ==
  ASSUME InteractionsIInv, NEW c \in Request, NEW outcome \in {"acked", "answered"},
         Answered(c, outcome)
  PROVE  (CardsOK /\ Numbered /\ BoundOK /\ UnusedOK /\ GivenOK /\ ApprovalsAreExact)'
<1> DEFINE n == Cardinality(Raised)
           r == native[c]
<1>1. /\ n \in 0..MaxRaise
      /\ \A q \in Request : q \in Raised <=> q <= n
  BY CountRaised DEF InteractionsIInv
<1>2. /\ said' = [said EXCEPT ![c] = n]
      /\ given' = given \/ given' = [given EXCEPT ![r] = c]
  BY Zenon DEF Answered
<1> HIDE DEF n
<1>3. Raised' = Raised /\ c \in Raised /\ r \in Raised /\ asked[r] = asked[c]
  BY DEF Raised, InteractionsIInv, BoundOK, Answered
<1>4. \A d \in Raised : d \in Request /\ d <= n
  BY <1>1 DEF Raised
<1>5. said'[c] = n /\ \A d \in Request : d # c => said'[d] = said[d]
  BY <1>2 DEF InteractionsIInv
<1>6. card'[c] = outcome /\ \A d \in Request : d # c => card'[d] = card[d]
  BY DEF InteractionsIInv, Answered
<1>7. \A q \in Request : given[q] # c
  BY DEF InteractionsIInv, UnusedOK, Answered
<1>8. \A q \in Request : given'[q] = given[q] \/ (q = r /\ given'[q] = c)
  BY <1>2, <1>3, <1>4 DEF InteractionsIInv
<1>9. Numbered'
  BY <1>3 DEF InteractionsIInv, Numbered
<1>10. CardsOK'
  <2>1. given' \in [Request -> Request \cup {NoOne}]
    BY <1>2, <1>3, <1>4 DEF InteractionsIInv
  <2>2. said' \in [Request -> 0..MaxRaise]
    BY <1>1, <1>2 DEF InteractionsIInv
  <2> QED
    BY <1>3, <2>1, <2>2 DEF InteractionsIInv, Answered
<1>11. BoundOK'
  <2>1. UNCHANGED <<asked, native>> /\ card[c] = "pending"
    BY DEF Answered
  <2>2. \A d \in Request : card'[d] \in Open => card[d] \in Open
    BY <1>6, <2>1
  <2> QED
    BY <1>3, <2>1, <2>2 DEF InteractionsIInv, BoundOK
<1>12. UnusedOK' /\ GivenOK'
  <2>1. \A d \in Request : card'[d] = "pending" => d # c /\ card[d] = "pending"
    BY <1>6
  <2>2. UnusedOK'
    BY <1>8, <2>1 DEF InteractionsIInv, UnusedOK
  <2>3. GivenOK'
    BY <1>3, <1>8 DEF InteractionsIInv, GivenOK
  <2> QED
    BY <2>2, <2>3
<1>13. ApprovalsAreExact'
  <2> SUFFICES ASSUME NEW q \in Raised, given'[q] # NoOne
               PROVE  /\ asked[given'[q]] = asked[q]
                      /\ asked[q].kind = "approval" =>
                           /\ q <= said'[given'[q]]
                           /\ \A other \in Raised : given'[other] = given'[q] => other = q
    BY <1>3 DEF ApprovalsAreExact, Answered
  <2>1. CASE given'[q] = c
    BY <1>3, <1>4, <1>5, <1>7, <1>8, <2>1
  <2>2. CASE given'[q] # c
    <3>1. given'[q] = given[q] /\ given[q] \in Request
      BY <1>4, <1>8, <2>2 DEF InteractionsIInv
    <3>2. \A other \in Raised : given'[other] = given[q] => given[other] = given[q]
      BY <1>4, <1>8, <2>2, <3>1
    <3> QED
      BY <1>5, <2>2, <3>1, <3>2 DEF InteractionsIInv, ApprovalsAreExact
  <2> QED
    BY <2>1, <2>2
<1> QED
  BY <1>9, <1>10, <1>11, <1>12, <1>13

\* An answer reaches the request its card is bound to, or stays on the card.
LEMMA AnswerKeeps ==
  ASSUME InteractionsIInv, NEW c \in Request, Answer(c)
  PROVE  CardSide'
<1>1. /\ power = "up" /\ card[c] = "pending"
      /\ UNCHANGED <<asked, native, turn, fenced, killed, power>>
  BY Zenon DEF Answer, theTurn, daemonC
<1>2. Raised' = Raised /\ \A d \in Raised : d \in Request
  BY <1>1 DEF Raised
<1>3. ASSUME NEW outcome \in {"acked", "answered"}, Answered(c, outcome),
             ~killed, ~fenced, NEW w \in waiting', w # native[c] \/ native[c] \notin waiting
      PROVE  \E d \in Raised : card'[d] = "pending" /\ native[d] = w /\ asked[d] = asked[w]
  <2>1. PICK d \in Raised : card[d] = "pending" /\ native[d] = w /\ asked[d] = asked[w]
    BY <1>1, <1>3 DEF InteractionsIInv, EveryRequestAnswerable, Answered
  <2>2. d # c
    BY <1>3, <2>1 DEF Answered
  <2> QED
    BY <1>2, <1>3, <2>1, <2>2 DEF Answered, InteractionsIInv
<1>4. CASE native[c] \in waiting /\ ~fenced
  <2>1. Answered(c, "acked") /\ waiting' = waiting \ {native[c]}
    BY <1>4 DEF Answer, Answered
  <2>2. EveryRequestAnswerable'
    BY <1>1, <1>2, <1>3, <2>1 DEF EveryRequestAnswerable
  <2> QED
    BY <1>1, <2>1, <2>2, AnsweredKeeps DEF CardSide, WaitOK, InteractionsIInv
<1>5. CASE ~(native[c] \in waiting /\ ~fenced)
  <2>1. Answered(c, "answered") /\ waiting' = waiting
    BY <1>5 DEF Answer, Answered
  <2>2. EveryRequestAnswerable'
    BY <1>1, <1>2, <1>3, <1>5, <2>1 DEF EveryRequestAnswerable
  <2> QED
    BY <1>1, <2>1, <2>2, AnsweredKeeps DEF CardSide, WaitOK, InteractionsIInv
<1> QED
  BY <1>4, <1>5

\* A step after which nobody waits keeps the rest if the cards only close.
LEMMA SilenceKeeps ==
  ASSUME InteractionsIInv, CardsClose, waiting' = {}
  PROVE  CardSide'
BY ClosingKeeps
   DEF CardSide, CardsClose, WaitOK, EveryRequestAnswerable, InteractionsIInv, Raised

\* A step that changes neither cards nor requests, and lets nobody new wait.
LEMMA QuietKeeps ==
  ASSUME InteractionsIInv, UNCHANGED <<asked, card, native, said, given, power>>,
         waiting' \subseteq waiting,
         waiting' # {} => turn' = "live" /\ fenced' = fenced /\ killed' = killed
  PROVE  CardSide'
<1>1. CardsClose
  BY DEF CardsClose, InteractionsIInv
<1>2. CardsOK' /\ WaitOK' /\ EveryRequestAnswerable'
  BY DEF WaitOK, EveryRequestAnswerable, InteractionsIInv, Raised
<1> QED
  BY <1>1, <1>2, ClosingKeeps DEF CardSide

\* A crash may cut an answer in two: persisted, and handed over or not.
LEMMA CrashKeeps ==
  ASSUME InteractionsIInv, Crash
  PROVE  CardSide'
<1>1. waiting' = {} /\ UNCHANGED <<asked, native>>
  BY DEF Crash
<1>2. CASE UNCHANGED <<card, said, given>>
  BY <1>1, <1>2, SilenceKeeps DEF CardsClose, InteractionsIInv
<1>3. ASSUME NEW c \in Raised, card[c] = "pending",
             card' = [card EXCEPT ![c] = "answered"],
             said' = [said EXCEPT ![c] = Cardinality(Raised)],
             given' \in IF native[c] \in waiting /\ ~fenced
                        THEN {given, [given EXCEPT ![native[c]] = c]} ELSE {given}
      PROVE  CardSide'
  <2>1. c \in Request /\ Answered(c, "answered")
    BY <1>1, <1>3 DEF Answered, Raised
  <2> QED
    BY <1>1, <2>1, AnsweredKeeps DEF CardSide, WaitOK, EveryRequestAnswerable
<1> QED
  BY <1>2, <1>3 DEF Crash

-----------------------------------------------------------------------------
\* Every step keeps the invariant.
LEMMA InteractionsNextIInv ==
  InteractionsIInv /\ [InteractionsNext]_interactionsVars => InteractionsIInv'
<1> SUFFICES ASSUME InteractionsIInv, [InteractionsNext]_interactionsVars
             PROVE  CardSide'
  BY AgentKept, FlagsKept DEF InteractionsIInv, CardSide
<1> USE DEF cards, theTurn, daemonC
<1>1. ASSUME NEW k \in Content, Raise(k) PROVE CardSide'
  BY <1>1, RaiseKeeps
<1>2. ASSUME NEW r \in Request, Withdraw(r) PROVE CardSide'
  BY <1>2, QuietKeeps DEF Withdraw, InteractionsIInv, WaitOK
<1>3. ASSUME NEW r \in Request, Answer(r) PROVE CardSide'
  BY <1>3, AnswerKeeps
<1>4. CASE TurnStarts \/ Works
  BY <1>4, QuietKeeps DEF TurnStarts, Works, InteractionsIInv, WaitOK
<1>5. CASE Completes
  BY <1>5, QuietKeeps DEF Completes
<1>6. CASE Finalizes
  BY <1>6, OrphanedCloses, SilenceKeeps, SMTT(30) DEF Finalizes, CardsClose, InteractionsIInv
<1>7. CASE killMember
  <2>1. CardsClose /\ waiting' = waiting
    BY <1>7, OrphanedCloses DEF killMember, CardsClose, InteractionsIInv
  <2>2. WaitOK' /\ CardsOK'
    BY <1>7, <2>1 DEF killMember, WaitOK, InteractionsIInv, CardsClose, Raised
  <2>3. EveryRequestAnswerable'
    BY <1>7, <2>1 DEF killMember, WaitOK, EveryRequestAnswerable, InteractionsIInv
  <2> QED
    BY <2>1, <2>2, <2>3, ClosingKeeps DEF CardSide
<1>8. CASE reviveMember
  <2>1. WaitOK' /\ CardsOK'
    BY <1>8 DEF reviveMember, WaitOK, InteractionsIInv, Raised
  <2>2. EveryRequestAnswerable'
    BY <1>8 DEF reviveMember, WaitOK, EveryRequestAnswerable, InteractionsIInv
  <2>3. CardsClose
    BY <1>8 DEF reviveMember, CardsClose, InteractionsIInv
  <2> QED
    BY <2>1, <2>2, <2>3, ClosingKeeps DEF CardSide
<1>9. CASE Crash
  BY <1>9, CrashKeeps
<1>10. CASE Stop
  BY <1>10, OrphanedCloses, SilenceKeeps DEF Stop, CardsClose, InteractionsIInv
<1>11. CASE BootIdle \/ BootFinalizes \/ BootRetries \/ BootHolds
  <2>1. waiting' = {}
    BY <1>11 DEF BootIdle, BootFinalizes, BootRetries, BootHolds, InteractionsIInv, WaitOK
  <2>2. card' = card \/ card' = Orphaned(Request)
    BY <1>11 DEF BootIdle, BootFinalizes, BootRetries, BootHolds
  <2>3. UNCHANGED <<asked, native, said, given>>
    BY <1>11 DEF BootIdle, BootFinalizes, BootRetries, BootHolds
  <2>4. CardsClose
    BY <2>2, <2>3, OrphanedCloses DEF CardsClose, InteractionsIInv
  <2> QED
    BY <2>1, <2>4, SilenceKeeps
<1>12. CASE UNCHANGED interactionsVars
  BY <1>12, QuietKeeps DEF interactionsVars, InteractionsIInv, WaitOK
<1> QED
  BY <1>1, <1>2, <1>3, <1>4, <1>5, <1>6, <1>7, <1>8, <1>9, <1>10, <1>11, <1>12
     DEF InteractionsNext

LEMMA InteractionsInvariant == InteractionsSpec => []InteractionsIInv
BY InteractionsInitIInv, InteractionsNextIInv, PTL DEF InteractionsSpec

\* Every reachable state is well typed: a card is bound to a request that
\* exists, and no row is handed out more than three times.
THEOREM InteractionsTypeCorrect == InteractionsSpec => []InteractionsTypeOK
<1>1. InteractionsIInv => InteractionsTypeOK
  BY DEF InteractionsIInv
<1> QED
  BY <1>1, InteractionsInvariant, PTL

\* An approval is used once, for exactly what was asked, and never for a
\* request raised after the human spoke, whatever crashes, retries and rebinds
\* fall between (handleInteractionRaised, deliverAnswer).
THEOREM ApprovalsCorrect == InteractionsSpec => []ApprovalsAreExact
<1>1. InteractionsIInv => ApprovalsAreExact
  BY DEF InteractionsIInv
<1> QED
  BY <1>1, InteractionsInvariant, PTL

\* A turn that waits for a human can be answered.
THEOREM AnswerableCorrect == InteractionsSpec => []EveryRequestAnswerable
<1>1. InteractionsIInv => EveryRequestAnswerable
  BY DEF InteractionsIInv
<1> QED
  BY <1>1, InteractionsInvariant, PTL
=============================================================================
