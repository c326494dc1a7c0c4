----------------------------- MODULE Interactions -----------------------------
(***************************************************************************)
(* The human cards of one agent: a harness that needs an answer (ask) or a *)
(* permission (approval) raises a request, handleInteractionRaised() posts *)
(* a card and persists an interaction, a human answers it, and             *)
(* deliverAnswer() hands the answer to the request the card is bound to.   *)
(* A request lives in the memory of one harness process, a card in the     *)
(* store: what a crash, a retry at boot, a kill or the end of the turn     *)
(* does to the two of them is what this module is about.                   *)
(*                                                                         *)
(* Every adapter settles respondInteraction() within the tick it is called *)
(* in, so an answer that no crash cuts is one step.  The turn itself is    *)
(* TurnLifecycle's; here it is one row of one agent.                       *)
(***************************************************************************)
EXTENDS Integers, FiniteSets

CONSTANTS
  Content,      \* what a harness may raise: records [kind, prompt, detail]
  MaxRaise,     \* bound: requests raised
  MaxCrash,     \* bound: crashes and stops of the daemon
  MaxKill       \* bound: kills

ASSUME InteractionsAssumption ==
  /\ Content \subseteq [kind : {"ask", "approval"}, prompt : Nat, detail : Nat]
  /\ MaxRaise \in Nat /\ MaxCrash \in Nat /\ MaxKill \in Nat

Request == 1..MaxRaise      \* native ids, never reused
NoOne   == 0

VARIABLES
  asked,        \* the content of each request; the first Len(asked) exist
  card,         \* state of the interaction a request created, if it created one
  native,       \* native_id of that interaction
  said,         \* how many requests existed when a human answered the card
  given,        \* the card whose answer a request got
  waiting,      \* requests the harness process still waits on
  mstate,       \* the agent's state
  turn,         \* its turn: none, live, done (run.completed journaled), cut (by a crash)
  began,        \* has the run of the turn a journal entry or process evidence?
  attempts,     \* attempt_count of its row
  leftover,     \* orphanAfter: cards still open are orphaned after the turn
  fenced,       \* has a revive replaced the session of the turn?
  killed,       \* was the agent killed under the turn?
  since,        \* how many requests existed when its row was first handed out
  power, crashes, kills

cards   == <<asked, card, native, said, given, waiting>>
theTurn == <<turn, began, attempts, leftover, fenced, killed, since>>
daemonC == <<power, crashes, kills>>
interactionsVars == <<cards, mstate, theTurn, daemonC>>

Raised == {r \in Request : asked[r].kind # "none"}
Open   == {"pending", "answered"}
OpenCards == {c \in Raised : card[c] \in Open}
Nothing == [kind |-> "none", prompt |-> 0, detail |-> 0]

CardsOK ==
  /\ asked \in [Request -> Content \cup {Nothing}]
  /\ card \in [Request -> {"none", "acked", "orphaned"} \cup Open]
  /\ native \in [Request -> Request \cup {NoOne}]
  /\ said \in [Request -> 0..MaxRaise] /\ given \in [Request -> Request \cup {NoOne}]
  /\ waiting \subseteq Raised
AgentOK ==
  /\ mstate \in {"idle", "running", "awaiting_input", "dead"}
  /\ turn \in {"none", "live", "done", "cut"}
  /\ attempts \in 0..3 /\ since \in 0..MaxRaise
  /\ power \in {"up", "down"} /\ crashes \in 0..MaxCrash /\ kills \in 0..MaxKill
FlagsOK ==
  began \in BOOLEAN /\ leftover \in BOOLEAN /\ fenced \in BOOLEAN /\ killed \in BOOLEAN
InteractionsTypeOK == CardsOK /\ AgentOK /\ FlagsOK

InteractionsInit ==
  /\ asked = [r \in Request |-> Nothing] /\ card = [r \in Request |-> "none"]
  /\ native = [r \in Request |-> NoOne] /\ said = [r \in Request |-> 0]
  /\ given = [r \in Request |-> NoOne] /\ waiting = {}
  /\ mstate = "idle" /\ turn = "none" /\ began = FALSE /\ attempts = 0
  /\ leftover = FALSE /\ fenced = FALSE /\ killed = FALSE /\ since = 0
  /\ power = "up" /\ crashes = 0 /\ kills = 0

------------------------------------------------------------------------------
\* Cards.

\* The semantic identity of a request: a retried harness raises it again under
\* another native id.
interactionKeyNoDetail(k) == <<k.kind, k.prompt>>
interactionKey(k) == <<k.kind, k.prompt, k.detail>>

Orphaned(cs) == [c \in Request |-> IF c \in cs /\ card[c] \in Open THEN "orphaned" ELSE card[c]]

\* Only the answer of an ask is handed to a request raised after it.
ReplaysAll(k) == TRUE
Replays(k) == k.kind = "ask"

Running == IF mstate = "awaiting_input" THEN "running" ELSE mstate

\* createInteraction: a card of its own, and the agent awaits input whatever it was.
createInteraction(r, others) ==
  /\ card' = [others EXCEPT ![r] = "pending"]
  /\ native' = [native EXCEPT ![r] = r]
  /\ waiting' = waiting \cup {r}
  /\ mstate' = "awaiting_input"
  /\ UNCHANGED <<said, given>>

\* The journal entry of the raise, then handleInteractionRaised.  Two requests
\* of the same content at once share a card, which interactionKey accepts: the
\* harness of the model waits for the first one before it repeats itself.
Raise(k) ==
  /\ power = "up" /\ turn = "live" /\ ~fenced
  /\ Cardinality(Raised) < MaxRaise
  /\ \A w \in waiting : asked[w] # k
  /\ LET r == Cardinality(Raised) + 1
         match == {c \in OpenCards : interactionKey(asked[c]) = interactionKey(k)}
     IN /\ asked' = [asked EXCEPT ![r] = k]
        /\ \/ match = {} /\ createInteraction(r, card)
           \/ \E c \in match :
                /\ \A other \in match : c <= other
                /\ \/ /\ card[c] = "pending"
                      /\ native' = [native EXCEPT ![c] = r]
                      /\ waiting' = waiting \cup {r}
                      /\ UNCHANGED <<card, said, given, mstate>>
                   \/ /\ card[c] = "answered" /\ Replays(k)
                      /\ native' = [native EXCEPT ![c] = r]
                      /\ card' = [card EXCEPT ![c] = "acked"]
                      /\ given' = [given EXCEPT ![r] = c]
                      /\ mstate' = Running
                      /\ UNCHANGED <<said, waiting>>
                   \/ /\ card[c] = "answered" /\ ~Replays(k)
                      /\ createInteraction(r, Orphaned({c}))
  /\ began' = TRUE
  /\ UNCHANGED <<turn, attempts, leftover, fenced, killed, since, daemonC>>

\* The harness gives a request up (its abort signal): the daemon is not told.
Withdraw(r) ==
  /\ power = "up" /\ r \in waiting
  /\ waiting' = waiting \ {r}
  /\ UNCHANGED <<asked, card, native, said, given, mstate, theTurn, daemonC>>

\* answerInteraction with deliverAnswer: persisted first, then handed to the
\* adapter, which knows the native id or refuses; refused, it stays answered.
Answer(c) ==
  /\ power = "up" /\ card[c] = "pending"
  /\ said' = [said EXCEPT ![c] = Cardinality(Raised)]
  /\ IF native[c] \in waiting /\ ~fenced
     THEN /\ card' = [card EXCEPT ![c] = "acked"]
          /\ given' = [given EXCEPT ![native[c]] = c]
          /\ waiting' = waiting \ {native[c]}
          /\ mstate' = Running
     ELSE /\ card' = [card EXCEPT ![c] = "answered"]
          /\ UNCHANGED <<given, waiting, mstate>>
  /\ UNCHANGED <<asked, native, theTurn, daemonC>>

------------------------------------------------------------------------------
\* The turn.

TurnStarts ==
  /\ power = "up" /\ turn = "none" /\ mstate = "idle"
  /\ turn' = "live" /\ began' = FALSE /\ attempts' = 1 /\ mstate' = "running"
  /\ leftover' = FALSE /\ fenced' = FALSE /\ killed' = FALSE
  /\ since' = Cardinality(Raised)
  /\ UNCHANGED <<cards, daemonC>>

\* onStarted, or the first event that raises nothing.
Works ==
  /\ power = "up" /\ turn = "live" /\ ~fenced /\ ~began
  /\ began' = TRUE
  /\ UNCHANGED <<cards, mstate, turn, attempts, leftover, fenced, killed, since, daemonC>>

\* The adapter cancels what is pending and run.completed is journaled.
Completes ==
  /\ power = "up" /\ turn = "live" /\ ~fenced
  /\ turn' = "done" /\ waiting' = {}
  /\ UNCHANGED <<asked, card, native, said, given, mstate, began, attempts, leftover,
                 fenced, killed, since, daemonC>>

\* finalizeTurn, and the tail of retryTurn: a turn that was not retried at boot
\* leaves its open cards as they are.  Nothing of a fenced turn is journaled.
Finalizes ==
  /\ power = "up" /\ (turn = "done" \/ (turn = "live" /\ fenced))
  /\ turn' = "none" /\ waiting' = {}
  /\ mstate' \in IF mstate = "dead" THEN {"dead"} ELSE {"idle", "dead"}
  /\ card' = IF leftover THEN Orphaned(Request) ELSE card
  /\ UNCHANGED <<asked, native, said, given, began, attempts, leftover, fenced,
                 killed, since, daemonC>>

\* killMember: the interrupt is a request, the turn ends by itself.
killMember ==
  /\ power = "up" /\ mstate # "dead" /\ kills < MaxKill
  /\ card' = Orphaned(Request)
  /\ mstate' = "dead" /\ killed' = (turn # "none")
  /\ kills' = kills + 1
  /\ UNCHANGED <<asked, native, said, given, waiting, turn, began, attempts, leftover,
                 fenced, since, power, crashes>>

\* reviveMember: another session takes the place of the one the turn runs in.
reviveMember ==
  /\ power = "up" /\ mstate = "dead"
  /\ mstate' = "idle" /\ fenced' = (turn # "none")
  /\ UNCHANGED <<cards, turn, began, attempts, leftover, killed, since, daemonC>>

------------------------------------------------------------------------------
\* Crash, stop and boot.

\* The daemon dies with the harness; an answer may be persisted and not handed
\* over, or handed over and not acknowledged.
Crash ==
  /\ power = "up" /\ crashes < MaxCrash
  /\ \/ UNCHANGED <<card, said, given>>
     \/ \E c \in Raised :
          /\ card[c] = "pending"
          /\ card' = [card EXCEPT ![c] = "answered"]
          /\ said' = [said EXCEPT ![c] = Cardinality(Raised)]
          /\ given' \in IF native[c] \in waiting /\ ~fenced
                        THEN {given, [given EXCEPT ![native[c]] = c]} ELSE {given}
  /\ power' = "down" /\ crashes' = crashes + 1 /\ waiting' = {}
  /\ turn' = IF turn = "live" THEN "cut" ELSE turn
  /\ UNCHANGED <<asked, native, mstate, began, attempts, leftover, fenced, killed, since, kills>>

\* close(): the turn is settled as interrupted and its row queued again; the
\* tail of retryTurn may or may not run before the store is closed.
Stop ==
  /\ power = "up" /\ crashes < MaxCrash
  /\ power' = "down" /\ crashes' = crashes + 1 /\ waiting' = {} /\ turn' = "none"
  /\ card' \in IF leftover /\ turn # "none" THEN {card, Orphaned(Request)} ELSE {card}
  /\ mstate' = IF mstate = "dead" THEN "dead" ELSE "idle"
  /\ UNCHANGED <<asked, native, said, given, began, attempts, leftover, fenced, killed,
                 since, kills>>

\* reconcile finds no row in custody.
BootIdle ==
  /\ power = "down" /\ turn = "none"
  /\ power' = "up"
  /\ UNCHANGED <<cards, mstate, theTurn, crashes, kills>>

\* ... a journal that is complete: the turn is finalized from it.
BootFinalizes ==
  /\ power = "down" /\ turn = "done"
  /\ power' = "up" /\ turn' = "none" /\ card' = Orphaned(Request)
  /\ mstate' \in IF mstate = "dead" THEN {"dead"} ELSE {"idle", "dead"}
  /\ UNCHANGED <<asked, native, said, given, waiting, began, attempts, leftover, fenced,
                 killed, since, crashes, kills>>

\* The branches of reconcile that hand an interrupted row out again.
Blocked    == OpenCards # {} /\ attempts <= 2
NeverBegan == ~began /\ attempts <= 1

\* retryTurn: the row and its run again, in a new process.
BootRetries ==
  /\ power = "down" /\ turn = "cut" /\ (Blocked \/ NeverBegan) /\ mstate # "dead"
  /\ power' = "up" /\ turn' = "live" /\ attempts' = attempts + 1
  /\ leftover' = Blocked /\ fenced' = FALSE /\ killed' = FALSE /\ mstate' = "running"
  /\ UNCHANGED <<cards, began, since, crashes, kills>>

\* holdAmbiguousTurn: neither, or the process may be alive, or the agent cannot
\* take a turn.
BootHolds ==
  /\ power = "down" /\ turn = "cut"
  /\ (Blocked \/ NeverBegan) /\ mstate # "dead" => began
  /\ power' = "up" /\ turn' = "none" /\ card' = Orphaned(Request)
  /\ mstate' = IF mstate = "dead" THEN "dead" ELSE "idle"
  /\ UNCHANGED <<asked, native, said, given, waiting, began, attempts, leftover, fenced,
                 killed, since, crashes, kills>>

InteractionsNext ==
  \/ \E k \in Content : Raise(k)
  \/ \E r \in Request : Withdraw(r) \/ Answer(r)
  \/ TurnStarts \/ Works \/ Completes \/ Finalizes
  \/ killMember \/ reviveMember
  \/ Crash \/ Stop \/ BootIdle \/ BootFinalizes \/ BootRetries \/ BootHolds

InteractionsSpec == InteractionsInit /\ [][InteractionsNext]_interactionsVars

------------------------------------------------------------------------------
\* Properties.

\* The answer to an approval is used once, for the very thing that was asked,
\* and never for a request the human who answered had not been shown: not
\* after a crash, a retry or a rebound card (handleInteractionRaised,
\* interactionKey, deliverAnswer).
ApprovalsAreExact ==
  \A r \in Raised : given[r] # NoOne =>
    /\ asked[given[r]] = asked[r]
    /\ asked[r].kind = "approval" =>
         /\ r <= said[given[r]]
         /\ \A other \in Raised : given[other] = given[r] => other = r

\* While an agent's turn waits for a human there is a card a human can answer
\* and whose answer reaches that request, through crashes and retries; a
\* request without one blocks its turn for good (handleInteractionRaised).
\* Once the agent has been killed the turn is on its way out.
EveryRequestAnswerable ==
  power = "up" /\ ~fenced /\ ~killed =>
    \A r \in waiting : \E c \in Raised :
      /\ card[c] = "pending" /\ native[c] = r /\ asked[c] = asked[r]

\* "Crashed while BLOCKED on an ask/approval": what reconcile hands out again,
\* though it had started, was waiting for a human when the daemon died.
RetriedWasBlocked ==
  [][BootRetries /\ began => \E c \in OpenCards : native[c] > since]_interactionsVars

\* "pending - raised by the adapter, card posted, member awaiting_input".
BlockedShows ==
  power = "up" /\ turn = "live" /\ ~fenced /\ ~killed /\ waiting # {}
    => mstate = "awaiting_input"
=============================================================================
