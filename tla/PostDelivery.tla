----------------------------- MODULE PostDelivery -----------------------------
(***************************************************************************)
(* A message typed into the browser, from the local row the page shows     *)
(* (web-next app/outgoing.ts) over the pending submissions of the socket   *)
(* (app/pending-submission.ts, app/connector.ts) to the receipt that the   *)
(* switchboard commits with the message (daemon.ts, store.ts), through     *)
(* sockets that are cut, frames that arrive late, and daemons that are      *)
(* replaced in between by one that knows no receipts, or by one that does. *)
(***************************************************************************)
EXTENDS Integers, Sequences, FiniteSets, SequencesExt

CONSTANTS
  Intent,       \* submission ids, one for each message the operator sends
  MaxQueued,    \* rows that may wait locally (32)
  MaxSockets,   \* bound: socket generations
  MaxSwaps,     \* bound: times the daemon is replaced by another version
  MaxResends    \* bound: Resend clicks

ASSUME PostDeliveryAssumption ==
  /\ IsFiniteSet(Intent)
  /\ MaxQueued \in Nat /\ MaxSockets \in Nat /\ MaxSwaps \in Nat /\ MaxResends \in Nat

VARIABLES
  daemon,       \* "full" (receipts and correlations) or "legacy"
  receipts,     \* post_receipts: submissions with a recorded outcome
  posted,       \* Intent -> messages or schedules it has created
  wired,        \* does the daemon still hold the other end of the socket?
  toDaemon,     \* frames of that socket on their way to the daemon
  late,         \* submissions on sockets the page has left, not yet handled
  toPage,       \* frames on their way to the page
  sockGen,      \* generation of the connector
  sockOpen,     \* is its socket open?
  roomLive,     \* has this generation's sync_complete arrived?
  capable,      \* what is known of the daemon: "unknown", "yes", "no"
  pend,         \* PendingSubmission: generation a submission was last sent in, or None
  row,          \* Intent -> status of the local row
  swaps, resends

host     == <<daemon, receipts, posted, swaps>>
page     == <<sockGen, sockOpen, roomLive, capable>>
sock     == <<page, wired, toDaemon, toPage, late>>
local    == <<pend, row, resends>>
postVars == <<host, sock, local>>

None == -1
Shown == {"queued", "sending", "accepted", "failed", "uncertain"}
\* "unsent" before it is typed, "gone" once the message itself is shown,
\* "discarded" by the operator.
RowStatus == {"unsent", "gone", "discarded"} \cup Shown

Supports == IF daemon = "full" THEN "yes" ELSE "no"

PostInit ==
  /\ daemon \in {"full", "legacy"}
  /\ receipts = {} /\ posted = [i \in Intent |-> 0]
  /\ wired = FALSE /\ toDaemon = <<>> /\ toPage = <<>> /\ late = {}
  /\ sockGen = 0 /\ sockOpen = FALSE /\ roomLive = FALSE
  /\ capable = Supports                \* captured before the first open
  /\ pend = [i \in Intent |-> None]
  /\ row = [i \in Intent |-> "unsent"]
  /\ swaps = 0 /\ resends = 0

-----------------------------------------------------------------------------
(* The page.                                                               *)

Waiting(r) == {i \in Intent : r[i] = "queued"}
Post(i) == [type |-> "post", id |-> i]
Subscribe == [type |-> "subscribe"]

\* roomWritable(), and the capability that flushOutgoing() asks for.
MayDispatch == sockOpen /\ roomLive /\ capable = "yes"

\* sendOutgoing() and enqueueOutgoing(): a row is recorded as queued, unless
\* too many wait, and everything that waits is flushed when it may be.
Compose(i) ==
  /\ row[i] = "unsent"
  /\ LET r == [row EXCEPT ![i] = "queued"]
     IN  IF Cardinality(Waiting(r)) > MaxQueued
           THEN row' = [row EXCEPT ![i] = "failed"] /\ UNCHANGED <<toDaemon, pend>>
         ELSE IF MayDispatch
           THEN /\ row' = [row EXCEPT ![i] = "sending"]
                /\ pend' = [pend EXCEPT ![i] = sockGen]
                /\ toDaemon' = Append(toDaemon, Post(i))
           ELSE row' = r /\ UNCHANGED <<toDaemon, pend>>
  /\ UNCHANGED <<host, page, wired, toPage, late, resends>>

\* PendingSubmission.ready(): what was sent on an earlier socket, once.
UnansweredHere(p) == {i \in Intent : p[i] # None /\ p[i] = sockGen}
Unanswered(p) == {i \in Intent : p[i] # None /\ p[i] # sockGen}

PostsOf(ids) == LET s == SetToSeq(ids) IN [k \in DOMAIN s |-> Post(s[k])]

\* retryOwned() and flushOutgoing(), over the rows r and the pending p that
\* the frame at hand leaves behind.
Flushed(r, p, mayFlush) ==
  LET again == Unanswered(p)
      first == Waiting(r)
  IN  \/ /\ ~mayFlush
         /\ row' = r /\ pend' = p /\ UNCHANGED toDaemon
      \/ /\ mayFlush
         /\ toDaemon' = toDaemon \o PostsOf(again) \o PostsOf(first)
         /\ pend' = [i \in Intent |-> IF i \in again \cup first THEN sockGen ELSE p[i]]
         /\ row' = [i \in Intent |-> IF i \in first THEN "sending" ELSE r[i]]

\* The operator asks for a row to be sent again under its own id.
Resend(i) ==
  /\ row[i] \in {"failed", "uncertain"} /\ capable = "yes"
  /\ resends < MaxResends
  /\ resends' = resends + 1
  /\ IF sockOpen /\ roomLive
       THEN /\ row' = [row EXCEPT ![i] = "sending"]
            /\ pend' = [pend EXCEPT ![i] = sockGen]
            /\ toDaemon' = Append(toDaemon, Post(i))
       ELSE UNCHANGED <<row, pend, toDaemon>>     \* "Retry was not dispatched"
  /\ UNCHANGED <<host, page, wired, toPage, late>>

\* Discard local copy.
Discard(i) ==
  /\ row[i] \in {"failed", "uncertain", "queued"}
  /\ row' = [row EXCEPT ![i] = "discarded"]
  /\ pend' = [pend EXCEPT ![i] = None]
  /\ UNCHANGED <<host, sock, resends>>

\* What the page has sent on a socket it leaves may still be handled.
InFlight == IF wired THEN {i \in Intent : Post(i) \in Range(toDaemon)} ELSE {}

\* open(): retire() makes what was being sent uncertain; what is known of the
\* daemon is forgotten, except before the first socket.
KnownAfterOpen == IF sockGen = 0 THEN capable ELSE "unknown"
WaitsAgain == [i \in Intent |-> IF row[i] = "sending" THEN "queued" ELSE row[i]]
Retired == [i \in Intent |-> IF row[i] = "sending" THEN "uncertain" ELSE row[i]]
OpenSocket ==
  /\ ~sockOpen /\ sockGen < MaxSockets
  /\ sockGen' = sockGen + 1 /\ sockOpen' = TRUE /\ wired' = TRUE /\ roomLive' = FALSE
  /\ capable' = KnownAfterOpen
  /\ toDaemon' = <<Subscribe>> /\ toPage' = <<>>
  /\ row' = Retired
  /\ UNCHANGED <<host, late, pend, resends>>

\* The page finds the socket closed, or silent, and gives it up.
CloseSocket ==
  /\ sockOpen /\ sockGen < MaxSockets
  /\ sockOpen' = FALSE /\ wired' = FALSE /\ toDaemon' = <<>> /\ toPage' = <<>>
  /\ late' = late \cup InFlight
  /\ UNCHANGED <<host, sockGen, roomLive, capable, local>>

\* checkPostCapability(): the daemon that runs now answers; the answer counts
\* for the generation that asked, and lets go of what waits for it.
CapabilityAnswer ==
  /\ sockOpen /\ capable = "unknown"
  /\ capable' = Supports
  /\ Flushed(row, pend, roomLive /\ Supports = "yes")
  /\ UNCHANGED <<host, wired, toPage, late, sockGen, sockOpen, roomLive, resends>>

-----------------------------------------------------------------------------
(* The daemon.                                                             *)

\* acceptSubmission(): a submission with a receipt is answered from it, any
\* other is created together with its receipt.  A daemon without receipts
\* creates it whatever its id.
KnownNever(i) == FALSE
Known(i) == daemon = "full" /\ i \in receipts
Accepted(i) ==
  /\ posted' = IF Known(i) THEN posted ELSE [posted EXCEPT ![i] = posted[i] + 1]
  /\ receipts' = IF daemon = "full" THEN receipts \cup {i} ELSE receipts

\* The message as the page sees it, before the answer and with the id of the
\* submission only if the daemon correlates them.
MessageFrame(i) ==
  IF daemon = "full" /\ ~Known(i) THEN <<[type |-> "message", ids |-> {i}]>> ELSE <<>>
AnswerFrame(i, type) ==
  IF daemon = "full" THEN <<[type |-> type, ids |-> {i}]>> ELSE <<>>

\* The daemon takes a frame off the socket.  A subscription is answered with
\* what the room holds, or the part of it that fits a bounded snapshot; a post
\* is accepted, or refused (its author may have lost the right).
HandleFrame ==
  /\ wired /\ toDaemon # <<>>
  /\ LET f == Head(toDaemon)
     IN  \/ /\ f.type = "subscribe"
            /\ \E shown \in {{}, receipts} : toPage' = Append(toPage,
                 [type |-> "sync", ids |-> IF daemon = "full" THEN shown ELSE {}])
            /\ UNCHANGED <<posted, receipts>>
         \/ /\ f.type = "post"
            /\ Accepted(f.id)
            /\ toPage' = toPage \o MessageFrame(f.id) \o AnswerFrame(f.id, "accepted")
         \/ /\ f.type = "post"
            /\ toPage' = toPage \o AnswerFrame(f.id, "error")
            /\ UNCHANGED <<posted, receipts>>
  /\ toDaemon' = Tail(toDaemon)
  /\ UNCHANGED <<daemon, swaps, page, wired, late, local>>

\* ... or off a socket the page has left: nobody hears the answer, but the
\* page sees the message on the socket it holds now.
HandleLate(i) ==
  /\ i \in late /\ late' = late \ {i}
  /\ \/ /\ Accepted(i)
        /\ toPage' = IF wired /\ Subscribe \notin Range(toDaemon)
                      THEN toPage \o MessageFrame(i) ELSE toPage
     \/ UNCHANGED <<posted, receipts, toPage>>
  /\ UNCHANGED <<daemon, swaps, page, wired, toDaemon, local>>

\* The daemon is stopped and another version started, once the page has
\* opened its first socket; the page finds its socket closed later.
Replace ==
  /\ swaps < MaxSwaps /\ sockGen > 0 /\ (sockOpen => sockGen < MaxSockets)
  /\ daemon' = IF daemon = "full" THEN "legacy" ELSE "full"
  /\ swaps' = swaps + 1
  /\ wired' = FALSE /\ toDaemon' = <<>> /\ late' = {}
  /\ UNCHANGED <<receipts, posted, page, toPage, local>>

-----------------------------------------------------------------------------
(* Frames that reach the page.                                             *)

\* outgoing.reconcile(): the message itself is there, the local row goes.
WithoutShown(ids) ==
  [i \in Intent |-> IF i \in ids /\ row[i] \in Shown THEN "gone" ELSE row[i]]
Unpended(ids) == [i \in Intent |-> IF i \in ids THEN None ELSE pend[i]]

\* outgoing.result(), for a submission that is still pending.
Answered(ids) == {i \in ids : pend[i] # None}
RowsAnswered(ids, status) ==
  [i \in Intent |-> IF i \in Answered(ids) /\ row[i] \in Shown THEN status ELSE row[i]]

HandleAnswer ==
  /\ sockOpen /\ toPage # <<>>
  /\ LET f == Head(toPage)
     IN  \/ /\ f.type = "sync"
            /\ roomLive' = TRUE
            /\ Flushed(WithoutShown(f.ids), Unpended(f.ids), capable = "yes")
         \/ /\ f.type = "message"
            /\ row' = WithoutShown(f.ids) /\ pend' = Unpended(f.ids)
            /\ UNCHANGED <<toDaemon, roomLive>>
         \/ /\ f.type = "accepted"
            /\ row' = RowsAnswered(f.ids, "accepted") /\ pend' = Unpended(f.ids)
            /\ UNCHANGED <<toDaemon, roomLive>>
         \/ /\ f.type = "error"
            /\ row' = RowsAnswered(f.ids, "failed") /\ pend' = Unpended(f.ids)
            /\ UNCHANGED <<toDaemon, roomLive>>
  /\ toPage' = Tail(toPage)
  /\ UNCHANGED <<host, wired, late, sockGen, sockOpen, capable, resends>>

-----------------------------------------------------------------------------
PostNext ==
  \/ OpenSocket \/ CloseSocket \/ CapabilityAnswer
  \/ HandleFrame \/ HandleAnswer \/ Replace
  \/ \E i \in Intent : Compose(i) \/ Resend(i) \/ Discard(i) \/ HandleLate(i)
PostSpec == PostInit /\ [][PostNext]_postVars

\* A wired socket carries its frames, one that is not is found closed, a
\* closed one is reopened, the capability check repeated until it is answered.
PostFairSpec ==
  /\ PostSpec
  /\ WF_postVars(HandleFrame) /\ WF_postVars(HandleAnswer)
  /\ WF_postVars(CloseSocket /\ ~wired)
  /\ WF_postVars(OpenSocket) /\ WF_postVars(CapabilityAnswer)

-----------------------------------------------------------------------------
\* A message the operator sent once is never created twice, however often it
\* was retried and whatever daemon the retries reached.
NeverPostedTwice == \A i \in Intent : posted[i] <= 1

\* What a row says is so: one that waits has created nothing, one that was
\* accepted or that has given way to its message has created it.
RowsTellTheTruth ==
  \A i \in Intent :
    /\ row[i] \in {"unsent", "queued"} => posted[i] = 0
    /\ row[i] \in {"accepted", "gone"} => posted[i] > 0

\* With a daemon that keeps receipts, every submission that was ever sent is
\* answered or seen, and every row that waits is sent.
SubmissionsSettle ==
  <>[](daemon = "full") =>
    \A i \in Intent :
      /\ (pend[i] # None) ~> (pend[i] = None)
      /\ (row[i] = "queued") ~> (row[i] # "queued")
=============================================================================
