------------------------------- MODULE RoomSync -------------------------------
(***************************************************************************)
(* How a browser follows a room: the change log and snapshot of store.ts,  *)
(* the live frames of daemon.ts and server.ts, the connector of web-next   *)
(* (app/connector.ts: socket generations, subscriptions, probes) and the   *)
(* reducer that merges what arrives (app/store.ts).  One room, one client. *)
(*                                                                         *)
(* The content of an entity is the seq of the change that produced it.  A  *)
(* hydration (self ... sync_complete) is sent by one handler and shown     *)
(* only at sync_complete, so it is one frame here: a socket cut within it  *)
(* leaves what a cut before it leaves.                                     *)
(***************************************************************************)
EXTENDS Integers, Sequences, SequencesExt, FiniteSets

CONSTANTS
  Entity,       \* the visible entities of the room
  Kind,         \* Entity -> "message" | "schedule" | "overlay" (member, inbox)
  Commits,      \* what one transaction may change: <<how it is published, rows>>
  HistoryLimit, \* hydrate_limit of a room on screen: 0 (combined history) or 1
  MaxSeq,       \* bound: changes
  MaxGen,       \* bound: socket generations
  MaxLate       \* bound: frames of a closed socket that are still handed over

\* A transaction is published with the seq of each row ("exact"), with the
\* room's current seq on every row ("current"), or not at all ("silent").
ASSUME RoomSyncAssumption ==
  /\ Kind \in [Entity -> {"message", "schedule", "overlay"}]
  /\ Commits \subseteq {"exact", "current", "silent"} \X Seq(Entity)
  /\ HistoryLimit \in Nat /\ MaxSeq \in Nat /\ MaxGen \in Nat /\ MaxLate \in Nat

VARIABLES
  log,          \* the change log: log[n] is the entity changed at seq n
  subscribed,   \* the generation whose socket the server has subscribed, or 0
  up,           \* requests on their way to the server
  down,         \* frames on their way to the client, those of retired sockets too
  generation,   \* connector: the current socket generation
  socket,       \* is its socket open?
  budget,       \* subscriptionBudgets: hydrate_limit asked in this generation
  live,         \* liveRooms: this generation's own sync_complete has come
  resyncing,    \* the server seq a warm resync is catching up to, or 0
  awaiting,     \* awaitingProbe
  foreground,   \* is the room on screen (current or desired)?
  hydratedOnce, \* "none", "zero" (zeroHydrated) or "full" (historyHydrated)
  cursor,       \* RoomSlice.seq
  held,         \* Entity -> version the slice shows, 0 if none
  labels,       \* RoomSlice.scheduleSeq
  basis,        \* history: messages up to here were left to HTTP history
  labelled      \* history: has every row been published with its own seq?

server == <<log, subscribed>>
wires  == <<up, down>>
conn   == <<generation, socket, budget, live, resyncing, awaiting, foreground, hydratedOnce>>
slice  == <<cursor, held, labels, basis>>
roomSyncVars == <<server, wires, conn, slice, labelled>>

Schedules == {e \in Entity : Kind[e] = "schedule"}
Messages  == {e \in Entity : Kind[e] = "message"}

\* The seq of the last change of e among the first n, 0 if there is none.
LastChange(e, n) ==
  LET at == {k \in 1 .. n : log[k] = e}
  IN  IF at = {} THEN 0 ELSE CHOOSE k \in at : \A j \in at : j <= k

RoomSyncInit ==
  /\ log = <<>> /\ subscribed = 0
  /\ up = <<>> /\ down = <<>>
  /\ generation = 0 /\ socket = FALSE /\ budget = -1
  /\ live = FALSE /\ resyncing = 0 /\ awaiting = FALSE
  /\ foreground \in {HistoryLimit = 0, FALSE}
  /\ hydratedOnce = "none"
  /\ cursor = 0
  /\ held = [e \in Entity |-> 0]
  /\ labels = [e \in Schedules |-> -1]
  /\ basis = 0 /\ labelled = TRUE

Greater(a, b) == IF a >= b THEN a ELSE b

-----------------------------------------------------------------------------
(* The server.                                                             *)

EntityFrame(e, version, label) ==
  [type |-> "entity", gen |-> subscribed, e |-> e, version |-> version, seq |-> label]

\* The label of the i-th of n rows whose changes end the log at `last`.
LabelOf(how, i, n, last) == IF how = "exact" THEN last - n + i ELSE last

\* A transaction appends its changes and is published right after it.
Published(how, rows, last) ==
  IF how = "silent" \/ subscribed = 0 THEN <<>>
  ELSE [i \in 1 .. Len(rows) |->
          EntityFrame(rows[i], last - Len(rows) + i, LabelOf(how, i, Len(rows), last))]
Broadcast(how, rows, last) == Published(how, rows, last)
Commit ==
  \E c \in Commits :
    LET rows == c[2]
        last == Len(log) + Len(rows)
    IN  /\ last <= MaxSeq
        /\ log' = log \o rows
        /\ down' = down \o Broadcast(c[1], rows, last)
        /\ labelled' = (labelled /\ (c[1] = "exact" \/ (c[1] = "current" /\ Len(rows) = 1)))
        /\ UNCHANGED <<subscribed, up, conn, slice>>

\* sync(): a cold snapshot has every row but bounds the messages; a warm one
\* the rows changed since the cursor.
SnapshotRows(since, limit) ==
  IF since = 0
    THEN {e \in Entity : LastChange(e, Len(log)) > 0 /\ (e \in Messages => limit > 0)}
    ELSE {e \in Entity : LastChange(e, Len(log)) > since}

SyncFrame(req) ==
  [type |-> "sync", gen |-> req.gen, since |-> req.since, limit |-> req.limit,
   rows |-> [e \in SnapshotRows(req.since, req.limit) |-> LastChange(e, Len(log))],
   seq |-> Len(log)]

RoomsFrame(req) == [type |-> "rooms", gen |-> req.gen, seq |-> Len(log)]

\* The server handles one request; a subscribe also (re)registers the socket.
ServeRequest ==
  /\ up # <<>>
  /\ LET req == Head(up)
     IN  /\ subscribed' = IF req.type = "subscribe" THEN req.gen ELSE subscribed
         /\ down' = Append(down, IF req.type = "subscribe" THEN SyncFrame(req)
                                                          ELSE RoomsFrame(req))
  /\ up' = Tail(up)
  /\ UNCHANGED <<log, conn, slice, labelled>>

-----------------------------------------------------------------------------
(* The connector.                                                          *)

SubscribeAt(since, limit) ==
  [type |-> "subscribe", gen |-> generation', since |-> since, limit |-> limit]
ListRooms == [type |-> "list_rooms", gen |-> generation', since |-> 0, limit |-> 0]

\* subscribe(): a promotion asks for the cold snapshot again.
Promotes(limit) == limit > 0 /\ hydratedOnce = "zero"
SinceFor(limit) == IF Promotes(limit) THEN 0 ELSE cursor

\* No room is live before the new socket has hydrated it.
LiveAfterOpen == FALSE

\* open(): a new generation; the room on screen is subscribed at once, any
\* other room when the listing arrives.  Requests to the old socket are lost,
\* the frames it has sent may still arrive.
Open ==
  /\ ~socket /\ generation < MaxGen
  /\ generation' = generation + 1
  /\ socket' = TRUE
  /\ live' = LiveAfterOpen /\ resyncing' = 0 /\ awaiting' = FALSE
  /\ budget' = IF foreground THEN HistoryLimit ELSE -1
  /\ up' = (IF foreground THEN <<SubscribeAt(SinceFor(HistoryLimit), HistoryLimit)>>
                          ELSE <<>>) \o <<ListRooms>>
  /\ subscribed' = 0
  /\ UNCHANGED <<log, down, foreground, hydratedOnce, slice, labelled>>

\* The socket closes: what it carried to the server is lost, what it carried
\* to the client may be lost or still be handed over late.
Cut ==
  /\ socket /\ generation < MaxGen
  /\ socket' = FALSE
  /\ up' = <<>> /\ subscribed' = 0
  /\ \E keep \in 0 .. MaxLate :
       keep <= Len(down) /\ down' = SubSeq(down, 1, keep)
  /\ UNCHANGED <<log, generation, budget, live, resyncing, awaiting, foreground,
                 hydratedOnce, slice, labelled>>

\* probeNow(): one list_rooms at a time.
Probe ==
  /\ socket /\ ~awaiting
  /\ awaiting' = TRUE
  /\ up' = Append(up, [type |-> "list_rooms", gen |-> generation, since |-> 0, limit |-> 0])
  /\ UNCHANGED <<server, down, generation, socket, budget, live, resyncing,
                 foreground, hydratedOnce, slice, labelled>>

\* switchRoom() / setDesiredRooms(): a room comes on screen.
Show ==
  /\ ~foreground
  /\ foreground' = TRUE
  /\ IF socket /\ budget < HistoryLimit
       THEN /\ up' = Append(up, [type |-> "subscribe", gen |-> generation,
                                 since |-> SinceFor(HistoryLimit), limit |-> HistoryLimit])
            /\ budget' = HistoryLimit
       ELSE UNCHANGED <<up, budget>>
  /\ UNCHANGED <<server, down, generation, socket, live, resyncing, awaiting,
                 hydratedOnce, slice, labelled>>

\* onmessage handles frames of the current generation only.
Current(frame) == socket /\ frame.gen = generation

-----------------------------------------------------------------------------
(* The reducer.                                                            *)

\* applyFrame on a live frame: a schedule that is not newer changes nothing.
StaleSchedule(f) == f.e \in Schedules /\ f.seq <= labels[f.e]
ApplyEntity(f) ==
  /\ IF StaleSchedule(f) THEN UNCHANGED slice
     ELSE /\ cursor' = Greater(cursor, f.seq)
          /\ held' = [held EXCEPT ![f.e] = f.version]
          /\ labels' = IF f.e \in Schedules THEN [labels EXCEPT ![f.e] = f.seq] ELSE labels
          /\ UNCHANGED basis
  /\ UNCHANGED <<up, conn>>

\* What sync_complete merges: a message by its own seq, a schedule by the seq
\* of the frame (the request cursor), a member or an inbox row as it came.
MergesMessage(f, e) == f.rows[e] >= held[e]
MergesSchedule(f, e) == f.since >= labels[e]
Merges(f, e) ==
  /\ e \in DOMAIN f.rows
  /\ e \in Messages => MergesMessage(f, e)
  /\ e \in Schedules => MergesSchedule(f, e)
CursorAfter(f) == Greater(cursor, f.seq)
ApplySync(f) ==
  /\ cursor' = CursorAfter(f)
  /\ held' = [e \in Entity |-> IF Merges(f, e) THEN f.rows[e] ELSE held[e]]
  /\ labels' = [e \in Schedules |-> IF Merges(f, e) THEN f.since ELSE labels[e]]
  /\ basis' = IF f.since > 0 THEN basis ELSE IF f.limit > 0 THEN 0 ELSE f.seq
  /\ hydratedOnce' = IF budget > 0 \/ hydratedOnce = "full" THEN "full" ELSE "zero"
  /\ live' = TRUE
  /\ UNCHANGED <<up, generation, socket, budget, resyncing, awaiting, foreground>>

\* The listing: rooms not yet subscribed are, a room that was and has fallen
\* behind is resynced from its cursor, once at a time.
Behind(f) == f.seq > cursor
CaughtUp == resyncing = 0 \/ cursor >= resyncing
NeverResyncs(f) == FALSE
MayResync(f) == Behind(f) /\ CaughtUp
ApplyRooms(f) ==
  /\ awaiting' = FALSE
  /\ LET limit == IF foreground THEN HistoryLimit ELSE 0
         fresh == budget < limit
         again == budget >= 0 /\ MayResync(f)
     IN  /\ budget' = IF fresh THEN limit ELSE budget
         /\ up' = up \o (IF fresh THEN <<[type |-> "subscribe", gen |-> generation,
                                          since |-> SinceFor(limit), limit |-> limit]>>
                                  ELSE <<>>)
                     \o (IF again THEN <<[type |-> "subscribe", gen |-> generation,
                                          since |-> cursor, limit |-> HistoryLimit]>>
                                  ELSE <<>>)
         /\ resyncing' = IF again THEN f.seq
                         ELSE IF budget >= 0 /\ CaughtUp THEN 0 ELSE resyncing
  /\ UNCHANGED <<slice, generation, socket, live, foreground, hydratedOnce>>

\* Each socket hands its frames over in order; two sockets are not ordered.
NextOf(i) == \A j \in 1 .. i - 1 : down[j].gen # down[i].gen
Receive ==
  \E i \in {j \in DOMAIN down : NextOf(j)} :
  /\ LET f == down[i]
     IN  IF ~Current(f) THEN UNCHANGED <<up, conn, slice>>
         ELSE \/ f.type = "entity" /\ ApplyEntity(f)
              \/ f.type = "sync"   /\ ApplySync(f)
              \/ f.type = "rooms"  /\ ApplyRooms(f)
  /\ down' = RemoveAt(down, i)
  /\ UNCHANGED <<server, labelled>>

-----------------------------------------------------------------------------
Transport == ServeRequest \/ Receive
RoomSyncNext == Commit \/ Transport \/ Open \/ Cut \/ Probe \/ Show
RoomSyncSpec == RoomSyncInit /\ [][RoomSyncNext]_roomSyncVars

\* An open socket carries what it is given, a closed one is reopened, the
\* watchdog probes.
RoomSyncFairness ==
  WF_roomSyncVars(ServeRequest) /\ WF_roomSyncVars(Receive)
  /\ WF_roomSyncVars(Open) /\ WF_roomSyncVars(Probe)
RoomSyncFairSpec == RoomSyncSpec /\ RoomSyncFairness

-----------------------------------------------------------------------------
\* The cursor skips nothing: whatever changed up to it, the client shows
\* (messages a bounded snapshot left to HTTP history aside).  Only then can a
\* resume from the cursor make up for all that a cut socket has lost.
CursorSkipsNothing ==
  \A e \in Entity :
    LET last == LastChange(e, cursor)
    IN  last > (IF e \in Messages THEN basis ELSE 0) => held[e] >= last

\* That is so wherever sockets are cut, as long as the daemon publishes every
\* row with the seq that produced it.
CursorIsHonest == labelled => CursorSkipsNothing

\* Once sockets stay open the client catches up, whatever was cut before and
\* also when the last change was not published.
CatchesUp == <>[](cursor = Len(log))
=============================================================================
