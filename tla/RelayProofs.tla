----------------------------- MODULE RelayProofs -----------------------------
(***************************************************************************)
(* Theorems about the remote link: RelaySession and RelayPairing, for any   *)
(* devices, browsers and connection ids, and any number of faults, claims   *)
(* and revocations.                                                         *)
(***************************************************************************)
EXTENDS RelaySession, RelayPairing, FiniteSetTheorems, SequenceTheorems, TLAPS

-----------------------------------------------------------------------------
(* Revocation.                                                             *)

Phases == {"none", "msg3", "data", "retired"}
SessionsOK ==
  /\ hconn \in [ConnId -> [phase : Phases, sent : Nat, opened : Nat]]
  /\ DOMAIN owner = ConnId

\* A device has a session only if it is enrolled, or the host has yet to learn
\* that it is not; and the file never holds a device the daemon has not seen.
RevocationIInv == SessionsOK /\ peers \subseteq known /\ RevokedAreDropped

LEMMA RevocationInit == SessionInit => RevocationIInv
BY DEF SessionInit, RevocationIInv, SessionsOK, RevokedAreDropped, NoSession, Phases

\* No step gives a device a session it may not have, or takes it out of the
\* sets that excuse one.
LEMMA RevocationNext == RevocationIInv /\ [SessionNext]_relayVars => RevocationIInv'
<1> SUFFICES ASSUME RevocationIInv, [SessionNext]_relayVars PROVE RevocationIInv'
  OBVIOUS
<1> USE DEF RevocationIInv, SessionsOK, RevokedAreDropped, Phases, NoSession,
            hostVars, cryptoVars, Uninvolved
<1>1. CASE HostConnects \/ RelayHearsHost \/ RelayLosesHost
  BY <1>1 DEF HostConnects, RelayHearsHost, RelayLosesHost, HostSocketCloses
<1>2. CASE HostTimesOut \/ HostGivesUp
  BY <1>2 DEF HostTimesOut, HostGivesUp, LinkDown
<1>3. CASE HostReads
  <2> DEFINE i == Head(up).conn
  <2>1. UNCHANGED <<owner, peers, known, missed>>
    BY <1>3 DEF HostReads
  <2>2. \/ hconn' = [hconn EXCEPT ![i] = NoSession]
        \/ hconn' = hconn
        \/ owner[i] \in peers /\ hconn' = [hconn EXCEPT ![i] = [NoSession EXCEPT !.phase = "msg3"]]
        \/ hconn[i].phase = "msg3" /\ hconn' = [hconn EXCEPT ![i].phase = "data"]
        \/ hconn[i].phase = "data" /\ hconn' = [hconn EXCEPT ![i].opened = @ + 1]
    BY <1>3 DEF HostReads, HandleUp, Forgotten
  <2> HIDE DEF i
  <2> QED
    BY <2>1, <2>2
<1>4. ASSUME NEW i \in ConnId, RelayHearsClient(i) \/ RelayLosesClient(i)
      PROVE  RevocationIInv'
  BY <1>4 DEF RelayHearsClient, RelayLosesClient
<1>5. ASSUME NEW i \in ConnId, HostSends(i) PROVE RevocationIInv'
  BY <1>5 DEF HostSends
<1>6. ASSUME NEW d \in Device, Dial(d) PROVE RevocationIInv'
  BY <1>6 DEF Dial, FreshConn
<1>7. ASSUME NEW d \in Device,
             ClientReads(d) \/ ClientSends(d) \/ ClientTimesOut(d) \/ ClientGivesUp(d)
      PROVE  RevocationIInv'
  BY <1>7 DEF ClientReads, ClientSends, ClientTimesOut, ClientGivesUp, Dropped
<1>8. ASSUME NEW d \in Device, RevokeHere(d) PROVE RevocationIInv'
  <2>1. /\ hconn' = [i \in ConnId |-> DroppedBy({d}, i)]
        /\ peers' = peers \ {d} /\ known' = peers' /\ missed' = missed \cup (known \ peers)
        /\ owner' = owner
    BY <1>8 DEF RevokeHere, dropDevices
  <2> QED
    BY <2>1 DEF DroppedBy
<1>12. ASSUME NEW d \in Device, RevokeByCli(d) PROVE RevocationIInv'
  BY <1>12 DEF RevokeByCli
<1>9. CASE DetectExternalRevokes
  BY <1>9 DEF DetectExternalRevokes, dropDevices, DroppedBy
<1>10. ASSUME NEW e \in Newcomer, EnrollPeer(e) PROVE RevocationIInv'
  BY <1>10 DEF EnrollPeer
<1>11. CASE UNCHANGED relayVars
  BY <1>11 DEF relayVars
<1> QED
  BY <1>1, <1>2, <1>3, <1>4, <1>5, <1>6, <1>7, <1>8, <1>9, <1>10, <1>11, <1>12
  DEF SessionNext

\* A revoked device has no session with the host, unless the daemon has yet to
\* look at the file or took it for its own (writePeers, detectExternalRevokes,
\* dropDevice): whatever the three parties make of their sockets meanwhile.
THEOREM RevocationCorrect == SessionSpec => []RevokedAreDropped
<1>1. RevocationIInv => RevokedAreDropped
  BY DEF RevocationIInv
<1> QED
  BY <1>1, RevocationInit, RevocationNext, PTL DEF SessionSpec

-----------------------------------------------------------------------------
(* Sessions.  The frames of a life of connection i are numbered, in each    *)
(* direction: the handshake comes first, packets follow by their counter,   *)
(* and a notice has no number.  Each end knows the number it waits for and  *)
(* the one it sends next.                                                   *)

Live(i) == rconn[i] = "open" /\ rhost = hsock /\ hsock # NoHost
Phase(i) == hconn[i].phase

StepUp(i, m) ==
  IF m.conn # i THEN 0
  ELSE IF m.kind = "msg1" THEN 1
  ELSE IF m.kind = "msg3" THEN 2
  ELSE IF m.kind = "packet" THEN m.n + 3 ELSE 0

StepDown(m) ==
  IF m.kind = "msg2" THEN 1 ELSE IF m.kind = "packet" THEN m.n + 2 ELSE 0

StepsUp(queue, i) == [k \in 1..Len(queue) |-> StepUp(i, queue[k])]
StepsDown(queue) == [k \in 1..Len(queue) |-> StepDown(queue[k])]

HostAwaits(i) ==
  IF Phase(i) = "data" THEN hconn[i].opened + 3 ELSE IF Phase(i) = "msg3" THEN 2 ELSE 1
HostIsAt(i) ==
  IF Phase(i) = "data" THEN hconn[i].sent + 2 ELSE IF Phase(i) = "msg3" THEN 2 ELSE 1
ClientAwaits(d) == IF client[d].state = "up" THEN client[d].opened + 2 ELSE 1
ClientIsAt(d) == IF client[d].state = "up" THEN client[d].sent + 3 ELSE 2

\* The numbers in s other than 0 are lo .. hi - 1, in this order.
InOrder(s, lo, hi) ==
  /\ lo <= hi
  /\ \A k \in DOMAIN s : s[k] # 0 => lo <= s[k] /\ s[k] < hi
  /\ \A k, l \in DOMAIN s : k < l /\ s[k] # 0 /\ s[l] # 0 => s[k] < s[l]
  /\ \A x \in lo..(hi - 1) : \E k \in DOMAIN s : s[k] = x

IsQueue(q) == \E S : q \in Seq(S)
FramesOf(q) == {q[k] : k \in 1..Len(q)}

LinkTypeOK ==
  /\ hsock \in Nat /\ gen \in Nat
  /\ hconn \in [ConnId -> [phase : Phases, sent : Nat, opened : Nat]]
  /\ rconn \in [ConnId -> {"open", "retired", "closed"}]
  /\ client \in [Device -> [state : {"idle", "hello", "up"}, conn : ConnId \cup {NoConn},
                            key : Nat, sent : Nat, opened : Nat]]
  /\ IsQueue(up)
  /\ down = [i \in ConnId |-> down[i]] /\ \A i \in ConnId : IsQueue(down[i])

\* What may be on its way.
FrameUp(m) ==
  /\ m.conn \in ConnId
  /\ m.kind \in {"client-disconnected", "msg1", "msg3", "packet"}
  /\ m.kind \in {"msg3", "packet"} => m.key = hsock
  /\ m.kind = "packet" => m.n \in Nat
FrameDown(m) ==
  /\ m.kind \in {"host-disconnected", "close", "msg2", "packet"}
  /\ m.kind = "packet" => m.n \in Nat
FramesOK ==
  /\ \A m \in FramesOf(up) : FrameUp(m)
  /\ \A i \in ConnId : \A m \in FramesOf(down[i]) : FrameDown(m)

\* A host that is down knows of nothing, and a session begins at 0.
HostOK ==
  /\ hsock = NoHost => up = <<>> /\ \A i \in ConnId : Phase(i) = "none"
  /\ \A i \in ConnId : Phase(i) = "msg3" => hconn[i].sent = 0 /\ hconn[i].opened = 0

\* A connection has one client.
ClientsOK ==
  \A d \in Device :
    /\ client[d].state = "idle" <=> client[d].conn = NoConn
    /\ client[d].state # "up" => client[d].sent = 0 /\ client[d].opened = 0
    /\ \A e \in Device : client[d].conn = client[e].conn => d = e \/ client[d].conn = NoConn

\* Nothing of a connection follows the news of its end.
Parted ==
  \A k \in 1..Len(up) : up[k].kind = "client-disconnected" =>
    /\ rconn[up[k].conn] # "open"
    /\ \A l \in 1..Len(up) : k < l => up[l].conn # up[k].conn

\* The host gets what it waits for.
HostHears(i) ==
  Phase(i) # "retired" =>
    \E hi \in Nat : /\ InOrder(StepsUp(up, i), HostAwaits(i), hi)
                    /\ Phase(i) = "none" => hi <= 2

\* So does the client; and where the relay connects the two, nothing is missing.
ClientHears(d, i) ==
  \E hi \in Nat : /\ InOrder(StepsDown(down[i]), ClientAwaits(d), hi)
                  /\ Live(i) /\ Phase(i) # "retired" => hi = HostIsAt(i)

\* A host that does not know the device drops its msg1 and says nothing.
Refused(i) == Phase(i) = "none" /\ InOrder(StepsUp(up, i), 1, 1)
AllSent(d, i) ==
  Live(i) /\ Phase(i) # "retired" =>
    /\ Phase(i) = "none" => client[d].state = "hello"
    /\ InOrder(StepsUp(up, i), HostAwaits(i), ClientIsAt(d)) \/ Refused(i)

Keyed(m) == m.kind \in {"msg2", "packet"}
OneKey(d, i) ==
  \E key \in Nat :
    /\ \A m \in FramesOf(down[i]) : Keyed(m) => m.key = key
    /\ client[d].state = "up" => client[d].key = key
    /\ Live(i) => key = hsock

EndsAgree(d, i) == ClientHears(d, i) /\ AllSent(d, i) /\ OneKey(d, i)

SessionIInv ==
  /\ LinkTypeOK /\ FramesOK /\ HostOK /\ ClientsOK /\ Parted
  /\ \A i \in ConnId : HostHears(i)
  /\ \A d \in Device, i \in ConnId : At(d, i) => EndsAgree(d, i)

LEMMA Queues ==
  /\ IsQueue(<<>>)
  /\ \A q : IsQueue(q) => /\ Len(q) \in Nat /\ DOMAIN q = 1..Len(q)
                          /\ Len(q) = 0 <=> q = <<>>
<1>1. <<>> \in Seq({})
  BY EmptySeq
<1> QED
  BY <1>1, EmptySeq, LenProperties DEF IsQueue

LEMMA Longer ==
  ASSUME NEW q, NEW m, IsQueue(q)
  PROVE  /\ IsQueue(Append(q, m)) /\ Len(q) \in Nat
         /\ Len(Append(q, m)) = Len(q) + 1
         /\ \A k \in 1..Len(q) : Append(q, m)[k] = q[k]
         /\ Append(q, m)[Len(q) + 1] = m
<1>1. PICK S : q \in Seq(S)
  BY DEF IsQueue
<1>2. q \in Seq(S \cup {m}) /\ m \in S \cup {m}
  BY <1>1
<1>3. Append(q, m) \in Seq(S \cup {m})
  BY <1>2, AppendProperties
<1> QED
  BY <1>2, <1>3, AppendProperties, LenProperties DEF IsQueue

LEMMA Shorter ==
  ASSUME NEW q, IsQueue(q), q # <<>>
  PROVE  /\ IsQueue(Tail(q)) /\ Len(q) \in Nat /\ Len(q) >= 1
         /\ Len(Tail(q)) = Len(q) - 1
         /\ Head(q) = q[1]
         /\ \A k \in 1..(Len(q) - 1) : Tail(q)[k] = q[k + 1]
<1>1. PICK S : q \in Seq(S)
  BY DEF IsQueue
<1>2. /\ Tail(q) \in Seq(S) /\ Len(Tail(q)) = Len(q) - 1
      /\ \A k \in 1..(Len(q) - 1) : Tail(q)[k] = q[k + 1]
  BY <1>1, HeadTailProperties
<1>3. Len(q) \in Nat /\ Len(q) # 0
  BY <1>1, LenProperties, EmptySeq
<1> QED
  BY <1>1, <1>2, <1>3 DEF IsQueue

\* s is a sequence of numbers: what InOrder is used of.
Numbers(s, n) == n \in Nat /\ DOMAIN s = 1..n /\ \A k \in 1..n : s[k] \in Nat

LEMMA OrderAppended ==
  ASSUME NEW s, NEW r, NEW n, Numbers(s, n), Numbers(r, n + 1),
         \A k \in 1..n : r[k] = s[k],
         NEW lo \in Nat, NEW hi \in Nat, InOrder(s, lo, hi), hi # 0
  PROVE  /\ r[n + 1] = 0 => InOrder(r, lo, hi)
         /\ r[n + 1] = hi => InOrder(r, lo, hi + 1)
<1>1. /\ n \in Nat /\ DOMAIN s = 1..n /\ DOMAIN r = 1..(n + 1)
      /\ \A k \in DOMAIN s : s[k] \in Nat /\ r[k] = s[k] /\ k \in DOMAIN r
      /\ \A k \in DOMAIN r : k \in DOMAIN s \/ k = n + 1
  BY DEF Numbers
<1>2. CASE r[n + 1] = 0
  BY <1>1, <1>2 DEF InOrder
<1>3. CASE r[n + 1] = hi
  <2>1. lo <= hi + 1
    BY DEF InOrder
  <2>2. \A k \in DOMAIN r : r[k] # 0 => lo <= r[k] /\ r[k] < hi + 1
    BY <1>1, <1>3 DEF InOrder
  <2>3. \A k, l \in DOMAIN r : k < l /\ r[k] # 0 /\ r[l] # 0 => r[k] < r[l]
    <3> TAKE k, l \in DOMAIN r
    <3> HAVE k < l /\ r[k] # 0 /\ r[l] # 0
    <3>1. k \in DOMAIN s
      BY <1>1
    <3>2. CASE l \in DOMAIN s
      BY <1>1, <3>1, <3>2 DEF InOrder
    <3>3. CASE l = n + 1
      BY <1>1, <1>3, <3>1, <3>3 DEF InOrder
    <3> QED
      BY <1>1, <3>2, <3>3
  <2>4. \A x \in lo..((hi + 1) - 1) : \E k \in DOMAIN r : r[k] = x
    <3> TAKE x \in lo..((hi + 1) - 1)
    <3>1. CASE x = hi
      BY <1>1, <1>3, <3>1
    <3>2. CASE x \in lo..(hi - 1)
      <4>1. PICK k \in DOMAIN s : s[k] = x
        BY <3>2 DEF InOrder
      <4> QED
        BY <4>1, <1>1
    <3> QED
      BY <3>1, <3>2
  <2> QED
    BY <2>1, <2>2, <2>3, <2>4, <1>3 DEF InOrder
<1> QED
  BY <1>2, <1>3

LEMMA OrderBehead ==
  ASSUME NEW s, NEW r, NEW n, Numbers(s, n), n >= 1, Numbers(r, n - 1),
         \A k \in 1..(n - 1) : r[k] = s[k + 1],
         NEW lo \in Nat \ {0}, NEW hi \in Nat, InOrder(s, lo, hi)
  PROVE  /\ s[1] = 0 => InOrder(r, lo, hi)
         /\ s[1] # 0 => s[1] = lo /\ lo < hi /\ InOrder(r, lo + 1, hi)
<1>1. DOMAIN s = 1..n /\ DOMAIN r = 1..(n - 1) /\ n \in Nat
  BY DEF Numbers
<1>2. \A k \in DOMAIN s : k # 1 => k - 1 \in DOMAIN r /\ r[k - 1] = s[k]
  <2> TAKE k \in DOMAIN s
  <2> HAVE k # 1
  <2>1. k - 1 \in 1..(n - 1) /\ (k - 1) + 1 = k
    BY <1>1
  <2> QED
    BY <2>1, <1>1
<1>3. \A k \in DOMAIN r : k + 1 \in DOMAIN s /\ r[k] = s[k + 1] /\ r[k] \in Nat
  BY <1>1 DEF Numbers
<1>4. \A k, l \in DOMAIN r : k < l /\ r[k] # 0 /\ r[l] # 0 => r[k] < r[l]
  BY <1>1, <1>3 DEF InOrder
<1>5. CASE s[1] = 0
  <2>1. \A x \in lo..(hi - 1) : \E k \in DOMAIN r : r[k] = x
    <3> TAKE x \in lo..(hi - 1)
    <3>1. PICK k \in DOMAIN s : s[k] = x
      BY DEF InOrder
    <3>2. k # 1
      BY <3>1, <1>5
    <3> QED
      BY <3>1, <3>2, <1>2
  <2>2. \A k \in DOMAIN r : r[k] # 0 => lo <= r[k] /\ r[k] < hi
    BY <1>3 DEF InOrder
  <2> QED
    BY <2>1, <2>2, <1>4, <1>5 DEF InOrder
<1>6. CASE s[1] # 0
  <2>1. 1 \in DOMAIN s /\ s[1] \in Nat /\ lo <= s[1] /\ s[1] < hi
    BY <1>1, <1>6 DEF InOrder, Numbers
  <2>2. PICK k \in DOMAIN s : s[k] = lo
    BY <2>1 DEF InOrder
  <2>3. k = 1
    <3> SUFFICES ASSUME k # 1 PROVE FALSE
      OBVIOUS
    <3>1. 1 < k
      BY <1>1
    <3>2. s[1] < s[k]
      BY <3>1, <2>1, <2>2, <1>6 DEF InOrder
    <3> QED
      BY <3>2, <2>1, <2>2
  <2>4. s[1] = lo
    BY <2>2, <2>3
  <2>5. \A x \in (lo + 1)..(hi - 1) : \E j \in DOMAIN r : r[j] = x
    <3> TAKE x \in (lo + 1)..(hi - 1)
    <3>1. PICK j \in DOMAIN s : s[j] = x
      BY DEF InOrder
    <3>2. j # 1
      BY <3>1, <2>4
    <3> QED
      BY <3>1, <3>2, <1>2
  <2>6. \A j \in DOMAIN r : r[j] # 0 => lo + 1 <= r[j] /\ r[j] < hi
    <3> TAKE j \in DOMAIN r
    <3> HAVE r[j] # 0
    <3>1. j + 1 \in DOMAIN s /\ 1 < j + 1 /\ s[j + 1] # 0 /\ r[j] = s[j + 1] /\ r[j] \in Nat
      BY <1>1, <1>3
    <3>2. s[1] < s[j + 1] /\ s[j + 1] < hi
      BY <3>1, <2>1, <1>6 DEF InOrder
    <3> QED
      BY <3>1, <3>2, <2>4
  <2> QED
    BY <1>4, <1>6, <2>1, <2>4, <2>5, <2>6 DEF InOrder
<1> QED
  BY <1>5, <1>6

LEMMA OrderOfNothing ==
  ASSUME NEW s, NEW n, Numbers(s, n), \A k \in 1..n : s[k] = 0, NEW lo \in Nat
  PROVE  InOrder(s, lo, lo)
BY DEF Numbers, InOrder

LEMMA OrderEmpty ==
  ASSUME NEW s, NEW n, Numbers(s, n), NEW lo \in Nat, InOrder(s, lo, lo)
  PROVE  \A k \in 1..n : s[k] = 0
BY DEF Numbers, InOrder

LEMMA FramesOfQueues ==
  /\ FramesOf(<<>>) = {}
  /\ \A q : IsQueue(q) => \A m : FramesOf(Append(q, m)) = FramesOf(q) \cup {m}
  /\ \A q : IsQueue(q) /\ q # <<>> =>
       Head(q) \in FramesOf(q) /\ FramesOf(Tail(q)) \subseteq FramesOf(q)
<1>1. FramesOf(<<>>) = {}
  BY EmptySeq, Queues DEF FramesOf
<1>2. ASSUME NEW q, IsQueue(q), NEW m
      PROVE  FramesOf(Append(q, m)) = FramesOf(q) \cup {m}
  <2>1. /\ Len(q) \in Nat /\ Len(Append(q, m)) = Len(q) + 1
        /\ \A k \in 1..Len(q) : Append(q, m)[k] = q[k]
        /\ Append(q, m)[Len(q) + 1] = m
    BY <1>2, Longer
  <2>2. \A k \in 1..(Len(q) + 1) : k \in 1..Len(q) \/ k = Len(q) + 1
    BY <2>1
  <2>3. \A k \in 1..Len(q) : k \in 1..(Len(q) + 1)
    BY <2>1
  <2>4. Len(q) + 1 \in 1..(Len(q) + 1)
    BY <2>1
  <2> QED
    BY <2>1, <2>2, <2>3, <2>4 DEF FramesOf
<1>3. ASSUME NEW q, IsQueue(q), q # <<>>
      PROVE  Head(q) \in FramesOf(q) /\ FramesOf(Tail(q)) \subseteq FramesOf(q)
  <2>1. /\ Len(q) \in Nat /\ Len(q) >= 1 /\ Len(Tail(q)) = Len(q) - 1 /\ Head(q) = q[1]
        /\ \A k \in 1..(Len(q) - 1) : Tail(q)[k] = q[k + 1]
    BY <1>3, Shorter
  <2>2. \A k \in 1..(Len(q) - 1) : k + 1 \in 1..Len(q)
    BY <2>1
  <2>3. 1 \in 1..Len(q)
    BY <2>1
  <2> QED
    BY <2>1, <2>2, <2>3 DEF FramesOf
<1> QED
  BY <1>1, <1>2, <1>3

\* A queue whose packets have counters.
Counted(q) == IsQueue(q) /\ \A m \in FramesOf(q) : m.kind = "packet" => m.n \in Nat

LEMMA StepsAreNumbers ==
  ASSUME NEW q, Counted(q), NEW i
  PROVE  Numbers(StepsUp(q, i), Len(q)) /\ Numbers(StepsDown(q), Len(q))
<1>1. \A k \in 1..Len(q) : q[k] \in FramesOf(q)
  BY DEF FramesOf
<1>2. Len(q) \in Nat /\ \A m \in FramesOf(q) : m.kind = "packet" => m.n \in Nat
  BY Queues DEF Counted
<1> QED
  BY <1>1, <1>2 DEF Numbers, StepsUp, StepsDown, StepUp, StepDown

LEMMA CountedAppended ==
  ASSUME NEW q, NEW m, Counted(q), m.kind = "packet" => m.n \in Nat
  PROVE  Counted(Append(q, m))
BY Longer, FramesOfQueues DEF Counted

LEMMA CountedTail ==
  ASSUME NEW q, Counted(q), q # <<>>
  PROVE  Counted(Tail(q))
BY Shorter, FramesOfQueues DEF Counted

\* One more frame: the next in order, or one without a number.
LEMMA UpAppended ==
  ASSUME NEW q, NEW m, NEW i, Counted(q), m.kind = "packet" => m.n \in Nat,
         NEW lo \in Nat, NEW hi \in Nat \ {0}, InOrder(StepsUp(q, i), lo, hi)
  PROVE  /\ StepUp(i, m) = 0 => InOrder(StepsUp(Append(q, m), i), lo, hi)
         /\ StepUp(i, m) = hi => InOrder(StepsUp(Append(q, m), i), lo, hi + 1)
<1> DEFINE n == Len(q)
           s == StepsUp(q, i)
           r == StepsUp(Append(q, m), i)
<1>1. /\ n \in Nat /\ Len(Append(q, m)) = n + 1
      /\ \A k \in 1..n : Append(q, m)[k] = q[k]
      /\ Append(q, m)[n + 1] = m
  BY Longer DEF Counted
<1>2. Numbers(s, n) /\ Numbers(r, n + 1)
  BY <1>1, CountedAppended, StepsAreNumbers
<1>3. (\A k \in 1..n : r[k] = s[k]) /\ r[n + 1] = StepUp(i, m)
  BY <1>1 DEF StepsUp
<1>4. InOrder(s, lo, hi)
  OBVIOUS
<1> HIDE DEF n, s, r
<1>5. /\ r[n + 1] = 0 => InOrder(r, lo, hi)
      /\ r[n + 1] = hi => InOrder(r, lo, hi + 1)
  BY <1>2, <1>3, <1>4, OrderAppended
<1> QED
  BY <1>3, <1>5 DEF r

LEMMA DownAppended ==
  ASSUME NEW q, NEW m, Counted(q), m.kind = "packet" => m.n \in Nat,
         NEW lo \in Nat, NEW hi \in Nat \ {0}, InOrder(StepsDown(q), lo, hi)
  PROVE  /\ StepDown(m) = 0 => InOrder(StepsDown(Append(q, m)), lo, hi)
         /\ StepDown(m) = hi => InOrder(StepsDown(Append(q, m)), lo, hi + 1)
<1> DEFINE n == Len(q)
           s == StepsDown(q)
           r == StepsDown(Append(q, m))
<1>1. /\ n \in Nat /\ Len(Append(q, m)) = n + 1
      /\ \A k \in 1..n : Append(q, m)[k] = q[k]
      /\ Append(q, m)[n + 1] = m
  BY Longer DEF Counted
<1>2. Numbers(s, n) /\ Numbers(r, n + 1)
  BY <1>1, CountedAppended, StepsAreNumbers
<1>3. (\A k \in 1..n : r[k] = s[k]) /\ r[n + 1] = StepDown(m)
  BY <1>1 DEF StepsDown
<1>4. InOrder(s, lo, hi)
  OBVIOUS
<1> HIDE DEF n, s, r
<1>5. /\ r[n + 1] = 0 => InOrder(r, lo, hi)
      /\ r[n + 1] = hi => InOrder(r, lo, hi + 1)
  BY <1>2, <1>3, <1>4, OrderAppended
<1> QED
  BY <1>3, <1>5 DEF r

\* The first frame leaves: it is the one awaited, or has no number.
LEMMA UpBehead ==
  ASSUME NEW q, NEW i, Counted(q), q # <<>>,
         NEW lo \in Nat \ {0}, NEW hi \in Nat, InOrder(StepsUp(q, i), lo, hi)
  PROVE  /\ StepUp(i, Head(q)) = 0 => InOrder(StepsUp(Tail(q), i), lo, hi)
         /\ StepUp(i, Head(q)) # 0 => /\ StepUp(i, Head(q)) = lo /\ lo < hi
                                      /\ InOrder(StepsUp(Tail(q), i), lo + 1, hi)
<1> DEFINE n == Len(q)
           s == StepsUp(q, i)
           r == StepsUp(Tail(q), i)
<1>1. /\ n \in Nat /\ n >= 1 /\ Len(Tail(q)) = n - 1 /\ Head(q) = q[1]
      /\ \A k \in 1..(n - 1) : Tail(q)[k] = q[k + 1]
  BY Shorter DEF Counted
<1>2. Numbers(s, n) /\ Numbers(r, n - 1)
  BY <1>1, CountedTail, StepsAreNumbers
<1>3. (\A k \in 1..(n - 1) : r[k] = s[k + 1]) /\ s[1] = StepUp(i, Head(q))
  BY <1>1 DEF StepsUp
<1>4. InOrder(s, lo, hi) /\ n >= 1
  BY <1>1
<1> HIDE DEF n, s, r
<1>5. /\ s[1] = 0 => InOrder(r, lo, hi)
      /\ s[1] # 0 => s[1] = lo /\ lo < hi /\ InOrder(r, lo + 1, hi)
  BY <1>2, <1>3, <1>4, OrderBehead
<1> QED
  BY <1>3, <1>5 DEF r

LEMMA DownBehead ==
  ASSUME NEW q, Counted(q), q # <<>>,
         NEW lo \in Nat \ {0}, NEW hi \in Nat, InOrder(StepsDown(q), lo, hi)
  PROVE  /\ StepDown(Head(q)) = 0 => InOrder(StepsDown(Tail(q)), lo, hi)
         /\ StepDown(Head(q)) # 0 => /\ StepDown(Head(q)) = lo /\ lo < hi
                                     /\ InOrder(StepsDown(Tail(q)), lo + 1, hi)
<1> DEFINE n == Len(q)
           s == StepsDown(q)
           r == StepsDown(Tail(q))
<1>1. /\ n \in Nat /\ n >= 1 /\ Len(Tail(q)) = n - 1 /\ Head(q) = q[1]
      /\ \A k \in 1..(n - 1) : Tail(q)[k] = q[k + 1]
  BY Shorter DEF Counted
<1>2. Numbers(s, n) /\ Numbers(r, n - 1)
  BY <1>1, CountedTail, StepsAreNumbers
<1>3. (\A k \in 1..(n - 1) : r[k] = s[k + 1]) /\ s[1] = StepDown(Head(q))
  BY <1>1 DEF StepsDown
<1>4. InOrder(s, lo, hi) /\ n >= 1
  BY <1>1
<1> HIDE DEF n, s, r
<1>5. /\ s[1] = 0 => InOrder(r, lo, hi)
      /\ s[1] # 0 => s[1] = lo /\ lo < hi /\ InOrder(r, lo + 1, hi)
  BY <1>2, <1>3, <1>4, OrderBehead
<1> QED
  BY <1>3, <1>5 DEF r

\* A queue without numbers is in order wherever the two ends are level.
LEMMA Silence ==
  ASSUME NEW q, NEW i, Counted(q), \A m \in FramesOf(q) : StepUp(i, m) = 0, NEW lo \in Nat
  PROVE  InOrder(StepsUp(q, i), lo, lo)
<1>1. Numbers(StepsUp(q, i), Len(q))
  BY StepsAreNumbers
<1>2. \A k \in 1..Len(q) : StepsUp(q, i)[k] = 0
  BY DEF StepsUp, FramesOf
<1> QED
  BY <1>1, <1>2, OrderOfNothing

LEMMA Level ==
  ASSUME NEW q, NEW i, Counted(q), NEW lo \in Nat, NEW other \in Nat,
         InOrder(StepsUp(q, i), lo, lo)
  PROVE  InOrder(StepsUp(q, i), other, other)
<1>1. Numbers(StepsUp(q, i), Len(q))
  BY StepsAreNumbers
<1> QED
  BY <1>1, OrderEmpty, OrderOfNothing

LEMMA NothingInOrder ==
  \A lo \in Nat : InOrder(StepsDown(<<>>), lo, lo) /\ \A i : InOrder(StepsUp(<<>>, i), lo, lo)
<1> DEFINE none == <<>>
<1>1. IsQueue(none) /\ Len(none) = 0 /\ FramesOf(none) = {}
  BY Queues, FramesOfQueues, EmptySeq
<1>2. Counted(none)
  BY <1>1 DEF Counted
<1> HIDE DEF none
<1>3. Numbers(StepsDown(none), 0) /\ \A i : Numbers(StepsUp(none, i), 0)
  BY <1>1, <1>2, StepsAreNumbers
<1>4. \A lo \in Nat : InOrder(StepsDown(none), lo, lo) /\ \A i : InOrder(StepsUp(none, i), lo, lo)
  BY <1>3, OrderOfNothing
<1> QED
  BY <1>4 DEF none

\* The parts that do not speak of order.
Basics == LinkTypeOK /\ FramesOK /\ HostOK /\ ClientsOK /\ Parted

LEMMA QueuesAreCounted == Basics => Counted(up) /\ \A i \in ConnId : Counted(down[i])
BY DEF Basics, LinkTypeOK, FramesOK, FrameUp, FrameDown, Counted

LEMMA Positions ==
  ASSUME Basics
  PROVE  /\ \A i \in ConnId : HostAwaits(i) \in Nat \ {0} /\ HostIsAt(i) \in Nat \ {0}
         /\ \A d \in Device : ClientAwaits(d) \in Nat \ {0} /\ ClientIsAt(d) \in Nat \ {0}
<1>1. \A i \in ConnId : hconn[i].sent \in Nat /\ hconn[i].opened \in Nat
  BY DEF Basics, LinkTypeOK
<1>2. \A d \in Device : client[d].sent \in Nat /\ client[d].opened \in Nat
  BY DEF Basics, LinkTypeOK
<1> QED
  BY <1>1, <1>2 DEF HostAwaits, HostIsAt, ClientAwaits, ClientIsAt

\* Connection i loses no number and gets no new one, in a direction.
UpStill(i) ==
  \A lo, hi \in Nat \ {0} : InOrder(StepsUp(up, i), lo, hi) => InOrder(StepsUp(up', i), lo, hi)
DownStill(i) ==
  /\ \A lo, hi \in Nat \ {0} :
       InOrder(StepsDown(down[i]), lo, hi) => InOrder(StepsDown(down'[i]), lo, hi)
  /\ \A m \in FramesOf(down'[i]) : m \in FramesOf(down[i]) \/ ~Keyed(m)

LEMMA NothingSentUp ==
  ASSUME NEW i, up' = up PROVE UpStill(i)
BY DEF UpStill

LEMMA SentUpByOthers ==
  ASSUME Basics, NEW i, NEW m, up' = Append(up, m), StepUp(i, m) = 0,
         m.kind = "packet" => m.n \in Nat
  PROVE  UpStill(i)
<1> SUFFICES ASSUME NEW lo \in Nat \ {0}, NEW hi \in Nat \ {0}, InOrder(StepsUp(up, i), lo, hi)
             PROVE  InOrder(StepsUp(Append(up, m), i), lo, hi)
  BY DEF UpStill
<1> QED
  BY QueuesAreCounted, UpAppended

LEMMA ReadFromOthers ==
  ASSUME Basics, NEW i, up # <<>>, up' = Tail(up), StepUp(i, Head(up)) = 0
  PROVE  UpStill(i)
<1> SUFFICES ASSUME NEW lo \in Nat \ {0}, NEW hi \in Nat \ {0}, InOrder(StepsUp(up, i), lo, hi)
             PROVE  InOrder(StepsUp(Tail(up), i), lo, hi)
  BY DEF UpStill
<1> QED
  BY QueuesAreCounted, UpBehead

LEMMA NothingSentDown ==
  ASSUME NEW i, down'[i] = down[i] PROVE DownStill(i)
BY DEF DownStill

LEMMA NoticeSentDown ==
  ASSUME Basics, NEW i \in ConnId, NEW m, down'[i] = Append(down[i], m),
         m.kind \in {"host-disconnected", "close"}
  PROVE  DownStill(i)
<1>1. Counted(down[i]) /\ IsQueue(down[i])
  BY QueuesAreCounted DEF Counted
<1>2. StepDown(m) = 0 /\ ~Keyed(m) /\ m.kind # "packet"
  BY DEF StepDown, Keyed
<1>3. FramesOf(down'[i]) = FramesOf(down[i]) \cup {m}
  BY <1>1, FramesOfQueues
<1>4. ASSUME NEW lo \in Nat \ {0}, NEW hi \in Nat \ {0},
             InOrder(StepsDown(down[i]), lo, hi)
      PROVE  InOrder(StepsDown(Append(down[i], m)), lo, hi)
  BY <1>1, <1>2, <1>4, DownAppended
<1> QED
  BY <1>2, <1>3, <1>4 DEF DownStill

\* What an end hears while nothing of its connection moves.
LEMMA HostHearsStill ==
  ASSUME Basics, NEW i \in ConnId, HostHears(i), UpStill(i),
         hconn'[i] = hconn[i] \/ Phase(i)' = "retired"
  PROVE  HostHears(i)'
<1> SUFFICES ASSUME Phase(i)' # "retired"
             PROVE  \E hi \in Nat : /\ InOrder(StepsUp(up', i), HostAwaits(i)', hi)
                                    /\ Phase(i)' = "none" => hi <= 2
  BY DEF HostHears
<1>1. hconn'[i] = hconn[i]
  OBVIOUS
<1>2. HostAwaits(i)' = HostAwaits(i) /\ Phase(i)' = Phase(i)
  BY <1>1 DEF HostAwaits, Phase
<1>3. PICK hi \in Nat : /\ InOrder(StepsUp(up, i), HostAwaits(i), hi)
                        /\ Phase(i) = "none" => hi <= 2
  BY <1>2 DEF HostHears
<1>4. HostAwaits(i) \in Nat \ {0} /\ hi # 0
  BY <1>3, Positions DEF InOrder
<1>5. InOrder(StepsUp(up', i), HostAwaits(i), hi)
  BY <1>3, <1>4 DEF UpStill
<1> QED
  BY <1>2, <1>3, <1>5

LEMMA EndsStill ==
  ASSUME Basics, NEW d \in Device, NEW i \in ConnId, EndsAgree(d, i),
         client'[d] = client[d], DownStill(i),
         Live(i)' => /\ Live(i) /\ hsock' = hsock
                     /\ (UpStill(i) /\ hconn'[i] = hconn[i]) \/ Phase(i)' = "retired"
  PROVE  EndsAgree(d, i)'
<1>1. ClientHears(d, i)'
  <2>1. PICK hi \in Nat : /\ InOrder(StepsDown(down[i]), ClientAwaits(d), hi)
                          /\ Live(i) /\ Phase(i) # "retired" => hi = HostIsAt(i)
    BY DEF EndsAgree, ClientHears
  <2>2. ClientAwaits(d) \in Nat \ {0} /\ hi # 0
    BY <2>1, Positions DEF InOrder
  <2>3. ClientAwaits(d)' = ClientAwaits(d)
    BY DEF ClientAwaits
  <2>4. InOrder(StepsDown(down'[i]), ClientAwaits(d)', hi)
    BY <2>1, <2>2, <2>3 DEF DownStill
  <2>5. Live(i)' /\ Phase(i)' # "retired" => hi = HostIsAt(i)'
    BY <2>1 DEF HostIsAt, Phase
  <2> QED
    BY <2>4, <2>5 DEF ClientHears
<1>2. AllSent(d, i)'
  <2> SUFFICES ASSUME Live(i)', Phase(i)' # "retired"
               PROVE  /\ Phase(i)' = "none" => client'[d].state = "hello"
                      /\ \/ InOrder(StepsUp(up', i), HostAwaits(i)', ClientIsAt(d)')
                         \/ Refused(i)'
    BY DEF AllSent
  <2>1. Live(i) /\ UpStill(i) /\ hconn'[i] = hconn[i]
    OBVIOUS
  <2>2. /\ HostAwaits(i)' = HostAwaits(i) /\ Phase(i)' = Phase(i)
        /\ ClientIsAt(d)' = ClientIsAt(d)
    BY <2>1 DEF HostAwaits, Phase, ClientIsAt
  <2>3. /\ Phase(i) = "none" => client[d].state = "hello"
        /\ InOrder(StepsUp(up, i), HostAwaits(i), ClientIsAt(d)) \/ Refused(i)
    BY <2>1, <2>2 DEF EndsAgree, AllSent
  <2>4. CASE InOrder(StepsUp(up, i), HostAwaits(i), ClientIsAt(d))
    <3>1. InOrder(StepsUp(up', i), HostAwaits(i), ClientIsAt(d))
      BY <2>1, <2>4, Positions DEF UpStill
    <3> QED
      BY <3>1, <2>2, <2>3
  <2>5. CASE Refused(i)
    <3>1. InOrder(StepsUp(up', i), 1, 1)
      BY <2>1, <2>5 DEF UpStill, Refused
    <3> QED
      BY <3>1, <2>2, <2>3, <2>5 DEF Refused
  <2> QED
    BY <2>3, <2>4, <2>5
<1>3. OneKey(d, i)'
  <2>1. PICK key \in Nat : /\ \A m \in FramesOf(down[i]) : Keyed(m) => m.key = key
                           /\ client[d].state = "up" => client[d].key = key
                           /\ Live(i) => key = hsock
    BY DEF EndsAgree, OneKey
  <2>2. \A m \in FramesOf(down'[i]) : Keyed(m) => m.key = key
    BY <2>1 DEF DownStill
  <2>3. Live(i)' => key = hsock'
    BY <2>1
  <2> QED
    BY <2>1, <2>2, <2>3 DEF OneKey
<1> QED
  BY <1>1, <1>2, <1>3 DEF EndsAgree

LEMMA SessionStarts == SessionInit => SessionIInv
<1> SUFFICES ASSUME SessionInit PROVE SessionIInv
  OBVIOUS
<1> USE DEF SessionInit, NoSession, Idle
<1>1. LinkTypeOK
  BY Queues DEF LinkTypeOK, Phases, NoHost
<1>2. FramesOK
  BY FramesOfQueues DEF FramesOK
<1>3. HostOK /\ ClientsOK
  BY DEF HostOK, ClientsOK, Phase
<1>4. Parted
  <2>1. Len(up) = 0
    BY EmptySeq
  <2> QED
    BY <2>1 DEF Parted
<1>5. ASSUME NEW i \in ConnId PROVE HostHears(i)
  <2>1. HostAwaits(i) = 1
    BY DEF HostAwaits, Phase
  <2>2. InOrder(StepsUp(up, i), 1, 1)
    BY NothingInOrder
  <2> QED
    BY <2>1, <2>2 DEF HostHears
<1> QED
  BY <1>1, <1>2, <1>3, <1>4, <1>5, SessionConstants DEF SessionIInv, At, NoConn

\* The relay tells the clients that a host has come or gone: either way no
\* connection there was has a host any more.
LEMMA HostStep ==
  ASSUME SessionIInv, HostConnects \/ RelayHearsHost \/ RelayLosesHost
  PROVE  SessionIInv'
<1>1. Basics
  BY DEF SessionIInv, Basics
<1>2. PICK m : /\ m.kind \in {"host-disconnected", "close"}
               /\ down' = Announced(m) \/ down' = down
  <2>1. CASE HostConnects
    BY <2>1 DEF HostConnects, CloseFrame, Absent
  <2>2. CASE RelayHearsHost \/ RelayLosesHost
    <3>1. down' \in {Announced(Absent), down}
      BY <2>2 DEF RelayHearsHost, RelayLosesHost, HostSocketCloses
    <3>2. Absent.kind = "host-disconnected"
      BY DEF Absent
    <3> QED
      BY <3>1, <3>2
  <2> QED
    BY <2>1, <2>2
<1>3. up' = up /\ hconn' = hconn /\ client' = client
  BY DEF HostConnects, RelayHearsHost, RelayLosesHost, HostSocketCloses, hostVars
<1>4. \/ hsock = NoHost /\ hsock' = gen + 1 /\ gen' = gen + 1
      \/ hsock' = hsock /\ gen' = gen /\ rconn' = rconn
  BY DEF HostConnects, RelayHearsHost, RelayLosesHost, HostSocketCloses, hostVars
<1>5. rconn' \in [ConnId -> {"open", "retired", "closed"}]
  BY <1>1
  DEF HostConnects, RelayHearsHost, RelayLosesHost, HostSocketCloses, RetiredByHost,
              Basics, LinkTypeOK
<1>6. ASSUME NEW i \in ConnId PROVE ~Live(i)'
  BY <1>1
  DEF HostConnects, RelayHearsHost, RelayLosesHost, HostSocketCloses, hostVars, Live,
              RetiredByHost, Basics, LinkTypeOK
<1>7. ASSUME NEW i \in ConnId PROVE down'[i] = down[i] \/ down'[i] = Append(down[i], m)
  BY <1>2 DEF Announced
<1>8. \A i \in ConnId : DownStill(i)
  BY <1>1, <1>2, <1>7, NothingSentDown, NoticeSentDown
<1>9. \A i \in ConnId : IsQueue(down'[i]) /\ FramesOf(down'[i]) \subseteq FramesOf(down[i]) \cup {m}
  <2> TAKE i \in ConnId
  <2>1. IsQueue(down[i])
    BY <1>1 DEF Basics, LinkTypeOK
  <2>2. CASE down'[i] = down[i]
    BY <2>1, <2>2
  <2>3. CASE down'[i] = Append(down[i], m)
    <3>1. IsQueue(Append(down[i], m)) /\ FramesOf(Append(down[i], m)) = FramesOf(down[i]) \cup {m}
      BY <2>1, Longer, FramesOfQueues
    <3> QED
      BY <3>1, <2>3
  <2> QED
    BY <1>7, <2>2, <2>3
<1>10. down' = [i \in ConnId |-> down'[i]]
  BY <1>1, <1>2 DEF Announced, Basics, LinkTypeOK
<1>11. hsock' \in Nat /\ gen' \in Nat
  BY <1>1, <1>4 DEF Basics, LinkTypeOK
<1>12. hsock = NoHost => up = <<>> /\ FramesOf(up) = {} /\ Len(up) = 0
  BY <1>1, EmptySeq, FramesOfQueues DEF Basics, HostOK
<1>13. hsock' = hsock \/ (hsock = NoHost /\ hsock' # NoHost)
  BY <1>1, <1>4 DEF Basics, LinkTypeOK, NoHost
<1>14. LinkTypeOK'
  BY <1>1, <1>3, <1>5, <1>9, <1>10, <1>11 DEF Basics, LinkTypeOK
<1>15. FramesOK'
  <2>1. \A f \in FramesOf(up') : FrameUp(f)'
    BY <1>1, <1>3, <1>12, <1>13 DEF Basics, FramesOK, FrameUp
  <2>2. \A i \in ConnId : \A f \in FramesOf(down'[i]) : FrameDown(f)
    BY <1>1, <1>2, <1>9 DEF Basics, FramesOK, FrameDown
  <2> QED
    BY <2>1, <2>2 DEF FramesOK, FrameDown
<1>16. HostOK' /\ ClientsOK'
  BY <1>1, <1>3, <1>13 DEF Basics, HostOK, ClientsOK, Phase
<1>17. Parted'
  <2>1. CASE hsock = NoHost
    BY <2>1, <1>3, <1>12 DEF Parted
  <2>2. CASE rconn' = rconn
    BY <2>2, <1>1, <1>3 DEF Basics, Parted
  <2> QED
    BY <2>1, <2>2, <1>4
<1>18. \A i \in ConnId : HostHears(i)'
  BY <1>1, <1>3, NothingSentUp, HostHearsStill DEF SessionIInv
<1>19. \A d \in Device, i \in ConnId : At(d, i)' => EndsAgree(d, i)'
  <2> TAKE d \in Device, i \in ConnId
  <2> HAVE At(d, i)'
  <2>1. EndsAgree(d, i)
    BY <1>3 DEF SessionIInv, At
  <2> QED
    BY <1>1, <1>3, <1>6, <1>8, <2>1, EndsStill
<1> QED
  BY <1>14, <1>15, <1>16, <1>17, <1>18, <1>19 DEF SessionIInv

LEMMA HostDownStep ==
  ASSUME SessionIInv, LinkDown
  PROVE  SessionIInv'
<1>1. Basics
  BY DEF SessionIInv, Basics
<1>2. /\ hsock' = NoHost /\ hconn' = [i \in ConnId |-> NoSession] /\ up' = <<>>
      /\ gen' = gen /\ rconn' = rconn /\ down' = down /\ client' = client
  BY DEF LinkDown
<1>3. FramesOf(up') = {} /\ Len(up') = 0 /\ IsQueue(up')
  BY <1>2, EmptySeq, FramesOfQueues, Queues
<1>4. LinkTypeOK'
  BY <1>1, <1>2, <1>3 DEF Basics, LinkTypeOK, NoSession, Phases, NoHost
<1>5. FramesOK'
  BY <1>1, <1>2, <1>3 DEF Basics, FramesOK, FrameDown
<1>6. HostOK' /\ ClientsOK' /\ Parted'
  BY <1>1, <1>2, <1>3 DEF Basics, HostOK, ClientsOK, Parted, Phase, NoSession
<1>7. ASSUME NEW i \in ConnId PROVE HostHears(i)'
  <2>1. Phase(i)' = "none" /\ HostAwaits(i)' = 1
    BY <1>2 DEF HostAwaits, Phase, NoSession
  <2>2. InOrder(StepsUp(up', i), 1, 1)
    BY <1>2, NothingInOrder
  <2> QED
    BY <2>1, <2>2 DEF HostHears
<1>8. ASSUME NEW i \in ConnId PROVE ~Live(i)' /\ DownStill(i)
  BY <1>2, NothingSentDown DEF Live
<1>9. \A d \in Device, i \in ConnId : At(d, i)' => EndsAgree(d, i)'
  <2> TAKE d \in Device, i \in ConnId
  <2> HAVE At(d, i)'
  <2>1. EndsAgree(d, i)
    BY <1>2 DEF SessionIInv, At
  <2> QED
    BY <1>1, <1>2, <1>8, <2>1, EndsStill
<1> QED
  BY <1>4, <1>5, <1>6, <1>7, <1>9 DEF SessionIInv

\* dropDevice retires a session; no frame moves.
LEMMA RetireStep ==
  ASSUME SessionIInv, UNCHANGED <<hsock, rhost, gen, up, rconn, down, client>>,
         \/ hconn' = hconn
         \/ \E gone : hconn' = [i \in ConnId |-> DroppedBy(gone, i)]
  PROVE  SessionIInv'
<1>1. Basics
  BY DEF SessionIInv, Basics
<1>2. \A i \in ConnId : hconn'[i] = hconn[i] \/ hconn'[i] = [NoSession EXCEPT !.phase = "retired"]
  BY DEF DroppedBy
<1>3. \A i \in ConnId : Phase(i) = "none" => hconn'[i] = hconn[i]
  BY DEF DroppedBy, Phase
<1>4. hconn' \in [ConnId -> [phase : Phases, sent : Nat, opened : Nat]]
  BY <1>1 DEF DroppedBy, NoSession, Phases, Basics, LinkTypeOK
<1>5. LinkTypeOK' /\ FramesOK' /\ ClientsOK' /\ Parted'
  BY <1>1, <1>4 DEF Basics, LinkTypeOK, FramesOK, FrameUp, FrameDown, ClientsOK, Parted
<1>6. HostOK'
  BY <1>1, <1>2, <1>3 DEF Basics, HostOK, Phase, NoSession
<1>7. \A i \in ConnId : hconn'[i] = hconn[i] \/ Phase(i)' = "retired"
  BY <1>2 DEF Phase, NoSession
<1>8. \A i \in ConnId : UpStill(i) /\ DownStill(i)
  BY NothingSentUp, NothingSentDown
<1>9. \A i \in ConnId : HostHears(i)'
  BY <1>1, <1>7, <1>8, HostHearsStill DEF SessionIInv
<1>10. \A d \in Device, i \in ConnId : At(d, i)' => EndsAgree(d, i)'
  <2> TAKE d \in Device, i \in ConnId
  <2> HAVE At(d, i)'
  <2>1. EndsAgree(d, i)
    BY DEF SessionIInv, At
  <2>2. Live(i)' => Live(i)
    BY DEF Live
  <2> QED
    BY <1>1, <1>7, <1>8, <2>1, <2>2, EndsStill
<1> QED
  BY <1>5, <1>6, <1>9, <1>10 DEF SessionIInv

\* A frame that is sent up, and what is known of the queue behind it.
LEMMA PartedAppended ==
  ASSUME Basics, NEW m, up' = Append(up, m),
         \A f \in FramesOf(up) : f.kind = "client-disconnected" =>
           f.conn # m.conn /\ rconn'[f.conn] # "open",
         m.kind = "client-disconnected" => rconn'[m.conn] # "open"
  PROVE  Parted'
<1>1. IsQueue(up)
  BY DEF Basics, LinkTypeOK
<1>2. /\ Len(up) \in Nat /\ Len(up') = Len(up) + 1
      /\ \A k \in 1..Len(up) : up'[k] = up[k]
      /\ up'[Len(up) + 1] = m
  BY <1>1, Longer
<1>3. \A k \in 1..Len(up') : k \in 1..Len(up) \/ k = Len(up) + 1
  BY <1>2
<1>4. \A k \in 1..Len(up) : up[k] \in FramesOf(up)
  BY DEF FramesOf
<1>5. ASSUME NEW k \in 1..Len(up'), up'[k].kind = "client-disconnected"
      PROVE  /\ rconn'[up'[k].conn] # "open"
             /\ \A l \in 1..Len(up') : k < l => up'[l].conn # up'[k].conn
  <2>1. CASE k \in 1..Len(up)
    <3>1. up'[k] = up[k] /\ up[k] \in FramesOf(up)
      BY <1>2, <1>4, <2>1
    <3>2. rconn'[up[k].conn] # "open" /\ up[k].conn # m.conn
      BY <1>5, <3>1
    <3>3. \A l \in 1..Len(up) : k < l => up[l].conn # up[k].conn
      BY <1>5, <2>1, <3>1 DEF Basics, Parted
    <3> QED
      BY <1>2, <1>3, <3>1, <3>2, <3>3
  <2>2. CASE k = Len(up) + 1
    BY <1>2, <1>5, <2>2
  <2> QED
    BY <1>3, <2>1, <2>2
<1> QED
  BY <1>5 DEF Parted

LEMMA PartedTail ==
  ASSUME Basics, up # <<>>, up' = Tail(up), rconn' = rconn
  PROVE  /\ Parted'
         /\ Head(up).kind = "client-disconnected" =>
              \A f \in FramesOf(Tail(up)) : f.conn # Head(up).conn
<1>1. IsQueue(up)
  BY DEF Basics, LinkTypeOK
<1>2. /\ Len(up) \in Nat /\ Len(up) >= 1 /\ Len(up') = Len(up) - 1 /\ Head(up) = up[1]
      /\ \A k \in 1..(Len(up) - 1) : up'[k] = up[k + 1]
  BY <1>1, Shorter
<1>3. \A k \in 1..(Len(up) - 1) : k + 1 \in 1..Len(up) /\ 1 < k + 1
  BY <1>2
<1>4. 1 \in 1..Len(up)
  BY <1>2
<1>5. \A k, l \in 1..(Len(up) - 1) : k < l => k + 1 < l + 1
  BY <1>2
<1>6. Parted'
  BY <1>2, <1>3, <1>5 DEF Basics, Parted
<1>7. Head(up).kind = "client-disconnected" =>
        \A f \in FramesOf(Tail(up)) : f.conn # Head(up).conn
  BY <1>2, <1>3, <1>4 DEF Basics, Parted, FramesOf
<1> QED
  BY <1>6, <1>7

LEMMA LiveFramesAreNotParted ==
  ASSUME Basics, NEW i, rconn[i] = "open"
  PROVE  \A f \in FramesOf(up) : f.kind = "client-disconnected" =>
           f.conn # i /\ rconn[f.conn] # "open"
BY DEF Basics, Parted, FramesOf

\* The client's socket is gone at the relay.
LEMMA SocketCloseStep ==
  ASSUME SessionIInv, NEW j \in ConnId, RelayHearsClient(j) \/ RelayLosesClient(j)
  PROVE  SessionIInv'
<1> DEFINE m == [conn |-> j, kind |-> "client-disconnected"]
<1>1. Basics
  BY DEF SessionIInv, Basics
<1>2. UNCHANGED <<hsock, rhost, gen, hconn, down, client>>
  BY DEF RelayHearsClient, RelayLosesClient, hostVars
<1>3. rconn' = [rconn EXCEPT ![j] = "closed"]
  BY DEF RelayHearsClient, RelayLosesClient, ClientSocketCloses
<1>4. \/ up' = up
      \/ rconn[j] = "open" /\ hsock # NoHost /\ up' = Append(up, m)
  BY DEF RelayHearsClient, RelayLosesClient, ClientSocketCloses, Upstream
<1>5. m.conn = j /\ m.kind = "client-disconnected"
  OBVIOUS
<1> HIDE DEF m
<1>6. FrameUp(m)
  BY <1>5 DEF FrameUp
<1>7. IsQueue(up') /\ FramesOf(up') \subseteq FramesOf(up) \cup {m}
  <2>1. IsQueue(up)
    BY <1>1 DEF Basics, LinkTypeOK
  <2>2. IsQueue(Append(up, m)) /\ FramesOf(Append(up, m)) = FramesOf(up) \cup {m}
    BY <2>1, Longer, FramesOfQueues
  <2> QED
    BY <1>4, <2>1, <2>2
<1>8. LinkTypeOK'
  BY <1>1, <1>2, <1>3, <1>7 DEF Basics, LinkTypeOK
<1>9. FramesOK'
  BY <1>1, <1>2, <1>6, <1>7 DEF Basics, FramesOK, FrameUp, FrameDown
<1>10. HostOK' /\ ClientsOK'
  BY <1>1, <1>2, <1>4 DEF Basics, HostOK, ClientsOK, Phase
<1>11. Parted'
  <2>1. \A i : rconn'[i] = "open" => rconn[i] = "open"
    BY <1>1, <1>3 DEF Basics, LinkTypeOK
  <2>2. rconn'[j] # "open"
    BY <1>1, <1>3 DEF Basics, LinkTypeOK
  <2>3. CASE up' = up
    BY <1>1, <2>1, <2>3 DEF Basics, Parted
  <2>4. CASE rconn[j] = "open" /\ up' = Append(up, m)
    <3>1. \A f \in FramesOf(up) : f.kind = "client-disconnected" =>
             f.conn # m.conn /\ rconn'[f.conn] # "open"
      BY <1>1, <1>5, <2>1, <2>4, LiveFramesAreNotParted
    <3> QED
      BY <1>1, <1>5, <2>2, <2>4, <3>1, PartedAppended
  <2> QED
    BY <1>4, <2>3, <2>4
<1>12. ASSUME NEW i \in ConnId PROVE UpStill(i) /\ DownStill(i)
  <2>1. StepUp(i, m) = 0
    BY <1>5 DEF StepUp
  <2> QED
    BY <1>1, <1>2, <1>4, <1>5, <2>1, NothingSentUp, SentUpByOthers, NothingSentDown
<1>13. \A i \in ConnId : HostHears(i)'
  BY <1>1, <1>2, <1>12, HostHearsStill DEF SessionIInv
<1>14. \A d \in Device, i \in ConnId : At(d, i)' => EndsAgree(d, i)'
  <2> TAKE d \in Device, i \in ConnId
  <2> HAVE At(d, i)'
  <2>1. EndsAgree(d, i)
    BY <1>2 DEF SessionIInv, At
  <2>2. Live(i)' => Live(i)
    BY <1>1, <1>2, <1>3 DEF Live, Basics, LinkTypeOK
  <2> QED
    BY <1>1, <1>2, <1>12, <2>1, <2>2, EndsStill
<1> QED
  BY <1>8, <1>9, <1>10, <1>11, <1>13, <1>14 DEF SessionIInv

\* A client that gives its session up leaves nothing behind on its side.
LEMMA DropStepOf ==
  ASSUME SessionIInv, NEW e \in Device, client[e].state # "idle", Dropped(e),
         UNCHANGED <<hsock, rhost, gen, hconn, up, rconn>>
  PROVE  SessionIInv'
<1>1. Basics
  BY DEF SessionIInv, Basics
<1>2. client' = [client EXCEPT ![e] = Idle] /\ down' = [down EXCEPT ![client[e].conn] = <<>>]
  BY DEF Dropped
<1>3. ASSUME NEW i \in ConnId
      PROVE  down'[i] = down[i] \/ (At(e, i) /\ down'[i] = <<>>)
  BY <1>1, <1>2 DEF At, Basics, LinkTypeOK
<1>4. \A i \in ConnId : IsQueue(down'[i]) /\ FramesOf(down'[i]) \subseteq FramesOf(down[i])
  BY <1>1, <1>3, Queues, FramesOfQueues DEF Basics, LinkTypeOK
<1>5. down' = [i \in ConnId |-> down'[i]]
  BY <1>1, <1>2 DEF Basics, LinkTypeOK
<1>6. LinkTypeOK'
  BY <1>1, <1>2, <1>4, <1>5 DEF Basics, LinkTypeOK, Idle, NoHost
<1>7. FramesOK' /\ HostOK' /\ Parted'
  BY <1>1, <1>4 DEF Basics, FramesOK, FrameUp, FrameDown, HostOK, Phase, Parted
<1>8. ClientsOK'
  BY <1>1, <1>2 DEF Basics, LinkTypeOK, ClientsOK, Idle
<1>9. \A i \in ConnId : HostHears(i)'
  BY <1>1, NothingSentUp, HostHearsStill DEF SessionIInv
<1>10. \A d \in Device, i \in ConnId : At(d, i)' => EndsAgree(d, i)'
  <2> TAKE d \in Device, i \in ConnId
  <2> HAVE At(d, i)'
  <2>1. d # e /\ client'[d] = client[d]
    BY <1>1, <1>2, SessionConstants DEF At, Basics, LinkTypeOK, Idle, NoConn
  <2>2. EndsAgree(d, i)
    BY <2>1 DEF SessionIInv, At
  <2>3. ~At(e, i)
    BY <1>1, <2>1, SessionConstants DEF At, Basics, ClientsOK, NoConn
  <2>4. DownStill(i) /\ UpStill(i)
    BY <1>3, <2>3, NothingSentDown, NothingSentUp
  <2>5. Live(i)' => Live(i)
    BY DEF Live
  <2> QED
    BY <1>1, <2>1, <2>2, <2>4, <2>5, EndsStill
<1> QED
  BY <1>6, <1>7, <1>8, <1>9, <1>10 DEF SessionIInv

LEMMA OneFrame ==
  ASSUME NEW m
  PROVE  IsQueue(<<m>>) /\ FramesOf(<<m>>) = {m}
<1>1. <<m>> \in Seq({m}) /\ Len(<<m>>) = 1 /\ <<m>>[1] = m
  OBVIOUS
<1>2. IsQueue(<<m>>)
  BY <1>1 DEF IsQueue
<1> QED
  BY <1>1, <1>2 DEF FramesOf

LEMMA SilenceDown ==
  ASSUME NEW q, Counted(q), \A m \in FramesOf(q) : StepDown(m) = 0, NEW lo \in Nat
  PROVE  InOrder(StepsDown(q), lo, lo)
<1>1. Numbers(StepsDown(q), Len(q))
  BY StepsAreNumbers
<1>2. \A k \in 1..Len(q) : StepsDown(q)[k] = 0
  BY DEF StepsDown, FramesOf
<1> QED
  BY <1>1, <1>2, OrderOfNothing

\* A new connection: nothing recalls its id, and where there is a host the
\* first frame is on its way.
LEMMA DialStep ==
  ASSUME SessionIInv, NEW e \in Device, Dial(e)
  PROVE  SessionIInv'
<1>1. Basics
  BY DEF SessionIInv, Basics
<1>2. PICK j \in ConnId :
        /\ FreshConn(j)
        /\ rconn' = [rconn EXCEPT ![j] = "open"]
        /\ down' = [down EXCEPT ![j] = IF rhost = NoHost THEN <<Absent>> ELSE <<>>]
        /\ client' = [client EXCEPT ![e] = [Idle EXCEPT !.state = "hello", !.conn = j]]
        /\ up' = IF rhost # NoHost /\ rhost = hsock
                   THEN Append(up, [conn |-> j, kind |-> "msg1"]) ELSE up
  BY DEF Dial
<1> DEFINE m == [conn |-> j, kind |-> "msg1"]
<1>3. m.conn = j /\ m.kind = "msg1"
  OBVIOUS
<1>4. up' = IF rhost # NoHost /\ rhost = hsock THEN Append(up, m) ELSE up
  BY <1>2
<1> HIDE DEF m
<1>5. UNCHANGED <<hsock, gen, hconn, rhost>> /\ client[e].state = "idle"
  BY DEF Dial, hostVars
<1>6. /\ \A d \in Device : ~At(d, j)
      /\ hconn[j].phase = "none" /\ rconn[j] = "closed"
      /\ \A f \in FramesOf(up) : f.conn # j
  BY <1>1, <1>2, Queues DEF FreshConn, Attached, FramesOf, Basics, LinkTypeOK
<1>7. /\ IsQueue(up) /\ IsQueue(Append(up, m))
      /\ FramesOf(Append(up, m)) = FramesOf(up) \cup {m}
  BY <1>1, Longer, FramesOfQueues DEF Basics, LinkTypeOK
<1>8. \A i \in ConnId : i # j => down'[i] = down[i] /\ rconn'[i] = rconn[i]
  BY <1>1, <1>2 DEF Basics, LinkTypeOK
<1>9. /\ rconn'[j] = "open" /\ rconn' \in [ConnId -> {"open", "retired", "closed"}]
      /\ down'[j] = <<Absent>> \/ down'[j] = <<>>
      /\ down' = [i \in ConnId |-> down'[i]]
  BY <1>1, <1>2 DEF Basics, LinkTypeOK
<1>10. IsQueue(down'[j]) /\ FramesOf(down'[j]) \subseteq {Absent}
  BY <1>9, OneFrame, Queues, FramesOfQueues, ZenonT(40)
<1>11. Absent.kind = "host-disconnected"
  BY DEF Absent
<1>12. /\ Counted(down'[j])
       /\ \A f \in FramesOf(down'[j]) : StepDown(f) = 0 /\ ~Keyed(f) /\ FrameDown(f)
  BY <1>10, <1>11 DEF Counted, StepDown, Keyed, FrameDown
<1>13. /\ client'[e] = [Idle EXCEPT !.state = "hello", !.conn = j]
       /\ \A d \in Device : d # e => client'[d] = client[d]
  BY <1>1, <1>2 DEF Basics, LinkTypeOK
<1>14. LinkTypeOK'
  <2>1. client' \in [Device -> [state : {"idle", "hello", "up"}, conn : ConnId \cup {NoConn},
                            key : Nat, sent : Nat, opened : Nat]]
    BY <1>1, <1>2 DEF Basics, LinkTypeOK, Idle, NoHost
  <2>2. \A i \in ConnId : IsQueue(down'[i])
    BY <1>1, <1>8, <1>10 DEF Basics, LinkTypeOK
  <2> QED
    BY <1>1, <1>4, <1>5, <1>7, <1>9, <2>1, <2>2 DEF Basics, LinkTypeOK
<1>15. FramesOK'
  <2>1. FrameUp(m)
    BY <1>3 DEF FrameUp
  <2>2. \A f \in FramesOf(up') : FrameUp(f)
    BY <1>1, <1>4, <1>7, <2>1 DEF Basics, FramesOK
  <2>3. \A i \in ConnId : \A f \in FramesOf(down'[i]) : FrameDown(f)
    BY <1>1, <1>8, <1>12 DEF Basics, FramesOK
  <2> QED
    BY <1>5, <2>2, <2>3 DEF FramesOK, FrameUp, FrameDown
<1>16. HostOK'
  BY <1>1, <1>4, <1>5 DEF Basics, HostOK, Phase
<1>17. ClientsOK'
  <2>1. /\ client'[e].state = "hello" /\ client'[e].conn = j
        /\ client'[e].sent = 0 /\ client'[e].opened = 0 /\ j # NoConn
    BY <1>13, SessionConstants DEF Idle, NoConn
  <2>2. \A d \in Device : d # e => client'[d] = client[d] /\ client[d].conn # j
    BY <1>6, <1>13 DEF At
  <2> QED
    BY <1>1, <2>1, <2>2 DEF Basics, ClientsOK
<1>18. Parted'
  <2>1. \A f \in FramesOf(up) : f.kind = "client-disconnected" =>
           f.conn # m.conn /\ rconn'[f.conn] # "open"
    BY <1>1, <1>3, <1>6, <1>8 DEF Basics, Parted, FramesOf, FramesOK, FrameUp
  <2>2. CASE up' = Append(up, m)
    BY <1>1, <1>3, <2>1, <2>2, PartedAppended
  <2>3. CASE up' = up
    BY <1>1, <2>1, <2>3 DEF Basics, Parted, FramesOf
  <2> QED
    BY <1>4, <2>2, <2>3
<1>19. ASSUME NEW i \in ConnId, i # j PROVE UpStill(i) /\ DownStill(i)
  <2>1. StepUp(i, m) = 0 /\ m.kind # "packet"
    BY <1>3, <1>19 DEF StepUp
  <2> QED
    BY <1>1, <1>4, <1>8, <1>19, <2>1, NothingSentUp, SentUpByOthers, NothingSentDown
<1>20. InOrder(StepsUp(up, j), 1, 1)
  BY <1>1, <1>6, QueuesAreCounted, Silence DEF StepUp
<1>21. up' = Append(up, m) => InOrder(StepsUp(up', j), 1, 2)
  <2>1. StepUp(j, m) = 1 /\ m.kind # "packet"
    BY <1>3 DEF StepUp
  <2>2. InOrder(StepsUp(Append(up, m), j), 1, 1 + 1)
    BY <1>1, <1>20, <2>1, QueuesAreCounted, UpAppended
  <2> QED
    BY <2>2
<1>22. Phase(j)' = "none" /\ HostAwaits(j)' = 1 /\ HostIsAt(j)' = 1
  BY <1>5, <1>6 DEF Phase, HostAwaits, HostIsAt
<1>23. \A i \in ConnId : HostHears(i)'
  <2>1. HostHears(j)'
    BY <1>4, <1>20, <1>21, <1>22 DEF HostHears
  <2>2. ASSUME NEW i \in ConnId, i # j PROVE HostHears(i)'
    BY <1>1, <1>5, <1>19, <2>2, HostHearsStill DEF SessionIInv
  <2> QED
    BY <2>1, <2>2
<1>24. \A d \in Device, i \in ConnId : At(d, i)' => EndsAgree(d, i)'
  <2> TAKE d \in Device, i \in ConnId
  <2> HAVE At(d, i)'
  <2>1. CASE d = e
    <3>1. i = j
      BY <1>13, <2>1 DEF At, Idle
    <3>2. client'[e].state = "hello" /\ ClientAwaits(e)' = 1 /\ ClientIsAt(e)' = 2
      BY <1>13 DEF Idle, ClientAwaits, ClientIsAt
    <3>3. ClientHears(e, j)'
      BY <1>12, <1>22, <3>2, SilenceDown DEF ClientHears
    <3>4. AllSent(e, j)'
      BY <1>4, <1>5, <1>21, <1>22, <3>2 DEF AllSent, Live
    <3>5. OneKey(e, j)'
      BY <1>12, <1>14, <3>2 DEF OneKey, LinkTypeOK
    <3> QED
      BY <2>1, <3>1, <3>3, <3>4, <3>5 DEF EndsAgree
  <2>2. CASE d # e
    <3>1. client'[d] = client[d] /\ i # j
      BY <1>6, <1>13, <2>2 DEF At
    <3>2. EndsAgree(d, i)
      BY <3>1 DEF SessionIInv, At
    <3>3. Live(i)' => Live(i)
      BY <1>5, <1>8, <3>1 DEF Live
    <3> QED
      BY <1>1, <1>5, <1>19, <3>1, <3>2, <3>3, EndsStill
  <2> QED
    BY <2>1, <2>2
<1> QED
  BY <1>14, <1>15, <1>16, <1>17, <1>18, <1>23, <1>24 DEF SessionIInv

\* A frame that is sent up by the client of a connection.
LEMMA SentUp ==
  ASSUME Basics, NEW m, m.conn \in ConnId, up' = Append(up, m), rconn[m.conn] = "open",
         hsock # NoHost, FrameUp(m), m.kind # "client-disconnected",
         hsock' = hsock, hconn' = hconn, rconn' = rconn
  PROVE  /\ IsQueue(up') /\ \A f \in FramesOf(up') : FrameUp(f)'
         /\ HostOK' /\ Parted'
         /\ \A i \in ConnId : i # m.conn => UpStill(i)
<1>1. IsQueue(up)
  BY DEF Basics, LinkTypeOK
<1>2. IsQueue(Append(up, m)) /\ FramesOf(Append(up, m)) = FramesOf(up) \cup {m}
  BY <1>1, Longer, FramesOfQueues
<1>3. \A f \in FramesOf(up') : FrameUp(f)'
  BY <1>2 DEF Basics, FramesOK, FrameUp
<1>4. HostOK'
  BY DEF Basics, HostOK, Phase
<1>5. Parted'
  <2>1. \A f \in FramesOf(up) : f.kind = "client-disconnected" =>
           f.conn # m.conn /\ rconn'[f.conn] # "open"
    BY LiveFramesAreNotParted
  <2> QED
    BY <2>1, PartedAppended
<1>6. ASSUME NEW i \in ConnId, i # m.conn PROVE UpStill(i)
  <2>1. StepUp(i, m) = 0 /\ (m.kind = "packet" => m.n \in Nat)
    BY <1>6 DEF StepUp, FrameUp
  <2> QED
    BY <2>1, SentUpByOthers
<1> QED
  BY <1>2, <1>3, <1>4, <1>5, <1>6

\* The next frame of a session that is agreed upon goes up, or there is no host
\* for it: the end at the host waits for no other.
LEMMA NextUp ==
  ASSUME SessionIInv, NEW e \in Device, NEW j \in ConnId, At(e, j), NEW m,
         m.conn = j, Live(j) => FrameUp(m), m.kind # "client-disconnected",
         StepUp(j, m) = ClientIsAt(e), ClientIsAt(e)' = ClientIsAt(e) + 1,
         up' = Upstream(up, m),
         Live(j) => Phase(j) # "none",
         UNCHANGED <<hsock, rhost, hconn, rconn>>
  PROVE  /\ IsQueue(up') /\ \A f \in FramesOf(up') : FrameUp(f)'
         /\ HostOK' /\ Parted'
         /\ \A i \in ConnId : i # j => UpStill(i)
         /\ \A i \in ConnId : HostHears(i)'
         /\ AllSent(e, j)'
<1>1. Basics
  BY DEF SessionIInv, Basics
<1>2. up' = IF Live(j) THEN Append(up, m) ELSE up
  BY <1>1 DEF Upstream, Live, Basics, LinkTypeOK
<1>3. CASE ~Live(j)
  <2>1. up' = up /\ ~Live(j)'
    BY <1>2, <1>3 DEF Live
  <2>2. HostOK' /\ Parted' /\ IsQueue(up') /\ \A f \in FramesOf(up') : FrameUp(f)'
    BY <1>1, <2>1 DEF Basics, HostOK, Phase, Parted, LinkTypeOK, FramesOK, FrameUp
  <2>3. \A i \in ConnId : UpStill(i)
    BY <2>1, NothingSentUp
  <2>4. \A i \in ConnId : HostHears(i)'
    BY <1>1, <2>3, HostHearsStill DEF SessionIInv
  <2> QED
    BY <2>1, <2>2, <2>3, <2>4 DEF AllSent
<1>4. CASE Live(j)
  <2>1. up' = Append(up, m) /\ rconn[j] = "open" /\ hsock # NoHost
    BY <1>2, <1>4 DEF Live
  <2>2. /\ IsQueue(up') /\ \A f \in FramesOf(up') : FrameUp(f)'
        /\ HostOK' /\ Parted'
        /\ \A i \in ConnId : i # j => UpStill(i)
    BY <1>1, <1>4, <2>1, SentUp
  <2>3. Phase(j)' = Phase(j) /\ HostAwaits(j)' = HostAwaits(j)
    BY DEF Phase, HostAwaits
  <2>4. Phase(j) # "retired" => InOrder(StepsUp(up', j), HostAwaits(j), ClientIsAt(e) + 1)
    <3> SUFFICES ASSUME Phase(j) # "retired"
                 PROVE  InOrder(StepsUp(Append(up, m), j), HostAwaits(j), ClientIsAt(e) + 1)
      BY <2>1
    <3>1. InOrder(StepsUp(up, j), HostAwaits(j), ClientIsAt(e))
      BY <1>4 DEF SessionIInv, EndsAgree, AllSent, Refused
    <3>2. m.kind = "packet" => m.n \in Nat
      BY <1>4 DEF FrameUp
    <3> QED
      BY <1>1, <3>1, <3>2, Positions, QueuesAreCounted, UpAppended
  <2>5. AllSent(e, j)'
    BY <1>4, <2>3, <2>4 DEF AllSent
  <2>6. HostHears(j)'
    BY <1>1, <1>4, <2>3, <2>4, Positions DEF HostHears
  <2>7. ASSUME NEW i \in ConnId, i # j PROVE HostHears(i)'
    BY <1>1, <2>2, <2>7, HostHearsStill DEF SessionIInv
  <2> QED
    BY <2>2, <2>5, <2>6, <2>7
<1> QED
  BY <1>3, <1>4

LEMMA ClientSendsStep ==
  ASSUME SessionIInv, NEW e \in Device, ClientSends(e)
  PROVE  SessionIInv'
<1>1. Basics
  BY DEF SessionIInv, Basics
<1>2. PICK j : j = client[e].conn
  OBVIOUS
<1>3. client[e].state = "up" /\ j \in ConnId /\ At(e, j)
  BY <1>1, <1>2 DEF ClientSends, Basics, LinkTypeOK, ClientsOK, At
<1>4. PICK m : m = [conn |-> j, kind |-> "packet", key |-> client[e].key, n |-> client[e].sent]
  OBVIOUS
<1>5. m.conn = j /\ m.kind = "packet" /\ m.key = client[e].key /\ m.n = client[e].sent
  BY <1>4
<1>6. /\ up' = Upstream(up, m)
      /\ client' = [client EXCEPT ![e].sent = @ + 1]
      /\ UNCHANGED <<hsock, gen, rhost, hconn, rconn, down>>
  BY <1>2, <1>4 DEF ClientSends, hostVars
<1>7. client[e].sent \in Nat /\ client[e].key \in Nat
  BY <1>1 DEF Basics, LinkTypeOK
<1>8. /\ client'[e].state = "up" /\ client'[e].sent = client[e].sent + 1
      /\ client'[e].opened = client[e].opened /\ client'[e].key = client[e].key
      /\ client'[e].conn = j
      /\ \A d \in Device : d # e => client'[d] = client[d]
  BY <1>1, <1>2, <1>3, <1>6 DEF Basics, LinkTypeOK
<1>9. StepUp(j, m) = ClientIsAt(e) /\ ClientIsAt(e)' = ClientIsAt(e) + 1
  BY <1>3, <1>5, <1>7, <1>8 DEF StepUp, ClientIsAt
<1>10. EndsAgree(e, j)
  BY <1>3 DEF SessionIInv
<1>11. Live(j) => FrameUp(m) /\ Phase(j) # "none"
  <2> SUFFICES ASSUME Live(j) PROVE FrameUp(m) /\ Phase(j) # "none"
    OBVIOUS
  <2>1. client[e].key = hsock
    BY <1>3, <1>10 DEF EndsAgree, OneKey
  <2>2. Phase(j) # "none"
    BY <1>3, <1>10 DEF EndsAgree, AllSent
  <2> QED
    BY <1>3, <1>5, <1>7, <2>1, <2>2 DEF FrameUp
<1>12. /\ IsQueue(up') /\ \A f \in FramesOf(up') : FrameUp(f)'
       /\ HostOK' /\ Parted'
       /\ \A i \in ConnId : i # j => UpStill(i)
       /\ \A i \in ConnId : HostHears(i)'
       /\ AllSent(e, j)'
  BY <1>3, <1>5, <1>6, <1>9, <1>11, NextUp
<1>13. LinkTypeOK'
  BY <1>1, <1>6, <1>7, <1>12, SMTT(30) DEF Basics, LinkTypeOK
<1>14. FramesOK'
  BY <1>1, <1>6, <1>12 DEF Basics, FramesOK, FrameDown
<1>15. ClientsOK'
  BY <1>1, <1>2, <1>3, <1>8 DEF Basics, ClientsOK
<1>16. \A d \in Device, i \in ConnId : At(d, i)' => EndsAgree(d, i)'
  <2> TAKE d \in Device, i \in ConnId
  <2> HAVE At(d, i)'
  <2>1. CASE d = e
    <3>1. i = j
      BY <1>8, <2>1 DEF At
    <3>2. ClientAwaits(e)' = ClientAwaits(e) /\ Live(j)' = Live(j)
          /\ HostIsAt(j)' = HostIsAt(j) /\ Phase(j)' = Phase(j)
      BY <1>3, <1>6, <1>8 DEF ClientAwaits, Live, HostIsAt, Phase
    <3>3. ClientHears(e, j)'
      BY <1>6, <1>10, <3>2 DEF EndsAgree, ClientHears
    <3>4. OneKey(e, j)'
      BY <1>3, <1>6, <1>8, <1>10, <3>2 DEF EndsAgree, OneKey
    <3> QED
      BY <1>12, <2>1, <3>1, <3>3, <3>4 DEF EndsAgree
  <2>2. CASE d # e
    <3>1. client'[d] = client[d] /\ At(d, i)
      BY <1>8, <2>2 DEF At
    <3>2. i # j
      BY <1>1, <1>3, <2>2, <3>1, SessionConstants DEF At, Basics, ClientsOK, NoConn
    <3>3. EndsAgree(d, i)
      BY <3>1 DEF SessionIInv
    <3>4. DownStill(i) /\ UpStill(i)
      BY <1>6, <1>12, <3>2, NothingSentDown
    <3>5. Live(i)' => Live(i)
      BY <1>6 DEF Live
    <3> QED
      BY <1>1, <1>6, <3>1, <3>3, <3>4, <3>5, EndsStill
  <2> QED
    BY <2>1, <2>2
<1> QED
  BY <1>12, <1>13, <1>14, <1>15, <1>16 DEF SessionIInv

\* The client reads the number it waits for.
LEMMA NextHeard ==
  ASSUME SessionIInv, NEW e \in Device, NEW j \in ConnId, At(e, j), down[j] # <<>>
  PROVE  LET f == Head(down[j])
         IN StepDown(f) # 0 =>
              /\ StepDown(f) = ClientAwaits(e)
              /\ Live(j) /\ Phase(j) # "retired" => ClientAwaits(e) < HostIsAt(j)
              /\ \E hi \in Nat : /\ InOrder(StepsDown(Tail(down[j])), ClientAwaits(e) + 1, hi)
                                 /\ Live(j) /\ Phase(j) # "retired" => hi = HostIsAt(j)
<1>1. Basics /\ EndsAgree(e, j)
  BY DEF SessionIInv, Basics
<1>2. PICK hi \in Nat : /\ InOrder(StepsDown(down[j]), ClientAwaits(e), hi)
                        /\ Live(j) /\ Phase(j) # "retired" => hi = HostIsAt(j)
  BY <1>1 DEF EndsAgree, ClientHears
<1>3. StepDown(Head(down[j])) # 0 =>
        /\ StepDown(Head(down[j])) = ClientAwaits(e) /\ ClientAwaits(e) < hi
        /\ InOrder(StepsDown(Tail(down[j])), ClientAwaits(e) + 1, hi)
  BY <1>1, <1>2, QueuesAreCounted, Positions, DownBehead
<1> QED
  BY <1>2, <1>3

LEMMA ClientReadsStep ==
  ASSUME SessionIInv, NEW e \in Device, ClientReads(e)
  PROVE  SessionIInv'
<1>1. Basics
  BY DEF SessionIInv, Basics
<1>2. PICK j : j = client[e].conn
  OBVIOUS
<1>3. client[e].state # "idle" /\ j \in ConnId /\ At(e, j) /\ down[j] # <<>>
  BY <1>1, <1>2 DEF ClientReads, Basics, LinkTypeOK, ClientsOK, At
<1>4. PICK f : f = Head(down[j])
  OBVIOUS
<1>5. UNCHANGED <<hsock, gen, rhost, hconn, rconn>>
  BY DEF ClientReads, hostVars
<1>6. CASE f.kind \in {"host-disconnected", "close"}
  <2>1. Dropped(e) /\ up' = up
    BY <1>2, <1>4, <1>6 DEF ClientReads
  <2> QED
    BY <1>3, <1>5, <2>1, DropStepOf
<1>7. CASE f.kind \notin {"host-disconnected", "close"}
  <2>1. /\ down' = [down EXCEPT ![j] = Tail(@)]
        /\ \/ /\ f.kind = "msg2" /\ client[e].state = "hello"
              /\ client' = [client EXCEPT ![e].state = "up", ![e].key = f.key]
              /\ up' = Upstream(up, [conn |-> j, kind |-> "msg3", key |-> f.key])
           \/ /\ f.kind = "packet" /\ client[e].state = "up"
              /\ client' = [client EXCEPT ![e].opened = @ + 1]
              /\ up' = up
    BY <1>2, <1>4, <1>7 DEF ClientReads
  <2>2. IsQueue(down[j]) /\ f \in FramesOf(down[j]) /\ FrameDown(f)
    BY <1>1, <1>3, <1>4, FramesOfQueues DEF Basics, LinkTypeOK, FramesOK
  <2>3. /\ IsQueue(Tail(down[j])) /\ FramesOf(Tail(down[j])) \subseteq FramesOf(down[j])
    BY <1>3, <2>2, Shorter, FramesOfQueues
  <2>4. /\ down'[j] = Tail(down[j])
        /\ \A i \in ConnId : i # j => down'[i] = down[i]
        /\ down' = [i \in ConnId |-> down'[i]]
    BY <1>1, <1>3, <2>1 DEF Basics, LinkTypeOK
  <2>5. \A i \in ConnId : IsQueue(down'[i]) /\ \A m \in FramesOf(down'[i]) : FrameDown(m)
    BY <1>1, <2>3, <2>4 DEF Basics, LinkTypeOK, FramesOK
  <2>6. EndsAgree(e, j)
    BY <1>3 DEF SessionIInv
  <2>7. PICK key \in Nat : /\ \A m \in FramesOf(down[j]) : Keyed(m) => m.key = key
                           /\ client[e].state = "up" => client[e].key = key
                           /\ Live(j) => key = hsock
    BY <2>6 DEF EndsAgree, OneKey
  <2>8. f.key = key
    BY <2>1, <2>2, <2>7 DEF Keyed
  <2>9. /\ client' \in [Device -> [state : {"idle", "hello", "up"}, conn : ConnId \cup {NoConn},
                            key : Nat, sent : Nat, opened : Nat]]
        /\ client'[e].state = "up" /\ client'[e].key = key /\ client'[e].conn = j
        /\ client'[e].sent = client[e].sent
        /\ client'[e].opened = IF f.kind = "packet" THEN client[e].opened + 1 ELSE client[e].opened
        /\ \A d \in Device : d # e => client'[d] = client[d]
    BY <1>1, <1>2, <2>1, <2>7, <2>8 DEF Basics, LinkTypeOK
  <2>10. ClientsOK'
    <3>1. \A d \in Device : client'[d].conn = client[d].conn
      BY <1>2, <2>9
    <3>2. client[e].conn # NoConn
      BY <1>1, <1>3 DEF Basics, ClientsOK
    <3>3. \A d \in Device : d # e =>
            /\ client[d].state = "idle" <=> client[d].conn = NoConn
            /\ client[d].state # "up" => client[d].sent = 0 /\ client[d].opened = 0
      BY <1>1 DEF Basics, ClientsOK
    <3>4. \A d, b \in Device : client[d].conn = client[b].conn => d = b \/ client[d].conn = NoConn
      BY <1>1 DEF Basics, ClientsOK
    <3>5. \A d \in Device :
            /\ client'[d].state = "idle" <=> client'[d].conn = NoConn
            /\ client'[d].state # "up" => client'[d].sent = 0 /\ client'[d].opened = 0
      BY <2>9, <3>1, <3>2, <3>3
    <3> QED
      BY <3>1, <3>4, <3>5 DEF ClientsOK
  <2>11. /\ client[e].opened \in Nat /\ client[e].sent \in Nat
         /\ client[e].state # "up" => client[e].opened = 0 /\ client[e].sent = 0
    BY <1>1 DEF Basics, LinkTypeOK, ClientsOK
  <2>12. StepDown(f) # 0 /\ ClientAwaits(e)' = ClientAwaits(e) + 1
    BY <2>1, <2>2, <2>9, <2>11 DEF StepDown, ClientAwaits, FrameDown
  <2>13. /\ Live(j)' = Live(j) /\ HostIsAt(j)' = HostIsAt(j) /\ Phase(j)' = Phase(j)
    BY <1>5 DEF Live, HostIsAt, Phase
  <2>14. /\ Live(j) /\ Phase(j) # "retired" => ClientAwaits(e) < HostIsAt(j)
         /\ \E hi \in Nat : /\ InOrder(StepsDown(Tail(down[j])), ClientAwaits(e) + 1, hi)
                            /\ Live(j) /\ Phase(j) # "retired" => hi = HostIsAt(j)
    BY <1>3, <1>4, <2>12, NextHeard
  <2>15. ClientHears(e, j)'
    BY <2>4, <2>12, <2>13, <2>14 DEF ClientHears
  <2>16. OneKey(e, j)'
    BY <1>5, <2>3, <2>4, <2>7, <2>9, <2>13 DEF OneKey
  <2>17. /\ IsQueue(up') /\ \A m \in FramesOf(up') : FrameUp(m)'
         /\ HostOK' /\ Parted'
         /\ \A i \in ConnId : i # j => UpStill(i)
         /\ \A i \in ConnId : HostHears(i)'
         /\ AllSent(e, j)'
    <3>1. CASE f.kind = "msg2"
      <4>1. PICK m : m = [conn |-> j, kind |-> "msg3", key |-> f.key]
        OBVIOUS
      <4>2. m.conn = j /\ m.kind = "msg3" /\ m.key = key
        BY <2>8, <4>1
      <4>3. up' = Upstream(up, m) /\ client[e].state = "hello"
        BY <2>1, <3>1, <4>1
      <4>4. StepUp(j, m) = ClientIsAt(e) /\ ClientIsAt(e)' = ClientIsAt(e) + 1
        BY <2>9, <2>11, <4>2, <4>3 DEF StepUp, ClientIsAt
      <4>5. Live(j) => FrameUp(m)
        BY <1>3, <2>7, <4>2 DEF FrameUp
      <4>6. Live(j) => Phase(j) # "none"
        BY <2>14, <4>3 DEF ClientAwaits, HostIsAt
      <4> QED
        BY <1>3, <1>5, <4>2, <4>3, <4>4, <4>5, <4>6, NextUp
    <3>2. CASE f.kind = "packet"
      <4>1. up' = up /\ client[e].state = "up"
        BY <2>1, <3>2
      <4>2. \A i \in ConnId : UpStill(i)
        BY <4>1, NothingSentUp
      <4>3. \A i \in ConnId : HostHears(i)'
        BY <1>1, <1>5, <4>2, HostHearsStill DEF SessionIInv
      <4>4. HostOK' /\ Parted' /\ IsQueue(up') /\ \A m \in FramesOf(up') : FrameUp(m)'
        BY <1>1, <1>5, <4>1
        DEF Basics, HostOK, Phase, Parted, LinkTypeOK, FramesOK, FrameUp
      <4>5. /\ ClientIsAt(e)' = ClientIsAt(e) /\ HostAwaits(j)' = HostAwaits(j)
            /\ Refused(j)' <=> Refused(j)
        BY <1>5, <2>9, <4>1 DEF ClientIsAt, HostAwaits, Refused, Phase
      <4>6. AllSent(e, j)'
        BY <2>6, <2>13, <4>1, <4>5 DEF EndsAgree, AllSent
      <4> QED
        BY <4>2, <4>3, <4>4, <4>6
    <3> QED
      BY <2>1, <3>1, <3>2
  <2>18. LinkTypeOK' /\ FramesOK'
    BY <1>1, <1>5, <2>4, <2>5, <2>9, <2>17 DEF Basics, LinkTypeOK, FramesOK, FrameDown
  <2>19. \A d \in Device, i \in ConnId : At(d, i)' => EndsAgree(d, i)'
    <3> TAKE d \in Device, i \in ConnId
    <3> HAVE At(d, i)'
    <3>1. CASE d = e
      <4>1. i = j
        BY <2>9, <3>1 DEF At
      <4> QED
        BY <2>15, <2>16, <2>17, <3>1, <4>1 DEF EndsAgree
    <3>2. CASE d # e
      <4>1. client'[d] = client[d] /\ At(d, i)
        BY <2>9, <3>2 DEF At
      <4>2. i # j
        BY <1>1, <1>3, <3>2, <4>1, SessionConstants DEF At, Basics, ClientsOK, NoConn
      <4>3. EndsAgree(d, i)
        BY <4>1 DEF SessionIInv
      <4>4. DownStill(i) /\ UpStill(i)
        BY <2>4, <2>17, <4>2, NothingSentDown
      <4>5. Live(i)' => Live(i)
        BY <1>5 DEF Live
      <4> QED
        BY <1>1, <1>5, <4>1, <4>3, <4>4, <4>5, EndsStill
    <3> QED
      BY <3>1, <3>2
  <2> QED
    BY <2>10, <2>17, <2>18, <2>19 DEF SessionIInv
<1> QED
  BY <1>6, <1>7

\* The next frame of a session goes down, or there is nobody to get it.
LEMMA NextDown ==
  ASSUME SessionIInv, NEW j \in ConnId, NEW m, FrameDown(m), Keyed(m), m.key = hsock,
         StepDown(m) = HostIsAt(j), HostIsAt(j)' = HostIsAt(j) + 1,
         Phase(j) # "retired", Phase(j)' # "retired", hsock # NoHost,
         down' = Downstream(j, m), UNCHANGED <<hsock, rhost, rconn, client>>
  PROVE  /\ down' = [i \in ConnId |-> down'[i]]
         /\ \A i \in ConnId : IsQueue(down'[i]) /\ \A f \in FramesOf(down'[i]) : FrameDown(f)
         /\ \A i \in ConnId : i # j => down'[i] = down[i]
         /\ \A d \in Device : At(d, j) => ClientHears(d, j)' /\ OneKey(d, j)'
<1>1. Basics
  BY DEF SessionIInv, Basics
<1>2. /\ down' = [i \in ConnId |-> down'[i]]
      /\ \A i \in ConnId : i # j => down'[i] = down[i]
      /\ \/ Live(j) /\ down'[j] = Append(down[j], m)
         \/ down'[j] = down[j] /\ (Live(j) => ~Attached(j))
  BY <1>1 DEF Downstream, Live, Basics, LinkTypeOK
<1>3. IsQueue(down[j]) /\ \A f \in FramesOf(down[j]) : FrameDown(f)
  BY <1>1 DEF Basics, LinkTypeOK, FramesOK
<1>4. IsQueue(Append(down[j], m)) /\ FramesOf(Append(down[j], m)) = FramesOf(down[j]) \cup {m}
  BY <1>3, Longer, FramesOfQueues
<1>5. \A i \in ConnId : IsQueue(down'[i]) /\ \A f \in FramesOf(down'[i]) : FrameDown(f)
  BY <1>1, <1>2, <1>3, <1>4 DEF Basics, LinkTypeOK, FramesOK
<1>6. ASSUME NEW d \in Device, At(d, j)
      PROVE  ClientHears(d, j)' /\ OneKey(d, j)'
  <2>1. EndsAgree(d, j)
    BY <1>6 DEF SessionIInv
  <2>2. PICK hi \in Nat : /\ InOrder(StepsDown(down[j]), ClientAwaits(d), hi)
                          /\ Live(j) /\ Phase(j) # "retired" => hi = HostIsAt(j)
    BY <2>1 DEF EndsAgree, ClientHears
  <2>3. PICK key \in Nat : /\ \A f \in FramesOf(down[j]) : Keyed(f) => f.key = key
                           /\ client[d].state = "up" => client[d].key = key
                           /\ Live(j) => key = hsock
    BY <2>1 DEF EndsAgree, OneKey
  <2>4. ClientAwaits(d)' = ClientAwaits(d) /\ Live(j)' = Live(j)
    BY DEF ClientAwaits, Live
  <2>5. CASE Live(j)
    <3>1. Attached(j)
      BY <1>6 DEF Attached
    <3>2. down'[j] = Append(down[j], m)
      BY <1>2, <2>5, <3>1
    <3>3. hi = HostIsAt(j) /\ (m.kind = "packet" => m.n \in Nat)
      BY <2>2, <2>5 DEF FrameDown
    <3>4. InOrder(StepsDown(Append(down[j], m)), ClientAwaits(d), hi + 1)
      BY <1>1, <2>2, <3>3, QueuesAreCounted, Positions, DownAppended
    <3>5. ClientHears(d, j)'
      BY <2>2, <2>4, <3>2, <3>3, <3>4 DEF ClientHears
    <3>6. OneKey(d, j)'
      BY <1>4, <2>3, <2>4, <2>5, <3>2 DEF OneKey
    <3> QED
      BY <3>5, <3>6
  <2>6. CASE ~Live(j)
    <3>1. down'[j] = down[j]
      BY <1>2, <2>6
    <3>2. ClientHears(d, j)' /\ OneKey(d, j)'
      BY <2>2, <2>3, <2>4, <2>6, <3>1 DEF ClientHears, OneKey
    <3> QED
      BY <3>2
  <2> QED
    BY <2>5, <2>6
<1> QED
  BY <1>2, <1>5, <1>6

LEMMA HostSendsStep ==
  ASSUME SessionIInv, NEW j \in ConnId, HostSends(j)
  PROVE  SessionIInv'
<1>1. Basics
  BY DEF SessionIInv, Basics
<1>2. PICK m : m = [kind |-> "packet", key |-> hsock, n |-> hconn[j].sent]
  OBVIOUS
<1>3. m.kind = "packet" /\ m.key = hsock /\ m.n = hconn[j].sent
  BY <1>2
<1>4. /\ Phase(j) = "data" /\ hconn' = [hconn EXCEPT ![j].sent = @ + 1]
      /\ down' = Downstream(j, m)
      /\ UNCHANGED <<hsock, gen, rhost, up, rconn, client>>
  BY <1>2 DEF HostSends, Phase
<1>5. hconn[j].sent \in Nat /\ hconn[j].opened \in Nat /\ hsock # NoHost
  BY <1>1, <1>4 DEF Basics, LinkTypeOK, HostOK
<1>6. /\ hconn' \in [ConnId -> [phase : Phases, sent : Nat, opened : Nat]]
      /\ hconn'[j].phase = "data" /\ hconn'[j].sent = hconn[j].sent + 1
      /\ hconn'[j].opened = hconn[j].opened
      /\ \A i \in ConnId : i # j => hconn'[i] = hconn[i]
  BY <1>1, <1>4 DEF Basics, LinkTypeOK, Phase
<1>7. /\ Phase(j)' = "data" /\ HostAwaits(j)' = HostAwaits(j) /\ HostIsAt(j)' = HostIsAt(j) + 1
      /\ StepDown(m) = HostIsAt(j) /\ FrameDown(m) /\ Keyed(m)
  BY <1>3, <1>4, <1>5, <1>6 DEF Phase, HostAwaits, HostIsAt, StepDown, FrameDown, Keyed
<1>8. /\ down' = [i \in ConnId |-> down'[i]]
      /\ \A i \in ConnId : IsQueue(down'[i]) /\ \A f \in FramesOf(down'[i]) : FrameDown(f)
      /\ \A i \in ConnId : i # j => down'[i] = down[i]
      /\ \A d \in Device : At(d, j) => ClientHears(d, j)' /\ OneKey(d, j)'
  BY <1>3, <1>4, <1>5, <1>7, NextDown
<1>9. LinkTypeOK' /\ FramesOK' /\ ClientsOK' /\ Parted'
  BY <1>1, <1>4, <1>6, <1>8
  DEF Basics, LinkTypeOK, FramesOK, FrameUp, FrameDown, ClientsOK, Parted
<1>10. HostOK'
  BY <1>1, <1>4, <1>5, <1>6 DEF Basics, HostOK, Phase
<1>11. \A i \in ConnId : UpStill(i)
  BY <1>4, NothingSentUp
<1>12. \A i \in ConnId : HostHears(i)'
  <2>1. HostHears(j)'
    BY <1>4, <1>7 DEF SessionIInv, HostHears
  <2>2. ASSUME NEW i \in ConnId, i # j PROVE HostHears(i)'
    BY <1>1, <1>6, <1>11, <2>2, HostHearsStill DEF SessionIInv
  <2> QED
    BY <2>1, <2>2
<1>13. \A d \in Device, i \in ConnId : At(d, i)' => EndsAgree(d, i)'
  <2> TAKE d \in Device, i \in ConnId
  <2> HAVE At(d, i)'
  <2>1. At(d, i) /\ EndsAgree(d, i)
    BY <1>4 DEF SessionIInv, At
  <2>2. CASE i = j
    <3>1. /\ ClientIsAt(d)' = ClientIsAt(d) /\ Live(j)' = Live(j)
          /\ Phase(j) # "none" /\ Phase(j)' # "none"
      BY <1>4, <1>7 DEF ClientIsAt, Live
    <3>2. AllSent(d, j)'
      BY <1>4, <1>7, <2>1, <2>2, <3>1 DEF EndsAgree, AllSent, Refused
    <3> QED
      BY <1>8, <2>1, <2>2, <3>2 DEF EndsAgree
  <2>3. CASE i # j
    <3>1. DownStill(i)
      BY <1>8, <2>3, NothingSentDown
    <3>2. Live(i)' => Live(i)
      BY <1>4 DEF Live
    <3> QED
      BY <1>1, <1>4, <1>6, <1>11, <2>1, <2>3, <3>1, <3>2, EndsStill
  <2> QED
    BY <2>2, <2>3
<1> QED
  BY <1>9, <1>10, <1>12, <1>13 DEF SessionIInv

\* The host reads the number it waits for.
LEMMA NextRead ==
  ASSUME SessionIInv, NEW j \in ConnId, up # <<>>, Phase(j) # "retired",
         StepUp(j, Head(up)) # 0
  PROVE  /\ StepUp(j, Head(up)) = HostAwaits(j)
         /\ \E hi \in Nat : /\ InOrder(StepsUp(Tail(up), j), HostAwaits(j) + 1, hi)
                            /\ Phase(j) = "none" => hi <= 2
         /\ \A d \in Device : At(d, j) /\ Live(j) =>
              /\ InOrder(StepsUp(Tail(up), j), HostAwaits(j) + 1, ClientIsAt(d))
              /\ Phase(j) = "none" => client[d].state = "hello"
<1>1. Basics /\ HostHears(j)
  BY DEF SessionIInv, Basics
<1>2. PICK hi \in Nat : /\ InOrder(StepsUp(up, j), HostAwaits(j), hi)
                        /\ Phase(j) = "none" => hi <= 2
  BY <1>1 DEF HostHears
<1>3. /\ StepUp(j, Head(up)) = HostAwaits(j)
      /\ InOrder(StepsUp(Tail(up), j), HostAwaits(j) + 1, hi)
  BY <1>1, <1>2, QueuesAreCounted, Positions, UpBehead
<1>4. ASSUME NEW d \in Device, At(d, j), Live(j)
      PROVE  /\ InOrder(StepsUp(Tail(up), j), HostAwaits(j) + 1, ClientIsAt(d))
             /\ Phase(j) = "none" => client[d].state = "hello"
  <2>1. EndsAgree(d, j)
    BY <1>4 DEF SessionIInv
  <2>2. /\ Phase(j) = "none" => client[d].state = "hello"
        /\ InOrder(StepsUp(up, j), HostAwaits(j), ClientIsAt(d)) \/ Refused(j)
    BY <1>4, <2>1 DEF EndsAgree, AllSent
  <2>3. ~Refused(j)
    <3> SUFFICES ASSUME InOrder(StepsUp(up, j), 1, 1) PROVE FALSE
      BY DEF Refused
    <3> DEFINE lo == 1
    <3>1. lo \in Nat \ {0} /\ InOrder(StepsUp(up, j), lo, lo)
      OBVIOUS
    <3> HIDE DEF lo
    <3>2. lo < lo
      BY <1>1, <3>1, QueuesAreCounted, UpBehead
    <3> QED
      BY <3>1, <3>2
  <2>4. InOrder(StepsUp(Tail(up), j), HostAwaits(j) + 1, ClientIsAt(d))
    BY <1>1, <2>2, <2>3, QueuesAreCounted, Positions, UpBehead
  <2> QED
    BY <2>2, <2>4
<1> QED
  BY <1>2, <1>3, <1>4

\* The frame the host takes in, whatever its session makes of it.
LEMMA TakenIn ==
  ASSUME SessionIInv, HostReads
  PROVE  /\ Head(up) \in FramesOf(up) /\ FrameUp(Head(up)) /\ Head(up).conn \in ConnId
         /\ IsQueue(up') /\ \A m \in FramesOf(up') : FrameUp(m)'
         /\ Parted'
         /\ \A i \in ConnId : i # Head(up).conn => UpStill(i)
         /\ hsock # NoHost /\ up # <<>> /\ up' = Tail(up)
         /\ UNCHANGED <<hsock, gen, rhost, rconn, client>>
<1>1. Basics
  BY DEF SessionIInv, Basics
<1>2. /\ hsock # NoHost /\ up # <<>> /\ up' = Tail(up)
      /\ UNCHANGED <<hsock, gen, rhost, rconn, client>>
  BY DEF HostReads
<1>3. Head(up) \in FramesOf(up) /\ FramesOf(Tail(up)) \subseteq FramesOf(up) /\ IsQueue(Tail(up))
  BY <1>1, <1>2, Shorter, FramesOfQueues DEF Basics, LinkTypeOK
<1>4. FrameUp(Head(up)) /\ Head(up).conn \in ConnId
  BY <1>1, <1>3 DEF Basics, FramesOK, FrameUp
<1>5. \A m \in FramesOf(up') : FrameUp(m)'
  BY <1>1, <1>2, <1>3 DEF Basics, FramesOK, FrameUp
<1>6. \A i \in ConnId : i # Head(up).conn => UpStill(i)
  BY <1>1, <1>2, ReadFromOthers DEF StepUp
<1> QED
  BY <1>1, <1>2, <1>3, <1>4, <1>5, <1>6, PartedTail

\* What is left to show of it: the one connection the frame is of.
LEMMA ReadsOne ==
  ASSUME SessionIInv, HostReads, NEW j, j = Head(up).conn,
         hconn' \in [ConnId -> [phase : Phases, sent : Nat, opened : Nat]],
         \A i \in ConnId : i # j => hconn'[i] = hconn[i] /\ down'[i] = down[i],
         down' = [i \in ConnId |-> down'[i]],
         \A i \in ConnId : IsQueue(down'[i]) /\ \A f \in FramesOf(down'[i]) : FrameDown(f),
         Phase(j)' = "msg3" => hconn'[j].sent = 0 /\ hconn'[j].opened = 0,
         HostHears(j)',
         \A d \in Device : At(d, j) => EndsAgree(d, j)'
  PROVE  SessionIInv'
<1>1. Basics
  BY DEF SessionIInv, Basics
<1>2. /\ IsQueue(up') /\ \A m \in FramesOf(up') : FrameUp(m)'
      /\ Parted'
      /\ \A i \in ConnId : i # j => UpStill(i)
      /\ hsock # NoHost
      /\ UNCHANGED <<hsock, gen, rhost, rconn, client>>
  BY TakenIn
<1>3. LinkTypeOK' /\ FramesOK' /\ ClientsOK'
  BY <1>1, <1>2 DEF Basics, LinkTypeOK, FramesOK, FrameDown, ClientsOK
<1>4. HostOK'
  BY <1>1, <1>2 DEF Basics, HostOK, Phase
<1>5. ASSUME NEW i \in ConnId PROVE HostHears(i)'
  <2>1. CASE i = j
    BY <2>1
  <2>2. CASE i # j
    BY <1>1, <1>2, <2>2, HostHearsStill DEF SessionIInv
  <2> QED
    BY <2>1, <2>2
<1>6. \A d \in Device, i \in ConnId : At(d, i)' => EndsAgree(d, i)'
  <2> TAKE d \in Device, i \in ConnId
  <2> HAVE At(d, i)'
  <2>1. At(d, i) /\ EndsAgree(d, i)
    BY <1>2 DEF SessionIInv, At
  <2>2. CASE i = j
    BY <2>1, <2>2
  <2>3. CASE i # j
    <3>1. DownStill(i) /\ UpStill(i)
      BY <1>2, <2>3, NothingSentDown
    <3>2. Live(i)' => Live(i)
      BY <1>2 DEF Live
    <3> QED
      BY <1>1, <1>2, <2>1, <2>3, <3>1, <3>2, EndsStill
  <2> QED
    BY <2>2, <2>3
<1> QED
  BY <1>2, <1>3, <1>4, <1>5, <1>6 DEF SessionIInv

LEMMA HostReadsStep ==
  ASSUME SessionIInv, HostReads
  PROVE  SessionIInv'
<1>1. Basics
  BY DEF SessionIInv, Basics
<1>2. PICK m : m = Head(up)
  OBVIOUS
<1>3. PICK j : j = m.conn
  OBVIOUS
<1>4. /\ FrameUp(m) /\ j \in ConnId
      /\ hsock # NoHost /\ up # <<>> /\ up' = Tail(up)
      /\ UNCHANGED <<hsock, gen, rhost, rconn, client>>
  BY <1>2, <1>3, TakenIn
<1>5. /\ \A i \in ConnId : IsQueue(down[i]) /\ \A f \in FramesOf(down[i]) : FrameDown(f)
      /\ down = [i \in ConnId |-> down[i]]
      /\ hconn \in [ConnId -> [phase : Phases, sent : Nat, opened : Nat]]
      /\ hconn[j].sent \in Nat /\ hconn[j].opened \in Nat
      /\ Phase(j) = "msg3" => hconn[j].sent = 0 /\ hconn[j].opened = 0
  BY <1>1, <1>4 DEF Basics, LinkTypeOK, FramesOK, HostOK
<1>6. ASSUME NEW d \in Device, At(d, j) PROVE EndsAgree(d, j)
  BY <1>4, <1>6 DEF SessionIInv
<1>7. /\ Live(j)' = Live(j)
      /\ \A d \in Device : ClientAwaits(d)' = ClientAwaits(d) /\ ClientIsAt(d)' = ClientIsAt(d)
  BY <1>4 DEF Live, ClientAwaits, ClientIsAt
<1>8. CASE m.kind = "client-disconnected"
  <2>1. hconn' = [hconn EXCEPT ![j] = NoSession] /\ down' = down
    BY <1>2, <1>3, <1>8 DEF HostReads, HandleUp, Forgotten
  <2>2. /\ hconn' \in [ConnId -> [phase : Phases, sent : Nat, opened : Nat]]
        /\ hconn'[j] = NoSession /\ \A i \in ConnId : i # j => hconn'[i] = hconn[i]
    BY <1>4, <1>5, <2>1 DEF NoSession, Phases
  <2>3. \A f \in FramesOf(up') : f.conn # j
    BY <1>1, <1>2, <1>3, <1>4, <1>8, PartedTail
  <2>4. Counted(up')
    BY <1>1, <1>4, QueuesAreCounted, CountedTail
  <2>5. InOrder(StepsUp(up', j), 1, 1)
    BY <2>3, <2>4, Silence DEF StepUp
  <2>6. Phase(j)' = "none" /\ HostAwaits(j)' = 1
    BY <2>2 DEF Phase, HostAwaits, NoSession
  <2>7. HostHears(j)'
    BY <2>5, <2>6 DEF HostHears
  <2>8. ~Live(j)
    BY <1>1, <1>2, <1>3, <1>4, <1>8, LiveFramesAreNotParted, TakenIn DEF Live
  <2>9. ASSUME NEW d \in Device, At(d, j) PROVE EndsAgree(d, j)'
    BY <1>1, <1>4, <1>6, <1>7, <2>1, <2>8, <2>9, NothingSentDown, EndsStill
  <2> QED
    BY <1>2, <1>3, <1>5, <2>1, <2>2, <2>6, <2>7, <2>9, ReadsOne
<1>9. CASE m.kind # "client-disconnected" /\ Phase(j) = "retired"
  <2>1. hconn' = hconn /\ down' = down
    BY <1>2, <1>3, <1>9 DEF HostReads, HandleUp, Phase
  <2>2. Phase(j)' = "retired"
    BY <1>9, <2>1 DEF Phase
  <2>3. HostHears(j)'
    BY <2>2 DEF HostHears
  <2>4. ASSUME NEW d \in Device, At(d, j) PROVE EndsAgree(d, j)'
    BY <1>1, <1>4, <1>6, <1>7, <2>1, <2>2, <2>4, NothingSentDown, EndsStill
  <2> QED
    BY <1>2, <1>3, <1>5, <2>1, <2>2, <2>3, <2>4, ReadsOne
<1>10. CASE m.kind # "client-disconnected" /\ Phase(j) # "retired"
  <2>1. StepUp(j, m) # 0
    BY <1>3, <1>4, <1>10 DEF StepUp, FrameUp
  <2>2. /\ StepUp(j, m) = HostAwaits(j)
        /\ \E hi \in Nat : /\ InOrder(StepsUp(up', j), HostAwaits(j) + 1, hi)
                           /\ Phase(j) = "none" => hi <= 2
        /\ \A d \in Device : At(d, j) /\ Live(j) =>
              /\ InOrder(StepsUp(up', j), HostAwaits(j) + 1, ClientIsAt(d))
              /\ Phase(j) = "none" => client[d].state = "hello"
    BY <1>2, <1>4, <1>10, <2>1, NextRead
  <2>3. \/ m.kind = "msg1" /\ Phase(j) = "none" /\ hconn' = hconn /\ down' = down
        \/ /\ m.kind = "msg1" /\ Phase(j) = "none"
           /\ hconn' = [hconn EXCEPT ![j] = [NoSession EXCEPT !.phase = "msg3"]]
           /\ down' = Downstream(j, [kind |-> "msg2", key |-> hsock])
        \/ /\ m.kind = "msg3" /\ Phase(j) = "msg3"
           /\ hconn' = [hconn EXCEPT ![j].phase = "data"] /\ down' = down
        \/ /\ m.kind = "packet" /\ Phase(j) = "data"
           /\ hconn' = [hconn EXCEPT ![j].opened = @ + 1] /\ down' = down
    BY <1>2, <1>3, <1>10 DEF HostReads, HandleUp, Phase
  <2>4. CASE m.kind = "msg1" /\ Phase(j) = "none" /\ hconn' = hconn /\ down' = down
    <3>1. /\ HostAwaits(j) = 1 /\ HostAwaits(j)' = 1 /\ Phase(j)' = "none"
          /\ HostIsAt(j)' = HostIsAt(j)
      BY <2>4 DEF HostAwaits, HostIsAt, Phase
    <3>2. Counted(up')
      BY <1>1, <1>4, QueuesAreCounted, CountedTail
    <3>3. InOrder(StepsUp(up', j), 1, 1)
      <4>1. PICK hi \in Nat : InOrder(StepsUp(up', j), 2, hi) /\ hi <= 2
        BY <2>2, <2>4, <3>1
      <4>2. hi = 2
        BY <4>1 DEF InOrder
      <4> QED
        BY <3>2, <4>1, <4>2, Level
    <3>4. HostHears(j)'
      BY <3>1, <3>3 DEF HostHears
    <3>5. ASSUME NEW d \in Device, At(d, j) PROVE EndsAgree(d, j)'
      <4>1. AllSent(d, j)'
        BY <1>4, <1>7, <2>2, <2>4, <3>1, <3>3, <3>5 DEF AllSent, Refused
      <4>2. ClientHears(d, j)' /\ OneKey(d, j)'
        BY <1>4, <1>6, <1>7, <2>4, <3>1, <3>5 DEF EndsAgree, ClientHears, OneKey, Phase
      <4> QED
        BY <4>1, <4>2 DEF EndsAgree
    <3> QED
      BY <1>2, <1>3, <1>5, <2>4, <3>1, <3>4, <3>5, ReadsOne
  <2>5. CASE /\ m.kind = "msg1" /\ Phase(j) = "none"
             /\ hconn' = [hconn EXCEPT ![j] = [NoSession EXCEPT !.phase = "msg3"]]
             /\ down' = Downstream(j, [kind |-> "msg2", key |-> hsock])
    <3>1. PICK f : f = [kind |-> "msg2", key |-> hsock]
      OBVIOUS
    <3>2. f.kind = "msg2" /\ f.key = hsock /\ down' = Downstream(j, f)
      BY <2>5, <3>1
    <3>3. /\ hconn' \in [ConnId -> [phase : Phases, sent : Nat, opened : Nat]]
          /\ hconn'[j].phase = "msg3" /\ hconn'[j].sent = 0 /\ hconn'[j].opened = 0
          /\ \A i \in ConnId : i # j => hconn'[i] = hconn[i]
      BY <1>4, <1>5, <2>5 DEF NoSession, Phases
    <3>4. /\ HostAwaits(j) = 1 /\ HostAwaits(j)' = 2 /\ Phase(j)' = "msg3"
          /\ HostIsAt(j) = 1 /\ HostIsAt(j)' = 2
      BY <2>5, <3>3 DEF HostAwaits, HostIsAt, Phase
    <3>5. FrameDown(f) /\ Keyed(f) /\ StepDown(f) = 1
      BY <3>2 DEF FrameDown, Keyed, StepDown
    <3>6. /\ down' = [i \in ConnId |-> down'[i]]
          /\ \A i \in ConnId : IsQueue(down'[i]) /\ \A g \in FramesOf(down'[i]) : FrameDown(g)
          /\ \A i \in ConnId : i # j => down'[i] = down[i]
          /\ \A d \in Device : At(d, j) => ClientHears(d, j)' /\ OneKey(d, j)'
      <4>1. /\ StepDown(f) = HostIsAt(j) /\ HostIsAt(j)' = HostIsAt(j) + 1
            /\ Phase(j) # "retired" /\ Phase(j)' # "retired"
        BY <1>10, <3>4, <3>5
      <4> QED
        BY <1>4, <3>2, <3>5, <4>1, NextDown
    <3>7. HostHears(j)'
      BY <2>2, <3>4 DEF HostHears
    <3>8. ASSUME NEW d \in Device, At(d, j) PROVE EndsAgree(d, j)'
      <4>1. AllSent(d, j)'
        BY <1>7, <2>2, <3>4, <3>8 DEF AllSent
      <4> QED
        BY <3>6, <3>8, <4>1 DEF EndsAgree
    <3> QED
      BY <1>2, <1>3, <3>3, <3>6, <3>7, <3>8, ReadsOne
  <2>6. CASE /\ \/ m.kind = "msg3" /\ Phase(j) = "msg3"
                   /\ hconn' = [hconn EXCEPT ![j].phase = "data"]
                \/ m.kind = "packet" /\ Phase(j) = "data"
                   /\ hconn' = [hconn EXCEPT ![j].opened = @ + 1]
             /\ down' = down
    <3>1. /\ hconn' \in [ConnId -> [phase : Phases, sent : Nat, opened : Nat]]
          /\ hconn'[j].phase = "data" /\ hconn'[j].sent = hconn[j].sent
          /\ hconn'[j].opened = IF Phase(j) = "msg3" THEN 0 ELSE hconn[j].opened + 1
          /\ \A i \in ConnId : i # j => hconn'[i] = hconn[i]
      <4>1. CASE m.kind = "msg3"
        BY <1>4, <1>5, <2>6, <4>1, ZenonT(40) DEF Phase, Phases
      <4>2. CASE m.kind = "packet"
        <5>1. Phase(j) = "data" /\ hconn[j].phase = "data"
          BY <2>6, <4>2 DEF Phase
        <5>2. hconn' = [hconn EXCEPT ![j].opened = @ + 1]
          BY <2>6, <4>2
        <5>3. hconn' \in [ConnId -> [phase : Phases, sent : Nat, opened : Nat]]
          <6>1. hconn[j] \in [phase : Phases, sent : Nat, opened : Nat] /\ hconn[j].opened + 1 \in Nat
            BY <1>4, <1>5
          <6>2. [hconn[j] EXCEPT !.opened = hconn[j].opened + 1]
                  \in [phase : Phases, sent : Nat, opened : Nat]
            BY <6>1
          <6>3. hconn' = [hconn EXCEPT ![j] = [hconn[j] EXCEPT !.opened = hconn[j].opened + 1]]
            BY <5>2
          <6> QED
            BY <1>5, <6>2, <6>3
        <5>4. /\ hconn'[j] = [hconn[j] EXCEPT !.opened = hconn[j].opened + 1]
              /\ \A i \in ConnId : i # j => hconn'[i] = hconn[i]
          BY <1>4, <1>5, <5>2
        <5> QED
          BY <1>4, <1>5, <5>1, <5>3, <5>4
      <4> QED
        BY <2>6, <4>1, <4>2
    <3>2. /\ Phase(j) \notin {"none", "retired"} /\ Phase(j)' = "data"
          /\ HostAwaits(j)' = HostAwaits(j) + 1 /\ HostIsAt(j)' = HostIsAt(j)
      BY <1>5, <2>6, <3>1 DEF HostAwaits, HostIsAt, Phase
    <3>3. HostHears(j)'
      BY <2>2, <3>2 DEF HostHears
    <3>4. ASSUME NEW d \in Device, At(d, j) PROVE EndsAgree(d, j)'
      <4>1. AllSent(d, j)'
        BY <1>7, <2>2, <3>2, <3>4 DEF AllSent
      <4>2. ClientHears(d, j)' /\ OneKey(d, j)'
        BY <1>4, <1>6, <1>7, <2>6, <3>2, <3>4 DEF EndsAgree, ClientHears, OneKey
      <4> QED
        BY <4>1, <4>2 DEF EndsAgree
    <3> QED
      BY <1>2, <1>3, <1>5, <2>6, <3>1, <3>2, <3>3, <3>4, ReadsOne
  <2> QED
    BY <2>3, <2>4, <2>5, <2>6
<1> QED
  BY <1>8, <1>9, <1>10

LEMMA SessionStepKeeps == SessionIInv /\ [SessionNext]_relayVars => SessionIInv'
<1> SUFFICES ASSUME SessionIInv, [SessionNext]_relayVars PROVE SessionIInv'
  OBVIOUS
<1>1. CASE HostConnects \/ RelayHearsHost \/ RelayLosesHost
  BY <1>1, HostStep
<1>2. CASE HostTimesOut \/ HostGivesUp
  BY <1>2, HostDownStep DEF HostTimesOut, HostGivesUp
<1>3. CASE HostReads
  BY <1>3, HostReadsStep
<1>4. ASSUME NEW i \in ConnId,
             RelayHearsClient(i) \/ RelayLosesClient(i) PROVE SessionIInv'
  BY <1>4, SocketCloseStep
<1>5. ASSUME NEW i \in ConnId, HostSends(i) PROVE SessionIInv'
  BY <1>5, HostSendsStep
<1>6. ASSUME NEW d \in Device,
             Dial(d) \/ ClientReads(d) \/ ClientSends(d) PROVE SessionIInv'
  BY <1>6, DialStep, ClientReadsStep, ClientSendsStep
<1>7. ASSUME NEW d \in Device, ClientTimesOut(d) \/ ClientGivesUp(d) PROVE SessionIInv'
  BY <1>7, DropStepOf DEF ClientTimesOut, ClientIsStuck, ClientGivesUp, hostVars
<1>8. CASE \/ \E d \in Device : RevokeHere(d) \/ RevokeByCli(d)
           \/ DetectExternalRevokes
           \/ \E e \in Newcomer : EnrollPeer(e)
           \/ UNCHANGED relayVars
  <2>1. /\ UNCHANGED <<hsock, rhost, gen, up, rconn, down, client>>
        /\ \/ hconn' = hconn
           \/ \E gone : hconn' = [i \in ConnId |-> DroppedBy(gone, i)]
    BY <1>8 DEF RevokeHere, RevokeByCli, DetectExternalRevokes, EnrollPeer, dropDevices,
                Uninvolved, relayVars
  <2> QED
    BY <2>1, RetireStep
<1> QED
  BY <1>1, <1>2, <1>3, <1>4, <1>5, <1>6, <1>7, <1>8 DEF SessionNext

LEMMA InOrderIsWhole == SessionIInv => SessionsAreWhole
<1> SUFFICES ASSUME SessionIInv PROVE SessionsAreWhole
  OBVIOUS
<1>1. Basics
  BY DEF SessionIInv, Basics
<1>2. ASSUME up # <<>> PROVE Fits(Head(up))
  <2>1. PICK m : m = Head(up)
    OBVIOUS
  <2>2. PICK j : j = m.conn
    OBVIOUS
  <2>3. FrameUp(m) /\ j \in ConnId
    BY <1>1, <1>2, <2>1, <2>2, FramesOfQueues DEF Basics, LinkTypeOK, FramesOK, FrameUp
  <2>4. hconn[j].phase \in Phases /\ hconn[j].opened \in Nat
    BY <1>1, <2>3 DEF Basics, LinkTypeOK
  <2>5. CASE Phase(j) = "retired" \/ m.kind = "client-disconnected"
    BY <2>1, <2>2, <2>3, <2>5 DEF Fits, FrameUp, Phase
  <2>6. CASE Phase(j) # "retired" /\ m.kind # "client-disconnected"
    <3>1. StepUp(j, m) # 0
      BY <2>2, <2>3, <2>6 DEF StepUp, FrameUp
    <3>2. StepUp(j, m) = HostAwaits(j)
      BY <1>2, <2>1, <2>3, <2>6, <3>1, NextRead
    <3>3. \/ m.kind = "msg1" /\ hconn[j].phase = "none"
          \/ m.kind = "msg3" /\ hconn[j].phase = "msg3" /\ m.key = hsock
          \/ m.kind = "packet" /\ hconn[j].phase = "data" /\ m.key = hsock /\ m.n = hconn[j].opened
      BY <2>2, <2>3, <2>4, <2>6, <3>2 DEF StepUp, HostAwaits, Phase, Phases, FrameUp
    <3> QED
      BY <2>1, <2>2, <3>3 DEF Fits
  <2> QED
    BY <2>5, <2>6
<1>3. ASSUME NEW d \in Device, client[d].state # "idle", down[client[d].conn] # <<>>
      PROVE  FitsClient(d, Head(down[client[d].conn]))
  <2>1. PICK j : j = client[d].conn
    OBVIOUS
  <2>2. PICK f : f = Head(down[j])
    OBVIOUS
  <2>3. j \in ConnId /\ At(d, j) /\ down[j] # <<>>
    BY <1>1, <1>3, <2>1 DEF Basics, LinkTypeOK, ClientsOK, At
  <2>4. f \in FramesOf(down[j]) /\ FrameDown(f)
    BY <1>1, <2>2, <2>3, FramesOfQueues DEF Basics, LinkTypeOK, FramesOK
  <2>5. client[d].state \in {"hello", "up"} /\ client[d].opened \in Nat
    BY <1>1, <1>3 DEF Basics, LinkTypeOK
  <2>6. CASE f.kind \in {"host-disconnected", "close"}
    BY <2>1, <2>2, <2>6 DEF FitsClient
  <2>7. CASE f.kind \in {"msg2", "packet"}
    <3>1. StepDown(f) # 0
      BY <2>4, <2>7 DEF StepDown, FrameDown
    <3>2. StepDown(f) = ClientAwaits(d)
      BY <2>2, <2>3, <3>1, NextHeard
    <3>3. client[d].state = "up" => f.key = client[d].key
      BY <2>3, <2>4, <2>7 DEF SessionIInv, EndsAgree, OneKey, Keyed
    <3>4. \/ f.kind = "msg2" /\ client[d].state = "hello"
          \/ f.kind = "packet" /\ client[d].state = "up" /\ f.key = client[d].key /\ f.n = client[d].opened
      BY <2>4, <2>5, <2>7, <3>2, <3>3 DEF StepDown, ClientAwaits, FrameDown
    <3> QED
      BY <2>1, <2>2, <3>4 DEF FitsClient
  <2> QED
    BY <2>4, <2>6, <2>7 DEF FrameDown
<1> QED
  BY <1>2, <1>3 DEF SessionsAreWhole

\* The next frame each end of a tunnel reads is one its session can take: a
\* handshake message in its turn, a packet under this session's keys with the
\* counter the end expects, however the host, the relay and the browsers lose
\* and replace their sockets (handleConn, onmessage, acceptHost, acceptClient).
THEOREM SessionsCorrect == SessionSpec => []SessionsAreWhole
<1> QED
  BY SessionStarts, SessionStepKeeps, InOrderIsWhole, PTL DEF SessionSpec

-----------------------------------------------------------------------------
(* The grant of a pairing.                                                 *)

\* A grant that still buys something has bought nothing yet.
GrantIInv ==
  /\ grant \in [live : BOOLEAN, code : BOOLEAN, token : {"minted", "rotated"}]
  /\ ~torn /\ grant.live => guests = {}
  /\ ~torn => guests = {} \/ \E g : guests = {g}

LEMMA GrantInit == PairingInit => GrantIInv
BY DEF PairingInit, GrantIInv

\* Only a live grant lets a device in, and is not live afterwards.
LEMMA GrantSpent ==
  ASSUME GrantIInv, NEW token, GrantBuys(token), NEW g, torn' = torn,
         guests' = guests \cup {g}, grant' = [grant EXCEPT !.live = FALSE]
  PROVE  GrantIInv'
BY DEF GrantIInv, GrantBuys

\* A grant that is left alone, or ends without buying anything.
LEMMA GrantKept ==
  ASSUME GrantIInv, torn' = torn, guests' = guests,
         \/ grant' = grant
         \/ grant' = [grant EXCEPT !.live = FALSE]
         \/ grant' = [grant EXCEPT !.code = FALSE, !.token = "rotated"]
  PROVE  GrantIInv'
BY DEF GrantIInv

LEMMA GrantNext == GrantIInv /\ [PairingNext]_pairingVars => GrantIInv'
<1> SUFFICES ASSUME GrantIInv, [PairingNext]_pairingVars PROVE GrantIInv'
  OBVIOUS
<1> USE DEF hostSide, localDoor
<1>1. CASE RoomExpires \/ HostJoins
  BY <1>1, GrantKept DEF RoomExpires, HostJoins
<1>2. CASE SessionReads
  <2>1. torn' = torn
    BY <1>2 DEF SessionReads
  <2>2. CASE UNCHANGED <<grant, guests>>
    BY <2>1, <2>2, GrantKept
  <2>3. ASSUME NEW k, HandleEnroll(k) PROVE GrantIInv'
    BY <2>1, <2>3, GrantKept, GrantSpent DEF HandleEnroll
  <2> QED
    BY <1>2, <2>2, <2>3 DEF SessionReads
<1>3. CASE HostDies
  <2>1. CASE UNCHANGED <<guests, torn>>
    BY <1>3, <2>1, GrantKept DEF HostDies
  <2>2. CASE torn' = TRUE
    BY <1>3, <2>2 DEF HostDies, GrantIInv
  <2> QED
    BY <1>3, <2>1, <2>2 DEF HostDies
<1>4. CASE GrantExpires
  BY <1>4, GrantKept DEF GrantExpires
<1>5. CASE ClaimReads \/ Records \/ DeadlinePasses
  BY <1>5, GrantKept DEF ClaimReads, Records, DeadlinePasses
<1>6. ASSUME NEW b \in Browser, NEW right \in BOOLEAN,
             ClaimStarts(b, right) PROVE GrantIInv'
  BY <1>6, GrantKept DEF ClaimStarts
<1>7. ASSUME NEW k \in Claims, RecordsLate(k) PROVE GrantIInv'
  BY <1>7, GrantKept DEF RecordsLate
<1>8. ASSUME NEW n \in Neighbour, Exchange(n) PROVE GrantIInv'
  BY <1>8, GrantKept DEF Exchange
<1>9. ASSUME NEW n \in Neighbour, CompletesLocally(n) PROVE GrantIInv'
  BY <1>9, GrantSpent DEF CompletesLocally, BuysLocally
<1>10. ASSUME NEW n \in Neighbour, DiesAtTheDoor(n) PROVE GrantIInv'
  BY <1>10 DEF DiesAtTheDoor, GrantIInv
<1>11. CASE UNCHANGED pairingVars
  BY <1>11, GrantKept DEF pairingVars
<1> QED
  BY <1>1, <1>2, <1>3, <1>4, <1>5, <1>6, <1>7, <1>8, <1>9, <1>10, <1>11 DEF PairingNext

\* One code enrolls at most one device, through whichever door, however claims,
\* retries and the local exchange interleave (complete, exchange,
\* replayEnrolledFor), unless the daemon dies between the two writes.
THEOREM GrantCorrect == PairingSpec => []GrantIsSpentOnce
<1>1. ASSUME GrantIInv PROVE GrantIsSpentOnce
  <2>1. CASE guests = {}
    BY <2>1, FS_EmptySet DEF GrantIsSpentOnce
  <2>2. ASSUME NEW g, guests = {g} PROVE GrantIsSpentOnce
    <3>1. Cardinality(guests) = 1
      BY <2>2, FS_Singleton
    <3> QED
      BY <3>1 DEF GrantIsSpentOnce
  <2> QED
    BY <1>1, <2>1, <2>2 DEF GrantIInv, GrantIsSpentOnce
<1> QED
  BY <1>1, GrantInit, GrantNext, PTL DEF PairingSpec

-----------------------------------------------------------------------------
(* The keys of a pairing.  A run of the exchange is a number, given out     *)
(* once: the claim that answered msgA with it is the only one the session   *)
(* can get to enroll in that run, for a claimant that joins in between      *)
(* restarts the exchange behind all the older claimant sent.               *)

Present == {"waiting", "answered", "keyed", "enrolling", "recording"}
Gone == {"done", "late", "lagged", "failed"}
ClaimType ==
  [who : Browser \cup {Nobody}, right : BOOLEAN, state : {"unused"} \cup Present \cup Gone,
   pake : Nat]

\* The claim k has run p of the exchange; Met: one of them has.
MetBy(k, p) == p > 0 /\ claim[k].pake = p
Met(p) == \E k \in Claims : MetBy(k, p)
NoJoin(q) == \A i \in DOMAIN q : q[i].kind # "peer-joined"
Lagged == \E k \in Claims : claim[k].state = "lagged"

\* What the session holds of the claim it has enrolled last.
EnrolledClaim ==
  \E k \in Claims :
    /\ MetBy(k, session.pake) /\ claim[k].state # "unused"
    /\ session.cached = claim[k].who /\ pairedKey[session.cached] = k
\* ... and that browser keeps the same key.
Settled ==
  /\ session.phase = "done"
  /\ Lagged \/ recorded[session.cached] = pairedKey[session.cached]

SessionType ==
  [joined : BOOLEAN, phase : {"idle", "msgB", "tagC", "enroll", "done"}, pake : Nat,
   tries : Nat, cached : Browser \cup {Nobody}, closed : BOOLEAN, paired : BOOLEAN]

PairingTypeOK ==
  /\ claim \in [Claims -> ClaimType] /\ slot \in Claims \cup {NoClaim}
  /\ session \in SessionType
  /\ pairedKey \in [Browser -> Claims \cup {NoClaim}]
  /\ recorded \in [Browser -> Claims \cup {NoClaim}]
  /\ IsQueue(toHost) /\ IsQueue(toClaimant)

ClaimsOK ==
  /\ \E n \in Nat : \A k \in Claims : claim[k].state = "unused" <=> k > n
  /\ \A k \in Claims :
       /\ claim[k].state = "unused" => claim[k].pake = 0
       /\ claim[k].state # "unused" => claim[k].who \in Browser
       /\ claim[k].state \in Present <=> k = slot
       /\ claim[k].state = "waiting" => claim[k].pake = 0
       /\ claim[k].state \in Present \ {"waiting"} => claim[k].pake > 0
       /\ claim[k].pake <= session.pake
       /\ \A j \in Claims : MetBy(j, claim[k].pake) => j = k

\* Frames to the session.
TagsOK ==
  \A i \in DOMAIN toHost : toHost[i].kind = "tagC" =>
    /\ Met(toHost[i].pake)
    /\ slot # NoClaim /\ MetBy(slot, toHost[i].pake) =>
         \A j \in DOMAIN toHost : toHost[j].kind = "peer-joined" => j < i
EnrollsOK ==
  \A i \in DOMAIN toHost : toHost[i].kind = "enroll" =>
    /\ toHost[i].claim \in Claims /\ MetBy(toHost[i].claim, session.pake)
    /\ claim[toHost[i].claim].state \in {"enrolling", "recording"} \cup Gone
    /\ \A j \in DOMAIN toHost : toHost[j].kind = "peer-joined" => i < j
DonesOK ==
  \A i \in DOMAIN toHost : toHost[i].kind = "done" =>
    Settled /\ \A j \in DOMAIN toHost : toHost[j].kind = "peer-joined" => i < j

\* Frames to the claimant.
OffersOK ==
  \A i \in DOMAIN toClaimant : toClaimant[i].kind = "msgA" =>
    /\ toClaimant[i].pake \in Nat \ {0} /\ toClaimant[i].pake <= session.pake
    /\ \A k \in Claims : claim[k].pake < toClaimant[i].pake
    /\ \A j \in DOMAIN toClaimant :
         j < i /\ toClaimant[j].kind = "msgA" => toClaimant[j].pake < toClaimant[i].pake
RepliesOK ==
  \A i \in DOMAIN toClaimant : toClaimant[i].kind \in {"tagH", "hello", "enrolled"} =>
    /\ Met(toClaimant[i].pake)
    /\ MetBy(slot, toClaimant[i].pake) => session.pake = toClaimant[i].pake /\ NoJoin(toHost)
    /\ MetBy(slot, toClaimant[i].pake) /\ toClaimant[i].kind = "enrolled" =>
         session.phase = "done"

\* The claim that has the keys of the current run.
KeyedOK ==
  slot # NoClaim =>
    /\ claim[slot].state \in {"keyed", "enrolling", "recording"} =>
         session.pake = claim[slot].pake /\ NoJoin(toHost)
    /\ claim[slot].state = "recording" => session.phase = "done"

KeysIInv ==
  /\ PairingTypeOK /\ ClaimsOK
  /\ TagsOK /\ EnrollsOK /\ DonesOK /\ OffersOK /\ RepliesOK /\ KeyedOK
  /\ slot = NoClaim => toClaimant = <<>>
  /\ session.joined => ~session.closed
  /\ ~session.joined => toHost = <<>>
  /\ session.cached # Nobody => session.cached \in guests
  /\ session.phase = "done" => session.cached # Nobody /\ EnrolledClaim
  /\ session.paired => session.closed /\ Settled

LEMMA Together ==
  ASSUME NEW q, NEW r, IsQueue(q), IsQueue(r)
  PROVE  /\ IsQueue(q \o r) /\ Len(q \o r) = Len(q) + Len(r)
         /\ \A i \in 1..Len(q) : (q \o r)[i] = q[i]
         /\ \A i \in 1..Len(r) : (q \o r)[Len(q) + i] = r[i]
<1>1. PICK S, T : q \in Seq(S) /\ r \in Seq(T)
  BY DEF IsQueue
<1>2. q \in Seq(S \cup T) /\ r \in Seq(S \cup T)
  BY <1>1
<1> QED
  BY <1>2, ConcatProperties, LenProperties DEF IsQueue

LEMMA Short ==
  /\ \A a : IsQueue(<<a>>) /\ Len(<<a>>) = 1 /\ <<a>>[1] = a
  /\ \A a, b : /\ IsQueue(<<a, b>>) /\ Len(<<a, b>>) = 2
               /\ <<a, b>>[1] = a /\ <<a, b>>[2] = b
<1>1. ASSUME NEW a PROVE IsQueue(<<a>>) /\ Len(<<a>>) = 1 /\ <<a>>[1] = a
  <2>1. <<a>> \in Seq({a})
    OBVIOUS
  <2> QED
    BY <2>1 DEF IsQueue
<1>2. ASSUME NEW a, NEW b
      PROVE  IsQueue(<<a, b>>) /\ Len(<<a, b>>) = 2 /\ <<a, b>>[1] = a /\ <<a, b>>[2] = b
  <2>1. <<a, b>> \in Seq({a, b})
    OBVIOUS
  <2> QED
    BY <2>1 DEF IsQueue
<1> QED
  BY <1>1, <1>2

\* What is left of a queue: all of it, or all but the head, or nothing.
Rest(q, r) ==
  \E d \in {0, 1} : \A i \in DOMAIN r : i \in Nat /\ i + d \in DOMAIN q /\ r[i] = q[i + d]

LEMMA Remains ==
  ASSUME NEW q, NEW r, IsQueue(q), r = q \/ r = <<>> \/ (q # <<>> /\ r = Tail(q))
  PROVE  /\ IsQueue(r)
         /\ Rest(q, r)
<1>1. CASE r = q
  <2>1. \A i \in DOMAIN r : i \in Nat /\ i + 0 \in DOMAIN q /\ r[i] = q[i + 0]
    BY <1>1, Queues
  <2> QED
    BY <1>1, <2>1 DEF Rest
<1>2. CASE r = <<>>
  <2>1. \A i \in DOMAIN r : FALSE
    BY <1>2, Queues
  <2> QED
    BY <1>2, <2>1, Queues DEF Rest
<1>3. CASE q # <<>> /\ r = Tail(q)
  <2>1. \A i \in DOMAIN r : i \in Nat /\ i + 1 \in DOMAIN q /\ r[i] = q[i + 1]
    BY <1>3, Queues, Shorter
  <2> QED
    BY <1>3, <2>1, Shorter DEF Rest
<1> QED
  BY <1>1, <1>2, <1>3

LEMMA KeysInit == PairingInit => KeysIInv
<1> SUFFICES ASSUME PairingInit PROVE KeysIInv
  OBVIOUS
<1> USE DEF PairingInit
<1>1. IsQueue(toHost) /\ IsQueue(toClaimant) /\ DOMAIN toHost = {} /\ DOMAIN toClaimant = {}
  BY Queues
<1>2. PairingTypeOK
  BY <1>1 DEF PairingTypeOK, SessionType, ClaimType, Unused, Claims
<1>3. ClaimsOK
  <2>1. \A k \in Claims : claim[k].state = "unused" <=> k > 0
    BY DEF Unused, Claims
  <2> QED
    BY <2>1 DEF ClaimsOK, Unused, Present, MetBy, Claims, NoClaim
<1> QED
  BY <1>1, <1>2, <1>3 DEF KeysIInv, TagsOK, EnrollsOK, DonesOK, OffersOK, RepliesOK, KeyedOK

\* A step of the session, or of what is around it, in the current run.
LEMMA HostMoves ==
  ASSUME KeysIInv, UNCHANGED <<claim, slot, recorded, pairedKey>>,
         session' \in SessionType,
         session'.pake = session.pake, session'.cached = session.cached,
         session'.phase = "done" <=> session.phase = "done",
         session'.joined => ~session'.closed, ~session'.joined => toHost' = <<>>,
         session'.paired => session'.closed /\ Settled,
         guests \subseteq guests',
         toHost' = toHost \/ toHost' = <<>> \/ (toHost # <<>> /\ toHost' = Tail(toHost)),
         NEW fr, IsQueue(fr),
         toClaimant' = IF slot = NoClaim THEN toClaimant ELSE toClaimant \o fr,
         \A i \in DOMAIN fr :
           \/ fr[i].kind = "close"
           \/ /\ fr[i].kind \in {"tagH", "hello"} /\ fr[i].pake = session.pake
              /\ Met(session.pake) /\ (MetBy(slot, session.pake) => NoJoin(toHost))
  PROVE  KeysIInv'
<1>1. /\ PairingTypeOK /\ ClaimsOK /\ TagsOK /\ EnrollsOK /\ DonesOK /\ OffersOK /\ RepliesOK
      /\ KeyedOK
  BY DEF KeysIInv
<1>2. IsQueue(toHost) /\ IsQueue(toClaimant)
  BY <1>1 DEF PairingTypeOK, SessionType
<1>3. IsQueue(toHost') /\ Rest(toHost, toHost')
  <2> DEFINE r == toHost'
  <2>1. r = toHost \/ r = <<>> \/ (toHost # <<>> /\ r = Tail(toHost))
    OBVIOUS
  <2> HIDE DEF r
  <2>2. IsQueue(r) /\ Rest(toHost, r)
    BY <1>2, <2>1, Remains
  <2> QED
    BY <2>2 DEF r
<1>4. PICK d \in {0, 1} : \A i \in DOMAIN toHost' :
        i \in Nat /\ i + d \in DOMAIN toHost /\ toHost'[i] = toHost[i + d]
  BY <1>3 DEF Rest
<1>5. /\ IsQueue(toClaimant')
      /\ \A i \in DOMAIN toClaimant' :
           \/ i \in DOMAIN toClaimant /\ toClaimant'[i] = toClaimant[i]
           \/ slot # NoClaim /\ \E x \in DOMAIN fr : toClaimant'[i] = fr[x]
      /\ \A i, j \in DOMAIN toClaimant' : j < i /\ i \in DOMAIN toClaimant => j \in DOMAIN toClaimant
  <2>1. CASE slot = NoClaim
    BY <1>2, <2>1
  <2>2. CASE slot # NoClaim
    <3>1. /\ IsQueue(toClaimant') /\ Len(toClaimant') = Len(toClaimant) + Len(fr)
          /\ \A i \in 1..Len(toClaimant) : toClaimant'[i] = toClaimant[i]
          /\ \A i \in 1..Len(fr) : toClaimant'[Len(toClaimant) + i] = fr[i]
      BY <1>2, <2>2, Together
    <3>2. /\ DOMAIN toClaimant' = 1..Len(toClaimant') /\ DOMAIN toClaimant = 1..Len(toClaimant)
          /\ DOMAIN fr = 1..Len(fr) /\ Len(fr) \in Nat /\ Len(toClaimant) \in Nat
      BY <1>2, <3>1, Queues
    <3>3. ASSUME NEW i \in DOMAIN toClaimant', i \notin DOMAIN toClaimant
          PROVE  \E x \in DOMAIN fr : toClaimant'[i] = fr[x]
      <4>1. i - Len(toClaimant) \in 1..Len(fr) /\ i = Len(toClaimant) + (i - Len(toClaimant))
        BY <3>1, <3>2, <3>3
      <4> QED
        BY <3>1, <3>2, <4>1
    <3> QED
      BY <2>2, <3>1, <3>2, <3>3
  <2> QED
    BY <2>1, <2>2
<1>6. NoJoin(toHost) => NoJoin(toHost')
  BY <1>4 DEF NoJoin
<1>7. PairingTypeOK' /\ ClaimsOK'
  BY <1>1, <1>3, <1>5 DEF PairingTypeOK, SessionType, ClaimsOK, MetBy, ClaimType
<1>8. TagsOK'
  <2> SUFFICES ASSUME NEW i \in DOMAIN toHost', toHost'[i].kind = "tagC"
               PROVE  /\ Met(toHost'[i].pake)
                      /\ slot # NoClaim /\ MetBy(slot, toHost'[i].pake) =>
                           \A j \in DOMAIN toHost' : toHost'[j].kind = "peer-joined" => j < i
    BY DEF TagsOK, Met, MetBy
  <2>1. i + d \in DOMAIN toHost /\ toHost[i + d].kind = "tagC" /\ toHost'[i] = toHost[i + d]
    BY <1>4
  <2>2. slot # NoClaim /\ MetBy(slot, toHost[i + d].pake) =>
          \A j \in DOMAIN toHost : toHost[j].kind = "peer-joined" => j < i + d
    BY <1>1, <2>1 DEF TagsOK
  <2>3. Met(toHost[i + d].pake)
    BY <1>1, <2>1 DEF TagsOK
  <2> QED
    BY <1>4, <2>1, <2>2, <2>3
<1>9. Settled' <=> Settled
  BY DEF Settled, Lagged
<1>10. EnrollsOK'
  <2> SUFFICES ASSUME NEW i \in DOMAIN toHost', toHost'[i].kind = "enroll"
               PROVE  /\ toHost'[i].claim \in Claims /\ MetBy(toHost'[i].claim, session.pake)
                      /\ claim[toHost'[i].claim].state \in {"enrolling", "recording"} \cup Gone
                      /\ \A j \in DOMAIN toHost' : toHost'[j].kind = "peer-joined" => i < j
    BY DEF EnrollsOK, MetBy
  <2>1. i + d \in DOMAIN toHost /\ toHost[i + d].kind = "enroll" /\ toHost'[i] = toHost[i + d]
    BY <1>4
  <2>2. /\ toHost[i + d].claim \in Claims /\ MetBy(toHost[i + d].claim, session.pake)
        /\ claim[toHost[i + d].claim].state \in {"enrolling", "recording"} \cup Gone
        /\ \A j \in DOMAIN toHost : toHost[j].kind = "peer-joined" => i + d < j
    BY <1>1, <2>1 DEF EnrollsOK
  <2>3. ASSUME NEW j \in DOMAIN toHost', toHost'[j].kind = "peer-joined" PROVE i < j
    <3>1. i + d < j + d
      BY <1>4, <2>2, <2>3
    <3> QED
      BY <1>4, <3>1
  <2> QED
    BY <2>1, <2>2, <2>3
<1>11. DonesOK'
  <2> SUFFICES ASSUME NEW i \in DOMAIN toHost', toHost'[i].kind = "done"
               PROVE  /\ Settled
                      /\ \A j \in DOMAIN toHost' : toHost'[j].kind = "peer-joined" => i < j
    BY <1>9 DEF DonesOK
  <2>1. i + d \in DOMAIN toHost /\ toHost[i + d].kind = "done" /\ toHost'[i] = toHost[i + d]
    BY <1>4
  <2> QED
    BY <1>1, <1>4, <2>1 DEF DonesOK
<1>12. OffersOK'
  <2> SUFFICES ASSUME NEW i \in DOMAIN toClaimant', toClaimant'[i].kind = "msgA"
               PROVE  /\ toClaimant'[i].pake \in Nat \ {0} /\ toClaimant'[i].pake <= session.pake
                      /\ \A k \in Claims : claim[k].pake < toClaimant'[i].pake
                      /\ \A j \in DOMAIN toClaimant' :
                           j < i /\ toClaimant'[j].kind = "msgA"
                             => toClaimant'[j].pake < toClaimant'[i].pake
    BY DEF OffersOK
  <2>1. i \in DOMAIN toClaimant /\ toClaimant'[i] = toClaimant[i]
    BY <1>5
  <2>2. \A j \in DOMAIN toClaimant' :
          j < i /\ toClaimant'[j].kind = "msgA" => j \in DOMAIN toClaimant /\ toClaimant'[j] = toClaimant[j]
    BY <1>5, <2>1
  <2> QED
    BY <1>1, <2>1, <2>2 DEF OffersOK
<1>13. RepliesOK'
  <2> SUFFICES ASSUME NEW i \in DOMAIN toClaimant',
                      toClaimant'[i].kind \in {"tagH", "hello", "enrolled"}
               PROVE  /\ Met(toClaimant'[i].pake)
                      /\ MetBy(slot, toClaimant'[i].pake) =>
                           session.pake = toClaimant'[i].pake /\ NoJoin(toHost)
                      /\ MetBy(slot, toClaimant'[i].pake) /\ toClaimant'[i].kind = "enrolled" =>
                           session.phase = "done"
    BY <1>6 DEF RepliesOK, Met, MetBy
  <2>1. CASE i \in DOMAIN toClaimant /\ toClaimant'[i] = toClaimant[i]
    BY <1>1, <2>1 DEF RepliesOK
  <2>2. CASE \E x \in DOMAIN fr : toClaimant'[i] = fr[x]
    BY <2>2
  <2> QED
    BY <1>5, <2>1, <2>2
<1>14. KeyedOK'
  BY <1>1, <1>6 DEF KeyedOK
<1>15. /\ slot' = NoClaim => toClaimant' = <<>>
       /\ session'.cached # Nobody => session'.cached \in guests'
       /\ session'.phase = "done" => session'.cached # Nobody /\ EnrolledClaim'
       /\ session'.paired => session'.closed /\ Settled'
  BY <1>9 DEF KeysIInv, EnrolledClaim, MetBy
<1> QED
  BY <1>7, <1>8, <1>10, <1>11, <1>12, <1>13, <1>14, <1>15 DEF KeysIInv

\* A claimant joins: the session restarts with a run of its own.
LEMMA RunStarts ==
  ASSUME KeysIInv, session.joined, toHost # <<>>, Head(toHost).kind = "peer-joined",
         session.tries < MaxTries,
         Sends(Restarted, <<[kind |-> "msgA", pake |-> session.pake + 1]>>),
         UNCHANGED <<claim, slot, recorded, pairedKey, guests>>
  PROVE  KeysIInv'
<1> DEFINE m == [kind |-> "msgA", pake |-> session.pake + 1]
<1>1. /\ PairingTypeOK /\ ClaimsOK /\ TagsOK /\ EnrollsOK /\ DonesOK /\ OffersOK /\ RepliesOK
      /\ KeyedOK /\ ~session.closed /\ ~session.paired
  BY DEF KeysIInv
<1>2. /\ session' = [session EXCEPT !.pake = @ + 1, !.phase = "msgB"]
      /\ toHost' = Tail(toHost)
      /\ toClaimant' = IF slot = NoClaim THEN toClaimant ELSE toClaimant \o <<m>>
  BY DEF Sends, Restarted, Forwarded
<1>3. IsQueue(toHost) /\ IsQueue(toClaimant) /\ session.pake \in Nat
  BY <1>1 DEF PairingTypeOK, SessionType
<1>4. /\ session'.pake = session.pake + 1 /\ session'.phase = "msgB" /\ session'.joined
      /\ ~session'.closed /\ ~session'.paired /\ session'.cached = session.cached
  BY <1>1, <1>2 DEF PairingTypeOK, SessionType
<1>5. /\ IsQueue(toHost') /\ 1 \in DOMAIN toHost /\ toHost[1].kind = "peer-joined"
      /\ \A i \in DOMAIN toHost' : i \in Nat /\ i >= 1 /\ i + 1 \in DOMAIN toHost
                                   /\ toHost'[i] = toHost[i + 1]
  BY <1>2, <1>3, Shorter, Queues
<1>6. /\ \A i \in DOMAIN toHost : toHost[i].kind \notin {"enroll", "done"}
      /\ ~NoJoin(toHost)
  <2>1. \A i \in DOMAIN toHost : ~(i < 1)
    BY <1>3, Queues
  <2> QED
    BY <1>1, <1>5, <2>1 DEF EnrollsOK, DonesOK, NoJoin
<1>7. /\ IsQueue(toClaimant')
      /\ \A i \in DOMAIN toClaimant' :
           \/ i \in DOMAIN toClaimant /\ toClaimant'[i] = toClaimant[i]
           \/ slot # NoClaim /\ i \notin DOMAIN toClaimant /\ toClaimant'[i] = m
      /\ \A i, j \in DOMAIN toClaimant' :
           /\ j < i /\ i \in DOMAIN toClaimant => j \in DOMAIN toClaimant
           /\ j < i /\ i \notin DOMAIN toClaimant => j \in DOMAIN toClaimant
  <2>1. CASE slot = NoClaim
    BY <1>2, <1>3, <2>1
  <2>2. CASE slot # NoClaim
    <3> HIDE DEF m
    <3>1. /\ IsQueue(<<m>>) /\ Len(<<m>>) = 1 /\ <<m>>[1] = m
      BY Short
    <3>2. /\ IsQueue(toClaimant') /\ Len(toClaimant') = Len(toClaimant) + 1
          /\ \A i \in 1..Len(toClaimant) : toClaimant'[i] = toClaimant[i]
          /\ toClaimant'[Len(toClaimant) + 1] = m
      BY <1>2, <1>3, <2>2, <3>1, Together
    <3>3. /\ DOMAIN toClaimant' = 1..Len(toClaimant') /\ DOMAIN toClaimant = 1..Len(toClaimant)
          /\ Len(toClaimant) \in Nat
      BY <1>3, <3>2, Queues
    <3> QED
      BY <2>2, <3>2, <3>3
  <2> QED
    BY <2>1, <2>2
<1>8. PairingTypeOK'
  <2>1. session' \in SessionType
    <3>1. session \in SessionType
      BY <1>1 DEF PairingTypeOK, SessionType
    <3>2. [session EXCEPT !.pake = session.pake + 1] \in SessionType
      BY <3>1 DEF SessionType
    <3>3. \A t \in SessionType : [t EXCEPT !.phase = "msgB"] \in SessionType
      BY DEF SessionType
    <3>4. session' = [[session EXCEPT !.pake = session.pake + 1] EXCEPT !.phase = "msgB"]
      BY <1>2, <3>1
    <3> QED
      BY <3>2, <3>3, <3>4
  <2> QED
    BY <1>1, <1>5, <1>7, <2>1 DEF PairingTypeOK, SessionType
<1>9. ClaimsOK'
  <2>1. \A k \in Claims : claim[k].pake \in Nat /\ claim[k].pake <= session.pake
    BY <1>1 DEF PairingTypeOK, SessionType, ClaimsOK, ClaimType
  <2> QED
    BY <1>1, <1>3, <1>4, <2>1 DEF ClaimsOK, MetBy
<1>10. TagsOK'
  <2> SUFFICES ASSUME NEW i \in DOMAIN toHost', toHost'[i].kind = "tagC"
               PROVE  /\ Met(toHost'[i].pake)
                      /\ slot # NoClaim /\ MetBy(slot, toHost'[i].pake) =>
                           \A j \in DOMAIN toHost' : toHost'[j].kind = "peer-joined" => j < i
    BY DEF TagsOK, Met, MetBy
  <2>1. i + 1 \in DOMAIN toHost /\ toHost[i + 1].kind = "tagC" /\ toHost'[i] = toHost[i + 1]
    BY <1>5
  <2>2. slot # NoClaim /\ MetBy(slot, toHost[i + 1].pake) =>
          \A j \in DOMAIN toHost : toHost[j].kind = "peer-joined" => j < i + 1
    BY <1>1, <2>1 DEF TagsOK
  <2>3. Met(toHost[i + 1].pake)
    BY <1>1, <2>1 DEF TagsOK
  <2> QED
    BY <1>5, <2>1, <2>2, <2>3
<1>11. EnrollsOK' /\ DonesOK'
  BY <1>5, <1>6 DEF EnrollsOK, DonesOK
<1>12. OffersOK'
  <2> SUFFICES ASSUME NEW i \in DOMAIN toClaimant', toClaimant'[i].kind = "msgA"
               PROVE  /\ toClaimant'[i].pake \in Nat \ {0} /\ toClaimant'[i].pake <= session.pake + 1
                      /\ \A k \in Claims : claim[k].pake < toClaimant'[i].pake
                      /\ \A j \in DOMAIN toClaimant' :
                           j < i /\ toClaimant'[j].kind = "msgA"
                             => toClaimant'[j].pake < toClaimant'[i].pake
    BY <1>4 DEF OffersOK
  <2>1. CASE i \in DOMAIN toClaimant
    <3>1. \A j \in DOMAIN toClaimant' : j < i => j \in DOMAIN toClaimant /\ toClaimant'[j] = toClaimant[j]
      BY <1>7, <2>1
    <3>2. toClaimant'[i] = toClaimant[i]
      BY <1>7, <2>1
    <3> QED
      BY <1>1, <1>3, <2>1, <3>1, <3>2 DEF OffersOK
  <2>2. CASE i \notin DOMAIN toClaimant
    <3>1. toClaimant'[i].pake = session.pake + 1
      BY <1>7, <2>2
    <3>2. \A j \in DOMAIN toClaimant' : j < i => j \in DOMAIN toClaimant /\ toClaimant'[j] = toClaimant[j]
      BY <1>7, <2>2
    <3>3. \A j \in DOMAIN toClaimant : toClaimant[j].kind = "msgA" =>
            toClaimant[j].pake \in Nat /\ toClaimant[j].pake <= session.pake
      BY <1>1 DEF OffersOK
    <3>4. \A k \in Claims : claim[k].pake \in Nat /\ claim[k].pake <= session.pake
      BY <1>1 DEF PairingTypeOK, SessionType, ClaimsOK, ClaimType
    <3> QED
      BY <1>3, <3>1, <3>2, <3>3, <3>4
  <2> QED
    BY <2>1, <2>2
<1>13. RepliesOK'
  <2> SUFFICES ASSUME NEW i \in DOMAIN toClaimant',
                      toClaimant'[i].kind \in {"tagH", "hello", "enrolled"}
               PROVE  Met(toClaimant'[i].pake) /\ ~MetBy(slot, toClaimant'[i].pake)
    BY DEF RepliesOK, Met, MetBy
  <2>1. i \in DOMAIN toClaimant /\ toClaimant'[i] = toClaimant[i]
    BY <1>7
  <2> QED
    BY <1>1, <1>6, <2>1 DEF RepliesOK
<1>14. KeyedOK'
  BY <1>1, <1>6 DEF KeyedOK
<1> QED
  BY <1>4, <1>2, <1>8, <1>9, <1>10, <1>11, <1>12, <1>13, <1>14 DEF KeysIInv

\* The claim k is enrolled: its key is the one the host stores.
LEMMA EnrollStep ==
  ASSUME KeysIInv, session.joined, toHost # <<>>, Head(toHost).kind = "enroll",
         NEW k, k = Head(toHost).claim, session.phase = "enroll", Enrolled(k),
         guests \subseteq guests', claim[k].who \in guests',
         pairedKey' = [pairedKey EXCEPT ![claim[k].who] = k],
         UNCHANGED <<claim, slot, recorded>>
  PROVE  KeysIInv'
<1> DEFINE m == [kind |-> "enrolled", pake |-> session.pake]
<1>1. /\ PairingTypeOK /\ ClaimsOK /\ TagsOK /\ EnrollsOK /\ DonesOK /\ OffersOK /\ RepliesOK
      /\ KeyedOK /\ ~session.closed /\ ~session.paired
  BY DEF KeysIInv
<1>2. /\ session' = [session EXCEPT !.phase = "done", !.cached = claim[k].who]
      /\ toHost' = Tail(toHost)
      /\ toClaimant' = IF slot = NoClaim THEN toClaimant ELSE toClaimant \o <<m>>
  BY DEF Sends, Enrolled, Forwarded
<1>3. IsQueue(toHost) /\ IsQueue(toClaimant) /\ session.pake \in Nat
  BY <1>1 DEF PairingTypeOK, SessionType
<1>4. /\ session'.pake = session.pake /\ session'.phase = "done" /\ session'.joined
      /\ ~session'.closed /\ ~session'.paired /\ session'.cached = claim[k].who
  BY <1>1, <1>2 DEF PairingTypeOK, SessionType
<1>5. /\ IsQueue(toHost') /\ 1 \in DOMAIN toHost /\ toHost[1] = Head(toHost)
      /\ \A i \in DOMAIN toHost' : i \in Nat /\ i >= 1 /\ i + 1 \in DOMAIN toHost
                                   /\ toHost'[i] = toHost[i + 1]
  BY <1>2, <1>3, Shorter, Queues
<1>6. /\ k \in Claims /\ MetBy(k, session.pake)
      /\ claim[k].state \in {"enrolling", "recording"} \cup Gone
      /\ claim[k].who \in Browser /\ claim[k].who # Nobody
  <2>1. /\ k \in Claims /\ MetBy(k, session.pake)
        /\ claim[k].state \in {"enrolling", "recording"} \cup Gone
    BY <1>1, <1>5 DEF EnrollsOK
  <2>2. claim[k].state # "unused"
    BY <2>1 DEF Gone
  <2>3. claim[k].who \in Browser
    BY <1>1, <2>1, <2>2 DEF ClaimsOK
  <2> QED
    BY <2>1, <2>3, PairingConstants
<1>7. \A i \in DOMAIN toHost : toHost[i].kind # "done"
  BY <1>1 DEF DonesOK, Settled
<1>8. slot # NoClaim /\ MetBy(slot, session.pake) => NoJoin(toHost)
  <2> SUFFICES ASSUME slot # NoClaim, MetBy(slot, session.pake) PROVE NoJoin(toHost)
    OBVIOUS
  <2>1. slot \in Claims
    BY <1>1 DEF PairingTypeOK, SessionType
  <2>2. slot = k
    BY <1>1, <1>6, <2>1 DEF ClaimsOK, MetBy
  <2>3. claim[k].state \in Present
    BY <1>1, <2>1, <2>2 DEF ClaimsOK
  <2>4. claim[k].state \in {"enrolling", "recording"}
    BY <1>6, <2>3 DEF Present, Gone
  <2> QED
    BY <1>1, <2>2, <2>4 DEF KeyedOK
<1>9. NoJoin(toHost) => NoJoin(toHost')
  BY <1>5 DEF NoJoin
<1>10. /\ IsQueue(toClaimant')
       /\ \A i \in DOMAIN toClaimant' :
            \/ i \in DOMAIN toClaimant /\ toClaimant'[i] = toClaimant[i]
            \/ slot # NoClaim /\ i \notin DOMAIN toClaimant /\ toClaimant'[i] = m
       /\ \A i, j \in DOMAIN toClaimant' :
            j < i /\ i \in DOMAIN toClaimant => j \in DOMAIN toClaimant
  <2>1. CASE slot = NoClaim
    BY <1>2, <1>3, <2>1
  <2>2. CASE slot # NoClaim
    <3> HIDE DEF m
    <3>1. /\ IsQueue(<<m>>) /\ Len(<<m>>) = 1 /\ <<m>>[1] = m
      BY Short
    <3>2. /\ IsQueue(toClaimant') /\ Len(toClaimant') = Len(toClaimant) + 1
          /\ \A i \in 1..Len(toClaimant) : toClaimant'[i] = toClaimant[i]
          /\ toClaimant'[Len(toClaimant) + 1] = m
      BY <1>2, <1>3, <2>2, <3>1, Together
    <3>3. /\ DOMAIN toClaimant' = 1..Len(toClaimant') /\ DOMAIN toClaimant = 1..Len(toClaimant)
          /\ Len(toClaimant) \in Nat
      BY <1>3, <3>2, Queues
    <3> QED
      BY <2>2, <3>2, <3>3
  <2> QED
    BY <2>1, <2>2
<1>11. PairingTypeOK'
  <2>1. session \in SessionType
    BY <1>1 DEF PairingTypeOK, SessionType
  <2>2. [session EXCEPT !.phase = "done"] \in SessionType
    BY <2>1 DEF SessionType
  <2>3. \A t \in SessionType : [t EXCEPT !.cached = claim[k].who] \in SessionType
    BY <1>6 DEF SessionType
  <2>4. session' = [[session EXCEPT !.phase = "done"] EXCEPT !.cached = claim[k].who]
    BY <1>2, <2>1
  <2>5. session' \in SessionType
    BY <2>2, <2>3, <2>4
  <2>6. pairedKey' \in [Browser -> Claims \cup {NoClaim}]
    BY <1>1, <1>6 DEF PairingTypeOK, SessionType
  <2> QED
    BY <1>1, <1>5, <1>10, <2>5, <2>6 DEF PairingTypeOK, SessionType
<1>12. ClaimsOK'
  BY <1>1, <1>4 DEF ClaimsOK, MetBy
<1>13. TagsOK'
  <2> SUFFICES ASSUME NEW i \in DOMAIN toHost', toHost'[i].kind = "tagC"
               PROVE  /\ Met(toHost'[i].pake)
                      /\ slot # NoClaim /\ MetBy(slot, toHost'[i].pake) =>
                           \A j \in DOMAIN toHost' : toHost'[j].kind = "peer-joined" => j < i
    BY DEF TagsOK, Met, MetBy
  <2>1. i + 1 \in DOMAIN toHost /\ toHost[i + 1].kind = "tagC" /\ toHost'[i] = toHost[i + 1]
    BY <1>5
  <2>2. slot # NoClaim /\ MetBy(slot, toHost[i + 1].pake) =>
          \A j \in DOMAIN toHost : toHost[j].kind = "peer-joined" => j < i + 1
    BY <1>1, <2>1 DEF TagsOK
  <2>3. Met(toHost[i + 1].pake)
    BY <1>1, <2>1 DEF TagsOK
  <2> QED
    BY <1>5, <2>1, <2>2, <2>3
<1>14. EnrollsOK'
  <2> SUFFICES ASSUME NEW i \in DOMAIN toHost', toHost'[i].kind = "enroll"
               PROVE  /\ toHost'[i].claim \in Claims /\ MetBy(toHost'[i].claim, session.pake)
                      /\ claim[toHost'[i].claim].state \in {"enrolling", "recording"} \cup Gone
                      /\ \A j \in DOMAIN toHost' : toHost'[j].kind = "peer-joined" => i < j
    BY <1>4 DEF EnrollsOK, MetBy
  <2>1. i + 1 \in DOMAIN toHost /\ toHost[i + 1].kind = "enroll" /\ toHost'[i] = toHost[i + 1]
    BY <1>5
  <2> QED
    BY <1>1, <1>5, <2>1 DEF EnrollsOK
<1>15. DonesOK'
  BY <1>5, <1>7 DEF DonesOK
<1>16. OffersOK'
  <2> SUFFICES ASSUME NEW i \in DOMAIN toClaimant', toClaimant'[i].kind = "msgA"
               PROVE  /\ toClaimant'[i].pake \in Nat \ {0} /\ toClaimant'[i].pake <= session.pake
                      /\ \A c \in Claims : claim[c].pake < toClaimant'[i].pake
                      /\ \A j \in DOMAIN toClaimant' :
                           j < i /\ toClaimant'[j].kind = "msgA"
                             => toClaimant'[j].pake < toClaimant'[i].pake
    BY <1>4 DEF OffersOK
  <2>1. i \in DOMAIN toClaimant /\ toClaimant'[i] = toClaimant[i]
    BY <1>10
  <2>2. \A j \in DOMAIN toClaimant' : j < i => j \in DOMAIN toClaimant /\ toClaimant'[j] = toClaimant[j]
    BY <1>10, <2>1
  <2> QED
    BY <1>1, <2>1, <2>2 DEF OffersOK
<1>17. RepliesOK'
  <2> SUFFICES ASSUME NEW i \in DOMAIN toClaimant',
                      toClaimant'[i].kind \in {"tagH", "hello", "enrolled"}
               PROVE  /\ Met(toClaimant'[i].pake)
                      /\ MetBy(slot, toClaimant'[i].pake) =>
                           session.pake = toClaimant'[i].pake /\ NoJoin(toHost)
    BY <1>4, <1>9 DEF RepliesOK, Met, MetBy
  <2>1. CASE i \in DOMAIN toClaimant /\ toClaimant'[i] = toClaimant[i]
    BY <1>1, <2>1 DEF RepliesOK
  <2>2. CASE slot # NoClaim /\ toClaimant'[i] = m
    BY <1>6, <1>8, <2>2 DEF Met
  <2> QED
    BY <1>10, <2>1, <2>2
<1>18. KeyedOK'
  BY <1>1, <1>4, <1>9 DEF KeyedOK
<1>19. session'.cached \in guests' /\ EnrolledClaim'
  <2>1. claim[k].state # "unused"
    BY <1>6 DEF Gone
  <2>2. pairedKey'[claim[k].who] = k
    BY <1>1, <1>6 DEF PairingTypeOK, SessionType
  <2> QED
    BY <1>4, <1>6, <2>1, <2>2 DEF EnrolledClaim, MetBy
<1>20. slot' = NoClaim => toClaimant' = <<>>
  BY <1>2 DEF KeysIInv
<1> QED
  BY <1>4, <1>6, <1>11, <1>12, <1>13, <1>14, <1>15, <1>16, <1>17, <1>18, <1>19, <1>20
  DEF KeysIInv

LEMMA Shutting ==
  ASSUME NEW s \in SessionType
  PROVE  /\ Shut(s) \in SessionType /\ Shut(s).pake = s.pake /\ Shut(s).cached = s.cached
         /\ Shut(s).phase = s.phase /\ ~Shut(s).joined /\ Shut(s).closed
         /\ Shut(s).paired = s.paired
<1>1. Shut(s) = [[s EXCEPT !.joined = FALSE] EXCEPT !.closed = TRUE]
  BY DEF Shut, SessionType
<1>2. \A t \in SessionType : [t EXCEPT !.joined = FALSE] \in SessionType
  BY DEF SessionType
<1>3. \A t \in SessionType : [t EXCEPT !.closed = TRUE] \in SessionType
  BY DEF SessionType
<1>4. Shut(s) \in SessionType
  BY <1>1, <1>2, <1>3
<1> QED
  BY <1>4 DEF SessionType, Shut

\* HostMoves, of a step that leaves the session its phase and closes it at most.
LEMMA Closing ==
  ASSUME KeysIInv, UNCHANGED <<claim, slot, recorded, pairedKey>>,
         session' = Shut(session) \/ session' = session,
         toHost' = <<>>,
         guests \subseteq guests',
         toClaimant' = Forwarded(<<ClosedNotice>>) \/ toClaimant' = toClaimant
  PROVE  KeysIInv'
<1>1. session \in SessionType /\ IsQueue(toClaimant)
  BY DEF KeysIInv, PairingTypeOK, SessionType
<1>2. /\ session' \in SessionType
      /\ session'.pake = session.pake /\ session'.cached = session.cached
      /\ session'.phase = session.phase /\ session'.paired = session.paired
      /\ session'.joined => ~session'.closed
      /\ session'.paired => session'.closed /\ Settled
  BY <1>1, Shutting DEF KeysIInv
<1>3. CASE toClaimant' = Forwarded(<<ClosedNotice>>)
  <2> DEFINE fr == <<ClosedNotice>>
  <2>1. IsQueue(fr) /\ \A i \in DOMAIN fr : fr[i].kind = "close"
    BY Short, Queues DEF ClosedNotice
  <2>2. toClaimant' = IF slot = NoClaim THEN toClaimant ELSE toClaimant \o fr
    BY <1>3 DEF Forwarded
  <2> HIDE DEF fr
  <2> QED
    BY <1>2, <2>1, <2>2, HostMoves DEF SessionType
<1>4. CASE toClaimant' = toClaimant
  <2> DEFINE fr == <<>>
  <2>1. IsQueue(fr) /\ \A i \in DOMAIN fr : FALSE
    BY Queues
  <2>2. toClaimant' = IF slot = NoClaim THEN toClaimant ELSE toClaimant \o fr
    <3>1. PICK S : toClaimant \in Seq(S)
      BY <1>1 DEF IsQueue
    <3>2. toClaimant \o fr = toClaimant
      BY <3>1, ConcatEmptySeq
    <3> QED
      BY <1>4, <3>2
  <2> HIDE DEF fr
  <2> QED
    BY <1>2, <2>1, <2>2, HostMoves DEF SessionType
<1> QED
  BY <1>3, <1>4

\* ... and of one that sends nothing, with or without the head of the queue.
LEMMA Silent ==
  ASSUME KeysIInv, UNCHANGED <<claim, slot, recorded, pairedKey>>,
         session' \in SessionType, session'.pake = session.pake,
         session'.cached = session.cached, session'.phase = "done" <=> session.phase = "done",
         session'.joined => ~session'.closed, ~session'.joined => toHost' = <<>>,
         session'.paired => session'.closed /\ Settled,
         toHost' = toHost \/ (toHost # <<>> /\ toHost' = Tail(toHost)),
         guests \subseteq guests',
         toClaimant' = Forwarded(<<>>) \/ toClaimant' = toClaimant
  PROVE  KeysIInv'
<1> DEFINE fr == <<>>
<1>1. IsQueue(fr) /\ \A i \in DOMAIN fr : FALSE
  BY Queues
<1>2. toClaimant' = IF slot = NoClaim THEN toClaimant ELSE toClaimant \o fr
  <2>1. PICK S : toClaimant \in Seq(S)
    BY DEF IsQueue, KeysIInv, PairingTypeOK
  <2>2. toClaimant \o fr = toClaimant
    BY <2>1, ConcatEmptySeq
  <2> QED
    BY <2>2 DEF Forwarded
<1> HIDE DEF fr
<1> QED
  BY <1>1, <1>2, HostMoves DEF SessionType

LEMMA FailStep ==
  ASSUME KeysIInv, session.joined, toHost # <<>>, session.phase # "done", FailAttempt,
         UNCHANGED <<claim, slot, recorded, pairedKey, guests>>
  PROVE  KeysIInv'
<1> DEFINE s == [session EXCEPT !.tries = session.tries + 1, !.phase = "idle"]
<1>1. session \in SessionType /\ ~session.paired /\ ~session.closed
  BY DEF KeysIInv, PairingTypeOK, SessionType
<1>2. /\ s \in SessionType /\ s.pake = session.pake /\ s.cached = session.cached
      /\ s.phase = "idle" /\ ~s.paired /\ ~s.closed /\ s.joined
  <2>1. session.tries + 1 \in Nat
    BY <1>1 DEF SessionType
  <2>2. \A t \in SessionType : [t EXCEPT !.tries = session.tries + 1] \in SessionType
    BY <2>1 DEF SessionType
  <2>3. \A t \in SessionType : [t EXCEPT !.phase = "idle"] \in SessionType
    BY DEF SessionType
  <2>4. s = [[session EXCEPT !.tries = session.tries + 1] EXCEPT !.phase = "idle"]
    BY <1>1 DEF SessionType
  <2>5. s \in SessionType
    BY <1>1, <2>2, <2>3, <2>4
  <2> QED
    BY <1>1, <2>5 DEF SessionType
<1>3. /\ \/ session' = Shut(s) /\ toHost' = <<>>
         \/ session' = s /\ toHost' = Tail(toHost)
      /\ toClaimant' = Forwarded(<<ClosedNotice>>)
  <2> DEFINE dead == session.tries + 1 >= MaxTries \/ room.attempts + 1 >= MaxTries
  <2>1. /\ session' = IF dead THEN Shut(s) ELSE s
        /\ toHost' = IF dead THEN <<>> ELSE Tail(toHost)
        /\ toClaimant' = Forwarded(<<ClosedNotice>>)
    BY DEF FailAttempt
  <2> HIDE DEF dead, s
  <2> QED
    BY <2>1
<1> HIDE DEF s
<1>4. /\ session' \in SessionType
      /\ session'.pake = session.pake /\ session'.cached = session.cached
      /\ session'.phase = "idle" /\ ~session'.paired
      /\ session'.joined => ~session'.closed
      /\ ~session'.joined => toHost' = <<>>
  BY <1>2, <1>3, Shutting
<1> DEFINE fr == <<ClosedNotice>>
<1>5. IsQueue(fr) /\ \A i \in DOMAIN fr : fr[i].kind = "close"
  BY Short, Queues DEF ClosedNotice
<1>6. toClaimant' = IF slot = NoClaim THEN toClaimant ELSE toClaimant \o fr
  BY <1>3 DEF Forwarded
<1> HIDE DEF fr
<1> QED
  BY <1>3, <1>4, <1>5, <1>6, HostMoves DEF SessionType

LEMMA SessionReadsStep ==
  ASSUME KeysIInv, SessionReads
  PROVE  KeysIInv'
<1> DEFINE m == Head(toHost)
<1>1. /\ session \in SessionType /\ session.joined /\ ~session.closed /\ ~session.paired
      /\ toHost # <<>> /\ UNCHANGED <<claim, slot, recorded>>
      /\ IsQueue(toHost) /\ 1 \in DOMAIN toHost /\ toHost[1] = m
  <2>1. IsQueue(toHost) /\ toHost # <<>>
    BY DEF KeysIInv, PairingTypeOK, SessionReads
  <2> QED
    BY <2>1, Shorter, Queues DEF KeysIInv, PairingTypeOK, SessionType, SessionReads
<1>2. ASSUME NEW s, s \in SessionType, s.pake = session.pake, s.cached = session.cached,
             s.phase = "done" <=> session.phase = "done", s.joined, ~s.closed, ~s.paired,
             Sends(s, <<>>), UNCHANGED <<grant, guests, pairedKey>>
      PROVE  KeysIInv'
  BY <1>1, <1>2, Silent DEF Sends
<1>3. CASE /\ m.kind = "peer-joined"
           /\ IF session.tries < MaxTries
                THEN Sends(Restarted, <<[kind |-> "msgA", pake |-> session.pake + 1]>>)
                ELSE Sends(session, <<>>)
           /\ UNCHANGED <<grant, guests, pairedKey>>
  <2>1. CASE session.tries < MaxTries
    BY <1>1, <1>3, <2>1, RunStarts
  <2>2. CASE ~(session.tries < MaxTries)
    BY <1>1, <1>2, <1>3, <2>2
  <2> QED
    BY <2>1, <2>2
<1>4. CASE /\ m.kind = "msgB"
           /\ Sends([session EXCEPT !.phase = IF @ = "msgB" THEN "tagC" ELSE @], <<>>)
           /\ UNCHANGED <<grant, guests, pairedKey>>
  <2> DEFINE s == [session EXCEPT !.phase = IF @ = "msgB" THEN "tagC" ELSE @]
  <2>1. /\ s \in SessionType /\ s.pake = session.pake /\ s.cached = session.cached
        /\ s.phase = "done" <=> session.phase = "done"
        /\ s.joined /\ ~s.closed /\ ~s.paired
    BY <1>1 DEF SessionType
  <2>2. Sends(s, <<>>)
    BY <1>4
  <2> HIDE DEF s
  <2> QED
    BY <1>2, <1>4, <2>1, <2>2
<1>5. CASE /\ m.kind = "tagC" /\ session.phase = "tagC" /\ m.pake = session.pake
           /\ Sends([session EXCEPT !.phase = "enroll"],
                    <<[kind |-> "tagH", pake |-> session.pake], [kind |-> "hello", pake |-> session.pake]>>)
           /\ UNCHANGED <<grant, guests, pairedKey>>
  <2> DEFINE a == [kind |-> "tagH", pake |-> session.pake]
             b == [kind |-> "hello", pake |-> session.pake]
             fr == <<a, b>>
             s == [session EXCEPT !.phase = "enroll"]
  <2>1. /\ s \in SessionType /\ s.pake = session.pake /\ s.cached = session.cached
        /\ s.phase = "enroll" /\ s.joined /\ ~s.closed /\ ~s.paired
    BY <1>1 DEF SessionType
  <2>2. session' = s /\ toHost' = Tail(toHost)
        /\ toClaimant' = IF slot = NoClaim THEN toClaimant ELSE toClaimant \o fr
    BY <1>5 DEF Sends, Forwarded
  <2>3. /\ a.kind = "tagH" /\ b.kind = "hello" /\ a.pake = session.pake /\ b.pake = session.pake
    OBVIOUS
  <2>4. Met(session.pake) /\ (slot # NoClaim /\ MetBy(slot, session.pake) => NoJoin(toHost))
    <3>1. TagsOK
      BY DEF KeysIInv
    <3>2. \A j \in DOMAIN toHost : ~(j < 1)
      BY <1>1, Queues
    <3> QED
      BY <1>1, <1>5, <3>1, <3>2 DEF TagsOK, NoJoin
  <2> HIDE DEF a, b
  <2>5. IsQueue(fr) /\ \A i \in DOMAIN fr : fr[i] = a \/ fr[i] = b
    <3>1. IsQueue(fr) /\ Len(fr) = 2 /\ fr[1] = a /\ fr[2] = b
      BY Short
    <3> QED
      BY <3>1, Queues
  <2> HIDE DEF fr, s
  <2>6. CASE slot # NoClaim
    BY <1>1, <1>5, <2>1, <2>2, <2>3, <2>4, <2>5, <2>6, HostMoves DEF SessionType
  <2>7. CASE slot = NoClaim
    BY <1>1, <1>5, <2>1, <2>2, <2>7, Silent
  <2> QED
    BY <2>6, <2>7
<1>6. CASE /\ m.kind = "tagC" /\ session.phase = "tagC" /\ FailAttempt
           /\ UNCHANGED <<grant, guests, pairedKey>>
  BY <1>1, <1>6, FailStep
<1>7. CASE m.kind = "enroll" /\ session.phase = "enroll" /\ HandleEnroll(m.claim)
  <2> DEFINE k == m.claim
  <2>1. HandleEnroll(k) /\ k = Head(toHost).claim
    BY <1>7
  <2>2. k \in Claims /\ claim[k].who \in Browser /\ claim[k].who # Nobody
    <3>1. /\ k \in Claims /\ claim[k].state \in {"enrolling", "recording"} \cup Gone
      BY <1>1, <1>7 DEF KeysIInv, EnrollsOK
    <3>2. claim[k].state # "unused"
      BY <3>1 DEF Gone
    <3>3. claim[k].who \in Browser
      BY <3>1, <3>2 DEF KeysIInv, ClaimsOK
    <3> QED
      BY <3>1, <3>3, PairingConstants
  <2>3. session.cached # Nobody => session.cached \in guests
    BY DEF KeysIInv
  <2> HIDE DEF k
  <2>4. CASE Enrolled(k) /\ guests' = guests \cup {claim[k].who}
             /\ pairedKey' = [pairedKey EXCEPT ![claim[k].who] = k]
    BY <1>1, <1>7, <2>1, <2>4, EnrollStep
  <2>5. CASE Enrolled(k) /\ session.cached = claim[k].who /\ guests' = guests
             /\ pairedKey' = [pairedKey EXCEPT ![claim[k].who] = k]
    BY <1>1, <1>7, <2>1, <2>2, <2>3, <2>5, EnrollStep
  <2>6. CASE FailAttempt /\ UNCHANGED <<guests, grant, pairedKey>>
    BY <1>1, <1>7, <2>6, FailStep
  <2> QED
    BY <2>1, <2>4, <2>5, <2>6 DEF HandleEnroll, Replayed
<1>8. CASE /\ m.kind = "done" /\ session.phase = "done"
           /\ session' = [Shut(session) EXCEPT !.paired = TRUE]
           /\ room' = Burnt /\ toHost' = <<>>
           /\ toClaimant' = Forwarded(<<ClosedNotice>>)
           /\ UNCHANGED <<grant, guests, pairedKey>>
  <2>1. Settled
    BY <1>1, <1>8 DEF KeysIInv, DonesOK
  <2>2. Shut(session) \in SessionType /\ Shut(session).pake = session.pake
        /\ Shut(session).cached = session.cached /\ Shut(session).phase = session.phase
        /\ ~Shut(session).joined /\ Shut(session).closed
    BY <1>1, Shutting
  <2> DEFINE t == Shut(session)
  <2>3. session' = [t EXCEPT !.paired = TRUE] /\ t \in SessionType
    BY <1>8, <2>2
  <2> HIDE DEF t
  <2>4. /\ session' \in SessionType /\ session'.pake = t.pake /\ session'.cached = t.cached
        /\ session'.phase = t.phase /\ session'.joined = t.joined /\ session'.closed = t.closed
    BY <2>3 DEF SessionType
  <2> DEFINE fr == <<ClosedNotice>>
  <2>5. IsQueue(fr) /\ \A i \in DOMAIN fr : fr[i].kind = "close"
    BY Short, Queues DEF ClosedNotice
  <2>6. toClaimant' = IF slot = NoClaim THEN toClaimant ELSE toClaimant \o fr
    BY <1>8 DEF Forwarded
  <2>7. /\ session'.pake = session.pake /\ session'.cached = session.cached
        /\ session'.phase = session.phase /\ ~session'.joined /\ session'.closed
    BY <2>2, <2>4 DEF t
  <2> HIDE DEF fr
  <2> QED
    BY <1>1, <1>8, <2>1, <2>4, <2>5, <2>6, <2>7, HostMoves DEF SessionType
<1>9. CASE Sends(session, <<>>) /\ UNCHANGED <<grant, guests, pairedKey>>
  BY <1>1, <1>2, <1>9
<1> QED
  BY <1>3, <1>4, <1>5, <1>6, <1>7, <1>8, <1>9 DEF SessionReads

\* A claim changes its state, not its run.
LEMMA StateChange ==
  ASSUME KeysIInv, slot # NoClaim, NEW st, st \in Present \cup (Gone \ {"lagged"}),
         claim' = [claim EXCEPT ![slot].state = st]
  PROVE  /\ claim' \in [Claims -> ClaimType]
         /\ \A k \in Claims : /\ claim'[k].pake = claim[k].pake /\ claim'[k].who = claim[k].who
                              /\ claim'[k].state = IF k = slot THEN st ELSE claim[k].state
         /\ \A k \in Claims : claim'[k].state = "unused" <=> claim[k].state = "unused"
         /\ Lagged' <=> Lagged
         /\ slot \in Claims /\ claim[slot].state \in Present
<1>1. claim \in [Claims -> ClaimType] /\ slot \in Claims /\ claim[slot].state \in Present
  BY DEF KeysIInv, PairingTypeOK, ClaimsOK
<1>2. [claim[slot] EXCEPT !.state = st] \in ClaimType
  BY <1>1 DEF ClaimType
<1>3. claim' = [claim EXCEPT ![slot] = [claim[slot] EXCEPT !.state = st]]
  BY <1>1
<1>4. claim' \in [Claims -> ClaimType]
  BY <1>1, <1>2, <1>3
<1>5. \A k \in Claims : /\ claim'[k].pake = claim[k].pake /\ claim'[k].who = claim[k].who
                        /\ claim'[k].state = IF k = slot THEN st ELSE claim[k].state
  BY <1>1, <1>3 DEF ClaimType
<1>6. st # "unused" /\ st # "lagged" /\ claim[slot].state # "unused" /\ claim[slot].state # "lagged"
  BY <1>1 DEF Present, Gone
<1>7. Lagged' <=> Lagged
  BY <1>1, <1>5, <1>6 DEF Lagged
<1> QED
  BY <1>1, <1>4, <1>5, <1>6, <1>7

\* The claim leaves the room, having sent done at most.
LEMMA LeaveStep ==
  ASSUME KeysIInv, slot # NoClaim, NEW st, st \in Gone \ {"lagged"}, Leaves(st),
         UNCHANGED <<session, pairedKey, guests>>,
         recorded' \in [Browser -> Claims \cup {NoClaim}], Settled => Settled',
         \/ toHost' = toHost
         \/ /\ toHost' = toHost \o <<[kind |-> "done"]>>
            /\ Settled' /\ NoJoin(toHost) /\ session.joined
  PROVE  KeysIInv'
<1>1. /\ PairingTypeOK /\ ClaimsOK /\ TagsOK /\ EnrollsOK /\ DonesOK /\ OffersOK /\ RepliesOK
      /\ KeyedOK
  BY DEF KeysIInv
<1>2. claim' = [claim EXCEPT ![slot].state = st] /\ slot' = NoClaim /\ toClaimant' = <<>>
  BY DEF Leaves
<1>3. /\ claim' \in [Claims -> ClaimType]
      /\ \A k \in Claims : /\ claim'[k].pake = claim[k].pake /\ claim'[k].who = claim[k].who
                           /\ claim'[k].state = IF k = slot THEN st ELSE claim[k].state
      /\ \A k \in Claims : claim'[k].state = "unused" <=> claim[k].state = "unused"
      /\ Lagged' <=> Lagged
      /\ slot \in Claims /\ claim[slot].state \in Present
  BY <1>2, StateChange
<1>4. /\ \A k \in Claims : \A p : MetBy(k, p)' <=> MetBy(k, p)
      /\ \A p : Met(p)' <=> Met(p)
  BY <1>3 DEF MetBy, Met
<1>5. IsQueue(toHost) /\ IsQueue(<<>>) /\ DOMAIN toClaimant' = {}
  BY <1>1, <1>2, Queues DEF PairingTypeOK
<1>6. /\ IsQueue(toHost')
      /\ \A i \in DOMAIN toHost' :
           \/ i \in DOMAIN toHost /\ toHost'[i] = toHost[i]
           \/ /\ i \notin DOMAIN toHost /\ toHost'[i].kind = "done"
              /\ Settled' /\ NoJoin(toHost) /\ session.joined
  <2>1. CASE toHost' = toHost
    BY <1>5, <2>1
  <2>2. CASE /\ toHost' = toHost \o <<[kind |-> "done"]>>
             /\ Settled' /\ NoJoin(toHost) /\ session.joined
    <3> DEFINE m == [kind |-> "done"]
    <3>1. m.kind = "done"
      OBVIOUS
    <3> HIDE DEF m
    <3>2. IsQueue(<<m>>) /\ Len(<<m>>) = 1 /\ <<m>>[1] = m
      BY Short
    <3>3. /\ IsQueue(toHost') /\ Len(toHost') = Len(toHost) + 1
          /\ \A i \in 1..Len(toHost) : toHost'[i] = toHost[i]
          /\ toHost'[Len(toHost) + 1] = m
      BY <1>5, <2>2, <3>2, Together DEF m
    <3>4. /\ DOMAIN toHost' = 1..Len(toHost') /\ DOMAIN toHost = 1..Len(toHost)
          /\ Len(toHost) \in Nat
      BY <1>5, <3>3, Queues
    <3> QED
      BY <2>2, <3>1, <3>3, <3>4
  <2> QED
    BY <2>1, <2>2
<1>7. PairingTypeOK'
  BY <1>1, <1>2, <1>3, <1>5, <1>6 DEF PairingTypeOK
<1>8. ClaimsOK'
  <2>1. PICK n \in Nat : \A k \in Claims : claim[k].state = "unused" <=> k > n
    BY <1>1 DEF ClaimsOK
  <2>2. \A k \in Claims : claim'[k].state = "unused" <=> k > n
    BY <1>3, <2>1
  <2>3. st \notin Present /\ NoClaim \notin Claims
    BY DEF Present, Gone, NoClaim, Claims
  <2>4. ASSUME NEW k \in Claims
        PROVE  /\ claim'[k].state = "unused" => claim'[k].pake = 0
               /\ claim'[k].state # "unused" => claim'[k].who \in Browser
               /\ claim'[k].state \in Present <=> k = slot'
               /\ claim'[k].state = "waiting" => claim'[k].pake = 0
               /\ claim'[k].state \in Present \ {"waiting"} => claim'[k].pake > 0
               /\ claim'[k].pake <= session'.pake
               /\ \A j \in Claims : (claim'[k].pake > 0 /\ claim'[j].pake = claim'[k].pake) => j = k
    <3>1. claim'[k].state \in Present <=> k = slot'
      BY <1>1, <1>2, <1>3, <2>3 DEF ClaimsOK
    <3>2. \A j \in Claims : (claim'[k].pake > 0 /\ claim'[j].pake = claim'[k].pake) => j = k
      BY <1>1, <1>3 DEF ClaimsOK, MetBy
    <3> QED
      BY <1>1, <1>3, <2>3, <3>1, <3>2 DEF ClaimsOK, Present
  <2> QED
    BY <2>2, <2>4 DEF ClaimsOK, MetBy
<1>9. TagsOK'
  <2> SUFFICES ASSUME NEW i \in DOMAIN toHost', toHost'[i].kind = "tagC"
               PROVE  Met(toHost'[i].pake)
    BY <1>2, <1>3 DEF TagsOK, Met, MetBy
  <2>1. i \in DOMAIN toHost /\ toHost'[i] = toHost[i]
    BY <1>6
  <2> QED
    BY <1>1, <1>4, <2>1 DEF TagsOK
<1>10. EnrollsOK'
  <2> SUFFICES ASSUME NEW i \in DOMAIN toHost', toHost'[i].kind = "enroll"
               PROVE  /\ toHost'[i].claim \in Claims /\ MetBy(toHost'[i].claim, session.pake)
                      /\ claim'[toHost'[i].claim].state \in {"enrolling", "recording"} \cup Gone
                      /\ \A j \in DOMAIN toHost' : toHost'[j].kind = "peer-joined" => i < j
    BY <1>3 DEF EnrollsOK, MetBy
  <2>1. i \in DOMAIN toHost /\ toHost'[i] = toHost[i]
    BY <1>6
  <2>2. \A j \in DOMAIN toHost' : toHost'[j].kind = "peer-joined" =>
          j \in DOMAIN toHost /\ toHost'[j] = toHost[j]
    BY <1>6
  <2> QED
    BY <1>1, <1>3, <1>4, <2>1, <2>2 DEF EnrollsOK
<1>11. DonesOK'
  <2> SUFFICES ASSUME NEW i \in DOMAIN toHost', toHost'[i].kind = "done"
               PROVE  /\ Settled'
                      /\ \A j \in DOMAIN toHost' : toHost'[j].kind = "peer-joined" => i < j
    BY DEF DonesOK
  <2>1. \A j \in DOMAIN toHost' : toHost'[j].kind = "peer-joined" =>
          j \in DOMAIN toHost /\ toHost'[j] = toHost[j]
    BY <1>6
  <2>2. CASE i \in DOMAIN toHost /\ toHost'[i] = toHost[i]
    BY <1>1, <2>1, <2>2 DEF DonesOK
  <2>3. CASE i \notin DOMAIN toHost /\ Settled' /\ NoJoin(toHost)
    BY <2>1, <2>3 DEF NoJoin
  <2> QED
    BY <1>6, <2>2, <2>3
<1>12. OffersOK' /\ RepliesOK' /\ KeyedOK'
  BY <1>2, <1>5 DEF OffersOK, RepliesOK, KeyedOK
<1>13. /\ slot' = NoClaim => toClaimant' = <<>>
       /\ session'.joined => ~session'.closed
       /\ ~session'.joined => toHost' = <<>>
       /\ session'.cached # Nobody => session'.cached \in guests'
       /\ session'.paired => session'.closed /\ Settled'
  BY <1>2 DEF KeysIInv
<1>14. session'.phase = "done" => session'.cached # Nobody /\ EnrolledClaim'
  BY <1>3, <1>4 DEF KeysIInv, EnrolledClaim
<1> QED
  BY <1>7, <1>8, <1>9, <1>10, <1>11, <1>12, <1>13, <1>14 DEF KeysIInv

\* The claim takes a frame of its run, and asks to be enrolled at most.
LEMMA ClaimGoesOn ==
  ASSUME KeysIInv, slot # NoClaim, toClaimant # <<>>, NEW st, st \in Present,
         st = "waiting" <=> claim[slot].state = "waiting",
         claim[slot].state \in {"enrolling", "recording"} => st \in {"enrolling", "recording"},
         st \in {"keyed", "enrolling", "recording"} =>
           session.pake = claim[slot].pake /\ NoJoin(toHost),
         st = "recording" => session.phase = "done",
         claim' = [claim EXCEPT ![slot].state = st], toClaimant' = Tail(toClaimant),
         UNCHANGED <<slot, session, pairedKey, guests, recorded>>,
         \/ toHost' = toHost
         \/ /\ toHost' = toHost \o <<[kind |-> "enroll", claim |-> slot]>>
            /\ st = "enrolling" /\ session.joined
  PROVE  KeysIInv'
<1>1. /\ PairingTypeOK /\ ClaimsOK /\ TagsOK /\ EnrollsOK /\ DonesOK /\ OffersOK /\ RepliesOK
      /\ KeyedOK
  BY DEF KeysIInv
<1>2. /\ claim' \in [Claims -> ClaimType]
      /\ \A k \in Claims : /\ claim'[k].pake = claim[k].pake /\ claim'[k].who = claim[k].who
                           /\ claim'[k].state = IF k = slot THEN st ELSE claim[k].state
      /\ \A k \in Claims : claim'[k].state = "unused" <=> claim[k].state = "unused"
      /\ Lagged' <=> Lagged
      /\ slot \in Claims /\ claim[slot].state \in Present
  BY StateChange
<1>3. /\ \A k \in Claims : \A p : MetBy(k, p)' <=> MetBy(k, p)
      /\ \A p : Met(p)' <=> Met(p)
      /\ Settled' <=> Settled
  BY <1>2 DEF MetBy, Met, Settled
<1>4. IsQueue(toHost) /\ IsQueue(toClaimant)
  BY <1>1 DEF PairingTypeOK
<1>5. /\ IsQueue(toHost')
      /\ \A i \in DOMAIN toHost' :
           \/ i \in DOMAIN toHost /\ toHost'[i] = toHost[i]
           \/ /\ i \notin DOMAIN toHost /\ toHost'[i].kind = "enroll" /\ toHost'[i].claim = slot
              /\ st = "enrolling" /\ session.joined
  <2>1. CASE toHost' = toHost
    BY <1>4, <2>1
  <2>2. CASE /\ toHost' = toHost \o <<[kind |-> "enroll", claim |-> slot]>>
             /\ st = "enrolling" /\ session.joined
    <3> DEFINE m == [kind |-> "enroll", claim |-> slot]
    <3>1. m.kind = "enroll" /\ m.claim = slot
      OBVIOUS
    <3> HIDE DEF m
    <3>2. IsQueue(<<m>>) /\ Len(<<m>>) = 1 /\ <<m>>[1] = m
      BY Short
    <3>3. /\ IsQueue(toHost') /\ Len(toHost') = Len(toHost) + 1
          /\ \A i \in 1..Len(toHost) : toHost'[i] = toHost[i]
          /\ toHost'[Len(toHost) + 1] = m
      BY <1>4, <2>2, <3>2, Together DEF m
    <3>4. /\ DOMAIN toHost' = 1..Len(toHost') /\ DOMAIN toHost = 1..Len(toHost)
          /\ Len(toHost) \in Nat
      BY <1>4, <3>3, Queues
    <3> QED
      BY <2>2, <3>1, <3>3, <3>4
  <2> QED
    BY <2>1, <2>2
<1>6. NoJoin(toHost) => NoJoin(toHost')
  BY <1>5 DEF NoJoin
<1>7. /\ IsQueue(toClaimant')
      /\ \A i \in DOMAIN toClaimant' : i \in Nat /\ i + 1 \in DOMAIN toClaimant
                                       /\ toClaimant'[i] = toClaimant[i + 1]
  BY <1>4, Shorter, Queues
<1>8. PairingTypeOK'
  BY <1>1, <1>2, <1>5, <1>7 DEF PairingTypeOK
<1>9. ClaimsOK'
  <2>1. PICK n \in Nat : \A k \in Claims : claim[k].state = "unused" <=> k > n
    BY <1>1 DEF ClaimsOK
  <2>2. \A k \in Claims : claim'[k].state = "unused" <=> k > n
    BY <1>2, <2>1
  <2>3. ASSUME NEW k \in Claims
        PROVE  /\ claim'[k].state = "unused" => claim'[k].pake = 0
               /\ claim'[k].state # "unused" => claim'[k].who \in Browser
               /\ claim'[k].state \in Present <=> k = slot'
               /\ claim'[k].state = "waiting" => claim'[k].pake = 0
               /\ claim'[k].state \in Present \ {"waiting"} => claim'[k].pake > 0
               /\ claim'[k].pake <= session'.pake
               /\ \A j \in Claims : (claim'[k].pake > 0 /\ claim'[j].pake = claim'[k].pake) => j = k
    <3>1. claim'[k].state \in Present <=> k = slot'
      BY <1>1, <1>2 DEF ClaimsOK
    <3>2. \A j \in Claims : (claim'[k].pake > 0 /\ claim'[j].pake = claim'[k].pake) => j = k
      BY <1>1, <1>2 DEF ClaimsOK, MetBy
    <3> QED
      BY <1>1, <1>2, <3>1, <3>2 DEF ClaimsOK
  <2> QED
    BY <2>2, <2>3 DEF ClaimsOK, MetBy
<1>10. TagsOK'
  <2> SUFFICES ASSUME NEW i \in DOMAIN toHost', toHost'[i].kind = "tagC"
               PROVE  /\ Met(toHost'[i].pake)
                      /\ slot # NoClaim /\ MetBy(slot, toHost'[i].pake) =>
                           \A j \in DOMAIN toHost' : toHost'[j].kind = "peer-joined" => j < i
    BY <1>2 DEF TagsOK, Met, MetBy
  <2>1. i \in DOMAIN toHost /\ toHost'[i] = toHost[i]
    BY <1>5
  <2>2. \A j \in DOMAIN toHost' : toHost'[j].kind = "peer-joined" =>
          j \in DOMAIN toHost /\ toHost'[j] = toHost[j]
    BY <1>5
  <2> QED
    BY <1>1, <1>2, <1>3, <2>1, <2>2 DEF TagsOK
<1>11. EnrollsOK'
  <2> SUFFICES ASSUME NEW i \in DOMAIN toHost', toHost'[i].kind = "enroll"
               PROVE  /\ toHost'[i].claim \in Claims /\ MetBy(toHost'[i].claim, session.pake)
                      /\ claim'[toHost'[i].claim].state \in {"enrolling", "recording"} \cup Gone
                      /\ \A j \in DOMAIN toHost' : toHost'[j].kind = "peer-joined" => i < j
    BY <1>2 DEF EnrollsOK, MetBy
  <2>1. \A j \in DOMAIN toHost' : toHost'[j].kind = "peer-joined" =>
          j \in DOMAIN toHost /\ toHost'[j] = toHost[j]
    BY <1>5
  <2>2. CASE i \in DOMAIN toHost /\ toHost'[i] = toHost[i]
    <3>1. /\ toHost[i].claim \in Claims /\ MetBy(toHost[i].claim, session.pake)
          /\ claim[toHost[i].claim].state \in {"enrolling", "recording"} \cup Gone
          /\ \A j \in DOMAIN toHost : toHost[j].kind = "peer-joined" => i < j
      BY <1>1, <2>2 DEF EnrollsOK
    <3>2. claim'[toHost[i].claim].state \in {"enrolling", "recording"} \cup Gone
      <4>1. CASE toHost[i].claim = slot
        <5>1. claim[slot].state \in {"enrolling", "recording"}
          BY <1>2, <3>1, <4>1 DEF Present, Gone
        <5> QED
          BY <1>2, <4>1, <5>1
      <4>2. CASE toHost[i].claim # slot
        BY <1>2, <3>1, <4>2
      <4> QED
        BY <4>1, <4>2
    <3> QED
      BY <1>3, <2>1, <2>2, <3>1, <3>2
  <2>3. CASE /\ i \notin DOMAIN toHost /\ toHost'[i].claim = slot
             /\ st = "enrolling"
    <3>1. MetBy(slot, session.pake)
      BY <1>1, <1>2, <2>3 DEF ClaimsOK, MetBy, Present
    <3>2. NoJoin(toHost)
      BY <2>3
    <3> QED
      BY <1>2, <1>3, <2>1, <2>3, <3>1, <3>2 DEF NoJoin
  <2> QED
    BY <1>5, <2>2, <2>3
<1>12. DonesOK'
  <2> SUFFICES ASSUME NEW i \in DOMAIN toHost', toHost'[i].kind = "done"
               PROVE  /\ Settled
                      /\ \A j \in DOMAIN toHost' : toHost'[j].kind = "peer-joined" => i < j
    BY <1>3 DEF DonesOK
  <2>1. \A j \in DOMAIN toHost' : toHost'[j].kind = "peer-joined" =>
          j \in DOMAIN toHost /\ toHost'[j] = toHost[j]
    BY <1>5
  <2>2. i \in DOMAIN toHost /\ toHost'[i] = toHost[i]
    BY <1>5
  <2> QED
    BY <1>1, <2>1, <2>2 DEF DonesOK
<1>13. OffersOK'
  <2> SUFFICES ASSUME NEW i \in DOMAIN toClaimant', toClaimant'[i].kind = "msgA"
               PROVE  /\ toClaimant'[i].pake \in Nat \ {0} /\ toClaimant'[i].pake <= session.pake
                      /\ \A k \in Claims : claim[k].pake < toClaimant'[i].pake
                      /\ \A j \in DOMAIN toClaimant' :
                           j < i /\ toClaimant'[j].kind = "msgA"
                             => toClaimant'[j].pake < toClaimant'[i].pake
    BY <1>2 DEF OffersOK
  <2>1. i + 1 \in DOMAIN toClaimant /\ toClaimant'[i] = toClaimant[i + 1]
    BY <1>7
  <2>2. \A j \in DOMAIN toClaimant' :
          j < i => j + 1 \in DOMAIN toClaimant /\ j + 1 < i + 1 /\ toClaimant'[j] = toClaimant[j + 1]
    BY <1>7
  <2> QED
    BY <1>1, <2>1, <2>2 DEF OffersOK
<1>14. RepliesOK'
  <2> SUFFICES ASSUME NEW i \in DOMAIN toClaimant',
                      toClaimant'[i].kind \in {"tagH", "hello", "enrolled"}
               PROVE  /\ Met(toClaimant'[i].pake)
                      /\ MetBy(slot, toClaimant'[i].pake) =>
                           session.pake = toClaimant'[i].pake /\ NoJoin(toHost)
                      /\ MetBy(slot, toClaimant'[i].pake) /\ toClaimant'[i].kind = "enrolled" =>
                           session.phase = "done"
    BY <1>2, <1>6 DEF RepliesOK, Met, MetBy
  <2>1. i + 1 \in DOMAIN toClaimant /\ toClaimant'[i] = toClaimant[i + 1]
    BY <1>7
  <2> QED
    BY <1>1, <1>2, <1>3, <2>1 DEF RepliesOK
<1>15. KeyedOK'
  BY <1>1, <1>2, <1>6 DEF KeyedOK
<1>16. /\ slot' = NoClaim => toClaimant' = <<>>
       /\ session'.joined => ~session'.closed
       /\ ~session'.joined => toHost' = <<>>
       /\ session'.cached # Nobody => session'.cached \in guests'
       /\ session'.paired => session'.closed /\ Settled'
  BY <1>3 DEF KeysIInv
<1>17. session'.phase = "done" => session'.cached # Nobody /\ EnrolledClaim'
  BY <1>2, <1>3 DEF KeysIInv, EnrolledClaim
<1> QED
  BY <1>8, <1>9, <1>10, <1>11, <1>12, <1>13, <1>14, <1>15, <1>16, <1>17 DEF KeysIInv

\* The claim answers the offer of a run, which becomes its own.
LEMMA AnswerStep ==
  ASSUME KeysIInv, slot # NoClaim, toClaimant # <<>>, Head(toClaimant).kind = "msgA",
         claim[slot].state = "waiting", NEW p, p = Head(toClaimant).pake, NEW right,
         Becomes([claim[slot] EXCEPT !.state = "answered", !.pake = p]),
         ToHost(<<[kind |-> "msgB"], [kind |-> "tagC", pake |-> p, right |-> right]>>),
         UNCHANGED <<session, pairedKey, guests, recorded>>
  PROVE  KeysIInv'
<1>1. /\ PairingTypeOK /\ ClaimsOK /\ TagsOK /\ EnrollsOK /\ DonesOK /\ OffersOK /\ RepliesOK
      /\ KeyedOK
  BY DEF KeysIInv
<1>2. /\ claim' = [claim EXCEPT ![slot] = [claim[slot] EXCEPT !.state = "answered", !.pake = p]]
      /\ toClaimant' = Tail(toClaimant) /\ slot' = slot /\ slot \in Claims
  BY <1>1 DEF Becomes, PairingTypeOK
<1>3. IsQueue(toHost) /\ IsQueue(toClaimant) /\ session.pake \in Nat
  BY <1>1 DEF PairingTypeOK, SessionType
<1>4. /\ IsQueue(toClaimant') /\ 1 \in DOMAIN toClaimant /\ toClaimant[1] = Head(toClaimant)
      /\ \A i \in DOMAIN toClaimant' : i \in Nat /\ i >= 1 /\ i + 1 \in DOMAIN toClaimant
                                       /\ toClaimant'[i] = toClaimant[i + 1]
  BY <1>2, <1>3, Shorter, Queues
<1>5. /\ p \in Nat /\ p > 0 /\ p <= session.pake
      /\ \A k \in Claims : claim[k].pake \in Nat /\ claim[k].pake < p
      /\ \A i \in DOMAIN toClaimant' : toClaimant'[i].kind = "msgA" =>
           toClaimant'[i].pake \in Nat /\ p < toClaimant'[i].pake
  <2>1. \A k \in Claims : claim[k].pake \in Nat
    BY <1>1 DEF PairingTypeOK, ClaimType
  <2>2. /\ p \in Nat \ {0} /\ p <= session.pake /\ \A k \in Claims : claim[k].pake < p
    BY <1>1, <1>4 DEF OffersOK
  <2>3. \A i \in DOMAIN toClaimant' : toClaimant'[i].kind = "msgA" =>
          toClaimant'[i].pake \in Nat /\ p < toClaimant'[i].pake
    BY <1>1, <1>4 DEF OffersOK
  <2> QED
    BY <2>1, <2>2, <2>3
<1>6. /\ claim' \in [Claims -> ClaimType]
      /\ claim'[slot].pake = p /\ claim'[slot].state = "answered"
      /\ claim'[slot].who = claim[slot].who
      /\ \A k \in Claims : k # slot => claim'[k] = claim[k]
      /\ claim[slot].pake = 0 /\ claim[slot].who \in Browser
  <2>1. claim[slot] \in ClaimType
    BY <1>1, <1>2 DEF PairingTypeOK
  <2>2. \A c \in ClaimType : [c EXCEPT !.state = "answered"] \in ClaimType
    BY DEF ClaimType, Present
  <2>3. \A c \in ClaimType : [c EXCEPT !.pake = p] \in ClaimType
    BY <1>5 DEF ClaimType
  <2> DEFINE c == [claim[slot] EXCEPT !.state = "answered", !.pake = p]
  <2>4. c = [[claim[slot] EXCEPT !.state = "answered"] EXCEPT !.pake = p]
    BY <2>1 DEF ClaimType
  <2>5. c \in ClaimType
    BY <2>1, <2>2, <2>3, <2>4
  <2>6. c.pake = p /\ c.state = "answered" /\ c.who = claim[slot].who
    BY <2>1 DEF ClaimType
  <2> HIDE DEF c
  <2>7. claim' = [claim EXCEPT ![slot] = c]
    BY <1>2 DEF c
  <2>8. claim' \in [Claims -> ClaimType] /\ claim'[slot] = c
        /\ \A k \in Claims : k # slot => claim'[k] = claim[k]
    BY <1>1, <1>2, <2>5, <2>7 DEF PairingTypeOK
  <2> QED
    BY <1>1, <1>2, <2>6, <2>8 DEF ClaimsOK
<1>7. Lagged' <=> Lagged
  BY <1>2, <1>6 DEF Lagged
<1>8. Settled' <=> Settled
  BY <1>7 DEF Settled
<1>9. /\ \A q \in Nat : Met(q) => q # p
      /\ \A q : Met(q) => \E k \in Claims : q > 0 /\ claim'[k].pake = q
  <2>1. ASSUME NEW q, Met(q) PROVE q # p /\ \E k \in Claims : q > 0 /\ claim'[k].pake = q
    <3>1. PICK k \in Claims : q > 0 /\ claim[k].pake = q
      BY <2>1 DEF Met, MetBy
    <3>2. q # p /\ q # 0 /\ q \in Nat
      BY <1>5, <3>1
    <3>3. k # slot
      BY <1>6, <3>1, <3>2
    <3> QED
      BY <1>6, <3>1, <3>2, <3>3
  <2> QED
    BY <2>1
<1>10. /\ IsQueue(toHost')
       /\ \A i \in DOMAIN toHost' :
            \/ i \in DOMAIN toHost /\ toHost'[i] = toHost[i]
            \/ /\ \A j \in DOMAIN toHost : j < i
               /\ \/ toHost'[i].kind = "msgB"
                  \/ toHost'[i].kind = "tagC" /\ toHost'[i].pake = p
       /\ session.joined \/ toHost' = toHost
  <2>1. CASE ~session.joined
    <3>1. toHost' = toHost
      BY <2>1 DEF ToHost
    <3> QED
      BY <1>3, <3>1
  <2>2. CASE session.joined
    <3> DEFINE a == [kind |-> "msgB"]
               b == [kind |-> "tagC", pake |-> p, right |-> right]
    <3>1. a.kind = "msgB" /\ b.kind = "tagC" /\ b.pake = p
      OBVIOUS
    <3>2. toHost' = toHost \o <<a, b>>
      BY <2>2 DEF ToHost
    <3> HIDE DEF a, b
    <3>3. IsQueue(<<a, b>>) /\ Len(<<a, b>>) = 2 /\ <<a, b>>[1] = a /\ <<a, b>>[2] = b
      BY Short
    <3> DEFINE fr == <<a, b>>
    <3> HIDE DEF fr
    <3>4. IsQueue(fr) /\ Len(fr) = 2 /\ fr[1] = a /\ fr[2] = b /\ toHost' = toHost \o fr
      BY <3>2, <3>3 DEF fr
    <3>5. /\ IsQueue(toHost') /\ Len(toHost') = Len(toHost) + 2
          /\ \A i \in 1..Len(toHost) : toHost'[i] = toHost[i]
          /\ \A i \in 1..2 : toHost'[Len(toHost) + i] = fr[i]
      <4>1. /\ IsQueue(toHost \o fr) /\ Len(toHost \o fr) = Len(toHost) + Len(fr)
            /\ \A i \in 1..Len(toHost) : (toHost \o fr)[i] = toHost[i]
            /\ \A i \in 1..Len(fr) : (toHost \o fr)[Len(toHost) + i] = fr[i]
        <5>1. IsQueue(toHost) /\ IsQueue(fr)
          BY <1>3, <3>4
        <5> QED
          BY <5>1, Together
      <4> QED
        BY <3>4, <4>1
    <3>6. /\ DOMAIN toHost' = 1..Len(toHost') /\ DOMAIN toHost = 1..Len(toHost)
          /\ Len(toHost) \in Nat
      BY <1>3, <3>5, Queues
    <3>7. toHost'[Len(toHost) + 1] = a /\ toHost'[Len(toHost) + 2] = b
      BY <3>4, <3>5
    <3>8. ASSUME NEW i \in DOMAIN toHost', i \notin DOMAIN toHost
          PROVE  /\ \A j \in DOMAIN toHost : j < i
                 /\ toHost'[i] = a \/ toHost'[i] = b
      <4>1. i = Len(toHost) + 1 \/ i = Len(toHost) + 2
        BY <3>5, <3>6, <3>8
      <4> QED
        BY <3>6, <3>7, <4>1
    <3> QED
      BY <2>2, <3>1, <3>5, <3>6, <3>8
  <2> QED
    BY <2>1, <2>2
<1>11. NoJoin(toHost) => NoJoin(toHost')
  BY <1>10 DEF NoJoin
<1>12. PairingTypeOK'
  BY <1>1, <1>2, <1>4, <1>6, <1>10 DEF PairingTypeOK
<1>13. ClaimsOK'
  <2>1. PICK n \in Nat : \A k \in Claims : claim[k].state = "unused" <=> k > n
    BY <1>1 DEF ClaimsOK
  <2>2. \A k \in Claims : claim'[k].state = "unused" <=> k > n
    BY <1>6, <2>1
  <2>3. ASSUME NEW k \in Claims
        PROVE  /\ claim'[k].state = "unused" => claim'[k].pake = 0
               /\ claim'[k].state # "unused" => claim'[k].who \in Browser
               /\ claim'[k].state \in Present <=> k = slot'
               /\ claim'[k].state = "waiting" => claim'[k].pake = 0
               /\ claim'[k].state \in Present \ {"waiting"} => claim'[k].pake > 0
               /\ claim'[k].pake <= session'.pake
               /\ \A j \in Claims : (claim'[k].pake > 0 /\ claim'[j].pake = claim'[k].pake) => j = k
    <3>1. CASE k = slot
      <4>1. \A j \in Claims : claim'[j].pake = p => j = k
        BY <1>5, <1>6, <3>1
      <4> QED
        BY <1>2, <1>5, <1>6, <3>1, <4>1 DEF Present
    <3>2. CASE k # slot
      <4>1. \A j \in Claims : (claim[k].pake > 0 /\ claim'[j].pake = claim[k].pake) => j = k
        <5> SUFFICES ASSUME NEW j \in Claims, claim[k].pake > 0, claim'[j].pake = claim[k].pake
                     PROVE  j = k
          OBVIOUS
        <5>1. j # slot
          BY <1>5, <1>6
        <5> QED
          BY <1>1, <1>6, <5>1 DEF ClaimsOK, MetBy
      <4> QED
        BY <1>1, <1>2, <1>6, <3>2, <4>1 DEF ClaimsOK
    <3> QED
      BY <3>1, <3>2
  <2> QED
    BY <2>2, <2>3 DEF ClaimsOK, MetBy
<1>14. TagsOK'
  <2> SUFFICES ASSUME NEW i \in DOMAIN toHost', toHost'[i].kind = "tagC"
               PROVE  /\ \E k \in Claims : toHost'[i].pake > 0 /\ claim'[k].pake = toHost'[i].pake
                      /\ toHost'[i].pake = p =>
                           \A j \in DOMAIN toHost' : toHost'[j].kind = "peer-joined" => j < i
    BY <1>2, <1>6 DEF TagsOK, Met, MetBy
  <2>1. CASE i \in DOMAIN toHost /\ toHost'[i] = toHost[i]
    <3>1. Met(toHost'[i].pake)
      BY <1>1, <2>1 DEF TagsOK
    <3> QED
      BY <1>5, <1>9, <3>1
  <2>2. CASE (\A j \in DOMAIN toHost : j < i) /\ toHost'[i].pake = p
    <3>1. \A j \in DOMAIN toHost' : toHost'[j].kind = "peer-joined" => j \in DOMAIN toHost
      BY <1>10
    <3> QED
      BY <1>2, <1>5, <1>6, <2>2, <3>1
  <2> QED
    BY <1>10, <2>1, <2>2
<1>15. EnrollsOK'
  <2> SUFFICES ASSUME NEW i \in DOMAIN toHost', toHost'[i].kind = "enroll"
               PROVE  /\ toHost'[i].claim \in Claims
                      /\ session.pake > 0 /\ claim'[toHost'[i].claim].pake = session.pake
                      /\ claim'[toHost'[i].claim].state \in {"enrolling", "recording"} \cup Gone
                      /\ \A j \in DOMAIN toHost' : toHost'[j].kind = "peer-joined" => i < j
    BY DEF EnrollsOK, MetBy
  <2>1. \A j \in DOMAIN toHost' : toHost'[j].kind = "peer-joined" =>
          j \in DOMAIN toHost /\ toHost'[j] = toHost[j]
    BY <1>10
  <2>2. i \in DOMAIN toHost /\ toHost'[i] = toHost[i]
    BY <1>10
  <2>3. /\ toHost[i].claim \in Claims /\ session.pake > 0
        /\ claim[toHost[i].claim].pake = session.pake
        /\ claim[toHost[i].claim].state \in {"enrolling", "recording"} \cup Gone
        /\ \A j \in DOMAIN toHost : toHost[j].kind = "peer-joined" => i < j
    BY <1>1, <2>2 DEF EnrollsOK, MetBy
  <2>4. toHost[i].claim # slot
    BY <2>3 DEF Gone
  <2> QED
    BY <1>6, <2>1, <2>2, <2>3, <2>4
<1>16. DonesOK'
  <2> SUFFICES ASSUME NEW i \in DOMAIN toHost', toHost'[i].kind = "done"
               PROVE  /\ Settled
                      /\ \A j \in DOMAIN toHost' : toHost'[j].kind = "peer-joined" => i < j
    BY <1>8 DEF DonesOK
  <2>1. \A j \in DOMAIN toHost' : toHost'[j].kind = "peer-joined" =>
          j \in DOMAIN toHost /\ toHost'[j] = toHost[j]
    BY <1>10
  <2>2. i \in DOMAIN toHost /\ toHost'[i] = toHost[i]
    BY <1>10
  <2> QED
    BY <1>1, <2>1, <2>2 DEF DonesOK
<1>17. OffersOK'
  <2> SUFFICES ASSUME NEW i \in DOMAIN toClaimant', toClaimant'[i].kind = "msgA"
               PROVE  /\ toClaimant'[i].pake \in Nat \ {0} /\ toClaimant'[i].pake <= session.pake
                      /\ \A k \in Claims : claim'[k].pake < toClaimant'[i].pake
                      /\ \A j \in DOMAIN toClaimant' :
                           j < i /\ toClaimant'[j].kind = "msgA"
                             => toClaimant'[j].pake < toClaimant'[i].pake
    BY DEF OffersOK
  <2>1. i + 1 \in DOMAIN toClaimant /\ toClaimant'[i] = toClaimant[i + 1]
    BY <1>4
  <2>2. \A j \in DOMAIN toClaimant' :
          j < i => j + 1 \in DOMAIN toClaimant /\ j + 1 < i + 1 /\ toClaimant'[j] = toClaimant[j + 1]
    BY <1>4
  <2>3. /\ toClaimant'[i].pake \in Nat \ {0} /\ toClaimant'[i].pake <= session.pake
        /\ \A k \in Claims : claim[k].pake < toClaimant'[i].pake
        /\ \A j \in DOMAIN toClaimant' :
             j < i /\ toClaimant'[j].kind = "msgA" => toClaimant'[j].pake < toClaimant'[i].pake
    BY <1>1, <2>1, <2>2 DEF OffersOK
  <2> QED
    BY <1>5, <1>6, <2>3
<1>18. RepliesOK'
  <2> SUFFICES ASSUME NEW i \in DOMAIN toClaimant',
                      toClaimant'[i].kind \in {"tagH", "hello", "enrolled"}
               PROVE  /\ \E k \in Claims : toClaimant'[i].pake > 0 /\ claim'[k].pake = toClaimant'[i].pake
                      /\ toClaimant'[i].pake # p
    BY <1>2, <1>6 DEF RepliesOK, Met, MetBy
  <2>1. i + 1 \in DOMAIN toClaimant /\ toClaimant'[i] = toClaimant[i + 1]
    BY <1>4
  <2>2. Met(toClaimant'[i].pake)
    BY <1>1, <2>1 DEF RepliesOK
  <2> QED
    BY <1>5, <1>9, <2>2
<1>19. KeyedOK'
  BY <1>2, <1>6 DEF KeyedOK
<1>20. /\ slot' = NoClaim => toClaimant' = <<>>
       /\ session'.joined => ~session'.closed
       /\ ~session'.joined => toHost' = <<>>
       /\ session'.cached # Nobody => session'.cached \in guests'
       /\ session'.paired => session'.closed /\ Settled'
  BY <1>2, <1>8, <1>10 DEF KeysIInv
<1>21. session'.phase = "done" => session'.cached # Nobody /\ EnrolledClaim'
  <2> SUFFICES ASSUME session.phase = "done" PROVE session.cached # Nobody /\ EnrolledClaim'
    OBVIOUS
  <2>1. PICK k \in Claims :
          /\ session.pake > 0 /\ claim[k].pake = session.pake /\ claim[k].state # "unused"
          /\ session.cached = claim[k].who /\ pairedKey[session.cached] = k
    BY DEF KeysIInv, EnrolledClaim, MetBy
  <2>2. k # slot
    BY <1>5, <2>1
  <2> QED
    BY <1>6, <2>1, <2>2 DEF EnrolledClaim, MetBy, KeysIInv
<1> QED
  BY <1>12, <1>13, <1>14, <1>15, <1>16, <1>17, <1>18, <1>19, <1>20, <1>21 DEF KeysIInv

LEMMA FirstUnused ==
  ASSUME KeysIInv, NEW k \in Claims,
         k = 1 + Cardinality({j \in Claims : claim[j].state # "unused"})
  PROVE  /\ claim[k].state = "unused"
         /\ \A j \in Claims : claim[j].state = "unused" <=> j >= k
<1>1. PICK n \in Nat : \A j \in Claims : claim[j].state = "unused" <=> j > n
  BY DEF KeysIInv, ClaimsOK
<1>2. MaxClaims \in Nat /\ Claims = 1..MaxClaims
  BY PairingConstants DEF Claims
<1> DEFINE c == IF n <= MaxClaims THEN n ELSE MaxClaims
           used == {j \in Claims : claim[j].state # "unused"}
<1>3. c \in Nat /\ used = 1..c
  BY <1>1, <1>2
<1>4. Cardinality(1..c) = c
  BY <1>3, FS_Interval
<1>5. k = 1 + c
  BY <1>3, <1>4
<1>6. n <= MaxClaims
  BY <1>2, <1>5
<1>7. k = n + 1
  BY <1>5, <1>6
<1>8. \A j \in Claims : j \in Nat
  BY <1>2
<1> HIDE DEF c, used
<1>9. \A j \in Claims : j > n <=> j >= k
  BY <1>1, <1>7, <1>8
<1>10. k >= k
  BY <1>8
<1> QED
  BY <1>1, <1>9, <1>10

\* A claimant comes to the room, which takes it or is burned.
LEMMA ClaimStartsStep ==
  ASSUME KeysIInv, NEW b \in Browser, NEW right \in BOOLEAN, ClaimStarts(b, right)
  PROVE  KeysIInv'
<1>1. PICK k \in Claims :
        /\ k = 1 + Cardinality({j \in Claims : claim[j].state # "unused"})
        /\ claim' = [claim EXCEPT ![k] = [Unused EXCEPT !.who = b, !.right = right,
                       !.state = IF room.churn < MaxChurn THEN "waiting" ELSE "failed"]]
        /\ IF room.churn < MaxChurn
             THEN /\ slot' = k
                  /\ toHost' = IF session.joined THEN Append(toHost, [kind |-> "peer-joined"]) ELSE toHost
                  /\ UNCHANGED session
             ELSE session' = Shut(session) /\ toHost' = <<>> /\ UNCHANGED slot
  BY DEF ClaimStarts
<1>2. /\ slot = NoClaim /\ toClaimant = <<>> /\ toClaimant' = <<>>
      /\ UNCHANGED <<pairedKey, guests, recorded>>
  BY DEF ClaimStarts, KeysIInv, hostSide
<1>3. /\ PairingTypeOK /\ ClaimsOK /\ TagsOK /\ EnrollsOK /\ DonesOK /\ OffersOK /\ RepliesOK
      /\ KeyedOK
  BY DEF KeysIInv
<1>4. /\ claim[k].state = "unused" /\ \A j \in Claims : claim[j].state = "unused" <=> j >= k
  BY <1>1, FirstUnused
<1> DEFINE st == IF room.churn < MaxChurn THEN "waiting" ELSE "failed"
<1>5. st \in {"waiting", "failed"}
  OBVIOUS
<1>6. /\ claim' \in [Claims -> ClaimType]
      /\ claim'[k].pake = 0 /\ claim'[k].state = st /\ claim'[k].who = b
      /\ \A j \in Claims : j # k => claim'[j] = claim[j]
      /\ claim[k].pake = 0
  <2> DEFINE c == [Unused EXCEPT !.who = b, !.right = right, !.state = st]
  <2>1. claim' = [claim EXCEPT ![k] = c]
    BY <1>1
  <2> HIDE DEF st
  <2>2. st \in {"unused"} \cup Present \cup Gone
    BY <1>5 DEF Present, Gone
  <2>3. Unused \in ClaimType
    BY DEF Unused, ClaimType
  <2>4. \A t \in ClaimType :
          LET r == [[[t EXCEPT !.who = b] EXCEPT !.right = right] EXCEPT !.state = st]
          IN  r \in ClaimType /\ r.pake = t.pake /\ r.state = st /\ r.who = b
    BY <2>2 DEF ClaimType
  <2>5. c \in ClaimType /\ c.pake = 0 /\ c.state = st /\ c.who = b
    <3>1. c = [[[Unused EXCEPT !.who = b] EXCEPT !.right = right] EXCEPT !.state = st]
      BY <2>3 DEF ClaimType
    <3>2. Unused.pake = 0
      BY DEF Unused
    <3> HIDE DEF c
    <3> QED
      BY <2>3, <2>4, <3>1, <3>2
  <2> HIDE DEF c
  <2>6. claim' \in [Claims -> ClaimType] /\ claim'[k] = c
        /\ \A j \in Claims : j # k => claim'[j] = claim[j]
    BY <1>3, <2>1, <2>5 DEF PairingTypeOK
  <2> QED
    BY <1>3, <1>4, <2>5, <2>6 DEF ClaimsOK
<1> HIDE DEF st
<1>7. /\ slot' \in Claims \cup {NoClaim}
      /\ (slot' = k /\ st = "waiting") \/ (slot' = NoClaim /\ st = "failed")
      /\ slot' # NoClaim => slot' = k
  BY <1>1, <1>2 DEF st
<1>8. session \in SessionType /\ IsQueue(toHost)
  BY <1>3 DEF PairingTypeOK, SessionType
<1>9. /\ session' \in SessionType /\ session'.pake = session.pake
      /\ session'.cached = session.cached /\ session'.phase = session.phase
      /\ session'.paired = session.paired
      /\ session'.joined => ~session'.closed
      /\ session'.paired => session'.closed
      /\ ~session'.joined => toHost' = <<>>
  <2>1. CASE session' = Shut(session) /\ toHost' = <<>>
    BY <1>8, <2>1, Shutting DEF KeysIInv
  <2>2. CASE /\ session' = session
             /\ toHost' = IF session.joined THEN Append(toHost, [kind |-> "peer-joined"]) ELSE toHost
    BY <1>8, <2>2 DEF KeysIInv
  <2> QED
    BY <1>1, <2>1, <2>2
<1>10. /\ IsQueue(toHost')
       /\ \A i \in DOMAIN toHost' :
            \/ i \in DOMAIN toHost /\ toHost'[i] = toHost[i]
            \/ (\A j \in DOMAIN toHost : j < i) /\ toHost'[i].kind = "peer-joined"
  <2>1. CASE toHost' = <<>>
    BY <2>1, Queues
  <2>2. CASE toHost' = toHost
    BY <1>8, <2>2
  <2>3. CASE toHost' = Append(toHost, [kind |-> "peer-joined"])
    <3> DEFINE m == [kind |-> "peer-joined"]
    <3>1. m.kind = "peer-joined" /\ toHost' = Append(toHost, m)
      BY <2>3
    <3> HIDE DEF m
    <3>2. /\ IsQueue(toHost') /\ Len(toHost') = Len(toHost) + 1 /\ Len(toHost) \in Nat
          /\ \A i \in 1..Len(toHost) : toHost'[i] = toHost[i]
          /\ toHost'[Len(toHost) + 1] = m
      BY <1>8, <3>1, Longer
    <3>3. DOMAIN toHost' = 1..Len(toHost') /\ DOMAIN toHost = 1..Len(toHost)
      BY <1>8, <3>2, Queues
    <3> QED
      BY <3>1, <3>2, <3>3
  <2> QED
    BY <1>1, <2>1, <2>2, <2>3
<1>11. DOMAIN toClaimant' = {} /\ IsQueue(toClaimant')
  BY <1>2, Queues
<1>12. Lagged' <=> Lagged
  BY <1>4, <1>5, <1>6 DEF Lagged
<1>13. Settled' <=> Settled
  BY <1>2, <1>9, <1>12 DEF Settled
<1>14. \A q : Met(q) => \E j \in Claims : j # k /\ q > 0 /\ claim'[j].pake = q
  <2> SUFFICES ASSUME NEW q, Met(q) PROVE \E j \in Claims : j # k /\ q > 0 /\ claim'[j].pake = q
    OBVIOUS
  <2>1. PICK j \in Claims : q > 0 /\ claim[j].pake = q
    BY DEF Met, MetBy
  <2>2. j # k
    BY <1>6, <2>1
  <2> QED
    BY <1>6, <2>1, <2>2
<1>15. PairingTypeOK'
  BY <1>2, <1>3, <1>6, <1>7, <1>9, <1>10, <1>11 DEF PairingTypeOK, SessionType
<1>16. ClaimsOK'
  <2>1. k \in Nat /\ Claims \subseteq Nat /\ NoClaim \notin Claims
    BY DEF Claims, NoClaim
  <2>2. \A j \in Claims : claim'[j].state = "unused" <=> j > k
    <3> SUFFICES ASSUME NEW j \in Claims PROVE claim'[j].state = "unused" <=> j > k
      OBVIOUS
    <3>1. CASE j = k
      BY <1>5, <1>6, <2>1, <3>1
    <3>2. CASE j # k
      <4>1. j \in Nat /\ (j >= k <=> j > k)
        BY <2>1, <3>2
      <4> QED
        BY <1>4, <1>6, <3>2, <4>1
    <3> QED
      BY <3>1, <3>2
  <2>3. ASSUME NEW j \in Claims
        PROVE  /\ claim'[j].state = "unused" => claim'[j].pake = 0
               /\ claim'[j].state # "unused" => claim'[j].who \in Browser
               /\ claim'[j].state \in Present <=> j = slot'
               /\ claim'[j].state = "waiting" => claim'[j].pake = 0
               /\ claim'[j].state \in Present \ {"waiting"} => claim'[j].pake > 0
               /\ claim'[j].pake <= session'.pake
               /\ \A i \in Claims : (claim'[j].pake > 0 /\ claim'[i].pake = claim'[j].pake) => i = j
    <3>1. CASE j = k
      <4>1. session.pake \in Nat
        BY <1>8 DEF SessionType
      <4> QED
        BY <1>5, <1>6, <1>7, <1>9, <2>1, <3>1, <4>1 DEF Present
    <3>2. CASE j # k
      <4>1. claim[j].state \notin Present
        BY <1>2, <1>3, <2>1 DEF ClaimsOK
      <4>2. \A i \in Claims : (claim[j].pake > 0 /\ claim'[i].pake = claim[j].pake) => i = j
        <5> SUFFICES ASSUME NEW i \in Claims, claim[j].pake > 0, claim'[i].pake = claim[j].pake
                     PROVE  i = j
          OBVIOUS
        <5>1. i # k
          BY <1>6
        <5> QED
          BY <1>3, <1>6, <5>1 DEF ClaimsOK, MetBy
      <4> QED
        BY <1>3, <1>6, <1>7, <1>9, <2>1, <3>2, <4>1, <4>2 DEF ClaimsOK
    <3> QED
      BY <3>1, <3>2
  <2> QED
    BY <2>1, <2>2, <2>3 DEF ClaimsOK, MetBy
<1>17. TagsOK'
  <2> SUFFICES ASSUME NEW i \in DOMAIN toHost', toHost'[i].kind = "tagC"
               PROVE  /\ \E j \in Claims : toHost'[i].pake > 0 /\ claim'[j].pake = toHost'[i].pake
                      /\ toHost'[i].pake # 0
    BY <1>6, <1>7 DEF TagsOK, Met, MetBy
  <2>1. i \in DOMAIN toHost /\ toHost'[i] = toHost[i]
    BY <1>10
  <2>2. Met(toHost'[i].pake)
    BY <1>3, <2>1 DEF TagsOK
  <2> QED
    BY <1>14, <2>2
<1>18. EnrollsOK'
  <2> SUFFICES ASSUME NEW i \in DOMAIN toHost', toHost'[i].kind = "enroll"
               PROVE  /\ toHost'[i].claim \in Claims
                      /\ session.pake > 0 /\ claim'[toHost'[i].claim].pake = session.pake
                      /\ claim'[toHost'[i].claim].state \in {"enrolling", "recording"} \cup Gone
                      /\ \A j \in DOMAIN toHost' : toHost'[j].kind = "peer-joined" => i < j
    BY <1>9 DEF EnrollsOK, MetBy
  <2>1. i \in DOMAIN toHost /\ toHost'[i] = toHost[i]
    BY <1>10
  <2>2. /\ toHost[i].claim \in Claims /\ session.pake > 0
        /\ claim[toHost[i].claim].pake = session.pake
        /\ claim[toHost[i].claim].state \in {"enrolling", "recording"} \cup Gone
        /\ \A j \in DOMAIN toHost : toHost[j].kind = "peer-joined" => i < j
    BY <1>3, <2>1 DEF EnrollsOK, MetBy
  <2>3. toHost[i].claim # k
    BY <1>4, <2>2 DEF Gone
  <2>4. \A j \in DOMAIN toHost' : toHost'[j].kind = "peer-joined" => i < j
    BY <1>10, <2>1, <2>2
  <2> QED
    BY <1>6, <2>1, <2>2, <2>3, <2>4
<1>19. DonesOK'
  <2> SUFFICES ASSUME NEW i \in DOMAIN toHost', toHost'[i].kind = "done"
               PROVE  /\ Settled
                      /\ \A j \in DOMAIN toHost' : toHost'[j].kind = "peer-joined" => i < j
    BY <1>13 DEF DonesOK
  <2>1. i \in DOMAIN toHost /\ toHost'[i] = toHost[i]
    BY <1>10
  <2>2. Settled /\ \A j \in DOMAIN toHost : toHost[j].kind = "peer-joined" => i < j
    BY <1>3, <2>1 DEF DonesOK
  <2> QED
    BY <1>10, <2>1, <2>2
<1>20. OffersOK' /\ RepliesOK'
  BY <1>11 DEF OffersOK, RepliesOK
<1>21. KeyedOK'
  BY <1>5, <1>6, <1>7 DEF KeyedOK
<1>22. session'.phase = "done" => session'.cached # Nobody /\ EnrolledClaim'
  <2> SUFFICES ASSUME session.phase = "done" PROVE session.cached # Nobody /\ EnrolledClaim'
    BY <1>9
  <2>1. PICK j \in Claims :
          /\ session.pake > 0 /\ claim[j].pake = session.pake /\ claim[j].state # "unused"
          /\ session.cached = claim[j].who /\ pairedKey[session.cached] = j
    BY DEF KeysIInv, EnrolledClaim, MetBy
  <2>2. j # k
    BY <1>4, <2>1
  <2> QED
    BY <1>2, <1>6, <1>9, <2>1, <2>2 DEF EnrolledClaim, MetBy, KeysIInv
<1>23. /\ slot' = NoClaim => toClaimant' = <<>>
       /\ session'.cached # Nobody => session'.cached \in guests'
       /\ session'.paired => session'.closed /\ Settled'
  BY <1>2, <1>9, <1>13 DEF KeysIInv
<1> QED
  BY <1>9, <1>15, <1>16, <1>17, <1>18, <1>19, <1>20, <1>21, <1>22, <1>23 DEF KeysIInv

\* A claim that was rejected while it recorded goes on with that.
LEMMA LateStep ==
  ASSUME KeysIInv, NEW k \in Claims, RecordsLate(k)
  PROVE  KeysIInv'
<1>1. /\ PairingTypeOK /\ ClaimsOK /\ TagsOK /\ EnrollsOK /\ DonesOK /\ OffersOK /\ RepliesOK
      /\ KeyedOK
  BY DEF KeysIInv
<1>2. /\ claim[k].state = "late" /\ claim' = [claim EXCEPT ![k].state = "lagged"]
      /\ recorded' = [recorded EXCEPT ![claim[k].who] = k]
      /\ UNCHANGED <<slot, toHost, toClaimant, session, guests, pairedKey>>
  BY DEF RecordsLate, hostSide
<1>3. claim[k] \in ClaimType /\ claim[k].who \in Browser
  BY <1>1, <1>2 DEF PairingTypeOK, ClaimsOK
<1>4. /\ claim' \in [Claims -> ClaimType]
      /\ \A j \in Claims : /\ claim'[j].pake = claim[j].pake /\ claim'[j].who = claim[j].who
                           /\ j # k => claim'[j].state = claim[j].state
      /\ claim'[k].state = "lagged"
  <2>1. [claim[k] EXCEPT !.state = "lagged"] \in ClaimType
    BY <1>3 DEF ClaimType, Gone
  <2>2. claim' = [claim EXCEPT ![k] = [claim[k] EXCEPT !.state = "lagged"]]
    BY <1>1, <1>2 DEF PairingTypeOK
  <2>3. claim' \in [Claims -> ClaimType]
    BY <1>1, <2>1, <2>2 DEF PairingTypeOK
  <2> QED
    BY <1>1, <1>3, <2>2, <2>3 DEF PairingTypeOK, ClaimType
<1>5. Lagged'
  BY <1>4 DEF Lagged
<1>6. Settled => Settled'
  BY <1>2, <1>5 DEF Settled
<1>7. k # slot
  BY <1>1, <1>2 DEF ClaimsOK, Present
<1>8. slot = NoClaim \/ slot \in Claims
  BY <1>1 DEF PairingTypeOK
<1>9. PairingTypeOK'
  <2>1. recorded' \in [Browser -> Claims \cup {NoClaim}]
    BY <1>1, <1>2, <1>3 DEF PairingTypeOK
  <2> QED
    BY <1>1, <1>2, <1>4, <2>1 DEF PairingTypeOK
<1>10. ClaimsOK'
  <2>1. PICK n \in Nat : \A j \in Claims : claim[j].state = "unused" <=> j > n
    BY <1>1 DEF ClaimsOK
  <2>2. \A j \in Claims : claim'[j].state = "unused" <=> j > n
    BY <1>2, <1>4, <2>1
  <2>3. \A j \in Claims : claim'[j].state \in Present <=> j = slot'
    BY <1>1, <1>2, <1>4, <1>7 DEF ClaimsOK, Present
  <2>4. ASSUME NEW j \in Claims
        PROVE  /\ claim'[j].state = "unused" => claim'[j].pake = 0
               /\ claim'[j].state # "unused" => claim'[j].who \in Browser
               /\ claim'[j].state = "waiting" => claim'[j].pake = 0
               /\ claim'[j].state \in Present \ {"waiting"} => claim'[j].pake > 0
               /\ claim'[j].pake <= session'.pake
               /\ \A i \in Claims : (claim'[j].pake > 0 /\ claim'[i].pake = claim'[j].pake) => i = j
    BY <1>1, <1>2, <1>3, <1>4 DEF ClaimsOK, MetBy, Present
  <2> QED
    BY <2>2, <2>3, <2>4 DEF ClaimsOK, MetBy
<1>11. /\ \A q : Met(q) => \E j \in Claims : q > 0 /\ claim'[j].pake = q
       /\ slot # NoClaim => claim'[slot].pake = claim[slot].pake /\ claim'[slot].state = claim[slot].state
  BY <1>4, <1>7, <1>8 DEF Met, MetBy
<1>12. TagsOK'
  BY <1>1, <1>2, <1>11 DEF TagsOK, Met, MetBy
<1>13. EnrollsOK'
  <2> SUFFICES ASSUME NEW i \in DOMAIN toHost, toHost[i].kind = "enroll"
               PROVE  /\ toHost[i].claim \in Claims
                      /\ session.pake > 0 /\ claim'[toHost[i].claim].pake = session.pake
                      /\ claim'[toHost[i].claim].state \in {"enrolling", "recording"} \cup Gone
                      /\ \A j \in DOMAIN toHost : toHost[j].kind = "peer-joined" => i < j
    BY <1>2 DEF EnrollsOK, MetBy
  <2>1. /\ toHost[i].claim \in Claims /\ session.pake > 0
        /\ claim[toHost[i].claim].pake = session.pake
        /\ claim[toHost[i].claim].state \in {"enrolling", "recording"} \cup Gone
        /\ \A j \in DOMAIN toHost : toHost[j].kind = "peer-joined" => i < j
    BY <1>1 DEF EnrollsOK, MetBy
  <2>2. CASE toHost[i].claim = k
    BY <1>4, <2>1, <2>2 DEF Gone
  <2>3. CASE toHost[i].claim # k
    BY <1>4, <2>1, <2>3
  <2> QED
    BY <2>2, <2>3
<1>14. DonesOK'
  BY <1>1, <1>2, <1>6 DEF DonesOK
<1>15. OffersOK'
  BY <1>1, <1>2, <1>4 DEF OffersOK
<1>16. RepliesOK'
  <2>1. ASSUME NEW i \in DOMAIN toClaimant,
               toClaimant[i].kind \in {"tagH", "hello", "enrolled"}
        PROVE  /\ \E j \in Claims : toClaimant[i].pake > 0 /\ claim'[j].pake = toClaimant[i].pake
               /\ toClaimant[i].pake > 0 /\ claim'[slot].pake = toClaimant[i].pake =>
                    session.pake = toClaimant[i].pake /\ NoJoin(toHost)
               /\ toClaimant[i].pake > 0 /\ claim'[slot].pake = toClaimant[i].pake
                    /\ toClaimant[i].kind = "enrolled" => session.phase = "done"
    <3>1. slot # NoClaim
      <4>1. slot = NoClaim => DOMAIN toClaimant = {}
        BY Queues DEF KeysIInv
      <4> QED
        BY <2>1, <4>1
    <3> QED
      BY <1>1, <1>11, <2>1, <3>1 DEF RepliesOK, MetBy
  <2> QED
    BY <1>2, <2>1 DEF RepliesOK, Met, MetBy
<1>17. KeyedOK'
  BY <1>1, <1>2, <1>11 DEF KeyedOK
<1>18. /\ slot' = NoClaim => toClaimant' = <<>>
       /\ session'.joined => ~session'.closed
       /\ ~session'.joined => toHost' = <<>>
       /\ session'.cached # Nobody => session'.cached \in guests'
       /\ session'.paired => session'.closed /\ Settled'
  BY <1>2, <1>6 DEF KeysIInv
<1>19. session'.phase = "done" => session'.cached # Nobody /\ EnrolledClaim'
  <2>1. \A j \in Claims : claim[j].state # "unused" => claim'[j].state # "unused"
    BY <1>4
  <2> QED
    BY <1>2, <1>4, <2>1 DEF KeysIInv, EnrolledClaim, MetBy
<1> QED
  BY <1>9, <1>10, <1>12, <1>13, <1>14, <1>15, <1>16, <1>17, <1>18, <1>19 DEF KeysIInv

LEMMA ClaimReadsStep ==
  ASSUME KeysIInv, ClaimReads
  PROVE  KeysIInv'
<1> DEFINE c == claim[slot]
           m == Head(toClaimant)
<1>1. /\ slot # NoClaim /\ toClaimant # <<>> /\ slot \in Claims
      /\ UNCHANGED <<session, pairedKey, guests, recorded>>
      /\ 1 \in DOMAIN toClaimant /\ toClaimant[1] = m
  <2>1. IsQueue(toClaimant) /\ toClaimant # <<>> /\ slot # NoClaim
    BY DEF KeysIInv, PairingTypeOK, ClaimReads
  <2> QED
    BY <2>1, Shorter, Queues DEF KeysIInv, PairingTypeOK, ClaimReads, hostSide
<1>2. /\ c.state \in Present /\ claim \in [Claims -> ClaimType] /\ c \in ClaimType
      /\ recorded \in [Browser -> Claims \cup {NoClaim}]
      /\ c.state \in Present \ {"waiting"} => c.pake > 0
  BY <1>1 DEF KeysIInv, PairingTypeOK, ClaimsOK
<1>3. c.state \in {"keyed", "enrolling", "recording"} => session.pake = c.pake /\ NoJoin(toHost)
  BY <1>1 DEF KeysIInv, KeyedOK
<1>4. ~session.joined => toHost = <<>>
  BY DEF KeysIInv
<1>5. m.kind \in {"tagH", "hello", "enrolled"} /\ c.state \in Present \ {"waiting"} /\ m.pake = c.pake =>
        /\ session.pake = c.pake /\ NoJoin(toHost)
        /\ m.kind = "enrolled" => session.phase = "done"
  BY <1>1, <1>2 DEF KeysIInv, RepliesOK, MetBy
<1>6. ASSUME NEW st, Becomes([c EXCEPT !.state = st])
      PROVE  /\ claim' = [claim EXCEPT ![slot].state = st] /\ toClaimant' = Tail(toClaimant)
             /\ slot' = slot
  BY <1>1, <1>2, <1>6 DEF Becomes
<1>7. CASE /\ m.kind = "msgA" /\ c.state = "waiting"
           /\ Becomes([c EXCEPT !.state = "answered", !.pake = m.pake])
           /\ ToHost(<<[kind |-> "msgB"],
                       [kind |-> "tagC", pake |-> m.pake, right |-> c.right]>>)
  BY <1>1, <1>7, AnswerStep
<1>8. CASE /\ m.kind = "tagH" /\ c.state = "answered" /\ m.pake = c.pake /\ c.right
           /\ Becomes([c EXCEPT !.state = "keyed"])
           /\ UNCHANGED toHost
  <2>1. session.pake = c.pake /\ NoJoin(toHost)
    BY <1>5, <1>8 DEF Present
  <2>2. "keyed" \in Present
    BY DEF Present
  <2> QED
    BY <1>1, <1>6, <1>8, <2>1, <2>2, ClaimGoesOn
<1>9. CASE /\ m.kind = "hello" /\ c.state = "keyed" /\ m.pake = c.pake
           /\ Becomes([c EXCEPT !.state = "enrolling"])
           /\ ToHost(<<[kind |-> "enroll", claim |-> slot]>>)
  <2>1. session.pake = c.pake /\ NoJoin(toHost)
    BY <1>3, <1>9
  <2>2. "enrolling" \in Present
    BY DEF Present
  <2>3. \/ toHost' = toHost
        \/ toHost' = toHost \o <<[kind |-> "enroll", claim |-> slot]>> /\ session.joined
    BY <1>9 DEF ToHost
  <2> QED
    BY <1>1, <1>6, <1>9, <2>1, <2>2, <2>3, ClaimGoesOn
<1>10. CASE /\ m.kind = "enrolled" /\ c.state = "enrolling" /\ m.pake = c.pake
            /\ Becomes([c EXCEPT !.state = "recording"])
            /\ UNCHANGED toHost
  <2>1. session.pake = c.pake /\ NoJoin(toHost) /\ session.phase = "done"
    BY <1>5, <1>10 DEF Present
  <2>2. "recording" \in Present
    BY DEF Present
  <2> QED
    BY <1>1, <1>6, <1>10, <2>1, <2>2, ClaimGoesOn
<1>11. CASE /\ c.state \in {"waiting", "answered"} /\ Becomes(c)
            /\ UNCHANGED toHost
  <2>1. claim' = [claim EXCEPT ![slot].state = claim[slot].state]
        /\ toClaimant' = Tail(toClaimant) /\ slot' = slot
    BY <1>1, <1>2, <1>11 DEF Becomes, ClaimType
  <2> QED
    BY <1>1, <1>2, <1>11, <2>1, ClaimGoesOn
<1>12. CASE Leaves(Rejected) /\ UNCHANGED toHost
  <2> DEFINE st == Rejected
  <2>1. st \in Gone \ {"lagged"}
    BY DEF Rejected, Gone
  <2>2. Leaves(st)
    BY <1>12
  <2>3. Settled => Settled'
    <3>1. claim' = [claim EXCEPT ![slot].state = st]
      BY <2>2 DEF Leaves
    <3> HIDE DEF st
    <3>2. Lagged' <=> Lagged
      BY <1>1, <2>1, <3>1, StateChange
    <3> QED
      BY <1>1, <3>2 DEF Settled
  <2> HIDE DEF st
  <2> QED
    BY <1>1, <1>2, <1>12, <2>1, <2>2, <2>3, LeaveStep
<1> QED
  BY <1>7, <1>8, <1>9, <1>10, <1>11, <1>12 DEF ClaimReads

LEMMA RecordsStep ==
  ASSUME KeysIInv, Records
  PROVE  KeysIInv'
<1>1. /\ slot # NoClaim /\ claim[slot].state = "recording" /\ slot \in Claims
      /\ recorded' = [recorded EXCEPT ![claim[slot].who] = slot]
      /\ Leaves("done") /\ UNCHANGED <<session, pairedKey, guests>>
      /\ recorded \in [Browser -> Claims \cup {NoClaim}]
  BY DEF Records, KeysIInv, PairingTypeOK, hostSide
<1>2. session.phase = "done" /\ session.pake = claim[slot].pake /\ NoJoin(toHost)
  BY <1>1 DEF KeysIInv, KeyedOK
<1>3. claim[slot].who \in Browser /\ claim[slot].pake > 0
  BY <1>1 DEF KeysIInv, ClaimsOK, Present
<1>4. session.cached = claim[slot].who /\ pairedKey[session.cached] = slot
  <2>1. PICK k \in Claims :
          /\ MetBy(k, session.pake)
          /\ session.cached = claim[k].who /\ pairedKey[session.cached] = k
    BY <1>2 DEF KeysIInv, EnrolledClaim
  <2>2. k = slot
    BY <1>1, <1>2, <2>1 DEF KeysIInv, ClaimsOK
  <2> QED
    BY <2>1, <2>2
<1>5. recorded' \in [Browser -> Claims \cup {NoClaim}] /\ recorded'[claim[slot].who] = slot
  BY <1>1, <1>3
<1>6. Settled'
  BY <1>1, <1>2, <1>4, <1>5 DEF Settled
<1>7. \/ toHost' = toHost
      \/ toHost' = toHost \o <<[kind |-> "done"]>> /\ session.joined
  BY DEF Records, ToHost
<1>8. "done" \in Gone \ {"lagged"}
  BY DEF Gone
<1> QED
  BY <1>1, <1>2, <1>5, <1>6, <1>7, <1>8, LeaveStep

LEMMA DeadlineStep ==
  ASSUME KeysIInv, DeadlinePasses
  PROVE  KeysIInv'
<1> DEFINE st == Rejected
<1>1. /\ slot # NoClaim /\ Leaves(st) /\ st \in Gone \ {"lagged"}
      /\ UNCHANGED <<toHost, session, pairedKey, guests, recorded>>
  BY DEF DeadlinePasses, hostSide, Rejected, Gone
<1>2. claim' = [claim EXCEPT ![slot].state = st]
  BY <1>1 DEF Leaves
<1>3. recorded \in [Browser -> Claims \cup {NoClaim}]
  BY DEF KeysIInv, PairingTypeOK
<1> HIDE DEF st
<1>4. Lagged' <=> Lagged
  BY <1>1, <1>2, StateChange
<1>5. Settled => Settled'
  BY <1>1, <1>4 DEF Settled
<1> QED
  BY <1>1, <1>3, <1>5, LeaveStep

LEMMA KeysNext == KeysIInv /\ [PairingNext]_pairingVars => KeysIInv'
<1> SUFFICES ASSUME KeysIInv, [PairingNext]_pairingVars PROVE KeysIInv'
  OBVIOUS
<1>1. /\ session \in SessionType /\ (session.joined => ~session.closed)
      /\ ~session.joined => toHost = <<>>
      /\ session.paired => session.closed /\ Settled
  BY DEF KeysIInv, PairingTypeOK, SessionType
<1>2. CASE RoomExpires
  BY <1>2, Closing DEF RoomExpires
<1>3. CASE HostJoins
  <2>1. /\ session' = [session EXCEPT !.joined = TRUE] /\ ~session.closed
        /\ UNCHANGED <<claim, slot, recorded, pairedKey, guests, toHost, toClaimant>>
    BY <1>3 DEF HostJoins
  <2>2. /\ session' \in SessionType /\ session'.pake = session.pake
        /\ session'.cached = session.cached /\ session'.phase = session.phase
        /\ session'.joined /\ ~session'.closed /\ session'.paired = session.paired
    BY <1>1, <2>1 DEF SessionType
  <2> QED
    BY <1>1, <2>1, <2>2, Silent
<1>4. CASE SessionReads
  BY <1>4, SessionReadsStep
<1>5. CASE HostDies
  <2>1. guests \subseteq guests'
    BY <1>5 DEF HostDies
  <2> QED
    BY <1>5, <2>1, Closing DEF HostDies
<1>6. ASSUME UNCHANGED <<claim, slot, recorded, pairedKey, session, toHost, toClaimant>>,
             guests \subseteq guests'
      PROVE  KeysIInv'
  BY <1>1, <1>6, Silent
<1>7. CASE GrantExpires
  BY <1>6, <1>7 DEF GrantExpires
<1>8. CASE ClaimReads
  BY <1>8, ClaimReadsStep
<1>9. CASE Records
  BY <1>9, RecordsStep
<1>10. CASE DeadlinePasses
  BY <1>10, DeadlineStep
<1>11. ASSUME NEW b \in Browser, NEW right \in BOOLEAN, ClaimStarts(b, right) PROVE KeysIInv'
  BY <1>11, ClaimStartsStep
<1>12. ASSUME NEW k \in Claims, RecordsLate(k) PROVE KeysIInv'
  BY <1>12, LateStep
<1>13. ASSUME NEW n \in Neighbour, Exchange(n) \/ CompletesLocally(n) PROVE KeysIInv'
  BY <1>6, <1>13 DEF Exchange, CompletesLocally
<1>14. ASSUME NEW n \in Neighbour, DiesAtTheDoor(n) PROVE KeysIInv'
  <2>1. guests \subseteq guests'
    BY <1>14 DEF DiesAtTheDoor
  <2> QED
    BY <1>14, <2>1, Closing DEF DiesAtTheDoor
<1>15. CASE UNCHANGED pairingVars
  BY <1>6, <1>15 DEF pairingVars
<1> QED
  BY <1>2, <1>3, <1>4, <1>5, <1>7, <1>8, <1>9, <1>10, <1>11, <1>12, <1>13, <1>14, <1>15
  DEF PairingNext

\* When the host is through with a pairing, the browser keeps the key that the
\* host has stored for it, unless a claim recorded its own after it was
\* rejected: whatever claims follow each other, give up, retry or lose the
\* acknowledgement (claimThroughRoom, handleEnroll, replayEnrolledFor).
THEOREM PairedCorrect == PairingSpec => []PairedKeysAgree
<1>1. ASSUME KeysIInv PROVE PairedKeysAgree
  <2> SUFFICES ASSUME session.paired, ~Lagged PROVE KeysAgree
    BY DEF PairedKeysAgree, Lagged
  <2>1. session.phase = "done" /\ recorded[session.cached] = pairedKey[session.cached]
    BY <1>1 DEF KeysIInv, Settled
  <2>2. session.cached \in guests /\ EnrolledClaim
    BY <1>1, <2>1 DEF KeysIInv
  <2>3. PICK k \in Claims : /\ claim[k].state # "unused" /\ session.cached = claim[k].who
                            /\ pairedKey[session.cached] = k
    BY <2>2 DEF EnrolledClaim
  <2>4. session.cached \in Browser /\ k # NoClaim
    BY <1>1, <2>3 DEF KeysIInv, ClaimsOK, Claims, NoClaim
  <2> QED
    BY <2>1, <2>2, <2>3, <2>4 DEF KeysAgree
<1> QED
  BY <1>1, KeysInit, KeysNext, PTL DEF PairingSpec
=============================================================================
