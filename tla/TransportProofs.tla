---------------------------- MODULE TransportProofs ----------------------------
(***************************************************************************)
(* What gets through, whole and once: the operator's submissions           *)
(* (PostDelivery), the payload of a remote turn (Residency) and the        *)
(* streams of a tunnel (TunnelMux), for any number of submissions,         *)
(* sockets, daemons, cuts and restarts, any streams, window and sizes.     *)
(***************************************************************************)
EXTENDS PostDelivery, Residency, TunnelMux, FiniteSetTheorems, SequenceTheorems, TLAPS

-----------------------------------------------------------------------------
(* Submissions.                                                            *)

\* What may have left the page: a row that waits for its first dispatch has not.
MayBeSent == {i \in Intent : row[i] \notin {"unsent", "queued"}}

Upstream(ids) == {Subscribe} \cup {Post(i) : i \in ids}
Downstream ==
  {f \in [type : {"sync", "message", "accepted", "error"}, ids : SUBSET Intent] :
     f.type # "error" => \A i \in f.ids : posted[i] = 1}

PostTypeOK ==
  /\ daemon \in {"full", "legacy"}
  /\ receipts \subseteq Intent /\ posted \in [Intent -> {0, 1}]
  /\ wired \in BOOLEAN /\ toDaemon \in Seq(Upstream(Intent)) /\ late \subseteq Intent
  /\ sockGen \in Nat /\ sockOpen \in BOOLEAN /\ roomLive \in BOOLEAN
  /\ capable \in {"unknown", "yes", "no"}
  /\ pend \in [Intent -> Int] /\ row \in [Intent -> RowStatus]

\* Only a daemon with receipts ever handles a submission: the page asks before
\* it dispatches, and a daemon is replaced only with the sockets it serves.
AskedFirst ==
  /\ wired => sockOpen
  /\ sockOpen => sockGen > 0
  /\ sockGen = 0 => capable = Supports
  /\ wired /\ capable = "yes" => daemon = "full"
  /\ wired /\ daemon = "legacy" => toDaemon \in Seq({Subscribe})
  /\ late # {} => daemon = "full"

\* What has been created has its receipt.
ReceiptsOK == \A i \in Intent : posted[i] = 1 <=> i \in receipts

\* A submission that has left the page, or whose message exists, is not among
\* the rows that wait.
SentOK ==
  /\ wired => toDaemon \in Seq(Upstream(MayBeSent))
  /\ late \subseteq MayBeSent /\ receipts \subseteq MayBeSent
  /\ \A i \in Intent : pend[i] # None => i \in MayBeSent

\* What the page hears of a submission is so, and stays so.
HeardOK ==
  /\ toPage \in Seq(Downstream)
  /\ \A i \in Intent : row[i] \in {"accepted", "gone"} => posted[i] = 1

PostIInv == PostTypeOK /\ AskedFirst /\ ReceiptsOK /\ SentOK /\ HeardOK

-----------------------------------------------------------------------------
(* Frames.                                                                 *)

\* A submission is among the frames of a set exactly if its id is.
LEMMA UpstreamHas ==
  ASSUME NEW ids, NEW i
  PROVE  Post(i) \in Upstream(ids) <=> i \in ids
<1>1. Post(i) # Subscribe
  <2>1. "id" \in DOMAIN Post(i) /\ "id" \notin DOMAIN Subscribe BY DEF Post, Subscribe
  <2> QED BY <2>1
<1>2. \A j : Post(i) = Post(j) => i = j
  <2>1. \A j : Post(j).id = j BY DEF Post
  <2> QED BY <2>1
<1> QED BY <1>1, <1>2 DEF Upstream

LEMMA UpstreamGrows ==
  ASSUME NEW ids, NEW more, ids \subseteq more, NEW s \in Seq(Upstream(ids))
  PROVE  s \in Seq(Upstream(more))
<1>1. Upstream(ids) \subseteq Upstream(more) BY DEF Upstream
<1> QED BY <1>1, SeqMonotonic

\* What a set of submissions is sent as: frames of these submissions.
LEMMA PostsOfType ==
  ASSUME NEW ids \in SUBSET Intent
  PROVE  PostsOf(ids) \in Seq(Upstream(ids))
<1>1. IsFiniteSet(ids) BY FS_Subset, PostDeliveryAssumption
<1>2. Cardinality(ids) \in Nat /\ ExistsBijection(1..Cardinality(ids), ids)
  BY <1>1, FS_CardinalityType
<1>3. \E f \in [1..Cardinality(ids) -> ids] : IsInjective(f)
  BY <1>2 DEF ExistsBijection, Bijection, Injection
<1> DEFINE s == SetToSeq(ids)
<1>4. s \in [1..Cardinality(ids) -> ids] BY <1>3 DEF SetToSeq
<1>5. PostsOf(ids) = [k \in 1..Cardinality(ids) |-> Post(s[k])] BY <1>4 DEF PostsOf
<1>6. \A k \in 1..Cardinality(ids) : Post(s[k]) \in Upstream(ids) BY <1>4, UpstreamHas
<1> HIDE DEF s
<1>7. PostsOf(ids) \in [1..Cardinality(ids) -> Upstream(ids)] BY <1>5, <1>6
<1> QED BY <1>2, <1>7, SeqDef

\* What the page may hear grows with what has been created.
LEMMA DownstreamGrows ==
  ASSUME PostTypeOK, \A i \in Intent : posted[i] = 1 => posted'[i] = 1,
         NEW s \in Seq(Downstream)
  PROVE  s \in Seq(Downstream')
<1>1. Downstream \subseteq Downstream' BY DEF Downstream
<1> QED BY <1>1, SeqMonotonic

-----------------------------------------------------------------------------
(* The steps of the page and of the daemon.                                *)

Waits(r, i) == r[i] \in {"unsent", "queued"}

\* retryOwned() and flushOutgoing() send only what they mark as sent.
LEMMA FlushedStep ==
  ASSUME PostIInv, NEW r \in [Intent -> RowStatus], NEW p \in [Intent -> Int],
         NEW mayFlush \in BOOLEAN, Flushed(r, p, mayFlush),
         \A i \in MayBeSent : ~Waits(r, i),
         \A i \in Intent : p[i] # None => ~Waits(r, i)
  PROVE  /\ row' \in [Intent -> RowStatus] /\ pend' \in [Intent -> Int]
         /\ toDaemon' \in Seq(Upstream(Intent))
         /\ mayFlush \/ toDaemon' = toDaemon
         /\ MayBeSent \subseteq MayBeSent'
         /\ wired => toDaemon' \in Seq(Upstream(MayBeSent'))
         /\ \A i \in Intent : pend'[i] # None => i \in MayBeSent'
         /\ \A i \in Intent : row'[i] \in {"accepted", "gone"} => row'[i] = r[i]
<1>0. /\ row \in [Intent -> RowStatus] /\ sockGen \in Nat
      /\ toDaemon \in Seq(Upstream(Intent))
  BY DEF PostIInv, PostTypeOK
<1>1. wired => toDaemon \in Seq(Upstream(MayBeSent)) BY DEF PostIInv, SentOK
<1>2. CASE ~mayFlush
  <2>1. row' = r /\ pend' = p /\ toDaemon' = toDaemon BY <1>2 DEF Flushed
  <2>2. MayBeSent' = {i \in Intent : ~Waits(r, i)} BY <2>1 DEF MayBeSent, Waits
  <2>3. MayBeSent \subseteq MayBeSent' BY <2>2 DEF MayBeSent
  <2>4. wired => toDaemon' \in Seq(Upstream(MayBeSent'))
    BY <1>1, <2>1, <2>3, UpstreamGrows
  <2> QED BY <1>0, <2>1, <2>2, <2>3, <2>4
<1>3. CASE mayFlush
  <2> DEFINE again == Unanswered(p)
             first == Waiting(r)
  <2>1. /\ toDaemon' = toDaemon \o PostsOf(again) \o PostsOf(first)
        /\ pend' = [i \in Intent |-> IF i \in again \cup first THEN sockGen ELSE p[i]]
        /\ row' = [i \in Intent |-> IF i \in first THEN "sending" ELSE r[i]]
    BY <1>3 DEF Flushed
  <2>2. again \subseteq Intent /\ first \subseteq Intent BY DEF Unanswered, Waiting
  <2>3. \A i \in Intent : row'[i] = IF i \in first THEN "sending" ELSE r[i] BY <2>1
  <2>4. \A i \in first : r[i] = "queued" BY DEF Waiting
  <2>5. \A i \in again : p[i] # None BY DEF Unanswered
  <2>6. \A i \in Intent : Waits(row, i) \/ i \in MayBeSent BY DEF Waits, MayBeSent
  <2>7. \A i \in Intent : i \in first \/ ~Waits(r, i) => ~Waits(row', i)
    BY <2>3 DEF Waits
  <2>8. MayBeSent' = {i \in Intent : ~Waits(row', i)} BY DEF MayBeSent, Waits
  <2>9. MayBeSent \subseteq MayBeSent'
    <3>1. MayBeSent \subseteq Intent BY DEF MayBeSent
    <3> QED BY <2>7, <2>8, <3>1
  <2>10. again \subseteq MayBeSent' /\ first \subseteq MayBeSent'
    BY <2>2, <2>5, <2>7, <2>8
  <2>11. /\ PostsOf(again) \in Seq(Upstream(MayBeSent'))
         /\ PostsOf(first) \in Seq(Upstream(MayBeSent'))
         /\ PostsOf(again) \in Seq(Upstream(Intent))
         /\ PostsOf(first) \in Seq(Upstream(Intent))
    BY <2>2, <2>10, PostsOfType, UpstreamGrows
  <2>12. wired => toDaemon \in Seq(Upstream(MayBeSent'))
    BY <1>1, <2>9, UpstreamGrows
  <2> HIDE DEF again, first
  <2>13. wired => toDaemon' \in Seq(Upstream(MayBeSent'))
    BY <2>1, <2>11, <2>12, ConcatProperties
  <2>14. toDaemon' \in Seq(Upstream(Intent)) BY <1>0, <2>1, <2>11, ConcatProperties
  <2>15. row' \in [Intent -> RowStatus] BY <2>1 DEF RowStatus, Shown
  <2>16. pend' \in [Intent -> Int] BY <1>0, <2>1
  <2>17. \A i \in Intent : pend'[i] # None => i \in MayBeSent'
    <3> SUFFICES ASSUME NEW i \in Intent, pend'[i] # None PROVE i \in MayBeSent' OBVIOUS
    <3>1. i \in again \cup first \/ pend'[i] = p[i] BY <2>1
    <3> QED BY <2>7, <2>8, <2>10, <3>1
  <2>18. \A i \in Intent : row'[i] \in {"accepted", "gone"} => row'[i] = r[i]
    BY <2>3
  <2> QED BY <1>3, <2>9, <2>13, <2>14, <2>15, <2>16, <2>17, <2>18
<1> QED BY <1>2, <1>3

\* A step of the page on the socket it holds.
LEMMA PageStep ==
  ASSUME PostIInv,
         UNCHANGED <<daemon, receipts, posted, sockGen, sockOpen, wired, late>>,
         roomLive' \in BOOLEAN, capable' \in {"unknown", "yes", "no"},
         sockGen = 0 => capable' = capable,
         wired /\ capable' = "yes" => daemon = "full",
         row' \in [Intent -> RowStatus], pend' \in [Intent -> Int],
         toPage' \in Seq(Downstream),
         MayBeSent \subseteq MayBeSent',
         \A i \in Intent : pend'[i] # None => i \in MayBeSent',
         \A i \in Intent : row'[i] \in {"accepted", "gone"} => posted[i] = 1,
         toDaemon' \in Seq(Upstream(Intent)),
         wired => toDaemon' \in Seq(Upstream(MayBeSent')),
         wired /\ daemon = "legacy" => toDaemon' \in Seq({Subscribe})
  PROVE  PostIInv'
<1>1. /\ PostTypeOK /\ AskedFirst /\ ReceiptsOK /\ SentOK /\ HeardOK BY DEF PostIInv
<1>2. PostTypeOK' BY <1>1 DEF PostTypeOK
<1>3. AskedFirst' BY <1>1 DEF AskedFirst, Supports
<1>4. ReceiptsOK' BY <1>1 DEF ReceiptsOK
<1>5. SentOK' BY <1>1 DEF SentOK
<1>6. HeardOK'
  <2>1. Downstream' = Downstream BY DEF Downstream
  <2> QED BY <1>1, <2>1 DEF HeardOK
<1> QED BY <1>2, <1>3, <1>4, <1>5, <1>6 DEF PostIInv

\* One row and its submission change, and are dispatched at most once.
LEMMA OneRowStep ==
  ASSUME PostIInv, UNCHANGED <<host, page, wired, toPage, late>>,
         NEW i \in Intent,
         row' \in [Intent -> RowStatus], pend' \in [Intent -> Int],
         \A j \in Intent : j # i => row'[j] = row[j] /\ pend'[j] = pend[j],
         row'[i] # "unsent", row'[i] = "queued" => row[i] = "unsent" /\ pend'[i] = pend[i],
         row'[i] \in {"accepted", "gone"} => row'[i] = row[i],
         \/ toDaemon' = toDaemon
         \/ /\ toDaemon' = Append(toDaemon, Post(i))
            /\ capable = "yes" /\ row'[i] = "sending"
  PROVE  PostIInv'
<1>1. /\ PostTypeOK /\ AskedFirst /\ ReceiptsOK /\ SentOK /\ HeardOK BY DEF PostIInv
<1>2. UNCHANGED <<daemon, receipts, posted, sockGen, sockOpen, roomLive, capable, wired,
                  toPage, late>>
  BY DEF host, page
<1>3. row \in [Intent -> RowStatus] /\ toDaemon \in Seq(Upstream(Intent))
  BY <1>1 DEF PostTypeOK
<1>4. i \in MayBeSent' \/ i \notin MayBeSent BY DEF MayBeSent
<1>5. MayBeSent \subseteq MayBeSent'
  <2> SUFFICES ASSUME NEW j \in MayBeSent PROVE j \in MayBeSent' OBVIOUS
  <2>1. j \in Intent /\ row[j] \notin {"unsent", "queued"} BY DEF MayBeSent
  <2> QED BY <1>4, <2>1 DEF MayBeSent
<1>6. \A j \in Intent : pend'[j] # None => j \in MayBeSent'
  <2> SUFFICES ASSUME NEW j \in Intent, pend'[j] # None PROVE j \in MayBeSent' OBVIOUS
  <2>1. pend[j] # None => j \in MayBeSent BY <1>1 DEF SentOK
  <2>2. CASE j # i BY <1>5, <2>1, <2>2
  <2>3. CASE j = i /\ row'[i] = "queued" BY <1>5, <2>1, <2>3
  <2>4. CASE j = i /\ row'[i] # "queued" BY <2>4 DEF MayBeSent
  <2> QED BY <2>2, <2>3, <2>4
<1>7. wired => toDaemon \in Seq(Upstream(MayBeSent'))
  BY <1>1, <1>5, UpstreamGrows DEF SentOK
<1>8. /\ toDaemon' \in Seq(Upstream(Intent))
      /\ wired => toDaemon' \in Seq(Upstream(MayBeSent'))
      /\ wired /\ daemon = "legacy" => toDaemon' \in Seq({Subscribe})
  <2>1. wired /\ daemon = "legacy" => toDaemon \in Seq({Subscribe}) /\ capable # "yes"
    BY <1>1 DEF AskedFirst
  <2>2. CASE toDaemon' = toDaemon BY <1>3, <1>7, <2>1, <2>2
  <2>3. CASE /\ toDaemon' = Append(toDaemon, Post(i))
             /\ capable = "yes" /\ row'[i] = "sending"
    <3>1. i \in MayBeSent' BY <2>3 DEF MayBeSent
    <3>2. Post(i) \in Upstream(MayBeSent') /\ Post(i) \in Upstream(Intent)
      BY <3>1, UpstreamHas
    <3>3. toDaemon' \in Seq(Upstream(Intent)) BY <1>3, <2>3, <3>2, AppendProperties
    <3>4. wired => toDaemon' \in Seq(Upstream(MayBeSent'))
      BY <1>7, <2>3, <3>2, AppendProperties
    <3> QED BY <2>1, <2>3, <3>3, <3>4
  <2> QED BY <2>2, <2>3
<1>9. \A j \in Intent : row'[j] \in {"accepted", "gone"} => posted[j] = 1
  BY <1>1 DEF HeardOK
<1>10. /\ roomLive' \in BOOLEAN /\ capable' \in {"unknown", "yes", "no"}
       /\ capable' = capable /\ toPage' \in Seq(Downstream)
       /\ wired /\ capable = "yes" => daemon = "full"
  BY <1>1, <1>2 DEF PostTypeOK, HeardOK, AskedFirst
<1> QED BY <1>2, <1>5, <1>6, <1>8, <1>9, <1>10, PageStep

LEMMA ComposeStep ==
  ASSUME PostIInv, NEW i \in Intent, Compose(i)
  PROVE  PostIInv'
<1>1. /\ row[i] = "unsent" /\ row \in [Intent -> RowStatus] /\ pend \in [Intent -> Int]
      /\ sockGen \in Nat
  BY DEF Compose, PostIInv, PostTypeOK
<1>2. UNCHANGED <<host, page, wired, toPage, late>> BY DEF Compose
<1>3. CASE row' = [row EXCEPT ![i] = "failed"] /\ UNCHANGED <<toDaemon, pend>>
  <2>1. row' \in [Intent -> RowStatus] BY <1>1, <1>3 DEF RowStatus, Shown
  <2> QED BY <1>1, <1>2, <1>3, <2>1, OneRowStep
<1>4. CASE /\ MayDispatch /\ row' = [row EXCEPT ![i] = "sending"]
           /\ pend' = [pend EXCEPT ![i] = sockGen] /\ toDaemon' = Append(toDaemon, Post(i))
  <2>1. row' \in [Intent -> RowStatus] /\ capable = "yes"
    BY <1>1, <1>4 DEF RowStatus, Shown, MayDispatch
  <2>2. pend' \in [Intent -> Int] BY <1>1, <1>4
  <2> QED BY <1>1, <1>2, <1>4, <2>1, <2>2, OneRowStep
<1>5. CASE row' = [row EXCEPT ![i] = "queued"] /\ UNCHANGED <<toDaemon, pend>>
  <2>1. row' \in [Intent -> RowStatus] BY <1>1, <1>5 DEF RowStatus, Shown
  <2> QED BY <1>1, <1>2, <1>5, <2>1, OneRowStep
<1> QED BY <1>3, <1>4, <1>5 DEF Compose

LEMMA ResendStep ==
  ASSUME PostIInv, NEW i \in Intent, Resend(i)
  PROVE  PostIInv'
<1>1. /\ row \in [Intent -> RowStatus] /\ pend \in [Intent -> Int] /\ sockGen \in Nat
      /\ row[i] \in {"failed", "uncertain"} /\ capable = "yes"
  BY DEF Resend, PostIInv, PostTypeOK
<1>2. UNCHANGED <<host, page, wired, toPage, late>> BY DEF Resend
<1>3. CASE /\ row' = [row EXCEPT ![i] = "sending"]
           /\ pend' = [pend EXCEPT ![i] = sockGen] /\ toDaemon' = Append(toDaemon, Post(i))
  <2>1. row' \in [Intent -> RowStatus] BY <1>1, <1>3 DEF RowStatus, Shown
  <2>2. pend' \in [Intent -> Int] BY <1>1, <1>3
  <2> QED BY <1>1, <1>2, <1>3, <2>1, <2>2, OneRowStep
<1>4. CASE UNCHANGED <<row, pend, toDaemon>> BY <1>1, <1>2, <1>4, OneRowStep
<1> QED BY <1>3, <1>4 DEF Resend

LEMMA DiscardStep ==
  ASSUME PostIInv, NEW i \in Intent, Discard(i)
  PROVE  PostIInv'
<1>1. /\ row \in [Intent -> RowStatus] /\ pend \in [Intent -> Int]
      /\ row' = [row EXCEPT ![i] = "discarded"] /\ pend' = [pend EXCEPT ![i] = None]
      /\ UNCHANGED <<host, page, wired, toPage, late, toDaemon>>
  BY DEF Discard, PostIInv, PostTypeOK, sock
<1>2. row' \in [Intent -> RowStatus] /\ pend' \in [Intent -> Int]
  BY <1>1 DEF RowStatus, None
<1> QED BY <1>1, <1>2, OneRowStep

\* retire() leaves rows that wait as they are, and loses sight of those sent.
LEMMA OpenSocketStep ==
  ASSUME PostIInv, OpenSocket
  PROVE  PostIInv'
<1>1. /\ PostTypeOK /\ AskedFirst /\ ReceiptsOK /\ SentOK /\ HeardOK BY DEF PostIInv
<1>2. /\ ~sockOpen /\ sockGen' = sockGen + 1 /\ sockOpen' = TRUE /\ wired' = TRUE
      /\ roomLive' = FALSE /\ capable' = KnownAfterOpen
      /\ toDaemon' = <<Subscribe>> /\ toPage' = <<>> /\ row' = Retired
      /\ UNCHANGED <<daemon, receipts, posted, late, pend>>
  BY DEF OpenSocket, host
<1>3. row \in [Intent -> RowStatus] /\ sockGen \in Nat BY <1>1 DEF PostTypeOK
<1>4. row' \in [Intent -> RowStatus] BY <1>2, <1>3 DEF Retired, RowStatus, Shown
<1>5. \A i \in Intent : row'[i] = IF row[i] = "sending" THEN "uncertain" ELSE row[i]
  BY <1>2 DEF Retired
<1>6. MayBeSent' = MayBeSent BY <1>5 DEF MayBeSent
<1>7. \A ids : <<Subscribe>> \in Seq(Upstream(ids)) BY DEF Upstream
<1>8. <<Subscribe>> \in Seq({Subscribe}) OBVIOUS
<1>9. PostTypeOK'
  <2>1. sockGen' \in Nat BY <1>2, <1>3
  <2>2. capable' \in {"unknown", "yes", "no"} BY <1>1, <1>2 DEF PostTypeOK, KnownAfterOpen
  <2> QED BY <1>1, <1>2, <1>4, <1>7, <2>1, <2>2 DEF PostTypeOK
<1>10. AskedFirst'
  <2>1. capable' = "yes" => daemon = "full"
    BY <1>1, <1>2 DEF AskedFirst, KnownAfterOpen, Supports
  <2> QED BY <1>1, <1>2, <1>3, <1>8, <2>1 DEF AskedFirst
<1>11. ReceiptsOK' BY <1>1, <1>2 DEF ReceiptsOK
<1>12. SentOK' BY <1>1, <1>2, <1>6, <1>7 DEF SentOK
<1>13. HeardOK'
  <2>1. toPage' \in Seq(Downstream') BY <1>2
  <2> QED BY <1>1, <1>2, <1>5, <2>1 DEF HeardOK
<1> QED BY <1>9, <1>10, <1>11, <1>12, <1>13 DEF PostIInv

LEMMA CloseSocketStep ==
  ASSUME PostIInv, CloseSocket
  PROVE  PostIInv'
<1>1. /\ PostTypeOK /\ AskedFirst /\ ReceiptsOK /\ SentOK /\ HeardOK BY DEF PostIInv
<1>2. /\ sockOpen /\ sockOpen' = FALSE /\ wired' = FALSE /\ toDaemon' = <<>>
      /\ toPage' = <<>> /\ late' = late \cup InFlight
      /\ UNCHANGED <<daemon, receipts, posted, sockGen, roomLive, capable, pend, row>>
  BY DEF CloseSocket, host, local
<1>3. InFlight \subseteq MayBeSent
  <2> SUFFICES ASSUME NEW i \in InFlight PROVE i \in MayBeSent OBVIOUS
  <2>1. wired /\ Post(i) \in Range(toDaemon) BY DEF InFlight
  <2>2. toDaemon \in Seq(Upstream(MayBeSent)) BY <1>1, <2>1 DEF SentOK
  <2>3. Post(i) \in Upstream(MayBeSent) BY <2>1, <2>2, RangeOfSeq
  <2> QED BY <2>3, UpstreamHas
<1>4. daemon = "legacy" => InFlight = {}
  <2> SUFFICES ASSUME daemon = "legacy", NEW i \in InFlight PROVE FALSE OBVIOUS
  <2>1. wired /\ Post(i) \in Range(toDaemon) BY DEF InFlight
  <2>2. toDaemon \in Seq({Subscribe}) BY <1>1, <2>1 DEF AskedFirst
  <2>3. Post(i) = Subscribe BY <2>1, <2>2, RangeOfSeq
  <2>4. Post(i) \in Upstream({}) BY <2>3 DEF Upstream
  <2> QED BY <2>4, UpstreamHas
<1>5. MayBeSent' = MayBeSent /\ MayBeSent \subseteq Intent BY <1>2 DEF MayBeSent
<1>6. PostTypeOK'
  <2>1. toDaemon' \in Seq(Upstream(Intent)) BY <1>2
  <2>2. late' \subseteq Intent BY <1>1, <1>2, <1>3, <1>5 DEF PostTypeOK
  <2> QED BY <1>1, <1>2, <2>1, <2>2 DEF PostTypeOK
<1>7. AskedFirst' BY <1>1, <1>2, <1>4 DEF AskedFirst, Supports, PostTypeOK
<1>8. ReceiptsOK' BY <1>1, <1>2 DEF ReceiptsOK
<1>9. SentOK' BY <1>1, <1>2, <1>3, <1>5 DEF SentOK
<1>10. HeardOK'
  <2>1. toPage' \in Seq(Downstream') BY <1>2
  <2> QED BY <1>1, <1>2, <2>1 DEF HeardOK
<1> QED BY <1>6, <1>7, <1>8, <1>9, <1>10 DEF PostIInv

LEMMA CapabilityAnswerStep ==
  ASSUME PostIInv, CapabilityAnswer
  PROVE  PostIInv'
<1>1. /\ PostTypeOK /\ AskedFirst /\ SentOK /\ HeardOK BY DEF PostIInv
<1>2. /\ sockOpen /\ capable' = Supports /\ Flushed(row, pend, roomLive /\ Supports = "yes")
      /\ UNCHANGED <<daemon, receipts, posted, sockGen, sockOpen, wired, late, toPage,
                     roomLive>>
  BY DEF CapabilityAnswer, host
<1>3. row \in [Intent -> RowStatus] /\ pend \in [Intent -> Int] /\ roomLive \in BOOLEAN
  BY <1>1 DEF PostTypeOK
<1>4. /\ \A i \in MayBeSent : ~Waits(row, i)
      /\ \A i \in Intent : pend[i] # None => ~Waits(row, i)
  BY <1>1 DEF SentOK, MayBeSent, Waits
<1>5. (roomLive /\ Supports = "yes") \in BOOLEAN OBVIOUS
<1> DEFINE may == roomLive /\ Supports = "yes"
<1>6. /\ row' \in [Intent -> RowStatus] /\ pend' \in [Intent -> Int]
      /\ toDaemon' \in Seq(Upstream(Intent))
      /\ may \/ toDaemon' = toDaemon
      /\ MayBeSent \subseteq MayBeSent'
      /\ wired => toDaemon' \in Seq(Upstream(MayBeSent'))
      /\ \A i \in Intent : pend'[i] # None => i \in MayBeSent'
      /\ \A i \in Intent : row'[i] \in {"accepted", "gone"} => row'[i] = row[i]
  <2>1. may \in BOOLEAN /\ Flushed(row, pend, may) BY <1>2
  <2> HIDE DEF may
  <2> QED BY <1>3, <1>4, <2>1, FlushedStep
<1>7. wired /\ daemon = "legacy" => toDaemon' \in Seq({Subscribe})
  BY <1>1, <1>6 DEF AskedFirst, Supports
<1>8. \A i \in Intent : row'[i] \in {"accepted", "gone"} => posted[i] = 1
  BY <1>1, <1>6 DEF HeardOK
<1>9. /\ roomLive' \in BOOLEAN /\ capable' \in {"unknown", "yes", "no"}
      /\ sockGen = 0 => capable' = capable
      /\ capable' = "yes" => daemon = "full"
      /\ toPage' \in Seq(Downstream)
  BY <1>1, <1>2, <1>3 DEF Supports, HeardOK, AskedFirst
<1> HIDE DEF may
<1> QED BY <1>2, <1>6, <1>7, <1>8, <1>9, PageStep

\* The daemon creates a submission only if it keeps receipts, and then once.
LEMMA AcceptedStep ==
  ASSUME PostTypeOK, ReceiptsOK, daemon = "full", NEW i \in Intent, Accepted(i)
  PROVE  /\ receipts' = receipts \cup {i}
         /\ posted' \in [Intent -> {0, 1}]
         /\ \A j \in Intent : posted'[j] = 1 <=> j \in receipts'
         /\ \A j \in Intent : posted[j] = 1 => posted'[j] = 1
<1>1. posted \in [Intent -> {0, 1}] /\ receipts \subseteq Intent BY DEF PostTypeOK
<1>2. receipts' = receipts \cup {i} BY DEF Accepted
<1>3. CASE i \in receipts
  <2>1. posted' = posted BY <1>3 DEF Accepted, Known
  <2> QED BY <1>1, <1>2, <1>3, <2>1 DEF ReceiptsOK
<1>4. CASE i \notin receipts
  <2>1. posted' = [posted EXCEPT ![i] = posted[i] + 1] BY <1>4 DEF Accepted, Known
  <2>2. posted[i] = 0 BY <1>1, <1>4 DEF ReceiptsOK
  <2>3. posted' = [posted EXCEPT ![i] = 1] BY <2>1, <2>2
  <2> QED BY <1>1, <1>2, <2>3 DEF ReceiptsOK
<1> QED BY <1>3, <1>4

\* A step of the daemon on a submission, or on none, tells the page what is so.
LEMMA DaemonStep ==
  ASSUME PostIInv,
         UNCHANGED <<daemon, sockGen, sockOpen, roomLive, capable, wired, pend, row>>,
         toDaemon' \in Seq(Upstream(Intent)),
         wired => toDaemon' \in Seq(Upstream(MayBeSent)),
         wired /\ daemon = "legacy" => toDaemon' \in Seq({Subscribe}),
         late' \subseteq late,
         receipts' \subseteq MayBeSent, posted' \in [Intent -> {0, 1}],
         \A j \in Intent : posted'[j] = 1 <=> j \in receipts',
         \A j \in Intent : posted[j] = 1 => posted'[j] = 1,
         toPage' \in Seq(Downstream')
  PROVE  PostIInv'
<1>1. /\ PostTypeOK /\ AskedFirst /\ ReceiptsOK /\ SentOK /\ HeardOK BY DEF PostIInv
<1>2. MayBeSent' = MayBeSent /\ MayBeSent \subseteq Intent BY DEF MayBeSent
<1>3. PostTypeOK' BY <1>1, <1>2 DEF PostTypeOK
<1>4. AskedFirst' BY <1>1 DEF AskedFirst, Supports
<1>5. ReceiptsOK' BY DEF ReceiptsOK
<1>6. SentOK' BY <1>1, <1>2 DEF SentOK
<1>7. HeardOK' BY <1>1 DEF HeardOK
<1> QED BY <1>3, <1>4, <1>5, <1>6, <1>7 DEF PostIInv

\* The message and the answer for a submission that has been accepted.
LEMMA FramesHeard ==
  ASSUME PostTypeOK, NEW i \in Intent, posted' \in [Intent -> {0, 1}], posted'[i] = 1
  PROVE  /\ MessageFrame(i) \in Seq(Downstream')
         /\ AnswerFrame(i, "accepted") \in Seq(Downstream')
<1>1. [type |-> "message", ids |-> {i}] \in Downstream' BY DEF Downstream
<1>2. [type |-> "accepted", ids |-> {i}] \in Downstream' BY DEF Downstream
<1> QED BY <1>1, <1>2 DEF MessageFrame, AnswerFrame

LEMMA HandleFrameStep ==
  ASSUME PostIInv, HandleFrame
  PROVE  PostIInv'
<1>1. /\ PostTypeOK /\ AskedFirst /\ ReceiptsOK /\ SentOK /\ HeardOK BY DEF PostIInv
<1>2. /\ wired /\ toDaemon # <<>> /\ toDaemon' = Tail(toDaemon)
      /\ UNCHANGED <<daemon, sockGen, sockOpen, roomLive, capable, wired, late, pend, row>>
  BY DEF HandleFrame, page, local
<1>3. /\ toDaemon \in Seq(Upstream(MayBeSent)) /\ toDaemon \in Seq(Upstream(Intent))
      /\ daemon = "legacy" => toDaemon \in Seq({Subscribe})
  BY <1>1, <1>2 DEF SentOK, PostTypeOK, AskedFirst
<1>4. /\ toDaemon' \in Seq(Upstream(MayBeSent)) /\ toDaemon' \in Seq(Upstream(Intent))
      /\ daemon = "legacy" => toDaemon' \in Seq({Subscribe})
  BY <1>2, <1>3, HeadTailProperties
<1>5. /\ Head(toDaemon) \in Upstream(MayBeSent)
      /\ daemon = "legacy" => Head(toDaemon) = Subscribe
  BY <1>2, <1>3, HeadTailProperties
<1>6. toPage \in Seq(Downstream) /\ receipts \subseteq MayBeSent /\ receipts \subseteq Intent
  BY <1>1 DEF HeardOK, SentOK, PostTypeOK
<1> DEFINE f == Head(toDaemon)
<1>7. CASE /\ \E shown \in {{}, receipts} : toPage' = Append(toPage,
                  [type |-> "sync", ids |-> IF daemon = "full" THEN shown ELSE {}])
           /\ UNCHANGED <<posted, receipts>>
  <2>1. PICK ids \in SUBSET receipts : toPage' = Append(toPage, [type |-> "sync", ids |-> ids])
    BY <1>7
  <2>2. [type |-> "sync", ids |-> ids] \in Downstream BY <1>1, <1>6 DEF Downstream, ReceiptsOK
  <2>3. toPage' \in Seq(Downstream) BY <1>6, <2>1, <2>2, AppendProperties
  <2>4. toPage' \in Seq(Downstream') BY <1>1, <1>7, <2>3, DownstreamGrows
  <2>5. posted' \in [Intent -> {0, 1}] BY <1>1, <1>7 DEF PostTypeOK
  <2> QED BY <1>1, <1>2, <1>4, <1>6, <1>7, <2>4, <2>5, DaemonStep DEF ReceiptsOK
<1>8. CASE f.type = "post" /\ Accepted(f.id)
           /\ toPage' = toPage \o MessageFrame(f.id) \o AnswerFrame(f.id, "accepted")
  <2>1. f # Subscribe BY <1>8 DEF Subscribe
  <2>2. daemon = "full" BY <1>1, <1>5, <2>1 DEF PostTypeOK
  <2>3. PICK i \in MayBeSent : f = Post(i) BY <1>5, <2>1 DEF Upstream
  <2>4. f.id = i /\ i \in Intent BY <2>3 DEF Post, MayBeSent
  <2>5. /\ receipts' = receipts \cup {i}
        /\ posted' \in [Intent -> {0, 1}]
        /\ \A j \in Intent : posted'[j] = 1 <=> j \in receipts'
        /\ \A j \in Intent : posted[j] = 1 => posted'[j] = 1
    BY <1>1, <1>8, <2>2, <2>4, AcceptedStep
  <2>6. toPage \in Seq(Downstream') BY <1>1, <1>6, <2>5, DownstreamGrows
  <2>7. MessageFrame(i) \in Seq(Downstream') /\ AnswerFrame(i, "accepted") \in Seq(Downstream')
    BY <1>1, <2>4, <2>5, FramesHeard
  <2>8. toPage' \in Seq(Downstream') BY <1>8, <2>4, <2>6, <2>7, ConcatProperties
  <2>9. receipts' \subseteq MayBeSent BY <1>6, <2>5
  <2> QED BY <1>2, <1>4, <2>5, <2>8, <2>9, DaemonStep
<1>9. CASE f.type = "post" /\ toPage' = toPage \o AnswerFrame(f.id, "error")
           /\ UNCHANGED <<posted, receipts>>
  <2>1. f # Subscribe BY <1>9 DEF Subscribe
  <2>2. PICK i \in MayBeSent : f = Post(i) BY <1>5, <2>1 DEF Upstream
  <2>3. f.id = i /\ i \in Intent BY <2>2 DEF Post, MayBeSent
  <2>4. [type |-> "error", ids |-> {i}] \in Downstream BY <2>3 DEF Downstream
  <2>5. AnswerFrame(i, "error") \in Seq(Downstream) BY <2>4 DEF AnswerFrame
  <2>6. toPage' \in Seq(Downstream) BY <1>6, <1>9, <2>3, <2>5, ConcatProperties
  <2>7. toPage' \in Seq(Downstream') BY <1>1, <1>9, <2>6, DownstreamGrows
  <2>8. posted' \in [Intent -> {0, 1}] BY <1>1, <1>9 DEF PostTypeOK
  <2> QED BY <1>1, <1>2, <1>4, <1>6, <1>9, <2>7, <2>8, DaemonStep DEF ReceiptsOK
<1> QED BY <1>7, <1>8, <1>9 DEF HandleFrame

LEMMA HandleLateStep ==
  ASSUME PostIInv, NEW i \in Intent, HandleLate(i)
  PROVE  PostIInv'
<1>1. /\ PostTypeOK /\ AskedFirst /\ ReceiptsOK /\ SentOK /\ HeardOK BY DEF PostIInv
<1>2. /\ i \in late /\ late' = late \ {i}
      /\ UNCHANGED <<daemon, sockGen, sockOpen, roomLive, capable, wired, toDaemon, pend, row>>
  BY DEF HandleLate, page, local
<1>3. /\ toDaemon \in Seq(Upstream(Intent))
      /\ wired => toDaemon \in Seq(Upstream(MayBeSent))
      /\ wired /\ daemon = "legacy" => toDaemon \in Seq({Subscribe})
      /\ daemon = "full" /\ i \in MayBeSent
  BY <1>1, <1>2 DEF SentOK, PostTypeOK, AskedFirst
<1>4. toPage \in Seq(Downstream) /\ receipts \subseteq MayBeSent
  BY <1>1 DEF HeardOK, SentOK
<1>5. CASE Accepted(i) /\ toPage' \in {toPage, toPage \o MessageFrame(i)}
  <2>1. /\ receipts' = receipts \cup {i}
        /\ posted' \in [Intent -> {0, 1}]
        /\ \A j \in Intent : posted'[j] = 1 <=> j \in receipts'
        /\ \A j \in Intent : posted[j] = 1 => posted'[j] = 1
    BY <1>1, <1>3, <1>5, AcceptedStep
  <2>2. toPage \in Seq(Downstream') BY <1>1, <1>4, <2>1, DownstreamGrows
  <2>3. MessageFrame(i) \in Seq(Downstream') BY <1>1, <2>1, FramesHeard
  <2>4. toPage' \in Seq(Downstream') BY <1>5, <2>2, <2>3, ConcatProperties
  <2>5. receipts' \subseteq MayBeSent BY <1>3, <1>4, <2>1
  <2> QED BY <1>2, <1>3, <2>1, <2>4, <2>5, DaemonStep
<1>6. CASE UNCHANGED <<posted, receipts, toPage>>
  <2>1. toPage' \in Seq(Downstream') BY <1>1, <1>4, <1>6, DownstreamGrows
  <2>2. posted' \in [Intent -> {0, 1}] BY <1>1, <1>6 DEF PostTypeOK
  <2> QED BY <1>1, <1>2, <1>3, <1>4, <1>6, <2>1, <2>2, DaemonStep DEF ReceiptsOK
<1> QED BY <1>5, <1>6 DEF HandleLate

\* A daemon goes with its sockets and with what was on them.
LEMMA ReplaceStep ==
  ASSUME PostIInv, Replace
  PROVE  PostIInv'
<1>1. /\ PostTypeOK /\ AskedFirst /\ ReceiptsOK /\ SentOK /\ HeardOK BY DEF PostIInv
<1>2. /\ sockGen > 0 /\ daemon' \in {"full", "legacy"}
      /\ wired' = FALSE /\ toDaemon' = <<>> /\ late' = {}
      /\ UNCHANGED <<receipts, posted, sockGen, sockOpen, roomLive, capable, toPage, pend, row>>
  BY DEF Replace, page, local
<1>3. MayBeSent' = MayBeSent /\ Downstream' = Downstream
  BY <1>2 DEF MayBeSent, Downstream
<1>4. PostTypeOK'
  <2>1. toDaemon' \in Seq(Upstream(Intent)) BY <1>2
  <2> QED BY <1>1, <1>2, <2>1 DEF PostTypeOK
<1>5. AskedFirst' BY <1>1, <1>2 DEF AskedFirst, PostTypeOK
<1>6. ReceiptsOK' BY <1>1, <1>2 DEF ReceiptsOK
<1>7. SentOK' BY <1>1, <1>2, <1>3 DEF SentOK
<1>8. HeardOK' BY <1>1, <1>2, <1>3 DEF HeardOK
<1> QED BY <1>4, <1>5, <1>6, <1>7, <1>8 DEF PostIInv

\* The rows that a frame with ids of existing messages leaves behind.
LEMMA ShownRows ==
  ASSUME PostIInv, NEW ids \in SUBSET Intent
  PROVE  /\ WithoutShown(ids) \in [Intent -> RowStatus]
         /\ Unpended(ids) \in [Intent -> Int]
         /\ \A i \in MayBeSent : ~Waits(WithoutShown(ids), i)
         /\ \A i \in Intent : Unpended(ids)[i] # None => ~Waits(WithoutShown(ids), i)
         /\ \A i \in Intent : Unpended(ids)[i] # None => i \in MayBeSent
         /\ \A i \in Intent :
              WithoutShown(ids)[i] \in {"accepted", "gone"} => posted[i] = 1 \/ i \in ids
<1>1. row \in [Intent -> RowStatus] /\ pend \in [Intent -> Int]
  BY DEF PostIInv, PostTypeOK
<1>2. \A i \in Intent : pend[i] # None => i \in MayBeSent BY DEF PostIInv, SentOK
<1>3. \A i \in Intent : row[i] \in {"accepted", "gone"} => posted[i] = 1
  BY DEF PostIInv, HeardOK
<1>4. \A i \in Intent : \/ WithoutShown(ids)[i] = "gone" /\ i \in ids
                        \/ WithoutShown(ids)[i] = row[i]
  BY DEF WithoutShown
<1>5. \A i \in Intent : Unpended(ids)[i] = None \/ Unpended(ids)[i] = pend[i] BY DEF Unpended
<1>6. WithoutShown(ids) \in [Intent -> RowStatus] BY <1>1 DEF WithoutShown, RowStatus
<1>7. Unpended(ids) \in [Intent -> Int] BY <1>1 DEF Unpended, None
<1>8. \A i \in MayBeSent : i \in Intent /\ ~Waits(WithoutShown(ids), i)
  BY <1>4 DEF MayBeSent, Waits
<1>9. \A i \in Intent : Unpended(ids)[i] # None => i \in MayBeSent BY <1>2, <1>5
<1> QED BY <1>3, <1>4, <1>6, <1>7, <1>8, <1>9

LEMMA HandleAnswerStep ==
  ASSUME PostIInv, HandleAnswer
  PROVE  PostIInv'
<1>1. /\ PostTypeOK /\ AskedFirst /\ ReceiptsOK /\ SentOK /\ HeardOK BY DEF PostIInv
<1>2. /\ sockOpen /\ toPage # <<>> /\ toPage' = Tail(toPage)
      /\ UNCHANGED <<daemon, receipts, posted, sockGen, sockOpen, wired, late, capable>>
  BY DEF HandleAnswer, host
<1> DEFINE f == Head(toPage)
<1>3. f \in Downstream /\ toPage' \in Seq(Downstream)
  BY <1>1, <1>2, HeadTailProperties DEF HeardOK
<1>4. /\ f.ids \in SUBSET Intent
      /\ f.type # "error" => \A i \in f.ids : posted[i] = 1
  BY <1>3 DEF Downstream
<1> HIDE DEF f
<1> DEFINE rows == WithoutShown(f.ids)
           left == Unpended(f.ids)
<1>5. /\ rows \in [Intent -> RowStatus] /\ left \in [Intent -> Int]
      /\ \A i \in MayBeSent : ~Waits(rows, i)
      /\ \A i \in Intent : left[i] # None => ~Waits(rows, i)
      /\ \A i \in Intent : left[i] # None => i \in MayBeSent
      /\ \A i \in Intent : rows[i] \in {"accepted", "gone"} => posted[i] = 1 \/ i \in f.ids
  BY <1>4, ShownRows
<1> HIDE DEF rows, left
<1>6. /\ capable \in {"unknown", "yes", "no"} /\ roomLive \in BOOLEAN
      /\ toDaemon \in Seq(Upstream(Intent))
      /\ wired => toDaemon \in Seq(Upstream(MayBeSent))
      /\ wired /\ daemon = "legacy" => toDaemon \in Seq({Subscribe}) /\ capable # "yes"
      /\ wired /\ capable = "yes" => daemon = "full"
  BY <1>1 DEF PostTypeOK, SentOK, AskedFirst
<1>7. CASE /\ f.type = "sync" /\ roomLive' = TRUE
           /\ Flushed(rows, left, capable = "yes")
  <2> DEFINE may == capable = "yes"
  <2>1. /\ row' \in [Intent -> RowStatus] /\ pend' \in [Intent -> Int]
        /\ toDaemon' \in Seq(Upstream(Intent))
        /\ may \/ toDaemon' = toDaemon
        /\ MayBeSent \subseteq MayBeSent'
        /\ wired => toDaemon' \in Seq(Upstream(MayBeSent'))
        /\ \A i \in Intent : pend'[i] # None => i \in MayBeSent'
        /\ \A i \in Intent : row'[i] \in {"accepted", "gone"} => row'[i] = rows[i]
    <3>1. may \in BOOLEAN /\ Flushed(rows, left, may) BY <1>7
    <3> HIDE DEF may
    <3> QED BY <1>5, <3>1, FlushedStep
  <2>2. \A i \in Intent : row'[i] \in {"accepted", "gone"} => posted[i] = 1
    BY <1>4, <1>5, <1>7, <2>1
  <2>3. wired /\ daemon = "legacy" => toDaemon' \in Seq({Subscribe}) BY <1>6, <2>1
  <2>4. roomLive' \in BOOLEAN BY <1>7
  <2> HIDE DEF may
  <2> QED BY <1>2, <1>3, <1>6, <2>1, <2>2, <2>3, <2>4, PageStep
<1>8. CASE f.type = "message" /\ row' = rows /\ pend' = left /\ UNCHANGED <<toDaemon, roomLive>>
  <2>1. MayBeSent' = {i \in Intent : ~Waits(rows, i)} BY <1>8 DEF MayBeSent, Waits
  <2>2. MayBeSent \subseteq MayBeSent' BY <1>5, <2>1 DEF MayBeSent
  <2>3. wired => toDaemon' \in Seq(Upstream(MayBeSent')) BY <1>6, <1>8, <2>2, UpstreamGrows
  <2>4. \A i \in Intent : pend'[i] # None => i \in MayBeSent' BY <1>5, <1>8, <2>2
  <2>5. \A i \in Intent : row'[i] \in {"accepted", "gone"} => posted[i] = 1
    BY <1>4, <1>5, <1>8
  <2> QED BY <1>2, <1>3, <1>5, <1>6, <1>8, <2>2, <2>3, <2>4, <2>5, PageStep
<1>9. ASSUME NEW status \in {"accepted", "failed"},
             status = "accepted" => f.type # "error",
             row' = RowsAnswered(f.ids, status), pend' = left, UNCHANGED <<toDaemon, roomLive>>
      PROVE  PostIInv'
  <2>1. row \in [Intent -> RowStatus] BY <1>1 DEF PostTypeOK
  <2>2. \A i \in Intent : \/ row'[i] = row[i]
                          \/ row'[i] = status /\ pend[i] # None /\ i \in f.ids
    BY <1>9 DEF RowsAnswered, Answered
  <2>3. row' \in [Intent -> RowStatus] BY <1>9, <2>1 DEF RowsAnswered, RowStatus, Shown
  <2>4. MayBeSent \subseteq MayBeSent' BY <2>2 DEF MayBeSent
  <2>5. wired => toDaemon' \in Seq(Upstream(MayBeSent')) BY <1>6, <1>9, <2>4, UpstreamGrows
  <2>6. \A i \in Intent : pend'[i] # None => i \in MayBeSent' BY <1>5, <1>9, <2>4
  <2>7. \A i \in Intent : row'[i] \in {"accepted", "gone"} => posted[i] = 1
    BY <1>1, <1>4, <1>9, <2>2 DEF HeardOK
  <2> QED BY <1>2, <1>3, <1>5, <1>6, <1>9, <2>3, <2>4, <2>5, <2>6, <2>7, PageStep
<1>10. CASE f.type = "accepted" /\ row' = RowsAnswered(f.ids, "accepted")
            /\ pend' = left /\ UNCHANGED <<toDaemon, roomLive>>
  BY <1>9, <1>10
<1>11. CASE f.type = "error" /\ row' = RowsAnswered(f.ids, "failed")
            /\ pend' = left /\ UNCHANGED <<toDaemon, roomLive>>
  BY <1>9, <1>11
<1> QED BY <1>7, <1>8, <1>10, <1>11 DEF HandleAnswer, f, rows, left

LEMMA PostNextStep ==
  ASSUME PostIInv, [PostNext]_postVars
  PROVE  PostIInv'
<1>1. CASE UNCHANGED postVars
  <2>1. UNCHANGED <<daemon, receipts, posted, sockGen, sockOpen, roomLive, capable, wired,
                    toDaemon, toPage, late, pend, row>>
    BY <1>1 DEF postVars, host, sock, page, local
  <2>2. MayBeSent' = MayBeSent /\ Downstream' = Downstream
    BY <2>1 DEF MayBeSent, Downstream
  <2>3. PostTypeOK' BY <2>1 DEF PostIInv, PostTypeOK
  <2>4. AskedFirst' BY <2>1 DEF PostIInv, AskedFirst, Supports
  <2>5. ReceiptsOK' BY <2>1 DEF PostIInv, ReceiptsOK
  <2>6. SentOK' BY <2>1, <2>2 DEF PostIInv, SentOK
  <2>7. HeardOK' BY <2>1, <2>2 DEF PostIInv, HeardOK
  <2> QED BY <2>3, <2>4, <2>5, <2>6, <2>7 DEF PostIInv
<1>2. CASE PostNext
  BY <1>2, OpenSocketStep, CloseSocketStep, CapabilityAnswerStep, HandleFrameStep,
     HandleAnswerStep, ReplaceStep, ComposeStep, ResendStep, DiscardStep, HandleLateStep
     DEF PostNext
<1> QED BY <1>1, <1>2

LEMMA PostInitInv ==
  ASSUME PostInit
  PROVE  PostIInv
<1>1. toDaemon \in Seq(Upstream(Intent)) /\ toPage \in Seq(Downstream) BY DEF PostInit
<1>2. PostTypeOK
  <2>1. row \in [Intent -> RowStatus] /\ pend \in [Intent -> Int]
    BY DEF PostInit, RowStatus, None
  <2>2. daemon \in {"full", "legacy"} /\ capable \in {"unknown", "yes", "no"}
    BY DEF PostInit, Supports
  <2> QED BY <1>1, <2>1, <2>2 DEF PostInit, PostTypeOK
<1>3. AskedFirst BY DEF PostInit, AskedFirst
<1>4. ReceiptsOK BY DEF PostInit, ReceiptsOK
<1>5. SentOK BY DEF PostInit, SentOK
<1>6. HeardOK BY <1>1 DEF PostInit, HeardOK
<1> QED BY <1>2, <1>3, <1>4, <1>5, <1>6 DEF PostIInv

LEMMA PostInvariant == PostSpec => []PostIInv
<1>1. PostInit => PostIInv BY PostInitInv
<1>2. PostIInv /\ [PostNext]_postVars => PostIInv' BY PostNextStep
<1> HIDE DEF PostIInv, PostInit, PostNext, postVars
<1> QED BY <1>1, <1>2, PTL DEF PostSpec

\* A message the operator sent once is created at most once, whatever sockets
\* are cut, however often it is sent again (pending-submission.ts, connector.ts)
\* and whichever daemons come and go: one without receipts is never sent any.
THEOREM PostedOnceCorrect == PostSpec => []NeverPostedTwice
<1>1. PostIInv => NeverPostedTwice BY DEF PostIInv, PostTypeOK, NeverPostedTwice
<1> HIDE DEF PostIInv, NeverPostedTwice
<1> QED BY <1>1, PostInvariant, PTL

\* What the page says of a submission (app/outgoing.ts) is true of the room.
THEOREM RowsCorrect == PostSpec => []RowsTellTheTruth
<1>1. PostIInv => RowsTellTheTruth
  <2> SUFFICES ASSUME PostIInv, NEW i \in Intent
               PROVE  /\ row[i] \in {"unsent", "queued"} => posted[i] = 0
                      /\ row[i] \in {"accepted", "gone"} => posted[i] > 0
    BY DEF RowsTellTheTruth
  <2>1. posted[i] \in {0, 1} BY DEF PostIInv, PostTypeOK
  <2>2. posted[i] = 1 => i \in MayBeSent BY DEF PostIInv, ReceiptsOK, SentOK
  <2>3. row[i] \in {"accepted", "gone"} => posted[i] = 1 BY DEF PostIInv, HeardOK
  <2> QED BY <2>1, <2>2, <2>3 DEF MayBeSent
<1> HIDE DEF PostIInv, RowsTellTheTruth
<1> QED BY <1>1, PostInvariant, PTL

-----------------------------------------------------------------------------
(* Remote turns.                                                           *)

\* The harness has the payload only of an attempt that is past its acceptance,
\* and whose events have begun: neither is ever taken back.
StartsOK ==
  /\ starts \in 0..1 /\ rlen \in Nat
  /\ rstate \in {"none", "accepted"} => starts = 0
  /\ rlen = 0 => starts = 0

LEMMA StartsStep ==
  ASSUME StartsOK, [ResidencyNext]_residencyVars
  PROVE  StartsOK'
<1>1. CASE UNCHANGED residentVars BY <1>1 DEF StartsOK, residentVars
<1>2. CASE UNCHANGED residencyVars BY <1>1, <1>2 DEF residencyVars
<1>3. CASE ResidentReceives
  <2>1. CASE acceptResidentDelivery
    <3>1. /\ starts' = starts /\ rlen' = rlen
          /\ rstate' \in {"none", "accepted"} => rstate \in {"none", "accepted"}
      BY <2>1 DEF acceptResidentDelivery, Runnable, residentVars
    <3> QED BY <3>1 DEF StartsOK
  <2>2. CASE UNCHANGED residentVars BY <1>1, <2>2
  <2> QED BY <1>3, <2>1, <2>2 DEF ResidentReceives, ResidentHandles, reconcileResident
<1>4. CASE Starts
  <2>1. rstate' = "started" /\ starts' = starts + 1 /\ rlen' = rlen + 1 /\ rstate = "accepted"
    BY <1>4 DEF Starts, Emit
  <2> QED BY <2>1 DEF StartsOK
<1>5. CASE Works
  <2>1. rlen' = rlen + 1 /\ rstate' = rstate /\ starts' = starts /\ rstate = "started"
    BY <1>5 DEF Works, Emit
  <2> QED BY <2>1 DEF StartsOK
<1>6. CASE Completes
  <2>1. rstate' = "completed" /\ rlen' = rlen /\ starts' = starts BY <1>6 DEF Completes
  <2> QED BY <2>1 DEF StartsOK
<1>7. CASE Fails
  <2>1. rlen' = rlen /\ starts' = starts BY <1>7 DEF Fails
  <2>2. rstate' = "ambiguous" \/ (rlen = 0 /\ rstate' = "accepted") BY <1>7 DEF Fails
  <2> QED BY <2>1, <2>2 DEF StartsOK
<1>8. CASE ResidentRestarts
  <2>1. rstate' = rstate /\ rlen' = rlen /\ starts' = starts BY <1>8 DEF ResidentRestarts
  <2> QED BY <2>1 DEF StartsOK
<1>9. CASE \/ StartTurn \/ TurnRefused \/ HomeReceives \/ Finalize \/ RetryCompletionAck
           \/ Release \/ Cut \/ LinkUp \/ NeighbourEnds \/ HomeRestarts
  <2>1. UNCHANGED residentVars
    BY <1>9 DEF StartTurn, TurnRefused, HomeReceives, Finalize, RetryCompletionAck, Release,
                Cut, LinkUp, NeighbourEnds, HomeRestarts
  <2> QED BY <1>1, <2>1
<1> QED BY <1>2, <1>3, <1>4, <1>5, <1>6, <1>7, <1>8, <1>9 DEF ResidencyNext

\* The payload of a remote turn is handed to its harness at most once, however
\* deliveries are repeated, streams cut, rows released and sides restarted
\* (residency.ts, acceptResidentDelivery and reconcileResident).
THEOREM StartedOnceCorrect == ResidencySpec => []StartedOnce
<1>1. ResidencyInit => StartsOK BY DEF ResidencyInit, StartsOK
<1>2. StartsOK /\ [ResidencyNext]_residencyVars => StartsOK' BY StartsStep
<1>3. StartsOK => StartedOnce BY DEF StartsOK, StartedOnce
<1> HIDE DEF StartsOK, ResidencyInit, ResidencyNext, residencyVars, StartedOnce
<1> QED BY <1>1, <1>2, <1>3, PTL DEF ResidencySpec

\* The invariant behind the journal: what the home has journaled are the first
\* events of the attempt, an open stream resumes behind them, and neither the
\* home nor the channel to it has an event the resident has not.
FirstEvents(n) == [k \in 1..n |-> k - 1]
Said == [kind : {"deliver", "reconcile", "event_ack"}, n : Int]
Reply ==
  [kind : {"event", "completed", "never_started", "ambiguous", "completion_ack"}, n : Int]
HeardBy(n) ==
  {m \in Reply :
     /\ m.kind = "event" => m.n \in 0..(n - 1)
     /\ m.kind = "completed" => n = Final + 1}
Carrying(M) == [old : Seq(M), early : Seq(M), late : Seq(M)]

ResidencyIInv ==
  /\ rlen \in 0..(Final + 1) /\ Len(journal) \in 0..rlen
  /\ journal = FirstEvents(Len(journal))
  /\ rstate \in {"none", "accepted"} => rlen = 0
  /\ rstate = "completed" => rlen = Final + 1
  /\ open \in BOOLEAN /\ next \in 0..(Final + 1)
  /\ open => next = Len(journal)
  /\ buffered \subseteq next..(rlen - 1)
  /\ ending \/ delivery = "consumed" => Len(journal) = Final + 1
  /\ toHome \in Carrying(HeardBy(rlen))
  /\ toResident \in Carrying(Said)

LEMMA OfFinal == Final \in Nat \ {0}
BY ResidencyAssumption

LEMMA InChannel ==
  ASSUME NEW M, NEW ch \in Carrying(M)
  PROVE  /\ \A msgs \in Seq(M) : After(ch, msgs) \in Carrying(M)
         /\ \A msgs \in Seq(M) : Rewritten(ch, msgs) \in Carrying(M)
         /\ Kept(ch) \in Carrying(M)
         /\ ch # Empty => HeadOf(ch) \in M /\ TailOf(ch) \in Carrying(M)
<1>1. /\ ch.old \in Seq(M) /\ ch.early \in Seq(M) /\ ch.late \in Seq(M)
      /\ ch = [old |-> ch.old, early |-> ch.early, late |-> ch.late]
  BY DEF Carrying
<1>2. <<>> \in Seq(M) BY EmptySeq
<1>3. ASSUME NEW s \in Seq(M)
      PROVE  /\ [ch EXCEPT !.old = s] \in Carrying(M) /\ [ch EXCEPT !.early = s] \in Carrying(M)
             /\ [ch EXCEPT !.late = s] \in Carrying(M)
  BY <1>1 DEF Carrying
<1>4. ASSUME NEW s \in Seq(M), NEW t \in Seq(M) PROVE s \o t \in Seq(M)
  BY ConcatProperties
<1>5. \A msgs \in Seq(M) : After(ch, msgs) \in Carrying(M)
  <2> TAKE msgs \in Seq(M)
  <2>1. ch.late \o msgs \in Seq(M) /\ ch.old \o msgs \in Seq(M) BY <1>1, <1>4
  <2> QED BY <1>3, <2>1 DEF After
<1>6. \A msgs \in Seq(M) : Rewritten(ch, msgs) \in Carrying(M)
  BY <1>1, <1>2 DEF Rewritten, Carrying
<1>7. Kept(ch) \in Carrying(M)
  <2>1. (ch.old \o ch.early) \o ch.late \in Seq(M) BY <1>1, <1>4
  <2> QED BY <1>2, <2>1 DEF Kept, Carrying
<1>8. ASSUME ch # Empty PROVE HeadOf(ch) \in M /\ TailOf(ch) \in Carrying(M)
  <2>1. CASE ch.early # <<>>
    <3>1. Head(ch.early) \in M /\ Tail(ch.early) \in Seq(M) BY <1>1, <2>1, HeadTailProperties
    <3> QED BY <1>3, <2>1, <3>1 DEF HeadOf, TailOf
  <2>2. CASE ch.early = <<>> /\ ch.old # <<>>
    <3>1. Head(ch.old) \in M /\ Tail(ch.old) \in Seq(M) BY <1>1, <2>2, HeadTailProperties
    <3> QED BY <1>3, <2>2, <3>1 DEF HeadOf, TailOf
  <2>3. CASE ch.early = <<>> /\ ch.old = <<>>
    <3>1. ch.late # <<>> BY <1>1, <1>8, <2>3 DEF Empty
    <3>2. Head(ch.late) \in M /\ Tail(ch.late) \in Seq(M) BY <1>1, <3>1, HeadTailProperties
    <3> QED BY <1>3, <2>3, <3>2 DEF HeadOf, TailOf
  <2> QED BY <2>1, <2>2, <2>3
<1> QED BY <1>5, <1>6, <1>7, <1>8

LEMMA NothingCarried == \A M : Empty \in Carrying(M)
BY EmptySeq DEF Empty, Carrying

\* A home that has heard of m events may hear of more.
LEMMA HearsOn ==
  ASSUME NEW m \in 0..(Final + 1), NEW n \in m..(Final + 1), NEW ch \in Carrying(HeardBy(m))
  PROVE  ch \in Carrying(HeardBy(n))
<1>1. HeardBy(m) \subseteq HeardBy(n) BY OfFinal DEF HeardBy
<1>2. /\ ch.old \in Seq(HeardBy(m)) /\ ch.early \in Seq(HeardBy(m))
      /\ ch.late \in Seq(HeardBy(m))
      /\ ch = [old |-> ch.old, early |-> ch.early, late |-> ch.late]
  BY DEF Carrying
<1>3. /\ ch.old \in Seq(HeardBy(n)) /\ ch.early \in Seq(HeardBy(n))
      /\ ch.late \in Seq(HeardBy(n))
  BY <1>1, <1>2, SeqMonotonic
<1> QED BY <1>2, <1>3 DEF Carrying

\* Events in a row, in ascending order.
LEMMA AscendingRow ==
  ASSUME NEW a \in Nat, NEW n \in Nat
  PROVE  Ascending(a..(a + n - 1)) = [k \in 1..n |-> a + k - 1]
<1> DEFINE S == a..(a + n - 1)
<1>0. ASSUME NEW b \in Int
      PROVE  Cardinality(a..b) = IF a > b THEN 0 ELSE b - a + 1
  BY FS_Interval
<1>1. Cardinality(S) = n BY FS_Interval
<1>2. ASSUME NEW i \in S PROVE Cardinality({j \in S : j < i}) = i - a
  <2>1. {j \in S : j < i} = a..(i - 1) OBVIOUS
  <2>2. i - 1 \in Int /\ i >= a OBVIOUS
  <2>3. Cardinality(a..(i - 1)) = IF a > i - 1 THEN 0 ELSE (i - 1) - a + 1
    BY <1>0, <2>2
  <2>4. i \in Int /\ a \in Int OBVIOUS
  <2>5. Cardinality(a..(i - 1)) = i - a
    <3> HIDE DEF S
    <3> QED BY <2>2, <2>3, <2>4
  <2> HIDE DEF S
  <2> QED BY <2>1, <2>5
<1>3. ASSUME NEW k \in 1..n
      PROVE  (CHOOSE i \in S : Cardinality({j \in S : j < i}) = k - 1) = a + k - 1
  <2>1. a + k - 1 \in S OBVIOUS
  <2>2. Cardinality({j \in S : j < a + k - 1}) = k - 1 BY <1>2, <2>1
  <2>3. ASSUME NEW i \in S, Cardinality({j \in S : j < i}) = k - 1 PROVE i = a + k - 1
    <3>1. i - a = k - 1 BY <1>2, <2>3
    <3> QED BY <3>1
  <2> HIDE DEF S
  <2> QED BY <2>1, <2>2, <2>3
<1> HIDE DEF S
<1>4. Ascending(S) = [k \in 1..n |-> a + k - 1] BY <1>1, <1>3 DEF Ascending
<1> QED BY <1>4 DEF S

LEMMA FirstOf ==
  ASSUME NEW n \in Nat
  PROVE  /\ FirstEvents(n) \in Seq(Nat) /\ Len(FirstEvents(n)) = n
         /\ \A k \in 1..n : FirstEvents(n)[k] = k - 1
BY DEF FirstEvents

\* The first m events and the next n are the first m + n.
LEMMA FirstAndNext ==
  ASSUME NEW m \in Nat, NEW n \in Nat
  PROVE  FirstEvents(m) \o Ascending(m..(m + n - 1)) = FirstEvents(m + n)
<1> DEFINE s == FirstEvents(m)
           t == [k \in 1..n |-> m + k - 1]
           u == FirstEvents(m + n)
<1>1. s \in Seq(Nat) /\ Len(s) = m /\ \A k \in 1..m : s[k] = k - 1 BY FirstOf
<1>2. t \in Seq(Nat) /\ Len(t) = n /\ \A k \in 1..n : t[k] = m + k - 1 OBVIOUS
<1>3. u \in Seq(Nat) /\ Len(u) = m + n /\ \A k \in 1..(m + n) : u[k] = k - 1
  BY FirstOf
<1>4. Ascending(m..(m + n - 1)) = t BY AscendingRow
<1> HIDE DEF s, t, u
<1>5. /\ s \o t \in Seq(Nat) /\ Len(s \o t) = m + n
      /\ \A k \in 1..(m + n) : (s \o t)[k] = IF k <= m THEN s[k] ELSE t[k - m]
  BY <1>1, <1>2, ConcatProperties
<1>6. \A k \in 1..(m + n) : (s \o t)[k] = u[k]
  <2> TAKE k \in 1..(m + n)
  <2>1. CASE k <= m
    <3>1. k \in 1..m BY <2>1
    <3>2. s[k] = k - 1 /\ u[k] = k - 1 BY <1>1, <1>3, <3>1
    <3>3. (s \o t)[k] = s[k] BY <1>5, <2>1
    <3> QED BY <3>2, <3>3
  <2>2. CASE ~(k <= m)
    <3>1. k - m \in 1..n /\ ~(k <= m) /\ m + (k - m) - 1 = k - 1 BY <2>2
    <3>2. t[k - m] = m + (k - m) - 1 BY <1>2, <3>1
    <3>3. (s \o t)[k] = t[k - m] BY <1>5, <3>1
    <3>4. u[k] = k - 1 BY <1>3
    <3> QED BY <3>1, <3>2, <3>3, <3>4
  <2> QED BY <2>1, <2>2
<1>7. s \o t = u BY <1>3, <1>5, <1>6, SeqEqual
<1> QED BY <1>4, <1>7 DEF s, u

\* What a delivery makes contiguous is a row of events that begins with the next
\* one; what stays buffered lies behind it.
LEMMA ContiguousRow ==
  ASSUME NEW r \in Nat, next \in Nat, buffered \subseteq next..(r - 1),
         NEW E, \A i \in E : i >= next => i \in 0..(r - 1),
         NEW n, n = Cardinality(Contiguous(E))
  PROVE  /\ n \in Nat /\ (next + n <= r \/ n = 0)
         /\ Contiguous(E) = next..(next + n - 1)
         /\ (buffered \cup {i \in E : i >= next}) \ Contiguous(E) \subseteq (next + n)..(r - 1)
<1> DEFINE held == buffered \cup {i \in E : i >= next}
           C == Contiguous(E)
<1>1. \A i \in E : i >= next => i \in next..(r - 1) OBVIOUS
<1>2. held \subseteq next..(r - 1) BY <1>1
<1>3. C = {i \in held : \A j \in next..i : j \in held} BY DEF Contiguous
<1> HIDE DEF held, C
<1>4. C \in SUBSET (next..(r - 1)) BY <1>2, <1>3
<1>5. IsFiniteSet(next..(r - 1)) BY FS_Interval
<1>6. IsFiniteSet(C) BY <1>4, <1>5, FS_Subset
<1>7. n \in Nat BY <1>6, FS_CardinalityType DEF C
<1>8. ASSUME NEW i \in C PROVE next..i \in SUBSET C
  <2>1. i \in next..(r - 1) BY <1>4
  <2>2. \A j \in next..i : j \in held /\ next..j \subseteq next..i BY <1>3, <2>1
  <2>3. \A j \in next..i : \A h \in next..j : h \in next..i BY <2>1
  <2>4. \A j \in next..i : j \in C BY <1>3, <2>2, <2>3
  <2> QED BY <2>4
<1>9. ASSUME NEW i \in C PROVE i \in next..(next + n - 1)
  <2>1. i \in next..(r - 1) BY <1>4
  <2>2. next..i \in SUBSET C BY <1>8
  <2>3. Cardinality(next..i) <= Cardinality(C) BY <1>6, <2>2, FS_Subset
  <2>4. Cardinality(next..i) = i - next + 1 BY <2>1, FS_Interval
  <2>5. i - next + 1 <= n BY <2>3, <2>4 DEF C
  <2> QED BY <1>7, <2>1, <2>5
<1>10. C = next..(next + n - 1)
  <2>1. C \in SUBSET (next..(next + n - 1)) BY <1>9
  <2>2. IsFiniteSet(next..(next + n - 1)) /\ Cardinality(next..(next + n - 1)) = n
    <3>1. next \in Int /\ next + n - 1 \in Int BY <1>7
    <3>2. /\ IsFiniteSet(next..(next + n - 1))
          /\ Cardinality(next..(next + n - 1))
               = IF next > next + n - 1 THEN 0 ELSE (next + n - 1) - next + 1
      BY <3>1, FS_Interval
    <3> QED BY <1>7, <3>2
  <2>3. Cardinality(C) = n BY DEF C
  <2> QED BY <2>1, <2>2, <2>3, FS_Subset
<1>11. n = 0 \/ next + n <= r
  <2>1. CASE n > 0
    <3>1. next + n - 1 \in C BY <1>7, <1>10, <2>1
    <3>2. next + n - 1 \in next..(r - 1) BY <1>4, <3>1
    <3> QED BY <1>7, <3>2
  <2> QED BY <1>7, <2>1
<1>12. held \ C \subseteq (next + n)..(r - 1)
  <2>1. ASSUME NEW i \in held \ C PROVE i \in (next + n)..(r - 1)
    <3>1. i \in next..(r - 1) BY <1>2
    <3>2. i \notin next..(next + n - 1) BY <1>10, <2>1
    <3> QED BY <1>7, <3>1, <3>2
  <2> QED BY <2>1
<1> QED BY <1>7, <1>10, <1>11, <1>12 DEF held, C

\* What the home says to the resident, and the resident to the home.
LEMMA Asks ==
  /\ <<Message("deliver", 0)>> \in Seq(Said) /\ <<Message("event_ack", Final)>> \in Seq(Said)
  /\ \A n \in Int : <<Message("reconcile", n)>> \in Seq(Said)
BY OfFinal DEF Message, Said

LEMMA Answers ==
  ASSUME NEW r \in 0..(Final + 1)
  PROVE  /\ \A kind \in {"never_started", "ambiguous", "completion_ack"} :
              <<Message(kind, 0)>> \in Seq(HeardBy(r))
         /\ r = Final + 1 => \A n \in Int : <<Message("completed", n)>> \in Seq(HeardBy(r))
         /\ \A n \in 0..(r - 1) : <<Message("event", n)>> \in Seq(HeardBy(r))
<1>1. \A kind \in {"never_started", "ambiguous", "completion_ack"} : Message(kind, 0) \in HeardBy(r)
  BY DEF Message, HeardBy, Reply
<1>2. r = Final + 1 => \A n \in Int : Message("completed", n) \in HeardBy(r)
  BY DEF Message, HeardBy, Reply
<1>3. \A n \in 0..(r - 1) : Message("event", n) \in HeardBy(r)
  BY OfFinal DEF Message, HeardBy, Reply
<1> QED BY <1>1, <1>2, <1>3

\* A step that leaves the journal, the stream and the attempt as they are, and
\* puts on the channels what may be there.
LEMMA QuietStep ==
  ASSUME ResidencyIInv, UNCHANGED <<journal, rlen, rstate>>,
         \/ UNCHANGED <<open, next, buffered>>
         \/ open' = FALSE /\ next' = 0 /\ buffered' = {}
         \/ open' = TRUE /\ next' = Len(journal) /\ buffered' = {},
         ending' \/ delivery' = "consumed" => ending \/ delivery = "consumed",
         toHome' \in Carrying(HeardBy(rlen)), toResident' \in Carrying(Said)
  PROVE  ResidencyIInv'
<1>1. /\ rlen \in 0..(Final + 1) /\ Len(journal) \in 0..rlen
      /\ journal = FirstEvents(Len(journal))
      /\ rstate \in {"none", "accepted"} => rlen = 0
      /\ rstate = "completed" => rlen = Final + 1
      /\ open \in BOOLEAN /\ next \in 0..(Final + 1)
      /\ open => next = Len(journal)
      /\ buffered \subseteq next..(rlen - 1)
      /\ ending \/ delivery = "consumed" => Len(journal) = Final + 1
  BY DEF ResidencyIInv
<1>2. /\ open' \in BOOLEAN /\ next' \in 0..(Final + 1)
      /\ open' => next' = Len(journal)
      /\ buffered' \subseteq next'..(rlen - 1)
  <2>1. CASE UNCHANGED <<open, next, buffered>>
    <3>1. open' = open /\ next' = next /\ buffered' = buffered BY <2>1
    <3> QED BY <1>1, <3>1
  <2>2. CASE open' = FALSE /\ next' = 0 /\ buffered' = {}
    <3>1. 0 \in 0..(Final + 1) BY OfFinal
    <3> QED BY <2>2, <3>1
  <2>3. CASE open' = TRUE /\ next' = Len(journal) /\ buffered' = {}
    <3>1. next' \in 0..(Final + 1) BY <1>1, <2>3, OfFinal
    <3> QED BY <2>3, <3>1
  <2> QED BY <2>1, <2>2, <2>3
<1>3. ending' \/ delivery' = "consumed" => Len(journal) = Final + 1 BY <1>1
<1> QED BY <1>1, <1>2, <1>3 DEF ResidencyIInv, Said

\* What the resident has sent is journaled in order and once.
LEMMA EventsStep ==
  ASSUME ResidencyIInv, Transient = {},
         NEW E, \A i \in E : i >= next => i \in 0..(rlen - 1),
         TakeEvents(E), UNCHANGED <<rlen, rstate>>, toHome' \in Carrying(HeardBy(rlen))
  PROVE  ResidencyIInv'
<1>1. /\ rlen \in 0..(Final + 1) /\ Len(journal) \in 0..rlen
      /\ journal = FirstEvents(Len(journal))
      /\ rstate \in {"none", "accepted"} => rlen = 0
      /\ rstate = "completed" => rlen = Final + 1
      /\ open \in BOOLEAN /\ next \in 0..(Final + 1)
      /\ open => next = Len(journal)
      /\ buffered \subseteq next..(rlen - 1)
      /\ ending \/ delivery = "consumed" => Len(journal) = Final + 1
      /\ toResident \in Carrying(Said)
  BY DEF ResidencyIInv, Said
<1>2. After(toResident, <<Message("event_ack", Final)>>) \in Carrying(Said)
  <2>1. <<Message("event_ack", Final)>> \in Seq(Said) BY Asks
  <2> QED BY <1>1, <2>1, InChannel
<1>3. CASE ~open
  <2>1. UNCHANGED homeVars /\ toResident' \in Carrying(Said) BY <1>1, <1>2, <1>3 DEF TakeEvents
  <2> QED BY <2>1, QuietStep DEF homeVars
<1>4. CASE open
  <2> DEFINE C == Contiguous(E)
             n == Cardinality(C)
             left == (buffered \cup {i \in E : i >= next}) \ C
  <2>1. /\ n \in Nat /\ (next + n <= rlen \/ n = 0)
        /\ C = next..(next + n - 1) /\ left \subseteq (next + n)..(rlen - 1)
    <3>1. rlen \in Nat /\ next \in Nat BY <1>1, OfFinal
    <3> QED BY <1>1, <3>1, ContiguousRow
  <2>2. Journaled(C) = FirstEvents(next + n)
    <3>1. C \ Transient = C BY DEF C
    <3>2. journal = FirstEvents(next) /\ next \in Nat BY <1>1, <1>4
    <3>3. Journaled(C) = FirstEvents(next) \o Ascending(C) BY <3>1, <3>2 DEF Journaled
    <3> HIDE DEF C, n, left
    <3> QED BY <2>1, <3>2, <3>3, FirstAndNext
  <2>3. next + n \in next..rlen /\ next + n \in Nat BY <1>1, <1>4, <2>1
  <2>4. Len(FirstEvents(next + n)) = next + n BY <2>3, FirstOf
  <2>5. CASE Final \notin C
    <3>1. /\ next' = next + n /\ buffered' = left /\ journal' = FirstEvents(next + n)
          /\ UNCHANGED <<delivery, ending, open, toResident>>
      BY <1>4, <2>2, <2>5 DEF TakeEvents
    <3> HIDE DEF C, n, left
    <3>2. /\ Len(journal') = next' /\ journal' = FirstEvents(Len(journal'))
          /\ next' \in next..rlen
      BY <2>3, <2>4, <3>1
    <3>3. buffered' \subseteq next'..(rlen - 1) BY <2>1, <3>1
    <3>4. ending' \/ delivery' = "consumed" => Len(journal') = Final + 1
      BY <1>1, <1>4, <3>1, <3>2, OfFinal
    <3>5. next' \in 0..(Final + 1) /\ Len(journal') \in 0..rlen BY <1>1, <3>2, OfFinal
    <3> QED BY <1>1, <3>1, <3>2, <3>3, <3>4, <3>5 DEF ResidencyIInv, Said
  <2>6. CASE Final \in C
    <3>1. /\ next' = 0 /\ buffered' = {} /\ journal' = FirstEvents(next + n) /\ open' = FALSE
          /\ toResident' = After(toResident, <<Message("event_ack", Final)>>)
      BY <1>4, <2>2, <2>6 DEF TakeEvents
    <3> HIDE DEF C, n, left
    <3>2. next + n = Final + 1 BY <1>1, <2>1, <2>3, <2>6, OfFinal
    <3>3. /\ Len(journal') = Final + 1 /\ journal' = FirstEvents(Len(journal'))
          /\ Len(journal') \in 0..rlen
      BY <1>1, <2>3, <2>4, <3>1, <3>2
    <3>4. next' \in 0..(Final + 1) /\ buffered' \subseteq next'..(rlen - 1) BY <3>1, OfFinal
    <3> QED BY <1>1, <1>2, <3>1, <3>3, <3>4 DEF ResidencyIInv, Said
  <2> QED BY <2>5, <2>6
<1> QED BY <1>1, <1>3, <1>4

LEMMA HomeReceivesStep ==
  ASSUME ResidencyIInv, Transient = {}, HomeReceives
  PROVE  ResidencyIInv'
<1> DEFINE m == HeadOf(toHome)
<1>1. /\ toHome \in Carrying(HeardBy(rlen)) /\ toResident \in Carrying(Said)
      /\ rlen \in 0..(Final + 1) /\ next \in 0..(Final + 1)
  BY DEF ResidencyIInv, Said
<1>2. toHome # Empty /\ toHome' = TailOf(toHome) /\ UNCHANGED <<rlen, rstate>>
  BY DEF HomeReceives, residentVars
<1>3. m \in HeardBy(rlen) /\ toHome' \in Carrying(HeardBy(rlen)) BY <1>1, <1>2, InChannel
<1>4. HomeHandles(m) BY DEF HomeReceives
<1> HIDE DEF m
<1>5. m.n \in Int /\ (m.kind = "event" => m.n \in 0..(rlen - 1))
      /\ (m.kind = "completed" => rlen = Final + 1)
  BY <1>3 DEF HeardBy, Reply
<1>6. CASE m.kind = "event" /\ TakeEvents({m.n})
  <2>1. \A i \in {m.n} : i >= next => i \in 0..(rlen - 1) BY <1>5, <1>6
  <2> QED BY <1>2, <1>3, <1>6, <2>1, EventsStep
<1>7. CASE m.kind = "completed" /\ TakeEvents((m.n + 1)..Final)
  <2>1. \A i \in (m.n + 1)..Final : i >= next => i \in 0..(rlen - 1)
    BY <1>1, <1>5, <1>7, OfFinal
  <2> QED BY <1>2, <1>3, <1>7, <2>1, EventsStep
<1>8. CASE Ambiguous
  BY <1>1, <1>2, <1>3, <1>8, QuietStep DEF Ambiguous
<1>9. CASE /\ toResident' = After(toResident, <<Message("deliver", 0)>>)
           /\ UNCHANGED <<delivery, journal, ending, open, next, buffered>>
  <2>1. toResident' \in Carrying(Said)
    <3>1. <<Message("deliver", 0)>> \in Seq(Said) BY Asks
    <3> QED BY <1>1, <1>9, <3>1, InChannel
  <2> QED BY <1>2, <1>3, <1>9, <2>1, QuietStep
<1>10. CASE UNCHANGED <<delivery, journal, ending, open, next, buffered, toResident>>
  BY <1>1, <1>2, <1>3, <1>10, QuietStep
<1> QED BY <1>4, <1>6, <1>7, <1>8, <1>9, <1>10 DEF HomeHandles, homeVars

\* The resident's part of the invariant, and the channel to the home.
LEMMA ResidentStep ==
  ASSUME ResidencyIInv, UNCHANGED homeVars, rlen' \in rlen..(Final + 1),
         rstate' \in {"none", "accepted"} => rlen' = 0,
         rstate' = "completed" => rlen' = Final + 1,
         toHome' \in Carrying(HeardBy(rlen')), toResident' \in Carrying(Said)
  PROVE  ResidencyIInv'
<1>1. /\ rlen \in 0..(Final + 1) /\ Len(journal) \in 0..rlen
      /\ journal = FirstEvents(Len(journal))
      /\ open \in BOOLEAN /\ next \in 0..(Final + 1)
      /\ open => next = Len(journal)
      /\ buffered \subseteq next..(rlen - 1)
      /\ ending \/ delivery = "consumed" => Len(journal) = Final + 1
  BY DEF ResidencyIInv
<1>2. rlen' \in 0..(Final + 1) /\ Len(journal) \in 0..rlen' BY <1>1, OfFinal
<1>3. ASSUME NEW i \in buffered PROVE i \in next..(rlen' - 1)
  <2>1. i \in next..(rlen - 1) BY <1>1
  <2>2. next \in Int /\ rlen \in Int /\ rlen' \in Int /\ rlen' >= rlen BY <1>1, OfFinal
  <2>3. \A p, q, r \in Int : q <= r => p..(q - 1) \subseteq p..(r - 1) OBVIOUS
  <2>4. next..(rlen - 1) \subseteq next..(rlen' - 1) BY <2>2, <2>3
  <2> QED BY <2>1, <2>4
<1> QED BY <1>1, <1>2, <1>3 DEF ResidencyIInv, Said, homeVars

LEMMA ResidentReceivesStep ==
  ASSUME ResidencyIInv, ResidentReceives
  PROVE  ResidencyIInv'
<1> DEFINE m == HeadOf(toResident)
<1>1. /\ toHome \in Carrying(HeardBy(rlen)) /\ toResident \in Carrying(Said)
      /\ rlen \in 0..(Final + 1) /\ rlen \in rlen..(Final + 1)
      /\ rstate \in {"none", "accepted"} => rlen = 0
      /\ rstate = "completed" => rlen = Final + 1
  BY OfFinal DEF ResidencyIInv, Said
<1>2. toResident # Empty /\ toResident' = TailOf(toResident) /\ UNCHANGED homeVars
  BY DEF ResidentReceives
<1>3. m \in Said /\ toResident' \in Carrying(Said) BY <1>1, <1>2, InChannel
<1>4. ResidentHandles(m) BY DEF ResidentReceives
<1> HIDE DEF m
<1>5. m.n \in Int BY <1>3 DEF Said
<1>6. \A kind \in {"never_started", "ambiguous", "completion_ack"} :
        Outcome(kind, 0) => toHome' \in Carrying(HeardBy(rlen))
  BY <1>1, Answers, InChannel DEF Outcome
<1>7. \A n \in Int : rstate = "completed" /\ Outcome("completed", n)
                       => toHome' \in Carrying(HeardBy(rlen))
  BY <1>1, Answers, InChannel DEF Outcome
<1>8. CASE acceptResidentDelivery
  <2>1. toHome' \in Carrying(HeardBy(rlen))
    BY <1>1, <1>6, <1>7, <1>8 DEF acceptResidentDelivery
  <2>2. /\ rlen' = rlen /\ (rstate' \in {"none", "accepted"} => rstate \in {"none", "accepted"})
        /\ (rstate' = "completed" => rstate = "completed")
    BY <1>8 DEF acceptResidentDelivery, Runnable, residentVars
  <2> QED BY <1>1, <1>2, <1>3, <2>1, <2>2, ResidentStep
<1>9. CASE reconcileResident(m.n) \/ m.kind = "event_ack"
  <2>1. UNCHANGED residentVars /\ toHome' \in Carrying(HeardBy(rlen))
    BY <1>1, <1>4, <1>5, <1>6, <1>7, <1>9
       DEF reconcileResident, ResidentHandles, Acknowledged, acceptResidentDelivery
  <2>2. rlen' = rlen /\ rstate' = rstate BY <2>1 DEF residentVars
  <2> QED BY <1>1, <1>2, <1>3, <2>1, <2>2, ResidentStep
<1> QED BY <1>4, <1>8, <1>9 DEF ResidentHandles

\* An event is journaled by the resident before it is sent.
LEMMA EmitStep ==
  ASSUME ResidencyIInv, Emit(rlen), rlen <= Final, rstate' = "started",
         UNCHANGED <<homeVars, toResident>>
  PROVE  ResidencyIInv'
<1>1. /\ toHome \in Carrying(HeardBy(rlen)) /\ toResident \in Carrying(Said)
      /\ rlen \in 0..(Final + 1)
  BY DEF ResidencyIInv, Said
<1>2. rlen' = rlen + 1 /\ toHome' = After(toHome, <<Message("event", rlen)>>) BY DEF Emit
<1>3. rlen' \in rlen..(Final + 1) /\ rlen \in 0..(rlen' - 1) /\ rlen' \in 0..(Final + 1)
  BY <1>1, <1>2, OfFinal
<1>4. toHome \in Carrying(HeardBy(rlen')) BY <1>1, <1>3, HearsOn
<1>5. <<Message("event", rlen)>> \in Seq(HeardBy(rlen')) BY <1>3, Answers
<1>6. toHome' \in Carrying(HeardBy(rlen')) BY <1>2, <1>4, <1>5, InChannel
<1> QED BY <1>1, <1>3, <1>6, ResidentStep

LEMMA ResidencyStep ==
  ASSUME ResidencyIInv, Transient = {}, [ResidencyNext]_residencyVars
  PROVE  ResidencyIInv'
<1>1. /\ toHome \in Carrying(HeardBy(rlen)) /\ toResident \in Carrying(Said)
      /\ rlen \in 0..(Final + 1) /\ rlen \in rlen..(Final + 1) /\ next \in 0..(Final + 1)
      /\ rstate \in {"none", "accepted"} => rlen = 0
      /\ rstate = "completed" => rlen = Final + 1
      /\ Len(journal) \in Nat
  BY OfFinal DEF ResidencyIInv, Said
<1>2. After(toResident, <<Message("deliver", 0)>>) \in Carrying(Said) BY <1>1, Asks, InChannel
<1>3. After(toResident, <<Message("event_ack", Final)>>) \in Carrying(Said)
  BY <1>1, Asks, InChannel
<1>4. CASE UNCHANGED residencyVars
  BY <1>1, <1>4, QuietStep DEF residencyVars, homeVars, residentVars, channels
<1>5. CASE StartTurn \/ Release
  <2>1. /\ open' = TRUE /\ next' = Len(journal) /\ buffered' = {}
        /\ delivery' = "delivering"
        /\ toResident' = After(toResident, <<Message("deliver", 0)>>)
        /\ UNCHANGED <<journal, rlen, rstate, ending, toHome>>
    BY <1>5 DEF StartTurn, Release, SetAttempt, FreshAttempt, residentVars
  <2> QED BY <1>1, <1>2, <2>1, QuietStep
<1>6. CASE Finalize
  BY <1>1, <1>6, QuietStep DEF Finalize, residentVars, channels
<1>7. CASE RetryCompletionAck
  BY <1>1, <1>3, <1>7, QuietStep DEF RetryCompletionAck, homeVars, residentVars
<1>8. CASE Starts
  <2>1. rlen = 0 /\ Emit(rlen) /\ rstate' = "started" /\ UNCHANGED <<homeVars, toResident>>
    BY <1>1, <1>8 DEF Starts
  <2> QED BY <2>1, OfFinal, EmitStep
<1>9. CASE Works
  <2>1. rlen <= Final /\ Emit(rlen) /\ rstate' = "started" /\ UNCHANGED <<homeVars, toResident>>
    BY <1>9 DEF Works
  <2> QED BY <2>1, EmitStep
<1>10. CASE Completes
  BY <1>1, <1>10, ResidentStep DEF Completes, channels
<1>11. CASE Fails
  <2>1. toHome' \in Carrying(HeardBy(rlen))
    BY <1>1, <1>11, Answers, InChannel DEF Fails, Outcome
  <2>2. /\ UNCHANGED <<homeVars, rlen, toResident>>
        /\ rstate' = "ambiguous" \/ (rlen = 0 /\ rstate' = "accepted")
    BY <1>11 DEF Fails
  <2> QED BY <1>1, <2>1, <2>2, ResidentStep
<1>12. CASE Cut
  <2>1. Kept(toHome) \in Carrying(HeardBy(rlen)) /\ Kept(toResident) \in Carrying(Said)
    BY <1>1, InChannel
  <2> QED BY <1>12, <2>1, QuietStep DEF Cut, homeVars, residentVars
<1>13. CASE LinkUp
  <2>1. Rewritten(toHome, <<>>) \in Carrying(HeardBy(rlen)) BY <1>1, EmptySeq, InChannel
  <2>2. ASSUME NEW e, e.next \in Int
        PROVE  /\ Announced(e) \in Seq(Said)
               /\ <<Message("deliver", 0)>> \o Announced(e) \in Seq(Said)
    <3>1. /\ (IF unacked THEN <<Message("event_ack", Final)>> ELSE <<>>) \in Seq(Said)
          /\ (IF e.open THEN <<Message("reconcile", e.next - 1)>> ELSE <<>>) \in Seq(Said)
      BY <2>2, Asks, EmptySeq
    <3>2. Announced(e) \in Seq(Said) BY <3>1, ConcatProperties DEF Announced
    <3> QED BY <3>2, Asks, ConcatProperties
  <2>3. FreshAttempt.next \in Int /\ Attempt.next \in Int BY <1>1, OfFinal DEF FreshAttempt, Attempt
  <2>4. /\ toHome' = Rewritten(toHome, <<>>)
        /\ UNCHANGED <<journal, rlen, rstate, ending>>
        /\ \/ /\ open' = TRUE /\ next' = Len(journal) /\ buffered' = {}
              /\ delivery' = "delivering"
              /\ toResident' = Rewritten(toResident, <<Message("deliver", 0)>>
                                                        \o Announced(FreshAttempt))
           \/ /\ UNCHANGED <<open, next, buffered, delivery>>
              /\ toResident' = Rewritten(toResident, Announced(Attempt))
    BY <1>13 DEF LinkUp, SetAttempt, FreshAttempt, residentVars
  <2>5. toResident' \in Carrying(Said) BY <1>1, <2>2, <2>3, <2>4, InChannel
  <2> QED BY <2>1, <2>4, <2>5, QuietStep
<1>14. CASE NeighbourEnds
  BY <1>1, <1>14, QuietStep DEF NeighbourEnds, homeVars, residentVars, channels
<1>15. CASE HomeRestarts
  <2>1. /\ delivery' = delivery \/ delivery' = "held" \/ ending
        /\ ending' = FALSE /\ open' = FALSE /\ next' = 0 /\ buffered' = {}
        /\ toHome' = Empty /\ toResident' = Empty
        /\ UNCHANGED <<journal, rlen, rstate>>
    BY <1>15 DEF HomeRestarts, Settled, residentVars
  <2>2. ending' \/ delivery' = "consumed" => ending \/ delivery = "consumed" BY <2>1
  <2> QED BY <1>1, <2>1, <2>2, NothingCarried, QuietStep
<1>16. CASE ResidentRestarts
  BY <1>1, <1>16, NothingCarried, QuietStep DEF ResidentRestarts, homeVars
<1>17. CASE HomeReceives BY <1>17, HomeReceivesStep
<1>18. CASE ResidentReceives BY <1>18, ResidentReceivesStep
<1>19. CASE TurnRefused
  BY <1>1, <1>19, QuietStep DEF TurnRefused, residentVars, channels
<1> QED BY <1>4, <1>5, <1>6, <1>7, <1>8, <1>9, <1>10, <1>11, <1>12, <1>13, <1>14, <1>15,
           <1>16, <1>17, <1>18, <1>19 DEF ResidencyNext

\* Where every event is journaled, the home's journal of a remote run is at any time
\* a prefix of the resident's, without a gap or a repetition, and whole once the
\* row is consumed (residency.ts, handleRemoteEvent and deliver).
THEOREM JournalCorrect == Transient = {} => (ResidencySpec => []JournalIsPrefix)
<1> SUFFICES ASSUME Transient = {} PROVE ResidencySpec => []JournalIsPrefix
  OBVIOUS
<1>1. ResidencyInit => ResidencyIInv
  <2>1. FirstEvents(0) = <<>> /\ Len(<<>>) = 0 BY DEF FirstEvents
  <2> SUFFICES ASSUME ResidencyInit PROVE ResidencyIInv OBVIOUS
  <2>2. /\ rlen = 0 /\ journal = <<>> /\ rstate = "none" /\ open = FALSE /\ next = 0
        /\ buffered = {} /\ ending = FALSE /\ delivery = "queued"
        /\ toHome = Empty /\ toResident = Empty
    BY DEF ResidencyInit
  <2>3. 0 \in 0..(Final + 1) /\ 0 \in 0..0 BY OfFinal
  <2>4. toHome \in Carrying(HeardBy(rlen)) /\ toResident \in Carrying(Said)
    BY <2>2, NothingCarried
  <2> QED BY <2>1, <2>2, <2>3, <2>4 DEF ResidencyIInv
<1>2. ResidencyIInv /\ [ResidencyNext]_residencyVars => ResidencyIInv' BY ResidencyStep
<1>3. ResidencyIInv => JournalIsPrefix
  <2> SUFFICES ASSUME ResidencyIInv PROVE JournalIsPrefix OBVIOUS
  <2> DEFINE n == Len(journal)
  <2>1. /\ rlen \in 0..(Final + 1) /\ n \in 0..rlen /\ rlen \in Nat /\ n \in Nat
        /\ journal = FirstEvents(n)
        /\ delivery = "consumed" => n = Final + 1
    BY OfFinal DEF ResidencyIInv
  <2>2. {i \in Event : i < rlen} \ Transient = 0..(0 + rlen - 1) BY <2>1, OfFinal DEF Event
  <2>3. Ascending(0..(0 + rlen - 1)) = FirstEvents(rlen)
    <3>1. Ascending(0..(0 + rlen - 1)) = [k \in 1..rlen |-> 0 + k - 1] BY <2>1, AscendingRow
    <3> QED BY <2>1, <3>1 DEF FirstEvents
  <2> HIDE DEF n
  <2>4. IsPrefix(FirstEvents(n), FirstEvents(rlen))
    <3>1. SubSeq(FirstEvents(n), 1, n) = SubSeq(FirstEvents(rlen), 1, n)
      BY <2>1 DEF FirstEvents
    <3>2. Len(FirstEvents(n)) = n /\ Len(FirstEvents(rlen)) = rlen BY <2>1, FirstOf
    <3> QED BY <2>1, <3>1, <3>2 DEF IsPrefix
  <2>5. delivery = "consumed" => Final \in ToSet(journal)
    <3>1. n = Final + 1 => Final + 1 \in DOMAIN journal /\ journal[Final + 1] = Final
      BY <2>1, OfFinal DEF FirstEvents
    <3> QED BY <2>1, <3>1 DEF ToSet
  <2> QED BY <2>1, <2>2, <2>3, <2>4, <2>5 DEF JournalIsPrefix
<1> HIDE DEF ResidencyIInv, ResidencyInit, ResidencyNext, residencyVars, JournalIsPrefix
<1> QED BY <1>1, <1>2, <1>3, PTL DEF ResidencySpec

-----------------------------------------------------------------------------
(* The tunnel: what is so of each stream.                                  *)

\* The invariant speaks of one stream at a time: what the two ends, the two
\* queues of frames between them and the two users of the stream say of it
\* together.  A step is about one stream, and leaves what the others can tell
\* as it was.
FrameType == {"open", "head", "data", "end", "window", "reset"}
Packet == [type : FrameType, id : Stream]
StreamState ==
  [known : {"new", "open", "gone"}, credit : Nat, queue : Nat,
   ending : BOOLEAN, ended : BOOLEAN, peerEnded : BOOLEAN]
MuxUser ==
  {"none", "open", "closed", "pending", "ok", "failed",
   "dialing", "reading", "fetching", "answering", "retired"}

MuxTypeOK ==
  /\ mux \in [End -> [Stream -> StreamState]]
  /\ wire \in [End -> Seq(Packet)]
  /\ live \in [End -> BOOLEAN]
  /\ user \in [End -> [Stream -> MuxUser]]
  /\ written \in [End -> [Stream -> Nat]] /\ got \in [End -> [Stream -> Nat]]
  /\ answer \in [Stream -> Nat \cup {NoAnswer}]
  /\ mix \in [streams : SUBSET Stream, up : Nat, down : Nat, bodies : SUBSET Nat]

Has(type, s, e) == Count(type, s, wire[e]) > 0

\* The first frame of the stream s in q is the one that opens it.
OpensFirst(s, q) ==
  \A k \in DOMAIN q : q[k].id = s => \E j \in 1 .. k : q[j] = Frame("open", s)
\* No data of the stream s follows its END in q.
EndsLast(s, q) ==
  \A j, k \in DOMAIN q : q[j] = Frame("end", s) /\ q[k] = Frame("data", s) => k < j

\* A stream nobody has opened has left no trace; one that is open belongs to a
\* mux that runs, and who uses it is known by its kind.
UnopenedOK(s) ==
  mux["client"][s].known = "new" =>
    /\ \A e \in End : /\ mux[e][s] = Fresh /\ user[e][s] = "none"
                      /\ written[e][s] = 0 /\ got[e][s] = 0
    /\ \A e \in End, type \in FrameType : Count(type, s, wire[e]) = 0

UsersOK(s) ==
  /\ \A e \in End : mux[e][s].known = "open" => live[e]
  /\ mux["host"][s].known = "new" => mux["host"][s] = Fresh /\ OpensFirst(s, wire["client"])
  /\ mux["client"][s].known = "open" /\ mux["host"][s].known = "new" =>
       Count("open", s, wire["client"]) > 0
  /\ user["host"][s] = "none" <=> mux["host"][s].known = "new"
  /\ \A e \in End : mux[e][s].ended => mux[e][s].ending
  /\ Active(s) => mux["host"][s].known = "open" /\ ~mux["host"][s].ending
  /\ user["client"][s] = "open" => mux["client"][s].known = "open" /\ ~mux["client"][s].ending
  /\ user["client"][s] = "pending" =>
       mux["client"][s].known = "open" /\ ~mux["client"][s].peerEnded
  /\ s \in Http => /\ user["client"][s] \in {"none", "pending", "ok", "failed"}
                   /\ user["host"][s] \in {"none", "reading", "fetching", "answering", "retired"}
  /\ s \in Ws => /\ user["client"][s] \in {"none", "open", "closed"}
                 /\ user["host"][s] \in {"none", "dialing", "open", "retired"}

\* The credit of a stream that neither end has forgotten: all of it comes back
\* as long as the other end reads, or is going to.
Credit(e, s) ==
  mux[e][s].credit + Count("data", s, wire[e]) + Count("window", s, wire[Other(e)])
CreditOK(s) ==
  mux["client"][s].known = "open" /\ mux["host"][s].known # "gone" =>
    \A e \in End :
      /\ Credit(e, s) <= Window
      /\ /\ live["client"] /\ live["host"]
         /\ Reads(Other(e), s) \/ (e = "client" /\ mux["host"][s].known = "new")
         => Credit(e, s) = Window

\* A request is written at once and ends behind its last byte.
RequestOK(s) ==
  /\ mux["client"][s].known = "open" => mux["client"][s].ending
  /\ mux["client"][s].ended => mux["client"][s].queue = 0
  /\ Has("end", s, "client") => mux["client"][s].ended
  /\ EndsLast(s, wire["client"])
  /\ /\ user["host"][s] \in {"none", "reading"}
     /\ mux["client"][s].known # "gone" \/ Has("end", s, "client")
     => got["host"][s] + Count("data", s, wire["client"]) + mux["client"][s].queue
          = written["client"][s]
  /\ user["host"][s] \in {"fetching", "answering"} => got["host"][s] = written["client"][s]

\* A response ends when the whole of it has left, and with that the bridge.
ResponseOK(s) ==
  /\ mux["host"][s].ending => mux["host"][s].ended
  /\ mux["host"][s].ended => mux["host"][s].queue = 0 /\ user["host"][s] = "retired"
  /\ Has("end", s, "host") => mux["host"][s].ended /\ written["host"][s] = answer[s]
  /\ EndsLast(s, wire["host"])
  /\ /\ user["client"][s] = "pending"
     /\ mux["host"][s].known # "gone" \/ Has("end", s, "host")
     => got["client"][s] + Count("data", s, wire["host"]) + mux["host"][s].queue
          = written["host"][s]
  /\ user["client"][s] = "ok" =>
       user["host"][s] = "retired" /\ got["client"][s] = answer[s] /\ answer[s] = written["host"][s]

StreamOK(s) ==
  /\ UnopenedOK(s) /\ UsersOK(s) /\ CreditOK(s)
  /\ s \in Http => RequestOK(s) /\ ResponseOK(s)

MuxIInv == MuxTypeOK /\ \A s \in Stream : StreamOK(s)

-----------------------------------------------------------------------------
(* Queues of frames.                                                       *)

LEMMA CountIsNat ==
  ASSUME NEW q \in Seq(Packet), NEW type, NEW s
  PROVE  Count(type, s, q) \in Nat
<1>1. {k \in DOMAIN q : q[k] = Frame(type, s)} \in SUBSET (1 .. Len(q)) BY LenProperties
<1>2. IsFiniteSet(1 .. Len(q)) BY FS_Interval, LenProperties
<1> QED BY <1>1, <1>2, FS_Subset, FS_CardinalityType DEF Count

LEMMA CountConcat ==
  ASSUME NEW p \in Seq(Packet), NEW q \in Seq(Packet), NEW type, NEW s
  PROVE  Count(type, s, p \o q) = Count(type, s, p) + Count(type, s, q)
<1> DEFINE f == Frame(type, s)
           P == {k \in DOMAIN p : p[k] = f}
           Q == {k \in DOMAIN q : q[k] = f}
           R == {k \in DOMAIN (p \o q) : (p \o q)[k] = f}
           QQ == {k + Len(p) : k \in Q}
<1>1. /\ Len(p) \in Nat /\ Len(q) \in Nat /\ Len(p \o q) = Len(p) + Len(q)
      /\ DOMAIN p = 1 .. Len(p) /\ DOMAIN q = 1 .. Len(q)
      /\ DOMAIN (p \o q) = 1 .. (Len(p) + Len(q))
      /\ \A k \in 1 .. Len(p) + Len(q) :
           (p \o q)[k] = IF k <= Len(p) THEN p[k] ELSE q[k - Len(p)]
  BY ConcatProperties, LenProperties
<1>2. IsFiniteSet(P) /\ IsFiniteSet(Q)
  <2>1. P \in SUBSET (1 .. Len(p)) /\ Q \in SUBSET (1 .. Len(q)) BY <1>1
  <2>2. IsFiniteSet(1 .. Len(p)) /\ IsFiniteSet(1 .. Len(q)) BY <1>1, FS_Interval
  <2> HIDE DEF P, Q
  <2> QED BY <2>1, <2>2, FS_Subset
<1> HIDE DEF f
<1>3. R = P \cup QQ
  <2>1. ASSUME NEW k \in R PROVE k \in P \cup QQ
    <3>1. k \in 1 .. (Len(p) + Len(q)) /\ (p \o q)[k] = f BY <1>1
    <3>2. CASE k <= Len(p) BY <1>1, <3>1, <3>2
    <3>3. CASE k > Len(p)
      <4>1. k - Len(p) \in Q BY <1>1, <3>1, <3>3
      <4> QED BY <1>1, <3>1, <4>1
    <3> QED BY <1>1, <3>1, <3>2, <3>3
  <2>2. ASSUME NEW k \in P PROVE k \in R BY <1>1
  <2>3. ASSUME NEW k \in Q PROVE k + Len(p) \in R
    <3>1. k \in 1 .. Len(q) /\ q[k] = f BY <1>1
    <3>2. k + Len(p) \in 1 .. (Len(p) + Len(q)) /\ (p \o q)[k + Len(p)] = q[k] BY <1>1, <3>1
    <3> QED BY <1>1, <3>1, <3>2
  <2> QED BY <2>1, <2>2, <2>3
<1>4. P \cap QQ = {} BY <1>1
<1>5. IsFiniteSet(QQ) /\ Cardinality(QQ) = Cardinality(Q)
  <2> DEFINE g == [k \in Q |-> k + Len(p)]
  <2>1. g \in Bijection(Q, QQ)
    <3>1. g \in [Q -> QQ] OBVIOUS
    <3>2. \A a, b \in Q : g[a] = g[b] => a = b BY <1>1
    <3>3. \A t \in QQ : \E k \in Q : g[k] = t OBVIOUS
    <3> HIDE DEF g, Q, QQ
    <3> QED BY <3>1, <3>2, <3>3 DEF Bijection, Injection, Surjection, IsInjective
  <2>2. ExistsBijection(Q, QQ) BY <2>1 DEF ExistsBijection
  <2> HIDE DEF Q, QQ
  <2> QED BY <1>2, <2>2, FS_Bijection
<1>6. Cardinality(P \cup QQ) = Cardinality(P) + Cardinality(QQ)
  <2> HIDE DEF P, QQ
  <2>1. Cardinality(P \cap QQ) = 0 BY <1>4, FS_EmptySet
  <2>2. Cardinality(P \cup QQ)
          = Cardinality(P) + Cardinality(QQ) - Cardinality(P \cap QQ)
    BY <1>2, <1>5, FS_Union
  <2> QED BY <1>2, <1>5, <2>1, <2>2, FS_CardinalityType
<1> QED BY <1>3, <1>5, <1>6 DEF Count, f

LEMMA CountMany ==
  ASSUME NEW type, NEW s, NEW n \in Nat, NEW other, NEW t
  PROVE  Count(other, t, Frames(type, s, n)) = IF other = type /\ t = s THEN n ELSE 0
<1> DEFINE q == Frames(type, s, n)
<1>1. DOMAIN q = 1 .. n /\ \A k \in 1 .. n : q[k] = Frame(type, s) BY DEF Frames
<1>2. Frame(other, t) = Frame(type, s) <=> other = type /\ t = s BY DEF Frame
<1> HIDE DEF q
<1>3. CASE other = type /\ t = s
  <2>1. {k \in DOMAIN q : q[k] = Frame(other, t)} = 1 .. n BY <1>1, <1>2, <1>3
  <2>2. Cardinality(1 .. n) = n BY FS_Interval
  <2> QED BY <1>3, <2>1, <2>2 DEF Count, q
<1>4. CASE ~(other = type /\ t = s)
  <2>1. {k \in DOMAIN q : q[k] = Frame(other, t)} = {} BY <1>1, <1>2, <1>4
  <2> QED BY <1>4, <2>1, FS_EmptySet DEF Count, q
<1> QED BY <1>3, <1>4

LEMMA CountOne ==
  ASSUME NEW type, NEW s, NEW other, NEW t
  PROVE  Count(other, t, <<Frame(type, s)>>) = IF other = type /\ t = s THEN 1 ELSE 0
<1>1. <<Frame(type, s)>> = Frames(type, s, 1) BY DEF Frames
<1> QED BY <1>1, CountMany

LEMMA CountNone == \A type, s : Count(type, s, <<>>) = 0
<1>1. \A type, s : {k \in DOMAIN <<>> : <<>>[k] = Frame(type, s)} = {} OBVIOUS
<1> QED BY <1>1, FS_EmptySet DEF Count

LEMMA CountHead ==
  ASSUME NEW q \in Seq(Packet), q # <<>>, NEW type, NEW s
  PROVE  Count(type, s, q) = (IF Head(q) = Frame(type, s) THEN 1 ELSE 0) + Count(type, s, Tail(q))
<1>1. Head(q) \in Packet /\ Tail(q) \in Seq(Packet) /\ q = <<Head(q)>> \o Tail(q)
  BY HeadTailProperties, ConcatProperties
<1> DEFINE f == Head(q)
<1>2. <<f>> \in Seq(Packet) /\ f = Frame(f.type, f.id) BY <1>1 DEF Packet, Frame
<1>3. Count(type, s, <<f>>) = IF f = Frame(type, s) THEN 1 ELSE 0
  <2>1. Count(type, s, <<Frame(f.type, f.id)>>)
          = IF type = f.type /\ s = f.id THEN 1 ELSE 0
    BY CountOne
  <2>2. f = Frame(type, s) <=> type = f.type /\ s = f.id BY <1>2 DEF Frame
  <2> HIDE DEF f
  <2> QED BY <1>2, <2>1, <2>2
<1> HIDE DEF f
<1>4. Count(type, s, <<f>> \o Tail(q)) = Count(type, s, <<f>>) + Count(type, s, Tail(q))
  BY <1>1, <1>2, CountConcat, ZenonT(40)
<1> QED BY <1>1, <1>3, <1>4 DEF f

LEMMA OrderTail ==
  ASSUME NEW q \in Seq(Packet), q # <<>>, NEW s
  PROVE  /\ EndsLast(s, q) => EndsLast(s, Tail(q))
         /\ OpensFirst(s, q) /\ Head(q).id # s => OpensFirst(s, Tail(q))
         /\ OpensFirst(s, q) /\ Head(q).id = s => Head(q) = Frame("open", s)
         /\ EndsLast(s, q) /\ Head(q) = Frame("end", s) => Count("data", s, q) = 0
<1>1. /\ Len(q) \in Nat /\ Len(q) > 0 /\ DOMAIN q = 1 .. Len(q)
      /\ DOMAIN Tail(q) = 1 .. (Len(q) - 1) /\ Head(q) = q[1]
      /\ \A k \in 1 .. (Len(q) - 1) : Tail(q)[k] = q[k + 1]
  BY HeadTailProperties, LenProperties, EmptySeq
<1>2. ASSUME EndsLast(s, q) PROVE EndsLast(s, Tail(q))
  <2> SUFFICES ASSUME NEW j \in 1 .. (Len(q) - 1), NEW k \in 1 .. (Len(q) - 1),
                      Tail(q)[j] = Frame("end", s), Tail(q)[k] = Frame("data", s)
               PROVE  k < j
    BY <1>1 DEF EndsLast
  <2>1. j + 1 \in DOMAIN q /\ k + 1 \in DOMAIN q /\ q[j + 1] = Frame("end", s)
        /\ q[k + 1] = Frame("data", s)
    BY <1>1
  <2> QED BY <1>1, <1>2, <2>1 DEF EndsLast
<1>3. ASSUME OpensFirst(s, q), Head(q).id # s PROVE OpensFirst(s, Tail(q))
  <2> SUFFICES ASSUME NEW k \in 1 .. (Len(q) - 1), Tail(q)[k].id = s
               PROVE  \E j \in 1 .. k : Tail(q)[j] = Frame("open", s)
    BY <1>1 DEF OpensFirst
  <2>1. k + 1 \in DOMAIN q /\ q[k + 1].id = s BY <1>1
  <2>2. PICK i \in 1 .. (k + 1) : q[i] = Frame("open", s) BY <1>3, <2>1 DEF OpensFirst
  <2>3. i # 1 BY <1>1, <1>3, <2>2 DEF Frame
  <2>4. i - 1 \in 1 .. k /\ Tail(q)[i - 1] = q[i] BY <1>1, <2>2, <2>3
  <2> QED BY <2>2, <2>4
<1>4. ASSUME OpensFirst(s, q), Head(q).id = s PROVE Head(q) = Frame("open", s)
  <2>1. 1 \in DOMAIN q /\ q[1].id = s BY <1>1, <1>4
  <2>2. PICK i \in 1 .. 1 : q[i] = Frame("open", s) BY <1>4, <2>1 DEF OpensFirst
  <2> QED BY <1>1, <2>2
<1>5. ASSUME EndsLast(s, q), Head(q) = Frame("end", s) PROVE Count("data", s, q) = 0
  <2>1. \A k \in DOMAIN q : q[k] # Frame("data", s) BY <1>1, <1>5 DEF EndsLast
  <2>2. {k \in DOMAIN q : q[k] = Frame("data", s)} = {} BY <2>1
  <2> QED BY <2>2, FS_EmptySet DEF Count
<1> QED BY <1>2, <1>3, <1>4, <1>5

LEMMA CountedIn ==
  ASSUME NEW q \in Seq(Packet), NEW type, NEW s, Count(type, s, q) = 0
  PROVE  \A k \in DOMAIN q : q[k] # Frame(type, s)
<1> DEFINE K == {k \in DOMAIN q : q[k] = Frame(type, s)}
<1>1. K \in SUBSET (1 .. Len(q)) BY LenProperties
<1>2. IsFiniteSet(1 .. Len(q)) BY FS_Interval, LenProperties
<1>3. Cardinality(K) = 0 BY DEF Count
<1> HIDE DEF K
<1>4. K = {} BY <1>1, <1>2, <1>3, FS_Subset, FS_EmptySet
<1> QED BY <1>4 DEF K

LEMMA OrderConcat ==
  ASSUME NEW p \in Seq(Packet), NEW q \in Seq(Packet), NEW s
  PROVE  /\ EndsLast(s, p) /\ EndsLast(s, q)
              /\ (Count("end", s, p) = 0 \/ Count("data", s, q) = 0)
            => EndsLast(s, p \o q)
         /\ OpensFirst(s, p) /\ (OpensFirst(s, q) \/ Count("open", s, p) > 0)
            => OpensFirst(s, p \o q)
<1>1. /\ Len(p) \in Nat /\ Len(q) \in Nat /\ Len(p \o q) = Len(p) + Len(q)
      /\ DOMAIN p = 1 .. Len(p) /\ DOMAIN q = 1 .. Len(q)
      /\ DOMAIN (p \o q) = 1 .. (Len(p) + Len(q))
      /\ \A k \in 1 .. Len(p) + Len(q) :
           (p \o q)[k] = IF k <= Len(p) THEN p[k] ELSE q[k - Len(p)]
  BY ConcatProperties, LenProperties
<1>2. ASSUME EndsLast(s, p), EndsLast(s, q),
             Count("end", s, p) = 0 \/ Count("data", s, q) = 0
      PROVE  EndsLast(s, p \o q)
  <2> SUFFICES ASSUME NEW j \in 1 .. (Len(p) + Len(q)), NEW k \in 1 .. (Len(p) + Len(q)),
                      (p \o q)[j] = Frame("end", s), (p \o q)[k] = Frame("data", s)
               PROVE  k < j
    BY <1>1 DEF EndsLast
  <2>1. CASE j <= Len(p) /\ k <= Len(p)
    <3>1. j \in DOMAIN p /\ k \in DOMAIN p /\ p[j] = Frame("end", s) /\ p[k] = Frame("data", s)
      BY <1>1, <2>1
    <3> QED BY <1>2, <3>1 DEF EndsLast
  <2>2. CASE j > Len(p) /\ k > Len(p)
    <3>1. /\ j - Len(p) \in DOMAIN q /\ k - Len(p) \in DOMAIN q
          /\ q[j - Len(p)] = Frame("end", s) /\ q[k - Len(p)] = Frame("data", s)
      BY <1>1, <2>2
    <3>2. k - Len(p) < j - Len(p) BY <1>2, <3>1 DEF EndsLast
    <3> QED BY <1>1, <3>2
  <2>3. CASE j <= Len(p) /\ k > Len(p)
    <3>1. j \in DOMAIN p /\ p[j] = Frame("end", s) BY <1>1, <2>3
    <3>2. k - Len(p) \in DOMAIN q /\ q[k - Len(p)] = Frame("data", s) BY <1>1, <2>3
    <3> QED BY <1>2, <3>1, <3>2, CountedIn
  <2> QED BY <1>1, <2>1, <2>2, <2>3
<1>3. ASSUME OpensFirst(s, p), OpensFirst(s, q) \/ Count("open", s, p) > 0
      PROVE  OpensFirst(s, p \o q)
  <2> SUFFICES ASSUME NEW k \in 1 .. (Len(p) + Len(q)), (p \o q)[k].id = s
               PROVE  \E j \in 1 .. k : (p \o q)[j] = Frame("open", s)
    BY <1>1 DEF OpensFirst
  <2>1. CASE k <= Len(p)
    <3>1. k \in DOMAIN p /\ p[k].id = s BY <1>1, <2>1
    <3>2. PICK i \in 1 .. k : p[i] = Frame("open", s) BY <1>3, <3>1 DEF OpensFirst
    <3>3. (p \o q)[i] = p[i] BY <1>1, <2>1, <3>2
    <3> QED BY <3>2, <3>3
  <2>2. CASE k > Len(p) /\ Count("open", s, p) > 0
    <3>1. PICK i \in DOMAIN p : p[i] = Frame("open", s)
      <4>1. ASSUME \A i \in DOMAIN p : p[i] # Frame("open", s) PROVE FALSE
        <5>1. {i \in DOMAIN p : p[i] = Frame("open", s)} = {} BY <4>1
        <5>2. Count("open", s, p) = 0 BY <5>1, FS_EmptySet DEF Count
        <5> QED BY <2>2, <5>2
      <4> QED BY <4>1
    <3>2. i \in 1 .. k /\ (p \o q)[i] = p[i] BY <1>1, <2>2, <3>1
    <3> QED BY <3>1, <3>2
  <2>3. CASE k > Len(p) /\ OpensFirst(s, q)
    <3>1. k - Len(p) \in DOMAIN q /\ q[k - Len(p)].id = s BY <1>1, <2>3
    <3>2. PICK i \in 1 .. (k - Len(p)) : q[i] = Frame("open", s) BY <2>3, <3>1 DEF OpensFirst
    <3>3. i + Len(p) \in 1 .. k /\ (p \o q)[i + Len(p)] = q[i] BY <1>1, <2>3, <3>2
    <3> QED BY <3>2, <3>3
  <2> QED BY <1>1, <1>3, <2>1, <2>2, <2>3
<1> QED BY <1>2, <1>3

\* Frames that are all of the stream s.
AllOf(s, q) == q \in Seq({f \in Packet : f.id = s})

LEMMA AllOfConcat ==
  ASSUME NEW s, NEW p, NEW q, AllOf(s, p), AllOf(s, q)
  PROVE  AllOf(s, p \o q)
BY ConcatProperties DEF AllOf

LEMMA AllOfOne ==
  ASSUME NEW s \in Stream, NEW type \in FrameType
  PROVE  AllOf(s, <<Frame(type, s)>>) /\ AllOf(s, <<>>)
BY DEF AllOf, Frame, Packet

LEMMA AllOfMany ==
  ASSUME NEW s \in Stream, NEW type \in FrameType, NEW n \in Nat
  PROVE  AllOf(s, Frames(type, s, n))
BY DEF AllOf, Frames, Frame, Packet

LEMMA AllOfElsewhere ==
  ASSUME NEW s, NEW q, AllOf(s, q), NEW t, t # s
  PROVE  /\ q \in Seq(Packet)
         /\ \A type : Count(type, t, q) = 0
         /\ OpensFirst(t, q) /\ EndsLast(t, q)
<1>1. q \in Seq(Packet) /\ \A k \in DOMAIN q : q[k].id = s
  BY ElementOfSeq, LenProperties, SeqMonotonic DEF AllOf
<1>2. ASSUME NEW type PROVE Count(type, t, q) = 0
  <2>1. {k \in DOMAIN q : q[k] = Frame(type, t)} = {} BY <1>1 DEF Frame
  <2> QED BY <2>1, FS_EmptySet DEF Count
<1>3. OpensFirst(t, q) BY <1>1 DEF OpensFirst
<1>4. EndsLast(t, q) BY <1>1 DEF EndsLast, Frame
<1> QED BY <1>1, <1>2, <1>3, <1>4

LEMMA MinOfTwo ==
  ASSUME NEW a \in Nat, NEW b \in Nat
  PROVE  /\ Min({a, b}) \in Nat /\ Min({a, b}) <= a /\ Min({a, b}) <= b
         /\ Min({a, b}) = a \/ Min({a, b}) = b
<1>1. \E x \in {a, b} : \A y \in {a, b} : x <= y OBVIOUS
<1>2. Min({a, b}) \in {a, b} /\ \A y \in {a, b} : Min({a, b}) <= y BY <1>1 DEF Min
<1> QED BY <1>2

-----------------------------------------------------------------------------
(* Pumping, and a step seen from one stream.                               *)

\* What a pump sends, and what it leaves.
LEMMA PumpFacts ==
  ASSUME NEW s \in Stream, NEW r \in StreamState, r.known = "open"
  PROVE  /\ Sendable(r) \in Nat /\ Sendable(r) <= r.queue /\ Sendable(r) <= r.credit
         /\ EndsNow(r) \in BOOLEAN
         /\ EndsNow(r) => Sendable(r) = r.queue /\ r.ending /\ ~r.ended
         /\ r.queue <= r.credit => Sendable(r) = r.queue
         /\ ~EndsNow(r) /\ r.queue = 0 /\ r.ending => r.ended
         /\ Pumped(r) \in StreamState
         /\ Pumped(r).known \in {"open", "gone"}
         /\ Pumped(r).known = "gone" => Pumped(r).ended /\ r.peerEnded
         /\ Pumped(r).credit = r.credit - Sendable(r)
         /\ Pumped(r).queue = IF Pumped(r).known = "gone" THEN 0 ELSE r.queue - Sendable(r)
         /\ Pumped(r).ending = r.ending /\ Pumped(r).peerEnded = r.peerEnded
         /\ (Pumped(r).ended <=> r.ended \/ EndsNow(r))
<1>1. /\ Sendable(r) \in Nat /\ Sendable(r) <= r.queue /\ Sendable(r) <= r.credit
      /\ Sendable(r) = r.queue \/ Sendable(r) = r.credit
  BY MinOfTwo DEF Sendable, StreamState
<1>2. EndsNow(r) \in BOOLEAN /\ (EndsNow(r) <=> r.ending /\ ~r.ended /\ r.queue <= r.credit)
  BY DEF EndsNow, StreamState
<1>3. /\ r.queue \in Nat /\ r.credit \in Nat /\ r.ended \in BOOLEAN /\ r.ending \in BOOLEAN
  BY DEF StreamState
<1> DEFINE q == [r EXCEPT !.credit = @ - Sendable(r), !.queue = @ - Sendable(r),
                          !.ended = @ \/ EndsNow(r)]
<1>4. /\ q \in StreamState /\ q.known = "open" /\ q.credit = r.credit - Sendable(r)
      /\ q.queue = r.queue - Sendable(r) /\ q.ending = r.ending /\ q.peerEnded = r.peerEnded
      /\ q.ended = (r.ended \/ EndsNow(r))
  <2>1. r.credit - Sendable(r) \in Nat /\ r.queue - Sendable(r) \in Nat BY <1>1, <1>3
  <2>2. (r.ended \/ EndsNow(r)) \in BOOLEAN BY <1>2, <1>3
  <2>3. q = [r EXCEPT !.credit = r.credit - Sendable(r), !.queue = r.queue - Sendable(r),
                      !.ended = (r.ended \/ EndsNow(r))]
    OBVIOUS
  <2> DEFINE ended == r.ended \/ EndsNow(r)
  <2> HIDE DEF q
  <2>4. q = [r EXCEPT !.credit = r.credit - Sendable(r), !.queue = r.queue - Sendable(r),
                      !.ended = ended]
    BY <2>3
  <2>5. ended \in BOOLEAN BY <2>2
  <2> HIDE DEF ended
  <2>6. /\ q \in StreamState /\ q.known = "open" /\ q.credit = r.credit - Sendable(r)
        /\ q.queue = r.queue - Sendable(r) /\ q.ending = r.ending /\ q.peerEnded = r.peerEnded
        /\ q.ended = ended
    BY <2>1, <2>4, <2>5 DEF StreamState
  <2> QED BY <2>6 DEF ended
<1>5. Pumped(r) = Closed(q) BY DEF Pumped
<1> HIDE DEF q
<1>6. /\ Closed(q) \in StreamState /\ Closed(q).known \in {"open", "gone"}
      /\ Closed(q).known = "gone" => q.ended /\ q.peerEnded
      /\ Closed(q).credit = q.credit /\ Closed(q).ending = q.ending
      /\ Closed(q).peerEnded = q.peerEnded /\ Closed(q).ended = q.ended
      /\ Closed(q).queue = IF Closed(q).known = "gone" THEN 0 ELSE q.queue
  BY <1>4 DEF Closed, Destroyed, StreamState
<1>7. Pumped(r).ended <=> r.ended \/ EndsNow(r)
  <2>1. Pumped(r).ended = q.ended BY <1>5, <1>6
  <2> QED BY <1>4, <2>1
<1> QED BY <1>1, <1>2, <1>3, <1>4, <1>5, <1>6, <1>7

\* A write, an end, or both.
LEMMA GivenFacts ==
  ASSUME NEW m \in StreamState, NEW n \in Nat, NEW last \in BOOLEAN
  PROVE  /\ Given(m, n, last) \in StreamState
         /\ Given(m, n, last).known = m.known
         /\ Given(m, n, last).queue = m.queue + n /\ Given(m, n, last).credit = m.credit
         /\ (Given(m, n, last).ending <=> m.ending \/ last)
         /\ Given(m, n, last).ended = m.ended /\ Given(m, n, last).peerEnded = m.peerEnded
<1> DEFINE r == Given(m, n, last)
           ends == m.ending \/ last
<1>1. /\ ends \in BOOLEAN /\ m.queue + n \in Nat
      /\ r = [m EXCEPT !.queue = m.queue + n, !.ending = ends]
  BY DEF Given, StreamState
<1> HIDE DEF ends, r
<1>2. /\ r \in StreamState /\ r.known = m.known /\ r.queue = m.queue + n /\ r.credit = m.credit
      /\ r.ending = ends /\ r.ended = m.ended /\ r.peerEnded = m.peerEnded
  BY <1>1 DEF StreamState
<1> QED BY <1>2 DEF ends, r

LEMMA PumpedFrameFacts ==
  ASSUME NEW s \in Stream, NEW r \in StreamState, r.known = "open"
  PROVE  /\ AllOf(s, PumpedFrames(s, r)) /\ PumpedFrames(s, r) \in Seq(Packet)
         /\ Count("data", s, PumpedFrames(s, r)) = Sendable(r)
         /\ Count("end", s, PumpedFrames(s, r)) = IF EndsNow(r) THEN 1 ELSE 0
         /\ \A type \in FrameType \ {"data", "end"} : Count(type, s, PumpedFrames(s, r)) = 0
         /\ EndsLast(s, PumpedFrames(s, r))
<1>1. Sendable(r) \in Nat BY PumpFacts
<1> DEFINE a == Frames("data", s, Sendable(r))
           b == IF EndsNow(r) THEN <<Frame("end", s)>> ELSE <<>>
<1>2. AllOf(s, a) BY <1>1, AllOfMany DEF FrameType
<1>3. AllOf(s, b) BY AllOfOne DEF FrameType
<1>4. a \in Seq(Packet) /\ b \in Seq(Packet) BY <1>2, <1>3, SeqMonotonic DEF AllOf
<1>5. \A type : Count(type, s, a) = IF type = "data" THEN Sendable(r) ELSE 0
  BY <1>1, CountMany
<1>6. \A type : Count(type, s, b) = IF EndsNow(r) /\ type = "end" THEN 1 ELSE 0
  BY CountOne, CountNone
<1>7. EndsLast(s, a)
  <2>1. DOMAIN a = 1 .. Sendable(r) /\ \A k \in 1 .. Sendable(r) : a[k] = Frame("data", s)
    BY DEF Frames
  <2> HIDE DEF a
  <2> QED BY <2>1 DEF EndsLast, Frame
<1>8. EndsLast(s, b) BY DEF EndsLast, Frame
<1>9. PumpedFrames(s, r) = a \o b BY DEF PumpedFrames
<1> HIDE DEF a, b
<1>10. \A type : Count(type, s, a \o b) = Count(type, s, a) + Count(type, s, b)
  BY <1>4, CountConcat
<1>11. EndsLast(s, a \o b)
  BY <1>4, <1>5, <1>7, <1>8, OrderConcat
<1>12. AllOf(s, a \o b) /\ a \o b \in Seq(Packet)
  BY <1>2, <1>3, <1>4, AllOfConcat, ConcatProperties
<1>13. \A type : Count(type, s, PumpedFrames(s, r))
                   = (IF type = "data" THEN Sendable(r) ELSE 0)
                       + (IF EndsNow(r) /\ type = "end" THEN 1 ELSE 0)
  BY <1>5, <1>6, <1>9, <1>10
<1>14. Count("data", s, PumpedFrames(s, r)) = Sendable(r) BY <1>1, <1>13
<1>15. Count("end", s, PumpedFrames(s, r)) = IF EndsNow(r) THEN 1 ELSE 0 BY <1>13
<1>16. \A type \in FrameType \ {"data", "end"} : Count(type, s, PumpedFrames(s, r)) = 0
  BY <1>13
<1> QED BY <1>9, <1>11, <1>12, <1>14, <1>15, <1>16

LEMMA Ends == /\ \A e \in End : Other(e) \in End /\ Other(e) # e /\ Other(Other(e)) = e
              /\ End = {"client", "host"} /\ Other("client") = "host" /\ Other("host") = "client"
BY DEF End, Other

\* Nothing that a stream can tell has changed.
SameFrames(t) ==
  \A e \in End : /\ \A type \in FrameType : Count(type, t, wire'[e]) = Count(type, t, wire[e])
                 /\ EndsLast(t, wire[e]) => EndsLast(t, wire'[e])
                 /\ OpensFirst(t, wire[e]) => OpensFirst(t, wire'[e])
SameStream(t) ==
  /\ \A e \in End : /\ mux'[e][t] = mux[e][t] /\ user'[e][t] = user[e][t]
                    /\ written'[e][t] = written[e][t] /\ got'[e][t] = got[e][t]
                    /\ live'[e] = live[e]
  /\ answer'[t] = answer[t]

LEMMA Undisturbed ==
  ASSUME NEW t \in Stream, StreamOK(t), SameFrames(t), SameStream(t)
  PROVE  StreamOK(t)'
<1>1. /\ UnopenedOK(t) /\ UsersOK(t) /\ CreditOK(t)
      /\ t \in Http => RequestOK(t) /\ ResponseOK(t)
  BY DEF StreamOK
<1>2. \A e \in End, type \in FrameType : Count(type, t, wire'[e]) = Count(type, t, wire[e])
  BY DEF SameFrames
<1>3. \A e \in End : /\ EndsLast(t, wire[e]) => EndsLast(t, wire'[e])
                     /\ OpensFirst(t, wire[e]) => OpensFirst(t, wire'[e])
  BY DEF SameFrames
<1>4. UnopenedOK(t)' BY <1>1, <1>2 DEF UnopenedOK, SameStream, End
<1>5. UsersOK(t)'
  BY <1>1, <1>2, <1>3 DEF UsersOK, SameStream, End, Active, Http, Ws, FrameType
<1>6. CreditOK(t)'
  <2>1. \A e \in End : Credit(e, t)' = Credit(e, t) /\ Reads(Other(e), t)' = Reads(Other(e), t)
    BY <1>2, Ends DEF Credit, SameStream, Reads, FrameType
  <2> QED BY <1>1, <2>1 DEF CreditOK, SameStream, End
<1>7. ASSUME t \in Http PROVE RequestOK(t)' /\ ResponseOK(t)'
  <2>1. RequestOK(t)' BY <1>1, <1>2, <1>3, <1>7 DEF RequestOK, SameStream, Has, End, FrameType
  <2>2. ResponseOK(t)' BY <1>1, <1>2, <1>3, <1>7 DEF ResponseOK, SameStream, Has, End, FrameType
  <2> QED BY <2>1, <2>2
<1>8. t \in Http' <=> t \in Http BY DEF Http
<1> QED BY <1>4, <1>5, <1>6, <1>7, <1>8 DEF StreamOK

\* What an end that runs puts on the wire.
LEMMA Emission ==
  ASSUME MuxTypeOK, NEW e \in End, NEW s \in Stream, NEW q, AllOf(s, q), live[e],
         wire' = Carried(e, q)
  PROVE  /\ wire' \in [End -> Seq(Packet)]
         /\ wire'[e] = wire[e] \o q /\ wire'[Other(e)] = wire[Other(e)]
         /\ \A type : Count(type, s, wire'[e]) = Count(type, s, wire[e]) + Count(type, s, q)
         /\ \A type : Count(type, s, q) \in Nat
         /\ \A d \in End : \A type : Count(type, s, wire[d]) \in Nat
         /\ \A t \in Stream : t # s => SameFrames(t)
<1>1. q \in Seq(Packet) BY SeqMonotonic DEF AllOf
<1>2. wire \in [End -> Seq(Packet)] BY DEF MuxTypeOK
<1>3. wire' = [wire EXCEPT ![e] = @ \o q] BY DEF Carried
<1>4. wire[e] \in Seq(Packet) /\ wire[e] \o q \in Seq(Packet) BY <1>1, <1>2, ConcatProperties
<1>5. /\ wire' \in [End -> Seq(Packet)]
      /\ wire'[e] = wire[e] \o q /\ \A d \in End : d # e => wire'[d] = wire[d]
  BY <1>2, <1>3, <1>4
<1>6. \A type, t : Count(type, t, wire'[e]) = Count(type, t, wire[e]) + Count(type, t, q)
  BY <1>1, <1>4, <1>5, CountConcat
<1>7. ASSUME NEW t \in Stream, t # s PROVE SameFrames(t)
  <2>1. /\ \A type : Count(type, t, q) = 0
        /\ OpensFirst(t, q) /\ EndsLast(t, q)
    BY <1>7, AllOfElsewhere
  <2>2. \A type : Count(type, t, wire[e]) \in Nat BY <1>4, CountIsNat
  <2>3. /\ EndsLast(t, wire[e]) => EndsLast(t, wire'[e])
        /\ OpensFirst(t, wire[e]) => OpensFirst(t, wire'[e])
    BY <1>1, <1>4, <1>5, <2>1, OrderConcat
  <2>4. \A type : Count(type, t, wire'[e]) = Count(type, t, wire[e]) BY <1>6, <2>1, <2>2
  <2> QED BY <1>5, <2>3, <2>4 DEF SameFrames
<1>8. \A type : Count(type, s, q) \in Nat BY <1>1, CountIsNat
<1>9. \A d \in End : \A type : Count(type, s, wire[d]) \in Nat BY <1>2, CountIsNat
<1> QED BY <1>5, <1>6, <1>7, <1>8, <1>9, Ends

\* A step that is about one stream leaves the others as they were.
LEMMA OneStream ==
  ASSUME MuxIInv, MuxTypeOK', NEW s \in Stream, StreamOK(s)',
         \A t \in Stream : t # s => SameFrames(t) /\ SameStream(t)
  PROVE  MuxIInv'
BY Undisturbed DEF MuxIInv

-----------------------------------------------------------------------------
(* The steps of the users.                                                 *)

\* A user that has left a stream reads no more of it.
Left(e) == IF e = "client" THEN "closed" ELSE "retired"

\* A write, an end, or both, by one who uses an open stream.
LEMMA PumpStep ==
  ASSUME MuxIInv, NEW e \in End, NEW s \in Stream, NEW n \in Nat, NEW last \in BOOLEAN,
         NEW u, u = user[e][s] \/ u = Left(e), u # "none",
         mux[e][s].known = "open", mux[e][s].ending \/ last => u = Left(e),
         SetStream(e, s, Pumped(Given(mux[e][s], n, last)),
                   PumpedFrames(s, Given(mux[e][s], n, last))),
         user' = [user EXCEPT ![e][s] = u],
         written' = [written EXCEPT ![e][s] = @ + n],
         UNCHANGED <<live, got, answer, mix>>,
         s \in Http => /\ e = "host" /\ user[e][s] = "answering" /\ mux[e][s].queue = 0
                       /\ last => n = 0 /\ written[e][s] = answer[s]
  PROVE  MuxIInv'
<1>1. MuxTypeOK /\ StreamOK(s) BY DEF MuxIInv
<1>2. mux[e][s] \in StreamState /\ live[e] BY <1>1 DEF MuxTypeOK, StreamOK, UsersOK
<1> DEFINE m == mux[e][s]
           r == Given(m, n, last)
           p == Pumped(r)
           fr == PumpedFrames(s, r)
           k == Sendable(r)
<1>3. /\ r \in StreamState /\ r.known = "open" /\ r.queue = m.queue + n /\ r.credit = m.credit
      /\ (r.ending <=> m.ending \/ last) /\ r.ended = m.ended /\ r.peerEnded = m.peerEnded
  <2> HIDE DEF m
  <2> QED BY <1>2, GivenFacts DEF m
<1>4. mux' = [mux EXCEPT ![e][s] = p] /\ wire' = Carried(e, fr) BY DEF SetStream
<1> HIDE DEF r
<1>5. /\ k \in Nat /\ k <= r.queue /\ k <= r.credit
      /\ EndsNow(r) \in BOOLEAN
      /\ EndsNow(r) => k = r.queue /\ r.ending /\ ~r.ended
      /\ r.queue <= r.credit => k = r.queue
      /\ ~EndsNow(r) /\ r.queue = 0 /\ r.ending => r.ended
      /\ p \in StreamState /\ p.known \in {"open", "gone"}
      /\ p.known = "gone" => p.ended /\ r.peerEnded
      /\ p.credit = r.credit - k
      /\ p.queue = IF p.known = "gone" THEN 0 ELSE r.queue - k
      /\ p.ending = r.ending /\ p.peerEnded = r.peerEnded
      /\ (p.ended <=> r.ended \/ EndsNow(r))
  BY <1>3, PumpFacts
<1>6. /\ AllOf(s, fr) /\ fr \in Seq(Packet)
      /\ Count("data", s, fr) = k
      /\ Count("end", s, fr) = IF EndsNow(r) THEN 1 ELSE 0
      /\ \A type \in FrameType \ {"data", "end"} : Count(type, s, fr) = 0
      /\ EndsLast(s, fr)
  BY <1>3, PumpedFrameFacts
<1> HIDE DEF p, fr, k
<1>7. /\ wire' \in [End -> Seq(Packet)]
      /\ wire'[e] = wire[e] \o fr /\ wire'[Other(e)] = wire[Other(e)]
      /\ \A type : Count(type, s, wire'[e]) = Count(type, s, wire[e]) + Count(type, s, fr)
      /\ \A d \in End : \A type : Count(type, s, wire[d]) \in Nat
      /\ \A t \in Stream : t # s => SameFrames(t)
  BY <1>1, <1>2, <1>4, <1>6, Emission
<1>21. /\ Count("data", s, wire'[e]) = Count("data", s, wire[e]) + k
       /\ Count("end", s, wire'[e]) = Count("end", s, wire[e]) + (IF EndsNow(r) THEN 1 ELSE 0)
       /\ \A type \in FrameType \ {"data", "end"} :
            Count(type, s, wire'[e]) = Count(type, s, wire[e])
  <2>1. \A type : Count(type, s, wire[e]) \in Nat BY <1>7
  <2> QED BY <1>6, <1>7, <2>1
<1>8. /\ mux \in [End -> [Stream -> StreamState]] /\ user \in [End -> [Stream -> MuxUser]]
      /\ written \in [End -> [Stream -> Nat]]
  BY <1>1 DEF MuxTypeOK
<1>9. /\ mux' \in [End -> [Stream -> StreamState]] /\ mux'[e][s] = p
      /\ mux'[Other(e)][s] = mux[Other(e)][s]
      /\ \A d \in End, t \in Stream : t # s => mux'[d][t] = mux[d][t]
  BY <1>4, <1>5, <1>8, Ends
<1>10. u \in MuxUser BY <1>8 DEF Left, MuxUser
<1>11. /\ user' \in [End -> [Stream -> MuxUser]] /\ user'[e][s] = u
       /\ user'[Other(e)][s] = user[Other(e)][s]
       /\ \A d \in End, t \in Stream : t # s => user'[d][t] = user[d][t]
  BY <1>8, <1>10, Ends
<1>12. /\ written' \in [End -> [Stream -> Nat]] /\ written'[e][s] = written[e][s] + n
       /\ written'[Other(e)][s] = written[Other(e)][s]
       /\ \A d \in End, t \in Stream : t # s => written'[d][t] = written[d][t]
  <2>1. written[e][s] + n \in Nat BY <1>8
  <2> QED BY <1>8, <2>1, Ends
<1>13. MuxTypeOK' BY <1>1, <1>7, <1>9, <1>11, <1>12 DEF MuxTypeOK
<1>14. \A t \in Stream : t # s => SameFrames(t) /\ SameStream(t)
  BY <1>7, <1>9, <1>11, <1>12 DEF SameStream
<1>15. /\ UnopenedOK(s) /\ UsersOK(s) /\ CreditOK(s)
       /\ s \in Http => RequestOK(s) /\ ResponseOK(s)
  BY <1>1 DEF StreamOK
<1>16. mux["client"][s].known # "new" BY <1>15, Ends DEF UnopenedOK, Fresh
<1>17. UnopenedOK(s)' BY <1>5, <1>9, <1>16, Ends DEF UnopenedOK
<1>18. UsersOK(s)'
  <2> USE DEF UsersOK
  <2>1. \A d \in End : /\ mux'[d][s].known = "open" => live'[d]
                       /\ mux'[d][s].ended => mux'[d][s].ending
    <3>1. m.ended => m.ending BY <1>15
    <3>2. p.ended => p.ending BY <1>3, <1>5, <3>1
    <3> QED BY <1>2, <1>9, <1>15, <3>2, Ends
  <2>2. mux'["host"][s].known = "new" =>
          /\ mux'["host"][s] = Fresh /\ OpensFirst(s, wire'["client"])
          /\ mux["host"][s].known = "new" /\ e = "client"
    <3> SUFFICES ASSUME mux'["host"][s].known = "new"
                 PROVE  /\ mux'["host"][s] = Fresh /\ OpensFirst(s, wire'["client"])
                        /\ mux["host"][s].known = "new" /\ e = "client"
      OBVIOUS
    <3>1. e = "client" /\ mux'["host"][s] = mux["host"][s] BY <1>5, <1>9, Ends
    <3>2. Count("open", s, wire["client"]) > 0 /\ OpensFirst(s, wire["client"])
      BY <1>15, <3>1
    <3>3. wire["client"] \in Seq(Packet) BY <1>1 DEF MuxTypeOK, End
    <3>4. OpensFirst(s, wire["client"] \o fr) BY <1>6, <3>2, <3>3, OrderConcat
    <3> QED BY <1>7, <1>15, <3>1, <3>4
  <2>3. mux'["client"][s].known = "open" /\ mux'["host"][s].known = "new" =>
          Count("open", s, wire'["client"]) > 0
    <3>1. mux'["client"][s].known = "open" => mux["client"][s].known = "open"
      BY <1>5, <1>9, Ends
    <3>2. mux'["host"][s].known = "new" => e = "client" /\ mux["host"][s].known = "new" BY <2>2
    <3>3. Count("open", s, wire'[e]) = Count("open", s, wire[e]) BY <1>21 DEF FrameType
    <3> QED BY <1>15, <3>1, <3>2, <3>3
  <2>4. user'["host"][s] = "none" <=> mux'["host"][s].known = "new"
    BY <1>5, <1>9, <1>11, <1>15, Ends DEF Left
  <2>5. Active(s)' => mux'["host"][s].known = "open" /\ ~mux'["host"][s].ending
    <3>1. CASE e = "host"
      <4>1. u = "retired" \/ (u = user["host"][s] /\ ~r.ending)
        BY <1>3, <3>1 DEF Left
      <4> QED BY <1>3, <1>5, <1>9, <1>11, <1>15, <3>1, <4>1 DEF Active, ActiveBridge
    <3>2. CASE e = "client" BY <1>9, <1>11, <1>15, <3>2, Ends DEF Active
    <3> QED BY <3>1, <3>2, Ends
  <2>6. /\ user'["client"][s] = "open" =>
             mux'["client"][s].known = "open" /\ ~mux'["client"][s].ending
        /\ user'["client"][s] = "pending" =>
             mux'["client"][s].known = "open" /\ ~mux'["client"][s].peerEnded
    <3>1. CASE e = "client"
      <4>1. u = "closed" \/ (u = user["client"][s] /\ ~r.ending)
        BY <1>3, <3>1 DEF Left
      <4> QED BY <1>3, <1>5, <1>9, <1>11, <1>15, <3>1, <4>1
    <3>2. CASE e = "host" BY <1>9, <1>11, <1>15, <3>2, Ends
    <3> QED BY <3>1, <3>2, Ends
  <2>7. /\ s \in Http => /\ user'["client"][s] \in {"none", "pending", "ok", "failed"}
                         /\ user'["host"][s]
                              \in {"none", "reading", "fetching", "answering", "retired"}
        /\ s \in Ws => /\ user'["client"][s] \in {"none", "open", "closed"}
                       /\ user'["host"][s] \in {"none", "dialing", "open", "retired"}
    BY <1>11, <1>15, Ends DEF Left
  <2> QED BY <2>1, <2>2, <2>3, <2>4, <2>5, <2>6, <2>7 DEF Http, Ws
<1>19. CreditOK(s)'
  <2>1. \A d \in End : Credit(d, s)' = Credit(d, s)
    <3>1. Credit(e, s)' = Credit(e, s)
      <4>1. /\ mux'[e][s].credit = mux[e][s].credit - k
            /\ mux[e][s].credit \in Nat /\ k \in Nat
        BY <1>2, <1>3, <1>5, <1>9 DEF StreamState
      <4>2. /\ Count("data", s, wire[e]) \in Nat
            /\ Count("window", s, wire[Other(e)]) \in Nat
        BY <1>7, Ends
      <4> QED BY <1>7, <1>21, <4>1, <4>2 DEF Credit
    <3>2. Credit(Other(e), s)' = Credit(Other(e), s)
      <4>1. Count("window", s, wire'[e]) = Count("window", s, wire[e]) BY <1>21 DEF FrameType
      <4> QED BY <1>7, <1>9, <4>1, Ends DEF Credit
    <3> QED BY <3>1, <3>2, Ends
  <2>2. \A d \in End : Reads(d, s)' => Reads(d, s)
    BY <1>11, Ends DEF Reads, Left
  <2>3. /\ mux'["client"][s].known = "open" => mux["client"][s].known = "open"
        /\ mux'["host"][s].known # "gone" => mux["host"][s].known # "gone"
        /\ mux'["host"][s].known = "new" => mux["host"][s].known = "new"
    BY <1>5, <1>9, Ends
  <2> QED BY <1>15, <2>1, <2>2, <2>3, Ends DEF CreditOK
<1>20. ASSUME s \in Http PROVE RequestOK(s)' /\ ResponseOK(s)'
  <2>1. /\ e = "host" /\ user["host"][s] = "answering" /\ mux["host"][s].queue = 0
        /\ last => n = 0 /\ written["host"][s] = answer[s]
    BY <1>20
  <2>2. user'["host"][s] \in {"answering", "retired"} /\ user'["client"] [s] = user["client"][s]
    BY <1>11, <2>1, Ends DEF Left
  <2>3. RequestOK(s)'
    BY <1>7, <1>9, <1>11, <1>12, <1>15, <1>20, <2>1, <2>2, Ends DEF RequestOK, Has
  <2>4. /\ ~m.ended /\ ~m.ending BY <1>15, <1>20, <2>1 DEF ResponseOK
  <2>5. (r.ending <=> last) /\ ~r.ended /\ r.queue = n BY <1>3, <2>1, <2>4
  <2>6. last => /\ EndsNow(r) /\ k = 0 /\ p.ended /\ p.queue = 0 /\ u = "retired" /\ n = 0
    <3> SUFFICES ASSUME last
                 PROVE  EndsNow(r) /\ k = 0 /\ p.ended /\ p.queue = 0 /\ u = "retired" /\ n = 0
      OBVIOUS
    <3>1. n = 0 /\ r.queue = 0 /\ k = 0 BY <1>5, <2>1, <2>5
    <3>2. EndsNow(r) BY <1>5, <2>5, <3>1
    <3>3. p.queue = 0 /\ p.ended BY <1>5, <3>1, <3>2
    <3> QED BY <2>1, <3>1, <3>2, <3>3 DEF Left
  <2>7. ~last => ~EndsNow(r) /\ ~p.ending /\ ~p.ended /\ p.known = "open" /\ p.queue = n - k
    BY <1>5, <2>5
  <2>8. ~Has("end", s, "host") BY <1>15, <1>20, <2>4, <2>1 DEF ResponseOK
  <2>9. EndsLast(s, wire'["host"])
    <3>1. wire["host"] \in Seq(Packet) BY <1>1 DEF MuxTypeOK, End
    <3>2. Count("end", s, wire["host"]) \in Nat BY <3>1, CountIsNat
    <3>3. Count("end", s, wire["host"]) = 0 BY <2>8, <3>2 DEF Has
    <3> QED BY <1>6, <1>7, <1>15, <1>20, <2>1, <3>1, <3>3, OrderConcat DEF ResponseOK
  <2>10. Count("end", s, wire'["host"]) > 0 => last
    <3>1. Count("end", s, wire["host"]) \in Nat BY <1>7, <2>1
    <3>2. ~EndsNow(r) => Count("end", s, wire'["host"]) = Count("end", s, wire["host"])
      BY <1>21, <2>1, <3>1
    <3> QED BY <2>7, <2>8, <3>1, <3>2 DEF Has
  <2>11. Count("data", s, wire'["host"]) = Count("data", s, wire["host"]) + k
    BY <1>21, <2>1
  <2>12. user["client"][s] = "pending" =>
           got["client"][s] + Count("data", s, wire["host"]) = written["host"][s]
    <3>1. /\ got["client"][s] \in Nat /\ Count("data", s, wire["host"]) \in Nat
          /\ mux["host"][s].known = "open"
      BY <1>1, <1>7, <2>1 DEF MuxTypeOK, End
    <3>2. user["client"][s] = "pending" =>
            got["client"][s] + Count("data", s, wire["host"]) + mux["host"][s].queue
              = written["host"][s]
      BY <1>15, <1>20, <3>1 DEF ResponseOK
    <3> QED BY <2>1, <3>1, <3>2
  <2>13. user["client"][s] # "ok" BY <1>15, <1>20, <2>1 DEF ResponseOK
  <2>14. user'["client"][s] = "pending" =>
           got'["client"][s] + Count("data", s, wire'["host"]) + mux'["host"][s].queue
             = written'["host"][s]
    <3>1. /\ got["client"][s] \in Nat /\ Count("data", s, wire["host"]) \in Nat
          /\ written["host"][s] \in Nat
      BY <1>1, <1>7, <2>1 DEF MuxTypeOK, End
    <3>2. k + p.queue = n /\ k \in Nat /\ p.queue \in Nat
      BY <1>5, <2>5, <2>6, <2>7
    <3>3. mux'["host"][s] = p /\ written'["host"][s] = written["host"][s] + n
      BY <1>9, <1>12, <2>1
    <3> QED BY <2>2, <2>11, <2>12, <3>1, <3>2, <3>3
  <2>15. ResponseOK(s)'
    <3>1. (p.ended <=> last) /\ (p.ending <=> last) /\ (last => p.queue = 0 /\ u = "retired")
      BY <1>5, <2>5, <2>6, <2>7
    <3>2. mux'["host"][s] = p /\ user'["host"][s] = u BY <1>9, <1>11, <2>1
    <3>3. last => written'["host"][s] = answer'[s]
      <4>1. written["host"][s] \in Nat BY <1>1 DEF MuxTypeOK, End
      <4> QED BY <1>12, <2>1, <4>1
    <3>4. user'["client"][s] # "ok" BY <2>2, <2>13
    <3>5. Has("end", s, "host")' => last BY <2>10 DEF Has
    <3> QED BY <2>9, <2>14, <3>1, <3>2, <3>3, <3>4, <3>5, <2>7 DEF ResponseOK
  <2> QED BY <2>3, <2>15
<1> QED BY <1>13, <1>14, <1>17, <1>18, <1>19, <1>20, OneStream DEF StreamOK, Http

\* A stream that is reset by its user is gone, and the user with it.
LEMMA ResetStep ==
  ASSUME MuxIInv, NEW e \in End, NEW s \in Stream, mux[e][s].known = "open",
         ResetStream(e, s), NEW u, u = (IF e = "client" THEN "failed" ELSE "retired"),
         user' = [user EXCEPT ![e][s] = u], e = "client" => s \in Http,
         UNCHANGED <<live, written, got, answer, mix>>
  PROVE  MuxIInv'
<1>1. MuxTypeOK /\ StreamOK(s) BY DEF MuxIInv
<1>2. mux[e][s] \in StreamState /\ live[e] BY <1>1 DEF MuxTypeOK, StreamOK, UsersOK
<1> DEFINE m == mux[e][s]
           p == Destroyed(m)
           fr == <<Frame("reset", s)>>
<1>3. /\ p \in StreamState /\ p.known = "gone" /\ p.queue = 0 /\ p.ending = m.ending
      /\ p.ended = m.ended /\ p.peerEnded = m.peerEnded
  BY <1>2 DEF Destroyed, StreamState
<1>4. mux' = [mux EXCEPT ![e][s] = p] /\ wire' = Carried(e, fr)
  BY DEF ResetStream, SetStream, ResetFrames
<1>5. /\ AllOf(s, fr) /\ fr \in Seq(Packet) /\ EndsLast(s, fr)
      /\ Count("data", s, fr) = 0 /\ Count("end", s, fr) = 0 /\ Count("open", s, fr) = 0
  <2>1. AllOf(s, fr) BY AllOfOne DEF FrameType
  <2>2. fr \in Seq(Packet) BY DEF Packet, FrameType, Frame
  <2>3. EndsLast(s, fr) BY DEF EndsLast, Frame
  <2> QED BY <2>1, <2>2, <2>3, CountOne
<1> HIDE DEF p, fr
<1>6. /\ wire' \in [End -> Seq(Packet)]
      /\ wire'[e] = wire[e] \o fr /\ wire'[Other(e)] = wire[Other(e)]
      /\ \A type : Count(type, s, wire'[e]) = Count(type, s, wire[e]) + Count(type, s, fr)
      /\ \A d \in End : \A type : Count(type, s, wire[d]) \in Nat
      /\ \A t \in Stream : t # s => SameFrames(t)
  BY <1>1, <1>2, <1>4, <1>5, Emission
<1>7. /\ \A d \in End : /\ Count("data", s, wire'[d]) = Count("data", s, wire[d])
                        /\ Count("end", s, wire'[d]) = Count("end", s, wire[d])
                        /\ Count("open", s, wire'[d]) = Count("open", s, wire[d])
  <2>1. \A type : Count(type, s, wire[e]) \in Nat BY <1>6
  <2>2. /\ Count("data", s, wire'[e]) = Count("data", s, wire[e])
        /\ Count("end", s, wire'[e]) = Count("end", s, wire[e])
        /\ Count("open", s, wire'[e]) = Count("open", s, wire[e])
    BY <1>5, <1>6, <2>1
  <2>3. wire'[Other(e)] = wire[Other(e)] BY <1>6
  <2>4. \A d \in End : d = e \/ d = Other(e) BY Ends
  <2> QED BY <2>2, <2>3, <2>4
<1>8. /\ mux \in [End -> [Stream -> StreamState]] /\ user \in [End -> [Stream -> MuxUser]]
  BY <1>1 DEF MuxTypeOK
<1>9. /\ mux' \in [End -> [Stream -> StreamState]] /\ mux'[e][s] = p
      /\ mux'[Other(e)][s] = mux[Other(e)][s]
      /\ \A d \in End, t \in Stream : t # s => mux'[d][t] = mux[d][t]
  BY <1>3, <1>4, <1>8, Ends
<1>10. u \in MuxUser BY <1>8 DEF MuxUser
<1>11. /\ user' \in [End -> [Stream -> MuxUser]] /\ user'[e][s] = u
       /\ user'[Other(e)][s] = user[Other(e)][s]
       /\ \A d \in End, t \in Stream : t # s => user'[d][t] = user[d][t]
  BY <1>8, <1>10, Ends
<1>12. MuxTypeOK' BY <1>1, <1>6, <1>9, <1>11 DEF MuxTypeOK
<1>13. \A t \in Stream : t # s => SameFrames(t) /\ SameStream(t)
  BY <1>6, <1>9, <1>11 DEF SameStream
<1>14. /\ UnopenedOK(s) /\ UsersOK(s) /\ CreditOK(s)
       /\ s \in Http => RequestOK(s) /\ ResponseOK(s)
  BY <1>1 DEF StreamOK
<1>15. mux["client"][s].known # "new" BY <1>14, Ends DEF UnopenedOK, Fresh
<1>16. \A d \in End : EndsLast(s, wire[d]) => EndsLast(s, wire'[d])
  <2>1. wire[e] \in Seq(Packet) BY <1>1 DEF MuxTypeOK
  <2>2. EndsLast(s, wire[e]) => EndsLast(s, wire[e] \o fr) BY <1>5, <2>1, OrderConcat
  <2>3. wire'[e] = wire[e] \o fr /\ wire'[Other(e)] = wire[Other(e)] BY <1>6
  <2>4. \A d \in End : d = e \/ d = Other(e) BY Ends
  <2> QED BY <2>2, <2>3, <2>4
<1>17. UnopenedOK(s)' BY <1>3, <1>9, <1>15, Ends DEF UnopenedOK
<1>18. UsersOK(s)'
  <2>1. OpensFirst(s, wire["client"]) /\ Count("open", s, wire["client"]) > 0
          => OpensFirst(s, wire'["client"])
    <3>1. wire["client"] \in Seq(Packet) BY <1>1 DEF MuxTypeOK, End
    <3>2. OpensFirst(s, wire["client"]) /\ Count("open", s, wire["client"]) > 0
            => OpensFirst(s, wire["client"] \o fr)
      BY <1>5, <3>1, OrderConcat
    <3>3. wire'[e] = wire[e] \o fr /\ wire'[Other(e)] = wire[Other(e)] BY <1>6
    <3>4. e = "client" \/ Other(e) = "client" BY Ends
    <3> QED BY <3>2, <3>3, <3>4
  <2>2. mux'["host"][s].known = "new" => mux'["host"][s] = Fresh /\ OpensFirst(s, wire'["client"])
    BY <1>2, <1>3, <1>9, <1>14, <2>1, Ends DEF UsersOK
  <2>3. \A d \in End : /\ mux'[d][s].known = "open" => live'[d]
                       /\ mux'[d][s].ended => mux'[d][s].ending
    BY <1>2, <1>3, <1>9, <1>14, Ends DEF UsersOK
  <2>4. mux'["client"][s].known = "open" /\ mux'["host"][s].known = "new" =>
          Count("open", s, wire'["client"]) > 0
    BY <1>3, <1>7, <1>9, <1>14, Ends DEF UsersOK
  <2>5. /\ user'["host"][s] = "none" <=> mux'["host"][s].known = "new"
        /\ Active(s)' => mux'["host"][s].known = "open" /\ ~mux'["host"][s].ending
    BY <1>3, <1>9, <1>11, <1>14, Ends DEF UsersOK, Active, ActiveBridge
  <2>6. /\ user'["client"][s] = "open" =>
             mux'["client"][s].known = "open" /\ ~mux'["client"][s].ending
        /\ user'["client"][s] = "pending" =>
             mux'["client"][s].known = "open" /\ ~mux'["client"][s].peerEnded
    BY <1>3, <1>9, <1>11, <1>14, Ends DEF UsersOK
  <2>7. /\ s \in Http => /\ user'["client"][s] \in {"none", "pending", "ok", "failed"}
                         /\ user'["host"][s]
                              \in {"none", "reading", "fetching", "answering", "retired"}
        /\ s \in Ws => /\ user'["client"][s] \in {"none", "open", "closed"}
                       /\ user'["host"][s] \in {"none", "dialing", "open", "retired"}
    BY <1>11, <1>14, Ends DEF UsersOK, Http, Ws
  <2> QED BY <2>2, <2>3, <2>4, <2>5, <2>6, <2>7 DEF UsersOK, Http, Ws
<1>19. CreditOK(s)' BY <1>3, <1>9, Ends DEF CreditOK
<1>20. ASSUME s \in Http PROVE RequestOK(s)' /\ ResponseOK(s)'
  <2>1. \A d \in End : Has("end", s, d)' = Has("end", s, d) BY <1>7 DEF Has
  <2>2. e = "host" => user'["host"][s] = "retired" BY <1>11
  <2>3. e = "client" => user'["client"][s] = "failed" BY <1>11
  <2>4. RequestOK(s)'
    <3>1. CASE e = "host"
      BY <1>7, <1>9, <1>14, <1>16, <1>20, <2>1, <2>2, <3>1, Ends DEF RequestOK
    <3>2. CASE e = "client"
      <4>1. p.queue = 0 /\ (p.ended <=> m.ended) /\ p.known = "gone" /\ (m.ended => m.queue = 0)
        BY <1>3, <1>14, <1>20, <3>2 DEF RequestOK
      <4> QED BY <1>7, <1>9, <1>11, <1>14, <1>16, <1>20, <2>1, <3>2, <4>1, Ends DEF RequestOK
    <3> QED BY <3>1, <3>2, Ends
  <2>5. ResponseOK(s)'
    <3>1. CASE e = "client"
      BY <1>7, <1>9, <1>11, <1>14, <1>16, <1>20, <2>1, <2>3, <3>1, Ends DEF ResponseOK
    <3>2. CASE e = "host"
      <4>1. p.queue = 0 /\ (p.ended <=> m.ended) /\ (p.ending <=> m.ending) /\ p.known = "gone"
            /\ (m.ended => m.queue = 0)
        BY <1>3, <1>14, <1>20, <3>2 DEF ResponseOK
      <4> QED BY <1>7, <1>9, <1>11, <1>14, <1>16, <1>20, <2>1, <2>2, <3>2, <4>1, Ends DEF ResponseOK
    <3> QED BY <3>1, <3>2, Ends
  <2> QED BY <2>4, <2>5
<1> QED BY <1>12, <1>13, <1>17, <1>18, <1>19, <1>20, OneStream DEF StreamOK, Http

\* A stream that is opened with the frames it can send at once.
LEMMA OpenStep ==
  ASSUME MuxIInv, NEW s \in Stream, mux["client"][s].known = "new", live["client"],
         NEW r \in StreamState, NEW rest, NEW w \in Nat, NEW u,
         AllOf(s, rest), EndsLast(s, rest),
         r.known = "open", ~r.peerEnded, r.ended => r.ending,
         r.credit + Count("data", s, rest) = Window, Count("window", s, rest) = 0,
         \/ s \in Ws /\ s \notin Http /\ u = "open" /\ ~r.ending
         \/ /\ s \in Http /\ s \notin Ws /\ u = "pending"
            /\ r.ending /\ (r.ended => r.queue = 0)
            /\ Count("end", s, rest) > 0 => r.ended
            /\ Count("data", s, rest) + r.queue = w,
         mux' = [mux EXCEPT !["client"][s] = r],
         wire' = Carried("client", <<Frame("open", s)>> \o rest),
         user' = [user EXCEPT !["client"][s] = u],
         written' = [written EXCEPT !["client"][s] = w],
         UNCHANGED <<live, got, answer, mix>>
  PROVE  MuxIInv'
<1>1. MuxTypeOK /\ StreamOK(s) BY DEF MuxIInv
<1>2. /\ UnopenedOK(s) /\ UsersOK(s)
      /\ s \in Http => RequestOK(s) /\ ResponseOK(s)
  BY <1>1 DEF StreamOK
<1>3. /\ \A e \in End : /\ mux[e][s] = Fresh /\ user[e][s] = "none"
                        /\ written[e][s] = 0 /\ got[e][s] = 0
      /\ \A e \in End, type \in FrameType : Count(type, s, wire[e]) = 0
  BY <1>2 DEF UnopenedOK
<1> DEFINE fr == <<Frame("open", s)>> \o rest
<1>4. rest \in Seq(Packet) /\ \A type : Count(type, s, rest) \in Nat
  <2>1. rest \in Seq(Packet) BY SeqMonotonic DEF AllOf
  <2> QED BY <2>1, CountIsNat
<1>5. AllOf(s, <<Frame("open", s)>>) /\ <<Frame("open", s)>> \in Seq(Packet)
  <2>1. AllOf(s, <<Frame("open", s)>>) BY AllOfOne DEF FrameType
  <2>2. Frame("open", s) \in Packet BY DEF Packet, FrameType, Frame
  <2> QED BY <2>1, <2>2
<1>6. AllOf(s, fr) /\ fr \in Seq(Packet) BY <1>4, <1>5, AllOfConcat, ConcatProperties
<1>7. \A type : Count(type, s, fr) = (IF type = "open" THEN 1 ELSE 0) + Count(type, s, rest)
  <2>1. \A type : Count(type, s, <<Frame("open", s)>>) = IF type = "open" THEN 1 ELSE 0
    BY CountOne
  <2>2. \A type : Count(type, s, <<Frame("open", s)>> \o rest)
                     = Count(type, s, <<Frame("open", s)>>) + Count(type, s, rest)
    BY <1>4, <1>5, CountConcat, ZenonT(40)
  <2> HIDE DEF fr
  <2>3. \A type : Count(type, s, fr) = Count(type, s, <<Frame("open", s)>>) + Count(type, s, rest)
    BY <2>2 DEF fr
  <2> QED BY <2>1, <2>3
<1>8. OpensFirst(s, fr) /\ EndsLast(s, fr)
  <2>1. OpensFirst(s, <<Frame("open", s)>>) BY DEF OpensFirst, Frame
  <2>2. EndsLast(s, <<Frame("open", s)>>) BY DEF EndsLast, Frame
  <2>3. /\ Count("open", s, <<Frame("open", s)>>) = 1 /\ Count("end", s, <<Frame("open", s)>>) = 0
    BY CountOne
  <2>4. OpensFirst(s, <<Frame("open", s)>> \o rest)
    <3>1. Count("open", s, <<Frame("open", s)>>) > 0 BY <2>3
    <3> HIDE DEF fr
    <3> QED BY <1>4, <1>5, <2>1, <3>1, OrderConcat
  <2>5. EndsLast(s, <<Frame("open", s)>> \o rest)
    BY <1>4, <1>5, <2>2, <2>3, OrderConcat
  <2> QED BY <2>4, <2>5
<1>9. wire' = Carried("client", fr) OBVIOUS
<1> HIDE DEF fr
<1>10. /\ wire' \in [End -> Seq(Packet)]
       /\ wire'["client"] = wire["client"] \o fr /\ wire'["host"] = wire["host"]
       /\ \A type : Count(type, s, wire'["client"])
                      = Count(type, s, wire["client"]) + Count(type, s, fr)
       /\ \A t \in Stream : t # s => SameFrames(t)
  <2>1. "client" \in End /\ Other("client") = "host" BY Ends
  <2> QED BY <1>1, <1>6, <1>9, <2>1, Emission
<1>11. /\ Count("data", s, wire'["client"]) = Count("data", s, rest)
       /\ Count("end", s, wire'["client"]) = Count("end", s, rest)
       /\ Count("window", s, wire'["client"]) = 0
       /\ Count("open", s, wire'["client"]) > 0
       /\ \A type \in FrameType : Count(type, s, wire'["host"]) = 0
  <2>1. \A type \in FrameType :
           Count(type, s, wire'["client"]) = (IF type = "open" THEN 1 ELSE 0) + Count(type, s, rest)
    <3>1. \A type \in FrameType : Count(type, s, wire["client"]) = 0 BY <1>3, Ends
    <3>2. \A type : Count(type, s, fr) \in Nat BY <1>6, CountIsNat
    <3> QED BY <1>7, <1>10, <3>1, <3>2
  <2>2. \A type \in FrameType : Count(type, s, wire'["host"]) = 0 BY <1>3, <1>10, Ends
  <2>3. /\ "data" \in FrameType /\ "end" \in FrameType
        /\ "window" \in FrameType /\ "open" \in FrameType
    BY DEF FrameType
  <2> QED BY <1>4, <2>1, <2>2, <2>3
<1>12. OpensFirst(s, wire'["client"]) /\ (s \in Http => EndsLast(s, wire'["client"]))
  <2>1. wire["client"] \in Seq(Packet) BY <1>1 DEF MuxTypeOK, End
  <2>2. OpensFirst(s, wire["client"]) BY <1>2, <1>3, Ends DEF UsersOK, Fresh
  <2>3. s \in Http => EndsLast(s, wire["client"]) BY <1>2 DEF RequestOK
  <2>4. Count("end", s, wire["client"]) = 0 BY <1>3, Ends DEF FrameType
  <2> QED BY <1>6, <1>8, <1>10, <2>1, <2>2, <2>3, <2>4, OrderConcat
<1>13. /\ mux' \in [End -> [Stream -> StreamState]] /\ mux'["client"][s] = r
       /\ mux'["host"][s] = Fresh
       /\ \A d \in End, t \in Stream : t # s => mux'[d][t] = mux[d][t]
  BY <1>1, <1>3, Ends DEF MuxTypeOK
<1>14. /\ user' \in [End -> [Stream -> MuxUser]] /\ user'["client"][s] = u
       /\ user'["host"][s] = "none"
       /\ \A d \in End, t \in Stream : t # s => user'[d][t] = user[d][t]
  <2>1. u \in MuxUser BY DEF MuxUser
  <2> QED BY <1>1, <1>3, <2>1, Ends DEF MuxTypeOK
<1>15. /\ written' \in [End -> [Stream -> Nat]] /\ written'["client"][s] = w
       /\ written'["host"][s] = 0
       /\ \A d \in End, t \in Stream : t # s => written'[d][t] = written[d][t]
  BY <1>1, <1>3, Ends DEF MuxTypeOK
<1>16. MuxTypeOK' BY <1>1, <1>10, <1>13, <1>14, <1>15 DEF MuxTypeOK
<1>17. \A t \in Stream : t # s => SameFrames(t) /\ SameStream(t)
  BY <1>10, <1>13, <1>14, <1>15 DEF SameStream
<1>18. UnopenedOK(s)' BY <1>13 DEF UnopenedOK
<1>19. Fresh.known = "new" /\ Fresh.credit = Window /\ Fresh.queue = 0
       /\ ~Fresh.ended /\ ~Fresh.ending
  BY DEF Fresh
<1>20. UsersOK(s)'
  BY <1>2, <1>11, <1>12, <1>13, <1>14, <1>19, Ends
  DEF UsersOK, Active, ActiveBridge, Http, Ws
<1>21. CreditOK(s)'
  <2>1. Credit("client", s)' = Window
    BY <1>4, <1>11, <1>13, Ends DEF Credit, FrameType, StreamState
  <2>2. Credit("host", s)' = Window
    <3>1. Window \in Nat BY <1>19, <1>3, <1>1, Ends DEF MuxTypeOK, StreamState
    <3> QED BY <1>11, <1>13, <1>19, <3>1, Ends DEF Credit, FrameType
  <2>3. Window \in Nat BY MuxAssumption
  <2> QED BY <2>1, <2>2, <2>3, Ends DEF CreditOK
<1>22. ASSUME s \in Http PROVE RequestOK(s)' /\ ResponseOK(s)'
  <2>1. /\ u = "pending" /\ r.ending /\ (r.ended => r.queue = 0)
        /\ Count("end", s, rest) > 0 => r.ended
        /\ Count("data", s, rest) + r.queue = w
    BY <1>22
  <2>2. got'["host"][s] = 0 /\ got'["client"][s] = 0 BY <1>3, Ends
  <2>3. RequestOK(s)'
    <3>1. r.queue \in Nat /\ Count("data", s, rest) \in Nat BY <1>4 DEF StreamState
    <3> QED BY <1>11, <1>12, <1>13, <1>14, <1>15, <1>22, <2>1, <2>2, <3>1 DEF RequestOK, Has
  <2>4. EndsLast(s, wire'["host"]) BY <1>2, <1>10, <1>22 DEF ResponseOK
  <2>5. ResponseOK(s)'
    BY <1>11, <1>13, <1>14, <1>15, <1>19, <1>22, <2>1, <2>2, <2>4
    DEF ResponseOK, Has, FrameType
  <2> QED BY <2>3, <2>5
<1> QED BY <1>16, <1>17, <1>18, <1>20, <1>21, <1>22, OneStream DEF StreamOK, Http

\* What happens to the user of an open bridge while the stream stays as it is.
LEMMA BridgeMovesOn ==
  ASSUME MuxIInv, NEW s \in Stream, NEW q, NEW u,
         \/ q = <<>> /\ user["host"][s] = "dialing" /\ u = "open" /\ answer' = answer
         \/ /\ q = <<Frame("head", s)>> /\ user["host"][s] = "fetching" /\ u = "answering"
            /\ \E n \in Nat : answer' = [answer EXCEPT ![s] = n],
         SetStream("host", s, mux["host"][s], q),
         user' = [user EXCEPT !["host"][s] = u],
         UNCHANGED <<live, written, got, mix>>
  PROVE  MuxIInv'
<1>1. MuxTypeOK /\ StreamOK(s) BY DEF MuxIInv
<1>2. /\ UnopenedOK(s) /\ UsersOK(s) /\ CreditOK(s)
      /\ s \in Http => RequestOK(s) /\ ResponseOK(s)
  BY <1>1 DEF StreamOK
<1>3. live["host"] /\ mux["host"][s].known = "open" /\ ~mux["host"][s].ending
      /\ ~mux["host"][s].ended
  BY <1>2, Ends DEF UsersOK, Active, ActiveBridge
<1>4. /\ AllOf(s, q) /\ q \in Seq(Packet) /\ EndsLast(s, q)
      /\ \A type \in FrameType \ {"head"} : Count(type, s, q) = 0
  <2>1. AllOf(s, q) BY AllOfOne DEF FrameType
  <2>2. q \in Seq(Packet) BY <2>1, SeqMonotonic DEF AllOf
  <2>3. EndsLast(s, q) BY DEF EndsLast, Frame
  <2> QED BY <2>1, <2>2, <2>3, CountOne, CountNone
<1>5. /\ wire' \in [End -> Seq(Packet)]
      /\ wire'["host"] = wire["host"] \o q /\ wire'["client"] = wire["client"]
      /\ \A type : Count(type, s, wire'["host"])
                      = Count(type, s, wire["host"]) + Count(type, s, q)
      /\ \A d \in End : \A type : Count(type, s, wire[d]) \in Nat
      /\ \A t \in Stream : t # s => SameFrames(t)
  BY <1>1, <1>3, <1>4, Emission, Ends DEF SetStream
<1>6. \A e \in End : /\ Count("data", s, wire'[e]) = Count("data", s, wire[e])
                     /\ Count("end", s, wire'[e]) = Count("end", s, wire[e])
                     /\ Count("window", s, wire'[e]) = Count("window", s, wire[e])
  <2>1. \A type \in {"data", "end", "window"} :
          Count(type, s, wire'["host"]) = Count(type, s, wire["host"])
    <3>1. \A type : Count(type, s, wire["host"]) \in Nat BY <1>5, Ends
    <3> QED BY <1>4, <1>5, <3>1 DEF FrameType
  <2> QED BY <1>5, <2>1, Ends
<1>7. mux' = mux BY <1>1 DEF SetStream, MuxTypeOK
<1>8. /\ user' \in [End -> [Stream -> MuxUser]] /\ user'["host"][s] = u
      /\ user'["client"][s] = user["client"][s]
      /\ \A d \in End, t \in Stream : t # s => user'[d][t] = user[d][t]
  <2>1. u \in MuxUser BY DEF MuxUser
  <2> QED BY <1>1, <2>1, Ends DEF MuxTypeOK
<1>9. /\ answer' \in [Stream -> Nat \cup {NoAnswer}]
      /\ \A t \in Stream : t # s => answer'[t] = answer[t]
  BY <1>1, SMTT(30) DEF MuxTypeOK
<1>10. MuxTypeOK' BY <1>1, <1>5, <1>7, <1>8, <1>9 DEF MuxTypeOK
<1>11. \A t \in Stream : t # s => SameFrames(t) /\ SameStream(t)
  BY <1>5, <1>7, <1>8, <1>9 DEF SameStream
<1>12. mux["client"][s].known # "new" BY <1>2, <1>3, Ends DEF UnopenedOK, Fresh
<1>13. UnopenedOK(s)' BY <1>7, <1>12 DEF UnopenedOK
<1>14. UsersOK(s)'
  BY <1>2, <1>3, <1>5, <1>7, <1>8, Ends DEF UsersOK, Active, ActiveBridge, Http, Ws
<1>15. CreditOK(s)'
  <2>1. \A e \in End : Credit(e, s)' = Credit(e, s) BY <1>6, <1>7, Ends DEF Credit
  <2>2. \A e \in End : Reads(e, s)' <=> Reads(e, s) BY <1>8, Ends DEF Reads
  <2> QED BY <1>2, <1>7, <2>1, <2>2, Ends DEF CreditOK
<1>16. ASSUME s \in Http PROVE RequestOK(s)' /\ ResponseOK(s)'
  <2>1. \A e \in End : EndsLast(s, wire'[e])
    <3>1. EndsLast(s, wire["host"]) /\ EndsLast(s, wire["client"])
      BY <1>2, <1>16 DEF RequestOK, ResponseOK
    <3>2. wire["host"] \in Seq(Packet) BY <1>1 DEF MuxTypeOK, End
    <3>3. EndsLast(s, wire["host"] \o q) BY <1>4, <3>1, <3>2, OrderConcat DEF FrameType
    <3> QED BY <1>5, <3>1, <3>3, Ends
  <2>2. \A e \in End : Has("end", s, e)' = Has("end", s, e) BY <1>6 DEF Has
  <2>3. user["host"][s] = "fetching" /\ u = "answering" BY <1>2, <1>16 DEF UsersOK
  <2>4. RequestOK(s)'
    BY <1>2, <1>6, <1>7, <1>8, <1>16, <2>1, <2>2, <2>3, Ends DEF RequestOK
  <2>5. user["client"][s] # "ok" /\ ~Has("end", s, "host")
    BY <1>2, <1>3, <1>16, <2>3 DEF ResponseOK
  <2>6. ResponseOK(s)'
    BY <1>2, <1>3, <1>6, <1>7, <1>8, <1>16, <2>1, <2>2, <2>3, <2>5, Ends DEF ResponseOK
  <2> QED BY <2>4, <2>6
<1> QED BY <1>10, <1>11, <1>13, <1>14, <1>15, <1>16, OneStream DEF StreamOK, Http

-----------------------------------------------------------------------------
(* The steps of receivePacket().                                           *)

\* The frame f has left the wire for the end e, which answers with the frames q.
Arrived(e, f, q) ==
  /\ f \in Packet /\ wire' \in [End -> Seq(Packet)]
  /\ wire'[e] = wire[e] \o q /\ wire'[Other(e)] = Tail(wire[Other(e)])
  /\ \A type : Count(type, f.id, wire'[e]) = Count(type, f.id, wire[e]) + Count(type, f.id, q)
  /\ \A type : Count(type, f.id, wire[Other(e)])
                 = (IF f.type = type THEN 1 ELSE 0) + Count(type, f.id, wire'[Other(e)])
  /\ \A d \in End : \A type : /\ Count(type, f.id, wire[d]) \in Nat
                              /\ Count(type, f.id, wire'[d]) \in Nat
  /\ EndsLast(f.id, wire[Other(e)]) => EndsLast(f.id, wire'[Other(e)])
  /\ OpensFirst(f.id, wire[Other(e)]) => f = Frame("open", f.id)
  /\ EndsLast(f.id, wire[Other(e)]) /\ f.type = "end" =>
       Count("data", f.id, wire'[Other(e)]) = 0
  /\ \A t \in Stream : t # f.id => SameFrames(t)

LEMMA Reception ==
  ASSUME MuxTypeOK, NEW e \in End, wire[Other(e)] # <<>>, NEW q,
         AllOf(Head(wire[Other(e)]).id, q),
         wire' = [wire EXCEPT ![Other(e)] = Tail(@), ![e] = @ \o q]
  PROVE  Arrived(e, Head(wire[Other(e)]), q)
<1> DEFINE o == Other(e)
           f == Head(wire[o])
           s == f.id
<1>1. /\ o \in End /\ o # e /\ \A d \in End : d = e \/ d = o
  BY Ends
<1>2. /\ wire[o] \in Seq(Packet) /\ wire[e] \in Seq(Packet)
      /\ f \in Packet /\ Tail(wire[o]) \in Seq(Packet)
  BY <1>1, HeadTailProperties DEF MuxTypeOK
<1>3. q \in Seq(Packet) BY <1>2, SeqMonotonic DEF AllOf
<1>4. wire[e] \o q \in Seq(Packet) BY <1>2, <1>3, ConcatProperties
<1>5. wire' = [wire EXCEPT ![o] = Tail(@), ![e] = @ \o q] /\ wire[o] # <<>> /\ AllOf(s, q)
  OBVIOUS
<1> HIDE DEF o
<1>6. /\ wire' \in [End -> Seq(Packet)] /\ wire'[e] = wire[e] \o q /\ wire'[o] = Tail(wire[o])
  <2> DEFINE back == Tail(wire[o])
             more == wire[e] \o q
  <2>1. wire \in [End -> Seq(Packet)]
    BY DEF MuxTypeOK
  <2>2. wire' = [wire EXCEPT ![o] = back, ![e] = more]
    BY <1>5
  <2>3. back \in Seq(Packet) /\ more \in Seq(Packet)
    BY <1>2, <1>4
  <2> HIDE DEF back, more
  <2>4. wire' \in [End -> Seq(Packet)] /\ wire'[o] = back /\ wire'[e] = more
    BY <1>1, <2>1, <2>2, <2>3
  <2> QED BY <2>4 DEF back, more
<1>7. f = Frame(f.type, s) /\ \A type, t : f = Frame(type, t) <=> type = f.type /\ t = s
  BY <1>2 DEF Packet, Frame
<1> HIDE DEF f
<1>8. \A type, t : Count(type, t, wire[o])
                     = (IF f = Frame(type, t) THEN 1 ELSE 0) + Count(type, t, wire'[o])
  BY <1>2, <1>5, <1>6, CountHead DEF f
<1>9. \A type, t : Count(type, t, wire'[e]) = Count(type, t, wire[e]) + Count(type, t, q)
  BY <1>2, <1>3, <1>6, CountConcat
<1>10. \A d \in End : \A type, t :
         Count(type, t, wire[d]) \in Nat /\ Count(type, t, wire'[d]) \in Nat
  BY <1>6, CountIsNat DEF MuxTypeOK
<1>11. \A t : /\ EndsLast(t, wire[o]) => EndsLast(t, wire'[o])
              /\ OpensFirst(t, wire[o]) /\ s # t => OpensFirst(t, wire'[o])
              /\ OpensFirst(t, wire[o]) /\ s = t => f = Frame("open", t)
              /\ EndsLast(t, wire[o]) /\ f = Frame("end", t) => Count("data", t, wire[o]) = 0
  BY <1>2, <1>5, <1>6, OrderTail DEF f
<1>12. ASSUME NEW t \in Stream, t # s PROVE SameFrames(t)
  <2>1. (\A type : Count(type, t, q) = 0) /\ OpensFirst(t, q) /\ EndsLast(t, q)
    BY <1>5, <1>12, AllOfElsewhere
  <2>2. /\ EndsLast(t, wire[e]) => EndsLast(t, wire'[e])
        /\ OpensFirst(t, wire[e]) => OpensFirst(t, wire'[e])
    BY <1>2, <1>3, <1>6, <2>1, OrderConcat
  <2>3. \A type : /\ Count(type, t, wire'[e]) = Count(type, t, wire[e])
                  /\ Count(type, t, wire'[o]) = Count(type, t, wire[o])
    <3> SUFFICES ASSUME NEW type
                 PROVE  /\ Count(type, t, wire'[e]) = Count(type, t, wire[e])
                        /\ Count(type, t, wire'[o]) = Count(type, t, wire[o])
      OBVIOUS
    <3>1. f # Frame(type, t) BY <1>7, <1>12
    <3>2. Count(type, t, wire'[o]) \in Nat /\ Count(type, t, wire[e]) \in Nat BY <1>1, <1>10
    <3>3. Count(type, t, wire[o]) = 0 + Count(type, t, wire'[o]) BY <1>8, <3>1
    <3>4. Count(type, t, wire'[e]) = Count(type, t, wire[e]) + 0 BY <1>9, <2>1
    <3> QED BY <3>2, <3>3, <3>4
  <2> QED BY <1>1, <1>11, <1>12, <2>2, <2>3 DEF SameFrames
<1>13. EndsLast(s, wire[o]) /\ f.type = "end" => Count("data", s, wire'[o]) = 0
  <2> SUFFICES ASSUME EndsLast(s, wire[o]), f.type = "end"
               PROVE  Count("data", s, wire'[o]) = 0
    OBVIOUS
  <2>1. f = Frame("end", s) BY <1>7
  <2>2. f # Frame("data", s) BY <1>7
  <2>3. Count("data", s, wire[o]) = 0 BY <1>11, <2>1
  <2>4. Count("data", s, wire'[o]) \in Nat BY <1>1, <1>10
  <2>5. Count("data", s, wire[o]) = 0 + Count("data", s, wire'[o]) BY <1>8, <2>2
  <2> QED BY <2>3, <2>4, <2>5
<1>14. \A type : Count(type, s, wire[o])
                   = (IF f.type = type THEN 1 ELSE 0) + Count(type, s, wire'[o])
  BY <1>7, <1>8
<1>15. f.id = s BY DEF s
<1> HIDE DEF s
<1>16. Arrived(e, f, q)
  BY <1>2, <1>6, <1>9, <1>10, <1>11, <1>12, <1>13, <1>14, <1>15 DEF Arrived, o
<1> QED BY <1>16 DEF f, o

\* A frame of a stream is for an end that knows the stream, or has forgotten it,
\* or is to be told of it now.
LEMMA Addressed ==
  ASSUME MuxIInv, NEW e \in End, NEW f, NEW q, Arrived(e, f, q)
  PROVE  /\ f \in Packet /\ f.id \in Stream /\ f.type \in FrameType
         /\ mux["client"][f.id].known # "new"
         /\ mux[e][f.id].known = "new" => e = "host" /\ f.type = "open"
         /\ MuxTypeOK /\ StreamOK(f.id)
<1>1. f \in Packet BY DEF Arrived
<1>2. f.id \in Stream /\ f.type \in FrameType BY <1>1 DEF Packet
<1>3. MuxTypeOK /\ StreamOK(f.id) BY <1>2 DEF MuxIInv
<1>4. mux["client"][f.id].known # "new"
  <2>1. Count(f.type, f.id, wire[Other(e)]) = 1 + Count(f.type, f.id, wire'[Other(e)])
        /\ Count(f.type, f.id, wire'[Other(e)]) \in Nat
    BY Ends DEF Arrived
  <2>2. mux["client"][f.id].known = "new" => Count(f.type, f.id, wire[Other(e)]) = 0
    BY <1>2, <1>3, Ends DEF StreamOK, UnopenedOK
  <2> QED BY <2>1, <2>2
<1>5. mux[e][f.id].known = "new" => e = "host" /\ f.type = "open"
  <2> SUFFICES ASSUME mux[e][f.id].known = "new" PROVE e = "host" /\ f.type = "open"
    OBVIOUS
  <2>1. e = "host" BY <1>4, Ends
  <2>2. OpensFirst(f.id, wire["client"]) BY <1>3, <2>1 DEF StreamOK, UsersOK
  <2>3. f = Frame("open", f.id) BY <2>1, <2>2, Ends DEF Arrived
  <2> QED BY <2>1, <2>3 DEF Frame
<1> QED BY <1>1, <1>2, <1>3, <1>4, <1>5

LEMMA DropStep ==
  ASSUME MuxIInv, NEW e \in End, NEW f, Arrived(e, f, <<>>), wire'[e] = wire[e],
         mux[e][f.id].known # "open" \/ f.type = "head",
         ~(f.type = "open" /\ mux[e][f.id].known = "new"),
         UNCHANGED <<mux, user, got, live, written, answer, mix>>
  PROVE  MuxIInv'
<1> DEFINE s == f.id
           o == Other(e)
<1>1. /\ f \in Packet /\ s \in Stream /\ mux["client"][s].known # "new"
      /\ mux[e][s].known # "new" /\ MuxTypeOK /\ StreamOK(s)
  BY Addressed
<1>2. /\ UnopenedOK(s) /\ UsersOK(s) /\ CreditOK(s)
      /\ s \in Http => RequestOK(s) /\ ResponseOK(s)
  BY <1>1 DEF StreamOK
<1>3. o \in End /\ o # e /\ Other(o) = e BY Ends
<1>4. /\ wire' \in [End -> Seq(Packet)]
      /\ \A type : Count(type, s, wire[o])
                     = (IF f.type = type THEN 1 ELSE 0) + Count(type, s, wire'[o])
      /\ \A d \in End : \A type : /\ Count(type, s, wire[d]) \in Nat
                                  /\ Count(type, s, wire'[d]) \in Nat
      /\ EndsLast(s, wire[o]) => EndsLast(s, wire'[o])
      /\ \A t \in Stream : t # s => SameFrames(t)
  BY DEF Arrived
<1> HIDE DEF s, o
<1>5. \A d \in End : /\ Count("end", s, wire'[d]) <= Count("end", s, wire[d])
                     /\ f.type = "head" =>
                          /\ Count("data", s, wire'[d]) = Count("data", s, wire[d])
                          /\ Count("end", s, wire'[d]) = Count("end", s, wire[d])
                          /\ Count("open", s, wire'[d]) = Count("open", s, wire[d])
                          /\ Count("window", s, wire'[d]) = Count("window", s, wire[d])
  <2> SUFFICES ASSUME NEW d \in End
               PROVE  /\ Count("end", s, wire'[d]) <= Count("end", s, wire[d])
                      /\ f.type = "head" =>
                          /\ Count("data", s, wire'[d]) = Count("data", s, wire[d])
                          /\ Count("end", s, wire'[d]) = Count("end", s, wire[d])
                          /\ Count("open", s, wire'[d]) = Count("open", s, wire[d])
                          /\ Count("window", s, wire'[d]) = Count("window", s, wire[d])
    OBVIOUS
  <2>1. CASE d = e BY <1>4, <2>1
  <2>2. CASE d = o
    <3>1. \A type : Count(type, s, wire'[o]) \in Nat BY <1>3, <1>4
    <3>2. \A type : f.type # type => Count(type, s, wire'[o]) = Count(type, s, wire[o])
      BY <1>4, <3>1
    <3>3. Count("end", s, wire'[o]) <= Count("end", s, wire[o])
      BY <1>4, <3>1
    <3> QED BY <2>2, <3>2, <3>3
  <2> QED BY <1>3, <2>1, <2>2, Ends
<1>6. MuxTypeOK' BY <1>1, <1>4 DEF MuxTypeOK
<1>7. \A t \in Stream : t # s => SameFrames(t) /\ SameStream(t) BY <1>4 DEF SameStream
<1>8. \A d \in End : EndsLast(s, wire[d]) => EndsLast(s, wire'[d])
  <2>1. \A d \in End : d = e \/ d = o BY <1>3, Ends
  <2> QED BY <1>4, <2>1
<1>9. UnopenedOK(s)' BY <1>1 DEF UnopenedOK
<1>10. UsersOK(s)'
  <2>1. mux["host"][s].known = "new" => wire'["client"] = wire["client"] BY <1>1, Ends
  <2> QED BY <1>2, <2>1 DEF UsersOK, Active, Http, Ws
<1>11. CreditOK(s)'
  <2>1. CASE f.type = "head"
    <3>1. \A d \in End : Credit(d, s)' = Credit(d, s) BY <1>5, <2>1, Ends DEF Credit
    <3> QED BY <1>2, <3>1 DEF CreditOK, Reads
  <2>2. CASE mux[e][s].known = "gone" BY <2>2, Ends DEF CreditOK
  <2>3. mux[e][s].known = "gone" \/ f.type = "head"
    <3>1. mux[e][s].known \in {"new", "open", "gone"} BY <1>1 DEF MuxTypeOK, StreamState
    <3> QED BY <1>1, <3>1 DEF s
  <2> QED BY <2>1, <2>2, <2>3
<1>12. ASSUME s \in Http PROVE RequestOK(s)' /\ ResponseOK(s)'
  <2>1. \A d \in End : Has("end", s, d)' => Has("end", s, d)
    BY <1>4, <1>5 DEF Has
  <2>2. CASE f.type = "head"
    <3>1. RequestOK(s)' BY <1>2, <1>5, <1>8, <1>12, <2>1, <2>2, Ends DEF RequestOK
    <3>2. ResponseOK(s)' BY <1>2, <1>5, <1>8, <1>12, <2>1, <2>2, Ends DEF ResponseOK
    <3> QED BY <3>1, <3>2
  <2>3. CASE f.type # "head" /\ e = "host"
    <3>1. mux["host"][s].known = "gone"
      <4>1. mux["host"][s].known \in {"new", "open", "gone"}
        BY <1>1, Ends DEF MuxTypeOK, StreamState
      <4> QED BY <1>1, <2>3, <4>1 DEF s
    <3>2. user["host"][s] \notin {"none", "reading", "fetching", "answering"}
      BY <1>2, <3>1 DEF UsersOK, Active, ActiveBridge
    <3>3. RequestOK(s)' BY <1>2, <1>8, <1>12, <2>1, <3>2, Ends DEF RequestOK
    <3>4. ResponseOK(s)' BY <1>2, <1>12, <2>3, Ends DEF ResponseOK, Has
    <3> QED BY <3>3, <3>4
  <2>4. CASE f.type # "head" /\ e = "client"
    <3>1. user["client"][s] # "pending" BY <1>2, <2>4 DEF UsersOK, s
    <3>2. RequestOK(s)' BY <1>2, <1>12, <2>4, Ends DEF RequestOK, Has
    <3>3. ResponseOK(s)' BY <1>2, <1>8, <1>12, <2>1, <3>1, Ends DEF ResponseOK
    <3> QED BY <3>2, <3>3
  <2> QED BY <2>2, <2>3, <2>4, Ends
<1> QED BY <1>1, <1>6, <1>7, <1>9, <1>10, <1>11, <1>12, OneStream DEF StreamOK, Http

\* What the frame leaves on both wires of its stream, when no frame answers it.
LEMMA NoAnswerCounts ==
  ASSUME NEW e \in End, NEW f, Arrived(e, f, <<>>), wire'[e] = wire[e]
  PROVE  /\ wire' \in [End -> Seq(Packet)]
         /\ \A d \in End : EndsLast(f.id, wire[d]) => EndsLast(f.id, wire'[d])
         /\ \A d \in End : \A type : /\ Count(type, f.id, wire[d]) \in Nat
                                     /\ Count(type, f.id, wire'[d]) \in Nat
         /\ \A d \in End : \A type :
              Count(type, f.id, wire[d]) = (IF d = Other(e) /\ f.type = type THEN 1 ELSE 0)
                                             + Count(type, f.id, wire'[d])
<1>1. \A d \in End : d = e \/ d = Other(e) BY Ends
<1>2. /\ wire' \in [End -> Seq(Packet)]
      /\ \A d \in End : \A type : /\ Count(type, f.id, wire[d]) \in Nat
                                  /\ Count(type, f.id, wire'[d]) \in Nat
      /\ EndsLast(f.id, wire[Other(e)]) => EndsLast(f.id, wire'[Other(e)])
      /\ \A type : Count(type, f.id, wire[Other(e)])
                     = (IF f.type = type THEN 1 ELSE 0) + Count(type, f.id, wire'[Other(e)])
  BY DEF Arrived
<1>3. e # Other(e) BY Ends
<1> QED BY <1>1, <1>2, <1>3

LEMMA HandleOpenStep ==
  ASSUME MuxIInv, NEW e \in End, NEW f, Arrived(e, f, <<>>), wire'[e] = wire[e],
         f.type = "open", mux[e][f.id].known = "new", live[e], HandleOpen(e, f.id),
         UNCHANGED <<live, written, answer, mix>>
  PROVE  MuxIInv'
<1> DEFINE s == f.id
<1>1. /\ s \in Stream /\ mux["client"][s].known # "new" /\ e = "host"
      /\ MuxTypeOK /\ StreamOK(s)
  BY Addressed
<1>2. /\ UnopenedOK(s) /\ UsersOK(s) /\ CreditOK(s)
      /\ s \in Http => RequestOK(s) /\ ResponseOK(s)
  BY <1>1 DEF StreamOK
<1>3. /\ wire' \in [End -> Seq(Packet)]
      /\ \A d \in End : EndsLast(s, wire[d]) => EndsLast(s, wire'[d])
      /\ \A d \in End : \A type : /\ Count(type, s, wire[d]) \in Nat
                                  /\ Count(type, s, wire'[d]) \in Nat
      /\ \A d \in End : \A type : Count(type, s, wire[d])
           = (IF d = Other(e) /\ f.type = type THEN 1 ELSE 0) + Count(type, s, wire'[d])
  BY NoAnswerCounts, ZenonT(40)
<1>4. \A t \in Stream : t # s => SameFrames(t) BY DEF Arrived
<1>5. \A d \in End : /\ Count("data", s, wire'[d]) = Count("data", s, wire[d])
                     /\ Count("end", s, wire'[d]) = Count("end", s, wire[d])
                     /\ Count("window", s, wire'[d]) = Count("window", s, wire[d])
  <2>1. \A d \in End : \A type : type # "open" => Count(type, s, wire'[d]) = Count(type, s, wire[d])
    BY <1>3
  <2> QED BY <2>1
<1> DEFINE u == IF KindOf[s] = "ws" THEN "dialing" ELSE "reading"
           m == [Fresh EXCEPT !.known = "open"]
<1>6. /\ user' = [user EXCEPT !["host"][s] = u] /\ mux' = [mux EXCEPT !["host"][s] = m]
      /\ UNCHANGED <<got, live, written, answer, mix>>
  BY <1>1 DEF HandleOpen, SetUser
<1>7. /\ m \in StreamState /\ m.known = "open" /\ m.credit = Window /\ m.queue = 0
      /\ ~m.ending /\ ~m.ended /\ ~m.peerEnded
      /\ Fresh.credit = Window /\ Fresh.queue = 0 /\ mux["host"][s] = Fresh
      /\ Fresh.known = "new"
  BY <1>1, <1>2, MuxAssumption DEF Fresh, StreamState, UsersOK
<1>8. u \in MuxUser /\ u \in {"dialing", "reading"} /\ (s \in Http => u = "reading")
      /\ (s \in Ws => u = "dialing")
  BY <1>1 DEF MuxUser, Http, Ws
<1> HIDE DEF s, u, m
<1>9. /\ mux' \in [End -> [Stream -> StreamState]] /\ mux'["host"][s] = m
      /\ mux'["client"][s] = mux["client"][s]
      /\ \A d \in End, t \in Stream : t # s => mux'[d][t] = mux[d][t]
  BY <1>1, <1>6, <1>7, Ends DEF MuxTypeOK
<1>10. /\ user' \in [End -> [Stream -> MuxUser]] /\ user'["host"][s] = u
       /\ user'["client"][s] = user["client"][s]
       /\ \A d \in End, t \in Stream : t # s => user'[d][t] = user[d][t]
  BY <1>1, <1>6, <1>8, Ends DEF MuxTypeOK
<1>11. MuxTypeOK' BY <1>1, <1>3, <1>6, <1>9, <1>10 DEF MuxTypeOK
<1>12. \A t \in Stream : t # s => SameFrames(t) /\ SameStream(t)
  BY <1>4, <1>6, <1>9, <1>10 DEF SameStream
<1>13. UnopenedOK(s)' BY <1>1, <1>9 DEF UnopenedOK
<1>14. user["host"][s] = "none" BY <1>2, <1>7 DEF UsersOK
<1>15. UsersOK(s)'
  BY <1>1, <1>2, <1>6, <1>7, <1>8, <1>9, <1>10, Ends
  DEF UsersOK, Active, ActiveBridge, Http, Ws
<1>16. CreditOK(s)'
  <2>1. \A d \in End : Credit(d, s)' = Credit(d, s) BY <1>5, <1>7, <1>9, Ends DEF Credit
  <2>2. Reads("client", s)' <=> Reads("client", s) BY <1>10 DEF Reads
  <2> QED BY <1>2, <1>6, <1>7, <1>9, <2>1, <2>2, Ends DEF CreditOK
<1>17. ASSUME s \in Http PROVE RequestOK(s)' /\ ResponseOK(s)'
  <2>1. \A d \in End : Has("end", s, d)' = Has("end", s, d) BY <1>5 DEF Has
  <2>2. RequestOK(s)'
    BY <1>2, <1>3, <1>5, <1>6, <1>8, <1>9, <1>10, <1>14, <1>17, <2>1, Ends DEF RequestOK
  <2>3. user["client"][s] # "ok" /\ ~Has("end", s, "host")
    <3>1. ~Fresh.ended BY DEF Fresh
    <3> QED BY <1>2, <1>7, <1>14, <1>17, <3>1 DEF ResponseOK
  <2>4. ResponseOK(s)'
    BY <1>2, <1>3, <1>5, <1>6, <1>7, <1>9, <1>10, <1>17, <2>1, <2>3, Ends DEF ResponseOK
  <2> QED BY <2>2, <2>4
<1> QED BY <1>1, <1>11, <1>12, <1>13, <1>15, <1>16, <1>17, OneStream DEF StreamOK, Http

\* The wires of the stream of a frame that is answered with frames of its own.
LEMMA AnswerCounts ==
  ASSUME MuxTypeOK, NEW e \in End, NEW f, NEW q, Arrived(e, f, q), AllOf(f.id, q)
  PROVE  /\ wire' \in [End -> Seq(Packet)]
         /\ EndsLast(f.id, wire[Other(e)]) => EndsLast(f.id, wire'[Other(e)])
         /\ EndsLast(f.id, wire[e]) /\ EndsLast(f.id, q)
              /\ (Count("end", f.id, wire[e]) = 0 \/ Count("data", f.id, q) = 0)
              => EndsLast(f.id, wire'[e])
         /\ OpensFirst(f.id, wire[e]) /\ Count("open", f.id, wire[e]) > 0
              => OpensFirst(f.id, wire'[e])
         /\ \A d \in End : \A type : /\ Count(type, f.id, wire[d]) \in Nat
                                     /\ Count(type, f.id, wire'[d]) \in Nat
         /\ \A type : Count(type, f.id, wire'[Other(e)])
                        = Count(type, f.id, wire[Other(e)]) - (IF f.type = type THEN 1 ELSE 0)
         /\ \A type : Count(type, f.id, wire'[e])
                        = Count(type, f.id, wire[e]) + Count(type, f.id, q)
<1>1. /\ wire' \in [End -> Seq(Packet)]
      /\ \A d \in End : \A type : /\ Count(type, f.id, wire[d]) \in Nat
                                  /\ Count(type, f.id, wire'[d]) \in Nat
      /\ EndsLast(f.id, wire[Other(e)]) => EndsLast(f.id, wire'[Other(e)])
      /\ \A type : Count(type, f.id, wire[Other(e)])
                     = (IF f.type = type THEN 1 ELSE 0) + Count(type, f.id, wire'[Other(e)])
      /\ \A type : Count(type, f.id, wire'[e]) = Count(type, f.id, wire[e]) + Count(type, f.id, q)
      /\ wire'[e] = wire[e] \o q
  BY DEF Arrived
<1>2. \A type : Count(type, f.id, wire'[Other(e)])
                  = Count(type, f.id, wire[Other(e)]) - (IF f.type = type THEN 1 ELSE 0)
  <2>1. Other(e) \in End BY Ends
  <2>2. \A type : Count(type, f.id, wire'[Other(e)]) \in Nat BY <1>1, <2>1
  <2> QED BY <1>1, <2>2
<1>3. wire[e] \in Seq(Packet) /\ q \in Seq(Packet)
  BY SeqMonotonic DEF MuxTypeOK, AllOf
<1>4. /\ EndsLast(f.id, wire[e]) /\ EndsLast(f.id, q)
           /\ (Count("end", f.id, wire[e]) = 0 \/ Count("data", f.id, q) = 0)
           => EndsLast(f.id, wire[e] \o q)
      /\ OpensFirst(f.id, wire[e]) /\ Count("open", f.id, wire[e]) > 0
           => OpensFirst(f.id, wire[e] \o q)
  BY <1>3, OrderConcat
<1> QED BY <1>1, <1>2, <1>4

\* An END and a RESET: the user of the stream leaves it, or goes on to answer.
LEMMA SettleStep ==
  ASSUME MuxIInv, NEW e \in End, NEW f, NEW told, Arrived(e, f, told),
         mux[e][f.id].known = "open",
         \/ f.type = "end" /\ HandleEnd(e, f.id) /\ told = <<>>
         \/ f.type = "reset" /\ HandleReset(e, f.id) /\ told = <<>>
         \/ f.type = "data" /\ HandleReset(e, f.id) /\ told = <<Frame("reset", f.id)>>,
         UNCHANGED <<live, written, answer, mix>>
  PROVE  MuxIInv'
<1> DEFINE s == f.id
           v == user[e][s]
           u == IF f.type = "end" THEN UserEnded(e, s) ELSE UserReset(e, s)
           m == mux[e][s]
           p == IF f.type = "end" THEN Closed([m EXCEPT !.peerEnded = TRUE]) ELSE Destroyed(m)
<1>1. /\ s \in Stream /\ mux["client"][s].known # "new" /\ MuxTypeOK /\ StreamOK(s)
  BY Addressed
<1>2. /\ UnopenedOK(s) /\ UsersOK(s) /\ CreditOK(s)
      /\ s \in Http => RequestOK(s) /\ ResponseOK(s)
  BY <1>1 DEF StreamOK
<1>3. /\ AllOf(s, told) /\ EndsLast(s, told)
      /\ \A type : type # "reset" => Count(type, s, told) = 0
  <2>1. CASE told = <<>>
    <3>1. AllOf(s, <<Frame("reset", s)>>) /\ AllOf(s, <<>>) BY <1>1, AllOfOne DEF FrameType
    <3>2. EndsLast(s, told) BY <2>1 DEF EndsLast
    <3>3. \A type : Count(type, s, told) = 0 BY <2>1, CountNone
    <3> QED BY <2>1, <3>1, <3>2, <3>3
  <2>2. CASE told = <<Frame("reset", s)>>
    <3>1. AllOf(s, told) BY <1>1, <2>2, AllOfOne DEF FrameType
    <3>2. EndsLast(s, told) BY <2>2 DEF EndsLast, Frame
    <3>3. \A type : type # "reset" => Count(type, s, told) = 0 BY <2>2, CountOne
    <3> QED BY <3>1, <3>2, <3>3
  <2> QED BY <2>1, <2>2
<1>4. /\ \A t \in Stream : t # s => SameFrames(t)
      /\ EndsLast(s, wire[Other(e)]) /\ f.type = "end" =>
           Count("data", s, wire'[Other(e)]) = 0
  BY DEF Arrived
<1>5. /\ wire' \in [End -> Seq(Packet)]
      /\ \A d \in End : EndsLast(s, wire[d]) => EndsLast(s, wire'[d])
      /\ OpensFirst(s, wire[e]) /\ Count("open", s, wire[e]) > 0 => OpensFirst(s, wire'[e])
      /\ \A d \in End : \A type : /\ Count(type, s, wire[d]) \in Nat
                                  /\ Count(type, s, wire'[d]) \in Nat
      /\ \A d \in End : /\ Count("open", s, wire'[d]) = Count("open", s, wire[d])
                        /\ Count("window", s, wire'[d]) = Count("window", s, wire[d])
                        /\ Count("end", s, wire'[d]) <= Count("end", s, wire[d])
      /\ \A d \in End : d = e \/ f.type # "data" =>
            Count("data", s, wire'[d]) = Count("data", s, wire[d])
      /\ f.type = "end" => Count("end", s, wire[Other(e)]) > 0
      /\ Count("end", s, wire'[e]) = Count("end", s, wire[e])
  <2> DEFINE o == Other(e)
  <2>1. f.type \in {"end", "reset", "data"} OBVIOUS
  <2>2. /\ wire' \in [End -> Seq(Packet)]
        /\ EndsLast(s, wire[o]) => EndsLast(s, wire'[o])
        /\ EndsLast(s, wire[e]) /\ EndsLast(s, told)
             /\ (Count("end", s, wire[e]) = 0 \/ Count("data", s, told) = 0)
             => EndsLast(s, wire'[e])
        /\ OpensFirst(s, wire[e]) /\ Count("open", s, wire[e]) > 0
             => OpensFirst(s, wire'[e])
        /\ \A d \in End : \A type : /\ Count(type, s, wire[d]) \in Nat
                                    /\ Count(type, s, wire'[d]) \in Nat
        /\ \A type : Count(type, s, wire'[o])
                       = Count(type, s, wire[o]) - (IF f.type = type THEN 1 ELSE 0)
        /\ \A type : Count(type, s, wire'[e]) = Count(type, s, wire[e]) + Count(type, s, told)
    <3>1. MuxTypeOK /\ AllOf(f.id, told) BY <1>1, <1>3
    <3> QED BY <3>1, AnswerCounts, ZenonT(40)
  <2>3. o \in End /\ \A d \in End : d = e \/ d = o BY Ends
  <2> HIDE DEF s, o
  <2>4. \A type : type # "reset" => Count(type, s, wire'[e]) = Count(type, s, wire[e])
    <3>1. \A type : Count(type, s, wire[e]) \in Nat BY <2>2
    <3> QED BY <1>3, <2>2, <3>1
  <2>5. \A type : f.type # type => Count(type, s, wire'[o]) = Count(type, s, wire[o])
    <3>1. \A type : Count(type, s, wire[o]) \in Nat BY <2>2, <2>3
    <3>2. \A type : Count(type, s, wire'[o])
                       = Count(type, s, wire[o]) - (IF f.type = type THEN 1 ELSE 0)
      BY <2>2
    <3> QED BY <3>1, <3>2
  <2>6. /\ Count("end", s, wire'[o]) <= Count("end", s, wire[o])
        /\ f.type = "end" => Count("end", s, wire[o]) > 0
    <3>1. Count("end", s, wire'[o]) \in Nat /\ Count("end", s, wire[o]) \in Nat
      BY <2>2, <2>3
    <3>2. Count("end", s, wire'[o])
            = Count("end", s, wire[o]) - (IF f.type = "end" THEN 1 ELSE 0)
      BY <2>2
    <3> QED BY <3>1, <3>2
  <2>7. EndsLast(s, wire[e]) => EndsLast(s, wire'[e]) BY <1>3, <2>2
  <2>8. \A d \in End : EndsLast(s, wire[d]) => EndsLast(s, wire'[d]) BY <2>2, <2>3, <2>7
  <2>9. \A d \in End : /\ Count("open", s, wire'[d]) = Count("open", s, wire[d])
                       /\ Count("window", s, wire'[d]) = Count("window", s, wire[d])
    BY <2>1, <2>3, <2>4, <2>5
  <2>10. \A d \in End : d = e \/ f.type # "data" =>
            Count("data", s, wire'[d]) = Count("data", s, wire[d])
    BY <2>3, <2>4, <2>5
  <2>11. Count("end", s, wire'[e]) = Count("end", s, wire[e]) BY <2>4
  <2>12. \A d \in End : Count("end", s, wire'[d]) <= Count("end", s, wire[d])
    <3>1. Count("end", s, wire[e]) \in Nat BY <2>2
    <3>2. Count("end", s, wire'[e]) <= Count("end", s, wire[e]) BY <2>11, <3>1
    <3> QED BY <2>3, <2>6, <3>2
  <2>13. f.type = "end" => Count("end", s, wire[Other(e)]) > 0 BY <2>6 DEF o
  <2> QED BY <2>2, <2>8, <2>9, <2>10, <2>11, <2>12, <2>13
<1>6. /\ user' = [user EXCEPT ![e][s] = u] /\ mux' = [mux EXCEPT ![e][s] = p]
      /\ UNCHANGED <<got, live, written, answer, mix>> /\ f.type \in {"end", "reset", "data"}
  BY <1>1 DEF HandleReset, HandleEnd, SetUser, MuxTypeOK
<1>7. /\ p \in StreamState /\ p.known \in {"open", "gone"} /\ p.credit = m.credit
      /\ p.queue = (IF p.known = "gone" THEN 0 ELSE m.queue)
      /\ p.ending = m.ending /\ p.ended = m.ended
      /\ p.known = "gone" => f.type # "end" \/ p.ended
      /\ p.known # "gone" => f.type = "end"
      /\ m \in StreamState /\ m.known = "open"
  <2>1. m \in StreamState /\ m.known = "open" BY <1>1 DEF MuxTypeOK
  <2> DEFINE q == [m EXCEPT !.peerEnded = TRUE]
  <2>2. /\ q \in StreamState /\ q.known = "open" /\ q.credit = m.credit /\ q.queue = m.queue
        /\ q.ending = m.ending /\ q.ended = m.ended
    BY <2>1 DEF StreamState
  <2> HIDE DEF m, q
  <2>3. /\ Destroyed(m) \in StreamState /\ Destroyed(m).known = "gone"
        /\ Destroyed(m).credit = m.credit /\ Destroyed(m).queue = 0
        /\ Destroyed(m).ending = m.ending /\ Destroyed(m).ended = m.ended
    BY <2>1 DEF Destroyed, StreamState
  <2>4. /\ Closed(q) \in StreamState /\ Closed(q).known \in {"open", "gone"}
        /\ Closed(q).credit = q.credit
        /\ Closed(q).queue = (IF Closed(q).known = "gone" THEN 0 ELSE q.queue)
        /\ Closed(q).ending = q.ending /\ Closed(q).ended = q.ended
        /\ Closed(q).known = "gone" => q.ended
    BY <2>2 DEF Closed, Destroyed, StreamState
  <2>5. (f.type = "end" /\ p = Closed(q)) \/ (f.type # "end" /\ p = Destroyed(m)) BY DEF q
  <2> QED BY <2>1, <2>2, <2>3, <2>4, <2>5
<1>8. /\ e = "client" => v \in {"none", "open", "closed", "pending", "ok", "failed"}
      /\ e = "host" =>
            v \in {"none", "dialing", "open", "reading", "fetching", "answering", "retired"}
  <2>1. s \in Http \/ s \in Ws BY <1>1, MuxAssumption DEF Http, Ws
  <2> QED BY <1>2, <2>1 DEF UsersOK
<1>9. e = "client" =>
        /\ u \in MuxUser /\ u \notin {"open", "pending"}
        /\ u = "ok" => v = "ok" \/ (v = "pending" /\ f.type = "end")
        /\ u = v \/ (v = "open" /\ u = "closed") \/ (v = "pending" /\ u \in {"ok", "failed"})
  <2> SUFFICES ASSUME e = "client"
               PROVE  /\ u \in MuxUser /\ u \notin {"open", "pending"}
                      /\ u = "ok" => v = "ok" \/ (v = "pending" /\ f.type = "end")
                      /\ \/ u = v \/ (v = "open" /\ u = "closed")
                         \/ (v = "pending" /\ u \in {"ok", "failed"})
    OBVIOUS
  <2>1. v \in {"none", "open", "closed", "pending", "ok", "failed"} BY <1>8
  <2>2. UserEnded(e, s) = (IF v = "open" THEN "closed" ELSE IF v = "pending" THEN "ok" ELSE v)
    BY <2>1 DEF UserEnded
  <2>3. UserReset(e, s) = (IF v = "open" THEN "closed" ELSE IF v = "pending" THEN "failed" ELSE v)
    BY <2>1 DEF UserReset
  <2> HIDE DEF v
  <2> QED BY <2>1, <2>2, <2>3 DEF MuxUser
<1>10. e = "host" =>
         /\ u \in MuxUser /\ v # "none" /\ u # "none"
         /\ \/ u = v /\ f.type # "end" /\ u \notin ActiveBridge
            \/ u = v /\ f.type = "end" /\ u \notin {"dialing", "open", "reading"}
            \/ u = "retired"
            \/ u = "fetching" /\ v = "reading" /\ f.type = "end"
         /\ v = "retired" => u = "retired"
  <2> SUFFICES ASSUME e = "host"
               PROVE  /\ u \in MuxUser /\ v # "none" /\ u # "none"
                      /\ \/ u = v /\ f.type # "end" /\ u \notin ActiveBridge
                         \/ u = v /\ f.type = "end" /\ u \notin {"dialing", "open", "reading"}
                         \/ u = "retired"
                         \/ u = "fetching" /\ v = "reading" /\ f.type = "end"
                      /\ v = "retired" => u = "retired"
    OBVIOUS
  <2>1. v \in {"none", "dialing", "open", "reading", "fetching", "answering", "retired"} BY <1>8
  <2>2. v # "none" BY <1>1, <1>2 DEF UsersOK
  <2>3. UserEnded(e, s) = (IF v \in {"dialing", "open"} THEN "retired"
                           ELSE IF v = "reading" THEN "fetching" ELSE v)
    BY <2>1 DEF UserEnded
  <2>4. UserReset(e, s) = (IF v \in ActiveBridge THEN "retired" ELSE v)
    BY <2>1 DEF UserReset, Active, ActiveBridge
  <2> HIDE DEF v
  <2> QED BY <1>6, <2>1, <2>2, <2>3, <2>4 DEF MuxUser, ActiveBridge
<1> HIDE DEF s, u, m, p, v
<1>11. u \in MuxUser BY <1>9, <1>10, Ends
<1>12. /\ mux' \in [End -> [Stream -> StreamState]] /\ mux'[e][s] = p
       /\ mux'[Other(e)][s] = mux[Other(e)][s]
       /\ \A d \in End, t \in Stream : t # s => mux'[d][t] = mux[d][t]
  BY <1>1, <1>6, <1>7, Ends, SMTT(30) DEF MuxTypeOK
<1>13. /\ user' \in [End -> [Stream -> MuxUser]] /\ user'[e][s] = u
       /\ user'[Other(e)][s] = user[Other(e)][s]
       /\ \A d \in End, t \in Stream : t # s => user'[d][t] = user[d][t]
  BY <1>1, <1>6, <1>11, Ends, SMTT(30) DEF MuxTypeOK
<1>14. MuxTypeOK' BY <1>1, <1>5, <1>6, <1>12, <1>13 DEF MuxTypeOK
<1>15. \A t \in Stream : t # s => SameFrames(t) /\ SameStream(t)
  BY <1>4, <1>6, <1>12, <1>13 DEF SameStream
<1>16. UnopenedOK(s)' BY <1>1, <1>7, <1>12, Ends DEF UnopenedOK
<1>17. mux[e][s] = m /\ user[e][s] = v BY DEF m, v
<1>18. CASE e = "host"
  <2>1. v # "none" /\ (v \in ActiveBridge => ~m.ending) /\ live["host"] /\ (m.ended => m.ending)
    BY <1>2, <1>7, <1>10, <1>17, <1>18, Ends DEF UsersOK, Active
  <2>2. u \in ActiveBridge => p.known = "open" /\ ~p.ending
    BY <1>7, <1>10, <1>18, <2>1 DEF ActiveBridge
  <2>3. UsersOK(s)'
    <3>1. /\ s \in Http => u \in {"none", "reading", "fetching", "answering", "retired"}
          /\ s \in Ws => u \in {"none", "dialing", "open", "retired"}
      BY <1>2, <1>10, <1>17, <1>18 DEF UsersOK, Http, Ws
    <3>2. p.known # "new" /\ (p.ended => p.ending) BY <1>7, <2>1
    <3> QED
      BY <1>2, <1>5, <1>6, <1>10, <1>12, <1>13, <1>18, <2>1, <2>2, <3>1, <3>2, Ends
      DEF UsersOK, Active, Http, Ws
  <2>4. CreditOK(s)'
    <3>1. f.type # "data" => \A d \in End : Credit(d, s)' = Credit(d, s)
      BY <1>5, <1>7, <1>12, <1>17, <1>18, Ends DEF Credit
    <3>2. (Reads("host", s)' => Reads("host", s)) /\ (Reads("client", s)' => Reads("client", s))
      BY <1>10, <1>13, <1>17, <1>18, Ends DEF Reads, ActiveBridge
    <3>3. /\ mux'["host"][s].known # "new" /\ mux["host"][s].known # "gone"
          /\ mux'["client"][s] = mux["client"][s]
          /\ mux'["host"][s].known # "gone" => f.type # "data"
      BY <1>7, <1>12, <1>17, <1>18, Ends
    <3> QED BY <1>2, <1>6, <3>1, <3>2, <3>3, Ends DEF CreditOK
  <2>5. ASSUME s \in Http PROVE RequestOK(s)' /\ ResponseOK(s)'
    <3>1. /\ Has("end", s, "host")' <=> Has("end", s, "host")
          /\ Has("end", s, "client")' => Has("end", s, "client")
          /\ f.type = "end" => Has("end", s, "client")
      BY <1>5, <1>18, Ends DEF Has
    <3>2. u = "fetching" => got["host"][s] = written["client"][s]
      <4>1. CASE v = "fetching" BY <1>2, <1>17, <1>18, <2>5, <4>1 DEF RequestOK
      <4>2. CASE v = "reading" /\ f.type = "end"
        <5>1. /\ Has("end", s, "client") /\ user["host"][s] = "reading"
          BY <1>17, <1>18, <3>1, <4>2
        <5>2. /\ got["host"][s] + Count("data", s, wire["client"]) + mux["client"][s].queue
                   = written["client"][s]
              /\ mux["client"][s].queue = 0 /\ EndsLast(s, wire["client"])
          BY <1>2, <2>5, <5>1 DEF RequestOK
        <5>3. Count("data", s, wire["client"]) = 0
          BY <1>4, <1>5, <1>18, <4>2, <5>2, Ends
        <5>4. got["host"][s] \in Nat BY <1>1, Ends DEF MuxTypeOK
        <5> QED BY <5>2, <5>3, <5>4
      <4> QED BY <1>10, <1>18, <4>1, <4>2 DEF ActiveBridge
    <3>3. u = "answering" => v = "answering" BY <1>10, <1>18
    <3>4. u \notin {"none", "reading"} BY <1>10, <1>18 DEF ActiveBridge
    <3>5. mux'["client"][s] = mux["client"][s] /\ user'["host"][s] = u
      BY <1>12, <1>13, <1>18, Ends
    <3>6. RequestOK(s)'
      BY <1>2, <1>5, <1>6, <1>17, <1>18, <2>5, <3>1, <3>2, <3>3, <3>4, <3>5, Ends
      DEF RequestOK
    <3>7. mux'["host"][s] = p /\ user'["client"][s] = user["client"][s] /\ mux["host"][s] = m
      BY <1>12, <1>13, <1>17, <1>18, Ends
    <3>8. p.ended => m.ended /\ m.queue = 0 /\ p.queue = 0 /\ u = "retired"
      BY <1>2, <1>7, <1>10, <1>17, <1>18, <2>5 DEF ResponseOK
    <3>9. user["host"][s] = "retired" => u = "retired" BY <1>10, <1>17, <1>18
    <3>10. p.ending => p.ended BY <1>2, <1>7, <1>17, <1>18, <2>5 DEF ResponseOK
    <3>11. /\ user["client"][s] = "pending"
           /\ p.known # "gone" \/ Has("end", s, "host")
           => got["client"][s] + Count("data", s, wire["host"]) + p.queue = written["host"][s]
      BY <1>2, <1>7, <1>17, <1>18, <2>5 DEF ResponseOK
    <3>12. /\ Has("end", s, "host") => p.ended /\ written["host"][s] = answer[s]
           /\ EndsLast(s, wire["host"])
           /\ user["client"][s] = "ok" =>
                /\ user["host"][s] = "retired" /\ got["client"][s] = answer[s]
                /\ answer[s] = written["host"][s]
      BY <1>2, <1>7, <1>17, <1>18, <2>5 DEF ResponseOK
    <3>13. /\ Count("data", s, wire'["host"]) = Count("data", s, wire["host"])
           /\ EndsLast(s, wire'["host"])
      BY <1>5, <1>18, <3>12, Ends
    <3>14. ResponseOK(s)'
      BY <1>6, <3>1, <3>5, <3>7, <3>8, <3>9, <3>10, <3>11, <3>12, <3>13, Ends
      DEF ResponseOK
    <3> QED BY <3>6, <3>14
  <2> QED BY <1>1, <1>14, <1>15, <1>16, <2>3, <2>4, <2>5, OneStream DEF StreamOK, Http
<1>19. CASE e = "client"
  <2>1. live["client"] /\ (m.ended => m.ending)
    BY <1>2, <1>7, <1>17, <1>19, Ends DEF UsersOK
  <2>2. UsersOK(s)'
    <3>1. /\ s \in Http => u \in {"none", "pending", "ok", "failed"}
          /\ s \in Ws => u \in {"none", "open", "closed"}
      BY <1>2, <1>9, <1>17, <1>19 DEF UsersOK, Http, Ws
    <3>2. (p.ended => p.ending) /\ (p.known = "open" => mux["client"][s].known = "open")
      BY <1>7, <1>17, <1>19, <2>1
    <3>3. mux'["host"][s].known = "new" => OpensFirst(s, wire'["client"])
      BY <1>2, <1>5, <1>7, <1>12, <1>17, <1>19, Ends DEF UsersOK
    <3> QED
      BY <1>2, <1>5, <1>6, <1>9, <1>12, <1>13, <1>19, <2>1, <3>1, <3>2, <3>3, Ends
      DEF UsersOK, Active, Http, Ws
  <2>3. CreditOK(s)'
    <3>1. f.type # "data" => \A d \in End : Credit(d, s)' = Credit(d, s)
      BY <1>5, <1>7, <1>12, <1>17, <1>19, Ends DEF Credit
    <3>2. (Reads("host", s)' => Reads("host", s)) /\ ~Reads("client", s)'
      BY <1>9, <1>13, <1>17, <1>19, Ends DEF Reads
    <3>3. /\ mux["client"][s].known = "open" /\ mux'["host"][s] = mux["host"][s]
          /\ mux'["client"][s].known = "open" => f.type # "data"
      BY <1>7, <1>12, <1>17, <1>19, Ends
    <3> QED BY <1>2, <1>6, <3>1, <3>2, <3>3, Ends DEF CreditOK
  <2>4. ASSUME s \in Http PROVE RequestOK(s)' /\ ResponseOK(s)'
    <3>1. /\ Has("end", s, "client")' <=> Has("end", s, "client")
          /\ Has("end", s, "host")' => Has("end", s, "host")
          /\ f.type = "end" => Has("end", s, "host")
      BY <1>5, <1>19, Ends DEF Has
    <3>2. mux'["client"][s] = p /\ user'["host"][s] = user["host"][s] /\ mux["client"][s] = m
          /\ mux'["host"][s] = mux["host"][s] /\ user'["client"][s] = u
      BY <1>12, <1>13, <1>17, <1>19, Ends
    <3>3. /\ p.known = "open" => p.ending
          /\ p.ended => m.ended /\ m.queue = 0 /\ p.queue = 0
          /\ Has("end", s, "client") => p.ended
      BY <1>2, <1>7, <1>17, <1>19, <2>4 DEF RequestOK
    <3>4. /\ user["host"][s] \in {"none", "reading"}
          /\ p.known # "gone" \/ Has("end", s, "client")
          => got["host"][s] + Count("data", s, wire["client"]) + p.queue = written["client"][s]
      BY <1>2, <1>7, <1>17, <1>19, <2>4, <3>3 DEF RequestOK
    <3>5. /\ EndsLast(s, wire["client"])
          /\ user["host"][s] \in {"fetching", "answering"} => got["host"][s] = written["client"][s]
      BY <1>2, <2>4 DEF RequestOK
    <3>5a. /\ Count("data", s, wire'["client"]) = Count("data", s, wire["client"])
           /\ EndsLast(s, wire'["client"])
      BY <1>5, <1>19, <3>5, Ends
    <3>6. RequestOK(s)'
      BY <1>6, <3>1, <3>2, <3>3, <3>4, <3>5, <3>5a, Ends DEF RequestOK
    <3>7. u = "ok" => /\ user["host"][s] = "retired" /\ got["client"][s] = answer[s]
                      /\ answer[s] = written["host"][s]
      <4>1. CASE v = "ok" BY <1>2, <1>17, <1>19, <2>4, <4>1 DEF ResponseOK
      <4>2. CASE v = "pending" /\ f.type = "end"
        <5>1. /\ Has("end", s, "host") /\ user["client"][s] = "pending"
          BY <1>17, <1>19, <3>1, <4>2
        <5>2. /\ got["client"][s] + Count("data", s, wire["host"]) + mux["host"][s].queue
                   = written["host"][s]
              /\ mux["host"][s].queue = 0 /\ EndsLast(s, wire["host"])
              /\ written["host"][s] = answer[s] /\ user["host"][s] = "retired"
          BY <1>2, <2>4, <5>1 DEF ResponseOK
        <5>3. Count("data", s, wire["host"]) = 0
          BY <1>4, <1>5, <1>19, <4>2, <5>2, Ends
        <5>4. got["client"][s] \in Nat BY <1>1, Ends DEF MuxTypeOK
        <5> QED BY <5>2, <5>3, <5>4
      <4> QED BY <1>9, <1>19, <4>1, <4>2
    <3>8. u # "pending" BY <1>9, <1>19
    <3>9. ResponseOK(s)'
      BY <1>2, <1>5, <1>6, <2>4, <3>1, <3>2, <3>7, <3>8, Ends DEF ResponseOK
    <3> QED BY <3>6, <3>9
  <2> QED BY <1>1, <1>14, <1>15, <1>16, <2>2, <2>3, <2>4, OneStream DEF StreamOK, Http
<1> QED BY <1>18, <1>19, Ends

LEMMA HandleDataStep ==
  ASSUME MuxIInv, NEW e \in End, NEW f, Arrived(e, f, Returned(e, f.id)),
         f.type = "data", mux[e][f.id].known = "open", HandleData(e, f.id),
         UNCHANGED <<live, written, answer, mix>>
  PROVE  MuxIInv'
<1> DEFINE s == f.id
           o == Other(e)
           q == Returned(e, s)
<1>1. /\ s \in Stream /\ mux["client"][s].known # "new" /\ MuxTypeOK /\ StreamOK(s)
  BY Addressed
<1>2. /\ UnopenedOK(s) /\ UsersOK(s) /\ CreditOK(s)
      /\ s \in Http => RequestOK(s) /\ ResponseOK(s)
  BY <1>1 DEF StreamOK
<1>3. /\ AllOf(s, q) /\ EndsLast(s, q) /\ Count("window", s, q) = (IF Reads(e, s) THEN 1 ELSE 0)
      /\ Count("data", s, q) = 0 /\ Count("end", s, q) = 0 /\ Count("open", s, q) = 0
  <2>1. AllOf(s, q) BY <1>1, AllOfOne DEF Returned, FrameType
  <2>2. EndsLast(s, q) BY DEF EndsLast, Frame, Returned
  <2> QED BY <2>1, <2>2, CountOne, CountNone DEF Returned
<1>4. /\ \A t \in Stream : t # s => SameFrames(t) BY DEF Arrived
<1>5. /\ wire' \in [End -> Seq(Packet)]
      /\ EndsLast(s, wire[o]) => EndsLast(s, wire'[o])
      /\ EndsLast(s, wire[e]) /\ EndsLast(s, q)
           /\ (Count("end", s, wire[e]) = 0 \/ Count("data", s, q) = 0)
           => EndsLast(s, wire'[e])
      /\ OpensFirst(s, wire[e]) /\ Count("open", s, wire[e]) > 0 => OpensFirst(s, wire'[e])
      /\ \A d \in End : \A type : /\ Count(type, s, wire[d]) \in Nat
                                  /\ Count(type, s, wire'[d]) \in Nat
      /\ \A type : Count(type, s, wire'[o])
                     = Count(type, s, wire[o]) - (IF f.type = type THEN 1 ELSE 0)
      /\ \A type : Count(type, s, wire'[e]) = Count(type, s, wire[e]) + Count(type, s, q)
  BY <1>1, <1>3, AnswerCounts
<1>6. /\ got' = IF Reads(e, s) THEN [got EXCEPT ![e][s] = @ + 1] ELSE got
      /\ UNCHANGED <<mux, user, live, written, answer, mix>>
  BY DEF HandleData
<1>7. f.type = "data" /\ mux[e][s].known = "open" OBVIOUS
<1>8. o \in End /\ o # e /\ Other(o) = e /\ \A d \in End : d = e \/ d = o BY Ends
<1> HIDE DEF s, o, q
<1>9. /\ Count("data", s, wire'[o]) = Count("data", s, wire[o]) - 1
      /\ Count("window", s, wire'[o]) = Count("window", s, wire[o])
      /\ Count("end", s, wire'[o]) = Count("end", s, wire[o])
      /\ Count("open", s, wire'[o]) = Count("open", s, wire[o])
  <2>1. \A type : Count(type, s, wire[o]) \in Nat BY <1>5, <1>8
  <2>2. \A type : f.type # type => Count(type, s, wire'[o]) = Count(type, s, wire[o])
    BY <1>5, <2>1
  <2>3. Count("data", s, wire'[o]) = Count("data", s, wire[o]) - 1 BY <1>5, <1>7
  <2>4. f.type # "window" /\ f.type # "end" /\ f.type # "open" BY <1>7
  <2> QED BY <2>2, <2>3, <2>4
<1>10. /\ Count("window", s, wire'[e])
            = Count("window", s, wire[e]) + (IF Reads(e, s) THEN 1 ELSE 0)
       /\ Count("data", s, wire'[e]) = Count("data", s, wire[e])
       /\ Count("end", s, wire'[e]) = Count("end", s, wire[e])
       /\ Count("open", s, wire'[e]) = Count("open", s, wire[e])
  <2>1. \A type : Count(type, s, wire[e]) \in Nat BY <1>5
  <2> QED BY <1>3, <1>5, <2>1
<1>11. \A d \in End : EndsLast(s, wire[d]) => EndsLast(s, wire'[d]) BY <1>3, <1>5, <1>8
<1>12. /\ got' \in [End -> [Stream -> Nat]]
       /\ got'[e][s] = got[e][s] + (IF Reads(e, s) THEN 1 ELSE 0)
       /\ got'[o][s] = got[o][s]
       /\ \A d \in End, t \in Stream : t # s => got'[d][t] = got[d][t]
  <2>1. got \in [End -> [Stream -> Nat]] BY <1>1 DEF MuxTypeOK
  <2>2. CASE Reads(e, s) BY <1>1, <1>6, <1>8, <2>1, <2>2
  <2>3. CASE ~Reads(e, s)
    <3>1. got[e][s] \in Nat BY <1>1, <2>1
    <3> QED BY <1>6, <2>1, <2>3, <3>1
  <2> QED BY <2>2, <2>3
<1>13. MuxTypeOK' BY <1>1, <1>5, <1>6, <1>12 DEF MuxTypeOK
<1>14. \A t \in Stream : t # s => SameFrames(t) /\ SameStream(t)
  BY <1>4, <1>6, <1>12 DEF SameStream
<1>15. UnopenedOK(s)' BY <1>1, <1>6 DEF UnopenedOK
<1>16. UsersOK(s)'
  <2>1. mux["host"][s].known = "new" =>
          /\ OpensFirst(s, wire'["client"])
          /\ Count("open", s, wire'["client"]) = Count("open", s, wire["client"])
    <3> SUFFICES ASSUME mux["host"][s].known = "new"
                 PROVE  /\ OpensFirst(s, wire'["client"])
                        /\ Count("open", s, wire'["client"]) = Count("open", s, wire["client"])
      OBVIOUS
    <3>1. e = "client" BY <1>7, Ends
    <3> QED BY <1>2, <1>5, <1>7, <1>10, <3>1 DEF UsersOK
  <2> QED BY <1>2, <1>6, <2>1 DEF UsersOK, Active, Http, Ws
<1>17. CreditOK(s)'
  <2>1. Credit(e, s)' = Credit(e, s) BY <1>6, <1>9, <1>10 DEF Credit, o
  <2>2. /\ Reads(e, s) => Credit(o, s)' = Credit(o, s)
        /\ ~Reads(e, s) => Credit(o, s)' = Credit(o, s) - 1
        /\ Credit(o, s) \in Nat
    <3>1. mux[o][s].credit \in Nat BY <1>1, <1>8 DEF MuxTypeOK, StreamState
    <3>2. Count("data", s, wire[o]) \in Nat /\ Count("window", s, wire[e]) \in Nat BY <1>5, <1>8
    <3>3. Credit(o, s) = mux[o][s].credit + Count("data", s, wire[o]) + Count("window", s, wire[e])
      BY <1>8 DEF Credit
    <3>4. Credit(o, s)'
            = mux[o][s].credit + Count("data", s, wire'[o]) + Count("window", s, wire'[e])
      BY <1>6, <1>8 DEF Credit
    <3> QED BY <1>9, <1>10, <3>1, <3>2, <3>3, <3>4
  <2>3. \A d \in End : Reads(d, s)' <=> Reads(d, s) BY <1>6 DEF Reads
  <2>4. ASSUME mux["client"][s].known = "open", mux["host"][s].known # "gone",
               NEW d \in End
        PROVE  /\ Credit(d, s)' <= Window
               /\ /\ live["client"] /\ live["host"]
                  /\ Reads(Other(d), s) \/ (d = "client" /\ mux["host"][s].known = "new")
                  => Credit(d, s)' = Window
    <3>1. /\ Credit(d, s) <= Window
          /\ /\ live["client"] /\ live["host"]
             /\ Reads(Other(d), s) \/ (d = "client" /\ mux["host"][s].known = "new")
             => Credit(d, s) = Window
      BY <1>2, <2>4 DEF CreditOK
    <3>2. CASE d = e BY <2>1, <3>1, <3>2
    <3>3. CASE d = o
      <4>1. d = "client" => mux["host"][s].known # "new" BY <1>7, <1>8, <3>3, Ends
      <4>2. Window \in Nat BY MuxAssumption
      <4> QED BY <1>8, <2>2, <3>1, <3>3, <4>1, <4>2
    <3> QED BY <1>8, <3>2, <3>3
  <2> QED BY <1>6, <2>3, <2>4, Ends DEF CreditOK
<1>18. ASSUME s \in Http PROVE RequestOK(s)' /\ ResponseOK(s)'
  <2>1. \A d \in End : Has("end", s, d)' <=> Has("end", s, d) BY <1>8, <1>9, <1>10 DEF Has
  <2>2. \A d \in End : got[d][s] \in Nat /\ Count("data", s, wire[d]) \in Nat
    BY <1>1, <1>5 DEF MuxTypeOK
  <2>3. CASE e = "host"
    <3>1. user["host"][s] # "none" BY <1>2, <1>7, <2>3 DEF UsersOK
    <3>2. user["host"][s] = "reading" =>
            got'["host"][s] + Count("data", s, wire'["client"])
              = got["host"][s] + Count("data", s, wire["client"])
      BY <1>8, <1>9, <1>12, <2>2, <2>3, Ends DEF Reads
    <3>3. user["host"][s] \in {"fetching", "answering"} => got'["host"][s] = got["host"][s]
      BY <1>12, <2>2, <2>3, Ends DEF Reads
    <3>4. RequestOK(s)'
      BY <1>2, <1>6, <1>11, <1>18, <2>1, <3>1, <3>2, <3>3, Ends DEF RequestOK
    <3>5. got'["client"][s] = got["client"][s]
          /\ Count("data", s, wire'["host"]) = Count("data", s, wire["host"])
      BY <1>8, <1>10, <1>12, <2>3, Ends
    <3>6. ResponseOK(s)' BY <1>2, <1>6, <1>11, <1>18, <2>1, <3>5, Ends DEF ResponseOK
    <3> QED BY <3>4, <3>6
  <2>4. CASE e = "client"
    <3>2. user["client"][s] = "pending" =>
            got'["client"][s] + Count("data", s, wire'["host"])
              = got["client"][s] + Count("data", s, wire["host"])
      BY <1>8, <1>9, <1>12, <2>2, <2>4, Ends DEF Reads
    <3>3. user["client"][s] = "ok" => got'["client"][s] = got["client"][s]
      BY <1>12, <2>2, <2>4, Ends DEF Reads
    <3>4. ResponseOK(s)'
      BY <1>2, <1>6, <1>11, <1>18, <2>1, <3>2, <3>3, Ends DEF ResponseOK
    <3>5. got'["host"][s] = got["host"][s]
          /\ Count("data", s, wire'["client"]) = Count("data", s, wire["client"])
      BY <1>8, <1>10, <1>12, <2>4, Ends
    <3>6. RequestOK(s)' BY <1>2, <1>6, <1>11, <1>18, <2>1, <3>5, Ends DEF RequestOK
    <3> QED BY <3>4, <3>6
  <2> QED BY <2>3, <2>4, Ends
<1> QED BY <1>1, <1>13, <1>14, <1>15, <1>16, <1>17, <1>18, OneStream DEF StreamOK, Http

LEMMA HandleWindowStep ==
  ASSUME MuxIInv, NEW e \in End, NEW f,
         Arrived(e, f, PumpedFrames(f.id, Granted(mux[e][f.id]))),
         f.type = "window", mux[e][f.id].known = "open", HandleWindow(e, f.id),
         UNCHANGED <<live, written, answer, mix>>
  PROVE  MuxIInv'
<1> DEFINE s == f.id
           o == Other(e)
           m == mux[e][s]
           r == Granted(m)
           p == Pumped(r)
           q == PumpedFrames(s, r)
           k == Sendable(r)
<1>1. /\ s \in Stream /\ mux["client"][s].known # "new" /\ MuxTypeOK /\ StreamOK(s)
  BY Addressed
<1>2. /\ UnopenedOK(s) /\ UsersOK(s) /\ CreditOK(s)
      /\ s \in Http => RequestOK(s) /\ ResponseOK(s)
  BY <1>1 DEF StreamOK
<1>3. m \in StreamState /\ m.known = "open" BY <1>1 DEF MuxTypeOK
<1>4. /\ r \in StreamState /\ r.known = "open" /\ r.queue = m.queue /\ r.credit = m.credit + 1
      /\ r.ending = m.ending /\ r.ended = m.ended /\ r.peerEnded = m.peerEnded
  <2> HIDE DEF m
  <2>1. m.credit + 1 \in Nat /\ r = [m EXCEPT !.credit = m.credit + 1]
    BY <1>3 DEF Granted, StreamState
  <2> HIDE DEF r
  <2> QED BY <1>3, <2>1 DEF StreamState
<1>5. /\ mux' = [mux EXCEPT ![e][s] = p] /\ UNCHANGED <<user, got, live, written, answer, mix>>
      /\ Arrived(e, f, q)
  BY <1>1 DEF HandleWindow, MuxTypeOK
<1> HIDE DEF r
<1>6. /\ k \in Nat /\ k <= r.queue /\ k <= r.credit
      /\ EndsNow(r) \in BOOLEAN
      /\ EndsNow(r) => k = r.queue /\ r.ending /\ ~r.ended
      /\ p \in StreamState /\ p.known \in {"open", "gone"}
      /\ p.known = "gone" => p.ended /\ r.peerEnded
      /\ p.credit = r.credit - k
      /\ p.queue = IF p.known = "gone" THEN 0 ELSE r.queue - k
      /\ p.ending = r.ending /\ p.peerEnded = r.peerEnded
      /\ (p.ended <=> r.ended \/ EndsNow(r))
  BY <1>1, <1>4, PumpFacts
<1>7. /\ AllOf(s, q)
      /\ Count("data", s, q) = k
      /\ Count("end", s, q) = IF EndsNow(r) THEN 1 ELSE 0
      /\ \A type \in FrameType \ {"data", "end"} : Count(type, s, q) = 0
      /\ EndsLast(s, q)
  BY <1>1, <1>4, PumpedFrameFacts
<1> HIDE DEF p, q, k, m
<1>8. /\ \A t \in Stream : t # s => SameFrames(t) BY DEF Arrived
<1>9. /\ wire' \in [End -> Seq(Packet)]
      /\ EndsLast(s, wire[o]) => EndsLast(s, wire'[o])
      /\ EndsLast(s, wire[e]) /\ EndsLast(s, q)
           /\ (Count("end", s, wire[e]) = 0 \/ Count("data", s, q) = 0)
           => EndsLast(s, wire'[e])
      /\ OpensFirst(s, wire[e]) /\ Count("open", s, wire[e]) > 0 => OpensFirst(s, wire'[e])
      /\ \A d \in End : \A type : /\ Count(type, s, wire[d]) \in Nat
                                  /\ Count(type, s, wire'[d]) \in Nat
      /\ \A type : Count(type, s, wire'[o])
                     = Count(type, s, wire[o]) - (IF f.type = type THEN 1 ELSE 0)
      /\ \A type : Count(type, s, wire'[e]) = Count(type, s, wire[e]) + Count(type, s, q)
  <2>1. MuxTypeOK /\ Arrived(e, f, q) /\ AllOf(f.id, q) BY <1>1, <1>5, <1>7
  <2> QED BY <2>1, AnswerCounts, ZenonT(40)
<1>10. f.type = "window" /\ mux[e][s] = m BY DEF m
<1>11. o \in End /\ o # e /\ Other(o) = e /\ \A d \in End : d = e \/ d = o BY Ends
<1> HIDE DEF s, o
<1>12. /\ Count("window", s, wire'[o]) = Count("window", s, wire[o]) - 1
       /\ Count("data", s, wire'[o]) = Count("data", s, wire[o])
       /\ Count("end", s, wire'[o]) = Count("end", s, wire[o])
       /\ Count("open", s, wire'[o]) = Count("open", s, wire[o])
  <2>1. \A type : Count(type, s, wire[o]) \in Nat BY <1>9, <1>11
  <2>2. \A type : f.type # type => Count(type, s, wire'[o]) = Count(type, s, wire[o])
    BY <1>9, <2>1
  <2>3. Count("window", s, wire'[o]) = Count("window", s, wire[o]) - 1 BY <1>9, <1>10
  <2>4. f.type # "data" /\ f.type # "end" /\ f.type # "open" BY <1>10
  <2> QED BY <2>2, <2>3, <2>4
<1>13. /\ Count("data", s, wire'[e]) = Count("data", s, wire[e]) + k
       /\ Count("end", s, wire'[e]) = Count("end", s, wire[e]) + (IF EndsNow(r) THEN 1 ELSE 0)
       /\ Count("window", s, wire'[e]) = Count("window", s, wire[e])
       /\ Count("open", s, wire'[e]) = Count("open", s, wire[e])
  <2>1. \A type : Count(type, s, wire[e]) \in Nat BY <1>9
  <2>2. Count("window", s, q) = 0 /\ Count("open", s, q) = 0 BY <1>7 DEF FrameType
  <2> QED BY <1>7, <1>9, <2>1, <2>2, SMTT(30)
<1>14. /\ mux' \in [End -> [Stream -> StreamState]] /\ mux'[e][s] = p
       /\ mux'[o][s] = mux[o][s]
       /\ \A d \in End, t \in Stream : t # s => mux'[d][t] = mux[d][t]
  BY <1>1, <1>5, <1>6, <1>11 DEF MuxTypeOK
<1>15. MuxTypeOK' BY <1>1, <1>5, <1>9, <1>14 DEF MuxTypeOK
<1>16. \A t \in Stream : t # s => SameFrames(t) /\ SameStream(t)
  BY <1>5, <1>8, <1>14 DEF SameStream
<1>17. UnopenedOK(s)'
  <2>1. e = "client" \/ o = "client" BY <1>11, Ends
  <2> QED BY <1>1, <1>6, <1>14, <2>1 DEF UnopenedOK
<1>18. UsersOK(s)'
  <2>1. (p.ended => p.ending) /\ p.known # "new" /\ live[e] /\ (m.ended => m.ending)
    BY <1>2, <1>3, <1>4, <1>6, <1>10 DEF UsersOK
  <2>2. CASE e = "client"
    <3>1. o = "host" /\ user'["client"] = user["client"] /\ user'["host"] = user["host"]
      BY <1>5, <2>2, Ends DEF o
    <3>2. mux["host"][s].known = "new" =>
            OpensFirst(s, wire'["client"]) /\ Count("open", s, wire'["client"]) > 0
      BY <1>2, <1>3, <1>9, <1>10, <1>13, <2>2 DEF UsersOK
    <3>3. user["client"][s] = "open" => p.known = "open" /\ ~p.ending
      BY <1>2, <1>4, <1>6, <1>10, <2>1, <2>2 DEF UsersOK
    <3>4. user["client"][s] = "pending" => p.known = "open" /\ ~p.peerEnded
      BY <1>2, <1>4, <1>6, <1>10, <2>2 DEF UsersOK
    <3> QED
      BY <1>2, <1>5, <1>14, <2>1, <2>2, <3>1, <3>2, <3>3, <3>4, Ends
      DEF UsersOK, Active, Http, Ws
  <2>3. CASE e = "host"
    <3>1. o = "client" BY <2>3, Ends DEF o
    <3>2. user["host"][s] \in ActiveBridge => p.known = "open" /\ ~p.ending
      BY <1>2, <1>4, <1>6, <1>10, <2>1, <2>3 DEF UsersOK, Active
    <3>3. user["host"][s] # "none" BY <1>2, <1>3, <1>10, <2>3 DEF UsersOK
    <3> QED
      BY <1>2, <1>5, <1>14, <2>1, <2>3, <3>1, <3>2, <3>3, Ends
      DEF UsersOK, Active, Http, Ws
  <2> QED BY <2>2, <2>3, Ends
<1>19. CreditOK(s)'
  <2>1. Credit(e, s)' = Credit(e, s)
    <3>1. /\ m.credit \in Nat /\ k \in Nat /\ p.credit = m.credit + 1 - k
          /\ Count("data", s, wire[e]) \in Nat /\ Count("window", s, wire[o]) \in Nat
      <4>1. m.credit \in Nat BY <1>3 DEF StreamState
      <4>2. Count("data", s, wire[e]) \in Nat /\ Count("window", s, wire[o]) \in Nat
        BY <1>9, <1>11
      <4> QED BY <1>4, <1>6, <4>1, <4>2
    <3>2. Credit(e, s) = m.credit + Count("data", s, wire[e]) + Count("window", s, wire[o])
      BY <1>10 DEF Credit, o
    <3>3. Credit(e, s)' = p.credit + Count("data", s, wire'[e]) + Count("window", s, wire'[o])
      BY <1>14 DEF Credit, o
    <3>4. /\ Count("data", s, wire'[e]) = Count("data", s, wire[e]) + k
          /\ Count("window", s, wire'[o]) = Count("window", s, wire[o]) - 1
      BY <1>12, <1>13
    <3> QED BY <3>1, <3>2, <3>3, <3>4
  <2>2. Credit(o, s)' = Credit(o, s)
    BY <1>11, <1>12, <1>13, <1>14 DEF Credit
  <2>3. \A d \in End : (Reads(d, s)' <=> Reads(d, s)) /\ Credit(d, s)' = Credit(d, s)
    BY <1>5, <1>11, <2>1, <2>2 DEF Reads
  <2>4. /\ mux'["client"][s].known = "open" => mux["client"][s].known = "open"
        /\ mux'["host"][s].known # "gone" => mux["host"][s].known # "gone"
        /\ mux'["host"][s].known = "new" => mux["host"][s].known = "new"
    <3>1. (e = "client" /\ o = "host") \/ (e = "host" /\ o = "client") BY Ends DEF o
    <3> QED BY <1>3, <1>6, <1>10, <1>14, <3>1
  <2> QED BY <1>2, <1>5, <2>3, <2>4, Ends DEF CreditOK
<1>20. ASSUME s \in Http PROVE RequestOK(s)' /\ ResponseOK(s)'
  <2>1. Has("end", s, o)' <=> Has("end", s, o) BY <1>12 DEF Has
  <2>2. Has("end", s, e)' => Has("end", s, e) \/ EndsNow(r)
    <3>1. Count("end", s, wire[e]) \in Nat BY <1>9
    <3> QED BY <1>13, <3>1 DEF Has
  <2>3. ASSUME m.ended => m.queue = 0, Has("end", s, e) => m.ended, EndsLast(s, wire[e])
        PROVE  /\ p.ended => p.queue = 0
               /\ k + p.queue = m.queue
               /\ EndsLast(s, wire'[e])
               /\ Has("end", s, e)' => p.ended
    <3>1. m.queue \in Nat /\ p.queue \in Nat /\ r.queue = m.queue
      <4>1. m.queue \in Nat BY <1>3 DEF StreamState
      <4>2. p.queue \in Nat
        <5>1. p \in StreamState BY <1>6
        <5> QED BY <5>1 DEF StreamState
      <4> QED BY <1>4, <4>1, <4>2
    <3>2. p.ended => k = m.queue
      <4>1. EndsNow(r) => k = m.queue BY <1>6, <3>1
      <4>2. r.ended => k = m.queue
        <5>1. r.ended => m.queue = 0 BY <1>4, <2>3
        <5> QED BY <1>6, <3>1, <5>1
      <4> QED BY <1>6, <4>1, <4>2
    <3>3. p.queue = m.queue - k
      BY <1>6, <3>1, <3>2
    <3>4. Count("end", s, wire[e]) = 0 \/ Count("data", s, q) = 0
      <4>1. Count("end", s, wire[e]) \in Nat BY <1>9
      <4>2. Has("end", s, e) => k = 0 BY <1>6, <2>3, <3>1
      <4> QED BY <1>7, <4>1, <4>2 DEF Has
    <3>5. EndsLast(s, wire'[e]) BY <1>7, <1>9, <2>3, <3>4
    <3>6. Has("end", s, e)' => p.ended BY <1>4, <1>6, <2>2, <2>3
    <3> QED BY <1>6, <3>1, <3>2, <3>3, <3>5, <3>6
  <2>4. CASE e = "client"
    <3>1. o = "host" BY <2>4, Ends DEF o
    <3>2. /\ m.ended => m.queue = 0
          /\ Has("end", s, e) => m.ended
          /\ EndsLast(s, wire[e])
      BY <1>2, <1>10, <1>20, <2>4 DEF RequestOK
    <3>3. /\ p.ended => p.queue = 0
          /\ k + p.queue = m.queue
          /\ EndsLast(s, wire'[e])
          /\ Has("end", s, e)' => p.ended
      BY <2>3, <3>2
    <3>4. p.ending
      BY <1>2, <1>3, <1>4, <1>6, <1>10, <1>20, <2>4 DEF RequestOK
    <3>5. user["host"][s] \in {"none", "reading"} =>
            got["host"][s] + Count("data", s, wire["client"]) + m.queue = written["client"][s]
      BY <1>2, <1>3, <1>10, <1>20, <2>4 DEF RequestOK
    <3>6. user["host"][s] \in {"none", "reading"} =>
            got["host"][s] + Count("data", s, wire'["client"]) + p.queue = written["client"][s]
      <4>1. got["host"][s] \in Nat /\ Count("data", s, wire["client"]) \in Nat
        BY <1>1, <1>9, Ends DEF MuxTypeOK
      <4>2. m.queue \in Nat BY <1>3 DEF StreamState
      <4>3. p.queue \in Nat
        <5>1. p \in StreamState BY <1>6
        <5> QED BY <5>1 DEF StreamState
      <4> QED BY <1>6, <1>13, <2>4, <3>3, <3>5, <4>1, <4>2, <4>3
    <3>7. RequestOK(s)'
      BY <1>2, <1>5, <1>14, <1>20, <2>4, <3>3, <3>4, <3>6 DEF RequestOK
    <3>8. EndsLast(s, wire["host"]) => EndsLast(s, wire'["host"]) BY <1>9, <3>1
    <3>9. ResponseOK(s)'
      BY <1>2, <1>5, <1>12, <1>14, <1>20, <2>1, <3>1, <3>8 DEF ResponseOK
    <3> QED BY <3>7, <3>9
  <2>5. CASE e = "host"
    <3>1. o = "client" BY <2>5, Ends DEF o
    <3>2. /\ m.ended => m.queue = 0 /\ user["host"][s] = "retired"
          /\ m.ending => m.ended
          /\ Has("end", s, e) => m.ended /\ written["host"][s] = answer[s]
          /\ EndsLast(s, wire[e])
      BY <1>2, <1>10, <1>20, <2>5 DEF ResponseOK
    <3>3. /\ p.ended => p.queue = 0
          /\ k + p.queue = m.queue
          /\ EndsLast(s, wire'[e])
          /\ Has("end", s, e)' => p.ended
      BY <2>3, <3>2
    <3>4. ~EndsNow(r) /\ (p.ended <=> m.ended) /\ (p.ending <=> m.ending)
      BY <1>4, <1>6, <3>2
    <3>5. user["client"][s] = "pending" =>
            got["client"][s] + Count("data", s, wire["host"]) + m.queue = written["host"][s]
      BY <1>2, <1>3, <1>10, <1>20, <2>5 DEF ResponseOK
    <3>6. user["client"][s] = "pending" =>
            got["client"][s] + Count("data", s, wire'["host"]) + p.queue = written["host"][s]
      <4>1. got["client"][s] \in Nat /\ Count("data", s, wire["host"]) \in Nat
        <5>1. got["client"][s] \in Nat BY <1>1, Ends DEF MuxTypeOK
        <5> QED BY <1>9, <5>1, Ends
      <4>2. m.queue \in Nat BY <1>3 DEF StreamState
      <4>3. p.queue \in Nat
        <5>1. p \in StreamState BY <1>6
        <5> QED BY <5>1 DEF StreamState
      <4> QED BY <1>6, <1>13, <2>5, <3>3, <3>5, <4>1, <4>2, <4>3
    <3>7. Has("end", s, e)' => written["host"][s] = answer[s] BY <2>2, <3>2, <3>4
    <3>8. ResponseOK(s)'
      BY <1>2, <1>5, <1>14, <1>20, <2>5, <3>2, <3>3, <3>4, <3>6, <3>7 DEF ResponseOK
    <3>9. EndsLast(s, wire["client"]) => EndsLast(s, wire'["client"]) BY <1>9, <3>1
    <3>10. RequestOK(s)'
      BY <1>2, <1>5, <1>12, <1>14, <1>20, <2>1, <3>1, <3>9 DEF RequestOK
    <3> QED BY <3>8, <3>10
  <2> QED BY <2>4, <2>5, Ends
<1> QED BY <1>1, <1>15, <1>16, <1>17, <1>18, <1>19, <1>20, OneStream DEF StreamOK, Http

LEMMA ReceiveStep ==
  ASSUME MuxIInv, NEW e \in End, receivePacket(e)
  PROVE  MuxIInv'
<1> DEFINE o == Other(e)
           f == Head(wire[o])
           s == f.id
           m == mux[e][s]
           q == IF m.known = "open" THEN Replies(e, f) ELSE <<>>
<1>1. /\ live[e] /\ wire[o] # <<>>
      /\ wire' = [wire EXCEPT ![o] = Tail(@),
                              ![e] = IF m.known = "open" THEN @ \o Replies(e, f) ELSE @]
      /\ \/ f.type = "open" /\ m.known = "new" /\ HandleOpen(e, s)
         \/ m.known = "open" /\ f.type = "data" /\ ~TooLarge(e, s) /\ HandleData(e, s)
         \/ m.known = "open" /\ f.type = "data" /\ TooLarge(e, s) /\ HandleReset(e, s)
         \/ m.known = "open" /\ f.type = "window" /\ HandleWindow(e, s)
         \/ m.known = "open" /\ f.type = "end" /\ HandleEnd(e, s)
         \/ m.known = "open" /\ f.type = "reset" /\ HandleReset(e, s)
         \/ /\ (f.type # "open" /\ m.known # "open") \/ f.type = "head"
            /\ UNCHANGED <<mux, user, got>>
      /\ UNCHANGED <<live, written, answer, mix>>
  BY DEF receivePacket
<1>2. MuxTypeOK BY DEF MuxIInv
<1>3. o \in End /\ o # e BY Ends
<1>4. wire[e] \in Seq(Packet) /\ wire[o] \in Seq(Packet) BY <1>2, <1>3 DEF MuxTypeOK
<1>5. f \in Packet /\ s \in Stream
  <2>1. f \in Packet BY <1>1, <1>4, HeadTailProperties
  <2> QED BY <2>1, SMTT(30) DEF Packet
<1>6. m \in StreamState BY <1>2, <1>5 DEF MuxTypeOK
<1>7. /\ f.type = "data" /\ ~TooLarge(e, s) => Replies(e, f) = Returned(e, s)
      /\ f.type = "data" /\ TooLarge(e, s) => Replies(e, f) = <<Frame("reset", s)>>
      /\ f.type = "window" => Replies(e, f) = PumpedFrames(s, Granted(m))
      /\ f.type \notin {"data", "window"} => Replies(e, f) = <<>>
  BY DEF Replies
<1>8. AllOf(s, q)
  <2>1. AllOf(s, <<>>) /\ AllOf(s, Returned(e, s)) /\ AllOf(s, <<Frame("reset", s)>>)
    BY <1>5, AllOfOne DEF Returned, FrameType
  <2>2. m.known = "open" => AllOf(s, PumpedFrames(s, Granted(m)))
    <3>1. Granted(m) \in StreamState /\ Granted(m).known = m.known
      BY <1>6 DEF Granted, StreamState
    <3> HIDE DEF m, s
    <3> QED BY <1>5, <3>1, PumpedFrameFacts
  <2> HIDE DEF m, s, f
  <2> QED BY <1>7, <2>1, <2>2
<1>9. wire[e] \o <<>> = wire[e] BY <1>4, ConcatEmptySeq
<1>10. wire' = [wire EXCEPT ![o] = Tail(@), ![e] = @ \o q]
  <2> HIDE DEF o, f, m
  <2> QED BY <1>1, <1>3, <1>9 DEF q
<1>11. Arrived(e, f, q)
  <2> HIDE DEF q
  <2> QED BY <1>1, <1>2, <1>8, <1>10, Reception
<1>12. q = <<>> => wire'[e] = wire[e] /\ Arrived(e, f, <<>>)
  <2>1. wire'[e] = wire[e] \o q BY <1>11 DEF Arrived
  <2> HIDE DEF q
  <2> QED BY <1>9, <1>11, <2>1, SMTT(30)
<1>13. f.type \notin {"data", "window"} \/ m.known # "open" => q = <<>> BY <1>7
<1>14. /\ f.type = "data" /\ ~TooLarge(e, s) /\ m.known = "open" => q = Returned(e, s)
       /\ f.type = "data" /\ TooLarge(e, s) /\ m.known = "open" => q = <<Frame("reset", s)>>
       /\ f.type = "window" /\ m.known = "open" => q = PumpedFrames(s, Granted(m))
  BY <1>7
<1> HIDE DEF q, f
<1>15. CASE f.type = "open" /\ m.known = "new" /\ HandleOpen(e, s)
  BY <1>1, <1>12, <1>13, <1>15, HandleOpenStep
<1>16. CASE m.known = "open" /\ f.type = "data" /\ ~TooLarge(e, s) /\ HandleData(e, s)
  BY <1>1, <1>11, <1>14, <1>16, HandleDataStep
<1>17. CASE m.known = "open" /\ f.type = "window" /\ HandleWindow(e, s)
  BY <1>1, <1>11, <1>14, <1>17, HandleWindowStep
<1>18. CASE m.known = "open" /\ (\/ f.type = "end" /\ HandleEnd(e, s)
                                 \/ f.type = "reset" /\ HandleReset(e, s))
  <2>1. q = <<>> BY <1>13, <1>18
  <2> QED BY <1>1, <1>12, <1>18, <2>1, SettleStep
<1>20. CASE m.known = "open" /\ f.type = "data" /\ TooLarge(e, s) /\ HandleReset(e, s)
  BY <1>1, <1>11, <1>14, <1>20, SettleStep
<1>19. CASE ((f.type # "open" /\ m.known # "open") \/ f.type = "head")
            /\ UNCHANGED <<mux, user, got>>
  BY <1>1, <1>12, <1>13, <1>19, DropStep
<1> QED BY <1>1, <1>15, <1>16, <1>17, <1>18, <1>19, <1>20, SMTT(30)

-----------------------------------------------------------------------------
(* The end of a session.                                                   *)

LEMMA MuxInitially == MuxInit => MuxIInv
<1> SUFFICES ASSUME MuxInit PROVE MuxIInv OBVIOUS
<1>1. Fresh \in StreamState /\ Fresh.known = "new" /\ Fresh.credit = Window /\ Fresh.queue = 0
      /\ ~Fresh.ended /\ ~Fresh.ending
  BY MuxAssumption DEF Fresh, StreamState
<1>2. <<>> \in Seq(Packet) BY EmptySeq
<1>3. MuxTypeOK
  BY <1>1, <1>2, MuxAssumption DEF MuxInit, MuxTypeOK, MuxUser
<1>4. ASSUME NEW s \in Stream PROVE StreamOK(s)
  <2>1. \A e \in End : /\ mux[e][s] = Fresh /\ user[e][s] = "none" /\ wire[e] = <<>> /\ live[e]
                       /\ written[e][s] = 0 /\ got[e][s] = 0
    BY DEF MuxInit
  <2>2. \A e \in End : \A type : Count(type, s, wire[e]) = 0 BY <2>1, CountNone
  <2>3. OpensFirst(s, <<>>) /\ EndsLast(s, <<>>) BY DEF OpensFirst, EndsLast
  <2>4. UnopenedOK(s) BY <2>1, <2>2 DEF UnopenedOK
  <2>5. UsersOK(s) BY <1>1, <2>1, <2>2, <2>3, Ends DEF UsersOK, Active, ActiveBridge
  <2>6. CreditOK(s) BY <1>1, <2>1, Ends DEF CreditOK
  <2>7. RequestOK(s) /\ ResponseOK(s)
    BY <1>1, <2>1, <2>2, <2>3, Ends DEF RequestOK, ResponseOK, Has
  <2> QED BY <2>4, <2>5, <2>6, <2>7 DEF StreamOK
<1> QED BY <1>3, <1>4 DEF MuxIInv

\* What disposing of a mux makes of a stream and of who uses it there.
LEMMA Disposed ==
  ASSUME MuxTypeOK, NEW e \in End, NEW s \in Stream, UsersOK(s)
  PROVE  /\ AllDestroyed(e)[s] \in StreamState /\ AllRetired(e)[s] \in MuxUser
         /\ AllDestroyed(e)[s].known # "open"
         /\ AllDestroyed(e)[s].known = "new" <=> mux[e][s].known = "new"
         /\ mux[e][s].known = "new" => /\ AllDestroyed(e)[s] = mux[e][s]
                                       /\ AllRetired(e)[s] = user[e][s]
         /\ AllDestroyed(e)[s].ended = mux[e][s].ended
         /\ AllDestroyed(e)[s].ending = mux[e][s].ending
         /\ AllDestroyed(e)[s].queue = 0 \/ AllDestroyed(e)[s].queue = mux[e][s].queue
         /\ e = "host" => AllRetired(e)[s] \in {"none", "retired"}
         /\ e = "host" => (AllRetired(e)[s] = "none" <=> user[e][s] = "none")
         /\ e = "client" =>
              /\ AllRetired(e)[s] \in {"none", "closed", "ok", "failed"}
              /\ AllRetired(e)[s] = "ok" => user[e][s] = "ok"
              /\ s \in Http => AllRetired(e)[s] \in {"none", "ok", "failed"}
              /\ s \in Ws => AllRetired(e)[s] \in {"none", "closed"}
<1> DEFINE m == mux[e][s]
           n == AllDestroyed(e)[s]
           u == AllRetired(e)[s]
<1>1. m \in StreamState /\ user[e][s] \in MuxUser BY DEF MuxTypeOK
<1>2. n = (IF m.known = "open" THEN Destroyed(m) ELSE m) BY DEF AllDestroyed
<1>3. u = (IF m.known = "open" THEN UserReset(e, s) ELSE user[e][s]) BY DEF AllRetired
<1>4. s \in Http \/ s \in Ws BY MuxAssumption DEF Http, Ws
<1>5. /\ Destroyed(m) \in StreamState /\ Destroyed(m).known = "gone" /\ Destroyed(m).queue = 0
      /\ Destroyed(m).ended = m.ended /\ Destroyed(m).ending = m.ending
  BY <1>1 DEF Destroyed, StreamState
<1> HIDE DEF n, u, m
<1>6. /\ n \in StreamState /\ n.known # "open" /\ (n.known = "new" <=> m.known = "new")
      /\ m.known = "new" => n = m /\ u = user[e][s]
      /\ n.ended = m.ended /\ n.ending = m.ending
      /\ n.queue = 0 \/ n.queue = m.queue
  BY <1>1, <1>2, <1>3, <1>5
<1>7. ASSUME e = "host"
      PROVE  u \in {"none", "retired"} /\ (u = "none" <=> user["host"][s] = "none")
  <2>1. Active(s) => m.known = "open" BY <1>7 DEF UsersOK, m
  <2>2. user["host"][s]
          \in {"none", "dialing", "open", "reading", "fetching", "answering", "retired"}
    BY <1>4 DEF UsersOK
  <2>3. UserReset("host", s) = IF Active(s) THEN "retired" ELSE user["host"][s]
    BY <2>2 DEF UserReset, Active, ActiveBridge
  <2> QED BY <1>3, <1>7, <2>1, <2>2, <2>3 DEF Active, ActiveBridge
<1>8. ASSUME e = "client"
      PROVE  /\ u \in {"none", "closed", "ok", "failed"}
             /\ u = "ok" => user["client"][s] = "ok"
             /\ s \in Http => u \in {"none", "ok", "failed"}
             /\ s \in Ws => u \in {"none", "closed"}
  <2>1. user["client"][s] \in {"open", "pending"} => m.known = "open" BY <1>8 DEF UsersOK, m
  <2>2. /\ user["client"][s] \in {"none", "open", "closed", "pending", "ok", "failed"}
        /\ s \in Http => user["client"][s] \in {"none", "pending", "ok", "failed"}
        /\ s \in Ws => user["client"][s] \in {"none", "open", "closed"}
    BY <1>4 DEF UsersOK
  <2>3. UserReset("client", s) = CASE user["client"][s] = "open" -> "closed"
                                   [] user["client"][s] = "pending" -> "failed"
                                   [] OTHER -> user["client"][s]
    BY <2>2 DEF UserReset
  <2> QED BY <1>3, <1>8, <2>1, <2>2, <2>3
<1>9. u \in MuxUser BY <1>7, <1>8, Ends DEF MuxUser
<1> QED BY <1>6, <1>7, <1>8, <1>9 DEF n, u, m

LEMMA SessionStep ==
  ASSUME MuxIInv, SessionEnds
  PROVE  MuxIInv'
<1>1. MuxTypeOK /\ (\A s \in Stream : StreamOK(s)) BY DEF MuxIInv
<1>2. /\ live' = [e \in End |-> FALSE] /\ wire' = [e \in End |-> <<>>]
      /\ mux' = [e \in End |-> AllDestroyed(e)] /\ user' = [e \in End |-> AllRetired(e)]
      /\ UNCHANGED <<written, got, answer, mix>>
  BY DEF SessionEnds
<1>3. \A s \in Stream : UsersOK(s) BY <1>1 DEF StreamOK
<1>4. \A e \in End, s \in Stream :
        AllDestroyed(e)[s] \in StreamState /\ AllRetired(e)[s] \in MuxUser
  BY <1>1, <1>3, Disposed
<1>5. \A e \in End : /\ AllDestroyed(e) \in [Stream -> StreamState]
                     /\ AllRetired(e) \in [Stream -> MuxUser]
  <2>1. \A e \in End : /\ AllDestroyed(e) = [s \in Stream |-> AllDestroyed(e)[s]]
                       /\ AllRetired(e) = [s \in Stream |-> AllRetired(e)[s]]
    BY DEF AllDestroyed, AllRetired
  <2> QED BY <1>4, <2>1
<1>6. wire' \in [End -> Seq(Packet)] BY <1>2, EmptySeq
<1>7. MuxTypeOK' BY <1>1, <1>2, <1>5, <1>6 DEF MuxTypeOK
<1>8. ASSUME NEW s \in Stream PROVE StreamOK(s)'
  <2>1. /\ UnopenedOK(s) /\ UsersOK(s) /\ (s \in Http => RequestOK(s) /\ ResponseOK(s))
    BY <1>1 DEF StreamOK
  <2> DEFINE n == [e \in End |-> AllDestroyed(e)[s]]
             u == [e \in End |-> AllRetired(e)[s]]
  <2>2. \A e \in End : /\ mux'[e][s] = n[e] /\ user'[e][s] = u[e]
                       /\ wire'[e] = <<>> /\ ~live'[e]
    BY <1>2
  <2>3. \A e \in End :
          /\ n[e].known # "open" /\ (n[e].known = "new" <=> mux[e][s].known = "new")
          /\ mux[e][s].known = "new" => n[e] = mux[e][s] /\ u[e] = user[e][s]
          /\ n[e].ended = mux[e][s].ended /\ n[e].ending = mux[e][s].ending
          /\ n[e].queue = 0 \/ n[e].queue = mux[e][s].queue
    BY <1>1, <2>1, Disposed
  <2>4. u["host"] \in {"none", "retired"} /\ (u["host"] = "none" <=> user["host"][s] = "none")
    BY <1>1, <2>1, Disposed, Ends
  <2>5. /\ u["client"] \in {"none", "closed", "ok", "failed"}
        /\ u["client"] = "ok" => user["client"][s] = "ok"
        /\ s \in Http => u["client"] \in {"none", "ok", "failed"}
        /\ s \in Ws => u["client"] \in {"none", "closed"}
    BY <1>1, <2>1, Disposed, Ends
  <2> HIDE DEF n, u
  <2>6. \A e \in End : \A type : Count(type, s, wire'[e]) = 0 BY <2>2, CountNone
  <2>7. OpensFirst(s, <<>>) /\ EndsLast(s, <<>>) BY DEF OpensFirst, EndsLast
  <2>8. UnopenedOK(s)' BY <1>2, <2>1, <2>2, <2>3, <2>6, Ends DEF UnopenedOK, Fresh
  <2>9. UsersOK(s)'
    BY <2>1, <2>2, <2>3, <2>4, <2>5, <2>7, Ends
    DEF UsersOK, Active, ActiveBridge, Http, Ws
  <2>10. CreditOK(s)' BY <2>2, <2>3, Ends DEF CreditOK
  <2>11. ASSUME s \in Http PROVE RequestOK(s)' /\ ResponseOK(s)'
    <3>1. mux["client"][s].known = "new" =>
            /\ mux["client"][s].queue = 0 /\ got["host"][s] = 0 /\ written["client"][s] = 0
      BY <2>1, Ends DEF UnopenedOK, Fresh
    <3>2. \A e \in End : ~Has("end", s, e)' BY <2>6 DEF Has
    <3>3. n["client"].known = "new" =>
            got["host"][s] + 0 + n["client"].queue = written["client"][s]
      BY <2>3, <3>1, Ends
    <3>4. n["client"].known \in {"new", "gone"}
      BY <1>7, <2>2, <2>3, Ends DEF MuxTypeOK, StreamState
    <3>5. RequestOK(s)'
      BY <1>2, <2>1, <2>2, <2>3, <2>4, <2>6, <2>7, <2>11, <3>2, <3>3, <3>4, Ends
      DEF RequestOK
    <3>6. ResponseOK(s)'
      BY <1>2, <2>1, <2>2, <2>3, <2>4, <2>5, <2>6, <2>7, <2>11, <3>2, Ends
      DEF ResponseOK, UsersOK
    <3> QED BY <3>5, <3>6
  <2> QED BY <2>8, <2>9, <2>10, <2>11 DEF StreamOK, Http
<1> QED BY <1>7, <1>8 DEF MuxIInv

\* The resets that a disposed mux flushes are of its own streams, and nothing else.
LEMMA Resets ==
  ASSUME NEW standing \in SUBSET Stream, NEW q,
         q = [k \in DOMAIN SetToSeq(standing) |-> Frame("reset", SetToSeq(standing)[k])]
  PROVE  /\ q \in Seq(Packet)
         /\ \A s \in Stream : /\ EndsLast(s, q)
                              /\ \A type : type # "reset" => Count(type, s, q) = 0
                              /\ s \notin standing => Count("reset", s, q) = 0
<1>1. IsFiniteSet(standing) BY FS_Subset, MuxAssumption
<1> DEFINE N == Cardinality(standing)
           told == SetToSeq(standing)
<1>2. N \in Nat /\ ExistsBijection(1 .. N, standing) BY <1>1, FS_CardinalityType
<1>3. \E g \in [1 .. N -> standing] : IsInjective(g)
  BY <1>2 DEF ExistsBijection, Bijection, Injection
<1>4. told \in [1 .. N -> standing] BY <1>3 DEF SetToSeq
<1> HIDE DEF told, N
<1>5. /\ DOMAIN q = 1 .. N /\ \A k \in 1 .. N : q[k] = Frame("reset", told[k])
      /\ q = [k \in 1 .. N |-> Frame("reset", told[k])]
  BY <1>4 DEF told
<1>6. \A k \in 1 .. N : told[k] \in standing /\ Frame("reset", told[k]) \in Packet
  BY <1>4 DEF Frame, Packet, FrameType
<1>7. q \in Seq(Packet)
  <2>1. q \in [1 .. N -> Packet] BY <1>5, <1>6
  <2> QED BY <1>2, <2>1, SeqDef
<1>8. ASSUME NEW s \in Stream
      PROVE  /\ EndsLast(s, q)
             /\ \A type : type # "reset" => Count(type, s, q) = 0
             /\ s \notin standing => Count("reset", s, q) = 0
  <2>1. EndsLast(s, q) BY <1>5 DEF EndsLast, Frame
  <2>2. ASSUME NEW type, type # "reset" \/ s \notin standing PROVE Count(type, s, q) = 0
    <3>1. {k \in DOMAIN q : q[k] = Frame(type, s)} = {} BY <1>5, <1>6, <2>2 DEF Frame
    <3> QED BY <3>1, FS_EmptySet DEF Count
  <2> QED BY <2>1, <2>2
<1> QED BY <1>7, <1>8

LEMMA TeardownStep ==
  ASSUME MuxIInv, HostTearsDown
  PROVE  MuxIInv'
<1> DEFINE standing == {s \in Stream : mux["host"][s].known = "open"}
           q == [k \in DOMAIN SetToSeq(standing) |-> Frame("reset", SetToSeq(standing)[k])]
<1>1. MuxTypeOK /\ (\A s \in Stream : StreamOK(s)) BY DEF MuxIInv
<1>2. /\ live["host"] /\ live' = [live EXCEPT !["host"] = FALSE]
      /\ wire' = [wire EXCEPT !["host"] = @ \o q]
      /\ mux' = [mux EXCEPT !["host"] = AllDestroyed("host")]
      /\ user' = [user EXCEPT !["host"] = AllRetired("host")]
      /\ UNCHANGED <<written, got, answer, mix>>
  BY DEF HostTearsDown, Carried
<1>3. \A s \in Stream : UsersOK(s) BY <1>1 DEF StreamOK
<1>4. /\ AllDestroyed("host") \in [Stream -> StreamState]
      /\ AllRetired("host") \in [Stream -> MuxUser]
  <2>1. \A s \in Stream :
          AllDestroyed("host")[s] \in StreamState /\ AllRetired("host")[s] \in MuxUser
    BY <1>1, <1>3, Disposed, Ends
  <2>2. /\ AllDestroyed("host") = [s \in Stream |-> AllDestroyed("host")[s]]
        /\ AllRetired("host") = [s \in Stream |-> AllRetired("host")[s]]
    BY DEF AllDestroyed, AllRetired
  <2> QED BY <2>1, <2>2
<1>5. /\ q \in Seq(Packet)
      /\ \A s \in Stream : /\ EndsLast(s, q)
                           /\ \A type : type # "reset" => Count(type, s, q) = 0
                           /\ s \notin standing => Count("reset", s, q) = 0
  <2>1. standing \in SUBSET Stream OBVIOUS
  <2> HIDE DEF standing
  <2> QED BY <2>1, Resets
<1> HIDE DEF q
<1>6. wire \in [End -> Seq(Packet)] /\ wire["host"] \o q \in Seq(Packet)
  BY <1>1, <1>5, ConcatProperties, Ends DEF MuxTypeOK
<1>7. /\ wire' \in [End -> Seq(Packet)] /\ wire'["client"] = wire["client"]
      /\ wire'["host"] = wire["host"] \o q
  BY <1>2, <1>6, Ends
<1>8. MuxTypeOK' BY <1>1, <1>2, <1>4, <1>7, Ends DEF MuxTypeOK
<1>9. ASSUME NEW s \in Stream PROVE StreamOK(s)'
  <2>1. /\ UnopenedOK(s) /\ UsersOK(s) /\ CreditOK(s)
        /\ s \in Http => RequestOK(s) /\ ResponseOK(s)
    BY <1>1 DEF StreamOK
  <2> DEFINE m == mux["host"][s]
             n == AllDestroyed("host")[s]
             u == AllRetired("host")[s]
  <2>2. /\ mux'["host"][s] = n /\ user'["host"][s] = u
        /\ mux'["client"][s] = mux["client"][s] /\ user'["client"][s] = user["client"][s]
        /\ ~live'["host"] /\ live'["client"] = live["client"]
    BY <1>1, <1>2, Ends DEF MuxTypeOK
  <2>3. /\ n.known # "open" /\ (n.known = "new" <=> m.known = "new")
        /\ m.known = "new" => n = m /\ u = user["host"][s]
        /\ n.ended = m.ended /\ n.ending = m.ending
        /\ n.queue = 0 \/ n.queue = m.queue
        /\ u \in {"none", "retired"} /\ (u = "none" <=> user["host"][s] = "none")
    BY <1>1, <2>1, Disposed, Ends
  <2>4. n.known \in {"new", "gone"} BY <1>8, <2>2, <2>3, Ends DEF MuxTypeOK, StreamState
  <2> HIDE DEF n, u
  <2>5. \A type : /\ type # "reset" \/ s \notin standing =>
                       Count(type, s, wire'["host"]) = Count(type, s, wire["host"])
                  /\ Count(type, s, wire'["client"]) = Count(type, s, wire["client"])
    <3> SUFFICES ASSUME NEW type, type # "reset" \/ s \notin standing
                 PROVE  Count(type, s, wire'["host"]) = Count(type, s, wire["host"])
      BY <1>7
    <3>1. Count(type, s, wire["host"] \o q) = Count(type, s, wire["host"]) + Count(type, s, q)
      BY <1>5, <1>6, CountConcat, Ends
    <3>2. Count(type, s, q) = 0 BY <1>5
    <3>3. Count(type, s, wire["host"]) \in Nat BY <1>6, CountIsNat, Ends
    <3> QED BY <1>7, <3>1, <3>2, <3>3
  <2>6. EndsLast(s, wire["host"]) => EndsLast(s, wire'["host"])
    <3>1. EndsLast(s, wire["host"]) => EndsLast(s, wire["host"] \o q)
      BY <1>5, <1>6, OrderConcat, Ends
    <3> QED BY <1>7, <3>1
  <2>7. UnopenedOK(s)'
    <3> SUFFICES ASSUME mux["client"][s].known = "new"
                 PROVE  /\ \A e \in End : /\ mux'[e][s] = Fresh /\ user'[e][s] = "none"
                                          /\ written'[e][s] = 0 /\ got'[e][s] = 0
                        /\ \A e \in End, type \in FrameType : Count(type, s, wire'[e]) = 0
      BY <2>2 DEF UnopenedOK
    <3>1. /\ \A e \in End : /\ mux[e][s] = Fresh /\ user[e][s] = "none"
                            /\ written[e][s] = 0 /\ got[e][s] = 0
          /\ \A e \in End, type \in FrameType : Count(type, s, wire[e]) = 0
      BY <2>1 DEF UnopenedOK
    <3>2. m.known = "new" BY <3>1, Ends DEF Fresh
    <3>3. s \notin standing BY <3>2
    <3> QED BY <1>2, <2>2, <2>3, <2>5, <3>1, <3>2, <3>3, Ends
  <2>8. UsersOK(s)'
    BY <1>7, <2>1, <2>2, <2>3, <2>5, Ends DEF UsersOK, Active, ActiveBridge, Http, Ws
  <2>9. CreditOK(s)'
    <3> SUFFICES ASSUME mux["client"][s].known = "open", n.known # "gone"
                 PROVE  \A e \in End : Credit(e, s)' <= Window
      BY <2>2, Ends DEF CreditOK
    <3>1. m.known = "new" /\ n = m BY <2>3, <2>4
    <3>2. \A e \in End : Credit(e, s)' = Credit(e, s) BY <2>2, <2>5, <3>1, Ends DEF Credit
    <3> QED BY <2>1, <3>1, <3>2 DEF CreditOK
  <2>10. ASSUME s \in Http PROVE RequestOK(s)' /\ ResponseOK(s)'
    <3>1. \A e \in End : Has("end", s, e)' <=> Has("end", s, e) BY <2>5, Ends DEF Has
    <3>2. RequestOK(s)'
      BY <1>2, <1>7, <2>1, <2>2, <2>3, <2>5, <2>10, <3>1, Ends DEF RequestOK
    <3>3. user["client"][s] = "pending" /\ (n.known # "gone" \/ Has("end", s, "host")) =>
            got["client"][s] + Count("data", s, wire["host"]) + n.queue = written["host"][s]
      <4>1. Has("end", s, "host") => m.queue = 0 BY <2>1, <2>10 DEF ResponseOK
      <4>2. n.known # "gone" => n = m /\ m.known # "gone" BY <2>3, <2>4
      <4>3. Has("end", s, "host") => n.queue = m.queue BY <2>3, <4>1
      <4>4. user["client"][s] = "pending" /\ (m.known # "gone" \/ Has("end", s, "host")) =>
              got["client"][s] + Count("data", s, wire["host"]) + m.queue = written["host"][s]
        BY <2>1, <2>10 DEF ResponseOK
      <4> QED BY <4>2, <4>3, <4>4
    <3>4. user["host"][s] = "retired" => u = "retired" BY <2>3
    <3>5. ResponseOK(s)'
      BY <1>2, <2>1, <2>2, <2>3, <2>5, <2>6, <2>10, <3>1, <3>3, <3>4, Ends DEF ResponseOK
    <3> QED BY <3>2, <3>5
  <2> QED BY <2>7, <2>8, <2>9, <2>10 DEF StreamOK, Http
<1> QED BY <1>8, <1>9 DEF MuxIInv

-----------------------------------------------------------------------------
(* Every step, and the theorems.                                           *)

\* What the steps of the users say of the stream they use.
LEMMA Using ==
  ASSUME MuxIInv, NEW s \in Stream
  PROVE  /\ MuxTypeOK /\ UnopenedOK(s) /\ UsersOK(s)
         /\ \A e \in End : user[e][s] \in MuxUser /\ written[e][s] \in Nat
         /\ s \in Ws <=> s \notin Http
         /\ \A e \in End : /\ user = [user EXCEPT ![e][s] = user[e][s]]
                           /\ written = [written EXCEPT ![e][s] = written[e][s] + 0]
         /\ Active(s) => mux["host"][s].known = "open" /\ ~mux["host"][s].ending
<1>1. MuxTypeOK /\ UnopenedOK(s) /\ UsersOK(s) BY DEF MuxIInv, StreamOK
<1>2. s \in Ws <=> s \notin Http BY MuxAssumption DEF Ws, Http
<1>3. \A e \in End : user[e][s] \in MuxUser /\ written[e][s] \in Nat BY <1>1 DEF MuxTypeOK
<1>4. ASSUME NEW e \in End
      PROVE  /\ user = [user EXCEPT ![e][s] = user[e][s]]
             /\ written = [written EXCEPT ![e][s] = written[e][s] + 0]
  <2>1. written[e][s] + 0 = written[e][s] BY <1>3
  <2>2. user = [user EXCEPT ![e][s] = user[e][s]] BY <1>1 DEF MuxTypeOK
  <2>3. written = [written EXCEPT ![e][s] = written[e][s]] BY <1>1 DEF MuxTypeOK
  <2> QED BY <2>1, <2>2, <2>3
<1> QED BY <1>1, <1>2, <1>3, <1>4 DEF UsersOK

LEMMA SocketOpensStep ==
  ASSUME MuxIInv, NEW s \in Stream, SocketOpens(s)
  PROVE  MuxIInv'
<1> DEFINE r == [Fresh EXCEPT !.known = "open"]
<1>1. /\ s \in Ws /\ s \notin Http /\ live["client"] /\ mux["client"][s].known = "new"
      /\ mux' = [mux EXCEPT !["client"][s] = r]
      /\ wire' = Carried("client", <<Frame("open", s)>>)
      /\ user' = [user EXCEPT !["client"][s] = "open"]
      /\ UNCHANGED <<live, written, got, answer, mix>>
  BY Using DEF SocketOpens, SetStream, SetUser
<1>2. /\ r \in StreamState /\ r.known = "open" /\ ~r.peerEnded /\ ~r.ended /\ ~r.ending
      /\ r.credit = Window
  BY MuxAssumption DEF Fresh, StreamState
<1>3. /\ AllOf(s, <<>>) /\ EndsLast(s, <<>>)
      /\ Count("data", s, <<>>) = 0 /\ Count("window", s, <<>>) = 0
  <2>1. EndsLast(s, <<>>) BY DEF EndsLast
  <2>2. AllOf(s, <<>>) BY AllOfOne DEF FrameType
  <2> QED BY <2>1, <2>2, CountNone
<1>4. <<Frame("open", s)>> \o <<>> = <<Frame("open", s)>> BY ConcatEmptySeq
<1>5. r.credit + Count("data", s, <<>>) = Window BY <1>2, <1>3, MuxAssumption
<1>6. written["client"][s] = 0 /\ written' = [written EXCEPT !["client"][s] = 0]
  <2>1. written["client"][s] = 0 BY <1>1, Using, Ends DEF UnopenedOK
  <2> QED BY <1>1, <2>1, Using, Ends DEF MuxTypeOK
<1> DEFINE rest == <<>>
<1>7. /\ AllOf(s, rest) /\ EndsLast(s, rest) /\ r.credit + Count("data", s, rest) = Window
      /\ Count("window", s, rest) = 0
      /\ wire' = Carried("client", <<Frame("open", s)>> \o rest)
  BY <1>1, <1>3, <1>4, <1>5
<1> HIDE DEF r, rest
<1> QED BY <1>1, <1>2, <1>6, <1>7, OpenStep

LEMMA FetchStartsStep ==
  ASSUME MuxIInv, NEW s \in Stream, FetchStarts(s)
  PROVE  MuxIInv'
<1>1. MuxTypeOK /\ s \notin Ws /\ s \in Http BY Using DEF FetchStarts
<1>2. mix.up \in Nat BY <1>1 DEF MuxTypeOK
<1>3. PICK n \in {0, mix.up} :
        /\ SetStream("client", s, Pumped(Given([Fresh EXCEPT !.known = "open"], n, TRUE)),
             <<Frame("open", s), Frame("head", s)>>
               \o PumpedFrames(s, Given([Fresh EXCEPT !.known = "open"], n, TRUE)))
        /\ written' = [written EXCEPT !["client"][s] = n]
  BY DEF FetchStarts
<1> DEFINE last == TRUE
           r == Given([Fresh EXCEPT !.known = "open"], n, last)
           p == Pumped(r)
           fr == PumpedFrames(s, r)
           k == Sendable(r)
           head == <<Frame("head", s)>>
           rest == head \o fr
<1>4. n \in Nat BY <1>2, <1>3
<1>5. /\ r \in StreamState /\ r.known = "open" /\ r.queue = n /\ r.credit = Window
      /\ r.ending /\ ~r.ended /\ ~r.peerEnded
  <2> DEFINE fresh == [Fresh EXCEPT !.known = "open"]
  <2>1. /\ fresh \in StreamState /\ fresh.known = "open" /\ fresh.queue = 0
        /\ fresh.credit = Window /\ ~fresh.ending /\ ~fresh.ended /\ ~fresh.peerEnded
    BY MuxAssumption DEF Fresh, StreamState
  <2> HIDE DEF fresh
  <2>2. /\ r \in StreamState /\ r.known = "open" /\ r.queue = 0 + n /\ r.credit = Window
        /\ (r.ending <=> fresh.ending \/ last) /\ r.ended = fresh.ended
        /\ r.peerEnded = fresh.peerEnded
    <3>1. last \in BOOLEAN OBVIOUS
    <3>2. r = Given(fresh, n, last) BY DEF fresh
    <3> HIDE DEF last, r
    <3> QED BY <1>4, <2>1, <3>1, <3>2, GivenFacts
  <2> HIDE DEF r
  <2> QED BY <1>4, <2>1, <2>2
<1>6. /\ live["client"] /\ mux["client"][s].known = "new"
      /\ mux' = [mux EXCEPT !["client"][s] = p]
      /\ wire' = Carried("client", <<Frame("open", s), Frame("head", s)>> \o fr)
      /\ user' = [user EXCEPT !["client"][s] = "pending"]
      /\ UNCHANGED <<live, got, answer, mix>>
  BY <1>3 DEF FetchStarts, SetStream, SetUser
<1> HIDE DEF r
<1>7. /\ k \in Nat /\ k <= r.queue /\ EndsNow(r) \in BOOLEAN /\ (EndsNow(r) => k = r.queue)
      /\ p \in StreamState /\ p.known \in {"open", "gone"}
      /\ p.known = "gone" => p.ended /\ r.peerEnded
      /\ p.credit = r.credit - k /\ p.ending = r.ending /\ p.peerEnded = r.peerEnded
      /\ p.queue = IF p.known = "gone" THEN 0 ELSE r.queue - k
      /\ (p.ended <=> r.ended \/ EndsNow(r))
  <2>1. r \in StreamState /\ r.known = "open" BY <1>5
  <2> QED BY <2>1, PumpFacts
<1>8. /\ AllOf(s, fr) /\ fr \in Seq(Packet) /\ EndsLast(s, fr)
      /\ Count("data", s, fr) = k
      /\ Count("end", s, fr) = IF EndsNow(r) THEN 1 ELSE 0
      /\ \A type \in FrameType \ {"data", "end"} : Count(type, s, fr) = 0
  BY <1>5, PumpedFrameFacts
<1>9. /\ AllOf(s, head) /\ head \in Seq(Packet) /\ EndsLast(s, head)
      /\ \A type : type # "head" => Count(type, s, head) = 0
  <2>1. AllOf(s, head) BY AllOfOne DEF FrameType
  <2>2. head \in Seq(Packet) BY <2>1, SeqMonotonic DEF AllOf
  <2>3. EndsLast(s, head) BY DEF EndsLast, Frame
  <2> QED BY <2>1, <2>2, <2>3, CountOne
<1> HIDE DEF p, fr, k, head
<1>10. AllOf(s, rest) BY <1>8, <1>9, AllOfConcat
<1>11. \A type : Count(type, s, rest) = Count(type, s, head) + Count(type, s, fr)
  BY <1>8, <1>9, CountConcat
<1>12. Count("window", s, rest) = 0 /\ Count("data", s, rest) = k
       /\ Count("end", s, rest) = IF EndsNow(r) THEN 1 ELSE 0
  <2>1. Count("window", s, fr) = 0 BY <1>8 DEF FrameType
  <2> QED BY <1>7, <1>8, <1>9, <1>11, <2>1
<1>13. EndsLast(s, rest) BY <1>8, <1>9, OrderConcat
<1>14. <<Frame("open", s), Frame("head", s)>> \o fr = <<Frame("open", s)>> \o rest
  <2>1. Frame("open", s) \in Packet /\ Frame("head", s) \in Packet
    BY DEF Frame, Packet, FrameType
  <2>2. <<Frame("open", s)>> \o head = <<Frame("open", s), Frame("head", s)>>
    <3> DEFINE a == Frame("open", s)
               b == Frame("head", s)
    <3> HIDE DEF a, b
    <3>1. <<a>> \o <<b>> = <<a, b>>
      <4> DEFINE p1 == <<a>>
                 p2 == <<b>>
                 p3 == <<a, b>>
      <4>1. /\ p1 \in Seq({a, b}) /\ Len(p1) = 1 /\ p1[1] = a
            /\ p2 \in Seq({a, b}) /\ Len(p2) = 1 /\ p2[1] = b
            /\ p3 \in Seq({a, b}) /\ Len(p3) = 2 /\ p3[1] = a /\ p3[2] = b
        OBVIOUS
      <4> HIDE DEF p1, p2, p3
      <4>2. /\ p1 \o p2 \in Seq({a, b}) /\ Len(p1 \o p2) = 2
            /\ \A i \in 1 .. 2 : (p1 \o p2)[i] = p3[i]
        BY <4>1, ConcatProperties
      <4>3. p1 \o p2 = p3 BY <4>1, <4>2, SeqEqual
      <4> QED BY <4>3 DEF p1, p2, p3
    <3> QED BY <3>1 DEF a, b, head
  <2>3. <<Frame("open", s)>> \in Seq(Packet) BY <2>1
  <2>4. (<<Frame("open", s)>> \o head) \o fr = <<Frame("open", s)>> \o (head \o fr)
    BY <1>8, <1>9, <2>3, ConcatAssociative
  <2> QED BY <2>2, <2>4
<1>15. p.known = "open" /\ ~p.peerEnded /\ p.ending /\ (p.ended <=> EndsNow(r))
       /\ p.queue = n - k /\ p.credit = Window - k
  BY <1>5, <1>7
<1>16. /\ p.credit + Count("data", s, rest) = Window
       /\ Count("data", s, rest) + p.queue = n
       /\ p.ended => p.queue = 0
       /\ Count("end", s, rest) > 0 => p.ended
  <2>1. Window \in Nat BY MuxAssumption
  <2> QED BY <1>4, <1>5, <1>7, <1>12, <1>15, <2>1
<1>17. wire' = Carried("client", <<Frame("open", s)>> \o rest) BY <1>6, <1>14
<1> HIDE DEF rest
<1> QED BY <1>1, <1>3, <1>4, <1>6, <1>7, <1>10, <1>12, <1>13, <1>15, <1>16, <1>17, OpenStep

LEMMA BrowserSteps ==
  ASSUME MuxIInv, NEW s \in Stream, BrowserStep(s)
  PROVE  MuxIInv'
<1>1. CASE SocketOpens(s) BY <1>1, SocketOpensStep
<1>2. CASE SocketSends(s)
  <2>1. /\ user["client"][s] = "open" /\ mux["client"][s].known = "open"
        /\ ~mux["client"][s].ending /\ s \notin Http
    BY <1>2, Using DEF SocketSends, Usable
  <2>2. /\ SetStream("client", s, Pumped(Given(mux["client"][s], 1, FALSE)),
                     PumpedFrames(s, Given(mux["client"][s], 1, FALSE)))
        /\ user' = [user EXCEPT !["client"][s] = user["client"][s]]
        /\ written' = [written EXCEPT !["client"][s] = @ + 1]
        /\ UNCHANGED <<live, got, answer, mix>>
    BY <1>2, Using, Ends DEF SocketSends
  <2> QED BY <2>1, <2>2, PumpStep, Ends
<1>3. CASE SocketCloses(s)
  <2>1. /\ user["client"][s] = "open" /\ mux["client"][s].known = "open" /\ s \notin Http
    BY <1>3, Using DEF SocketCloses, UsersOK
  <2>2. /\ SetStream("client", s, Pumped(Given(mux["client"][s], 0, TRUE)),
                     PumpedFrames(s, Given(mux["client"][s], 0, TRUE)))
        /\ user' = [user EXCEPT !["client"][s] = Left("client")]
        /\ written' = [written EXCEPT !["client"][s] = @ + 0]
        /\ UNCHANGED <<live, got, answer, mix>>
    BY <1>3, Using, Ends DEF SocketCloses, SetUser, Left
  <2>3. Left("client") # "none" BY DEF Left
  <2> QED BY <2>1, <2>2, <2>3, PumpStep, Ends
<1>4. CASE FetchStarts(s) BY <1>4, FetchStartsStep
<1>5. CASE FetchGivesUp(s)
  <2>1. /\ s \in Http /\ mux["client"][s].known = "open"
    BY <1>5, Using DEF FetchGivesUp, UsersOK
  <2>2. /\ ResetStream("client", s) /\ user' = [user EXCEPT !["client"][s] = "failed"]
        /\ UNCHANGED <<live, written, got, answer, mix>>
    BY <1>5 DEF FetchGivesUp, SetUser
  <2> QED BY <2>1, <2>2, ResetStep, Ends
<1> QED BY <1>1, <1>2, <1>3, <1>4, <1>5 DEF BrowserStep

LEMMA BridgeSteps ==
  ASSUME MuxIInv, NEW s \in Stream, BridgeStep(s)
  PROVE  MuxIInv'
<1>1. /\ user["host"][s] \in ActiveBridge =>
           mux["host"][s].known = "open" /\ ~mux["host"][s].ending
      /\ user["host"][s] \in {"dialing", "open"} => s \notin Http
      /\ MuxTypeOK /\ Left("host") = "retired"
  BY Using DEF Active, UsersOK, Left
<1>2. ASSUME mux["host"][s].known = "open", ResetStream("host", s),
             user' = [user EXCEPT !["host"][s] = "retired"],
             UNCHANGED <<live, written, got, answer, mix>>
      PROVE  MuxIInv'
  BY <1>2, ResetStep, Ends
<1>3. CASE LoopbackOpens(s)
  <2>1. SetStream("host", s, mux["host"][s], <<>>)
    <3>1. wire["host"] \o <<>> = wire["host"] BY <1>1, ConcatEmptySeq, Ends DEF MuxTypeOK
    <3>2. Carried("host", <<>>) = wire BY <1>1, <3>1 DEF Carried, MuxTypeOK
    <3> QED BY <1>1, <1>3, <3>2 DEF LoopbackOpens, SetStream, MuxTypeOK
  <2>2. /\ user["host"][s] = "dialing" /\ user' = [user EXCEPT !["host"][s] = "open"]
        /\ UNCHANGED <<live, written, got, answer, mix>>
    BY <1>3 DEF LoopbackOpens, SetUser
  <2> DEFINE none == <<>>
  <2>3. none = <<>> /\ SetStream("host", s, mux["host"][s], none) BY <2>1
  <2> HIDE DEF none
  <2> QED BY <2>2, <2>3, BridgeMovesOn
<1>4. CASE LoopbackSpeaks(s)
  <2>1. user["host"][s] = "open" /\ mux["host"][s].known = "open"
        /\ ~mux["host"][s].ending /\ s \notin Http
    BY <1>1, <1>4 DEF LoopbackSpeaks, ActiveBridge
  <2>2. /\ SetStream("host", s, Pumped(Given(mux["host"][s], 1, FALSE)),
                     PumpedFrames(s, Given(mux["host"][s], 1, FALSE)))
        /\ user' = [user EXCEPT !["host"][s] = user["host"][s]]
        /\ written' = [written EXCEPT !["host"][s] = @ + 1]
        /\ UNCHANGED <<live, got, answer, mix>>
    BY <1>4, Using, Ends DEF LoopbackSpeaks
  <2> QED BY <2>1, <2>2, PumpStep, Ends
<1>5. CASE LoopbackCloses(s)
  <2>1. /\ user["host"][s] \in {"dialing", "open"} /\ mux["host"][s].known = "open"
        /\ s \notin Http
    BY <1>1, <1>5 DEF LoopbackCloses, ActiveBridge
  <2>2. /\ user' = [user EXCEPT !["host"][s] = "retired"]
        /\ written' = [written EXCEPT !["host"][s] = @ + 0]
        /\ UNCHANGED <<live, written, got, answer, mix>>
    BY <1>5, Using, Ends DEF LoopbackCloses, SetUser
  <2>3. CASE SetStream("host", s, Pumped(Given(mux["host"][s], 0, TRUE)),
                       PumpedFrames(s, Given(mux["host"][s], 0, TRUE)))
    BY <1>1, <2>1, <2>2, <2>3, PumpStep, Ends
  <2>4. CASE ResetStream("host", s) BY <1>2, <2>1, <2>2, <2>4
  <2> QED BY <1>5, <2>3, <2>4 DEF LoopbackCloses
<1>6. CASE LoopbackAnswers(s)
  <2>1. /\ user["host"][s] = "fetching" /\ mux["host"][s].known = "open"
        /\ UNCHANGED <<live, written, got, mix>>
    BY <1>1, <1>6 DEF LoopbackAnswers, ActiveBridge
  <2>2. CASE /\ \E n \in mix.bodies : answer' = [answer EXCEPT ![s] = n]
             /\ SetUser("host", s, "answering")
             /\ SetStream("host", s, mux["host"][s], <<Frame("head", s)>>)
    <3>1. mix.bodies \subseteq Nat BY <1>1 DEF MuxTypeOK
    <3>2. \E n \in Nat : answer' = [answer EXCEPT ![s] = n] BY <2>2, <3>1
    <3>3. user' = [user EXCEPT !["host"][s] = "answering"] BY <2>2 DEF SetUser
    <3> DEFINE head == <<Frame("head", s)>>
    <3>4. head = <<Frame("head", s)>> /\ SetStream("host", s, mux["host"][s], head) BY <2>2
    <3> HIDE DEF head
    <3> QED BY <2>1, <3>2, <3>3, <3>4, BridgeMovesOn
  <2>3. CASE SetUser("host", s, "retired") /\ ResetStream("host", s) /\ UNCHANGED answer
    BY <1>2, <2>1, <2>3 DEF SetUser
  <2> QED BY <1>6, <2>2, <2>3 DEF LoopbackAnswers
<1>7. CASE AnswerChunk(s)
  <2>1. /\ user["host"][s] = "answering" /\ mux["host"][s].known = "open"
        /\ ~mux["host"][s].ending /\ mux["host"][s].queue = 0
        /\ UNCHANGED <<live, got, answer, mix>>
    BY <1>1, <1>7 DEF AnswerChunk, ActiveBridge
  <2>2. CASE /\ SetStream("host", s, Pumped(Given(mux["host"][s], 1, FALSE)),
                          PumpedFrames(s, Given(mux["host"][s], 1, FALSE)))
             /\ written' = [written EXCEPT !["host"][s] = @ + 1]
             /\ UNCHANGED user
    <3>1. user' = [user EXCEPT !["host"][s] = user["host"][s]] BY <2>2, Using, Ends
    <3> QED BY <2>1, <2>2, <3>1, PumpStep, Ends
  <2>3. CASE ResetStream("host", s) /\ SetUser("host", s, "retired") /\ UNCHANGED written
    BY <1>2, <2>1, <2>3 DEF SetUser
  <2> QED BY <1>7, <2>2, <2>3 DEF AnswerChunk
<1>8. CASE AnswerEnds(s)
  <2>1. /\ user["host"][s] = "answering" /\ mux["host"][s].known = "open"
        /\ mux["host"][s].queue = 0 /\ written["host"][s] = answer[s]
        /\ SetStream("host", s, Pumped(Given(mux["host"][s], 0, TRUE)),
                     PumpedFrames(s, Given(mux["host"][s], 0, TRUE)))
        /\ user' = [user EXCEPT !["host"][s] = "retired"]
        /\ UNCHANGED <<live, got, answer, mix>>
    BY <1>1, <1>8 DEF AnswerEnds, ActiveBridge, SetUser
  <2>2. written' = [written EXCEPT !["host"][s] = @ + 0] BY <1>8, Using, Ends DEF AnswerEnds
  <2> DEFINE last == TRUE
  <2>3. /\ last \in BOOLEAN
        /\ SetStream("host", s, Pumped(Given(mux["host"][s], 0, last)),
                     PumpedFrames(s, Given(mux["host"][s], 0, last)))
    BY <2>1
  <2> HIDE DEF last
  <2>4. /\ 0 \in Nat /\ "host" \in End /\ "retired" = Left("host") /\ "retired" # "none"
        /\ last => 0 = 0 /\ written["host"][s] = answer[s]
    BY <1>1, <2>1, Ends
  <2> QED BY <2>1, <2>2, <2>3, <2>4, PumpStep
<1>9. CASE BridgeTimesOut(s)
  <2>1. user["host"][s] \in ActiveBridge /\ user' = [user EXCEPT !["host"][s] = "retired"]
        /\ ResetStream("host", s) /\ UNCHANGED <<live, written, got, answer, mix>>
    BY <1>9 DEF BridgeTimesOut, Active, SetUser
  <2> QED BY <1>1, <1>2, <2>1
<1> QED BY <1>3, <1>4, <1>5, <1>6, <1>7, <1>8, <1>9 DEF BridgeStep

LEMMA MuxStep ==
  ASSUME MuxIInv, [MuxNext]_muxVars
  PROVE  MuxIInv'
<1>1. CASE MuxNext
  BY <1>1, BrowserSteps, BridgeSteps, ReceiveStep, SessionStep, TeardownStep DEF MuxNext
<1>2. CASE UNCHANGED muxVars
  <2>1. \A s \in Stream : SameFrames(s) /\ SameStream(s)
    BY <1>2 DEF SameFrames, SameStream, muxVars
  <2>2. MuxTypeOK' BY <1>2 DEF MuxIInv, MuxTypeOK, muxVars
  <2> QED BY <2>1, <2>2, Undisturbed DEF MuxIInv
<1> QED BY <1>1, <1>2

\* Credit in flight: mux.ts never mints or loses a byte of a stream's window,
\* whatever the streams, the window and the order in which frames are handled.
THEOREM CreditCorrect == MuxSpec => []CreditIsConserved
<1>1. MuxIInv => CreditIsConserved
  <2> SUFFICES ASSUME MuxIInv, NEW e \in End, NEW s \in Stream,
                      mux[e][s].known = "open", mux[Other(e)][s].known = "open"
               PROVE  /\ Credit(e, s) <= Window
                      /\ live[e] /\ live[Other(e)] /\ Reads(Other(e), s) => Credit(e, s) = Window
    BY DEF CreditIsConserved, Credit
  <2>1. CreditOK(s) BY DEF MuxIInv, StreamOK
  <2>2. \A d \in End : mux[d][s].known = "open" BY Ends
  <2>3. live["client"] /\ live["host"] <=> live[e] /\ live[Other(e)] BY Ends
  <2> QED BY <2>1, <2>2, <2>3, Ends DEF CreditOK
<1> QED BY <1>1, MuxInitially, MuxStep, PTL DEF MuxSpec

\* Bodies: a request that the bridge passes on, and a response that fetch()
\* returns, is the whole of what was written, for every window and every size.
THEOREM BodiesCorrect == MuxSpec => []BodiesAreWhole
<1>1. MuxIInv => BodiesAreWhole
  BY DEF MuxIInv, StreamOK, RequestOK, ResponseOK, BodiesAreWhole, Http
<1> QED BY <1>1, MuxInitially, MuxStep, PTL DEF MuxSpec
=============================================================================
