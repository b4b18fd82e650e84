------------------------- MODULE LocalSharesProofs -------------------------
(***************************************************************************)
(* Theorems about LocalShares, for any folder, any number of scan threads  *)
(* and any bounds: its types, that nobody waits in vain for the end of a   *)
(* scan, and that the count of shared files catches up.                    *)
(***************************************************************************)
EXTENDS LocalShares, FiniteOrders, SequenceTheorems, FiniteSetTheorems, TLAPS

-----------------------------------------------------------------------------
(***************************************************************************)
(* The methods of the client.                                              *)
(***************************************************************************)
\* What the tables and the queues leave alone.
Alike(c, d) ==
    d.mtt = c.mtt /\ d.enabled = c.enabled /\ d.tid = c.tid /\ d.waiter = c.waiter /\ d.pending = c.pending

SameTally(c, d) == d.lastSent = c.lastSent /\ d.runner = c.runner

LEMMA ClientFields ==
  ASSUME NEW c \in Client
  PROVE  /\ c.mtt \in {"none", "connecting", "connected"} /\ c.enabled \in BOOLEAN
         /\ c.firewalled \in BOOLEAN /\ c.tid \in 0..Thread /\ c.pending \in Codes
         /\ c.known \subseteq Node /\ c.refs \in [Name -> Nat] /\ c.low \in Seq(Update)
         /\ c.lastSent \in Int /\ c.runner \in BOOLEAN /\ c.listed \subseteq Listing
         /\ c.waiter \in BOOLEAN /\ c.watched \in BOOLEAN
BY DEF Client

LEMMA PathType ==
  ASSUME NEW c, NEW n \in Node
  PROVE  GetFilesNodePath(c, n) \in Listing /\ NameOf[n] \in Name
BY NameAssumption DEF GetFilesNodePath, Listing

LEMMA DeliveredType ==
  ASSUME NEW list, NEW msgs
  PROVE  Delivered(list, msgs) \subseteq Listing
BY DEF Delivered

LEMMA SendHighFields ==
  ASSUME NEW c \in Client, NEW u \in Update
  PROVE  LET d == SendHigh(c, u)
         IN  d \in Client /\ Alike(c, d) /\ SameTally(c, d) /\ d.refs = c.refs
<1>1. CASE c.mtt = "none"  BY <1>1 DEF SendHigh, Alike, SameTally
<1>2. CASE c.mtt # "none"
  <2> DEFINE l == Applied(c.listed, u)
             d == [c EXCEPT !.listed = l]
  <2>1. l \subseteq Listing  BY ClientFields DEF Applied, Update
  <2>2. SendHigh(c, u) = d  BY <1>2 DEF SendHigh
  <2> HIDE DEF l
  <2>3. d \in Client /\ Alike(c, d) /\ SameTally(c, d) /\ d.refs = c.refs
    BY <2>1, Zenon DEF Client, Alike, SameTally
  <2> HIDE DEF d
  <2> QED  BY <2>2, <2>3
<1> QED  BY <1>1, <1>2

LEMMA CheckSendFields ==
  ASSUME NEW c \in Client, NEW k \in Nat
  PROVE  LET d == CheckSendMoreLowPriorityMessages(c, k)
         IN  d \in Client /\ Alike(c, d) /\ SameTally(c, d) /\ d.refs = c.refs
<1> DEFINE stays == c.sending \/ c.mtt = "none" \/ c.low = <<>>
<1>1. CASE stays  BY <1>1 DEF CheckSendMoreLowPriorityMessages, Alike, SameTally
<1>2. CASE ~stays
  <2> DEFINE l == Delivered(c.listed, SubSeq(c.low, 1, k))
             r == SubSeq(c.low, k + 1, Len(c.low))
             d == [c EXCEPT !.listed = l, !.low = r, !.sending = TRUE]
  <2>1. l \subseteq Listing  BY DeliveredType
  <2>2. r \in Seq(Update)
    <3>1. c.low \in Seq(Update)  BY ClientFields
    <3>2. Len(c.low) \in Nat  BY <3>1, LenProperties
    <3>3. \A i \in (k + 1)..Len(c.low) : c.low[i] \in Update  BY <3>1, <3>2, ElementOfSeq
    <3> QED  BY <3>1, <3>2, <3>3, SubSeqProperties
  <2>3. CheckSendMoreLowPriorityMessages(c, k) = d
    BY <1>2 DEF CheckSendMoreLowPriorityMessages
  <2> HIDE DEF l, r
  <2>4. d \in Client /\ Alike(c, d) /\ SameTally(c, d) /\ d.refs = c.refs
    BY <2>1, <2>2, Zenon DEF Client, Alike, SameTally
  <2> HIDE DEF d
  <2> QED  BY <2>3, <2>4
<1> QED  BY <1>1, <1>2

LEMMA SendLowFields ==
  ASSUME NEW c \in Client, NEW u \in Update
  PROVE  LET d == SendLow(c, u)
         IN  d \in Client /\ Alike(c, d) /\ SameTally(c, d) /\ d.refs = c.refs
<1>1. CASE c.mtt = "none"  BY <1>1 DEF SendLow, Alike, SameTally
<1>2. CASE c.mtt # "none"
  <2> DEFINE q == Append(c.low, u)
             e == [c EXCEPT !.low = q]
             k == Len(c.low) + 1
             d == CheckSendMoreLowPriorityMessages(e, k)
  <2>1. SendLow(c, u) = d  BY <1>2 DEF SendLow
  <2>2. q \in Seq(Update) /\ k \in Nat
    <3>1. c.low \in Seq(Update)  BY ClientFields
    <3> QED  BY <3>1, LenProperties, AppendProperties
  <2> HIDE DEF q, k
  <2>3. e \in Client /\ Alike(c, e) /\ SameTally(c, e) /\ e.refs = c.refs
    BY <2>2, Zenon DEF Client, Alike, SameTally
  <2> HIDE DEF e
  <2>4. d \in Client /\ Alike(e, d) /\ SameTally(e, d) /\ d.refs = e.refs
    BY <2>2, <2>3, CheckSendFields
  <2> HIDE DEF d
  <2> QED  BY <2>1, <2>3, <2>4 DEF Alike, SameTally
<1> QED  BY <1>1, <1>2

\* The client with other tables.
LEMMA KnownChanges ==
  ASSUME NEW c \in Client, NEW K \in SUBSET Node
  PROVE  LET d == [c EXCEPT !.known = K]
         IN  d \in Client /\ Alike(c, d) /\ SameTally(c, d) /\ d.refs = c.refs /\ d.known = K
BY Zenon DEF Client, Alike, SameTally

LEMMA RefsChange ==
  ASSUME NEW c \in Client, NEW r \in [Name -> Nat]
  PROVE  LET d == [c EXCEPT !.refs = r]
         IN  d \in Client /\ Alike(c, d) /\ SameTally(c, d) /\ d.refs = r /\ d.known = c.known
BY Zenon DEF Client, Alike, SameTally

LEMMA RefFields ==
  ASSUME NEW c \in Client, NEW n \in Node
  PROVE  /\ LET d == RefFilename(c, n)
            IN  d \in Client /\ Alike(c, d) /\ SameTally(c, d) /\ d.known = c.known
         /\ LET d == UnrefFilename(c, n)
            IN  d \in Client /\ Alike(c, d) /\ SameTally(c, d) /\ d.known = c.known
<1> DEFINE x == NameOf[n]
           r == [c.refs EXCEPT ![x] = c.refs[x] + 1]
           s == [c.refs EXCEPT ![x] = IF c.refs[x] > 0 THEN c.refs[x] - 1 ELSE 0]
<1>1. x \in Name  BY PathType
<1>2. c.refs \in [Name -> Nat]  BY ClientFields
<1>3. r \in [Name -> Nat]  BY <1>1, <1>2
<1>4. s \in [Name -> Nat]
  <2>1. (IF c.refs[x] > 0 THEN c.refs[x] - 1 ELSE 0) \in Nat
    <3>1. c.refs[x] \in Nat  BY <1>1, <1>2
    <3> QED  BY <3>1
  <2> QED  BY <1>1, <1>2, <2>1
<1>5. RefFilename(c, n) = [c EXCEPT !.refs = r]  BY DEF RefFilename
<1>6. UnrefFilename(c, n) = [c EXCEPT !.refs = s]  BY DEF UnrefFilename
<1> HIDE DEF r, s
<1>7. LET d == [c EXCEPT !.refs = r] IN  d \in Client /\ Alike(c, d) /\ SameTally(c, d) /\ d.known = c.known
  BY <1>3, RefsChange
<1>8. LET d == [c EXCEPT !.refs = s] IN  d \in Client /\ Alike(c, d) /\ SameTally(c, d) /\ d.known = c.known
  BY <1>4, RefsChange
<1> QED  BY <1>5, <1>6, <1>7, <1>8, Zenon

LEMMA NodeRemovedFields ==
  ASSUME NEW c \in Client, NEW n \in Node
  PROVE  LET d == NodeRemoved(c, n)
         IN  d \in Client /\ Alike(c, d) /\ SameTally(c, d)
<1> DEFINE K == c.known \ {n}
           c1 == [c EXCEPT !.known = K]
           c2 == UnrefFilename(c1, n)
           u == RemoveData({GetFilesNodePath(c, n)})
           d == SendLow(c2, u)
<1>1. NodeRemoved(c, n) = IF n \notin c.known \/ c.mtt = "none" THEN c1 ELSE d
  BY DEF NodeRemoved
<1>2. K \in SUBSET Node  BY ClientFields
<1> HIDE DEF K
<1>3. c1 \in Client /\ Alike(c, c1) /\ SameTally(c, c1)  BY <1>2, KnownChanges
<1> HIDE DEF c1
<1>4. c2 \in Client /\ Alike(c1, c2) /\ SameTally(c1, c2)  BY <1>3, RefFields
<1> HIDE DEF c2
<1>5. u \in Update  BY PathType DEF RemoveData, Update
<1> HIDE DEF u
<1>6. d \in Client /\ Alike(c2, d) /\ SameTally(c2, d)  BY <1>4, <1>5, SendLowFields
<1> HIDE DEF d
<1> QED  BY <1>1, <1>3, <1>4, <1>6 DEF Alike, SameTally

LEMMA NodeCreatedFields ==
  ASSUME NEW c \in Client, NEW n \in Node
  PROVE  LET d == NodeCreated(c, n)
         IN  d \in Client /\ Alike(c, d) /\ SameTally(c, d)
<1> DEFINE c1 == RefFilename(c, n)
           K == c1.known \cup {n}
           c2 == [c1 EXCEPT !.known = K]
           u == SetData({GetFilesNodePath(c, n)})
           d == SendHigh(c2, u)
<1>1. NodeCreated(c, n) = IF ~c.watched \/ n \notin disk THEN c ELSE d
  BY DEF NodeCreated
<1>2. c1 \in Client /\ Alike(c, c1) /\ SameTally(c, c1)  BY RefFields
<1> HIDE DEF c1
<1>3. K \in SUBSET Node  BY <1>2, ClientFields
<1> HIDE DEF K
<1>4. c2 \in Client /\ Alike(c1, c2) /\ SameTally(c1, c2)  BY <1>2, <1>3, KnownChanges
<1> HIDE DEF c2
<1>5. u \in Update  BY PathType DEF SetData, Update
<1> HIDE DEF u
<1>6. d \in Client /\ Alike(c2, d) /\ SameTally(c2, d)  BY <1>4, <1>5, SendHighFields
<1> HIDE DEF d
<1> QED  BY <1>1, <1>2, <1>4, <1>6 DEF Alike, SameTally

\* No file is counted.
Empty(c) == \A x \in Name : c.refs[x] = 0

LEMMA UnwatchFields ==
  ASSUME NEW c \in Client
  PROVE  LET d == UnwatchAllDirs(c)
         IN  d \in Client /\ Alike(c, d) /\ SameTally(c, d) /\ Empty(d)
<1> DEFINE r == [x \in Name |-> 0]
           d == [c EXCEPT !.watched = FALSE, !.known = {}, !.refs = r]
<1>1. UnwatchAllDirs(c) = d  BY DEF UnwatchAllDirs
<1>2. r \in [Name -> Nat] /\ \A x \in Name : r[x] = 0  OBVIOUS
<1> HIDE DEF r
<1>3. d \in Client /\ Alike(c, d) /\ SameTally(c, d) /\ d.refs = r
  BY <1>2, Zenon DEF Client, Alike, SameTally
<1> HIDE DEF d
<1> QED  BY <1>1, <1>2, <1>3 DEF Empty

LEMMA RemoveFileSharingFields ==
  ASSUME NEW c \in Client
  PROVE  LET d == RemoveFileSharing(c)
         IN  d \in Client /\ Alike(c, d) /\ SameTally(c, d) /\ Empty(d)
<1> DEFINE q == IF c.mtt = "none" THEN c.low ELSE <<>>
           c1 == [c EXCEPT !.low = q]
           u == RemoveData(Listing)
           c2 == SendHigh(c1, u)
           d == UnwatchAllDirs(c2)
<1>1. RemoveFileSharing(c) = d  BY DEF RemoveFileSharing
<1>2. q \in Seq(Update)
  <2>1. c.low \in Seq(Update) /\ <<>> \in Seq(Update)  BY ClientFields, EmptySeq
  <2> QED  BY <2>1
<1> HIDE DEF q
<1>3. c1 \in Client /\ Alike(c, c1) /\ SameTally(c, c1)  BY <1>2, Zenon DEF Client, Alike, SameTally
<1> HIDE DEF c1
<1>4. u \in Update  BY DEF RemoveData, Update
<1> HIDE DEF u
<1>5. c2 \in Client /\ Alike(c1, c2) /\ SameTally(c1, c2)  BY <1>3, <1>4, SendHighFields
<1> HIDE DEF c2
<1>6. d \in Client /\ Alike(c2, d) /\ SameTally(c2, d) /\ Empty(d)  BY <1>5, UnwatchFields
<1> HIDE DEF d
<1> QED  BY <1>1, <1>3, <1>5, <1>6 DEF Alike, SameTally

LEMMA CountFields ==
  ASSUME NEW c \in Client
  PROVE  /\ SharedFileCount(c) \in Nat
         /\ ~c.enabled \/ Empty(c) => SharedFileCount(c) = 0
<1> DEFINE X == {x \in Name : c.refs[x] > 0}
<1>1. IsFiniteSet(Name) /\ X \subseteq Name  BY FolderAssumption
<1> HIDE DEF X
<1>2. IsFiniteSet(X)  BY <1>1, FS_Subset
<1>3. Cardinality(X) \in Nat  BY <1>2, FS_CardinalityType
<1>4. SharedFileCount(c) = IF c.enabled THEN Cardinality(X) ELSE 0  BY DEF SharedFileCount, X
<1>5. Empty(c) => Cardinality(X) = 0
  <2> SUFFICES ASSUME Empty(c) PROVE Cardinality(X) = 0  OBVIOUS
  <2>1. X = {}  BY DEF Empty, X
  <2> QED  BY <2>1, FS_EmptySet
<1> QED  BY <1>3, <1>4, <1>5

LEMMA SameCount ==
  ASSUME NEW c, NEW d, d.enabled = c.enabled, d.refs = c.refs
  PROVE  SharedFileCount(d) = SharedFileCount(c)
BY DEF SharedFileCount

\* The count that was sent last is right.
Fine(c) == c.lastSent = SharedFileCount(c) \/ (c.lastSent = -1 /\ SharedFileCount(c) = 0)

LEMMA UploadCountFields ==
  ASSUME NEW c \in Client, NEW free \in BOOLEAN
  PROVE  LET d == UploadSharedFileCount(c, free)
         IN  /\ d \in Client /\ Alike(c, d)
             /\ ~free => d = c
             /\ free /\ c.mtt # "none" => Fine(d)
             /\ (Fine(c) => Fine(d)) /\ (c.runner => d.runner \/ Fine(d))
<1> DEFINE n == SharedFileCount(c)
<1>0. n \in Int  BY CountFields
<1>1. CASE ~free
  <2>1. UploadSharedFileCount(c, free) = c  BY <1>1 DEF UploadSharedFileCount
  <2> QED  BY <1>1, <2>1 DEF Alike
<1>2. CASE free /\ n = c.lastSent
  <2> DEFINE d == [c EXCEPT !.runner = FALSE]
  <2>1. UploadSharedFileCount(c, free) = d  BY <1>2 DEF UploadSharedFileCount
  <2>2. d \in Client /\ Alike(c, d) /\ d.lastSent = c.lastSent /\ d.refs = c.refs /\ d.enabled = c.enabled
    BY Zenon DEF Client, Alike
  <2> HIDE DEF d
  <2>3. SharedFileCount(d) = n  BY <2>2, SameCount
  <2>4. Fine(d)  BY <1>2, <2>2, <2>3 DEF Fine
  <2> QED  BY <1>2, <2>1, <2>2, <2>4
<1>3. CASE free /\ n # c.lastSent /\ c.mtt = "none"
  <2>1. UploadSharedFileCount(c, free) = c  BY <1>3 DEF UploadSharedFileCount
  <2> QED  BY <1>3, <2>1 DEF Alike
<1>4. CASE free /\ n # c.lastSent /\ c.mtt # "none"
  <2> DEFINE d == [c EXCEPT !.lastSent = n]
  <2>1. UploadSharedFileCount(c, free) = d  BY <1>4 DEF UploadSharedFileCount
  <2> HIDE DEF n
  <2>2. d \in Client /\ Alike(c, d) /\ d.lastSent = n /\ d.refs = c.refs /\ d.enabled = c.enabled
    BY <1>0, Zenon DEF Client, Alike
  <2> HIDE DEF d
  <2>3. SharedFileCount(d) = n  BY <2>2, SameCount DEF n
  <2>4. Fine(d)  BY <2>2, <2>3 DEF Fine
  <2> QED  BY <1>4, <2>1, <2>2, <2>4
<1> QED  BY <1>1, <1>2, <1>3, <1>4

LEMMA StartRunnerFields ==
  ASSUME NEW c \in Client
  PROVE  LET d == StartFileCountRunner(c)
         IN  d \in Client /\ Alike(c, d) /\ d.runner
<1>1. CASE c.runner  BY <1>1 DEF StartFileCountRunner, Alike
<1>2. CASE ~c.runner
  <2> DEFINE e == UploadSharedFileCount(c, TRUE)
             d == [e EXCEPT !.runner = TRUE]
  <2>1. e \in Client /\ Alike(c, e)  BY UploadCountFields
  <2>2. StartFileCountRunner(c) = d  BY <1>2 DEF StartFileCountRunner
  <2> HIDE DEF e
  <2>3. d \in Client /\ Alike(e, d) /\ d.runner  BY <2>1, Zenon DEF Client, Alike
  <2> HIDE DEF d
  <2> QED  BY <2>1, <2>2, <2>3 DEF Alike
<1> QED  BY <1>1, <1>2

\* What the end of a batch leaves alone.
SameButWaiter(c, d) ==
    /\ d.mtt = c.mtt /\ d.enabled = c.enabled /\ d.tid = c.tid /\ d.pending = c.pending
    /\ d.lastSent = c.lastSent /\ d.runner = c.runner /\ d.refs = c.refs

LEMMA EndBatchFields ==
  ASSUME NEW c \in Client
  PROVE  LET d == EndScanSharesBatch(c)
         IN  d \in Client /\ SameButWaiter(c, d) /\ (c.tid = None => ~d.waiter)
<1>1. CASE c.tid # None  BY <1>1 DEF EndScanSharesBatch, SameButWaiter
<1>2. CASE c.tid = None
  <2> DEFINE d == [c EXCEPT !.waiter = FALSE]
  <2>1. EndScanSharesBatch(c) = d  BY <1>2 DEF EndScanSharesBatch
  <2>2. d \in Client /\ SameButWaiter(c, d) /\ ~d.waiter  BY Zenon DEF Client, SameButWaiter
  <2> HIDE DEF d
  <2> QED  BY <2>1, <2>2
<1> QED  BY <1>1, <1>2

-----------------------------------------------------------------------------
(***************************************************************************)
(* The invariant.                                                          *)
(***************************************************************************)
Threads == [1..Thread -> ScanThread]

\* Some thread of (th) is at work; a report is in (ib).
Busy(th)     == \E t \in 1..Thread : th[t].phase \notin {"unborn", "gone"}
Reported(ib) == \E i \in 1..Len(ib) : ib[i].kind = "report"

\* The count (c) has sent last matters: one that connects forgets it otherwise,
\* or starts a scan.
Counted(c) == c.mtt = "connected" \/ (c.mtt = "connecting" /\ ~c.enabled)

\* The count is right, or something will come that sends it again.
CountComes(c, th, ib) == Counted(c) => Fine(c) \/ c.runner \/ Busy(th) \/ Reported(ib)

\* Nobody waits for a scan that will not be reported.
Awaited(c) == c.waiter => c.tid # None

\* The lock is held by a thread that walks the folder.
Holds(l, th) == l # None => th[l].phase = "scan"

SharesInv ==
    /\ TypeOK /\ Holds(lock, thread)
    /\ ~Idle => client.tid = None
    /\ Idle => Awaited(client) /\ CountComes(client, thread, inbox)

\* The threads that were started go on as they were.
Elder(th, ti) == \A t \in 1..Thread : th[t].phase # "unborn" => ti[t] = th[t]

LEMMA ElderHolds ==
  ASSUME NEW l \in 0..Thread, NEW th, NEW ti, Elder(th, ti), Holds(l, th)
  PROVE  Holds(l, ti) /\ (l # None => Busy(ti))
<1>1. CASE l = None  BY <1>1 DEF Holds
<1>2. CASE l # None
  <2>0. l \in 1..Thread  BY <1>2, BoundAssumption DEF None
  <2>1. th[l].phase = "scan" /\ ti[l] = th[l]  BY <1>2, <2>0 DEF Holds, Elder
  <2> QED  BY <2>0, <2>1 DEF Holds, Busy
<1> QED  BY <1>1, <1>2

LEMMA SpoilingType ==
  ASSUME spoiled \subseteq {"cut", "removed", "skipped"}, Spoiling
  PROVE  spoiled' \subseteq {"cut", "removed", "skipped"}
BY DEF Spoiling

LEMMA NextThreadIsUnborn ==
  ASSUME Unborn # {}
  PROVE  NextThread \in 1..Thread /\ thread[NextThread].phase = "unborn" /\ NextThread # None
<1>1. Unborn \subseteq Nat  BY DEF Unborn
<1>2. PICK t \in Unborn : \A u \in Unborn : t <= u  BY <1>1, LeastElement
<1>3. NextThread \in Unborn  BY <1>2 DEF NextThread
<1> QED  BY <1>3 DEF Unborn, None

\* What ReuploadFiles and Rest have in common.
Makes(c, th, d, ti) ==
    /\ d \in Client /\ ti \in Threads /\ Elder(th, ti) /\ Awaited(d)
    /\ Counted(d) => Fine(d) \/ d.runner \/ Busy(ti)

LEMMA ReuploadMakes ==
  ASSUME thread \in Threads, NEW c \in Client, NEW code \in Codes, c.tid = None, ReuploadFiles(c, code)
  PROVE  Makes(c, thread, client', thread')
<1>1. CASE c.mtt = "none"
  <2>1. client' = EndScanSharesBatch(c) /\ thread' = thread  BY <1>1 DEF ReuploadFiles
  <2>2. client' \in Client /\ SameButWaiter(c, client') /\ ~client'.waiter  BY <2>1, EndBatchFields
  <2>3. ~Counted(client')  BY <1>1, <2>2 DEF Counted, SameButWaiter
  <2> QED  BY <2>1, <2>2, <2>3 DEF Makes, Elder, Awaited
<1>2. CASE c.mtt # "none"
  <2> DEFINE e == IF code = {} THEN RemoveFileSharing(c) ELSE c
             t == NextThread
             d == [e EXCEPT !.tid = t, !.mounts = TRUE]
             ti == [thread EXCEPT ![t] = Spawned(code)]
  <2>1. Unborn # {} /\ client' = d /\ thread' = ti  BY <1>2 DEF ReuploadFiles
  <2>2. t \in 1..Thread /\ thread[t].phase = "unborn" /\ t # None  BY <2>1, NextThreadIsUnborn
  <2> HIDE DEF t
  <2>3. e \in Client  BY RemoveFileSharingFields
  <2> HIDE DEF e
  <2>4. d \in Client /\ d.tid = t
    <3>1. t \in 0..Thread  BY <2>2
    <3> QED  BY <2>3, <3>1, Zenon DEF Client
  <2>5. Spawned(code) \in ScanThread /\ Spawned(code).phase \notin {"unborn", "gone"}
    BY DEF Spawned, ScanThread
  <2>6. ti \in Threads /\ Elder(thread, ti) /\ Busy(ti)
    <3> DEFINE s == Spawned(code)
    <3> HIDE DEF s
    <3>1. s \in ScanThread /\ s.phase \notin {"unborn", "gone"}  BY <2>5 DEF s
    <3>2. ti = [thread EXCEPT ![t] = s]  BY DEF s
    <3> HIDE DEF ti
    <3>3. ti \in Threads  BY <3>1, <3>2 DEF Threads
    <3>4. ti[t] = s /\ \A u \in 1..Thread : u # t => ti[u] = thread[u]  BY <2>2, <3>2 DEF Threads
    <3>5. Elder(thread, ti)  BY <2>2, <3>4 DEF Elder
    <3>6. Busy(ti)  BY <2>2, <3>1, <3>4 DEF Busy
    <3> QED  BY <3>3, <3>5, <3>6
  <2> HIDE DEF d, ti
  <2> QED  BY <2>1, <2>2, <2>4, <2>6 DEF Makes, Awaited
<1> QED  BY <1>1, <1>2

\* A client that has disconnected.
LEMMA DisconnectedFields ==
  ASSUME NEW c \in Client, c.tid = None
  PROVE  LET d == Disconnected(c)
         IN  d \in Client /\ ~d.waiter /\ d.tid = None /\ d.mtt = "none" /\ d.lastSent = -1
             /\ d.enabled = c.enabled
<1> DEFINE e == EndScanSharesBatch(c)
           c1 == [e EXCEPT !.runner = FALSE, !.lastSent = -1,
                    !.low = <<>>, !.sending = FALSE, !.listed = {}, !.mtt = "none"]
           d == UnwatchAllDirs(c1)
<1>1. Disconnected(c) = IF c.mtt = "none" THEN c1 ELSE d  BY DEF Disconnected
<1>2. e \in Client /\ SameButWaiter(c, e) /\ ~e.waiter  BY EndBatchFields
<1> HIDE DEF e
<1>3. c1 \in Client /\ c1.mtt = "none" /\ c1.lastSent = -1 /\ c1.enabled = e.enabled /\ c1.tid = e.tid
      /\ c1.waiter = e.waiter
  <2> DEFINE m == -1
             f == [e EXCEPT !.runner = FALSE, !.lastSent = m,
                    !.low = <<>>, !.sending = FALSE, !.listed = {}, !.mtt = "none"]
  <2>1. m \in Int  OBVIOUS
  <2>2. <<>> \in Seq(Update)  BY EmptySeq
  <2> HIDE DEF m
  <2>3. f \in Client /\ f.mtt = "none" /\ f.lastSent = m /\ f.enabled = e.enabled /\ f.tid = e.tid
      /\ f.waiter = e.waiter
    BY <1>2, <2>1, <2>2, Zenon DEF Client
  <2> QED  BY <2>3 DEF m
<1> HIDE DEF c1
<1>4. d \in Client /\ Alike(c1, d) /\ SameTally(c1, d)  BY <1>3, UnwatchFields
<1> HIDE DEF d
<1> QED  BY <1>1, <1>2, <1>3, <1>4 DEF Alike, SameTally, SameButWaiter

Ops == {"reupload", "disconnect", "connect", "sharing"}

LEMMA RestMakes ==
  ASSUME thread \in Threads, lock \in 0..Thread, Holds(lock, thread),
         NEW c \in Client, c.tid = None, NEW op \in Ops, Rest(c, op)
  PROVE  Makes(c, thread, client', thread')
<1>0. Elder(thread, thread)  BY DEF Elder
<1>1. CASE op = "reupload"
  <2>1. ReuploadFiles(c, {})  BY <1>1 DEF Rest
  <2>2. {} \in Codes  BY DEF Codes
  <2> QED  BY <2>1, <2>2, ReuploadMakes
<1>2. CASE op = "disconnect"
  <2>1. client' = Disconnected(c) /\ thread' = thread  BY <1>2 DEF Rest
  <2>2. client' \in Client /\ ~client'.waiter /\ client'.mtt = "none"  BY <2>1, DisconnectedFields
  <2> QED  BY <1>0, <2>1, <2>2 DEF Makes, Awaited, Counted
<1>3. CASE op = "connect"
  <2> DEFINE d == Disconnected(c)
             e == [d EXCEPT !.mtt = "connecting"]
  <2>1. client' = e /\ thread' = thread  BY <1>3 DEF Rest
  <2>2. d \in Client /\ ~d.waiter /\ d.tid = None /\ d.lastSent = -1  BY DisconnectedFields
  <2> HIDE DEF d
  <2>3. e \in Client /\ ~e.waiter /\ e.lastSent = -1 /\ e.mtt = "connecting"
    <3>1. e \in Client /\ e.waiter = d.waiter /\ e.lastSent = d.lastSent /\ e.mtt = "connecting"
      BY <2>2, Zenon DEF Client
    <3> QED  BY <2>2, <3>1
  <2> HIDE DEF e
  <2>4. Counted(e) => Fine(e)
    <3>1. ~e.enabled => SharedFileCount(e) = 0  BY <2>3, CountFields
    <3> QED  BY <2>3, <3>1 DEF Counted, Fine
  <2> QED  BY <1>0, <2>1, <2>3, <2>4 DEF Makes, Awaited
<1>4. CASE op = "sharing" /\ c.enabled
  <2> DEFINE e == EndScanSharesBatch(c)
  <2>1. ReuploadFiles(e, {})  BY <1>4 DEF Rest
  <2>2. {} \in Codes  BY DEF Codes
  <2>3. e \in Client /\ e.tid = None  BY EndBatchFields DEF SameButWaiter
  <2> HIDE DEF e
  <2>4. Makes(e, thread, client', thread')  BY <2>1, <2>2, <2>3, ReuploadMakes
  <2> QED  BY <2>4 DEF Makes
<1>5. CASE op = "sharing" /\ ~c.enabled
  <2> DEFINE e == EndScanSharesBatch(c)
             r == RemoveFileSharing(e)
             d == UploadSharedFileCount(r, lock = None)
  <2>1. client' = d /\ thread' = thread  BY <1>5 DEF Rest
  <2>2. e \in Client /\ e.tid = None /\ ~e.waiter  BY EndBatchFields DEF SameButWaiter
  <2> HIDE DEF e
  <2>3. r \in Client /\ Alike(e, r)  BY <2>2, RemoveFileSharingFields
  <2> HIDE DEF r
  <2>4. d \in Client /\ Alike(r, d) /\ (lock = None /\ r.mtt # "none" => Fine(d))
    <3> DEFINE free == lock = None
    <3>1. free \in BOOLEAN  OBVIOUS
    <3> HIDE DEF free
    <3>2. LET x == UploadSharedFileCount(r, free)
          IN  x \in Client /\ Alike(r, x) /\ (free /\ r.mtt # "none" => Fine(x))
      BY <2>3, <3>1, UploadCountFields
    <3> QED  BY <3>2 DEF free
  <2> HIDE DEF d
  <2>5. Counted(d) => Fine(d) \/ Busy(thread)
    <3>1. Counted(d) => r.mtt # "none"  BY <2>4 DEF Counted, Alike
    <3>2. lock # None => Busy(thread)  BY <1>0, ElderHolds
    <3> QED  BY <2>4, <3>1, <3>2
  <2>6. Awaited(d)  BY <2>2, <2>3, <2>4 DEF Awaited, Alike
  <2> QED  BY <1>0, <2>1, <2>4, <2>5, <2>6 DEF Makes
<1> QED  BY <1>1, <1>2, <1>3, <1>4, <1>5 DEF Ops

-----------------------------------------------------------------------------
(***************************************************************************)
(* The window's thread.                                                    *)
(***************************************************************************)
Calls == {NoCall} \cup [op : Ops, wait : 1..Thread]

LEMMA InvFields ==
  ASSUME SharesInv
  PROVE  /\ disk \subseteq Node /\ deleted \subseteq Node /\ changes \in 0..MaxChanges
         /\ client \in Client /\ thread \in Threads /\ lock \in 0..Thread /\ inbox \in Seq(Message)
         /\ call \in Calls /\ spoiled \subseteq {"cut", "removed", "skipped"} /\ Holds(lock, thread)
         /\ ~Idle => client.tid = None
         /\ Idle => Awaited(client) /\ CountComes(client, thread, inbox)
BY DEF SharesInv, TypeOK, Threads, Calls, Ops

\* A handler that leaves the folder and the lock alone.
LEMMA HandlerKeeps ==
  ASSUME SharesInv, Spoiling, UNCHANGED <<disk, deleted, changes, lock>>,
         client' \in Client, thread' \in Threads, Elder(thread, thread'), inbox' \in Seq(Message),
         call' \in Calls, call' # NoCall => client'.tid = None,
         call' = NoCall => Awaited(client') /\ CountComes(client', thread', inbox')
  PROVE  SharesInv'
<1>1. spoiled' \subseteq {"cut", "removed", "skipped"}  BY InvFields, SpoilingType
<1>2. Holds(lock', thread')
  <2>1. Holds(lock, thread')  BY InvFields, ElderHolds
  <2> QED  BY <2>1 DEF Holds
<1>3. TypeOK'  BY <1>1, InvFields DEF TypeOK, Threads, Calls, Ops
<1> QED  BY <1>2, <1>3 DEF SharesInv, Idle

LEMMA MakesComes ==
  ASSUME NEW c, NEW th, NEW d, NEW ti, NEW ib, Makes(c, th, d, ti)
  PROVE  Awaited(d) /\ CountComes(d, ti, ib)
BY DEF Makes, CountComes

LEMMA AbortKeeps ==
  ASSUME SharesInv, Spoiling, UNCHANGED <<disk, deleted, changes, lock, inbox>>, Idle,
         NEW c \in Client, NEW op \in Ops, AbortScanSharesThread(c, op)
  PROVE  SharesInv'
<1>0. thread \in Threads /\ lock \in 0..Thread /\ Holds(lock, thread) /\ inbox' \in Seq(Message) /\ call \in Calls
  BY InvFields
<1>1. CASE c.tid = None
  <2>1. Rest(c, op) /\ call' = call /\ call = NoCall  BY <1>1 DEF AbortScanSharesThread, Idle
  <2>2. Makes(c, thread, client', thread')  BY <1>0, <1>1, <2>1, RestMakes
  <2>3. client' \in Client /\ thread' \in Threads /\ Elder(thread, thread')  BY <2>2 DEF Makes
  <2>4. Awaited(client') /\ CountComes(client', thread', inbox')  BY <2>2, MakesComes
  <2> QED  BY <1>0, <2>1, <2>3, <2>4, HandlerKeeps
<1>2. CASE c.tid # None
  <2> DEFINE d == [c EXCEPT !.tid = None]
  <2>1. client' = d /\ call' = [op |-> op, wait |-> c.tid] /\ thread' = thread
    BY <1>2 DEF AbortScanSharesThread
  <2>2. d \in Client /\ d.tid = None
    <3>1. None \in 0..Thread  BY BoundAssumption DEF None
    <3> HIDE DEF None
    <3> QED  BY <3>1, Zenon DEF Client
  <2>3. call' \in Calls /\ call' # NoCall
    <3>1. c.tid \in 1..Thread
      <4>1. c.tid \in 0..Thread  BY ClientFields
      <4> QED  BY <1>2, <4>1, BoundAssumption DEF None
    <3>2. op # "none"  BY DEF Ops
    <3>3. call'.op = op /\ NoCall.op = "none"  BY <2>1 DEF NoCall
    <3> QED  BY <2>1, <3>1, <3>2, <3>3 DEF Calls
  <2>4. Elder(thread, thread')  BY <2>1 DEF Elder
  <2> HIDE DEF d
  <2>5. client' \in Client /\ thread' \in Threads /\ client'.tid = None  BY <1>0, <2>1, <2>2
  <2> QED  BY <1>0, <2>3, <2>4, <2>5, HandlerKeeps
<1> QED  BY <1>1, <1>2

LEMMA ThreadGoneKeeps ==
  ASSUME SharesInv, ThreadGone
  PROVE  SharesInv'
<1>0. /\ thread \in Threads /\ lock \in 0..Thread /\ Holds(lock, thread) /\ inbox \in Seq(Message) /\ call \in Calls
      /\ client \in Client
  BY InvFields
<1>1. /\ call # NoCall /\ Rest(client, call.op) /\ call' = NoCall /\ UNCHANGED <<disk, deleted, changes, lock, inbox>>
      /\ Spoiling
  BY DEF ThreadGone
<1>2. client.tid = None  BY <1>1, InvFields DEF Idle
<1>3. call.op \in Ops  BY <1>0, <1>1 DEF Calls
<1>4. Makes(client, thread, client', thread')  BY <1>0, <1>1, <1>2, <1>3, RestMakes
<1>5. client' \in Client /\ thread' \in Threads /\ Elder(thread, thread')  BY <1>4 DEF Makes
<1>6. Awaited(client') /\ CountComes(client', thread', inbox')  BY <1>4, MakesComes
<1>7. call' \in Calls /\ inbox' \in Seq(Message)  BY <1>0, <1>1 DEF Calls
<1> QED  BY <1>1, <1>5, <1>6, <1>7, HandlerKeeps

\* A handler that changes neither the threads nor what counts.
LEMMA QuietKeeps ==
  ASSUME SharesInv, Spoiling, UNCHANGED <<disk, deleted, changes, lock, thread, call>>,
         client' \in Client, client'.tid = client.tid, inbox' \in Seq(Message),
         Idle => Awaited(client') /\ CountComes(client', thread', inbox')
  PROVE  SharesInv'
<1>1. /\ thread' \in Threads /\ call' \in Calls /\ Elder(thread, thread')  BY InvFields DEF Elder
<1>2. call' # NoCall => client'.tid = None  BY InvFields DEF Idle
<1>3. call' = NoCall => Awaited(client') /\ CountComes(client', thread', inbox')  BY DEF Idle
<1> QED  BY <1>1, <1>2, <1>3, HandlerKeeps

LEMMA AlikeComes ==
  ASSUME NEW c, NEW d, NEW th, NEW ib, Alike(c, d), SameTally(c, d), d.refs = c.refs,
         Awaited(c), CountComes(c, th, ib)
  PROVE  Awaited(d) /\ CountComes(d, th, ib)
<1>1. SharedFileCount(d) = SharedFileCount(c)  BY SameCount DEF Alike
<1>2. Fine(d) <=> Fine(c)  BY <1>1 DEF Fine, SameTally
<1> QED  BY <1>2 DEF Alike, SameTally, Awaited, CountComes, Counted

LEMMA CommandKeeps ==
  ASSUME SharesInv, Command
  PROVE  SharesInv'
<1>0. /\ client \in Client /\ thread \in Threads /\ inbox \in Seq(Message)
      /\ Idle => Awaited(client) /\ CountComes(client, thread, inbox)
  BY InvFields
<1>1. CASE ConnectToServer
  <2>1. "connect" \in Ops  BY DEF Ops
  <2> QED  BY <1>0, <1>1, <2>1, AbortKeeps DEF ConnectToServer
<1>2. CASE DisconnectFromServer
  <2>1. "disconnect" \in Ops  BY DEF Ops
  <2> QED  BY <1>0, <1>2, <2>1, AbortKeeps DEF DisconnectFromServer
<1>3. CASE SetFileSharingEnabled
  <2> DEFINE e == ~client.enabled
             c == [client EXCEPT !.enabled = e]
  <2>1. "sharing" \in Ops  BY DEF Ops
  <2>2. e \in BOOLEAN  OBVIOUS
  <2>3. /\ Spoiling /\ UNCHANGED <<disk, deleted, changes, lock, inbox>> /\ Idle
        /\ AbortScanSharesThread(c, "sharing")
    BY <1>3 DEF SetFileSharingEnabled
  <2> HIDE DEF e
  <2>4. c \in Client  BY <1>0, <2>2, Zenon DEF Client
  <2> HIDE DEF c
  <2> QED  BY <2>1, <2>3, <2>4, AbortKeeps
<1>4. CASE SessionConnected
  <2> DEFINE c == [client EXCEPT !.mtt = "connected"]
  <2>1. "reupload" \in Ops  BY DEF Ops
  <2>2. /\ Spoiling /\ UNCHANGED <<disk, deleted, changes, lock, inbox>> /\ Idle /\ client.mtt = "connecting"
        /\ IF c.enabled THEN AbortScanSharesThread(c, "reupload") ELSE client' = c /\ UNCHANGED <<thread, call>>
    BY <1>4 DEF SessionConnected
  <2>3. /\ c \in Client /\ c.enabled = client.enabled /\ c.refs = client.refs /\ c.lastSent = client.lastSent
        /\ c.runner = client.runner /\ c.tid = client.tid /\ c.waiter = client.waiter
    BY <1>0, Zenon DEF Client
  <2> HIDE DEF c
  <2>4. CASE c.enabled  BY <2>1, <2>2, <2>3, <2>4, AbortKeeps
  <2>5. CASE ~c.enabled
    <3>1. Counted(client)  BY <2>2, <2>3, <2>5 DEF Counted
    <3>2. SharedFileCount(c) = SharedFileCount(client)  BY <2>3, SameCount
    <3>3. Awaited(c) /\ CountComes(c, thread, inbox)
      BY <1>0, <2>2, <2>3, <3>1, <3>2 DEF Awaited, CountComes, Fine
    <3> QED  BY <1>0, <2>2, <2>3, <2>5, <3>3, QuietKeeps
  <2> QED  BY <2>4, <2>5
<1>5. CASE SetFirewalled
  <2> DEFINE f == ~client.firewalled
             c == [client EXCEPT !.firewalled = f]
  <2>1. "reupload" \in Ops  BY DEF Ops
  <2>2. /\ Spoiling /\ UNCHANGED <<disk, deleted, changes, lock, inbox>> /\ Idle
        /\ IF c.mtt = "connected" THEN AbortScanSharesThread(c, "reupload") ELSE client' = c /\ UNCHANGED <<thread, call>>
    BY <1>5 DEF SetFirewalled
  <2>3. f \in BOOLEAN  OBVIOUS
  <2> HIDE DEF f
  <2>4. c \in Client /\ Alike(client, c) /\ SameTally(client, c) /\ c.refs = client.refs
    BY <1>0, <2>3, Zenon DEF Client, Alike, SameTally
  <2> HIDE DEF c
  <2>5. CASE c.mtt = "connected"  BY <2>1, <2>2, <2>4, <2>5, AbortKeeps
  <2>6. CASE c.mtt # "connected"
    <3>1. Awaited(c) /\ CountComes(c, thread, inbox)  BY <1>0, <2>2, <2>4, AlikeComes
    <3>2. c.tid = client.tid  BY <2>4 DEF Alike
    <3> QED  BY <1>0, <2>2, <2>4, <2>6, <3>1, <3>2, QuietKeeps
  <2> QED  BY <2>5, <2>6
<1> QED  BY <1>1, <1>2, <1>3, <1>4, <1>5 DEF Command

LEMMA DrainedKeeps ==
  ASSUME SharesInv, OutputQueuesDrained
  PROVE  SharesInv'
<1>0. /\ client \in Client /\ inbox \in Seq(Message)
      /\ Idle => Awaited(client) /\ CountComes(client, thread, inbox)
  BY InvFields
<1> DEFINE c == [client EXCEPT !.sending = FALSE]
<1>1. /\ Spoiling /\ Idle /\ UNCHANGED <<disk, deleted, changes, thread, lock, inbox, call>>
      /\ \E k \in 1..(IF client.low = <<>> THEN 1 ELSE Len(client.low)) :
           client' = CheckSendMoreLowPriorityMessages(c, k)
  BY DEF OutputQueuesDrained
<1>2. c \in Client /\ Alike(client, c) /\ SameTally(client, c) /\ c.refs = client.refs
  BY <1>0, Zenon DEF Client, Alike, SameTally
<1>3. PICK k \in 1..(IF client.low = <<>> THEN 1 ELSE Len(client.low)) :
           client' = CheckSendMoreLowPriorityMessages(c, k)
  BY <1>1
<1> HIDE DEF c
<1>4. k \in Nat  OBVIOUS
<1>5. client' \in Client /\ Alike(c, client') /\ SameTally(c, client') /\ client'.refs = c.refs
  BY <1>2, <1>3, <1>4, CheckSendFields
<1>6. Awaited(c) /\ CountComes(c, thread, inbox)  BY <1>0, <1>1, <1>2, AlikeComes
<1>7. Awaited(client') /\ CountComes(client', thread, inbox)  BY <1>5, <1>6, AlikeComes
<1>8. client'.tid = client.tid  BY <1>2, <1>5 DEF Alike
<1> QED  BY <1>0, <1>1, <1>5, <1>7, <1>8, QuietKeeps

LEMMA CheckFileCountKeeps ==
  ASSUME SharesInv, CheckFileCount
  PROVE  SharesInv'
<1>0. /\ client \in Client /\ inbox \in Seq(Message)
      /\ Idle => Awaited(client) /\ CountComes(client, thread, inbox)
  BY InvFields
<1>1. /\ Spoiling /\ Idle /\ UNCHANGED <<disk, deleted, changes, thread, lock, inbox, call>>
      /\ client' = UploadSharedFileCount(client, lock = None)
  BY DEF CheckFileCount
<1>2. /\ client' \in Client /\ Alike(client, client')
      /\ (Fine(client) => Fine(client')) /\ (client.runner => client'.runner \/ Fine(client'))
  <2> DEFINE free == lock = None
  <2>1. free \in BOOLEAN  OBVIOUS
  <2>2. client' = UploadSharedFileCount(client, free)  BY <1>1
  <2> HIDE DEF free
  <2> QED  BY <1>0, <2>1, <2>2, UploadCountFields
<1>3. Awaited(client') /\ CountComes(client', thread, inbox)
  BY <1>0, <1>1, <1>2 DEF Alike, Awaited, CountComes, Counted
<1>4. client'.tid = client.tid  BY <1>2 DEF Alike
<1> QED  BY <1>0, <1>1, <1>2, <1>3, <1>4, QuietKeeps

LEMMA FileListArrivesKeeps ==
  ASSUME SharesInv, FileListArrives
  PROVE  SharesInv'
<1>0. /\ client \in Client /\ inbox \in Seq(Message)
      /\ Idle => Awaited(client) /\ CountComes(client, thread, inbox)
  BY InvFields
<1> DEFINE d == [client EXCEPT !.waiter = TRUE]
<1>1. /\ Spoiling /\ Idle /\ UNCHANGED <<disk, deleted, changes, thread, lock, inbox, call>>
      /\ client' = d /\ client.tid # None
  BY DEF FileListArrives
<1>2. d \in Client /\ SameButWaiter(client, d)  BY <1>0, Zenon DEF Client, SameButWaiter
<1> HIDE DEF d
<1>3. SharedFileCount(d) = SharedFileCount(client)  BY <1>2, SameCount DEF SameButWaiter
<1>4. Awaited(d) /\ CountComes(d, thread, inbox)
  BY <1>0, <1>1, <1>2, <1>3 DEF SameButWaiter, Awaited, CountComes, Counted, Fine
<1>5. d.tid = client.tid  BY <1>2 DEF SameButWaiter
<1> QED  BY <1>0, <1>1, <1>2, <1>4, <1>5, QuietKeeps

LEMMA ScanReportedKeeps ==
  ASSUME SharesInv, ScanReported
  PROVE  SharesInv'
<1>0. /\ client \in Client /\ inbox \in Seq(Message) /\ thread \in Threads /\ call \in Calls
      /\ lock \in 0..Thread /\ Holds(lock, thread)
  BY InvFields
<1> DEFINE b == [client EXCEPT !.tid = None]
           c == UploadSharedFileCount(b, lock = None)
<1>1. /\ Spoiling /\ Idle /\ inbox # <<>> /\ inbox' = Tail(inbox)
      /\ UNCHANGED <<disk, deleted, changes, lock, call>>
      /\ IF c.pending = {} THEN client' = EndScanSharesBatch(c) /\ UNCHANGED thread
         ELSE ReuploadFiles([c EXCEPT !.pending = {}], c.pending)
  BY DEF ScanReported
<1>2. b \in Client /\ b.tid = None
  <2>1. None \in 0..Thread  BY BoundAssumption DEF None
  <2> HIDE DEF None
  <2> QED  BY <1>0, <2>1, Zenon DEF Client
<1> HIDE DEF b
<1>3. c \in Client /\ c.tid = None /\ (lock = None /\ c.mtt # "none" => Fine(c))
  <2> DEFINE free == lock = None
             x == UploadSharedFileCount(b, free)
  <2>1. free \in BOOLEAN /\ c = x  OBVIOUS
  <2> HIDE DEF free, c
  <2>2. x \in Client /\ Alike(b, x) /\ (free /\ b.mtt # "none" => Fine(x))
    BY <1>2, <2>1, UploadCountFields
  <2> HIDE DEF x
  <2> QED  BY <1>2, <2>1, <2>2 DEF Alike, free
<1> HIDE DEF c
<1>4. inbox' \in Seq(Message)  BY <1>0, <1>1, HeadTailProperties
<1>5. Elder(thread, thread)  BY DEF Elder
<1>6. CASE c.pending = {}
  <2>1. client' = EndScanSharesBatch(c) /\ thread' = thread  BY <1>1, <1>6
  <2>2. client' \in Client /\ SameButWaiter(c, client') /\ ~client'.waiter  BY <1>3, <2>1, EndBatchFields
  <2>3. SharedFileCount(client') = SharedFileCount(c)  BY <2>2, SameCount DEF SameButWaiter
  <2>4. Counted(client') => Fine(client') \/ Busy(thread)
    <3>1. Counted(client') => c.mtt # "none"  BY <2>2 DEF Counted, SameButWaiter
    <3>2. lock # None => Busy(thread)  BY <1>0, <1>5, ElderHolds
    <3>3. Fine(c) => Fine(client')  BY <2>2, <2>3 DEF Fine, SameButWaiter
    <3> QED  BY <1>3, <3>1, <3>2, <3>3
  <2>5. Awaited(client') /\ CountComes(client', thread', inbox')
    BY <2>1, <2>2, <2>4 DEF Awaited, CountComes
  <2>6. call' = NoCall /\ call' \in Calls /\ thread' \in Threads  BY <1>0, <1>1, <2>1 DEF Idle
  <2> QED  BY <1>1, <1>4, <1>5, <2>1, <2>2, <2>5, <2>6, HandlerKeeps
<1>7. CASE c.pending # {}
  <2> DEFINE e == [c EXCEPT !.pending = {}]
  <2>1. ReuploadFiles(e, c.pending)  BY <1>1, <1>7
  <2>2. e \in Client /\ e.tid = c.tid
    <3>1. {} \in Codes  BY DEF Codes
    <3> QED  BY <1>3, <3>1, Zenon DEF Client
  <2> HIDE DEF e
  <2>3. c.pending \in Codes  BY <1>3, ClientFields
  <2>4. Makes(e, thread, client', thread')  BY <1>0, <1>3, <2>1, <2>2, <2>3, ReuploadMakes
  <2>5. client' \in Client /\ thread' \in Threads /\ Elder(thread, thread')  BY <2>4 DEF Makes
  <2>6. Awaited(client') /\ CountComes(client', thread', inbox')  BY <2>4, MakesComes
  <2>7. call' = NoCall /\ call' \in Calls  BY <1>0, <1>1 DEF Idle
  <2> QED  BY <1>1, <1>4, <2>5, <2>6, <2>7, HandlerKeeps
<1> QED  BY <1>6, <1>7

\* A report stays in the inbox when another message is taken out.
LEMMA ReportStays ==
  ASSUME NEW ib \in Seq(Message), ib # <<>>, Head(ib).kind # "report", Reported(ib)
  PROVE  Reported(Tail(ib))
<1>1. PICK i \in 1..Len(ib) : ib[i].kind = "report"  BY DEF Reported
<1>2. Head(ib) = ib[1] /\ Len(ib) \in Nat /\ Len(Tail(ib)) = Len(ib) - 1
      /\ \A j \in 1..Len(Tail(ib)) : Tail(ib)[j] = ib[j + 1]
  BY HeadTailProperties, LenProperties
<1>3. i # 1  BY <1>1, <1>2
<1>4. i - 1 \in 1..Len(Tail(ib)) /\ (i - 1) + 1 = i  BY <1>2, <1>3
<1>5. Tail(ib)[i - 1] = ib[i]  BY <1>2, <1>4
<1> QED  BY <1>1, <1>4, <1>5 DEF Reported

LEMMA TailKeeps ==
  ASSUME SharesInv, Idle, inbox # <<>>, Head(inbox).kind # "report"
  PROVE  Tail(inbox) \in Seq(Message) /\ CountComes(client, thread, Tail(inbox))
<1>1. inbox \in Seq(Message) /\ CountComes(client, thread, inbox)  BY InvFields
<1>2. Tail(inbox) \in Seq(Message)  BY <1>1, HeadTailProperties
<1>3. Reported(inbox) => Reported(Tail(inbox))  BY <1>1, ReportStays
<1> QED  BY <1>1, <1>2, <1>3 DEF CountComes

LEMMA VolumesChangedKeeps ==
  ASSUME SharesInv, VolumesChanged
  PROVE  SharesInv'
<1>0. client \in Client /\ thread \in Threads /\ call \in Calls /\ (Idle => Awaited(client))  BY InvFields
<1> DEFINE code == IF Head(inbox).kind = "mounted" THEN {"adds"} ELSE {"removes"}
<1>1. /\ Spoiling /\ Idle /\ inbox # <<>> /\ inbox' = Tail(inbox)
      /\ UNCHANGED <<disk, deleted, changes, lock, call>>
      /\ Head(inbox).kind \in {"mounted", "unmounted"}
      /\ IF ~client.enabled THEN UNCHANGED <<client, thread>>
         ELSE IF client.tid # None
         THEN client' = [client EXCEPT !.pending = @ \cup code] /\ UNCHANGED thread
         ELSE ReuploadFiles(client, code)
  BY DEF VolumesChanged
<1>2. Head(inbox).kind # "report"  BY <1>1
<1>3. inbox' \in Seq(Message) /\ CountComes(client, thread, inbox')  BY <1>1, <1>2, TailKeeps
<1>4. code \in Codes  BY DEF Codes
<1> HIDE DEF code
<1>5. CASE ~client.enabled
  <2>1. client' = client /\ thread' = thread  BY <1>1, <1>5
  <2> QED  BY <1>0, <1>1, <1>3, <2>1, QuietKeeps
<1>6. CASE client.enabled /\ client.tid # None
  <2> DEFINE p == client.pending \cup code
             d == [client EXCEPT !.pending = p]
  <2>1. client' = d /\ thread' = thread  BY <1>1, <1>6
  <2>2. p \in Codes  BY <1>0, <1>4, ClientFields DEF Codes
  <2> HIDE DEF p
  <2>3. /\ d \in Client /\ d.mtt = client.mtt /\ d.enabled = client.enabled /\ d.tid = client.tid
        /\ d.waiter = client.waiter /\ SameTally(client, d) /\ d.refs = client.refs
    BY <1>0, <2>2, Zenon DEF Client, SameTally
  <2> HIDE DEF d
  <2>4. SharedFileCount(d) = SharedFileCount(client)  BY <2>3, SameCount
  <2>5. Awaited(d) /\ CountComes(d, thread, inbox')
    BY <1>0, <1>1, <1>3, <2>3, <2>4 DEF Awaited, CountComes, Counted, Fine, SameTally
  <2> QED  BY <1>1, <1>3, <2>1, <2>3, <2>5, QuietKeeps
<1>7. CASE client.enabled /\ client.tid = None
  <2>1. ReuploadFiles(client, code)  BY <1>1, <1>7
  <2>2. Makes(client, thread, client', thread')  BY <1>0, <1>4, <1>7, <2>1, ReuploadMakes
  <2>3. client' \in Client /\ thread' \in Threads /\ Elder(thread, thread')  BY <2>2 DEF Makes
  <2>4. Awaited(client') /\ CountComes(client', thread', inbox')  BY <2>2, MakesComes
  <2>5. call' = NoCall /\ call' \in Calls  BY <1>0, <1>1 DEF Idle
  <2> QED  BY <1>1, <1>3, <2>3, <2>4, <2>5, HandlerKeeps
<1> QED  BY <1>5, <1>6, <1>7

LEMMA EntryChangedKeeps ==
  ASSUME SharesInv, EntryChanged
  PROVE  SharesInv'
<1>0. /\ client \in Client /\ thread \in Threads /\ call \in Calls /\ (Idle => Awaited(client))
      /\ inbox \in Seq(Message)
  BY InvFields
<1> DEFINE m == Head(inbox)
           c1 == IF m.kind = "created" THEN client ELSE NodeRemoved(client, m.node)
           c2 == IF m.kind = "removed" THEN c1 ELSE NodeCreated(c1, m.node)
<1>1. /\ Spoiling /\ Idle /\ inbox # <<>> /\ inbox' = Tail(inbox)
      /\ UNCHANGED <<disk, deleted, changes, thread, lock, call>>
      /\ m.kind \in {"created", "removed", "moved"}
      /\ client' = IF client.enabled THEN StartFileCountRunner(c2) ELSE client
  BY DEF EntryChanged
<1>2. m \in Message  BY <1>0, <1>1, HeadTailProperties
<1> HIDE DEF m
<1>3. m.kind # "report"  BY <1>1
<1>4. inbox' \in Seq(Message) /\ CountComes(client, thread, inbox')  BY <1>1, <1>3, TailKeeps DEF m
<1>5. CASE ~client.enabled
  <2>1. client' = client  BY <1>1, <1>5
  <2> QED  BY <1>0, <1>1, <1>4, <2>1, QuietKeeps
<1>6. CASE client.enabled
  <2>1. m.node \in Node  BY <1>1, <1>2 DEF Message
  <2>2. c1 \in Client /\ Alike(client, c1)
    <3>1. CASE m.kind = "created"  BY <1>0, <3>1 DEF Alike
    <3>2. CASE m.kind # "created"
      <4>1. c1 = NodeRemoved(client, m.node)  BY <3>2
      <4> QED  BY <1>0, <2>1, <4>1, NodeRemovedFields
    <3> QED  BY <3>1, <3>2
  <2> HIDE DEF c1
  <2>3. c2 \in Client /\ Alike(c1, c2)
    <3>1. CASE m.kind = "removed"  BY <2>2, <3>1 DEF Alike
    <3>2. CASE m.kind # "removed"
      <4>1. c2 = NodeCreated(c1, m.node)  BY <3>2
      <4> QED  BY <2>1, <2>2, <4>1, NodeCreatedFields
    <3> QED  BY <3>1, <3>2
  <2> HIDE DEF c2
  <2>4. client' = StartFileCountRunner(c2)  BY <1>1, <1>6
  <2>5. client' \in Client /\ Alike(c2, client') /\ client'.runner  BY <2>3, <2>4, StartRunnerFields
  <2>6. client'.tid = client.tid /\ client'.waiter = client.waiter  BY <2>2, <2>3, <2>5 DEF Alike
  <2>7. Awaited(client') /\ CountComes(client', thread', inbox')
    BY <1>0, <1>1, <2>5, <2>6 DEF Awaited, CountComes
  <2> QED  BY <1>1, <1>4, <2>5, <2>6, <2>7, QuietKeeps
<1> QED  BY <1>5, <1>6

LEMMA HandleKeeps ==
  ASSUME SharesInv, Handle
  PROVE  SharesInv'
BY ThreadGoneKeeps, ScanReportedKeeps, VolumesChangedKeeps, EntryChangedKeeps DEF Handle

-----------------------------------------------------------------------------
(***************************************************************************)
(* The scan threads.                                                       *)
(***************************************************************************)
\* A step of a scan thread, which is at work afterwards or has just reported.
LEMMA ThreadKeeps ==
  ASSUME SharesInv, Spoiling, UNCHANGED <<disk, deleted, changes, call>>,
         client' \in Client, Alike(client, client'), thread' \in Threads, lock' \in 0..Thread,
         Holds(lock', thread'), inbox' \in Seq(Message), Busy(thread') \/ Reported(inbox')
  PROVE  SharesInv'
<1>1. spoiled' \subseteq {"cut", "removed", "skipped"}  BY InvFields, SpoilingType
<1>2. TypeOK'  BY <1>1, InvFields DEF TypeOK, Threads, Calls, Ops
<1>3. ~Idle' => client'.tid = None  BY InvFields DEF Idle, Alike
<1>4. Idle' => Awaited(client')  BY InvFields DEF Idle, Alike, Awaited
<1>5. CountComes(client', thread', inbox')  BY DEF CountComes
<1> QED  BY <1>2, <1>3, <1>4, <1>5 DEF SharesInv

LEMMA OneThread ==
  ASSUME thread \in Threads, NEW t \in 1..Thread, NEW s \in ScanThread, thread' = [thread EXCEPT ![t] = s]
  PROVE  /\ thread' \in Threads /\ thread'[t] = s
         /\ \A u \in 1..Thread : u # t => thread'[u] = thread[u]
         /\ s.phase \notin {"unborn", "gone"} => Busy(thread')
<1>1. thread' \in Threads  BY DEF Threads
<1>2. thread'[t] = s /\ \A u \in 1..Thread : u # t => thread'[u] = thread[u]  BY DEF Threads
<1>3. s.phase \notin {"unborn", "gone"} => Busy(thread')  BY <1>2 DEF Busy
<1> QED  BY <1>1, <1>2, <1>3

LEMMA CheckRemovesKeeps ==
  ASSUME SharesInv, NEW t \in 1..Thread, CheckRemoves(t)
  PROVE  SharesInv'
<1>0. /\ client \in Client /\ thread \in Threads /\ lock \in 0..Thread /\ inbox \in Seq(Message)
      /\ thread[t] \in ScanThread
  BY InvFields DEF Threads
<1> DEFINE ph == IF "adds" \in thread[t].code THEN "adds" ELSE "report"
           s == [thread[t] EXCEPT !.phase = ph]
           Unref(gone) == [x \in Name |->
                       LET k == Cardinality({n \in gone : NameOf[n] = x})
                       IN  IF client.refs[x] > k THEN client.refs[x] - k ELSE 0]
           Kept(gone) == [client EXCEPT !.known = @ \ gone]
           Told(gone) == RemoveData({GetFilesNodePath(client, n) : n \in gone})
<1>1. /\ Spoiling /\ UNCHANGED <<disk, deleted, changes, lock, inbox, call>> /\ lock = None
      /\ thread' = [thread EXCEPT ![t] = s]
      /\ \E gone \in IF client.tid = None THEN SUBSET (client.known \ disk) ELSE {client.known \ disk} :
           client' = IF client.mtt = "none" \/ gone = {} THEN Kept(gone)
                     ELSE SendLow([Kept(gone) EXCEPT !.refs = Unref(gone)], Told(gone))
  BY DEF CheckRemoves
<1>2. PICK gone \in SUBSET Node :
           client' = IF client.mtt = "none" \/ gone = {} THEN Kept(gone)
                     ELSE SendLow([Kept(gone) EXCEPT !.refs = Unref(gone)], Told(gone))
  <2>1. client.known \in SUBSET Node  BY <1>0, ClientFields
  <2>2. \A g : g \in (IF client.tid = None THEN SUBSET (client.known \ disk) ELSE {client.known \ disk})
               => g \in SUBSET Node
    BY <2>1
  <2> HIDE DEF Unref, Kept, Told
  <2> QED  BY <1>1, <2>2
<1>3. ph \in {"adds", "report"}  OBVIOUS
<1> HIDE DEF ph
<1>4. s \in ScanThread /\ s.phase = ph  BY <1>0, <1>3, Zenon DEF ScanThread
<1> HIDE DEF s
<1>5. thread' \in Threads /\ Busy(thread')  BY <1>0, <1>1, <1>3, <1>4, OneThread
<1> DEFINE k == Kept(gone)
           r == Unref(gone)
           e == [k EXCEPT !.refs = r]
           u == Told(gone)
<1>6. client' = k \/ client' = SendLow(e, u)  BY <1>2
<1>7. k \in Client /\ Alike(client, k)
  <2> DEFINE K == client.known \ gone
  <2>1. K \in SUBSET Node  BY <1>0, ClientFields
  <2>2. k = [client EXCEPT !.known = K]  OBVIOUS
  <2> HIDE DEF K, k
  <2> QED  BY <1>0, <2>1, <2>2, KnownChanges
<1>8. r \in [Name -> Nat]
  <2> SUFFICES ASSUME NEW x \in Name
               PROVE  (LET j == Cardinality({n \in gone : NameOf[n] = x})
                       IN  IF client.refs[x] > j THEN client.refs[x] - j ELSE 0) \in Nat
    OBVIOUS
  <2>1. client.refs[x] \in Nat  BY <1>0, ClientFields
  <2> DEFINE G == {n \in gone : NameOf[n] = x}
             j == Cardinality(G)
  <2>2. IsFiniteSet(Node) /\ G \subseteq Node  BY FolderAssumption
  <2> HIDE DEF G
  <2>3. j \in Nat  BY <2>2, FS_Subset, FS_CardinalityType
  <2>4. (IF client.refs[x] > j THEN client.refs[x] - j ELSE 0) \in Nat
    <3> HIDE DEF j
    <3> QED  BY <2>1, <2>3
  <2> QED  BY <2>4 DEF G
<1>9. u \in Update  BY PathType DEF RemoveData, Update
<1> HIDE DEF k, r, u
<1>10. e \in Client /\ Alike(k, e)  BY <1>7, <1>8, RefsChange
<1> HIDE DEF e
<1>11. SendLow(e, u) \in Client /\ Alike(e, SendLow(e, u))  BY <1>9, <1>10, SendLowFields
<1>12. client' \in Client /\ Alike(client, client')  BY <1>6, <1>7, <1>10, <1>11 DEF Alike
<1>13. Holds(lock', thread')  BY <1>1 DEF Holds
<1> QED  BY <1>0, <1>1, <1>5, <1>12, <1>13, ThreadKeeps

LEMMA BeginScanKeeps ==
  ASSUME SharesInv, NEW t \in 1..Thread, BeginScan(t)
  PROVE  SharesInv'
<1>0. /\ client \in Client /\ thread \in Threads /\ lock \in 0..Thread /\ inbox \in Seq(Message)
      /\ thread[t] \in ScanThread /\ disk \in SUBSET Node
  BY InvFields DEF Threads
<1> DEFINE s1 == [thread[t] EXCEPT !.phase = "report"]
           s2 == [thread[t] EXCEPT !.phase = "scan", !.must = disk]
           d == [client EXCEPT !.watched = TRUE]
<1>1. /\ Spoiling /\ UNCHANGED <<disk, deleted, changes, inbox, call>> /\ lock = None
      /\ \/ thread' = [thread EXCEPT ![t] = s1] /\ client' = client /\ lock' = lock
         \/ thread' = [thread EXCEPT ![t] = s2] /\ client' = d /\ lock' = t
  BY DEF BeginScan
<1>2. s1 \in ScanThread /\ s1.phase = "report"  BY <1>0, Zenon DEF ScanThread
<1>3. s2 \in ScanThread /\ s2.phase = "scan"  BY <1>0, Zenon DEF ScanThread
<1>4. d \in Client /\ Alike(client, d)  BY <1>0, Zenon DEF Client, Alike
<1>5. Alike(client, client)  BY DEF Alike
<1> HIDE DEF s1, s2, d
<1>6. thread' \in Threads /\ Busy(thread')  BY <1>0, <1>1, <1>2, <1>3, OneThread
<1>7. lock' \in 0..Thread
  <2>1. t \in 0..Thread  OBVIOUS
  <2> QED  BY <1>0, <1>1, <2>1
<1>8. Holds(lock', thread')
  <2>1. CASE thread' = [thread EXCEPT ![t] = s2] /\ lock' = t
    <3>1. thread'[t] = s2  BY <1>0, <1>3, <2>1, OneThread
    <3> QED  BY <1>3, <2>1, <3>1 DEF Holds
  <2>2. CASE lock' = None  BY <2>2 DEF Holds
  <2> QED  BY <1>1, <2>1, <2>2
<1>9. client' \in Client /\ Alike(client, client')  BY <1>0, <1>1, <1>4, <1>5
<1> QED  BY <1>0, <1>1, <1>6, <1>7, <1>8, <1>9, ThreadKeeps

LEMMA ScanEntryKeeps ==
  ASSUME SharesInv, NEW t \in 1..Thread, NEW n \in Node, ScanEntry(t, n)
  PROVE  SharesInv'
<1>0. /\ client \in Client /\ thread \in Threads /\ lock \in 0..Thread /\ inbox \in Seq(Message)
      /\ thread[t] \in ScanThread /\ Holds(lock, thread)
  BY InvFields DEF Threads
<1> DEFINE skip  == DiffsOnly(t) /\ client.refs[NameOf[n]] > 0
           batch == thread[t].batch \cup {GetFilesNodePath(client, n)}
           full  == Cardinality(batch) >= BatchSize
           r     == RefFilename(client, n)
           K     == r.known \cup {n}
           c     == [r EXCEPT !.known = K]
           S     == thread[t].seen \cup {n}
           B     == IF skip THEN thread[t].batch ELSE IF full THEN {} ELSE batch
           s     == [thread[t] EXCEPT !.seen = S, !.batch = B]
<1>1. /\ Spoiling /\ UNCHANGED <<disk, deleted, changes, lock, inbox, call>>
      /\ thread[t].phase = "scan"
      /\ thread' = [thread EXCEPT ![t] = s]
      /\ client' = IF skip THEN client ELSE IF full THEN SendLow(c, SetData(batch)) ELSE c
  BY DEF ScanEntry
<1>2. batch \subseteq Listing  BY <1>0, PathType DEF ScanThread
<1>3. B \subseteq Listing
  <2>1. thread[t].batch \subseteq Listing  BY <1>0 DEF ScanThread
  <2> HIDE DEF batch, skip, full
  <2> QED  BY <1>2, <2>1
<1>4. S \subseteq Node
  <2>1. thread[t].seen \subseteq Node  BY <1>0 DEF ScanThread
  <2> QED  BY <2>1
<1> HIDE DEF B, S
<1>5. s \in ScanThread /\ s.phase = "scan"
  <2>1. s \in ScanThread /\ s.phase = thread[t].phase  BY <1>0, <1>3, <1>4, Zenon DEF ScanThread
  <2> QED  BY <1>1, <2>1
<1> HIDE DEF s
<1>6. thread' \in Threads /\ Busy(thread') /\ thread'[t] = s /\ \A u \in 1..Thread : u # t => thread'[u] = thread[u]
  BY <1>0, <1>1, <1>5, OneThread
<1>7. Holds(lock', thread')
  <2>1. lock' = lock  BY <1>1
  <2>2. CASE lock = None  BY <2>1, <2>2 DEF Holds
  <2>3. CASE lock # None
    <3>1. lock \in 1..Thread  BY <1>0, <2>3, BoundAssumption DEF None
    <3> QED  BY <1>0, <1>5, <1>6, <2>1, <2>3, <3>1 DEF Holds
  <2> QED  BY <2>2, <2>3
<1>8. r \in Client /\ Alike(client, r)  BY <1>0, RefFields
<1> HIDE DEF r
<1>9. K \in SUBSET Node  BY <1>8, ClientFields
<1> HIDE DEF K
<1>10. c \in Client /\ Alike(r, c)  BY <1>8, <1>9, KnownChanges
<1> HIDE DEF c
<1> DEFINE u == SetData(batch)
<1>11. u \in Update  BY <1>2 DEF SetData, Update
<1>12. client' = client \/ client' = SendLow(c, u) \/ client' = c  BY <1>1
<1> HIDE DEF u, skip, full, batch
<1>13. SendLow(c, u) \in Client /\ Alike(c, SendLow(c, u))  BY <1>10, <1>11, SendLowFields
<1>14. client' \in Client /\ Alike(client, client')  BY <1>0, <1>8, <1>10, <1>12, <1>13 DEF Alike
<1> QED  BY <1>0, <1>1, <1>6, <1>7, <1>14, ThreadKeeps

\* A thread that stops walking the folder.
LEMMA ScanEnds ==
  ASSUME SharesInv, NEW t \in 1..Thread, Spoiling, UNCHANGED <<disk, deleted, changes, inbox, call>>,
         thread' = [thread EXCEPT ![t] = [@ EXCEPT !.phase = "report", !.batch = {}]], lock' = None,
         client' \in Client, Alike(client, client')
  PROVE  SharesInv'
<1>0. thread \in Threads /\ inbox \in Seq(Message) /\ thread[t] \in ScanThread  BY InvFields DEF Threads
<1> DEFINE s == [thread[t] EXCEPT !.phase = "report", !.batch = {}]
<1>1. thread' = [thread EXCEPT ![t] = s]  OBVIOUS
<1>2. s \in ScanThread /\ s.phase = "report"  BY <1>0, Zenon DEF ScanThread
<1> HIDE DEF s
<1>3. thread' \in Threads /\ Busy(thread')  BY <1>0, <1>1, <1>2, OneThread
<1>4. lock' \in 0..Thread /\ Holds(lock', thread')  BY BoundAssumption DEF Holds, None
<1>5. inbox' \in Seq(Message)  BY <1>0
<1> QED  BY <1>3, <1>4, <1>5, ThreadKeeps

LEMMA ScanAbortedKeeps ==
  ASSUME SharesInv, NEW t \in 1..Thread, ScanAborted(t)
  PROVE  SharesInv'
<1>1. client' = client /\ client \in Client  BY InvFields DEF ScanAborted
<1>2. client' \in Client /\ Alike(client, client')  BY <1>1 DEF Alike
<1> QED  BY <1>2, ScanEnds DEF ScanAborted

LEMMA ScanDoneKeeps ==
  ASSUME SharesInv, NEW t \in 1..Thread, ScanDone(t)
  PROVE  SharesInv'
<1>0. client \in Client /\ thread[t] \in ScanThread  BY InvFields DEF Threads
<1> DEFINE u == SetData(thread[t].batch)
           d == SendLow(client, u)
<1>1. client' = client \/ client' = d  BY DEF ScanDone
<1>2. u \in Update  BY <1>0 DEF ScanThread, SetData, Update
<1> HIDE DEF u
<1>3. d \in Client /\ Alike(client, d)  BY <1>0, <1>2, SendLowFields
<1> HIDE DEF d
<1>4. Alike(client, client)  BY DEF Alike
<1>5. client' \in Client /\ Alike(client, client')  BY <1>0, <1>1, <1>3, <1>4
<1> QED  BY <1>5, ScanEnds DEF ScanDone

LEMMA PostReportKeeps ==
  ASSUME SharesInv, NEW t \in 1..Thread, PostReport(t)
  PROVE  SharesInv'
<1>0. /\ client \in Client /\ thread \in Threads /\ lock \in 0..Thread /\ inbox \in Seq(Message)
      /\ thread[t] \in ScanThread /\ Holds(lock, thread)
  BY InvFields DEF Threads
<1> DEFINE s == [thread[t] EXCEPT !.phase = "gone", !.must = {}, !.seen = {}]
           m == [kind |-> "report", thread |-> t]
<1>1. /\ Spoiling /\ UNCHANGED <<disk, deleted, changes, client, lock, call>>
      /\ thread[t].phase = "report"
      /\ thread' = [thread EXCEPT ![t] = s] /\ inbox' = Append(inbox, m)
  BY DEF PostReport
<1>2. s \in ScanThread  BY <1>0, Zenon DEF ScanThread
<1> HIDE DEF s
<1>3. thread' \in Threads /\ \A u \in 1..Thread : u # t => thread'[u] = thread[u]
  BY <1>0, <1>1, <1>2, OneThread
<1>4. Holds(lock', thread')
  <2>1. lock' = lock  BY <1>1
  <2>2. CASE lock = None  BY <2>1, <2>2 DEF Holds
  <2>3. CASE lock # None
    <3>1. lock \in 1..Thread  BY <1>0, <2>3, BoundAssumption DEF None
    <3>2. lock # t  BY <1>0, <1>1, <2>3 DEF Holds
    <3> QED  BY <1>0, <1>3, <2>1, <2>3, <3>1, <3>2 DEF Holds
  <2> QED  BY <2>2, <2>3
<1>5. m \in Message /\ m.kind = "report"  BY DEF Message
<1> HIDE DEF m
<1>6. inbox' \in Seq(Message) /\ Reported(inbox')
  <2>1. inbox' \in Seq(Message) /\ Len(inbox') = Len(inbox) + 1 /\ inbox'[Len(inbox) + 1] = m
    BY <1>0, <1>1, <1>5, AppendProperties
  <2>2. Len(inbox) + 1 \in 1..Len(inbox')  BY <1>0, <2>1, LenProperties
  <2> QED  BY <1>5, <2>1, <2>2 DEF Reported
<1>7. client' \in Client /\ Alike(client, client')  BY <1>0, <1>1 DEF Alike
<1>8. lock' \in 0..Thread  BY <1>0, <1>1
<1> QED  BY <1>1, <1>3, <1>4, <1>6, <1>7, <1>8, ThreadKeeps

LEMMA ThreadStepKeeps ==
  ASSUME SharesInv, NEW t \in 1..Thread, ThreadStep(t)
  PROVE  SharesInv'
BY CheckRemovesKeeps, BeginScanKeeps, ScanEntryKeeps, ScanAbortedKeeps, ScanDoneKeeps, PostReportKeeps
   DEF ThreadStep

-----------------------------------------------------------------------------
(***************************************************************************)
(* The folder.                                                             *)
(***************************************************************************)
LEMMA ChangedKeeps ==
  ASSUME SharesInv, NEW d \in SUBSET Node, NEW m \in Message, Changed(d, m)
  PROVE  SharesInv'
<1>0. /\ client \in Client /\ thread \in Threads /\ call \in Calls /\ lock \in 0..Thread
      /\ inbox \in Seq(Message) /\ disk \in SUBSET Node /\ deleted \in SUBSET Node
      /\ changes \in 0..MaxChanges /\ Holds(lock, thread) /\ spoiled \subseteq {"cut", "removed", "skipped"}
  BY InvFields
<1>1. /\ Spoiling /\ UNCHANGED <<client, thread, lock, call>>
      /\ changes < MaxChanges /\ changes' = changes + 1
      /\ disk' = d /\ deleted' = deleted \cup (disk \ (d \cup Volume))
      /\ inbox' = Append(inbox, m) \/ inbox' = inbox
  BY DEF Changed
<1>2. disk' \subseteq Node /\ deleted' \subseteq Node  BY <1>0, <1>1
<1>3. changes' \in 0..MaxChanges
  <2>1. MaxChanges \in Nat  BY BoundAssumption
  <2> QED  BY <1>0, <1>1, <2>1
<1>4. spoiled' \subseteq {"cut", "removed", "skipped"}  BY <1>0, <1>1, SpoilingType
<1>5. inbox' \in Seq(Message) /\ (Reported(inbox) => Reported(inbox'))
  <2>1. CASE inbox' = inbox  BY <1>0, <2>1
  <2>2. CASE inbox' = Append(inbox, m)
    <3>1. /\ inbox' \in Seq(Message) /\ Len(inbox') = Len(inbox) + 1 /\ Len(inbox) \in Nat
          /\ \A i \in 1..Len(inbox) : inbox'[i] = inbox[i]
      BY <1>0, <2>2, AppendProperties, LenProperties
    <3> QED  BY <3>1 DEF Reported
  <2> QED  BY <1>1, <2>1, <2>2
<1>6. TypeOK'  BY <1>0, <1>1, <1>2, <1>3, <1>4, <1>5 DEF TypeOK, Threads, Calls, Ops
<1>7. Holds(lock', thread')  BY <1>0, <1>1 DEF Holds
<1>8. ~Idle' => client'.tid = None  BY <1>1, InvFields DEF Idle
<1>9. Idle' => Awaited(client') /\ CountComes(client', thread', inbox')
  BY <1>1, <1>5, InvFields DEF Idle, CountComes
<1> QED  BY <1>6, <1>7, <1>8, <1>9 DEF SharesInv

LEMMA FolderKeeps ==
  ASSUME SharesInv, Folder
  PROVE  SharesInv'
<1>0. disk \subseteq Node /\ Volume \subseteq Node  BY InvFields, VolumeAssumption
<1>1. ASSUME NEW n \in Node, FileCreated(n) \/ FileRemoved(n) \/ FileMoved(n)
      PROVE  SharesInv'
  <2>1. \A k \in {"created", "removed", "moved"} : [kind |-> k, node |-> n] \in Message  BY DEF Message
  <2>2. CASE FileCreated(n)
    <3>1. disk \cup {n} \in SUBSET Node /\ [kind |-> "created", node |-> n] \in Message  BY <1>0, <2>1
    <3> QED  BY <2>2, <3>1, ChangedKeeps DEF FileCreated
  <2>3. CASE FileRemoved(n)
    <3>1. disk \ {n} \in SUBSET Node /\ [kind |-> "removed", node |-> n] \in Message  BY <1>0, <2>1
    <3> QED  BY <2>3, <3>1, ChangedKeeps DEF FileRemoved
  <2>4. CASE FileMoved(n)
    <3>1. disk \in SUBSET Node /\ [kind |-> "moved", node |-> n] \in Message  BY <1>0, <2>1
    <3> QED  BY <2>4, <3>1, ChangedKeeps DEF FileMoved
  <2> QED  BY <1>1, <2>2, <2>3, <2>4
<1>2. \A k \in {"mounted", "unmounted"} : [kind |-> k] \in Message  BY DEF Message
<1>3. CASE VolumeMounted
  <2>1. disk \cup Volume \in SUBSET Node /\ [kind |-> "mounted"] \in Message  BY <1>0, <1>2
  <2> QED  BY <1>3, <2>1, ChangedKeeps DEF VolumeMounted
<1>4. CASE VolumeUnmounted
  <2>1. disk \ Volume \in SUBSET Node /\ [kind |-> "unmounted"] \in Message  BY <1>0, <1>2
  <2> QED  BY <1>4, <2>1, ChangedKeeps DEF VolumeUnmounted
<1> QED  BY <1>1, <1>3, <1>4 DEF Folder

-----------------------------------------------------------------------------
(***************************************************************************)
(* The theorems.                                                           *)
(***************************************************************************)
LEMMA InitSharesInv == Init => SharesInv
<1> SUFFICES ASSUME Init PROVE SharesInv  OBVIOUS
<1>1. /\ disk = Initial /\ deleted = {} /\ changes = 0 /\ client = NewClient /\ lock = None
      /\ thread = [t \in 1..Thread |-> [phase |-> "unborn", code |-> {}, must |-> {}, seen |-> {}, batch |-> {}]]
      /\ inbox = <<>> /\ call = NoCall /\ spoiled = {}
  BY DEF Init
<1>2. disk \subseteq Node /\ deleted \subseteq Node  BY <1>1, VolumeAssumption
<1>3. changes \in 0..MaxChanges /\ lock \in 0..Thread  BY <1>1, BoundAssumption DEF None
<1>4. NewClient \in Client
  <2> DEFINE m == -1
             r == [x \in Name |-> 0]
  <2>1. m \in Int /\ r \in [Name -> Nat]  OBVIOUS
  <2>2. <<>> \in Seq(Update)  BY EmptySeq
  <2>3. None \in 0..Thread  BY BoundAssumption DEF None
  <2>4. {} \in Codes  BY DEF Codes
  <2>5. NewClient = [mtt |-> "none", enabled |-> TRUE, firewalled |-> FALSE, tid |-> None,
            pending |-> {}, mounts |-> FALSE, watched |-> FALSE, known |-> {}, refs |-> r,
            low |-> <<>>, sending |-> FALSE, lastSent |-> m, runner |-> FALSE,
            listed |-> {}, waiter |-> FALSE]
    BY DEF NewClient
  <2> HIDE DEF m, r, None
  <2> QED  BY <2>1, <2>2, <2>3, <2>4, <2>5, Zenon DEF Client
<1>5. ~NewClient.waiter /\ NewClient.mtt = "none"  BY DEF NewClient
<1>6. thread \in Threads  BY <1>1 DEF Threads, ScanThread, Codes
<1>7. inbox \in Seq(Message) /\ call \in Calls /\ spoiled \subseteq {"cut", "removed", "skipped"}
  BY <1>1, EmptySeq DEF Calls
<1>8. TypeOK  BY <1>1, <1>2, <1>3, <1>4, <1>6, <1>7 DEF TypeOK, Threads, Calls, Ops
<1>9. Awaited(client) /\ CountComes(client, thread, inbox) /\ Holds(lock, thread)
  BY <1>1, <1>5 DEF Awaited, CountComes, Counted, Holds
<1> QED  BY <1>1, <1>8, <1>9 DEF SharesInv, Idle

LEMMA StepKeeps == SharesInv /\ [Next]_vars => SharesInv'
<1> SUFFICES ASSUME SharesInv, [Next]_vars PROVE SharesInv'  OBVIOUS
<1>1. CASE UNCHANGED vars
  BY <1>1 DEF vars, SharesInv, TypeOK, Holds, Idle, Awaited, CountComes, Counted, Fine, SharedFileCount, Busy, Reported
<1>2. CASE Next
  <2>1. CASE \E t \in 1..Thread : ThreadStep(t)  BY <2>1, ThreadStepKeeps
  <2> QED  BY <1>2, <2>1, HandleKeeps, CommandKeeps, DrainedKeeps, CheckFileCountKeeps, FileListArrivesKeeps,
              FolderKeeps DEF Next
<1> QED  BY <1>1, <1>2

\* Every behaviour of the shares keeps the invariant.
LEMMA Invariance == Spec => []SharesInv
BY InitSharesInv, StepKeeps, PTL DEF Spec

\* The state has its types: the names are counted from zero up, although the
\* scan thread and the node monitor count and uncount the same files, the
\* queue holds whole updates, and the lock and the thread ID name threads.
THEOREM TypeCorrect == Spec => []TypeOK
<1>1. SharesInv => TypeOK  BY DEF SharesInv
<1> QED  BY <1>1, Invariance, PTL

\* SharesScanComplete: a peer's file list that waits for the end of a scan
\* waits for one that will be reported, whatever is aborted, disconnected or
\* switched off meanwhile, and whichever thread's report is taken for whose.
THEOREM WaitersAreAnswered == Spec => []NobodyWaitsInVain
<1>1. SharesInv => NobodyWaitsInVain  BY DEF SharesInv, NobodyWaitsInVain, Awaited
<1> QED  BY <1>1, Invariance, PTL

\* UploadSharedFileCount, which does not wait for the lock: when no thread is
\* at work, no message waits and no runner ticks, the count sent last is right.
THEOREM CountIsRight == Spec => []CountCatchesUp
<1>1. SharesInv => CountCatchesUp
  <2> SUFFICES ASSUME SharesInv, AtRest, client.mtt = "connected"
               PROVE  Fine(client)
    BY DEF CountCatchesUp, Fine
  <2>1. Idle /\ inbox = <<>> /\ ~client.runner /\ \A t \in 1..Thread : ~Alive(t)  BY DEF AtRest
  <2>2. ~Busy(thread)  BY <2>1 DEF Busy, Alive
  <2>3. ~Reported(inbox)
    <3>1. Len(inbox) = 0  BY <2>1, EmptySeq
    <3> QED  BY <3>1 DEF Reported
  <2>4. CountComes(client, thread, inbox) /\ Counted(client)  BY <2>1 DEF SharesInv, Counted
  <2> QED  BY <2>1, <2>2, <2>3, <2>4 DEF CountComes
<1> QED  BY <1>1, Invariance, PTL

=============================================================================
