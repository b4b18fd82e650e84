-------------------------- MODULE ShareListProofs --------------------------
(***************************************************************************)
(* The theorem about LocalShares that matters to everybody else: when all  *)
(* has settled and nothing has spoiled the list, the server lists exactly  *)
(* the files that are in the folder; for any folder, any number of scan    *)
(* threads and any bounds.                                                 *)
(***************************************************************************)
EXTENDS LocalSharesProofs

-----------------------------------------------------------------------------
(***************************************************************************)
(* The invariant.                                                          *)
(***************************************************************************)
Posted(ib, m) == \E i \in 1..Len(ib) : ib[i] = m

\* A thread that is not walking the folder has nothing to send, one that has
\* not begun has seen nothing, and one that walks has the lock.
Tidy(th, l) ==
    \A t \in 1..Thread :
      /\ th[t].phase \in {"removes", "adds"} => th[t].seen = {}
      /\ th[t].phase # "scan" => th[t].batch = {}
      /\ th[t].phase = "scan" => l = t

\* What has been removed stays away.
StaysAway(gone, d, ib) ==
    /\ gone \cap (d \cup Volume) = {}
    /\ \A i \in 1..Len(ib) : ib[i].kind = "removed" => ib[i].node \in gone

\* Unless a scan was cut short, only the thread that the client knows of, or
\* waits for, is at work.
AtWork(th) == {t \in 1..Thread : th[t].phase \notin {"unborn", "gone"}}

OneAtWork ==
    spoiled = {} => \A t \in AtWork(thread) : t = client.tid \/ (call # NoCall /\ t = call.wait)

\* A thread that the client knows of will report, or has.
WillReport == client.tid # None => Busy(thread) \/ Reported(inbox)

\* A thread (s) that is about to walk the folder, and will not pass it over.
WillScan(c, s) ==
    \/ s.phase = "adds" /\ s.code = {} /\ ~c.watched
    \/ s.phase \in {"removes", "adds"} /\ "adds" \in s.code

\* File (n), which is there, will be found.
Coming(c, th, ib, n) ==
    \/ \E t \in 1..Thread : WillScan(c, th[t])
    \/ \E t \in 1..Thread : th[t].phase = "scan" /\ n \in th[t].must \ th[t].seen
    \/ Posted(ib, [kind |-> "created", node |-> n])
    \/ n \in Volume /\ ("adds" \in c.pending \/ Posted(ib, [kind |-> "mounted"]))

\* File (n), which is gone, will be missed.
Going(c, th, ib, n) ==
    \/ Posted(ib, [kind |-> "removed", node |-> n])
    \/ /\ n \in Volume
       /\ \/ "removes" \in c.pending
          \/ Posted(ib, [kind |-> "unmounted"])
          \/ \E t \in 1..Thread : th[t].phase = "removes"

Batches(th) == UNION {th[t].batch : t \in 1..Thread}
Paths(c)    == {GetFilesNodePath(c, n) : n \in c.known}
ToList(c)   == Delivered(c.listed, c.low)

\* A folder that is not watched yet: the scan that will watch it is there.
Watches(c, th) ==
    ~c.watched => c.known = {} /\ \E t \in 1..Thread : th[t].phase = "adds" /\ th[t].code = {}

\* The files that are known are those in the folder (d), but for what will be
\* put right.
Follows(c, th, ib, d) ==
    /\ \A n \in d \ c.known : Coming(c, th, ib, n)
    /\ \A n \in c.known \ d : Going(c, th, ib, n)

\* What the server will list is known, and what is known will be listed.
Agrees(c, th) ==
    /\ ToList(c) \cup Batches(th) \subseteq Paths(c)
    /\ Paths(c) \subseteq Promised(c) \cup Batches(th)

Epoch(c, th, ib, d) ==
    /\ c.mounts /\ Watches(c, th)
    /\ c.pending # {} => Busy(th) \/ Reported(ib)
    /\ Follows(c, th, ib, d) /\ Agrees(c, th)

Active == client.mtt = "connected" /\ client.enabled /\ Idle /\ spoiled = {}

ListInv ==
    /\ Tidy(thread, lock) /\ StaysAway(deleted, disk, inbox) /\ OneAtWork /\ WillReport
    /\ Active => Epoch(client, thread, inbox, disk)

-----------------------------------------------------------------------------
(***************************************************************************)
(* The queue.                                                              *)
(***************************************************************************)
LEMMA InDelivered ==
  ASSUME NEW l, NEW q, NEW x
  PROVE  x \in Delivered(l, q) <=>
           /\ x \in Listing
           /\ \/ x \in l /\ \A i \in DOMAIN q : x \notin q[i].del
              \/ \E i \in DOMAIN q : x \in q[i].add /\ \A j \in DOMAIN q : j > i => x \notin q[j].del
BY DEF Delivered

LEMMA DeliveredNothing ==
  ASSUME NEW l
  PROVE  Delivered(l, <<>>) = l \cap Listing
<1>1. DOMAIN <<>> = {}  OBVIOUS
<1> QED  BY <1>1, InDelivered

\* An update at the end of the queue.
LEMMA DeliveredAppend ==
  ASSUME NEW l, NEW q \in Seq(Update), NEW u \in Update
  PROVE  Delivered(l, Append(q, u)) = u.add \cup (Delivered(l, q) \ u.del)
<1> DEFINE a == Append(q, u)
           n == Len(q)
<1>1. n \in Nat /\ DOMAIN q = 1..n  BY LenProperties
<1>2. /\ a \in Seq(Update) /\ Len(a) = n + 1 /\ a[n + 1] = u /\ \A i \in 1..n : a[i] = q[i]
      /\ DOMAIN a = 1..(n + 1)
  <2>1. a \in Seq(Update) /\ Len(a) = n + 1 /\ a[n + 1] = u /\ \A i \in 1..n : a[i] = q[i]
    BY AppendProperties
  <2> QED  BY <2>1, LenProperties
<1> HIDE DEF a, n
<1>3. u.add \subseteq Listing  BY DEF Update
<1>4. ASSUME NEW x \in Delivered(l, a), x \notin u.add
      PROVE  x \in Delivered(l, q) /\ x \notin u.del
  <2>1. CASE x \in l /\ \A i \in DOMAIN a : x \notin a[i].del
    <3>1. \A i \in 1..n : x \notin q[i].del  BY <1>1, <1>2, <2>1
    <3>2. x \notin u.del
      <4>1. n + 1 \in DOMAIN a  BY <1>1, <1>2
      <4> QED  BY <1>2, <2>1, <4>1
    <3> QED  BY <1>1, <1>4, <2>1, <3>1, <3>2, InDelivered
  <2>2. CASE \E i \in DOMAIN a : x \in a[i].add /\ \A j \in DOMAIN a : j > i => x \notin a[j].del
    <3>1. PICK i \in DOMAIN a : x \in a[i].add /\ \A j \in DOMAIN a : j > i => x \notin a[j].del
      BY <2>2
    <3>2. i # n + 1  BY <1>2, <1>4, <3>1
    <3>3. i \in 1..n /\ a[i] = q[i]  BY <1>1, <1>2, <3>1, <3>2
    <3>4. x \notin u.del
      <4>1. n + 1 \in DOMAIN a /\ n + 1 > i  BY <1>1, <1>2, <3>3
      <4> QED  BY <1>2, <3>1, <4>1
    <3>5. \A j \in 1..n : j > i => x \notin q[j].del
      <4> SUFFICES ASSUME NEW j \in 1..n, j > i PROVE x \notin q[j].del  OBVIOUS
      <4>1. j \in DOMAIN a /\ a[j] = q[j]  BY <1>1, <1>2
      <4> QED  BY <3>1, <4>1
    <3>6. x \in q[i].add  BY <3>1, <3>3
    <3> QED  BY <1>1, <1>4, <3>3, <3>4, <3>5, <3>6, InDelivered
  <2> QED  BY <1>4, <2>1, <2>2, InDelivered
<1>5. ASSUME NEW x \in u.add
      PROVE  x \in Delivered(l, a)
  <2>1. n + 1 \in DOMAIN a /\ x \in a[n + 1].add /\ \A j \in DOMAIN a : ~(j > n + 1)
    BY <1>1, <1>2, <1>5
  <2> QED  BY <1>3, <2>1, InDelivered
<1>6. ASSUME NEW x \in Delivered(l, q), x \notin u.del
      PROVE  x \in Delivered(l, a)
  <2>1. CASE x \in l /\ \A i \in DOMAIN q : x \notin q[i].del
    <3>1. \A i \in DOMAIN a : x \notin a[i].del
      <4> SUFFICES ASSUME NEW i \in 1..(n + 1) PROVE x \notin a[i].del  BY <1>2
      <4>1. CASE i = n + 1  BY <1>2, <1>6, <4>1
      <4>2. CASE i # n + 1
        <5>1. i \in 1..n  BY <1>1, <4>2
        <5> QED  BY <1>1, <1>2, <2>1, <5>1
      <4> QED  BY <4>1, <4>2
    <3> QED  BY <1>6, <2>1, <3>1, InDelivered
  <2>2. CASE \E i \in DOMAIN q : x \in q[i].add /\ \A j \in DOMAIN q : j > i => x \notin q[j].del
    <3>1. PICK i \in DOMAIN q : x \in q[i].add /\ \A j \in DOMAIN q : j > i => x \notin q[j].del
      BY <2>2
    <3>2. i \in DOMAIN a /\ x \in a[i].add  BY <1>1, <1>2, <3>1
    <3>3. \A j \in DOMAIN a : j > i => x \notin a[j].del
      <4> SUFFICES ASSUME NEW j \in 1..(n + 1), j > i PROVE x \notin a[j].del  BY <1>2
      <4>1. CASE j = n + 1  BY <1>2, <1>6, <4>1
      <4>2. CASE j # n + 1
        <5>1. j \in 1..n  BY <1>1, <4>2
        <5> QED  BY <1>1, <1>2, <3>1, <5>1
      <4> QED  BY <4>1, <4>2
    <3> QED  BY <1>6, <3>2, <3>3, InDelivered
  <2> QED  BY <1>6, <2>1, <2>2, InDelivered
<1>7. Delivered(l, a) = u.add \cup (Delivered(l, q) \ u.del)  BY <1>4, <1>5, <1>6
<1> QED  BY <1>7 DEF a

\* A queue that is handed over in two parts.
LEMMA DeliveredTwice ==
  ASSUME NEW l, NEW q \in Seq(Update), NEW k \in 1..Len(q)
  PROVE  Delivered(Delivered(l, SubSeq(q, 1, k)), SubSeq(q, k + 1, Len(q))) = Delivered(l, q)
<1> DEFINE n == Len(q)
           r == SubSeq(q, 1, k)
           s == SubSeq(q, k + 1, n)
           m == Delivered(l, r)
<1>1. n \in Nat /\ k \in Nat /\ k <= n /\ k >= 1 /\ DOMAIN q = 1..n  BY LenProperties
<1>2. DOMAIN r = 1..k /\ \A i \in 1..k : r[i] = q[i]
  <2>1. \A i \in 1..k : q[i] \in Update  BY <1>1, ElementOfSeq
  <2>2. r \in Seq(Update) /\ Len(r) = k /\ \A i \in 1..k : r[i] = q[1 + i - 1]
    BY <1>1, <2>1, SubSeqProperties
  <2>3. \A i \in 1..k : 1 + i - 1 = i  OBVIOUS
  <2> QED  BY <2>2, <2>3, LenProperties
<1>3. DOMAIN s = 1..(n - k) /\ \A i \in 1..(n - k) : s[i] = q[k + i]
  <2>1. \A i \in (k + 1)..n : q[i] \in Update  BY <1>1, ElementOfSeq
  <2>2. s \in Seq(Update) /\ Len(s) = (IF k + 1 <= n THEN n - (k + 1) + 1 ELSE 0)
        /\ \A i \in 1..(n - (k + 1) + 1) : s[i] = q[k + 1 + i - 1]
    BY <1>1, <2>1, SubSeqProperties
  <2>3. Len(s) = n - k
    <3> DEFINE x == Len(s)
    <3>1. x = IF k + 1 <= n THEN n - (k + 1) + 1 ELSE 0  BY <2>2
    <3> HIDE DEF x, n
    <3>2. x = n - k  BY <1>1, <3>1
    <3> QED  BY <3>2 DEF x
  <2>4. n - (k + 1) + 1 = n - k /\ \A i \in 1..(n - k) : k + 1 + i - 1 = k + i  BY <1>1
  <2>5. DOMAIN s = 1..Len(s)  BY <2>2, LenProperties
  <2>6. \A i \in 1..(n - k) : s[i] = q[k + i]
    <3> HIDE DEF s, n
    <3> QED  BY <2>2, <2>4
  <2> QED  BY <2>3, <2>5, <2>6
<1> HIDE DEF n, r, s
<1>4. ASSUME NEW x \in Delivered(m, s)
      PROVE  x \in Delivered(l, q)
  <2>0. x \in Listing  BY <1>4, InDelivered
  <2>1. CASE \E i \in DOMAIN s : x \in s[i].add /\ \A j \in DOMAIN s : j > i => x \notin s[j].del
    <3>1. PICK i \in 1..(n - k) : x \in s[i].add /\ \A j \in DOMAIN s : j > i => x \notin s[j].del
      BY <1>3, <2>1
    <3>2. k + i \in 1..n /\ x \in q[k + i].add  BY <1>1, <1>3, <3>1
    <3>3. \A j \in 1..n : j > k + i => x \notin q[j].del
      <4> SUFFICES ASSUME NEW j \in 1..n, j > k + i PROVE x \notin q[j].del  OBVIOUS
      <4> DEFINE e == j - k
      <4>1. e \in 1..(n - k) /\ e > i /\ k + e = j  BY <1>1
      <4> HIDE DEF e
      <4> QED  BY <1>3, <3>1, <4>1
    <3> QED  BY <1>1, <2>0, <3>2, <3>3, InDelivered
  <2>2. CASE x \in m /\ \A i \in DOMAIN s : x \notin s[i].del
    <3>0. \A j \in 1..n : j > k => x \notin q[j].del
      <4> SUFFICES ASSUME NEW j \in 1..n, j > k PROVE x \notin q[j].del  OBVIOUS
      <4> DEFINE e == j - k
      <4>1. e \in 1..(n - k) /\ k + e = j  BY <1>1
      <4> HIDE DEF e
      <4> QED  BY <1>3, <2>2, <4>1
    <3>1. CASE x \in l /\ \A i \in DOMAIN r : x \notin r[i].del
      <4>1. \A j \in 1..n : x \notin q[j].del
        <5> SUFFICES ASSUME NEW j \in 1..n PROVE x \notin q[j].del  OBVIOUS
        <5>1. CASE j > k  BY <3>0, <5>1
        <5>2. CASE ~(j > k)
          <6>1. j \in 1..k  BY <1>1, <5>2
          <6> QED  BY <1>2, <3>1, <6>1
        <5> QED  BY <5>1, <5>2
      <4> QED  BY <1>1, <2>0, <3>1, <4>1, InDelivered
    <3>2. CASE \E i \in DOMAIN r : x \in r[i].add /\ \A j \in DOMAIN r : j > i => x \notin r[j].del
      <4>1. PICK i \in 1..k : x \in r[i].add /\ \A j \in DOMAIN r : j > i => x \notin r[j].del
        BY <1>2, <3>2
      <4>2. i \in 1..n /\ x \in q[i].add  BY <1>1, <1>2, <4>1
      <4>3. \A j \in 1..n : j > i => x \notin q[j].del
        <5> SUFFICES ASSUME NEW j \in 1..n, j > i PROVE x \notin q[j].del  OBVIOUS
        <5>1. CASE j > k  BY <3>0, <5>1
        <5>2. CASE ~(j > k)
          <6>1. j \in 1..k  BY <1>1, <5>2
          <6> QED  BY <1>2, <4>1, <6>1
        <5> QED  BY <5>1, <5>2
      <4> QED  BY <1>1, <2>0, <4>2, <4>3, InDelivered
    <3>3. x \in Delivered(l, r)  BY <2>2
    <3> QED  BY <3>1, <3>2, <3>3, InDelivered
  <2> QED  BY <1>4, <2>1, <2>2, InDelivered
<1>5. ASSUME NEW x \in Delivered(l, q)
      PROVE  x \in Delivered(m, s)
  <2>0. x \in Listing  BY <1>5, InDelivered
  <2>1. CASE x \in l /\ \A i \in DOMAIN q : x \notin q[i].del
    <3>1. \A i \in DOMAIN r : x \notin r[i].del
      <4> SUFFICES ASSUME NEW i \in 1..k PROVE x \notin r[i].del  BY <1>2
      <4>1. i \in 1..n  BY <1>1
      <4> QED  BY <1>1, <1>2, <2>1, <4>1
    <3>2. x \in m  BY <2>0, <2>1, <3>1, InDelivered
    <3>3. \A i \in DOMAIN s : x \notin s[i].del
      <4> SUFFICES ASSUME NEW i \in 1..(n - k) PROVE x \notin s[i].del  BY <1>3
      <4>1. k + i \in 1..n  BY <1>1
      <4> QED  BY <1>1, <1>3, <2>1, <4>1
    <3> QED  BY <2>0, <3>2, <3>3, InDelivered
  <2>2. CASE \E i \in DOMAIN q : x \in q[i].add /\ \A j \in DOMAIN q : j > i => x \notin q[j].del
    <3>1. PICK i \in 1..n : x \in q[i].add /\ \A j \in DOMAIN q : j > i => x \notin q[j].del
      BY <1>1, <2>2
    <3>2. CASE i > k
      <4> DEFINE e == i - k
      <4>1. e \in 1..(n - k) /\ k + e = i  BY <1>1, <3>2
      <4> HIDE DEF e
      <4>2. x \in s[e].add  BY <1>3, <3>1, <4>1
      <4>3. \A j \in DOMAIN s : j > e => x \notin s[j].del
        <5> SUFFICES ASSUME NEW j \in 1..(n - k), j > e PROVE x \notin s[j].del  BY <1>3
        <5>1. k + j \in 1..n /\ k + j > i  BY <1>1, <4>1
        <5> QED  BY <1>1, <1>3, <3>1, <5>1
      <4> QED  BY <1>3, <2>0, <4>1, <4>2, <4>3, InDelivered
    <3>3. CASE ~(i > k)
      <4>1. i \in 1..k /\ x \in r[i].add  BY <1>1, <1>2, <3>1, <3>3
      <4>2. \A j \in DOMAIN r : j > i => x \notin r[j].del
        <5> SUFFICES ASSUME NEW j \in 1..k, j > i PROVE x \notin r[j].del  BY <1>2
        <5>1. j \in 1..n  BY <1>1
        <5> QED  BY <1>1, <1>2, <3>1, <5>1
      <4>3. x \in m  BY <1>2, <2>0, <4>1, <4>2, InDelivered
      <4>4. \A j \in DOMAIN s : x \notin s[j].del
        <5> SUFFICES ASSUME NEW j \in 1..(n - k) PROVE x \notin s[j].del  BY <1>3
        <5>1. k + j \in 1..n /\ k + j > i  BY <1>1, <4>1
        <5> QED  BY <1>1, <1>3, <3>1, <5>1
      <4> QED  BY <2>0, <4>3, <4>4, InDelivered
    <3> QED  BY <3>2, <3>3
  <2> QED  BY <1>5, <2>1, <2>2, InDelivered
<1>6. Delivered(m, s) = Delivered(l, q)  BY <1>4, <1>5
<1> QED  BY <1>6 DEF r, s, n

LEMMA SubSeqWhole ==
  ASSUME NEW q \in Seq(Update)
  PROVE  SubSeq(q, 1, Len(q)) = q
<1>1. Len(q) \in Nat /\ \A i \in 1..Len(q) : q[i] \in Update  BY LenProperties, ElementOfSeq
<1> DEFINE r == SubSeq(q, 1, Len(q))
<1>2. r \in Seq(Update) /\ Len(r) = Len(q) /\ \A i \in 1..Len(q) : r[i] = q[1 + i - 1]
  BY <1>1, SubSeqProperties
<1> HIDE DEF r
<1>3. \A i \in 1..Len(q) : r[i] = q[i]
  <2>1. \A i \in 1..Len(q) : 1 + i - 1 = i  OBVIOUS
  <2> QED  BY <1>2, <2>1
<1>4. r = q  BY <1>2, <1>3, SeqEqual
<1> QED  BY <1>4 DEF r

-----------------------------------------------------------------------------
(***************************************************************************)
(* The methods of the client, and what the server will list.               *)
(***************************************************************************)
\* What only the commands, a new scan and the end of one change.
Steady(c, d) ==
    /\ d.mtt = c.mtt /\ d.enabled = c.enabled /\ d.firewalled = c.firewalled /\ d.tid = c.tid
    /\ d.pending = c.pending /\ d.mounts = c.mounts /\ d.watched = c.watched

SameList(c, d) == d.known = c.known /\ d.low = c.low /\ d.listed = c.listed

LEMMA SamePath ==
  ASSUME NEW c, NEW d, d.firewalled = c.firewalled, NEW n
  PROVE  GetFilesNodePath(d, n) = GetFilesNodePath(c, n)
BY DEF GetFilesNodePath

LEMMA SameListed ==
  ASSUME NEW c, NEW d, d.firewalled = c.firewalled, SameList(c, d)
  PROVE  Paths(d) = Paths(c) /\ ToList(d) = ToList(c) /\ Promised(d) = Promised(c)
<1>1. \A n : GetFilesNodePath(d, n) = GetFilesNodePath(c, n)  BY SamePath
<1>2. Paths(d) = Paths(c)  BY <1>1 DEF Paths, SameList
<1>3. ToList(d) = ToList(c)  BY DEF ToList, SameList
<1>4. Promised(d) = Promised(c)  BY DEF Promised, SameList
<1> QED  BY <1>2, <1>3, <1>4

\* An update (u) that is queued, or sent at once.
Tells(c, d, u) ==
    /\ Steady(c, d) /\ d.known = c.known
    /\ ToList(d) \subseteq u.add \cup (ToList(c) \ u.del)
    /\ u.add \subseteq Promised(d)

LEMMA CheckSendList ==
  ASSUME NEW c \in Client, NEW k \in Nat, k <= Len(c.low), c.low # <<>> => k >= 1
  PROVE  LET d == CheckSendMoreLowPriorityMessages(c, k)
         IN  /\ Steady(c, d) /\ d.known = c.known /\ ToList(d) \cap Listing = ToList(c) \cap Listing
             /\ c.sending \/ c.mtt = "none" \/ c.low = <<>> => d = c
             /\ ~(c.sending \/ c.mtt = "none" \/ c.low = <<>>) => d.listed = Delivered(c.listed, SubSeq(c.low, 1, k))
<1> DEFINE stays == c.sending \/ c.mtt = "none" \/ c.low = <<>>
           l == Delivered(c.listed, SubSeq(c.low, 1, k))
           r == SubSeq(c.low, k + 1, Len(c.low))
           e == [c EXCEPT !.listed = l, !.low = r, !.sending = TRUE]
           d == CheckSendMoreLowPriorityMessages(c, k)
<1>1. CASE stays
  <2>1. d = c  BY <1>1 DEF CheckSendMoreLowPriorityMessages
  <2> QED  BY <1>1, <2>1 DEF Steady
<1>2. CASE ~stays
  <2>1. d = e  BY <1>2 DEF CheckSendMoreLowPriorityMessages
  <2>2. c.low \in Seq(Update) /\ Len(c.low) \in Nat  BY ClientFields, LenProperties
  <2>3. k \in 1..Len(c.low)  BY <1>2, <2>2
  <2>4. Delivered(l, r) = ToList(c)  BY <2>2, <2>3, DeliveredTwice DEF ToList
  <2> HIDE DEF l, r, d
  <2>5. Steady(c, e) /\ e.known = c.known /\ e.listed = l /\ e.low = r  BY Zenon DEF Client, Steady
  <2> HIDE DEF e
  <2>6. ToList(e) = Delivered(l, r)  BY <2>5 DEF ToList
  <2> QED  BY <1>2, <2>1, <2>4, <2>5, <2>6 DEF d, l
<1> QED  BY <1>1, <1>2

LEMMA SendLowList ==
  ASSUME NEW c \in Client, NEW u \in Update, c.mtt # "none"
  PROVE  Tells(c, SendLow(c, u), u)
<1> DEFINE q == Append(c.low, u)
           n == Len(c.low) + 1
           e == [c EXCEPT !.low = q]
           d == CheckSendMoreLowPriorityMessages(e, n)
<1>1. SendLow(c, u) = d  BY DEF SendLow
<1>2. c.low \in Seq(Update) /\ u.add \subseteq Listing  BY ClientFields DEF Update
<1>3. /\ q \in Seq(Update) /\ Len(q) = n /\ n \in Nat /\ n >= 1 /\ q # <<>> /\ q[n] = u
      /\ DOMAIN q = 1..n
  <2>1. Len(c.low) \in Nat  BY <1>2, LenProperties
  <2>2. q \in Seq(Update) /\ Len(q) = n /\ q[n] = u  BY <1>2, AppendProperties
  <2>3. q # <<>>  BY <2>1, <2>2, EmptySeq
  <2>4. DOMAIN q = 1..n  BY <2>2, LenProperties
  <2> QED  BY <2>1, <2>2, <2>3, <2>4
<1>4. Delivered(c.listed, q) = u.add \cup (ToList(c) \ u.del)  BY <1>2, DeliveredAppend DEF ToList
<1>5. SubSeq(q, 1, n) = q  BY <1>3, SubSeqWhole
<1> HIDE DEF q, n
<1>6. /\ e \in Client /\ Steady(c, e) /\ e.known = c.known /\ e.low = q /\ e.listed = c.listed
      /\ e.sending = c.sending
  BY <1>3, Zenon DEF Client, Steady
<1> HIDE DEF e
<1>7. /\ Steady(e, d) /\ d.known = e.known /\ ToList(d) \cap Listing = ToList(e) \cap Listing
      /\ e.sending \/ e.mtt = "none" \/ e.low = <<>> => d = e
      /\ ~(e.sending \/ e.mtt = "none" \/ e.low = <<>>) => d.listed = Delivered(e.listed, SubSeq(e.low, 1, n))
  BY <1>3, <1>6, CheckSendList
<1> HIDE DEF d
<1>8. ToList(d) \subseteq u.add \cup (ToList(c) \ u.del)
  <2>1. ToList(d) \subseteq Listing  BY DeliveredType DEF ToList
  <2>2. ToList(e) = Delivered(c.listed, q)  BY <1>6 DEF ToList
  <2> QED  BY <1>4, <1>7, <2>1, <2>2
<1>9. u.add \subseteq Promised(d)
  <2>1. CASE e.sending
    <3>1. d.low = q  BY <1>6, <1>7, <2>1
    <3>2. n \in DOMAIN d.low /\ d.low[n].add = u.add  BY <1>3, <3>1
    <3> QED  BY <3>2 DEF Promised
  <2>2. CASE ~e.sending
    <3>1. ~(e.sending \/ e.mtt = "none" \/ e.low = <<>>)  BY <1>3, <1>6, <2>2 DEF Steady
    <3>2. d.listed = Delivered(c.listed, q)  BY <1>5, <1>6, <1>7, <3>1
    <3> QED  BY <1>4, <3>2 DEF Promised
  <2> QED  BY <2>1, <2>2
<1>10. Tells(c, d, u)  BY <1>6, <1>7, <1>8, <1>9 DEF Tells, Steady
<1> QED  BY <1>1, <1>10

\* An addition that is sent at once.
LEMMA SendHighList ==
  ASSUME NEW c \in Client, NEW u \in Update, u.del = {}, c.mtt # "none"
  PROVE  LET d == SendHigh(c, u)
         IN  /\ Steady(c, d) /\ d.known = c.known
             /\ ToList(d) \subseteq u.add \cup ToList(c) /\ u.add \subseteq Promised(d)
<1> DEFINE l == Applied(c.listed, u)
           d == [c EXCEPT !.listed = l]
<1>1. SendHigh(c, u) = d  BY DEF SendHigh
<1>2. l = c.listed \cup u.add  BY DEF Applied
<1> HIDE DEF l
<1>3. Steady(c, d) /\ d.known = c.known /\ d.low = c.low /\ d.listed = l
  BY Zenon DEF Client, Steady
<1> HIDE DEF d
<1>4. ToList(d) \subseteq u.add \cup ToList(c)
  <2> SUFFICES ASSUME NEW x \in Delivered(d.listed, d.low), x \notin u.add
               PROVE  x \in Delivered(c.listed, c.low)
    BY DEF ToList
  <2>1. d.low = c.low /\ (x \in d.listed => x \in c.listed)  BY <1>2, <1>3
  <2> QED  BY <2>1, InDelivered
<1>5. u.add \subseteq Promised(d)  BY <1>2, <1>3 DEF Promised
<1> QED  BY <1>1, <1>3, <1>4, <1>5

\* Everything the server will list is known.
Sound(c) == ToList(c) \subseteq Paths(c)

\* The names that are counted differ, or the files that are known.
LEMMA RefList ==
  ASSUME NEW c \in Client, NEW r \in [Name -> Nat]
  PROVE  LET d == [c EXCEPT !.refs = r]
         IN  d \in Client /\ Steady(c, d) /\ SameList(c, d) /\ d.refs = r
BY Zenon DEF Client, Steady, SameList

LEMMA KnownList ==
  ASSUME NEW c \in Client, NEW K \in SUBSET Node
  PROVE  LET d == [c EXCEPT !.known = K]
         IN  d \in Client /\ Steady(c, d) /\ d.known = K /\ d.low = c.low /\ d.listed = c.listed
BY Zenon DEF Client, Steady

LEMMA RefNames ==
  ASSUME NEW c \in Client, NEW n \in Node
  PROVE  /\ \E r \in [Name -> Nat] : RefFilename(c, n) = [c EXCEPT !.refs = r]
         /\ \E r \in [Name -> Nat] : UnrefFilename(c, n) = [c EXCEPT !.refs = r]
<1> DEFINE x == NameOf[n]
           r == [c.refs EXCEPT ![x] = c.refs[x] + 1]
           s == [c.refs EXCEPT ![x] = IF c.refs[x] > 0 THEN c.refs[x] - 1 ELSE 0]
<1>1. x \in Name  BY PathType
<1>2. c.refs \in [Name -> Nat]  BY ClientFields
<1>3. r \in [Name -> Nat]  BY <1>1, <1>2
<1>4. s \in [Name -> Nat]
  <2>1. (IF c.refs[x] > 0 THEN c.refs[x] - 1 ELSE 0) \in Nat
    <3>1. c.refs[x] \in Nat  BY <1>1, <1>2
    <3> QED  BY <3>1
  <2> QED  BY <1>1, <1>2, <2>1
<1>5. RefFilename(c, n) = [c EXCEPT !.refs = r]  BY DEF RefFilename
<1>6. UnrefFilename(c, n) = [c EXCEPT !.refs = s]  BY DEF UnrefFilename
<1> HIDE DEF r, s
<1> QED  BY <1>3, <1>4, <1>5, <1>6

\* Forgetting files (gone) and telling the server so.
LEMMA ForgetList ==
  ASSUME NEW c \in Client, NEW d \in Client, NEW e, NEW gone \in SUBSET Node, Sound(c),
         Steady(c, d), d.known = c.known \ gone, d.low = c.low, d.listed = c.listed,
         Tells(d, e, RemoveData({GetFilesNodePath(c, n) : n \in gone}))
  PROVE  Steady(c, e) /\ e.known = c.known \ gone /\ Sound(e)
<1> DEFINE u == RemoveData({GetFilesNodePath(c, n) : n \in gone})
<1>1. u.add = {} /\ u.del = {GetFilesNodePath(c, n) : n \in gone}  BY DEF RemoveData
<1> HIDE DEF u
<1>2. Steady(c, e) /\ e.known = c.known \ gone  BY DEF Tells, Steady
<1>3. ToList(d) = ToList(c)  BY DEF ToList
<1>4. \A n : GetFilesNodePath(e, n) = GetFilesNodePath(c, n)  BY <1>2, SamePath DEF Steady
<1>5. Sound(e)
  <2> SUFFICES ASSUME NEW x \in ToList(e) PROVE x \in Paths(e)  BY DEF Sound
  <2>1. x \in ToList(c) /\ x \notin u.del  BY <1>1, <1>3 DEF Tells, u
  <2>2. PICK n \in c.known : x = GetFilesNodePath(c, n)  BY <2>1 DEF Sound, Paths
  <2>3. n \notin gone  BY <1>1, <2>1, <2>2
  <2> QED  BY <1>2, <1>4, <2>2, <2>3 DEF Paths
<1> QED  BY <1>2, <1>5

LEMMA NodeRemovedList ==
  ASSUME NEW c \in Client, NEW n \in Node, c.mtt # "none", Sound(c)
  PROVE  LET d == NodeRemoved(c, n)
         IN  Steady(c, d) /\ d.known = c.known \ {n} /\ Sound(d)
<1> DEFINE K == c.known \ {n}
           c1 == [c EXCEPT !.known = K]
           c2 == UnrefFilename(c1, n)
           u == RemoveData({GetFilesNodePath(c, n)})
           d == SendLow(c2, u)
<1>1. NodeRemoved(c, n) = IF n \notin c.known THEN c1 ELSE d
  BY DEF NodeRemoved
<1>2. K \in SUBSET Node  BY ClientFields
<1>0. K = c.known \ {n}  OBVIOUS
<1> HIDE DEF K
<1>3. c1 \in Client /\ Steady(c, c1) /\ c1.known = K /\ c1.low = c.low /\ c1.listed = c.listed
  BY <1>2, KnownList
<1> HIDE DEF c1
<1>4. PICK r \in [Name -> Nat] : c2 = [c1 EXCEPT !.refs = r]  BY <1>3, RefNames
<1>5. c2 \in Client /\ Steady(c1, c2) /\ SameList(c1, c2)
  <2>1. LET z == [c1 EXCEPT !.refs = r] IN z \in Client /\ Steady(c1, z) /\ SameList(c1, z)
    BY <1>3, RefList
  <2> QED  BY <1>4, <2>1
<1> HIDE DEF c2
<1>6. u \in Update  BY PathType DEF RemoveData, Update
<1>7. CASE n \in c.known
  <2>1. c2.mtt # "none"  BY <1>3, <1>5 DEF Steady
  <2>2. {GetFilesNodePath(c, n)} = {GetFilesNodePath(c, g) : g \in {n}}  OBVIOUS
  <2> HIDE DEF u
  <2>3. Tells(c2, d, u)  BY <1>5, <1>6, <2>1, SendLowList
  <2> HIDE DEF d
  <2>4. /\ Steady(c, c2) /\ c2.known = c.known \ {n} /\ c2.low = c.low /\ c2.listed = c.listed
    BY <1>0, <1>3, <1>5 DEF Steady, SameList
  <2>5. Tells(c2, d, RemoveData({GetFilesNodePath(c, g) : g \in {n}}))  BY <2>2, <2>3 DEF u
  <2> DEFINE g1 == {n}
  <2>6. g1 \in SUBSET Node  OBVIOUS
  <2>7. /\ c2.known = c.known \ g1 /\ Tells(c2, d, RemoveData({GetFilesNodePath(c, g) : g \in g1}))
    BY <2>4, <2>5
  <2> HIDE DEF g1
  <2>8. Steady(c, d) /\ d.known = c.known \ g1 /\ Sound(d)  BY <1>5, <2>4, <2>6, <2>7, ForgetList
  <2> QED  BY <1>1, <1>7, <2>8 DEF g1
<1>8. CASE n \notin c.known
  <2>1. c1.known = c.known  BY <1>0, <1>3, <1>8
  <2>2. c1.firewalled = c.firewalled /\ SameList(c, c1)  BY <1>3, <2>1 DEF SameList, Steady
  <2>3. Sound(c1)
    <3>1. Paths(c1) = Paths(c) /\ ToList(c1) = ToList(c)  BY <2>2, SameListed
    <3> QED  BY <3>1 DEF Sound
  <2> QED  BY <1>0, <1>1, <1>3, <1>8, <2>3
<1> QED  BY <1>7, <1>8

LEMMA NodeCreatedList ==
  ASSUME NEW c \in Client, NEW n \in Node, c.mtt # "none", Sound(c)
  PROVE  LET d == NodeCreated(c, n)
         IN  /\ Steady(c, d) /\ Sound(d)
             /\ IF c.watched /\ n \in disk
                THEN d.known = c.known \cup {n} /\ GetFilesNodePath(d, n) \in Promised(d)
                ELSE d = c
<1> DEFINE c1 == RefFilename(c, n)
           K == c1.known \cup {n}
           c2 == [c1 EXCEPT !.known = K]
           u == SetData({GetFilesNodePath(c, n)})
           d == SendHigh(c2, u)
<1>1. CASE ~(c.watched /\ n \in disk)
  <2>1. NodeCreated(c, n) = c  BY <1>1 DEF NodeCreated
  <2> QED  BY <1>1, <2>1 DEF Steady
<1>2. CASE c.watched /\ n \in disk
  <2>1. NodeCreated(c, n) = d  BY <1>2 DEF NodeCreated
  <2>2. PICK r \in [Name -> Nat] : c1 = [c EXCEPT !.refs = r]  BY RefNames
  <2>3. c1 \in Client /\ Steady(c, c1) /\ SameList(c, c1)
    <3>1. LET z == [c EXCEPT !.refs = r] IN z \in Client /\ Steady(c, z) /\ SameList(c, z)
      BY RefList
    <3> QED  BY <2>2, <3>1
  <2> HIDE DEF c1
  <2>4. K \in SUBSET Node /\ K = c.known \cup {n}  BY <2>3, ClientFields DEF SameList
  <2> HIDE DEF K
  <2>5. c2 \in Client /\ Steady(c1, c2) /\ c2.known = K /\ c2.low = c1.low /\ c2.listed = c1.listed
    BY <2>3, <2>4, KnownList
  <2> HIDE DEF c2
  <2>6. u \in Update /\ u.del = {} /\ u.add = {GetFilesNodePath(c, n)}
    BY PathType DEF SetData, Update
  <2> HIDE DEF u
  <2>7. c2.mtt # "none"  BY <2>3, <2>5 DEF Steady
  <2>8. Steady(c2, d) /\ d.known = c2.known /\ ToList(d) \subseteq u.add \cup ToList(c2) /\ u.add \subseteq Promised(d)
    BY <2>5, <2>6, <2>7, SendHighList
  <2> HIDE DEF d
  <2>9. Steady(c, d) /\ d.known = c.known \cup {n}  BY <2>3, <2>4, <2>5, <2>8 DEF Steady
  <2>10. \A m : GetFilesNodePath(d, m) = GetFilesNodePath(c, m)  BY <2>9, SamePath DEF Steady
  <2>11. ToList(c2) = ToList(c)  BY <2>3, <2>5 DEF ToList, SameList
  <2>12. Sound(d)
    <3> SUFFICES ASSUME NEW x \in ToList(d) PROVE x \in Paths(d)  BY DEF Sound
    <3>1. CASE x \in u.add  BY <2>6, <2>9, <2>10, <3>1 DEF Paths
    <3>2. CASE x \in ToList(c)
      <4>1. PICK m \in c.known : x = GetFilesNodePath(c, m)  BY <3>2 DEF Sound, Paths
      <4> QED  BY <2>9, <2>10, <4>1 DEF Paths
    <3> QED  BY <2>8, <2>11, <3>1, <3>2
  <2>13. GetFilesNodePath(d, n) \in Promised(d)  BY <2>6, <2>8, <2>10
  <2> QED  BY <1>2, <2>1, <2>9, <2>12, <2>13
<1> QED  BY <1>1, <1>2

LEMMA UploadCountList ==
  ASSUME NEW c \in Client, NEW free
  PROVE  LET d == UploadSharedFileCount(c, free)
         IN  Steady(c, d) /\ SameList(c, d)
<1>1. \A m : LET d == [c EXCEPT !.lastSent = m] IN Steady(c, d) /\ SameList(c, d)
  BY Zenon DEF Client, Steady, SameList
<1>2. LET d == [c EXCEPT !.runner = FALSE] IN Steady(c, d) /\ SameList(c, d)
  BY Zenon DEF Client, Steady, SameList
<1>3. Steady(c, c) /\ SameList(c, c)  BY DEF Steady, SameList
<1> QED  BY <1>1, <1>2, <1>3 DEF UploadSharedFileCount

LEMMA StartRunnerList ==
  ASSUME NEW c \in Client
  PROVE  LET d == StartFileCountRunner(c)
         IN  Steady(c, d) /\ SameList(c, d)
<1> DEFINE e == UploadSharedFileCount(c, TRUE)
           d == [e EXCEPT !.runner = TRUE]
<1>1. e \in Client  BY UploadCountFields
<1>2. Steady(c, e) /\ SameList(c, e)  BY UploadCountList
<1>3. StartFileCountRunner(c) = IF c.runner THEN c ELSE d  BY DEF StartFileCountRunner
<1> HIDE DEF e
<1>4. Steady(e, d) /\ SameList(e, d)  BY <1>1, Zenon DEF Client, Steady, SameList
<1> HIDE DEF d
<1>5. Steady(c, c) /\ SameList(c, c)  BY DEF Steady, SameList
<1> QED  BY <1>2, <1>3, <1>4, <1>5 DEF Steady, SameList

LEMMA EndBatchList ==
  ASSUME NEW c \in Client
  PROVE  LET d == EndScanSharesBatch(c)
         IN  Steady(c, d) /\ SameList(c, d)
<1>1. LET d == [c EXCEPT !.waiter = FALSE] IN Steady(c, d) /\ SameList(c, d)
  BY Zenon DEF Client, Steady, SameList
<1>2. Steady(c, c) /\ SameList(c, c)  BY DEF Steady, SameList
<1> QED  BY <1>1, <1>2 DEF EndScanSharesBatch

\* What is left when the folder is given up: nothing is known, nothing is listed.
Bare(d) == ~d.watched /\ d.known = {} /\ ToList(d) = {}

LEMMA RemoveFileSharingList ==
  ASSUME NEW c \in Client, c.mtt # "none"
  PROVE  Bare(RemoveFileSharing(c))
<1> DEFINE q == <<>>
           c1 == [c EXCEPT !.low = q]
           l == Applied(c1.listed, RemoveData(Listing))
           c2 == [c1 EXCEPT !.listed = l]
           r == [x \in Name |-> 0]
           d == [c2 EXCEPT !.watched = FALSE, !.known = {}, !.refs = r]
<1>1. RemoveFileSharing(c) = UnwatchAllDirs(SendHigh(c1, RemoveData(Listing)))
  BY DEF RemoveFileSharing
<1>2. q \in Seq(Update)  BY EmptySeq
<1>0. q = <<>>  OBVIOUS
<1> HIDE DEF q
<1>3. c1 \in Client /\ c1.low = q /\ c1.mtt = c.mtt  BY <1>2, Zenon DEF Client
<1> HIDE DEF c1
<1>4. l = {}  BY <1>3, ClientFields DEF Applied, RemoveData
<1>5. SendHigh(c1, RemoveData(Listing)) = c2  BY <1>3 DEF SendHigh
<1> HIDE DEF l
<1>6. c2.low = q /\ c2.listed = l /\ c2 \in Client
  <2>1. l \subseteq Listing  BY <1>4
  <2> QED  BY <1>3, <2>1, Zenon DEF Client
<1> HIDE DEF c2
<1>7. UnwatchAllDirs(c2) = d  BY DEF UnwatchAllDirs
<1>8. r \in [Name -> Nat]  OBVIOUS
<1> HIDE DEF r
<1>9. d.low = q /\ d.listed = l /\ ~d.watched /\ d.known = {}  BY <1>6, <1>8, Zenon DEF Client
<1> HIDE DEF d
<1>10. ToList(d) = {}  BY <1>0, <1>4, <1>9, DeliveredNothing DEF ToList
<1> QED  BY <1>1, <1>5, <1>7, <1>9, <1>10 DEF Bare

-----------------------------------------------------------------------------
(***************************************************************************)
(* The inbox, the history and the threads.                                 *)
(***************************************************************************)
LEMMA PostedTail ==
  ASSUME NEW ib \in Seq(Message), ib # <<>>, NEW m, Posted(ib, m), Head(ib) # m
  PROVE  Posted(Tail(ib), m)
<1>1. PICK i \in 1..Len(ib) : ib[i] = m  BY DEF Posted
<1>2. Head(ib) = ib[1] /\ Len(ib) \in Nat /\ Len(Tail(ib)) = Len(ib) - 1
      /\ \A j \in 1..Len(Tail(ib)) : Tail(ib)[j] = ib[j + 1]
  BY HeadTailProperties, LenProperties
<1>3. i # 1  BY <1>1, <1>2
<1>4. i - 1 \in 1..Len(Tail(ib)) /\ (i - 1) + 1 = i  BY <1>2, <1>3
<1>5. Tail(ib)[i - 1] = ib[i]  BY <1>2, <1>4
<1> QED  BY <1>1, <1>4, <1>5 DEF Posted

LEMMA AwayTail ==
  ASSUME NEW ib \in Seq(Message), ib # <<>>, NEW g, NEW d, StaysAway(g, d, ib)
  PROVE  /\ StaysAway(g, d, Tail(ib))
         /\ Head(ib).kind = "removed" => Head(ib).node \in g /\ Head(ib).node \notin d
<1>1. Head(ib) = ib[1] /\ Len(ib) \in Nat /\ Len(Tail(ib)) = Len(ib) - 1
      /\ \A j \in 1..Len(Tail(ib)) : Tail(ib)[j] = ib[j + 1]
  BY HeadTailProperties, LenProperties
<1>2. \A j \in 1..Len(Tail(ib)) : j + 1 \in 1..Len(ib)  BY <1>1
<1>3. 1 \in 1..Len(ib)
  <2>1. Len(ib) # 0  BY EmptySeq
  <2> QED  BY <1>1, <2>1
<1> QED  BY <1>1, <1>2, <1>3 DEF StaysAway

LEMMA PostedAppend ==
  ASSUME NEW ib \in Seq(Message), NEW x \in Message
  PROVE  /\ Posted(Append(ib, x), x) /\ \A m : Posted(ib, m) => Posted(Append(ib, x), m)
         /\ Reported(ib) => Reported(Append(ib, x))
<1> DEFINE a == Append(ib, x)
<1>1. Len(ib) \in Nat /\ Len(a) = Len(ib) + 1 /\ a[Len(ib) + 1] = x /\ \A i \in 1..Len(ib) : a[i] = ib[i]
  BY LenProperties, AppendProperties
<1> HIDE DEF a
<1>2. Len(ib) + 1 \in 1..Len(a) /\ \A i \in 1..Len(ib) : i \in 1..Len(a)  BY <1>1
<1>3. Posted(a, x)  BY <1>1, <1>2 DEF Posted
<1>4. \A m : Posted(ib, m) => Posted(a, m)  BY <1>1, <1>2 DEF Posted
<1>5. Reported(ib) => Reported(a)  BY <1>1, <1>2 DEF Reported
<1> QED  BY <1>3, <1>4, <1>5 DEF a

LEMMA AwayAppend ==
  ASSUME NEW ib \in Seq(Message), NEW x \in Message, NEW g, NEW d, StaysAway(g, d, ib),
         x.kind = "removed" => x.node \in g
  PROVE  StaysAway(g, d, Append(ib, x))
<1> DEFINE a == Append(ib, x)
<1>1. Len(ib) \in Nat /\ Len(a) = Len(ib) + 1 /\ a[Len(ib) + 1] = x /\ \A i \in 1..Len(ib) : a[i] = ib[i]
  BY LenProperties, AppendProperties
<1> HIDE DEF a
<1>2. \A i \in 1..Len(a) : i \in 1..Len(ib) \/ i = Len(ib) + 1  BY <1>1
<1>3. StaysAway(g, d, a)  BY <1>1, <1>2 DEF StaysAway
<1> QED  BY <1>3 DEF a

\* Unless a full scan begins, a list that is not spoiled was not before, and
\* nothing has just happened to it.
LEMMA NothingSpoiled ==
  ASSUME Spoiling, spoiled' = {},
         \A t \in 1..Thread : thread[t].phase = "unborn" /\ thread'[t].phase # "unborn" => thread'[t].code # {}
  PROVE  spoiled = {} /\ ~Cut /\ ~Removed /\ ~Skipped
<1>1. ~MadeAnew  BY DEF MadeAnew
<1>2. spoiled' = spoiled \cup (IF Cut THEN {"cut"} ELSE {})
               \cup (IF Removed THEN {"removed"} ELSE {})
               \cup (IF Skipped THEN {"skipped"} ELSE {})
  BY <1>1 DEF Spoiling
<1>3. ~Cut  BY <1>2
<1>4. ~Removed  BY <1>2
<1>5. ~Skipped  BY <1>2
<1> QED  BY <1>2, <1>3, <1>4, <1>5

\* What is promised for a file that is known stays so.
LEMMA PromiseKept ==
  ASSUME ~Removed, client'.firewalled = client.firewalled
  PROVE  \A n \in client'.known :
           GetFilesNodePath(client, n) \in Promised(client) => GetFilesNodePath(client', n) \in Promised(client')
<1> SUFFICES ASSUME NEW n \in client'.known, GetFilesNodePath(client, n) \in Promised(client)
             PROVE  GetFilesNodePath(client', n) \in Promised(client')
  OBVIOUS
<1>1. GetFilesNodePath(client', n) = GetFilesNodePath(client, n)  BY DEF GetFilesNodePath
<1> QED  BY <1>1 DEF Removed

\* Only a thread that the client knows of begins, and only one that is gone is
\* no longer waited for.
LEMMA OneStaysAtWork ==
  ASSUME OneAtWork, Spoiling,
         \A t \in AtWork(thread') : t \in AtWork(thread) \/ t = client'.tid,
         \A t \in 1..Thread : thread[t].phase = "unborn" /\ thread'[t].phase # "unborn" => t = client'.tid,
         call # NoCall => call' = call \/ call.wait \notin AtWork(thread)
  PROVE  OneAtWork'
<1> SUFFICES ASSUME spoiled' = {}, NEW t \in AtWork(thread')
             PROVE  t = client'.tid \/ (call' # NoCall /\ t = call'.wait)
  BY DEF OneAtWork
<1>1. CASE t = client'.tid  BY <1>1
<1>2. CASE t # client'.tid /\ MadeAnew
  <2>1. PICK u \in 1..Thread : /\ thread[u].phase = "unborn" /\ thread'[u].phase # "unborn"
                               /\ \A v \in 1..Thread \ {u} : ~Alive(v)
    BY <1>2 DEF MadeAnew
  <2>2. u = client'.tid  BY <2>1
  <2>3. t \in 1..Thread \ {u} /\ t \in AtWork(thread)  BY <1>2, <2>2 DEF AtWork
  <2> QED  BY <2>1, <2>3 DEF Alive, AtWork
<1>3. CASE t # client'.tid /\ ~MadeAnew
  <2>1. spoiled = {} /\ ~Cut  BY <1>3 DEF Spoiling
  <2>2. t \in AtWork(thread)  BY <1>3
  <2>3. t \in 1..Thread /\ Alive(t) /\ t # None  BY <2>2 DEF AtWork, Alive, None
  <2>4. CASE t = client.tid
    <3>1. call'.wait = t  BY <1>3, <2>1, <2>3, <2>4 DEF Cut
    <3>2. call' # NoCall  BY <2>3, <3>1 DEF NoCall
    <3> QED  BY <3>1, <3>2
  <2>5. CASE call # NoCall /\ t = call.wait
    <3>1. call' = call  BY <2>2, <2>5
    <3> QED  BY <2>5, <3>1
  <2> QED  BY <2>1, <2>2, <2>4, <2>5 DEF OneAtWork
<1> QED  BY <1>1, <1>2, <1>3

-----------------------------------------------------------------------------
(***************************************************************************)
(* What is coming, and what is going, stays so.                            *)
(***************************************************************************)
LEMMA ComingKept ==
  ASSUME NEW c, NEW th, NEW ib, NEW n, Coming(c, th, ib, n), NEW e, NEW ti, NEW ic,
         e.watched = c.watched, Elder(th, ti),
         \A m : m.kind = "created" /\ Posted(ib, m) => Posted(ic, m),
         "adds" \in c.pending \/ Posted(ib, [kind |-> "mounted"]) =>
           \/ "adds" \in e.pending \/ Posted(ic, [kind |-> "mounted"])
           \/ \E t \in 1..Thread : WillScan(e, ti[t])
  PROVE  Coming(e, ti, ic, n)
<1>1. CASE \E t \in 1..Thread : WillScan(c, th[t])
  <2>1. PICK t \in 1..Thread : WillScan(c, th[t])  BY <1>1
  <2>2. th[t].phase # "unborn"  BY <2>1 DEF WillScan
  <2>3. ti[t] = th[t]  BY <2>2 DEF Elder
  <2>4. WillScan(e, ti[t])  BY <2>1, <2>3 DEF WillScan
  <2> QED  BY <2>4 DEF Coming
<1>2. CASE \E t \in 1..Thread : th[t].phase = "scan" /\ n \in th[t].must \ th[t].seen
  <2>1. PICK t \in 1..Thread : th[t].phase = "scan" /\ n \in th[t].must \ th[t].seen  BY <1>2
  <2>2. ti[t] = th[t]  BY <2>1 DEF Elder
  <2> QED  BY <2>1, <2>2 DEF Coming
<1>3. CASE Posted(ib, [kind |-> "created", node |-> n])
  <2>1. [kind |-> "created", node |-> n].kind = "created"  OBVIOUS
  <2>2. Posted(ic, [kind |-> "created", node |-> n])  BY <1>3, <2>1
  <2> QED  BY <2>2 DEF Coming
<1>4. CASE n \in Volume /\ ("adds" \in c.pending \/ Posted(ib, [kind |-> "mounted"]))
  BY <1>4 DEF Coming
<1> QED  BY <1>1, <1>2, <1>3, <1>4 DEF Coming

LEMMA GoingKept ==
  ASSUME NEW c, NEW th, NEW ib, NEW n, Going(c, th, ib, n), NEW e, NEW ti, NEW ic,
         Elder(th, ti),
         \A m : m.kind = "removed" /\ Posted(ib, m) => Posted(ic, m),
         "removes" \in c.pending \/ Posted(ib, [kind |-> "unmounted"]) =>
           \/ "removes" \in e.pending \/ Posted(ic, [kind |-> "unmounted"])
           \/ \E t \in 1..Thread : ti[t].phase = "removes"
  PROVE  Going(e, ti, ic, n)
<1>1. CASE Posted(ib, [kind |-> "removed", node |-> n])
  <2>1. [kind |-> "removed", node |-> n].kind = "removed"  OBVIOUS
  <2>2. Posted(ic, [kind |-> "removed", node |-> n])  BY <1>1, <2>1
  <2> QED  BY <2>2 DEF Going
<1>2. CASE n \in Volume /\ \E t \in 1..Thread : th[t].phase = "removes"
  <2>1. PICK t \in 1..Thread : th[t].phase = "removes"  BY <1>2
  <2>2. ti[t] = th[t]  BY <2>1 DEF Elder
  <2> QED  BY <1>2, <2>1, <2>2 DEF Going
<1>3. CASE n \in Volume /\ ("removes" \in c.pending \/ Posted(ib, [kind |-> "unmounted"]))
  BY <1>3 DEF Going
<1> QED  BY <1>1, <1>2, <1>3 DEF Going

\* Threads that have just begun have nothing to send.
LEMMA BatchesKept ==
  ASSUME NEW th, NEW ti, NEW l, NEW k, Tidy(th, l), Tidy(ti, k), Elder(th, ti),
         \A t \in 1..Thread : th[t].phase = "unborn" => ti[t].phase # "scan"
  PROVE  Batches(ti) = Batches(th)
<1>1. ASSUME NEW t \in 1..Thread PROVE ti[t].batch = th[t].batch
  <2>1. CASE th[t].phase = "unborn"
    <3>1. th[t].batch = {} /\ ti[t].batch = {}  BY <2>1 DEF Tidy
    <3> QED  BY <3>1
  <2>2. CASE th[t].phase # "unborn"  BY <2>2 DEF Elder
  <2> QED  BY <2>1, <2>2
<1> QED  BY <1>1 DEF Batches

\* An epoch goes on when the client stays as it is, but for its requests.
LEMMA EpochKept ==
  ASSUME NEW c, NEW th, NEW ib, NEW d, Epoch(c, th, ib, d), NEW e, NEW ti, NEW ic,
         e.mounts, e.watched = c.watched, e.firewalled = c.firewalled, SameList(c, e), Elder(th, ti),
         Batches(ti) = Batches(th),
         e.pending # {} => Busy(ti) \/ Reported(ic),
         \A m : m.kind \in {"created", "removed"} /\ Posted(ib, m) => Posted(ic, m),
         "adds" \in c.pending \/ Posted(ib, [kind |-> "mounted"]) =>
           \/ "adds" \in e.pending \/ Posted(ic, [kind |-> "mounted"])
           \/ \E t \in 1..Thread : WillScan(e, ti[t]),
         "removes" \in c.pending \/ Posted(ib, [kind |-> "unmounted"]) =>
           \/ "removes" \in e.pending \/ Posted(ic, [kind |-> "unmounted"])
           \/ \E t \in 1..Thread : ti[t].phase = "removes"
  PROVE  Epoch(e, ti, ic, d)
<1>1. e.known = c.known  BY DEF SameList
<1>2. Watches(e, ti)
  <2> SUFFICES ASSUME ~e.watched
               PROVE  e.known = {} /\ \E t \in 1..Thread : ti[t].phase = "adds" /\ ti[t].code = {}
    BY DEF Watches
  <2>1. c.known = {} /\ \E t \in 1..Thread : th[t].phase = "adds" /\ th[t].code = {}  BY DEF Epoch, Watches
  <2>2. PICK t \in 1..Thread : th[t].phase = "adds" /\ th[t].code = {}  BY <2>1
  <2>3. ti[t] = th[t]  BY <2>2 DEF Elder
  <2> QED  BY <1>1, <2>1, <2>2, <2>3
<1>3. Follows(e, ti, ic, d)
  <2>1. ASSUME NEW n \in d \ e.known PROVE Coming(e, ti, ic, n)
    <3>1. Coming(c, th, ib, n)  BY <1>1, <2>1 DEF Epoch, Follows
    <3> QED  BY <3>1, ComingKept
  <2>2. ASSUME NEW n \in e.known \ d PROVE Going(e, ti, ic, n)
    <3>1. Going(c, th, ib, n)  BY <1>1, <2>2 DEF Epoch, Follows
    <3> QED  BY <3>1, GoingKept
  <2> QED  BY <2>1, <2>2 DEF Follows
<1>4. Agrees(e, ti)
  <2>1. Paths(e) = Paths(c) /\ ToList(e) = ToList(c) /\ Promised(e) = Promised(c)  BY SameListed
  <2> QED  BY <2>1 DEF Epoch, Agrees
<1> QED  BY <1>2, <1>3, <1>4 DEF Epoch

-----------------------------------------------------------------------------
(***************************************************************************)
(* New scans.                                                              *)
(***************************************************************************)
Starts(code) ==
    /\ Unborn # {} /\ client'.tid = NextThread
    /\ thread' = [thread EXCEPT ![NextThread] = Spawned(code)]

LEMMA StartsFields ==
  ASSUME thread \in Threads, NEW code \in Codes, Starts(code)
  PROVE  /\ client'.tid \in 1..Thread /\ client'.tid # None
         /\ thread[client'.tid].phase = "unborn" /\ thread'[client'.tid] = Spawned(code)
         /\ \A t \in 1..Thread : t # client'.tid => thread'[t] = thread[t]
         /\ Elder(thread, thread') /\ Busy(thread')
<1>1. client'.tid \in 1..Thread /\ thread[client'.tid].phase = "unborn" /\ client'.tid # None
      /\ thread' = [thread EXCEPT ![client'.tid] = Spawned(code)]
  BY NextThreadIsUnborn DEF Starts
<1>2. thread'[client'.tid] = Spawned(code) /\ \A t \in 1..Thread : t # client'.tid => thread'[t] = thread[t]
  BY <1>1 DEF Threads
<1>3. Spawned(code).phase \in {"removes", "adds"}  BY DEF Spawned
<1>4. Busy(thread')  BY <1>1, <1>2, <1>3 DEF Busy
<1>5. Elder(thread, thread')  BY <1>1, <1>2 DEF Elder
<1> QED  BY <1>1, <1>2, <1>4, <1>5

\* A new scan leaves everything tidy, and is the only thread at work unless the
\* list is spoiled.
LEMMA StartsTidy ==
  ASSUME SharesInv, ListInv, Spoiling, NEW code \in Codes, Starts(code), lock' = lock,
         call # NoCall => call' = call \/ call.wait \notin AtWork(thread)
  PROVE  /\ Tidy(thread', lock') /\ OneAtWork' /\ WillReport'
         /\ Batches(thread') = Batches(thread)
<1>0. thread \in Threads  BY InvFields
<1> DEFINE T == client'.tid
<1>1. /\ T \in 1..Thread /\ T # None /\ thread[T].phase = "unborn" /\ thread'[T] = Spawned(code)
      /\ \A t \in 1..Thread : t # T => thread'[t] = thread[t]
      /\ Elder(thread, thread') /\ Busy(thread')
  BY <1>0, StartsFields
<1>2. /\ Spawned(code).phase \in {"removes", "adds"} /\ Spawned(code).seen = {}
      /\ Spawned(code).batch = {}
  BY DEF Spawned
<1>3. Tidy(thread', lock')
  <2>1. Tidy(thread, lock)  BY DEF ListInv
  <2> SUFFICES ASSUME NEW t \in 1..Thread
               PROVE  /\ thread'[t].phase \in {"removes", "adds"} => thread'[t].seen = {}
                      /\ thread'[t].phase # "scan" => thread'[t].batch = {}
                      /\ thread'[t].phase = "scan" => lock' = t
    BY DEF Tidy
  <2>2. CASE t = T  BY <1>1, <1>2, <2>2
  <2>3. CASE t # T
    <3>1. thread'[t] = thread[t]  BY <1>1, <2>3
    <3> QED  BY <2>1, <3>1 DEF Tidy
  <2> QED  BY <2>2, <2>3
<1>4. OneAtWork'
  <2>1. \A t \in AtWork(thread') : t \in AtWork(thread) \/ t = T  BY <1>1 DEF AtWork
  <2>2. \A t \in 1..Thread : thread[t].phase = "unborn" /\ thread'[t].phase # "unborn" => t = T
    BY <1>1
  <2>3. OneAtWork  BY DEF ListInv
  <2> QED  BY <2>1, <2>2, <2>3, OneStaysAtWork
<1>5. WillReport'  BY <1>1 DEF WillReport
<1>6. Batches(thread') = Batches(thread)
  <2>1. \A t \in 1..Thread : thread[t].phase = "unborn" => thread'[t].phase # "scan"
    <3> SUFFICES ASSUME NEW t \in 1..Thread, thread[t].phase = "unborn" PROVE thread'[t].phase # "scan"
      OBVIOUS
    <3>1. CASE t = T  BY <1>1, <1>2, <3>1
    <3>2. CASE t # T  BY <1>1, <3>2
    <3> QED  BY <3>1, <3>2
  <2>2. Tidy(thread, lock)  BY DEF ListInv
  <2> QED  BY <1>1, <1>3, <2>1, <2>2, BatchesKept
<1> QED  BY <1>3, <1>4, <1>5, <1>6

\* A full scan of a folder that is not watched begins a new epoch.
LEMMA FreshList ==
  ASSUME SharesInv, ListInv, Spoiling, Starts({}), UNCHANGED <<disk, deleted, lock, inbox>>, call' = NoCall,
         call # NoCall => call.wait \notin AtWork(thread),
         Bare(client'), client'.mounts
  PROVE  ListInv'
<1>0. thread \in Threads /\ {} \in Codes  BY InvFields DEF Codes
<1> DEFINE T == client'.tid
<1>1. Tidy(thread', lock') /\ OneAtWork' /\ WillReport'  BY <1>0, StartsTidy
<1>2. T \in 1..Thread /\ thread'[T] = Spawned({}) /\ Busy(thread')  BY <1>0, StartsFields
<1>3. thread'[T].phase = "adds" /\ thread'[T].code = {}  BY <1>2 DEF Spawned
<1>4. ASSUME Active'
      PROVE  Epoch(client', thread', inbox', disk')
  <2>1. \A t \in 1..Thread : t # T => thread'[t].phase \in {"unborn", "gone"}
    BY <1>1, <1>4 DEF OneAtWork, Active, AtWork
  <2>2. Batches(thread') = {}
    <3>1. \A t \in 1..Thread : thread'[t].phase # "scan"  BY <1>3, <2>1
    <3>2. \A t \in 1..Thread : thread'[t].batch = {}  BY <1>1, <3>1 DEF Tidy
    <3> QED  BY <3>2 DEF Batches
  <2>3. ~client'.watched /\ client'.known = {} /\ ToList(client') = {}  BY DEF Bare
  <2>4. Watches(client', thread')  BY <1>2, <1>3, <2>3 DEF Watches
  <2>5. Follows(client', thread', inbox', disk')
    <3>1. WillScan(client', thread'[T])  BY <1>3, <2>3 DEF WillScan
    <3>2. \A n \in disk' : Coming(client', thread', inbox', n)  BY <1>2, <3>1 DEF Coming
    <3> QED  BY <2>3, <3>2 DEF Follows
  <2>6. Agrees(client', thread')
    <3>1. Paths(client') = {}  BY <2>3 DEF Paths
    <3> QED  BY <2>2, <2>3, <3>1 DEF Agrees
  <2> QED  BY <1>2, <2>4, <2>5, <2>6 DEF Epoch
<1>5. StaysAway(deleted', disk', inbox')  BY DEF ListInv
<1> QED  BY <1>1, <1>4, <1>5 DEF ListInv

\* Steps after which the list is nobody's concern.
LEMMA UnlistedList ==
  ASSUME SharesInv, ListInv, Spoiling, UNCHANGED <<disk, deleted, thread, lock, inbox>>,
         client'.tid \in {None, client.tid},
         call # NoCall => call' = call \/ call.wait \notin AtWork(thread),
         ~Active'
  PROVE  ListInv'
<1>1. OneAtWork'
  <2>1. /\ \A t \in AtWork(thread') : t \in AtWork(thread) \/ t = client'.tid
        /\ \A t \in 1..Thread : thread[t].phase = "unborn" /\ thread'[t].phase # "unborn" => t = client'.tid
        /\ OneAtWork
    BY DEF ListInv
  <2> QED  BY <2>1, OneStaysAtWork
<1>2. WillReport'  BY DEF ListInv, WillReport
<1> QED  BY <1>1, <1>2 DEF ListInv

LEMMA ReuploadShape ==
  ASSUME NEW c \in Client, NEW code, ReuploadFiles(c, code)
  PROVE  \/ client' = EndScanSharesBatch(c) /\ thread' = thread /\ c.mtt = "none"
         \/ /\ c.mtt # "none" /\ Starts(code) /\ client'.mounts
            /\ code = {} => Bare(client')
            /\ code # {} => /\ client' \in Client /\ client'.mtt = c.mtt /\ client'.enabled = c.enabled
                            /\ client'.firewalled = c.firewalled /\ client'.watched = c.watched
                            /\ client'.pending = c.pending /\ SameList(c, client')
<1>1. CASE c.mtt = "none"  BY <1>1 DEF ReuploadFiles
<1>2. CASE c.mtt # "none"
  <2> DEFINE e == IF code = {} THEN RemoveFileSharing(c) ELSE c
             T == NextThread
             d == [e EXCEPT !.tid = T, !.mounts = TRUE]
  <2>1. Unborn # {} /\ client' = d /\ thread' = [thread EXCEPT ![NextThread] = Spawned(code)]
    BY <1>2 DEF ReuploadFiles
  <2>2. e \in Client  BY RemoveFileSharingFields
  <2>3. code = {} => Bare(e)  BY <1>2, RemoveFileSharingList
  <2>4. code # {} => e = c  OBVIOUS
  <2>5. T \in 0..Thread  BY <2>1, NextThreadIsUnborn
  <2> HIDE DEF e, T
  <2>6. /\ d \in Client /\ d.tid = T /\ d.mounts /\ d.mtt = e.mtt /\ d.enabled = e.enabled
        /\ d.firewalled = e.firewalled /\ d.watched = e.watched /\ d.pending = e.pending
        /\ d.known = e.known /\ d.low = e.low /\ d.listed = e.listed
    BY <2>2, <2>5, Zenon DEF Client
  <2> HIDE DEF d
  <2>7. Starts(code)  BY <2>1, <2>6 DEF Starts, T
  <2>8. code = {} => Bare(client')  BY <2>1, <2>3, <2>6 DEF Bare, ToList
  <2> QED  BY <1>2, <2>1, <2>4, <2>6, <2>7, <2>8 DEF SameList
<1> QED  BY <1>1, <1>2

-----------------------------------------------------------------------------
(***************************************************************************)
(* The commands.                                                           *)
(***************************************************************************)
LEMMA ReuploadList ==
  ASSUME SharesInv, ListInv, Spoiling, UNCHANGED <<disk, deleted, lock, inbox>>, call' = NoCall,
         call # NoCall => call.wait \notin AtWork(thread),
         NEW c \in Client, c.tid = None, ReuploadFiles(c, {})
  PROVE  ListInv'
<1>1. CASE client' = EndScanSharesBatch(c) /\ thread' = thread /\ c.mtt = "none"
  <2>1. Steady(c, client')  BY <1>1, EndBatchList
  <2>2. client'.tid = None /\ ~Active'  BY <1>1, <2>1 DEF Steady, Active
  <2> QED  BY <1>1, <2>2, UnlistedList
<1>2. CASE Starts({}) /\ client'.mounts /\ Bare(client')  BY <1>2, FreshList
<1> QED  BY <1>1, <1>2, ReuploadShape

LEMMA RestList ==
  ASSUME SharesInv, ListInv, Spoiling, UNCHANGED <<disk, deleted, lock, inbox>>, call' = NoCall,
         call # NoCall => call.wait \notin AtWork(thread),
         NEW c \in Client, c.tid = None, NEW op \in Ops, Rest(c, op)
  PROVE  ListInv'
<1>1. CASE op = "reupload"
  <2>1. ReuploadFiles(c, {})  BY <1>1 DEF Rest
  <2> QED  BY <2>1, ReuploadList
<1>2. CASE op = "disconnect"
  <2>1. client' = Disconnected(c) /\ thread' = thread  BY <1>2 DEF Rest
  <2>2. client'.tid = None /\ client'.mtt = "none"  BY <2>1, DisconnectedFields
  <2> QED  BY <2>1, <2>2, UnlistedList DEF Active
<1>3. CASE op = "connect"
  <2> DEFINE d == Disconnected(c)
  <2>1. client' = [d EXCEPT !.mtt = "connecting"] /\ thread' = thread  BY <1>3 DEF Rest
  <2>2. d \in Client /\ d.tid = None  BY DisconnectedFields
  <2> HIDE DEF d
  <2>3. client'.tid = None /\ client'.mtt = "connecting"  BY <2>1, <2>2, Zenon DEF Client
  <2>4. ~Active'  BY <2>3 DEF Active
  <2> QED  BY <2>1, <2>3, <2>4, UnlistedList
<1>4. CASE op = "sharing"
  <2> DEFINE b == EndScanSharesBatch(c)
  <2>1. b \in Client /\ Steady(c, b)  BY EndBatchFields, EndBatchList
  <2>2. CASE c.enabled
    <3>1. ReuploadFiles(b, {})  BY <1>4, <2>2 DEF Rest
    <3>2. b.tid = None  BY <2>1 DEF Steady
    <3> HIDE DEF b
    <3> QED  BY <2>1, <3>1, <3>2, ReuploadList
  <2>3. CASE ~c.enabled
    <3> DEFINE r == RemoveFileSharing(b)
               free == lock = None
    <3>1. client' = UploadSharedFileCount(r, free) /\ thread' = thread  BY <1>4, <2>3 DEF Rest
    <3> HIDE DEF b
    <3>2. r \in Client /\ r.tid = b.tid /\ r.enabled = b.enabled
      BY <2>1, RemoveFileSharingFields DEF Alike
    <3> HIDE DEF r, free
    <3>3. Steady(r, client')  BY <3>1, <3>2, UploadCountList
    <3>4. client'.tid = None /\ ~client'.enabled  BY <2>1, <2>3, <3>2, <3>3 DEF Steady
    <3>5. ~Active'  BY <3>4 DEF Active
    <3> QED  BY <3>1, <3>4, <3>5, UnlistedList
  <2> QED  BY <2>2, <2>3
<1> QED  BY <1>1, <1>2, <1>3, <1>4 DEF Ops

LEMMA AbortList ==
  ASSUME SharesInv, ListInv, Spoiling, UNCHANGED <<disk, deleted, lock, inbox>>, Idle,
         NEW c \in Client, c.tid = client.tid, NEW op \in Ops, AbortScanSharesThread(c, op)
  PROVE  ListInv'
<1>1. CASE c.tid = None
  <2>1. Rest(c, op) /\ call' = NoCall /\ call = NoCall  BY <1>1 DEF AbortScanSharesThread, Idle
  <2> QED  BY <1>1, <2>1, RestList
<1>2. CASE c.tid # None
  <2> DEFINE d == [c EXCEPT !.tid = None]
  <2>1. client' = d /\ call' = [op |-> op, wait |-> c.tid] /\ thread' = thread
    BY <1>2 DEF AbortScanSharesThread
  <2>2. d.tid = None  BY Zenon DEF Client
  <2> HIDE DEF d
  <2>3. call' # NoCall
    <3>1. call'.wait = c.tid  BY <2>1
    <3> QED  BY <1>2, <3>1 DEF NoCall
  <2>4. ~Active'  BY <2>3 DEF Active, Idle
  <2>5. call = NoCall  BY DEF Idle
  <2> QED  BY <2>1, <2>2, <2>4, <2>5, UnlistedList
<1> QED  BY <1>1, <1>2

LEMMA ThreadGoneList ==
  ASSUME SharesInv, ListInv, ThreadGone
  PROVE  ListInv'
<1>1. client \in Client /\ call \in Calls /\ (~Idle => client.tid = None)  BY InvFields
<1>2. /\ call # NoCall /\ thread[call.wait].phase = "gone" /\ Rest(client, call.op) /\ call' = NoCall
      /\ UNCHANGED <<disk, deleted, lock, inbox>> /\ Spoiling
  BY DEF ThreadGone
<1>3. call.op \in Ops  BY <1>1, <1>2 DEF Calls
<1>4. client.tid = None  BY <1>1, <1>2 DEF Idle
<1>5. call.wait \notin AtWork(thread)  BY <1>2 DEF AtWork
<1> QED  BY <1>1, <1>2, <1>3, <1>4, <1>5, RestList

LEMMA CommandList ==
  ASSUME SharesInv, ListInv, Command
  PROVE  ListInv'
<1>0. client \in Client  BY InvFields
<1>1. CASE ConnectToServer
  <2>1. "connect" \in Ops  BY DEF Ops
  <2> QED  BY <1>0, <1>1, <2>1, AbortList DEF ConnectToServer
<1>2. CASE DisconnectFromServer
  <2>1. "disconnect" \in Ops  BY DEF Ops
  <2> QED  BY <1>0, <1>2, <2>1, AbortList DEF DisconnectFromServer
<1>3. CASE SetFileSharingEnabled
  <2> DEFINE e == ~client.enabled
             c == [client EXCEPT !.enabled = e]
  <2>1. AbortScanSharesThread(c, "sharing")  BY <1>3 DEF SetFileSharingEnabled
  <2>2. c \in Client /\ c.tid = client.tid
    <3>1. e \in BOOLEAN  OBVIOUS
    <3> HIDE DEF e
    <3> QED  BY <1>0, <3>1, Zenon DEF Client
  <2>3. "sharing" \in Ops  BY DEF Ops
  <2> HIDE DEF c
  <2> QED  BY <1>3, <2>1, <2>2, <2>3, AbortList DEF SetFileSharingEnabled
<1>4. CASE SetFirewalled
  <2> DEFINE e == ~client.firewalled
             c == [client EXCEPT !.firewalled = e]
  <2>1. IF c.mtt = "connected" THEN AbortScanSharesThread(c, "reupload")
        ELSE client' = c /\ thread' = thread /\ call' = call
    BY <1>4 DEF SetFirewalled
  <2>2. c \in Client /\ c.tid = client.tid
    <3>1. e \in BOOLEAN  OBVIOUS
    <3> HIDE DEF e
    <3> QED  BY <1>0, <3>1, Zenon DEF Client
  <2>3. "reupload" \in Ops  BY DEF Ops
  <2> HIDE DEF c
  <2>4. Spoiling /\ Idle /\ UNCHANGED <<disk, deleted, lock, inbox>>  BY <1>4 DEF SetFirewalled
  <2>5. CASE c.mtt = "connected"
    <3>1. AbortScanSharesThread(c, "reupload")  BY <2>1, <2>5
    <3> QED  BY <2>2, <2>3, <2>4, <3>1, AbortList
  <2>6. CASE c.mtt # "connected"
    <3>1. client' = c /\ thread' = thread /\ call' = call  BY <2>1, <2>6
    <3>2. ~Active'  BY <2>6, <3>1 DEF Active
    <3> QED  BY <2>2, <2>4, <3>1, <3>2, UnlistedList
  <2> QED  BY <2>5, <2>6
<1>5. CASE SessionConnected
  <2> DEFINE c == [client EXCEPT !.mtt = "connected"]
  <2>1. IF c.enabled THEN AbortScanSharesThread(c, "reupload")
        ELSE client' = c /\ thread' = thread /\ call' = call
    BY <1>5 DEF SessionConnected
  <2>2. c \in Client /\ c.tid = client.tid  BY <1>0, Zenon DEF Client
  <2>3. "reupload" \in Ops  BY DEF Ops
  <2> HIDE DEF c
  <2>4. Spoiling /\ Idle /\ UNCHANGED <<disk, deleted, lock, inbox>>  BY <1>5 DEF SessionConnected
  <2>5. CASE c.enabled
    <3>1. AbortScanSharesThread(c, "reupload")  BY <2>1, <2>5
    <3> QED  BY <2>2, <2>3, <2>4, <3>1, AbortList
  <2>6. CASE ~c.enabled
    <3>1. client' = c /\ thread' = thread /\ call' = call  BY <2>1, <2>6
    <3>2. ~Active'  BY <2>6, <3>1 DEF Active
    <3> QED  BY <2>2, <2>4, <3>1, <3>2, UnlistedList
  <2> QED  BY <2>5, <2>6
<1> QED  BY <1>1, <1>2, <1>3, <1>4, <1>5 DEF Command

-----------------------------------------------------------------------------
(***************************************************************************)
(* The queue drains, and the count is sent.                                *)
(***************************************************************************)
\* The lists stay as they are unless something new has happened to the list.
LEMMA StillActive ==
  ASSUME Spoiling, Active', client'.mtt = client.mtt, client'.enabled = client.enabled, call' = call,
         \A t \in 1..Thread : thread[t].phase = "unborn" /\ thread'[t].phase # "unborn" => thread'[t].code # {}
  PROVE  Active /\ ~Cut /\ ~Removed /\ ~Skipped
<1>1. spoiled' = {}  BY DEF Active
<1>2. spoiled = {} /\ ~Cut /\ ~Removed /\ ~Skipped  BY <1>1, NothingSpoiled
<1> QED  BY <1>2 DEF Active, Idle

LEMMA QuietList ==
  ASSUME SharesInv, ListInv, Spoiling, UNCHANGED <<disk, deleted, thread, lock, inbox, call>>,
         Steady(client, client'), client'.known = client.known,
         Agrees(client, thread) /\ ~Removed => Agrees(client', thread)
  PROVE  ListInv'
<1>1. OneAtWork'
  <2>1. /\ \A t \in AtWork(thread') : t \in AtWork(thread) \/ t = client'.tid
        /\ \A t \in 1..Thread : thread[t].phase = "unborn" /\ thread'[t].phase # "unborn" => t = client'.tid
        /\ OneAtWork
    BY DEF ListInv
  <2> QED  BY <2>1, OneStaysAtWork
<1>2. WillReport'  BY DEF ListInv, WillReport, Steady
<1>3. ASSUME Active'
      PROVE  Epoch(client', thread', inbox', disk')
  <2>1. Active /\ ~Removed  BY <1>3, StillActive DEF Steady
  <2>2. Epoch(client, thread, inbox, disk)  BY <2>1 DEF ListInv
  <2>3. Agrees(client', thread)  BY <2>1, <2>2 DEF Epoch
  <2>4. Watches(client', thread)  BY <2>2 DEF Epoch, Watches, Steady
  <2>5. Follows(client', thread, inbox, disk)
    <3>1. \A n : Coming(client, thread, inbox, n) => Coming(client', thread, inbox, n)
      BY DEF Coming, WillScan, Steady
    <3>2. \A n : Going(client, thread, inbox, n) => Going(client', thread, inbox, n)
      BY DEF Going, Steady
    <3> QED  BY <2>2, <3>1, <3>2 DEF Epoch, Follows
  <2> QED  BY <2>2, <2>3, <2>4, <2>5 DEF Epoch, Steady
<1> QED  BY <1>1, <1>2, <1>3 DEF ListInv

LEMMA SameAgrees ==
  ASSUME NEW c, NEW d, d.firewalled = c.firewalled, SameList(c, d), NEW th, Agrees(c, th)
  PROVE  Agrees(d, th)
BY SameListed DEF Agrees

LEMMA CheckFileCountList ==
  ASSUME SharesInv, ListInv, CheckFileCount
  PROVE  ListInv'
<1>1. client \in Client  BY InvFields
<1> DEFINE free == lock = None
<1>2. client' = UploadSharedFileCount(client, free) /\ Spoiling
      /\ UNCHANGED <<disk, deleted, thread, lock, inbox, call>>
  BY DEF CheckFileCount
<1> HIDE DEF free
<1>3. Steady(client, client') /\ SameList(client, client')  BY <1>1, <1>2, UploadCountList
<1>4. client'.known = client.known /\ (Agrees(client, thread) => Agrees(client', thread))
  BY <1>3, SameAgrees DEF Steady, SameList
<1> QED  BY <1>2, <1>3, <1>4, QuietList

LEMMA FileListArrivesList ==
  ASSUME SharesInv, ListInv, FileListArrives
  PROVE  ListInv'
<1>1. client \in Client  BY InvFields
<1>2. client' = [client EXCEPT !.waiter = TRUE] /\ Spoiling
      /\ UNCHANGED <<disk, deleted, thread, lock, inbox, call>>
  BY DEF FileListArrives
<1>3. Steady(client, client') /\ SameList(client, client')
  BY <1>1, <1>2, Zenon DEF Client, Steady, SameList
<1>4. client'.known = client.known /\ (Agrees(client, thread) => Agrees(client', thread))
  BY <1>3, SameAgrees DEF Steady, SameList
<1> QED  BY <1>2, <1>3, <1>4, QuietList

LEMMA DrainedList ==
  ASSUME SharesInv, ListInv, OutputQueuesDrained
  PROVE  ListInv'
<1>1. client \in Client  BY InvFields
<1> DEFINE c == [client EXCEPT !.sending = FALSE]
<1>2. /\ Spoiling /\ UNCHANGED <<disk, deleted, thread, lock, inbox, call>> /\ client.mtt # "none"
      /\ \E k \in 1..(IF client.low = <<>> THEN 1 ELSE Len(client.low)) :
           client' = CheckSendMoreLowPriorityMessages(c, k)
  BY DEF OutputQueuesDrained
<1>3. c \in Client /\ Steady(client, c) /\ SameList(client, c)
  BY <1>1, Zenon DEF Client, Steady, SameList
<1> HIDE DEF c
<1>4. PICK k \in 1..(IF client.low = <<>> THEN 1 ELSE Len(client.low)) :
           client' = CheckSendMoreLowPriorityMessages(c, k)
  BY <1>2
<1>5. CASE c.low = <<>>
  <2>1. client' = c  BY <1>4, <1>5 DEF CheckSendMoreLowPriorityMessages
  <2>2. client'.known = client.known /\ (Agrees(client, thread) => Agrees(client', thread))
    BY <1>3, <2>1, SameAgrees DEF Steady, SameList
  <2> QED  BY <1>2, <1>3, <2>1, <2>2, QuietList
<1>6. CASE c.low # <<>>
  <2>1. client.low = c.low /\ c.low \in Seq(Update)  BY <1>3, ClientFields DEF SameList
  <2>2. k \in Nat /\ k >= 1 /\ k <= Len(c.low)
    <3>1. k \in 1..Len(c.low) /\ Len(c.low) \in Nat  BY <1>4, <1>6, <2>1, LenProperties
    <3> QED  BY <3>1
  <2>3. /\ Steady(c, client') /\ client'.known = c.known
        /\ ToList(client') \cap Listing = ToList(c) \cap Listing
    BY <1>3, <1>4, <2>2, CheckSendList
  <2>4. ToList(client') = ToList(c)
    <3>1. ToList(client') \subseteq Listing /\ ToList(c) \subseteq Listing  BY DeliveredType DEF ToList
    <3> QED  BY <2>3, <3>1
  <2>5. Steady(client, client') /\ client'.known = client.known  BY <1>3, <2>3 DEF Steady, SameList
  <2>6. Paths(client') = Paths(client) /\ ToList(client') = ToList(client)
    <3>1. \A n : GetFilesNodePath(client', n) = GetFilesNodePath(client, n)  BY <2>5, SamePath DEF Steady
    <3>2. ToList(c) = ToList(client)  BY <1>3, SameListed DEF Steady
    <3> QED  BY <2>4, <2>5, <3>1, <3>2 DEF Paths
  <2>7. ASSUME Agrees(client, thread), ~Removed
        PROVE  Agrees(client', thread)
    <3>1. ASSUME NEW n \in client'.known, GetFilesNodePath(client', n) \notin Batches(thread)
          PROVE  GetFilesNodePath(client', n) \in Promised(client')
      <4>1. GetFilesNodePath(client', n) = GetFilesNodePath(client, n)  BY <2>5, SamePath DEF Steady
      <4>2. GetFilesNodePath(client, n) \in Promised(client)
        BY <2>5, <2>7, <3>1, <4>1 DEF Agrees, Paths
      <4> QED  BY <2>5, <2>7, <3>1, <4>2, PromiseKept DEF Steady
    <3>2. Paths(client') \subseteq Promised(client') \cup Batches(thread)  BY <3>1 DEF Paths
    <3> QED  BY <2>6, <2>7, <3>2 DEF Agrees
  <2> QED  BY <1>2, <2>5, <2>7, QuietList
<1> QED  BY <1>5, <1>6

-----------------------------------------------------------------------------
(***************************************************************************)
(* The inbox.                                                              *)
(***************************************************************************)
LEMMA PostedRest ==
  ASSUME NEW ib \in Seq(Message), ib # <<>>, NEW k, Head(ib).kind # k, NEW m, m.kind = k, Posted(ib, m)
  PROVE  Posted(Tail(ib), m)
BY PostedTail

\* A message that makes no epoch.
LEMMA UnlistedInbox ==
  ASSUME SharesInv, ListInv, Spoiling, UNCHANGED <<disk, deleted, thread, lock, call>>,
         inbox # <<>>, inbox' = Tail(inbox), ~Active',
         client'.tid = None \/ (client'.tid = client.tid /\ Head(inbox).kind # "report")
  PROVE  ListInv'
<1>0. inbox \in Seq(Message)  BY InvFields
<1>1. OneAtWork'
  <2>1. /\ \A t \in AtWork(thread') : t \in AtWork(thread) \/ t = client'.tid
        /\ \A t \in 1..Thread : thread[t].phase = "unborn" /\ thread'[t].phase # "unborn" => t = client'.tid
        /\ OneAtWork
    BY DEF ListInv
  <2> QED  BY <2>1, OneStaysAtWork
<1>2. WillReport'  BY <1>0, ReportStays DEF ListInv, WillReport
<1>3. StaysAway(deleted', disk', inbox')  BY <1>0, AwayTail DEF ListInv
<1> QED  BY <1>1, <1>2, <1>3 DEF ListInv

\* A message that starts a rescan.
LEMMA RescanList ==
  ASSUME SharesInv, ListInv, Spoiling, UNCHANGED <<disk, deleted, lock, call>>, Idle,
         inbox # <<>>, inbox' = Tail(inbox), NEW code \in Codes, code # {}, Starts(code),
         client'.mtt = client.mtt, client'.enabled = client.enabled, client'.firewalled = client.firewalled,
         client'.watched = client.watched, client'.mounts, SameList(client, client'),
         Head(inbox).kind \notin {"created", "removed", "moved"},
         "adds" \in client.pending \/ Head(inbox).kind = "mounted" => "adds" \in client'.pending \cup code,
         "removes" \in client.pending \/ Head(inbox).kind = "unmounted" => "removes" \in client'.pending \cup code
  PROVE  ListInv'
<1>0. inbox \in Seq(Message) /\ thread \in Threads  BY InvFields
<1> DEFINE T == client'.tid
<1>1. Tidy(thread', lock') /\ OneAtWork' /\ WillReport' /\ Batches(thread') = Batches(thread)
  BY StartsTidy
<1>2. /\ T \in 1..Thread /\ thread'[T] = Spawned(code) /\ Elder(thread, thread') /\ Busy(thread')
      /\ \A t \in 1..Thread : t # T => thread'[t] = thread[t]
  BY <1>0, StartsFields
<1>3. StaysAway(deleted', disk', inbox')  BY <1>0, AwayTail DEF ListInv
<1>4. ASSUME Active'
      PROVE  Epoch(client', thread', inbox', disk')
  <2>0. thread'[T].code = code  BY <1>2 DEF Spawned
  <2>1. Active
    <3>1. \A t \in 1..Thread : thread[t].phase = "unborn" /\ thread'[t].phase # "unborn" => thread'[t].code # {}
      <4> SUFFICES ASSUME NEW t \in 1..Thread, thread[t].phase = "unborn" /\ thread'[t].phase # "unborn"
                   PROVE  thread'[t].code # {}
        OBVIOUS
      <4>1. t = T  BY <1>2
      <4> QED  BY <2>0, <4>1
    <3> QED  BY <1>4, <3>1, StillActive
  <2>2. Epoch(client, thread, inbox, disk)  BY <2>1 DEF ListInv
  <2>3. "adds" \in client.pending \/ Posted(inbox, [kind |-> "mounted"]) =>
           \/ "adds" \in client'.pending \/ Posted(inbox', [kind |-> "mounted"])
           \/ \E t \in 1..Thread : WillScan(client', thread'[t])
    <3>1. "adds" \in code => WillScan(client', thread'[T])  BY <1>2, <2>0 DEF WillScan, Spawned
    <3>2. Posted(inbox, [kind |-> "mounted"]) => Head(inbox).kind = "mounted" \/ Posted(inbox', [kind |-> "mounted"])
      <4>1. [kind |-> "mounted"].kind = "mounted"  OBVIOUS
      <4> QED  BY <1>0, <4>1, PostedRest
    <3> QED  BY <1>2, <3>1, <3>2
  <2>4. "removes" \in client.pending \/ Posted(inbox, [kind |-> "unmounted"]) =>
           \/ "removes" \in client'.pending \/ Posted(inbox', [kind |-> "unmounted"])
           \/ \E t \in 1..Thread : thread'[t].phase = "removes"
    <3>1. "removes" \in code => thread'[T].phase = "removes"  BY <1>2 DEF Spawned
    <3>2. Posted(inbox, [kind |-> "unmounted"]) => Head(inbox).kind = "unmounted" \/ Posted(inbox', [kind |-> "unmounted"])
      <4>1. [kind |-> "unmounted"].kind = "unmounted"  OBVIOUS
      <4> QED  BY <1>0, <4>1, PostedRest
    <3> QED  BY <1>2, <3>1, <3>2
  <2>5. \A m : m.kind \in {"created", "removed"} /\ Posted(inbox, m) => Posted(inbox', m)
    BY <1>0, PostedRest
  <2> QED  BY <1>1, <1>2, <2>2, <2>3, <2>4, <2>5, EpochKept
<1> QED  BY <1>1, <1>3, <1>4 DEF ListInv

\* A message after which everything goes on, but for what is asked of the scan.
LEMMA RequestList ==
  ASSUME SharesInv, ListInv, Spoiling, UNCHANGED <<disk, deleted, thread, lock, call>>, Idle,
         inbox # <<>>, inbox' = Tail(inbox),
         client'.tid = None \/ (client'.tid = client.tid /\ Head(inbox).kind # "report"),
         client'.pending # {} => client'.tid # None,
         client'.mtt = client.mtt, client'.enabled = client.enabled, client'.firewalled = client.firewalled,
         client'.watched = client.watched, client'.mounts = client.mounts, SameList(client, client'),
         Head(inbox).kind \notin {"created", "removed", "moved"},
         "adds" \in client.pending \/ Head(inbox).kind = "mounted" => "adds" \in client'.pending,
         "removes" \in client.pending \/ Head(inbox).kind = "unmounted" => "removes" \in client'.pending
  PROVE  ListInv'
<1>0. inbox \in Seq(Message)  BY InvFields
<1>1. OneAtWork'
  <2>1. /\ \A t \in AtWork(thread') : t \in AtWork(thread) \/ t = client'.tid
        /\ \A t \in 1..Thread : thread[t].phase = "unborn" /\ thread'[t].phase # "unborn" => t = client'.tid
        /\ OneAtWork
    BY DEF ListInv
  <2> QED  BY <2>1, OneStaysAtWork
<1>2. WillReport'  BY <1>0, ReportStays DEF ListInv, WillReport
<1>3. StaysAway(deleted', disk', inbox')  BY <1>0, AwayTail DEF ListInv
<1>4. ASSUME Active'
      PROVE  Epoch(client', thread', inbox', disk')
  <2>1. Active  BY <1>4, StillActive
  <2>2. Epoch(client, thread, inbox, disk)  BY <2>1 DEF ListInv
  <2>3. Posted(inbox, [kind |-> "mounted"]) => Head(inbox).kind = "mounted" \/ Posted(inbox', [kind |-> "mounted"])
    <3>1. [kind |-> "mounted"].kind = "mounted"  OBVIOUS
    <3> QED  BY <1>0, <3>1, PostedRest
  <2>4. Posted(inbox, [kind |-> "unmounted"]) => Head(inbox).kind = "unmounted" \/ Posted(inbox', [kind |-> "unmounted"])
    <3>1. [kind |-> "unmounted"].kind = "unmounted"  OBVIOUS
    <3> QED  BY <1>0, <3>1, PostedRest
  <2>5. \A m : m.kind \in {"created", "removed"} /\ Posted(inbox, m) => Posted(inbox', m)
    BY <1>0, PostedRest
  <2>6. client'.pending # {} => Busy(thread') \/ Reported(inbox')  BY <1>2 DEF WillReport
  <2>7. Elder(thread, thread') /\ Batches(thread') = Batches(thread) /\ client'.mounts
    BY <2>2 DEF Elder, Epoch
  <2> QED  BY <2>2, <2>3, <2>4, <2>5, <2>6, <2>7, EpochKept
<1> QED  BY <1>1, <1>2, <1>3, <1>4 DEF ListInv

LEMMA ScanReportedList ==
  ASSUME SharesInv, ListInv, ScanReported
  PROVE  ListInv'
<1>0. client \in Client  BY InvFields
<1> DEFINE c0 == [client EXCEPT !.tid = None]
           free == lock = None
           c == UploadSharedFileCount(c0, free)
           P == {}
           e == [c EXCEPT !.pending = P]
<1>1. /\ Idle /\ inbox # <<>> /\ Head(inbox).kind = "report" /\ inbox' = Tail(inbox) /\ Spoiling
      /\ UNCHANGED <<disk, deleted, lock, call>>
      /\ IF c.pending = {} THEN client' = EndScanSharesBatch(c) /\ thread' = thread
         ELSE ReuploadFiles(e, c.pending)
  BY DEF ScanReported
<1>2. /\ c0 \in Client /\ c0.tid = None /\ SameList(client, c0)
      /\ c0.mtt = client.mtt /\ c0.enabled = client.enabled /\ c0.firewalled = client.firewalled
      /\ c0.pending = client.pending /\ c0.mounts = client.mounts /\ c0.watched = client.watched
  <2>1. None \in 0..Thread  BY BoundAssumption DEF None
  <2> QED  BY <1>0, <2>1, Zenon DEF Client, SameList
<1>3. c \in Client /\ Steady(c0, c) /\ SameList(c0, c)
  <2>1. free \in BOOLEAN  OBVIOUS
  <2> HIDE DEF free, c0
  <2> QED  BY <1>2, <2>1, UploadCountFields, UploadCountList
<1> HIDE DEF c0, c
<1>4. /\ c.tid = None /\ SameList(client, c)
      /\ c.mtt = client.mtt /\ c.enabled = client.enabled /\ c.firewalled = client.firewalled
      /\ c.pending = client.pending /\ c.mounts = client.mounts /\ c.watched = client.watched
  BY <1>2, <1>3 DEF Steady, SameList
<1>5. CASE c.pending = {}
  <2>1. client' = EndScanSharesBatch(c) /\ thread' = thread  BY <1>1, <1>5
  <2>2. Steady(c, client') /\ SameList(c, client')  BY <1>3, <2>1, EndBatchList
  <2>3. /\ client'.tid = None /\ client'.pending = {} /\ client.pending = {} /\ SameList(client, client')
        /\ client'.mtt = client.mtt /\ client'.enabled = client.enabled /\ client'.firewalled = client.firewalled
        /\ client'.mounts = client.mounts /\ client'.watched = client.watched
    BY <1>4, <1>5, <2>2 DEF Steady, SameList
  <2> QED  BY <1>1, <2>1, <2>3, RequestList
<1>6. CASE c.pending # {}
  <2> DEFINE code == c.pending
  <2>1. code \in Codes /\ code # {} /\ ReuploadFiles(e, code)  BY <1>1, <1>3, <1>6, ClientFields
  <2>2. /\ e \in Client /\ e.tid = None /\ SameList(client, e) /\ e.pending = {}
        /\ e.mtt = client.mtt /\ e.enabled = client.enabled /\ e.firewalled = client.firewalled
        /\ e.mounts = client.mounts /\ e.watched = client.watched
    <3>1. P \in Codes  BY DEF Codes
    <3>2. e \in Client /\ e.tid = c.tid /\ SameList(c, e) /\ e.pending = P
        /\ e.mtt = c.mtt /\ e.enabled = c.enabled /\ e.firewalled = c.firewalled
        /\ e.mounts = c.mounts /\ e.watched = c.watched
      <4> HIDE DEF P
      <4> QED  BY <1>3, <3>1, Zenon DEF Client, SameList
    <3> QED  BY <1>4, <3>2 DEF SameList
  <2>3. code = client.pending  BY <1>4
  <2> HIDE DEF e, code
  <2>4. CASE client' = EndScanSharesBatch(e) /\ thread' = thread /\ e.mtt = "none"
    <3>1. Steady(e, client')  BY <2>2, <2>4, EndBatchList
    <3>2. client'.tid = None /\ ~Active'  BY <2>2, <2>4, <3>1 DEF Steady, Active
    <3> QED  BY <1>1, <2>4, <3>2, UnlistedInbox
  <2>5. CASE /\ e.mtt # "none" /\ Starts(code) /\ client'.mounts
             /\ client' \in Client /\ client'.mtt = e.mtt /\ client'.enabled = e.enabled
             /\ client'.firewalled = e.firewalled /\ client'.watched = e.watched
             /\ client'.pending = e.pending /\ SameList(e, client')
    <3>1. /\ client'.mtt = client.mtt /\ client'.enabled = client.enabled
          /\ client'.firewalled = client.firewalled /\ client'.watched = client.watched
          /\ SameList(client, client')
      BY <2>2, <2>5 DEF SameList
    <3> QED  BY <1>1, <2>1, <2>3, <2>5, <3>1, RescanList
  <2> QED  BY <2>1, <2>2, <2>4, <2>5, ReuploadShape
<1> QED  BY <1>5, <1>6

LEMMA VolumesChangedList ==
  ASSUME SharesInv, ListInv, VolumesChanged
  PROVE  ListInv'
<1>0. client \in Client /\ inbox \in Seq(Message)  BY InvFields
<1> DEFINE code == IF Head(inbox).kind = "mounted" THEN {"adds"} ELSE {"removes"}
           P == client.pending \cup code
<1>1. /\ Idle /\ inbox # <<>> /\ Head(inbox).kind \in {"mounted", "unmounted"} /\ inbox' = Tail(inbox)
      /\ Spoiling /\ UNCHANGED <<disk, deleted, lock, call>>
      /\ IF ~client.enabled THEN client' = client /\ thread' = thread
         ELSE IF client.tid # None
         THEN client' = [client EXCEPT !.pending = P] /\ thread' = thread
         ELSE ReuploadFiles(client, code)
  BY DEF VolumesChanged
<1>2. /\ code \in Codes /\ code # {} /\ (Head(inbox).kind = "mounted" => "adds" \in code)
      /\ (Head(inbox).kind = "unmounted" => "removes" \in code)
  BY <1>1 DEF Codes
<1>3. P \in Codes /\ client.pending \subseteq P /\ code \subseteq P
  <2>1. client.pending \in Codes  BY <1>0, ClientFields
  <2> QED  BY <1>2, <2>1 DEF Codes
<1> HIDE DEF code, P
<1>4. CASE ~client.enabled
  <2>1. client' = client /\ thread' = thread  BY <1>1, <1>4
  <2>2. ~Active'  BY <1>4, <2>1 DEF Active
  <2> QED  BY <1>1, <2>1, <2>2, UnlistedInbox
<1>5. CASE client.enabled /\ client.tid # None
  <2>1. client' = [client EXCEPT !.pending = P] /\ thread' = thread  BY <1>1, <1>5
  <2>2. /\ client'.tid = client.tid /\ client'.pending = P /\ SameList(client, client')
        /\ client'.mtt = client.mtt /\ client'.enabled = client.enabled /\ client'.firewalled = client.firewalled
        /\ client'.watched = client.watched /\ client'.mounts = client.mounts
    BY <1>0, <2>1, Zenon DEF Client, SameList
  <2> QED  BY <1>1, <1>2, <1>3, <1>5, <2>1, <2>2, RequestList
<1>6. CASE client.enabled /\ client.tid = None
  <2>1. ReuploadFiles(client, code)  BY <1>1, <1>6
  <2>2. CASE client' = EndScanSharesBatch(client) /\ thread' = thread /\ client.mtt = "none"
    <3>1. Steady(client, client')  BY <1>0, <2>2, EndBatchList
    <3>2. client'.tid = None /\ ~Active'  BY <1>6, <2>2, <3>1 DEF Steady, Active
    <3> QED  BY <1>1, <2>2, <3>2, UnlistedInbox
  <2>3. CASE /\ client.mtt # "none" /\ Starts(code) /\ client'.mounts
             /\ client' \in Client /\ client'.mtt = client.mtt /\ client'.enabled = client.enabled
             /\ client'.firewalled = client.firewalled /\ client'.watched = client.watched
             /\ client'.pending = client.pending /\ SameList(client, client')
    BY <1>1, <1>2, <2>3, RescanList
  <2> QED  BY <1>0, <1>2, <2>1, <2>2, <2>3, ReuploadShape
<1> QED  BY <1>4, <1>5, <1>6

\* What a report about one file (n) does to the client (c), in an epoch.
LEMMA EntryList ==
  ASSUME NEW c \in Client, NEW n \in Node, c.mtt # "none", Sound(c), NEW k \in {"created", "removed", "moved"},
         NEW c1, c1 = (IF k = "created" THEN c ELSE NodeRemoved(c, n)),
         NEW c2, c2 = (IF k = "removed" THEN c1 ELSE NodeCreated(c1, n)),
         NEW e, e = StartFileCountRunner(c2)
  PROVE  /\ Steady(c, e) /\ Sound(e)
         /\ \A m : m # n => (m \in e.known <=> m \in c.known)
         /\ k \in {"created", "moved"} /\ c.watched /\ n \in disk => n \in e.known
         /\ n \in e.known => \/ n \in disk /\ c.watched /\ GetFilesNodePath(e, n) \in Promised(e)
                             \/ k = "created" /\ n \in c.known
<1>1. c1 \in Client /\ Steady(c, c1) /\ Sound(c1)
      /\ c1.known = IF k = "created" THEN c.known ELSE c.known \ {n}
  <2>1. CASE k = "created"  BY <2>1 DEF Steady
  <2>2. CASE k # "created"  BY <2>2, NodeRemovedFields, NodeRemovedList
  <2> QED  BY <2>1, <2>2
<1>2. c1.mtt # "none" /\ c1.watched = c.watched  BY <1>1 DEF Steady
<1>3. /\ c2 \in Client /\ Steady(c1, c2) /\ Sound(c2)
      /\ k = "removed" \/ ~(c.watched /\ n \in disk) => c2 = c1
      /\ k # "removed" /\ c.watched /\ n \in disk =>
           c2.known = c1.known \cup {n} /\ GetFilesNodePath(c2, n) \in Promised(c2)
  <2>1. CASE k = "removed"  BY <1>1, <2>1 DEF Steady
  <2>2. CASE k # "removed"
    <3>1. c2 = NodeCreated(c1, n)  BY <2>2
    <3>2. c2 \in Client  BY <1>1, <3>1, NodeCreatedFields
    <3>3. /\ Steady(c1, c2) /\ Sound(c2)
          /\ IF c1.watched /\ n \in disk
             THEN c2.known = c1.known \cup {n} /\ GetFilesNodePath(c2, n) \in Promised(c2)
             ELSE c2 = c1
      BY <1>1, <1>2, <3>1, NodeCreatedList
    <3> QED  BY <1>2, <2>2, <3>2, <3>3
  <2> QED  BY <2>1, <2>2
<1>4. Steady(c2, e) /\ SameList(c2, e)  BY <1>3, StartRunnerList
<1>5. Steady(c, e)  BY <1>1, <1>3, <1>4 DEF Steady
<1>6. Paths(e) = Paths(c2) /\ ToList(e) = ToList(c2) /\ Promised(e) = Promised(c2)
      /\ GetFilesNodePath(e, n) = GetFilesNodePath(c2, n) /\ e.known = c2.known
  BY <1>4, SameListed, SamePath DEF Steady, SameList
<1>7. Sound(e)  BY <1>3, <1>6 DEF Sound
<1>8. CASE k # "removed" /\ c.watched /\ n \in disk
  <2>1. e.known = c1.known \cup {n} /\ GetFilesNodePath(e, n) \in Promised(e)  BY <1>3, <1>6, <1>8
  <2> QED  BY <1>1, <1>5, <1>7, <1>8, <2>1
<1>9. CASE ~(k # "removed" /\ c.watched /\ n \in disk)
  <2>1. e.known = c1.known  BY <1>3, <1>6, <1>9
  <2> QED  BY <1>1, <1>5, <1>7, <1>9, <2>1
<1> QED  BY <1>8, <1>9

LEMMA EntryChangedList ==
  ASSUME SharesInv, ListInv, EntryChanged
  PROVE  ListInv'
<1>0. client \in Client /\ inbox \in Seq(Message)  BY InvFields
<1> DEFINE n == Head(inbox).node
           k == Head(inbox).kind
           c1 == IF k = "created" THEN client ELSE NodeRemoved(client, n)
           c2 == IF k = "removed" THEN c1 ELSE NodeCreated(c1, n)
           e == StartFileCountRunner(c2)
<1>1. /\ Idle /\ inbox # <<>> /\ k \in {"created", "removed", "moved"} /\ inbox' = Tail(inbox) /\ Spoiling
      /\ (client.enabled => lock = None) /\ UNCHANGED <<disk, deleted, thread, lock, call>>
      /\ client' = IF client.enabled THEN e ELSE client
  BY DEF EntryChanged
<1>2. n \in Node /\ Head(inbox) = [kind |-> k, node |-> n]
  <2>1. Head(inbox) \in Message  BY <1>0, <1>1, HeadTailProperties
  <2> QED  BY <1>1, <2>1 DEF Message
<1>3. k # "report"  BY <1>1
<1>4. CASE ~client.enabled
  <2>1. client' = client  BY <1>1, <1>4
  <2>2. ~Active'  BY <1>4, <2>1 DEF Active
  <2> QED  BY <1>1, <2>1, <2>2, UnlistedInbox
<1>5. CASE client.enabled
  <2>1. client' = e  BY <1>1, <1>5
  <2>2. c1 \in Client /\ Alike(client, c1)  BY <1>0, <1>2, NodeRemovedFields DEF Alike
  <2> HIDE DEF c1
  <2>3. c2 \in Client /\ Alike(c1, c2)  BY <1>2, <2>2, NodeCreatedFields DEF Alike
  <2>4. Alike(c2, e)  BY <2>3, StartRunnerFields
  <2>5. client'.tid = client.tid /\ client'.mtt = client.mtt /\ client'.enabled = client.enabled
    BY <2>1, <2>2, <2>3, <2>4 DEF Alike
  <2>6. CASE ~Active'  BY <1>1, <2>5, <2>6, UnlistedInbox
  <2>7. CASE Active'
    <3>1. Active /\ ~Removed  BY <1>1, <2>5, <2>7, StillActive
    <3>2. Epoch(client, thread, inbox, disk)  BY <3>1 DEF ListInv
    <3>3. Batches(thread) = {}
      <4>1. Tidy(thread, lock) /\ lock = None  BY <1>1, <1>5 DEF ListInv
      <4>2. \A t \in 1..Thread : t # None  BY DEF None
      <4>3. \A t \in 1..Thread : thread[t].batch = {}  BY <4>1, <4>2 DEF Tidy
      <4> QED  BY <4>3 DEF Batches
    <3>4. Sound(client) /\ client.mtt # "none"  BY <3>1, <3>2 DEF Epoch, Agrees, Sound, Active
    <3>5. /\ Steady(client, client') /\ Sound(client')
          /\ \A m : m # n => (m \in client'.known <=> m \in client.known)
          /\ k \in {"created", "moved"} /\ client.watched /\ n \in disk => n \in client'.known
          /\ n \in client'.known =>
               \/ n \in disk /\ client.watched /\ GetFilesNodePath(client', n) \in Promised(client')
               \/ k = "created" /\ n \in client.known
      <4> HIDE DEF k, n, c2, e
      <4> QED  BY <1>0, <1>1, <1>2, <2>1, <3>4, EntryList DEF c1, c2, e
    <3> HIDE DEF k, n, c1, c2, e
    <3>6. OneAtWork'
      <4>1. /\ \A t \in AtWork(thread') : t \in AtWork(thread) \/ t = client'.tid
            /\ \A t \in 1..Thread : thread[t].phase = "unborn" /\ thread'[t].phase # "unborn" => t = client'.tid
            /\ OneAtWork
        BY <1>1 DEF ListInv
      <4> QED  BY <1>1, <4>1, OneStaysAtWork
    <3>7. Head(inbox).kind = k  BY DEF k
    <3>8. WillReport'  BY <1>0, <1>1, <1>3, <2>5, <3>7, ReportStays DEF ListInv, WillReport
    <3>9. StaysAway(deleted', disk', inbox')
          /\ (k = "removed" => n \notin disk)
      <4>1. StaysAway(deleted, disk, inbox)  BY DEF ListInv
      <4> QED  BY <1>0, <1>1, <4>1, AwayTail DEF k, n
    <3>10. Watches(client', thread)
      <4>1. client'.watched = client.watched  BY <3>5 DEF Steady
      <4>2. ~client.watched => client.known = {} /\ \E t \in 1..Thread : thread[t].phase = "adds" /\ thread[t].code = {}
        BY <3>2 DEF Epoch, Watches
      <4> QED  BY <3>5, <4>1, <4>2 DEF Watches
    <3>11. ASSUME NEW m \in disk \ client'.known
           PROVE  Coming(client', thread, inbox', m)
      <4>1. CASE ~client.watched
        <5>1. PICK t \in 1..Thread : thread[t].phase = "adds" /\ thread[t].code = {}
          BY <3>2, <4>1 DEF Epoch, Watches
        <5>2. WillScan(client', thread[t])  BY <3>5, <4>1, <5>1 DEF Steady, WillScan
        <5> QED  BY <5>2 DEF Coming
      <4>2. CASE client.watched
        <5>1. m # n
          <6>1. k = "removed" => m # n  BY <3>9, <3>11
          <6> QED  BY <1>1, <3>5, <3>11, <4>2, <6>1
        <5>2. Coming(client, thread, inbox, m)  BY <3>2, <3>5, <3>11, <5>1 DEF Epoch, Follows
        <5>3. \/ \E t \in 1..Thread : WillScan(client', thread[t])
              \/ ~\E t \in 1..Thread : WillScan(client, thread[t])
          BY <3>5 DEF Steady, WillScan
        <5>4. Posted(inbox, [kind |-> "created", node |-> m]) => Posted(inbox', [kind |-> "created", node |-> m])
          <6>1. Head(inbox) # [kind |-> "created", node |-> m]  BY <1>2, <5>1
          <6> QED  BY <1>0, <1>1, <6>1, PostedTail
        <5>5. Posted(inbox, [kind |-> "mounted"]) => Posted(inbox', [kind |-> "mounted"])
          <6>1. [kind |-> "mounted"].kind = "mounted" /\ Head(inbox).kind # "mounted"  BY <1>1, <3>7
          <6> QED  BY <1>0, <1>1, <6>1, PostedRest
        <5>6. client'.pending = client.pending  BY <3>5 DEF Steady
        <5> QED  BY <5>2, <5>3, <5>4, <5>5, <5>6 DEF Coming
      <4> QED  BY <4>1, <4>2
    <3>12. ASSUME NEW m \in client'.known \ disk
           PROVE  Going(client', thread, inbox', m)
      <4>1. m \in client.known /\ (m = n => k = "created")  BY <3>5, <3>12
      <4>2. Going(client, thread, inbox, m)  BY <3>2, <3>12, <4>1 DEF Epoch, Follows
      <4>3. Posted(inbox, [kind |-> "removed", node |-> m]) => Posted(inbox', [kind |-> "removed", node |-> m])
        <5>1. Head(inbox) # [kind |-> "removed", node |-> m]
          <6>1. [kind |-> k, node |-> n] = [kind |-> "removed", node |-> m] => k = "removed" /\ n = m
            OBVIOUS
          <6> QED  BY <1>2, <4>1, <6>1
        <5> QED  BY <1>0, <1>1, <5>1, PostedTail
      <4>4. Posted(inbox, [kind |-> "unmounted"]) => Posted(inbox', [kind |-> "unmounted"])
        <5>1. [kind |-> "unmounted"].kind = "unmounted" /\ Head(inbox).kind # "unmounted"  BY <1>1, <3>7
        <5> QED  BY <1>0, <1>1, <5>1, PostedRest
      <4>5. client'.pending = client.pending  BY <3>5 DEF Steady
      <4> QED  BY <4>2, <4>3, <4>4, <4>5 DEF Going
    <3>13. Agrees(client', thread)
      <4>1. ASSUME NEW m \in client'.known
            PROVE  GetFilesNodePath(client', m) \in Promised(client')
        <5>1. CASE m \in client.known
          <6>1. GetFilesNodePath(client, m) \in Promised(client)
            BY <3>2, <3>3, <5>1 DEF Epoch, Agrees, Paths
          <6> QED  BY <3>1, <3>5, <4>1, <6>1, PromiseKept DEF Steady
        <5>2. CASE m \notin client.known
          <6>1. m = n  BY <3>5, <4>1, <5>2
          <6> QED  BY <3>5, <4>1, <5>2, <6>1
        <5> QED  BY <5>1, <5>2
      <4>2. Paths(client') \subseteq Promised(client')  BY <4>1 DEF Paths
      <4> QED  BY <3>3, <3>5, <4>2 DEF Agrees, Sound
    <3>14. client'.mounts /\ (client'.pending # {} => Busy(thread) \/ Reported(inbox'))
      <4>1. /\ client'.pending = client.pending /\ client'.mounts = client.mounts /\ client.mounts
            /\ client.pending # {} => Busy(thread) \/ Reported(inbox)
        BY <3>2, <3>5 DEF Epoch, Steady
      <4>2. Reported(inbox) => Reported(inbox')  BY <1>0, <1>1, <1>3, <3>7, ReportStays
      <4> QED  BY <4>1, <4>2
    <3>15. Epoch(client', thread', inbox', disk')
      BY <1>1, <3>10, <3>11, <3>12, <3>13, <3>14 DEF Epoch, Follows
    <3>16. Tidy(thread', lock')  BY <1>1 DEF ListInv
    <3> QED  BY <3>6, <3>8, <3>9, <3>15, <3>16 DEF ListInv
  <2> QED  BY <2>6, <2>7
<1> QED  BY <1>4, <1>5

-----------------------------------------------------------------------------
(***************************************************************************)
(* The scan threads.                                                       *)
(***************************************************************************)
\* Thread (t) of (th) is the only one at work.
Alone(t, th) == \A u \in 1..Thread : u # t => th[u].phase \in {"unborn", "gone"}

\* A thread (s) that will find file (n).
Finds(c, s, n) == WillScan(c, s) \/ (s.phase = "scan" /\ n \in s.must \ s.seen)

LEMMA AloneComing ==
  ASSUME NEW t \in 1..Thread, NEW th, Alone(t, th), NEW c, NEW ib, NEW n
  PROVE  /\ Coming(c, th, ib, n) <=>
              \/ Finds(c, th[t], n) \/ Posted(ib, [kind |-> "created", node |-> n])
              \/ n \in Volume /\ ("adds" \in c.pending \/ Posted(ib, [kind |-> "mounted"]))
         /\ Going(c, th, ib, n) <=>
              \/ Posted(ib, [kind |-> "removed", node |-> n])
              \/ /\ n \in Volume
                 /\ \/ "removes" \in c.pending \/ Posted(ib, [kind |-> "unmounted"])
                    \/ th[t].phase = "removes"
<1>1. \A u \in 1..Thread : u # t => ~WillScan(c, th[u]) /\ th[u].phase # "scan" /\ th[u].phase # "removes"
  BY DEF Alone, WillScan
<1>2. (\E u \in 1..Thread : WillScan(c, th[u])) <=> WillScan(c, th[t])  BY <1>1
<1>3. (\E u \in 1..Thread : th[u].phase = "scan" /\ n \in th[u].must \ th[u].seen)
        <=> (th[t].phase = "scan" /\ n \in th[t].must \ th[t].seen)
  BY <1>1
<1>4. (\E u \in 1..Thread : th[u].phase = "removes") <=> th[t].phase = "removes"  BY <1>1
<1> QED  BY <1>2, <1>3, <1>4 DEF Coming, Going, Finds

LEMMA AloneBatches ==
  ASSUME NEW t \in 1..Thread, NEW th, Alone(t, th), NEW l, Tidy(th, l)
  PROVE  Batches(th) = th[t].batch
<1>1. \A u \in 1..Thread : u # t => th[u].batch = {}  BY DEF Alone, Tidy
<1> QED  BY <1>1 DEF Batches

\* A step of the only thread at work, (s) afterwards, in an epoch.
LEMMA ThreadEpoch ==
  ASSUME NEW t \in 1..Thread, NEW c, NEW th, NEW ib, NEW d, Epoch(c, th, ib, d), Alone(t, th),
         NEW l, Tidy(th, l), NEW ti, Alone(t, ti), NEW k, Tidy(ti, k), NEW e, NEW ic,
         e.mounts = c.mounts, e.pending = c.pending,
         ~e.watched => e.known = {} /\ ti[t].phase = "adds" /\ ti[t].code = {},
         \A n \in d \ e.known : Finds(e, ti[t], n) \/ (n \notin c.known /\ ~Finds(c, th[t], n)),
         \A n \in e.known \ d : n \in c.known /\ th[t].phase # "removes",
         \A m : Posted(ib, m) => Posted(ic, m),
         ti[t].phase \notin {"unborn", "gone"} \/ Reported(ic),
         ToList(e) \cup ti[t].batch \subseteq Paths(e),
         \A n \in e.known : GetFilesNodePath(e, n) \in Promised(e) \cup ti[t].batch
  PROVE  Epoch(e, ti, ic, d)
<1>1. Watches(e, ti)  BY DEF Watches
<1>2. e.pending # {} => Busy(ti) \/ Reported(ic)  BY DEF Busy
<1>3. ASSUME NEW n \in d \ e.known PROVE Coming(e, ti, ic, n)
  <2>1. CASE Finds(e, ti[t], n)  BY <2>1, AloneComing
  <2>2. CASE n \notin c.known /\ ~Finds(c, th[t], n)
    <3>1. Coming(c, th, ib, n)  BY <1>3, <2>2 DEF Epoch, Follows
    <3>2. \/ Posted(ib, [kind |-> "created", node |-> n])
          \/ n \in Volume /\ ("adds" \in c.pending \/ Posted(ib, [kind |-> "mounted"]))
      BY <2>2, <3>1, AloneComing
    <3>3. \/ Posted(ic, [kind |-> "created", node |-> n])
          \/ n \in Volume /\ ("adds" \in e.pending \/ Posted(ic, [kind |-> "mounted"]))
      BY <3>2
    <3> QED  BY <3>3, AloneComing
  <2> QED  BY <1>3, <2>1, <2>2
<1>4. ASSUME NEW n \in e.known \ d PROVE Going(e, ti, ic, n)
  <2>1. n \in c.known /\ th[t].phase # "removes"  BY <1>4
  <2>2. Going(c, th, ib, n)  BY <1>4, <2>1 DEF Epoch, Follows
  <2>3. \/ Posted(ib, [kind |-> "removed", node |-> n])
        \/ n \in Volume /\ ("removes" \in c.pending \/ Posted(ib, [kind |-> "unmounted"]))
    BY <2>1, <2>2, AloneComing
  <2>4. \/ Posted(ic, [kind |-> "removed", node |-> n])
        \/ n \in Volume /\ ("removes" \in e.pending \/ Posted(ic, [kind |-> "unmounted"]))
    BY <2>3
  <2> QED  BY <2>4, AloneComing
<1>5. Batches(ti) = ti[t].batch  BY AloneBatches
<1>6. Agrees(e, ti)  BY <1>5 DEF Agrees, Paths
<1>7. e.mounts  BY DEF Epoch
<1> QED  BY <1>1, <1>2, <1>3, <1>4, <1>6, <1>7 DEF Epoch, Follows

\* What the steps of the threads have in common.
LEMMA ThreadList ==
  ASSUME SharesInv, ListInv, Spoiling, UNCHANGED <<disk, deleted, call>>,
         NEW t \in 1..Thread, thread[t].phase \notin {"unborn", "gone"},
         NEW s, s.phase # "unborn", thread' = [thread EXCEPT ![t] = s],
         client'.mtt = client.mtt, client'.enabled = client.enabled, client'.tid = client.tid,
         StaysAway(deleted', disk', inbox'), (inbox' = inbox /\ s.phase # "gone") \/ Reported(inbox'),
         s.phase \in {"removes", "adds"} => s.seen = {}, s.phase # "scan" => s.batch = {},
         s.phase = "scan" => lock' = t,
         lock' = lock \/ \A u \in 1..Thread : u # t => thread[u].phase # "scan",
         Active /\ ~Removed /\ ~Skipped /\ client.tid = t /\ Epoch(client, thread, inbox, disk)
           /\ Alone(t, thread) /\ Alone(t, thread') /\ Tidy(thread, lock) /\ Tidy(thread', lock')
           => Epoch(client', thread', inbox', disk)
  PROVE  ListInv'
<1>0. thread \in Threads /\ client \in Client  BY InvFields
<1>1. thread'[t] = s /\ \A u \in 1..Thread : u # t => thread'[u] = thread[u]
  BY <1>0 DEF Threads
<1>3. Tidy(thread', lock')
  <2>1. Tidy(thread, lock)  BY DEF ListInv
  <2> SUFFICES ASSUME NEW u \in 1..Thread
               PROVE  /\ thread'[u].phase \in {"removes", "adds"} => thread'[u].seen = {}
                      /\ thread'[u].phase # "scan" => thread'[u].batch = {}
                      /\ thread'[u].phase = "scan" => lock' = u
    BY DEF Tidy
  <2>2. CASE u = t  BY <1>1, <2>2
  <2>3. CASE u # t
    <3>1. thread'[u] = thread[u]  BY <1>1, <2>3
    <3> QED  BY <2>1, <2>3, <3>1 DEF Tidy
  <2> QED  BY <2>2, <2>3
<1>4. OneAtWork'
  <2>1. /\ \A u \in AtWork(thread') : u \in AtWork(thread) \/ u = client'.tid
    <3> SUFFICES ASSUME NEW u \in AtWork(thread') PROVE u \in AtWork(thread)  OBVIOUS
    <3>1. CASE u = t  BY <3>1 DEF AtWork
    <3>2. CASE u # t  BY <1>1, <3>2 DEF AtWork
    <3> QED  BY <3>1, <3>2
  <2>2. /\ \A u \in 1..Thread : thread[u].phase = "unborn" /\ thread'[u].phase # "unborn" => u = client'.tid
        /\ OneAtWork
    BY <1>1 DEF ListInv
  <2> QED  BY <2>1, <2>2, OneStaysAtWork
<1>5. Busy(thread') \/ Reported(inbox')  BY <1>1 DEF Busy
<1>6. WillReport'  BY <1>5 DEF WillReport
<1>7. ASSUME Active'
      PROVE  Epoch(client', thread', inbox', disk')
  <2>1. \A u \in 1..Thread : thread[u].phase = "unborn" => thread'[u].phase = "unborn"  BY <1>1
  <2>2. Active /\ ~Removed /\ ~Skipped  BY <1>7, <2>1, StillActive
  <2>3. \A u \in AtWork(thread) : u = client.tid  BY <2>2 DEF ListInv, OneAtWork, Active, Idle
  <2>4. client.tid = t  BY <2>3 DEF AtWork
  <2>5. Alone(t, thread)  BY <2>3, <2>4 DEF Alone, AtWork
  <2>6. Alone(t, thread')  BY <1>1, <2>5 DEF Alone
  <2> QED  BY <1>3, <2>2, <2>4, <2>5, <2>6 DEF ListInv
<1> QED  BY <1>3, <1>4, <1>6, <1>7 DEF ListInv

\* A step that leaves the queue and the files that are known alone.
LEMMA StepSame ==
  ASSUME NEW c, NEW e, e.firewalled = c.firewalled, SameList(c, e), NEW th, NEW t \in 1..Thread, NEW l,
         Tidy(th, l), Alone(t, th), Agrees(c, th), NEW b, b = th[t].batch
  PROVE  /\ ToList(e) \cup b \subseteq Paths(e)
         /\ \A n \in e.known : GetFilesNodePath(e, n) \in Promised(e) \cup b
<1>1. Batches(th) = b  BY AloneBatches
<1>2. Paths(e) = Paths(c) /\ ToList(e) = ToList(c) /\ Promised(e) = Promised(c)  BY SameListed
<1>3. \A n \in e.known : GetFilesNodePath(e, n) \in Paths(e)  BY DEF Paths
<1> QED  BY <1>1, <1>2, <1>3 DEF Agrees

LEMMA CheckRemovesList ==
  ASSUME SharesInv, ListInv, NEW t \in 1..Thread, CheckRemoves(t)
  PROVE  ListInv'
<1>0. client \in Client /\ thread \in Threads /\ thread[t] \in ScanThread /\ disk \subseteq Node
  BY InvFields DEF Threads
<1> DEFINE ph == IF "adds" \in thread[t].code THEN "adds" ELSE "report"
           s == [thread[t] EXCEPT !.phase = ph]
           Unref(gone) == [x \in Name |->
                       LET k == Cardinality({n \in gone : NameOf[n] = x})
                       IN  IF client.refs[x] > k THEN client.refs[x] - k ELSE 0]
           Kept(gone) == [client EXCEPT !.known = @ \ gone]
           Told(gone) == RemoveData({GetFilesNodePath(client, n) : n \in gone})
<1>1. /\ thread[t].phase = "removes" /\ Spoiling /\ UNCHANGED <<disk, deleted, call, lock, inbox>>
      /\ thread' = [thread EXCEPT ![t] = s]
      /\ \E gone \in IF client.tid = None THEN SUBSET (client.known \ disk) ELSE {client.known \ disk} :
           client' = IF client.mtt = "none" \/ gone = {} THEN Kept(gone)
                     ELSE SendLow([Kept(gone) EXCEPT !.refs = Unref(gone)], Told(gone))
  BY DEF CheckRemoves
<1>2. PICK gone \in SUBSET (client.known \ disk) :
        /\ client.tid # None => gone = client.known \ disk
        /\ client' = IF client.mtt = "none" \/ gone = {} THEN Kept(gone)
                     ELSE SendLow([Kept(gone) EXCEPT !.refs = Unref(gone)], Told(gone))
  BY <1>1
<1>3. s.phase = ph /\ s.code = thread[t].code /\ s.seen = thread[t].seen /\ s.batch = thread[t].batch
  BY <1>0 DEF ScanThread
<1> HIDE DEF s
<1>4. /\ ph \in {"adds", "report"} /\ (ph = "adds" <=> "adds" \in thread[t].code)
      /\ thread[t].seen = {} /\ thread[t].batch = {} /\ StaysAway(deleted, disk, inbox)
  BY <1>1 DEF ListInv, Tidy
<1> HIDE DEF ph
<1> DEFINE K == client.known \ gone
           c == [client EXCEPT !.known = K]
           r == Unref(gone)
           c2 == [c EXCEPT !.refs = r]
           u == Told(gone)
<1>5. gone \in SUBSET Node /\ K \in SUBSET Node  BY <1>0, ClientFields
<1>6. c \in Client /\ Steady(client, c) /\ c.known = K /\ c.low = client.low /\ c.listed = client.listed
  <2> HIDE DEF K
  <2> QED  BY <1>0, <1>5, KnownList
<1>7. r \in [Name -> Nat]
  <2> SUFFICES ASSUME NEW x \in Name
               PROVE  LET k == Cardinality({n \in gone : NameOf[n] = x})
                      IN  (IF client.refs[x] > k THEN client.refs[x] - k ELSE 0) \in Nat
    OBVIOUS
  <2> DEFINE G == {n \in gone : NameOf[n] = x}
             k == Cardinality(G)
  <2>1. k \in Nat
    <3>1. G \subseteq Node /\ IsFiniteSet(Node)  BY <1>5, FolderAssumption
    <3>2. IsFiniteSet(G)  BY <3>1, FS_Subset
    <3> QED  BY <3>2, FS_CardinalityType
  <2> HIDE DEF G, k
  <2>2. client.refs[x] \in Nat  BY <1>0, ClientFields
  <2>3. (IF client.refs[x] > k THEN client.refs[x] - k ELSE 0) \in Nat  BY <2>1, <2>2
  <2> QED  BY <2>3 DEF k, G
<1> HIDE DEF r
<1>8. /\ client' = c \/ (client.mtt # "none" /\ client' = SendLow(c2, u))
      /\ gone = {} => client' = c
  BY <1>2 DEF r
<1> HIDE DEF c, K
<1>9. c2 \in Client /\ Steady(client, c2) /\ c2.known = client.known \ gone /\ c2.low = client.low
      /\ c2.listed = client.listed
  <2>1. LET d == [c EXCEPT !.refs = r] IN d \in Client /\ Steady(c, d) /\ SameList(c, d) /\ d.refs = r
    BY <1>6, <1>7, RefList
  <2>2. c2 \in Client /\ Steady(c, c2) /\ SameList(c, c2)  BY <2>1
  <2> HIDE DEF c2
  <2> QED  BY <1>6, <2>2 DEF Steady, SameList, K
<1>10. u \in Update
  <2>1. \A n \in gone : GetFilesNodePath(client, n) \in Listing  BY <1>5, PathType
  <2> QED  BY <2>1 DEF RemoveData, Update
<1> HIDE DEF c2
<1>11. client.mtt # "none" /\ client' = SendLow(c2, u) => Tells(c2, client', u)
  <2> HIDE DEF u
  <2>1. client.mtt # "none" => c2.mtt # "none"  BY <1>9 DEF Steady
  <2> QED  BY <1>9, <1>10, <2>1, SendLowList
<1>12. Steady(client, client') /\ client'.known = client.known \ gone
  BY <1>6, <1>8, <1>9, <1>11 DEF Steady, Tells, K
<1>13. ASSUME Sound(client), client.mtt # "none"
       PROVE  Sound(client')
  <2>1. CASE gone # {} /\ client' = SendLow(c2, u)
    <3>1. Tells(c2, client', RemoveData({GetFilesNodePath(client, n) : n \in gone}))  BY <1>11, <1>13, <2>1
    <3> QED  BY <1>0, <1>5, <1>9, <1>13, <3>1, ForgetList
  <2>2. CASE client' = c
    <3>1. gone = {} \/ client' = SendLow(c2, u)
      BY <1>2, <1>13 DEF r, c2, c, K
    <3>2. CASE gone = {}
      <4>1. SameList(client, c)  BY <1>6, <3>2 DEF SameList, K
      <4>2. Paths(client') = Paths(client) /\ ToList(client') = ToList(client)
        BY <1>6, <2>2, <4>1, SameListed DEF Steady
      <4> QED  BY <1>13, <4>2 DEF Sound
    <3> QED  BY <2>1, <3>1, <3>2
  <2> QED  BY <1>8, <2>1, <2>2
<1>14. ASSUME Active, ~Removed, client.tid = t, Epoch(client, thread, inbox, disk),
              Alone(t, thread), Alone(t, thread'), Tidy(thread, lock), Tidy(thread', lock')
       PROVE  Epoch(client', thread', inbox', disk)
  <2>1. thread'[t] = s  BY <1>0, <1>1 DEF Threads
  <2>2. client'.known = client.known \cap disk
    <3>1. client.tid # None  BY <1>14 DEF None
    <3> QED  BY <1>2, <1>12, <3>1
  <2>3. client.watched
    <3> SUFFICES ASSUME ~client.watched PROVE FALSE  OBVIOUS
    <3>1. PICK v \in 1..Thread : thread[v].phase = "adds"  BY <1>14 DEF Epoch, Watches
    <3>2. v # t  BY <1>1, <3>1
    <3> QED  BY <1>14, <3>1, <3>2 DEF Alone
  <2>4. Batches(thread) = {}  BY <1>4, <1>14, AloneBatches
  <2>5. Sound(client')
    <3>1. Sound(client) /\ client.mtt # "none"  BY <1>14 DEF Epoch, Agrees, Sound, Active
    <3> QED  BY <1>13, <3>1
  <2>6. \A n \in client'.known : GetFilesNodePath(client', n) \in Promised(client')
    <3> SUFFICES ASSUME NEW n \in client'.known PROVE GetFilesNodePath(client', n) \in Promised(client')
      OBVIOUS
    <3>1. GetFilesNodePath(client, n) \in Promised(client)
      BY <1>14, <2>2, <2>4 DEF Epoch, Agrees, Paths
    <3> QED  BY <1>12, <1>14, <3>1, PromiseKept DEF Steady
  <2>7. ASSUME NEW n \in disk \ client'.known
        PROVE  Finds(client', thread'[t], n) \/ (n \notin client.known /\ ~Finds(client, thread[t], n))
    <3>1. n \notin client.known  BY <2>2, <2>7
    <3>2. Finds(client, thread[t], n) => "adds" \in thread[t].code  BY <1>1 DEF Finds, WillScan
    <3>3. "adds" \in thread[t].code => Finds(client', thread'[t], n)
      BY <1>3, <1>4, <2>1 DEF Finds, WillScan
    <3> QED  BY <3>1, <3>2, <3>3
  <2>8. thread'[t].batch = {} /\ thread'[t].phase \notin {"unborn", "gone"}  BY <1>3, <1>4, <2>1
  <2>9. client'.mounts = client.mounts /\ client'.pending = client.pending /\ client'.watched
    BY <1>12, <2>3 DEF Steady
  <2>10. \A n \in client'.known \ disk : n \in client.known /\ thread[t].phase # "removes"  BY <2>2
  <2>11. ToList(client') \cup thread'[t].batch \subseteq Paths(client')  BY <2>5, <2>8 DEF Sound
  <2>12. \A m : Posted(inbox, m) => Posted(inbox', m)  BY <1>1
  <2> QED  BY <1>14, <2>6, <2>7, <2>8, <2>9, <2>10, <2>11, <2>12, ThreadEpoch
<1>15. client'.mtt = client.mtt /\ client'.enabled = client.enabled /\ client'.tid = client.tid
  BY <1>12 DEF Steady
<1> QED  BY <1>1, <1>3, <1>4, <1>14, <1>15, ThreadList

LEMMA BeginScanList ==
  ASSUME SharesInv, ListInv, NEW t \in 1..Thread, BeginScan(t)
  PROVE  ListInv'
<1>0. client \in Client /\ thread \in Threads /\ thread[t] \in ScanThread
  BY InvFields DEF Threads
<1> DEFINE s1 == [thread[t] EXCEPT !.phase = "report"]
           s2 == [thread[t] EXCEPT !.phase = "scan", !.must = disk]
           d == [client EXCEPT !.watched = TRUE]
<1>1. /\ thread[t].phase = "adds" /\ lock = None /\ Spoiling /\ UNCHANGED <<disk, deleted, call, inbox>>
      /\ IF client.watched /\ ~DiffsOnly(t)
         THEN thread' = [thread EXCEPT ![t] = s1] /\ client' = client /\ lock' = lock
         ELSE thread' = [thread EXCEPT ![t] = s2] /\ client' = d /\ lock' = t
  BY DEF BeginScan
<1>2. /\ s1.phase = "report" /\ s1.batch = thread[t].batch
      /\ s2.phase = "scan" /\ s2.must = disk /\ s2.seen = thread[t].seen /\ s2.batch = thread[t].batch
  BY <1>0 DEF ScanThread
<1>3. /\ d.mtt = client.mtt /\ d.enabled = client.enabled /\ d.tid = client.tid /\ d.watched
      /\ d.firewalled = client.firewalled /\ d.mounts = client.mounts /\ d.pending = client.pending
      /\ SameList(client, d)
  BY <1>0, Zenon DEF Client, SameList
<1> HIDE DEF s1, s2, d
<1>4. thread[t].seen = {} /\ thread[t].batch = {} /\ StaysAway(deleted, disk, inbox)
  BY <1>1 DEF ListInv, Tidy
<1>5. \A u \in 1..Thread : thread[u].phase # "scan"
  <2>1. \A u \in 1..Thread : u # None  BY DEF None
  <2> QED  BY <1>1, <2>1 DEF ListInv, Tidy
<1>6. \A m : Posted(inbox, m) => Posted(inbox', m)  BY <1>1
<1>7. CASE client.watched /\ ~DiffsOnly(t)
  <2>1. thread' = [thread EXCEPT ![t] = s1] /\ client' = client /\ lock' = lock  BY <1>1, <1>7
  <2>2. ASSUME Epoch(client, thread, inbox, disk), Alone(t, thread), Alone(t, thread'),
               Tidy(thread, lock), Tidy(thread', lock')
        PROVE  Epoch(client', thread', inbox', disk)
    <3>1. thread'[t] = s1  BY <1>0, <2>1 DEF Threads
    <3>2. \A n : ~Finds(client, thread[t], n)  BY <1>1, <1>7 DEF Finds, WillScan, DiffsOnly
    <3>3. thread'[t].phase = "report" /\ thread'[t].batch = thread[t].batch  BY <1>2, <3>1
    <3>4. SameList(client, client') /\ Agrees(client, thread)  BY <2>1, <2>2 DEF SameList, Epoch
    <3>5. /\ ToList(client') \cup thread'[t].batch \subseteq Paths(client')
          /\ \A n \in client'.known : GetFilesNodePath(client', n) \in Promised(client') \cup thread'[t].batch
      BY <2>1, <2>2, <3>3, <3>4, StepSame
    <3>6. thread[t].phase # "removes"  BY <1>1
    <3> QED  BY <1>6, <1>7, <2>1, <2>2, <3>2, <3>3, <3>5, <3>6, ThreadEpoch
  <2> QED  BY <1>1, <1>2, <1>4, <2>1, <2>2, ThreadList
<1>8. CASE ~(client.watched /\ ~DiffsOnly(t))
  <2>1. thread' = [thread EXCEPT ![t] = s2] /\ client' = d /\ lock' = t  BY <1>1, <1>8
  <2>2. ASSUME Epoch(client, thread, inbox, disk), Alone(t, thread), Alone(t, thread'),
               Tidy(thread, lock), Tidy(thread', lock')
        PROVE  Epoch(client', thread', inbox', disk)
    <3>1. thread'[t] = s2  BY <1>0, <2>1 DEF Threads
    <3>2. \A n \in disk : Finds(client', thread'[t], n)  BY <1>2, <1>4, <3>1 DEF Finds
    <3>3. thread'[t].phase = "scan" /\ thread'[t].batch = thread[t].batch  BY <1>2, <3>1
    <3>4. SameList(client, client') /\ client'.firewalled = client.firewalled  BY <1>3, <2>1
    <3>5. /\ ToList(client') \cup thread'[t].batch \subseteq Paths(client')
          /\ \A n \in client'.known : GetFilesNodePath(client', n) \in Promised(client') \cup thread'[t].batch
      BY <2>2, <3>3, <3>4, StepSame DEF Epoch
    <3>6. thread[t].phase # "removes" /\ client'.known = client.known  BY <1>1, <3>4 DEF SameList
    <3> QED  BY <1>3, <1>6, <2>1, <2>2, <3>2, <3>3, <3>5, <3>6, ThreadEpoch, ZenonT(60)
  <2> QED  BY <1>1, <1>2, <1>3, <1>4, <1>5, <2>1, <2>2, ThreadList
<1> QED  BY <1>7, <1>8

\* The end of a walk: what has not been sent (b) is sent, or there was nothing.
LEMMA WalkEnds ==
  ASSUME SharesInv, ListInv, Spoiling, NEW t \in 1..Thread, thread[t].phase = "scan",
         UNCHANGED <<disk, deleted, inbox, call>>, lock' = None,
         thread' = [thread EXCEPT ![t] = [@ EXCEPT !.phase = "report", !.batch = {}]],
         Steady(client, client'), client'.known = client.known,
         Active /\ client.tid = t =>
           /\ thread[t].must \cap disk \subseteq thread[t].seen
           /\ (thread[t].batch = {} /\ client' = client) \/ Tells(client, client', SetData(thread[t].batch))
  PROVE  ListInv'
<1>0. client \in Client /\ thread \in Threads /\ thread[t] \in ScanThread
  BY InvFields DEF Threads
<1> DEFINE s == [thread[t] EXCEPT !.phase = "report", !.batch = {}]
<1>1. thread' = [thread EXCEPT ![t] = s]  BY <1>0
<1>2. s.phase = "report" /\ s.batch = {}  BY <1>0 DEF ScanThread
<1> HIDE DEF s
<1>3. \A u \in 1..Thread : u # t => thread[u].phase # "scan"  BY DEF ListInv, Tidy
<1>4. ASSUME Active, ~Removed, client.tid = t, Epoch(client, thread, inbox, disk),
             Alone(t, thread), Alone(t, thread'), Tidy(thread, lock), Tidy(thread', lock')
      PROVE  Epoch(client', thread', inbox', disk)
  <2>1. thread'[t] = s  BY <1>0, <1>1 DEF Threads
  <2>2. Batches(thread) = thread[t].batch  BY <1>4, AloneBatches
  <2>3. Agrees(client, thread)  BY <1>4 DEF Epoch
  <2> DEFINE u == SetData(thread[t].batch)
  <2>4. u.add = thread[t].batch /\ u.del = {}  BY DEF SetData
  <2>5. /\ ToList(client') \subseteq thread[t].batch \cup ToList(client)
        /\ thread[t].batch \subseteq Promised(client')
    <3>1. CASE thread[t].batch = {} /\ client' = client  BY <3>1
    <3>2. CASE Tells(client, client', u)
      <4> HIDE DEF u
      <4> QED  BY <2>4, <3>2 DEF Tells
    <3> QED  BY <1>4, <3>1, <3>2
  <2>6. \A n : GetFilesNodePath(client', n) = GetFilesNodePath(client, n)  BY SamePath DEF Steady
  <2>7. Paths(client') = Paths(client)  BY <2>6 DEF Paths
  <2>8. ToList(client') \cup thread'[t].batch \subseteq Paths(client')
    BY <1>2, <2>1, <2>2, <2>3, <2>5, <2>7 DEF Agrees
  <2>9. \A n \in client'.known : GetFilesNodePath(client', n) \in Promised(client')
    <3> SUFFICES ASSUME NEW n \in client'.known PROVE GetFilesNodePath(client', n) \in Promised(client')
      OBVIOUS
    <3>1. GetFilesNodePath(client, n) \in Promised(client) \cup thread[t].batch
      BY <2>2, <2>3 DEF Agrees, Paths
    <3> QED  BY <1>4, <2>5, <2>6, <3>1, PromiseKept DEF Steady
  <2>10. \A n \in disk \ client'.known : n \notin client.known /\ ~Finds(client, thread[t], n)
    BY <1>4 DEF Finds, WillScan
  <2>11. thread[t].phase # "removes"  OBVIOUS
  <2>12. client'.watched
    <3> SUFFICES ASSUME ~client.watched PROVE FALSE  BY DEF Steady
    <3>1. PICK v \in 1..Thread : thread[v].phase = "adds"  BY <1>4 DEF Epoch, Watches
    <3> QED  BY <1>4, <3>1 DEF Alone
  <2>13. thread'[t].phase \notin {"unborn", "gone"}  BY <1>2, <2>1
  <2>14. client'.mounts = client.mounts /\ client'.pending = client.pending  BY DEF Steady
  <2>15. \A m : Posted(inbox, m) => Posted(inbox', m)  OBVIOUS
  <2> QED  BY <1>4, <2>8, <2>9, <2>10, <2>11, <2>12, <2>13, <2>14, <2>15, ThreadEpoch
<1>5. StaysAway(deleted', disk', inbox')  BY DEF ListInv
<1>6. client'.mtt = client.mtt /\ client'.enabled = client.enabled /\ client'.tid = client.tid
  BY DEF Steady
<1> QED  BY <1>1, <1>2, <1>3, <1>4, <1>5, <1>6, ThreadList, ZenonT(60)

LEMMA ScanAbortedList ==
  ASSUME SharesInv, ListInv, NEW t \in 1..Thread, ScanAborted(t)
  PROVE  ListInv'
<1>1. /\ thread[t].phase = "scan" /\ client.tid # t /\ lock' = None /\ Spoiling
      /\ UNCHANGED <<disk, deleted, client, inbox, call>>
      /\ thread' = [thread EXCEPT ![t] = [@ EXCEPT !.phase = "report", !.batch = {}]]
  BY DEF ScanAborted
<1>2. Steady(client, client') /\ client'.known = client.known  BY <1>1 DEF Steady
<1> QED  BY <1>1, <1>2, WalkEnds

LEMMA ScanDoneList ==
  ASSUME SharesInv, ListInv, NEW t \in 1..Thread, ScanDone(t)
  PROVE  ListInv'
<1>0. client \in Client /\ thread[t] \in ScanThread  BY InvFields DEF Threads
<1> DEFINE u == SetData(thread[t].batch)
<1>1. /\ thread[t].phase = "scan" /\ thread[t].must \cap disk \subseteq thread[t].seen
      /\ lock' = None /\ Spoiling /\ UNCHANGED <<disk, deleted, inbox, call>>
      /\ client' = (IF thread[t].batch = {} THEN client ELSE SendLow(client, u))
      /\ thread' = [thread EXCEPT ![t] = [@ EXCEPT !.phase = "report", !.batch = {}]]
  BY DEF ScanDone
<1>2. u \in Update  BY <1>0 DEF SetData, Update, ScanThread
<1> HIDE DEF u
<1>3. client.mtt # "none" => (thread[t].batch = {} /\ client' = client) \/ Tells(client, client', u)
  BY <1>0, <1>1, <1>2, SendLowList
<1>4. Steady(client, client') /\ client'.known = client.known
  <2>1. CASE client.mtt # "none"  BY <1>3, <2>1 DEF Tells, Steady
  <2>2. CASE client.mtt = "none"
    <3>1. client' = client  BY <1>1, <2>2 DEF SendLow
    <3> QED  BY <3>1 DEF Steady
  <2> QED  BY <2>1, <2>2
<1>5. Active => (thread[t].batch = {} /\ client' = client) \/ Tells(client, client', SetData(thread[t].batch))
  BY <1>3 DEF Active, u
<1> QED  BY <1>1, <1>4, <1>5, WalkEnds

LEMMA PostReportList ==
  ASSUME SharesInv, ListInv, NEW t \in 1..Thread, PostReport(t)
  PROVE  ListInv'
<1>0. client \in Client /\ thread \in Threads /\ thread[t] \in ScanThread /\ inbox \in Seq(Message)
  BY InvFields DEF Threads
<1> DEFINE s == [thread[t] EXCEPT !.phase = "gone", !.must = {}, !.seen = {}]
           x == [kind |-> "report", thread |-> t]
<1>1. /\ thread[t].phase = "report" /\ inbox' = Append(inbox, x) /\ thread' = [thread EXCEPT ![t] = s]
      /\ Spoiling /\ UNCHANGED <<disk, deleted, call, client, lock>>
  BY <1>0 DEF PostReport
<1>2. s.phase = "gone" /\ s.batch = thread[t].batch  BY <1>0 DEF ScanThread
<1>3. x \in Message /\ x.kind = "report"  BY DEF Message
<1> HIDE DEF s, x
<1>4. thread[t].batch = {} /\ StaysAway(deleted, disk, inbox)  BY <1>1 DEF ListInv, Tidy
<1>5. StaysAway(deleted', disk', inbox')  BY <1>0, <1>1, <1>3, <1>4, AwayAppend
<1>6. Posted(inbox', x) /\ \A m : Posted(inbox, m) => Posted(inbox', m)  BY <1>0, <1>1, <1>3, PostedAppend
<1>7. Reported(inbox')  BY <1>3, <1>6 DEF Posted, Reported
<1>8. ASSUME Epoch(client, thread, inbox, disk), Alone(t, thread), Alone(t, thread'),
             Tidy(thread, lock), Tidy(thread', lock')
      PROVE  Epoch(client', thread', inbox', disk)
  <2>1. thread'[t] = s  BY <1>0, <1>1 DEF Threads
  <2>2. \A n : ~Finds(client, thread[t], n)  BY <1>1 DEF Finds, WillScan
  <2>3. SameList(client, client') /\ client' = client  BY <1>1 DEF SameList
  <2>4. thread'[t].batch = thread[t].batch  BY <1>2, <2>1
  <2>5. /\ ToList(client') \cup thread'[t].batch \subseteq Paths(client')
        /\ \A n \in client'.known : GetFilesNodePath(client', n) \in Promised(client') \cup thread'[t].batch
    BY <1>8, <2>3, <2>4, StepSame DEF Epoch
  <2>6. client'.watched
    <3> SUFFICES ASSUME ~client.watched PROVE FALSE  BY <2>3
    <3>1. PICK v \in 1..Thread : thread[v].phase = "adds"  BY <1>8 DEF Epoch, Watches
    <3>2. v # t  BY <1>1, <3>1
    <3> QED  BY <1>8, <3>1, <3>2 DEF Alone
  <2>7. thread[t].phase # "removes"  BY <1>1
  <2> QED  BY <1>6, <1>7, <1>8, <2>2, <2>3, <2>5, <2>6, <2>7, ThreadEpoch
<1> QED  BY <1>1, <1>2, <1>4, <1>5, <1>7, <1>8, ThreadList

LEMMA ScanEntryList ==
  ASSUME SharesInv, ListInv, NEW t \in 1..Thread, NEW n \in Node, ScanEntry(t, n)
  PROVE  ListInv'
<1>0. client \in Client /\ thread \in Threads /\ thread[t] \in ScanThread
  BY InvFields DEF Threads
<1> DEFINE skip  == DiffsOnly(t) /\ client.refs[NameOf[n]] > 0
           batch == thread[t].batch \cup {GetFilesNodePath(client, n)}
           full  == Cardinality(batch) >= BatchSize
           r     == RefFilename(client, n)
           K     == r.known \cup {n}
           c     == [r EXCEPT !.known = K]
           S     == thread[t].seen \cup {n}
           B     == IF skip THEN thread[t].batch ELSE IF full THEN {} ELSE batch
           s     == [thread[t] EXCEPT !.seen = S, !.batch = B]
           u     == SetData(batch)
<1>1. /\ thread[t].phase = "scan" /\ client.tid = t /\ n \in disk \ thread[t].seen
      /\ client' = (IF skip THEN client ELSE IF full THEN SendLow(c, u) ELSE c)
      /\ thread' = [thread EXCEPT ![t] = s]
      /\ Spoiling /\ UNCHANGED <<disk, deleted, call, lock, inbox>>
  BY DEF ScanEntry
<1>2. s.phase = "scan" /\ s.must = thread[t].must /\ s.seen = S /\ s.batch = B
  <2> HIDE DEF S, B
  <2> QED  BY <1>0, <1>1 DEF ScanThread
<1> HIDE DEF s
<1>3. u \in Update /\ u.add = batch /\ u.del = {}
  <2>1. batch \subseteq Listing  BY <1>0, PathType DEF ScanThread
  <2> HIDE DEF batch
  <2> QED  BY <2>1 DEF SetData, Update
<1>4. r \in Client /\ Steady(client, r) /\ SameList(client, r)
  <2>1. PICK q \in [Name -> Nat] : r = [client EXCEPT !.refs = q]  BY <1>0, RefNames
  <2>2. LET d == [client EXCEPT !.refs = q] IN d \in Client /\ Steady(client, d) /\ SameList(client, d) /\ d.refs = q
    BY <1>0, RefList
  <2> QED  BY <2>1, <2>2
<1> HIDE DEF r
<1>5. K \in SUBSET Node /\ K = client.known \cup {n}
  BY <1>4, ClientFields DEF SameList
<1> HIDE DEF K
<1>6. /\ c \in Client /\ Steady(client, c) /\ c.known = client.known \cup {n} /\ c.low = client.low
      /\ c.listed = client.listed
  <2>1. LET d == [r EXCEPT !.known = K]
        IN  d \in Client /\ Steady(r, d) /\ d.known = K /\ d.low = r.low /\ d.listed = r.listed
    BY <1>4, <1>5, KnownList
  <2>2. c \in Client /\ Steady(r, c) /\ c.known = K /\ c.low = r.low /\ c.listed = r.listed  BY <2>1
  <2> HIDE DEF c
  <2> QED  BY <1>4, <1>5, <2>2 DEF Steady, SameList
<1> HIDE DEF c, u, skip, full, S
<1>7. \/ skip /\ client' = client /\ B = thread[t].batch
      \/ client.mtt # "none" /\ ~skip /\ B = {} /\ Tells(c, client', u)
      \/ client.mtt = "none" /\ ~skip /\ client' = c
      \/ ~skip /\ client' = c /\ B = batch
  <2>1. CASE skip  BY <1>1, <2>1
  <2>2. CASE ~skip /\ full
    <3>1. client' = SendLow(c, u) /\ B = {}  BY <1>1, <2>2
    <3>2. c.mtt = client.mtt  BY <1>6 DEF Steady
    <3>3. CASE client.mtt # "none"
      <4>1. Tells(c, client', u)  BY <1>3, <1>6, <3>1, <3>2, <3>3, SendLowList
      <4> QED  BY <2>2, <3>1, <3>3, <4>1
    <3>4. CASE client.mtt = "none"  BY <2>2, <3>1, <3>2, <3>4 DEF SendLow
    <3> QED  BY <3>3, <3>4
  <2>3. CASE ~skip /\ ~full  BY <1>1, <2>3
  <2> QED  BY <2>1, <2>2, <2>3
<1>8. Steady(client, client')
  BY <1>6, <1>7 DEF Steady, Tells
<1>9. StaysAway(deleted', disk', inbox') /\ lock = t  BY <1>1 DEF ListInv, Tidy
<1>10. ASSUME Active, ~Removed, ~Skipped, Epoch(client, thread, inbox, disk),
              Alone(t, thread), Alone(t, thread'), Tidy(thread, lock), Tidy(thread', lock')
       PROVE  Epoch(client', thread', inbox', disk)
  <2>1. thread'[t] = s  BY <1>0, <1>1 DEF Threads
  <2>2. Batches(thread) = thread[t].batch /\ Agrees(client, thread)  BY <1>10, AloneBatches DEF Epoch
  <2>3. \A m : GetFilesNodePath(client', m) = GetFilesNodePath(client, m)  BY <1>8, SamePath DEF Steady
  <2>4. client.mtt # "none"  BY <1>10 DEF Active
  <2>5. client'.known = client.known \cup {n}
    <3>1. CASE skip /\ client' = client
      <4>1. n \in thread'[t].seen /\ n \notin thread[t].seen  BY <1>1, <1>2, <2>1 DEF S
      <4>2. n \in client'.known  BY <1>10, <4>1 DEF Skipped
      <4> QED  BY <3>1, <4>2
    <3>2. CASE client' = c  BY <1>6, <3>2
    <3>3. CASE Tells(c, client', u)  BY <1>6, <3>3 DEF Tells
    <3> QED  BY <1>7, <3>1, <3>2, <3>3
  <2>6. ToList(c) = ToList(client)  BY <1>6 DEF ToList
  <2>7. Paths(client') = Paths(client) \cup {GetFilesNodePath(client, n)}  BY <2>3, <2>5 DEF Paths
  <2>8. ToList(client') \cup B \subseteq ToList(client) \cup batch
    <3>1. CASE skip /\ client' = client /\ B = thread[t].batch  BY <3>1
    <3>2. CASE B = {} /\ Tells(c, client', u)  BY <1>3, <2>6, <3>2 DEF Tells
    <3>3. CASE client' = c /\ B = batch  BY <2>6, <3>3
    <3> QED  BY <1>7, <2>4, <3>1, <3>2, <3>3
  <2>9. ToList(client') \cup thread'[t].batch \subseteq Paths(client')
    BY <1>2, <2>1, <2>2, <2>7, <2>8 DEF Agrees
  <2>10. ASSUME NEW m \in client'.known
         PROVE  GetFilesNodePath(client', m) \in Promised(client') \cup thread'[t].batch
    <3>1. CASE GetFilesNodePath(client, m) \in Promised(client)  BY <1>8, <1>10, <2>10, <3>1, PromiseKept DEF Steady
    <3>2. CASE GetFilesNodePath(client, m) \in batch /\ ~skip
      <4>1. CASE B = {} /\ Tells(c, client', u)  BY <1>3, <2>3, <3>2, <4>1 DEF Tells
      <4>2. CASE B = batch  BY <1>2, <2>1, <2>3, <3>2, <4>2
      <4> QED  BY <1>7, <2>4, <3>2, <4>1, <4>2
    <3>3. CASE GetFilesNodePath(client, m) \in thread[t].batch /\ skip
      BY <1>2, <1>7, <2>1, <2>3, <3>3
    <3>4. m \in client.known => GetFilesNodePath(client, m) \in Promised(client) \cup thread[t].batch
      BY <2>2 DEF Agrees, Paths
    <3>5. m = n => m \in client.known \/ ~skip
      <4>1. skip => client' = client  BY <1>1
      <4> QED  BY <2>10, <4>1
    <3> QED  BY <2>5, <2>10, <3>1, <3>2, <3>3, <3>4, <3>5
  <2>11. ASSUME NEW m \in disk \ client'.known
         PROVE  Finds(client', thread'[t], m) \/ (m \notin client.known /\ ~Finds(client, thread[t], m))
    <3>1. m # n /\ m \notin client.known  BY <2>5, <2>11
    <3>2. Finds(client, thread[t], m) => m \in thread[t].must \ thread[t].seen
      BY <1>1 DEF Finds, WillScan
    <3>3. m \in thread[t].must \ thread[t].seen => Finds(client', thread'[t], m)
      BY <1>2, <2>1, <3>1 DEF Finds, S
    <3> QED  BY <3>1, <3>2, <3>3
  <2>12. client'.watched
    <3> SUFFICES ASSUME ~client.watched PROVE FALSE  BY <1>8 DEF Steady
    <3>1. PICK v \in 1..Thread : thread[v].phase = "adds"  BY <1>10 DEF Epoch, Watches
    <3>2. v # t  BY <1>1, <3>1
    <3> QED  BY <1>10, <3>1, <3>2 DEF Alone
  <2>13. \A m \in client'.known \ disk : m \in client.known /\ thread[t].phase # "removes"
    BY <1>1, <2>5
  <2>14. client'.mounts = client.mounts /\ client'.pending = client.pending  BY <1>8 DEF Steady
  <2>15. thread'[t].phase \notin {"unborn", "gone"}  BY <1>2, <2>1
  <2>16. \A m : Posted(inbox, m) => Posted(inbox', m)  BY <1>1
  <2> QED  BY <1>10, <2>9, <2>10, <2>11, <2>12, <2>13, <2>14, <2>15, <2>16, ThreadEpoch
<1>11. client'.mtt = client.mtt /\ client'.enabled = client.enabled /\ client'.tid = client.tid
  BY <1>8 DEF Steady
<1> QED  BY <1>1, <1>2, <1>9, <1>10, <1>11, ThreadList

LEMMA ThreadStepList ==
  ASSUME SharesInv, ListInv, NEW t \in 1..Thread, ThreadStep(t)
  PROVE  ListInv'
BY CheckRemovesList, BeginScanList, ScanEntryList, ScanAbortedList, ScanDoneList, PostReportList
   DEF ThreadStep

-----------------------------------------------------------------------------
(***************************************************************************)
(* The folder.                                                             *)
(***************************************************************************)
\* The folder becomes (d), and (m) reports it.
LEMMA ChangedList ==
  ASSUME SharesInv, ListInv, NEW d \in SUBSET Node, NEW m \in Message, Changed(d, m),
         d \cap deleted = {}, m.kind = "removed" => m.node \in disk \ (d \cup Volume),
         \A n \in d \ disk : \/ m = [kind |-> "created", node |-> n]
                             \/ n \in Volume /\ m = [kind |-> "mounted"],
         \A n \in disk \ d : \/ m = [kind |-> "removed", node |-> n]
                             \/ n \in Volume /\ m = [kind |-> "unmounted"]
  PROVE  ListInv'
<1>0. inbox \in Seq(Message)  BY InvFields
<1>1. /\ Spoiling /\ UNCHANGED <<client, thread, lock, call>> /\ disk' = d
      /\ deleted' = deleted \cup (disk \ (d \cup Volume))
      /\ inbox' = IF IF m.kind \in {"mounted", "unmounted"} THEN client.mounts ELSE client.watched
                  THEN Append(inbox, m) ELSE inbox
  BY DEF Changed
<1>2. inbox' = Append(inbox, m) \/ inbox' = inbox  BY <1>1
<1>3. StaysAway(deleted', disk', inbox')
  <2>1. StaysAway(deleted', d, inbox)  BY <1>1 DEF ListInv, StaysAway
  <2>2. m.kind = "removed" => m.node \in deleted'  BY <1>1
  <2> QED  BY <1>0, <1>1, <1>2, <2>1, <2>2, AwayAppend
<1>4. /\ \A x : Posted(inbox, x) => Posted(inbox', x)
      /\ Reported(inbox) => Reported(inbox')
  BY <1>0, <1>2, PostedAppend
<1>5. OneAtWork'
  <2>1. /\ \A t \in AtWork(thread') : t \in AtWork(thread) \/ t = client'.tid
        /\ \A t \in 1..Thread : thread[t].phase = "unborn" /\ thread'[t].phase # "unborn" => t = client'.tid
        /\ OneAtWork
    BY <1>1 DEF ListInv
  <2> QED  BY <1>1, <2>1, OneStaysAtWork
<1>6. WillReport'  BY <1>1, <1>4 DEF ListInv, WillReport
<1>7. ASSUME Active'
      PROVE  Epoch(client', thread', inbox', disk')
  <2>1. Active  BY <1>1, <1>7, StillActive
  <2>2. Epoch(client, thread, inbox, disk)  BY <2>1 DEF ListInv
  <2>3. client.mounts  BY <2>2 DEF Epoch
  <2>4. \A n : Coming(client, thread, inbox, n) => Coming(client, thread, inbox', n)
    BY <1>4 DEF Coming
  <2>5. \A n : Going(client, thread, inbox, n) => Going(client, thread, inbox', n)
    BY <1>4 DEF Going
  <2>6. CASE client.watched
    <3>1. Posted(inbox', m)
      <4>1. inbox' = Append(inbox, m)  BY <1>1, <2>3, <2>6
      <4> QED  BY <1>0, <4>1, PostedAppend
    <3>2. ASSUME NEW n \in d \ client.known PROVE Coming(client, thread, inbox', n)
      <4>1. CASE n \in disk  BY <2>2, <2>4, <3>2, <4>1 DEF Epoch, Follows
      <4>2. CASE n \notin disk  BY <3>1, <3>2, <4>2 DEF Coming
      <4> QED  BY <4>1, <4>2
    <3>3. ASSUME NEW n \in client.known \ d PROVE Going(client, thread, inbox', n)
      <4>1. CASE n \notin disk  BY <2>2, <2>5, <3>3, <4>1 DEF Epoch, Follows
      <4>2. CASE n \in disk  BY <3>1, <3>3, <4>2 DEF Going
      <4> QED  BY <4>1, <4>2
    <3> QED  BY <1>1, <1>4, <2>2, <3>2, <3>3 DEF Epoch, Follows
  <2>7. CASE ~client.watched
    <3>1. PICK t \in 1..Thread : thread[t].phase = "adds" /\ thread[t].code = {}
      BY <2>2, <2>7 DEF Epoch, Watches
    <3>2. WillScan(client, thread[t])  BY <2>7, <3>1 DEF WillScan
    <3>3. \A n : Coming(client, thread, inbox', n)  BY <3>2 DEF Coming
    <3>4. client.known = {}  BY <2>2, <2>7 DEF Epoch, Watches
    <3> QED  BY <1>1, <1>4, <2>2, <3>3, <3>4 DEF Epoch, Follows
  <2> QED  BY <2>6, <2>7
<1>8. Tidy(thread', lock')  BY <1>1 DEF ListInv
<1> QED  BY <1>3, <1>5, <1>6, <1>7, <1>8 DEF ListInv

LEMMA FolderList ==
  ASSUME SharesInv, ListInv, Folder
  PROVE  ListInv'
<1>0. disk \subseteq Node /\ Volume \subseteq Node /\ deleted \cap (disk \cup Volume) = {}
  BY InvFields, VolumeAssumption DEF ListInv, StaysAway
<1>1. ASSUME NEW n \in Node, FileCreated(n)
      PROVE  ListInv'
  <2> DEFINE d == disk \cup {n}
             m == [kind |-> "created", node |-> n]
  <2>1. n \notin Volume \cup deleted /\ Changed(d, m)  BY <1>1 DEF FileCreated
  <2>2. d \in SUBSET Node /\ m \in Message /\ m.kind # "removed"  BY <1>0 DEF Message
  <2>3. d \cap deleted = {}  BY <1>0, <2>1
  <2>4. (\A x \in d \ disk : m = [kind |-> "created", node |-> x]) /\ disk \ d = {}  OBVIOUS
  <2> HIDE DEF d, m
  <2> QED  BY <2>1, <2>2, <2>3, <2>4, ChangedList
<1>2. ASSUME NEW n \in Node, FileRemoved(n)
      PROVE  ListInv'
  <2> DEFINE d == disk \ {n}
             m == [kind |-> "removed", node |-> n]
  <2>1. n \in disk \ Volume /\ Changed(d, m)  BY <1>2 DEF FileRemoved
  <2>2. d \in SUBSET Node /\ m \in Message /\ m.node = n  BY <1>0 DEF Message
  <2>3. d \cap deleted = {} /\ m.node \in disk \ (d \cup Volume)  BY <1>0, <2>1
  <2>4. (\A x \in disk \ d : m = [kind |-> "removed", node |-> x]) /\ d \ disk = {}  OBVIOUS
  <2> HIDE DEF d, m
  <2> QED  BY <2>1, <2>2, <2>3, <2>4, ChangedList
<1>3. ASSUME NEW n \in Node, FileMoved(n)
      PROVE  ListInv'
  <2> DEFINE m == [kind |-> "moved", node |-> n]
  <2>1. Changed(disk, m)  BY <1>3 DEF FileMoved
  <2>2. disk \in SUBSET Node /\ m \in Message /\ m.kind # "removed"  BY <1>0 DEF Message
  <2> HIDE DEF m
  <2> QED  BY <1>0, <2>1, <2>2, ChangedList
<1>4. CASE VolumeMounted
  <2> DEFINE d == disk \cup Volume
             m == [kind |-> "mounted"]
  <2>1. Changed(d, m)  BY <1>4 DEF VolumeMounted
  <2>2. d \in SUBSET Node /\ m \in Message /\ m.kind # "removed"  BY <1>0 DEF Message
  <2>3. d \cap deleted = {} /\ m = [kind |-> "mounted"] /\ disk \ d = {} /\ d \ disk \subseteq Volume
    BY <1>0
  <2> HIDE DEF d, m
  <2> QED  BY <2>1, <2>2, <2>3, ChangedList
<1>5. CASE VolumeUnmounted
  <2> DEFINE d == disk \ Volume
             m == [kind |-> "unmounted"]
  <2>1. Changed(d, m)  BY <1>5 DEF VolumeUnmounted
  <2>2. d \in SUBSET Node /\ m \in Message /\ m.kind # "removed"  BY <1>0 DEF Message
  <2>3. d \cap deleted = {} /\ m = [kind |-> "unmounted"] /\ disk \ d \subseteq Volume /\ d \ disk = {}
    BY <1>0
  <2> HIDE DEF d, m
  <2> QED  BY <2>1, <2>2, <2>3, ChangedList
<1> QED  BY <1>1, <1>2, <1>3, <1>4, <1>5 DEF Folder

-----------------------------------------------------------------------------
(***************************************************************************)
(* The theorem.                                                            *)
(***************************************************************************)
LEMMA InitListInv == Init => ListInv
<1> SUFFICES ASSUME Init PROVE ListInv  OBVIOUS
<1>1. /\ deleted = {} /\ client = NewClient /\ lock = None /\ inbox = <<>> /\ call = NoCall /\ spoiled = {}
      /\ \A t \in 1..Thread : thread[t] = [phase |-> "unborn", code |-> {}, must |-> {}, seen |-> {}, batch |-> {}]
  BY DEF Init
<1>2. client.mtt = "none" /\ client.tid = None  BY <1>1 DEF NewClient
<1>3. Tidy(thread, lock)  BY <1>1 DEF Tidy
<1>4. Len(inbox) = 0  BY <1>1, EmptySeq
<1>5. StaysAway(deleted, disk, inbox)  BY <1>1, <1>4 DEF StaysAway
<1>6. AtWork(thread) = {}  BY <1>1 DEF AtWork
<1> QED  BY <1>2, <1>3, <1>5, <1>6 DEF ListInv, OneAtWork, WillReport, Active

LEMMA StepList ==
  ASSUME SharesInv, ListInv, [Next]_vars
  PROVE  ListInv'
<1>1. CASE UNCHANGED vars
  BY <1>1 DEF vars, ListInv, OneAtWork, WillReport, Active, Idle
<1>2. CASE Handle
  BY <1>2, ThreadGoneList, ScanReportedList, VolumesChangedList, EntryChangedList DEF Handle
<1>3. CASE \E t \in 1..Thread : ThreadStep(t)  BY <1>3, ThreadStepList
<1> QED  BY <1>1, <1>2, <1>3, CommandList, DrainedList, CheckFileCountList, FileListArrivesList, FolderList DEF Next

LEMMA ListInvariance == Spec => [](SharesInv /\ ListInv)
<1>1. Init => SharesInv /\ ListInv  BY InitSharesInv, InitListInv
<1>2. SharesInv /\ ListInv /\ [Next]_vars => SharesInv' /\ ListInv'  BY StepKeeps, StepList
<1> QED  BY <1>1, <1>2, PTL DEF Spec

\* What ReuploadFiles, the scan threads, the node monitor and the queue are for:
\* once no thread is at work, no message waits and the queue is empty, a server
\* that we are connected to lists the files that are in the shared folder, no
\* more and no less, under the path that tells whether we are firewalled; unless
\* since the last full scan one was cut short, a rescan passed a file over, or a
\* removal was sent for the name of a file that is shared.
THEOREM ListIsRight == Spec => []ListedMatchesDisk
<1>1. SharesInv /\ ListInv => ListedMatchesDisk
  <2> SUFFICES ASSUME SharesInv, ListInv, AtRest, client.mtt = "connected", client.enabled, spoiled = {}
               PROVE  client.listed = {GetFilesNodePath(client, n) : n \in disk}
    BY DEF ListedMatchesDisk
  <2>1. /\ Idle /\ inbox = <<>> /\ client.low = <<>>
        /\ \A t \in 1..Thread : thread[t].phase \in {"unborn", "gone"}
    BY DEF AtRest, Alive
  <2>2. Epoch(client, thread, inbox, disk) /\ Tidy(thread, lock)  BY <2>1 DEF ListInv, Active
  <2>3. ~Busy(thread) /\ ~Reported(inbox) /\ \A m : ~Posted(inbox, m)
    <3>1. Len(inbox) = 0  BY <2>1, EmptySeq
    <3> QED  BY <2>1, <3>1 DEF Busy, Reported, Posted
  <2>4. client.pending = {} /\ client.watched  BY <2>1, <2>2, <2>3 DEF Epoch, Watches
  <2>5. \A n : ~Coming(client, thread, inbox, n) /\ ~Going(client, thread, inbox, n)
    BY <2>1, <2>3, <2>4 DEF Coming, Going, WillScan
  <2>6. client.known = disk  BY <2>2, <2>5 DEF Epoch, Follows
  <2>7. Batches(thread) = {}  BY <2>1, <2>2 DEF Batches, Tidy
  <2>8. ToList(client) = client.listed
    <3>1. client.listed \subseteq Listing  BY InvFields, ClientFields
    <3>2. Delivered(client.listed, <<>>) = client.listed \cap Listing  BY DeliveredNothing
    <3> QED  BY <2>1, <3>1, <3>2 DEF ToList
  <2>9. Promised(client) = client.listed
    <3>1. DOMAIN client.low = {}  BY <2>1
    <3> QED  BY <3>1 DEF Promised
  <2> QED  BY <2>2, <2>6, <2>7, <2>8, <2>9 DEF Epoch, Agrees, Paths
<1> QED  BY <1>1, ListInvariance, PTL

=============================================================================
