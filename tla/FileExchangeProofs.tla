------------------------- MODULE FileExchangeProofs -------------------------
(***************************************************************************)
(* Theorems about FileExchange, for any number of files of any sizes, any  *)
(* number of interruptions and any contents of the download folder.        *)
(***************************************************************************)
EXTENDS FileExchange, FiniteOrders, SequenceTheorems

-----------------------------------------------------------------------------
(***************************************************************************)
(* Types.                                                                  *)
(***************************************************************************)
LEMMA ConstantTypes ==
  /\ File \subseteq Nat /\ None \notin File
  /\ \A f \in File : Size[f] \in Nat
  /\ Version \subseteq Nat \ {0}
  /\ Min(Version) \in Version
<1>1. \E x \in Version : \A y \in Version : x <= y
  BY CopyAssumption, LeastElement
<1>2. Min(Version) \in Version
  BY <1>1 DEF Min
<1> QED  BY <1>2, FileAssumption, SizeAssumption, CopyAssumption DEF None

LEMMA FileSubsets ==
  ASSUME NEW S \in SUBSET File
  PROVE  IsFiniteSet(S) /\ Cardinality(S) \in Nat
BY FileAssumption, FS_Subset, FS_CardinalityType

LEMMA AbsentType == Absent \notin Copy /\ <<>> \in Copy /\ Absent # <<>>
BY CopyAssumption DEF Absent, Copy

LEMMA RestartType ==
  ASSUME NEW d \in Download
  PROVE  RestartSession(d) \in Download
<1> DEFINE d1 == [d EXCEPT !.phase = "queued", !.due = d.orig]
           d2 == [d1 EXCEPT !.cur = None, !.done = -1]
           d3 == [d2 EXCEPT !.size = -1, !.index = 0]
           d4 == [d3 EXCEPT !.total = Cardinality(d.orig), !.auto = FALSE]
           d5 == [d4 EXCEPT !.error = FALSE]
<1>0. Cardinality(d.orig) \in Nat  BY FileSubsets DEF Download
<1>a. -1 \in Int /\ 0 \in Nat  OBVIOUS
<1>1. d1 \in Download  BY DEF Download
<1>2. d2 \in Download  <2> HIDE DEF d1  <2> QED  BY <1>a, <1>1, Zenon DEF Download
<1>3. d3 \in Download  <2> HIDE DEF d2  <2> QED  BY <1>a, <1>2, Zenon DEF Download
<1>4. d4 \in Download  <2> HIDE DEF d3  <2> QED  BY <1>0, <1>3 DEF Download
<1>5. d5 \in Download  <2> HIDE DEF d4  <2> QED  BY <1>4 DEF Download
<1>6. RestartSession(d) = d5  BY DEF RestartSession
<1> QED  BY <1>5, <1>6

LEMMA AbortType ==
  ASSUME NEW d \in Download, NEW error \in BOOLEAN, NEW force \in BOOLEAN
  PROVE  AbortSession(d, error, force) \in Download
<1> DEFINE d1 == [d EXCEPT !.phase = "idle", !.done = -1]
           d2 == [d1 EXCEPT !.size = -1, !.auto = FALSE]
           d3 == [d2 EXCEPT !.error = error]
<1>0. -1 \in Int  OBVIOUS
<1>1. d1 \in Download  BY <1>0, Zenon DEF Download
<1>2. d2 \in Download  <2> HIDE DEF d1  <2> QED  BY <1>0, <1>1, Zenon DEF Download
<1>3. d3 \in Download  <2> HIDE DEF d2  <2> QED  BY <1>2 DEF Download
<1>4. AbortSession(d, error, force) \in {RestartSession(d), d3}  BY DEF AbortSession
<1> QED  BY <1>3, <1>4, RestartType

\* What an upload has been told and where it is lies within the files.
GoodUpload ==
  {u \in Upload : /\ u.cur # None => u.pos <= Size[u.cur]
                  /\ \A f \in File : u.files[f] <= Size[f]}

LEMMA NoUploadType == NoUpload \in GoodUpload
<1>1. NoUpload \in Upload
  BY DEF NoUpload, Upload, Offset
<1>2. \A f \in File : NoUpload.files[f] <= Size[f]
  BY ConstantTypes DEF NoUpload
<1> QED  BY <1>1, <1>2 DEF GoodUpload, NoUpload

-----------------------------------------------------------------------------
(***************************************************************************)
(* DoUpload.                                                               *)
(***************************************************************************)
ShareType == share \in [File -> {0} \cup Version]

LEMMA InOrderCounts ==
  ASSUME NEW S \in SUBSET File
  PROVE  Counts(InOrder(S), S)
<1> DEFINE P(s) == \A i, j \in DOMAIN s : i < j => s[i] < s[j]
<1>1. PICK s : Counts(s, S)
  BY CountingExists, FileSubsets, ConstantTypes
<1>2. s \in [1..Cardinality(S) -> S] /\ P(s)
  BY <1>1 DEF Counts
<1>3. InOrder(S) \in [1..Cardinality(S) -> S] /\ P(InOrder(S))
  BY <1>2 DEF InOrder
<1> QED  BY <1>3 DEF Counts

\* The headers DoUpload sends are those of files that it comes to and can open.
LEMMA HeadersShape ==
  ASSUME ShareType, NEW u \in GoodUpload
  PROVE  LET S     == {f \in Visited(u) : share[f] # 0}
             names == InOrder(S)
         IN  /\ S \in SUBSET File
             /\ Len(Headers(u)) = Cardinality(S)
             /\ Cardinality(S) \in Nat
             /\ Headers(u) \in Seq(Message)
             /\ \A i \in 1..Cardinality(S) : names[i] \in S /\ Headers(u)[i] = Header(u, names[i])
<1> DEFINE S     == {f \in Visited(u) : share[f] # 0}
           names == InOrder(S)
           n     == Cardinality(S)
<1>1. S \in SUBSET File  BY DEF Visited, Ahead
<1>2. n \in Nat  BY <1>1, FileSubsets
<1>3. names \in [1..n -> S]  BY <1>1, InOrderCounts DEF Counts
<1>4. Headers(u) = [i \in 1..n |-> Header(u, names[i])]
  <2>1. DOMAIN names = 1..n  BY <1>3
  <2> HIDE DEF n
  <2> QED  BY <2>1 DEF Headers
<1>5. \A f \in S : Header(u, f) \in Message
  <2> TAKE f \in S
  <2>1. f \in File /\ u.files[f] \in Int /\ u.files[f] >= 0
    BY <1>1 DEF Visited, Ahead, GoodUpload, Upload, Offset
  <2> QED  BY <2>1 DEF Header, Message
<1> HIDE DEF n, names, S
<1>6. \A i \in 1..n : names[i] \in S /\ Headers(u)[i] = Header(u, names[i])
  BY <1>3, <1>4
<1>7. Headers(u) \in [1..n -> Message]
  BY <1>3, <1>4, <1>5
<1>8. Headers(u) \in Seq(Message) /\ Len(Headers(u)) = n
  BY <1>2, <1>7
<1> QED  BY <1>1, <1>2, <1>6, <1>8 DEF n, names, S

\* It halts at the first file that has something to send or cannot be opened.
LEMMA HaltsAtFirst ==
  ASSUME ShareType, NEW u \in GoodUpload, Halting(u) # {}
  PROVE  /\ Max(Visited(u)) \in Halting(u)
         /\ Max(Visited(u)) \in Visited(u)
         /\ \A f \in Visited(u) : f <= Max(Visited(u)) /\ (f \in Halting(u) => f = Max(Visited(u)))
<1>0. Halting(u) \subseteq Ahead(u) /\ Ahead(u) \subseteq Nat
  BY ConstantTypes DEF Halting, Ahead
<1>1. PICK h \in Halting(u) : \A g \in Halting(u) : h <= g
  BY <1>0, LeastElement
<1>2. h \in Visited(u)
  BY <1>0, <1>1 DEF Visited
<1>3. \A f \in Visited(u) : f <= h /\ f \in Nat
  BY <1>0, <1>1 DEF Visited
<1>4. h \in Nat  BY <1>3, <1>2
<1>5. \A x \in Visited(u) : (\A y \in Visited(u) : x >= y) => x = h
  BY <1>2, <1>3, <1>4
<1>6. \A y \in Visited(u) : h >= y
  BY <1>3, <1>4
<1>7. Max(Visited(u)) = h
  BY <1>2, <1>5, <1>6 DEF Max
<1>8. \A f \in Visited(u) : f \in Halting(u) => f = h
  BY <1>1, <1>3, <1>4
<1> QED  BY <1>1, <1>2, <1>3, <1>7, <1>8

\* A file it passes by is there already.
LEMMA PassedBy ==
  ASSUME ShareType, NEW u \in GoodUpload, NEW f \in Visited(u), f \notin Halting(u)
  PROVE  f \in File /\ u.files[f] = Size[f]
<1>1. f \in File /\ f \in Ahead(u)  BY DEF Visited, Ahead
<1>2. u.files[f] \in Int /\ u.files[f] <= Size[f] /\ Size[f] \in Nat
  BY <1>1, ConstantTypes DEF GoodUpload, Upload, Offset
<1> QED  BY <1>1, <1>2 DEF Halting

\* What the iterator ends at.
LEMMA EndOfList ==
  ASSUME NEW u \in GoodUpload
  PROVE  Max({u.at} \cup Ahead(u)) \in {None} \cup File
<1> DEFINE S == {u.at} \cup Ahead(u)
<1>1. S \in SUBSET ({None} \cup File)  BY DEF Ahead, GoodUpload, Upload
<1>2. IsFiniteSet(S)
  <2>1. Ahead(u) \in SUBSET File  BY DEF Ahead
  <2>2. IsFiniteSet(Ahead(u) \cup {u.at})  BY <2>1, FileSubsets, FS_AddElement
  <2>3. S = Ahead(u) \cup {u.at}  OBVIOUS
  <2> QED  BY <2>2, <2>3
<1>3. S \in SUBSET Nat
  <2> HIDE DEF S
  <2> QED  BY <1>1, FileAssumption DEF None
<1>4. \E x \in S : \A y \in S : x >= y
  BY <1>2, <1>3, GreatestElement DEF Peak
<1>5. Max(S) \in S
  <2> HIDE DEF S
  <2> QED  BY <1>4 DEF Max
<1> QED  BY <1>1, <1>5

LEMMA NextFileType ==
  ASSUME ShareType, NEW u \in GoodUpload
  PROVE  /\ NextFile(u).u \in GoodUpload
         /\ NextFile(u).msgs \in Seq(Message)
         /\ NextFile(u).fails = FALSE
<1>0. u \in Upload /\ \A f \in File : u.files[f] <= Size[f]  BY DEF GoodUpload
<1>1. Headers(u) \in Seq(Message)  BY HeadersShape
<1>2. CASE Halting(u) = {}
  <2> DEFINE a  == Max({u.at} \cup Ahead(u))
             u1 == [u EXCEPT !.at = a, !.cur = None]
             u2 == [u1 EXCEPT !.finishing = TRUE, !.asked = @ + 1]
  <2>1. a \in {None} \cup File  BY EndOfList
  <2> HIDE DEF a
  <2>2. u1 \in Upload /\ u1.cur = None /\ u1.files = u.files  BY <1>0, <2>1, Zenon DEF Upload
  <2>3. u2 \in Upload /\ u2.cur = None /\ u2.files = u.files
    <3> HIDE DEF u1
    <3>1. u1.asked + 1 \in Nat  BY <2>2 DEF Upload
    <3> QED  BY <2>2, <3>1, Zenon DEF Upload
  <2>4. NextFile(u) = Uploading(u2, Headers(u), FALSE)
    BY <1>2 DEF NextFile, a
  <2> HIDE DEF u2
  <2>5. u2 \in GoodUpload  BY <1>0, <2>3 DEF GoodUpload
  <2> QED  BY <1>1, <2>4, <2>5 DEF Uploading
<1>3. CASE Halting(u) # {}
  <2> DEFINE f  == Max(Visited(u))
             v  == share[f]
             w1 == [u EXCEPT !.at = f, !.cur = f]
             w2 == [w1 EXCEPT !.version = v, !.pos = u.files[f]]
             w3 == [w2 EXCEPT !.pos = @ + 1, !.asked = @ + 1]
  <2>1. /\ f \in File /\ f \in Halting(u) /\ f # None
        /\ u.files[f] \in Nat /\ u.files[f] <= Size[f] /\ Size[f] \in Nat
    <3>1. f \in Halting(u)  BY <1>3, HaltsAtFirst
    <3> HIDE DEF f
    <3>2. f \in File /\ u.files[f] >= 0  BY <3>1 DEF Halting, Ahead
    <3>3. u.files[f] \in Int  BY <1>0, <3>2 DEF Upload, Offset
    <3> QED  BY <1>0, <3>1, <3>2, <3>3, ConstantTypes
  <2>2. v \in {0} \cup Version  BY <2>1 DEF ShareType
  <2>3. v # 0 => u.files[f] < Size[f]  BY <2>1 DEF Halting
  <2>4. NextFile(u) = IF v = 0 THEN Uploading(w2, Headers(u), FALSE)
                      ELSE Uploading(w3, Append(Headers(u), Data(v)), FALSE)
    BY <1>3 DEF NextFile
  <2> HIDE DEF f, v
  <2>5. w1 \in Upload /\ w1.cur = f /\ w1.files = u.files  BY <1>0, <2>1, Zenon DEF Upload
  <2>6. w2 \in Upload /\ w2.cur = f /\ w2.files = u.files /\ w2.pos = u.files[f]
    <3> HIDE DEF w1
    <3> QED  BY <2>1, <2>2, <2>5, Zenon DEF Upload
  <2>7. w3 \in Upload /\ w3.cur = f /\ w3.files = u.files /\ w3.pos = u.files[f] + 1
    <3> HIDE DEF w2
    <3>1. w2.asked + 1 \in Nat /\ w2.pos + 1 \in Nat /\ w2.pos + 1 = u.files[f] + 1
      BY <2>1, <2>6 DEF Upload
    <3> QED  BY <2>6, <3>1, Zenon DEF Upload
  <2> HIDE DEF w1, w2, w3
  <2>8. w2 \in GoodUpload  BY <1>0, <2>1, <2>6 DEF GoodUpload
  <2>9. v # 0 => w3 \in GoodUpload  BY <1>0, <2>1, <2>3, <2>7 DEF GoodUpload
  <2>10. v # 0 => Append(Headers(u), Data(v)) \in Seq(Message)
    <3> SUFFICES ASSUME v # 0 PROVE Append(Headers(u), Data(v)) \in Seq(Message)  OBVIOUS
    <3>1. Data(v) \in Message  BY <2>2 DEF Data, Message
    <3> QED  BY <1>1, <3>1, AppendProperties
  <2> QED  BY <1>1, <2>4, <2>8, <2>9, <2>10 DEF Uploading
<1> QED  BY <1>2, <1>3

LEMMA DoUploadType ==
  ASSUME ShareType, NEW u \in GoodUpload
  PROVE  /\ DoUpload(u).u \in GoodUpload
         /\ DoUpload(u).msgs \in Seq(Message)
         /\ DoUpload(u).fails \in BOOLEAN
<1>1. <<>> \in Seq(Message)  OBVIOUS
<1>2. CASE u.waiting \/ (u.cur # None /\ u.version = 0)
  BY <1>1, <1>2 DEF DoUpload, Uploading, GoodUpload, Upload
<1>3. CASE ~u.waiting /\ (u.cur = None \/ (u.version # 0 /\ u.pos = Size[u.cur]))
  <2>1. DoUpload(u) = NextFile(u)  BY <1>3 DEF DoUpload, GoodUpload, Upload
  <2> QED  BY <2>1, NextFileType
<1>4. CASE ~u.waiting /\ u.cur # None /\ u.version # 0 /\ u.pos # Size[u.cur]
  <2> DEFINE w == [u EXCEPT !.pos = @ + 1, !.asked = @ + 1]
  <2>1. DoUpload(u) = Uploading(w, <<Data(u.version)>>, FALSE)  BY <1>4 DEF DoUpload, GoodUpload, Upload
  <2>2. /\ u \in Upload /\ u.cur \in File /\ u.pos \in Nat /\ u.asked \in Nat /\ u.version \in Version
        /\ Size[u.cur] \in Nat /\ u.pos <= Size[u.cur]
        /\ \A f \in File : u.files[f] <= Size[f]
    BY <1>4, ConstantTypes DEF GoodUpload, Upload
  <2>3. u.pos + 1 \in Nat /\ u.asked + 1 \in Nat /\ u.pos + 1 <= Size[u.cur]
    BY <1>4, <2>2
  <2>4. w \in Upload /\ w.cur = u.cur /\ w.pos = u.pos + 1 /\ w.files = u.files
    BY <2>2, <2>3, Zenon DEF Upload
  <2> HIDE DEF w
  <2>5. w \in GoodUpload  BY <2>2, <2>3, <2>4 DEF GoodUpload
  <2>6. Data(u.version) \in Message  BY <2>2 DEF Data, Message
  <2> QED  BY <2>1, <2>5, <2>6 DEF Uploading
<1> QED  BY <1>2, <1>3, <1>4 DEF GoodUpload, Upload

LEMMA BeginTransferType ==
  ASSUME ShareType, NEW u \in GoodUpload
  PROVE  /\ BeginTransfer(u).u \in GoodUpload
         /\ BeginTransfer(u).msgs \in Seq(Message)
         /\ BeginTransfer(u).fails \in BOOLEAN
<1> DEFINE v == [u EXCEPT !.waiting = FALSE]
<1>1. v \in Upload /\ v.cur = u.cur /\ v.pos = u.pos /\ v.files = u.files  BY DEF GoodUpload, Upload
<1>2. BeginTransfer(u) = IF \E f \in File : v.files[f] >= 0 THEN DoUpload(v) ELSE Uploading(v, <<>>, FALSE)
  BY DEF BeginTransfer
<1> HIDE DEF v
<1>3. v \in GoodUpload  BY <1>1 DEF GoodUpload
<1>4. CASE \E f \in File : v.files[f] >= 0
  BY <1>2, <1>3, <1>4, DoUploadType
<1>5. CASE ~\E f \in File : v.files[f] >= 0
  <2>1. BeginTransfer(u) = Uploading(v, <<>>, FALSE)  BY <1>2, <1>5
  <2> QED  BY <1>3, <2>1 DEF Uploading
<1> QED  BY <1>4, <1>5

-----------------------------------------------------------------------------
(***************************************************************************)
(* The steps.                                                              *)
(***************************************************************************)
\* The types with what an upload's offsets are bounded by.
TypeInv == TypeOK /\ ul \in GoodUpload

LEMMA HeadMessage ==
  ASSUME NEW q \in Seq(Message), q # <<>>
  PROVE  /\ Head(q) \in Message /\ Tail(q) \in Seq(Message)
         /\ Head(q).kind = "header" => Head(q).file \in File /\ Head(q).start \in Nat
         /\ Head(q).kind = "data" => Head(q).version \in Version
         /\ Head(q).kind \in {"header", "data", "end"}
<1>1. Head(q) \in Message /\ Tail(q) \in Seq(Message)
  BY HeadTailProperties
<1> QED  BY <1>1 DEF Message

\* The download as the FILE_HEADER handler leaves it when it has made out the
\* header, and when it has opened the file.
Announced(d, m, prev) ==
  [d EXCEPT !.due = @ \ {m.file}, !.orig = @ \ prev, !.cur = m.file, !.size = Size[m.file]]
Opened(d, m, prev, copy) ==
  [Announced(d, m, prev) EXCEPT !.copy = copy, !.done = m.start, !.index = @ + 1]

LEMMA AnnouncedFields ==
  ASSUME NEW d \in Download, NEW m, m.file \in File, NEW prev
  PROVE  LET a == Announced(d, m, prev)
         IN  /\ a \in Download /\ a.phase = d.phase /\ a.orig = d.orig \ prev
             /\ a.due = d.due \ {m.file} /\ a.cur = m.file /\ a.size = Size[m.file]
             /\ a.index = d.index /\ a.total = d.total /\ a.error = d.error /\ a.hashers = d.hashers
             /\ a.auto = d.auto
<1> DEFINE a1 == [d EXCEPT !.due = @ \ {m.file}, !.orig = @ \ prev]
           a2 == [a1 EXCEPT !.cur = m.file, !.size = Size[m.file]]
<1>1. /\ a1 \in Download /\ a1.phase = d.phase /\ a1.orig = d.orig \ prev /\ a1.auto = d.auto
      /\ a1.due = d.due \ {m.file} /\ a1.index = d.index /\ a1.total = d.total
      /\ a1.error = d.error /\ a1.hashers = d.hashers
  BY Zenon DEF Download
<1>3. Announced(d, m, prev) = a2  BY DEF Announced
<1> HIDE DEF a1
<1>2. Size[m.file] \in Int
  <2> DEFINE f == m.file
  <2> HIDE DEF f
  <2>1. Size[f] \in Nat  BY ConstantTypes DEF f
  <2> QED  BY <2>1 DEF f
<1>4. /\ a2 \in Download /\ a2.phase = a1.phase /\ a2.orig = a1.orig /\ a2.auto = a1.auto
      /\ a2.due = a1.due /\ a2.cur = m.file /\ a2.size = Size[m.file]
      /\ a2.index = a1.index /\ a2.total = a1.total /\ a2.error = a1.error /\ a2.hashers = a1.hashers
  BY <1>1, <1>2, Zenon DEF Download
<1> HIDE DEF a2
<1> QED  BY <1>1, <1>3, <1>4

LEMMA OpenedFields ==
  ASSUME NEW d \in Download, NEW m, m.file \in File, m.start \in Nat, NEW prev, NEW copy \in Nat
  PROVE  LET a == Opened(d, m, prev, copy)
         IN  /\ a \in Download /\ a.phase = d.phase /\ a.orig = d.orig \ prev
             /\ a.due = d.due \ {m.file} /\ a.cur = m.file /\ a.size = Size[m.file]
             /\ a.copy = copy /\ a.done = m.start
             /\ a.index = d.index + 1 /\ a.total = d.total /\ a.hashers = d.hashers
<1> DEFINE b == Announced(d, m, prev)
<1>1. /\ b \in Download /\ b.phase = d.phase /\ b.orig = d.orig \ prev
      /\ b.due = d.due \ {m.file} /\ b.cur = m.file /\ b.size = Size[m.file]
      /\ b.index = d.index /\ b.total = d.total /\ b.hashers = d.hashers
  BY AnnouncedFields
<1> HIDE DEF b
<1>2. d.index + 1 \in Nat /\ m.start \in Int  BY DEF Download
<1> DEFINE c == [b EXCEPT !.copy = copy, !.done = m.start]
           e == [c EXCEPT !.index = @ + 1]
<1>3. Opened(d, m, prev, copy) = e
  BY DEF Opened, b
<1>4. /\ c \in Download /\ c.phase = b.phase /\ c.orig = b.orig /\ c.due = b.due /\ c.cur = b.cur
      /\ c.size = b.size /\ c.copy = copy /\ c.done = m.start /\ c.index = b.index
      /\ c.total = b.total /\ c.hashers = b.hashers
  BY <1>1, <1>2, Zenon DEF Download
<1> HIDE DEF c
<1>5. c.index = d.index  BY <1>1, <1>4
<1>6. /\ e \in Download /\ e.phase = c.phase /\ e.orig = c.orig /\ e.due = c.due /\ e.cur = c.cur
      /\ e.size = c.size /\ e.copy = c.copy /\ e.done = c.done /\ e.index = d.index + 1
      /\ e.total = c.total /\ e.hashers = c.hashers
  BY <1>2, <1>4, <1>5, Zenon DEF Download
<1> HIDE DEF e
<1> QED  BY <1>1, <1>3, <1>4, <1>6

\* The three things that may become of a header.
LEMMA HeaderCases ==
  ASSUME TypeOK, FileHeaderReceived
  PROVE  LET m      == Head(wire)
             copies == local[m.file]
             append == m.start > 0 /\ copies # <<>> /\ Len(copies[1]) = m.start
             prev   == IF OwnName THEN {dl.cur} ELSE {}
             copy   == IF append THEN 1 ELSE Len(copies) + 1
         IN  /\ m.file \in File /\ m.start \in Nat
             /\ \/ /\ m.file \notin dl.due
                   /\ dl' = AbortSession([dl EXCEPT !.cur = m.file], TRUE, FALSE)
                   /\ Hangup /\ UNCHANGED local
                \/ /\ m.file \in dl.due
                   /\ dl' = AbortSession(Announced(dl, m, prev), TRUE, FALSE)
                   /\ Hangup /\ UNCHANGED local
                \/ /\ m.file \in dl.due
                   /\ dl' = Opened(dl, m, prev, copy)
                   /\ local' = IF append THEN local ELSE [local EXCEPT ![m.file] = Append(@, <<>>)]
                   /\ wire' = Tail(wire)
                   /\ UNCHANGED <<ul, up, out>>
<1>1. Head(wire).file \in File /\ Head(wire).start \in Nat
  BY HeadMessage DEF FileHeaderReceived, Received, TypeOK
<1> QED  BY <1>1 DEF FileHeaderReceived, Announced, Opened

LEMMA EndType == [kind |-> "end"] \in Message
BY DEF Message

LEMMA HangupType ==
  ASSUME Hangup
  PROVE  /\ ul' \in GoodUpload
         /\ up' \in Seq(List) /\ out' \in Seq(Message) /\ wire' \in Seq(Message)
BY NoUploadType DEF Hangup

LEMMA CloseType ==
  ASSUME Close, wire \in Seq(Message)
  PROVE  /\ ul' \in GoodUpload
         /\ up' \in Seq(List) /\ out' \in Seq(Message) /\ wire' \in Seq(Message)
BY NoUploadType, EndType, AppendProperties DEF Close

LEMMA BecomesType ==
  ASSUME TypeInv, NEW r, r.u \in GoodUpload, r.msgs \in Seq(Message), Becomes(r)
  PROVE  /\ ul' \in GoodUpload
         /\ up' \in Seq(List) /\ out' \in Seq(Message) /\ wire' \in Seq(Message)
<1>1. CASE r.fails
  BY <1>1, CloseType DEF Becomes, TypeInv, TypeOK
<1>2. CASE ~r.fails
  <2>1. out \o r.msgs \in Seq(Message)  BY ConcatProperties DEF TypeInv, TypeOK
  <2> QED  BY <1>2, <2>1 DEF Becomes, TypeInv, TypeOK
<1> QED  BY <1>1, <1>2

\* The handler of TRANSFER_COMMAND_MD5_RECV_READ_DONE: the upload with the
\* list's offsets, and what becomes of it.
WithOffsets(u, list) ==
  [u EXCEPT !.hashers = Tail(@), !.at = None,
     !.files = [f \in File |-> IF list[f] = Absent THEN @[f] ELSE Verified(f, list[f])]]

ListVerifiedMakes(begin) ==
  LET u == WithOffsets(ul, Head(ul.hashers))
      r == IF begin THEN BeginTransfer(u) ELSE Uploading(u, <<>>, FALSE)
      s == DoUpload(r.u)
  IN  [s EXCEPT !.msgs = r.msgs \o @, !.fails = @ \/ r.fails]

LEMMA VerifiedType ==
  ASSUME NEW f \in File, NEW copy \in Copy
  PROVE  Verified(f, copy) \in Nat /\ Verified(f, copy) <= Size[f]
<1>1. Len(copy) \in Nat /\ Size[f] \in Nat  BY ConstantTypes, LenProperties DEF Copy
<1> QED  BY <1>1 DEF Verified

LEMMA HeadList ==
  ASSUME NEW q \in Seq(List), q # <<>>
  PROVE  /\ Head(q) \in List /\ Tail(q) \in Seq(List)
         /\ \A f \in File : Head(q)[f] # Absent => Head(q)[f] \in Copy
<1>1. Head(q) \in List /\ Tail(q) \in Seq(List)
  BY HeadTailProperties
<1> QED  BY <1>1 DEF List, Absent

LEMMA WithOffsetsType ==
  ASSUME NEW u \in GoodUpload, u.hashers # <<>>
  PROVE  LET w == WithOffsets(u, Head(u.hashers))
         IN  /\ w \in GoodUpload /\ w.hashers = Tail(u.hashers)
             /\ w.cur = u.cur /\ w.pos = u.pos /\ w.version = u.version
             /\ w.waiting = u.waiting /\ w.alive = u.alive
             /\ \A f \in File : w.files[f] = IF Head(u.hashers)[f] = Absent THEN u.files[f]
                                             ELSE Verified(f, Head(u.hashers)[f])
<1> DEFINE list == Head(u.hashers)
           fs   == [f \in File |-> IF list[f] = Absent THEN u.files[f] ELSE Verified(f, list[f])]
           w    == [u EXCEPT !.hashers = Tail(@), !.at = None, !.files = fs]
<1>1. u \in Upload /\ u.hashers \in Seq(List) /\ u.files \in [File -> Int]
  BY DEF GoodUpload, Upload, Offset
<1>2. /\ Tail(u.hashers) \in Seq(List)
      /\ \A f \in File : list[f] # Absent => list[f] \in Copy
  BY <1>1, HeadList
<1>3. fs \in Offset /\ \A f \in File : fs[f] <= Size[f]
  <2> HIDE DEF list
  <2>1. ASSUME NEW f \in File
        PROVE  fs[f] \in Int /\ fs[f] <= Size[f]
    BY <1>1, <1>2, VerifiedType DEF GoodUpload
  <2> QED  BY <2>1 DEF Offset
<1>4. WithOffsets(u, Head(u.hashers)) = w  BY DEF WithOffsets
<1>5. \A f \in File : fs[f] = IF list[f] = Absent THEN u.files[f] ELSE Verified(f, list[f])
  OBVIOUS
<1> HIDE DEF fs, list
<1>6. /\ w \in Upload /\ w.hashers = Tail(u.hashers) /\ w.files = fs
      /\ w.cur = u.cur /\ w.pos = u.pos /\ w.version = u.version
      /\ w.waiting = u.waiting /\ w.alive = u.alive
  BY <1>1, <1>2, <1>3, Zenon DEF Upload
<1> HIDE DEF w
<1>7. w \in GoodUpload
  BY <1>3, <1>6 DEF GoodUpload
<1> QED  BY <1>4, <1>5, <1>6, <1>7 DEF list

LEMMA ListVerifiedType ==
  ASSUME ShareType, ul \in GoodUpload, ul.hashers # <<>>, NEW begin \in BOOLEAN
  PROVE  /\ ListVerifiedMakes(begin).u \in GoodUpload
         /\ ListVerifiedMakes(begin).msgs \in Seq(Message)
         /\ ListVerifiedMakes(begin).fails \in BOOLEAN
<1> DEFINE u == WithOffsets(ul, Head(ul.hashers))
           r == IF begin THEN BeginTransfer(u) ELSE Uploading(u, <<>>, FALSE)
           s == DoUpload(r.u)
           t == [s EXCEPT !.msgs = r.msgs \o @, !.fails = @ \/ r.fails]
<1>1. u \in GoodUpload  BY WithOffsetsType
<1>2. r.u \in GoodUpload /\ r.msgs \in Seq(Message) /\ r.fails \in BOOLEAN
  <2> HIDE DEF u
  <2>1. CASE begin  BY <1>1, <2>1, BeginTransferType
  <2>2. CASE ~begin  BY <1>1, <2>2 DEF Uploading
  <2> QED  BY <2>1, <2>2
<1> HIDE DEF r
<1>3. s.u \in GoodUpload /\ s.msgs \in Seq(Message) /\ s.fails \in BOOLEAN
  BY <1>2, DoUploadType
<1>4. s = [u |-> s.u, msgs |-> s.msgs, fails |-> s.fails]
  <2> DEFINE x == r.u
  <2> HIDE DEF x
  <2>1. DoUpload(x) = [u |-> DoUpload(x).u, msgs |-> DoUpload(x).msgs, fails |-> DoUpload(x).fails]
    BY DEF DoUpload, NextFile, Uploading
  <2> QED  BY <2>1 DEF x
<1> HIDE DEF s
<1>5. t.u = s.u /\ t.msgs = r.msgs \o s.msgs /\ t.fails = (s.fails \/ r.fails)
  BY <1>4
<1>6. ListVerifiedMakes(begin) = t  BY DEF ListVerifiedMakes, r, s
<1>7. r.msgs \o s.msgs \in Seq(Message)  BY <1>2, <1>3, ConcatProperties
<1> QED  BY <1>2, <1>3, <1>5, <1>6, <1>7

LEMMA CopiesType ==
  ASSUME NEW l \in [File -> Seq(Copy)], NEW f \in File
  PROVE  /\ l[f] \in Seq(Copy) /\ Len(l[f]) \in Nat
         /\ \A i \in 1..Len(l[f]) : l[f][i] \in Copy
         /\ l[f] # <<>> => 1 \in 1..Len(l[f]) /\ l[f][1] \in Copy
         /\ [l EXCEPT ![f] = Append(@, <<>>)] \in [File -> Seq(Copy)]
         /\ [l EXCEPT ![f] = <<>>] \in [File -> Seq(Copy)]
<1>1. l[f] \in Seq(Copy)  OBVIOUS
<1>2. Len(l[f]) \in Nat /\ \A i \in 1..Len(l[f]) : l[f][i] \in Copy
  BY <1>1, LenProperties, ElementOfSeq
<1>3. l[f] # <<>> => Len(l[f]) # 0
  BY <1>1, EmptySeq
<1>4. Append(l[f], <<>>) \in Seq(Copy)
  BY <1>1, AbsentType, AppendProperties
<1> QED  BY <1>1, <1>2, <1>3, <1>4

\* One chunk more in one copy of one file.
LEMMA ChunkType ==
  ASSUME NEW l \in [File -> Seq(Copy)], NEW f, NEW c, NEW v \in Version
  PROVE  /\ [l EXCEPT ![f][c] = Append(@, v)] \in [File -> Seq(Copy)]
         /\ \A g \in File \ {f} : [l EXCEPT ![f][c] = Append(@, v)][g] = l[g]
         /\ f \in File /\ c \in 1..Len(l[f]) =>
              /\ Len([l EXCEPT ![f][c] = Append(@, v)][f]) = Len(l[f])
              /\ \A i \in 1..Len(l[f]) :
                   [l EXCEPT ![f][c] = Append(@, v)][f][i] =
                     IF i = c THEN Append(l[f][c], v) ELSE l[f][i]
<1> DEFINE k == [l EXCEPT ![f][c] = Append(@, v)]
           q == [l[f] EXCEPT ![c] = Append(@, v)]
<1>1. k = [l EXCEPT ![f] = q]  OBVIOUS
<1>2. CASE f \in File
  <2>1. l[f] \in Seq(Copy)  BY <1>2
  <2>2. Len(l[f]) \in Nat /\ l[f] \in [1..Len(l[f]) -> Copy]
    BY <2>1, LenProperties
  <2>3. \A i \in 1..Len(l[f]) : Append(l[f][i], v) \in Copy
    <3> TAKE i \in 1..Len(l[f])
    <3>1. l[f][i] \in Copy  BY <2>2
    <3> QED  BY <3>1, AppendProperties DEF Copy
  <2>4. q \in [1..Len(l[f]) -> Copy]
    BY <2>2, <2>3
  <2>5. q \in Seq(Copy) /\ Len(q) = Len(l[f])
    <3> HIDE DEF q
    <3> QED  BY <2>2, <2>4
  <2>6. \A i \in 1..Len(l[f]) : q[i] = IF i = c THEN Append(l[f][c], v) ELSE l[f][i]
    BY <2>2
  <2> HIDE DEF q
  <2> QED  BY <1>1, <1>2, <2>5, <2>6
<1>3. CASE f \notin File
  <2> HIDE DEF q
  <2> QED  BY <1>1, <1>3
<1> QED  BY <1>2, <1>3

\* A list says of a file that it is not asked for, that there is nothing of it,
\* or what is there.
LEMMA ListMade ==
  ASSUME local \in [File -> Seq(Copy)], dl \in Download, NEW h \in dl.hashers, ListSent(h)
  PROVE  \E list : /\ list \in List
                   /\ \A f \in File : list[f] \in {Absent, <<>>} \/ (local[f] # <<>> /\ list[f] = local[f][1])
                   /\ up' = IF dl.phase = "connected" /\ ul.alive THEN Append(up, list) ELSE up
<1> DEFINE files(n) == IF h.cut THEN {f \in h.files : f <= n} ELSE h.files
           there(n, unread) == {f \in files(n) : local[f] # <<>> /\ ~(h.cut /\ f \in unread)}
           list(n, unread) == [f \in File |-> IF f \in there(n, unread) THEN local[f][1]
                                              ELSE IF f \in files(n) THEN <<>> ELSE Absent]
<1>1. PICK n \in File \cup {None}, unread \in SUBSET h.files :
        up' = IF dl.phase = "connected" /\ ul.alive THEN Append(up, list(n, unread)) ELSE up
  BY DEF ListSent
<1>2. \A f \in there(n, unread) : local[f] # <<>>
  OBVIOUS
<1> DEFINE F == files(n)
           E == there(n, unread)
           L == [f \in File |-> IF f \in E THEN local[f][1] ELSE IF f \in F THEN <<>> ELSE Absent]
<1>3. up' = IF dl.phase = "connected" /\ ul.alive THEN Append(up, L) ELSE up
  BY <1>1
<1> HIDE DEF F, E
<1>4. \A f \in File : L[f] \in {Absent, <<>>} \/ (local[f] # <<>> /\ L[f] = local[f][1])
  BY <1>2 DEF E
<1>5. \A f \in File : L[f] \in Copy \cup {<<-1>>}
  BY <1>4, AbsentType, CopiesType DEF Absent
<1>6. L \in List
  BY <1>5 DEF List
<1> QED  BY <1>3, <1>4, <1>6

LEMMA TypeInit == Init => TypeInv
<1> SUFFICES ASSUME Init PROVE TypeInv  OBVIOUS
<1>1. share \in [File -> {0} \cup Version]
  BY ConstantTypes DEF Init
<1>2. local \in [File -> Seq(Copy)]
  <2>1. \A c \in InitialCopy : c \in Copy  BY CopyAssumption DEF Copy
  <2>2. \A c \in InitialCopy : <<c>> \in Seq(Copy)  BY <2>1
  <2> DEFINE S == {<<>>} \cup {<<c>> : c \in InitialCopy}
  <2>3. S \subseteq Seq(Copy)
    <3>1. <<>> \in Seq(Copy)  OBVIOUS
    <3> QED  BY <2>2, <3>1, Zenon
  <2>4. local \in [File -> S]  BY DEF Init
  <2> HIDE DEF S
  <2> QED  BY <2>3, <2>4
<1>3. dl \in Download
  <2>1. Cardinality(File) \in Nat /\ -1 \in Int  BY FileSubsets
  <2> QED  BY <2>1, Zenon DEF Init, Download
<1>4. ul \in GoodUpload  BY NoUploadType DEF Init
<1>5. trouble \in 0..MaxTrouble  BY BoundAssumption DEF Init
<1>6. up \in Seq(List) /\ out \in Seq(Message) /\ wire \in Seq(Message)  BY DEF Init
<1> QED  BY <1>1, <1>2, <1>3, <1>4, <1>5, <1>6 DEF TypeInv, TypeOK, GoodUpload

LEMMA TypeStep == TypeInv /\ [Next]_vars => TypeInv'
<1> SUFFICES ASSUME TypeInv, [Next]_vars PROVE TypeInv'
  OBVIOUS
<1>0. /\ ShareType /\ share \in [File -> {0} \cup Version]
      /\ local \in [File -> Seq(Copy)] /\ dl \in Download
      /\ ul \in Upload /\ ul \in GoodUpload
      /\ up \in Seq(List) /\ out \in Seq(Message) /\ wire \in Seq(Message)
      /\ trouble \in 0..MaxTrouble
  BY DEF TypeInv, TypeOK, ShareType
<1> DEFINE Ends == /\ ul' \in GoodUpload /\ up' \in Seq(List)
                   /\ out' \in Seq(Message) /\ wire' \in Seq(Message)
           Rest == /\ share' \in [File -> {0} \cup Version] /\ local' \in [File -> Seq(Copy)]
                   /\ dl' \in Download /\ trouble' \in 0..MaxTrouble
<1> SUFFICES Ends /\ Rest  BY DEF TypeInv, TypeOK, GoodUpload
<1>1. CASE Connect
  <2>1. ul' \in GoodUpload
    <3> DEFINE w == [NoUpload EXCEPT !.alive = TRUE, !.waiting = TRUE]
    <3>1. NoUpload \in Upload  BY NoUploadType DEF GoodUpload
    <3>2. w \in Upload /\ w.cur = NoUpload.cur /\ w.pos = NoUpload.pos /\ w.files = NoUpload.files
      BY <3>1, Zenon DEF Upload
    <3> HIDE DEF w
    <3>3. w \in GoodUpload  BY <3>2, NoUploadType DEF GoodUpload
    <3> QED  BY <1>1, <3>3 DEF Connect, w
  <2>2. dl' \in Download
    <3> DEFINE hs == dl.hashers \cup {[files |-> dl.due, cut |-> FALSE]}
    <3>1. hs \in SUBSET [files : SUBSET File, cut : BOOLEAN]
      <4>1. dl.hashers \in SUBSET [files : SUBSET File, cut : BOOLEAN] /\ dl.due \in SUBSET File
        BY <1>0, Zenon DEF Download
      <4>2. [files |-> dl.due, cut |-> FALSE] \in [files : SUBSET File, cut : BOOLEAN]
        BY <4>1
      <4> QED  BY <4>1, <4>2, Zenon
    <3>2. dl' = [dl EXCEPT !.phase = "connected", !.hashers = hs]  BY <1>1 DEF Connect
    <3> HIDE DEF hs
    <3> QED  BY <1>0, <3>1, <3>2, Zenon DEF Download
  <2> QED  BY <1>0, <1>1, <2>1, <2>2 DEF Connect
<1>2. ASSUME NEW h \in dl.hashers, ListSent(h)
      PROVE  Ends /\ Rest
  <2>1. dl' \in Download  BY <1>0, <1>2 DEF ListSent, Download
  <2>2. up' \in Seq(List)
    <3>1. PICK list : /\ list \in List
                      /\ \A f \in File : list[f] \in {Absent, <<>>} \/ (local[f] # <<>> /\ list[f] = local[f][1])
                      /\ up' = IF dl.phase = "connected" /\ ul.alive THEN Append(up, list) ELSE up
      BY <1>0, <1>2, ListMade
    <3>2. Append(up, list) \in Seq(List)  BY <1>0, <3>1, AppendProperties
    <3> QED  BY <1>0, <3>1, <3>2
  <2> QED  BY <1>0, <1>2, <2>1, <2>2 DEF ListSent
<1>3. CASE FileHeaderReceived
  <2> DEFINE m      == Head(wire)
             copies == local[m.file]
             append == m.start > 0 /\ copies # <<>> /\ Len(copies[1]) = m.start
             prev   == IF OwnName THEN {dl.cur} ELSE {}
             copy   == IF append THEN 1 ELSE Len(copies) + 1
  <2>0. TypeOK  BY DEF TypeInv
  <2>1. m.file \in File /\ m.start \in Nat  BY <1>3, <2>0, HeaderCases
  <2>2. UNCHANGED <<share, trouble>>  BY <1>3 DEF FileHeaderReceived
  <2>3. ASSUME dl' = AbortSession([dl EXCEPT !.cur = m.file], TRUE, FALSE), Hangup, UNCHANGED local
        PROVE  Ends /\ Rest
    <3>1. [dl EXCEPT !.cur = m.file] \in Download  BY <1>0, <2>1, Zenon DEF Download
    <3> QED  BY <1>0, <2>2, <2>3, <3>1, AbortType, HangupType
  <2>4. ASSUME dl' = AbortSession(Announced(dl, m, prev), TRUE, FALSE), Hangup, UNCHANGED local
        PROVE  Ends /\ Rest
    <3>1. Announced(dl, m, prev) \in Download  BY <1>0, <2>1, AnnouncedFields
    <3> QED  BY <1>0, <2>2, <2>4, <3>1, AbortType, HangupType
  <2>5. ASSUME dl' = Opened(dl, m, prev, copy), wire' = Tail(wire), UNCHANGED <<ul, up, out>>,
               local' = IF append THEN local ELSE [local EXCEPT ![m.file] = Append(@, <<>>)]
        PROVE  Ends /\ Rest
    <3>1. copy \in Nat  BY <1>0, <2>1, CopiesType
    <3>2. dl' \in Download  BY <1>0, <2>1, <2>5, <3>1, OpenedFields
    <3>3. local' \in [File -> Seq(Copy)]  BY <1>0, <2>1, <2>5, CopiesType
    <3>4. wire' \in Seq(Message)  BY <1>0, <1>3, <2>5, HeadMessage DEF FileHeaderReceived, Received
    <3> QED  BY <1>0, <2>2, <2>5, <3>2, <3>3, <3>4
  <2> QED  BY <1>3, <2>0, <2>3, <2>4, <2>5, HeaderCases
<1>4. CASE FileDataReceived
  <2>1. Head(wire).version \in Version /\ Tail(wire) \in Seq(Message)
    BY <1>0, <1>4, HeadMessage DEF FileDataReceived, Received
  <2>2. local' \in [File -> Seq(Copy)]  BY <1>0, <1>4, <2>1, ChunkType DEF FileDataReceived
  <2>3. dl' \in Download
    <3>1. dl.done + 1 \in Int  BY <1>0 DEF Download
    <3> DEFINE o == IF dl.done + 1 >= dl.size /\ OwnName THEN dl.orig \ {dl.cur} ELSE dl.orig
    <3>2. o \in SUBSET File  BY <1>0 DEF Download
    <3>3. dl' = [dl EXCEPT !.done = @ + 1, !.auto = TRUE, !.orig = o]
      BY <1>4 DEF FileDataReceived
    <3> HIDE DEF o
    <3> QED  BY <1>0, <3>1, <3>2, <3>3, Zenon DEF Download
  <2> QED  BY <1>0, <1>4, <2>1, <2>2, <2>3 DEF FileDataReceived
<1>5. CASE Disconnected
  <2> DEFINE error == dl.done < dl.size \/ dl.index < dl.total
             d     == [dl EXCEPT !.hashers = {[h EXCEPT !.cut = TRUE] : h \in dl.hashers}]
             e     == [d EXCEPT !.phase = "idle", !.auto = FALSE, !.error = @ \/ error]
  <2>1. d \in Download
    <3> DEFINE hs == {[h EXCEPT !.cut = TRUE] : h \in dl.hashers}
    <3>1. hs \in SUBSET [files : SUBSET File, cut : BOOLEAN]
      <4>1. dl.hashers \in SUBSET [files : SUBSET File, cut : BOOLEAN]
        BY <1>0, Zenon DEF Download
      <4>2. \A h \in [files : SUBSET File, cut : BOOLEAN] :
              [h EXCEPT !.cut = TRUE] \in [files : SUBSET File, cut : BOOLEAN]
        OBVIOUS
      <4>3. ASSUME NEW x \in hs PROVE x \in [files : SUBSET File, cut : BOOLEAN]
        <5>1. PICK h \in dl.hashers : x = [h EXCEPT !.cut = TRUE]  OBVIOUS
        <5>2. h \in [files : SUBSET File, cut : BOOLEAN]  BY <4>1, Zenon
        <5> QED  BY <4>2, <5>1, <5>2, Zenon
      <4> HIDE DEF hs
      <4> QED  BY <4>3, Zenon
    <3> HIDE DEF hs
    <3> QED  BY <1>0, <3>1, Zenon DEF Download, hs
  <2>2. dl' = IF error /\ d.auto THEN RestartSession(d) ELSE e
    BY <1>5 DEF Disconnected
  <2> HIDE DEF d
  <2>3. e \in Download
    <3>1. error \in BOOLEAN  OBVIOUS
    <3> HIDE DEF error
    <3> QED  BY <2>1, <3>1, Zenon DEF Download
  <2>4. dl' \in Download
    <3> HIDE DEF e, error
    <3> QED  BY <2>1, <2>2, <2>3, RestartType
  <2> QED  BY <1>0, <1>5, <2>4, HangupType DEF Disconnected
<1>6. CASE FileListReceived
  <2>1. CASE Close
    BY <1>0, <1>6, <2>1, CloseType DEF FileListReceived
  <2>2. CASE ~Close
    <3>1. /\ ul' = [ul EXCEPT !.hashers = Append(@, Head(up))]
          /\ up' = Tail(up) /\ UNCHANGED <<out, wire>> /\ up # <<>>
      BY <1>6, <2>2 DEF FileListReceived
    <3>2. Head(up) \in List /\ Tail(up) \in Seq(List)  BY <1>0, <3>1, HeadList
    <3>3. Append(ul.hashers, Head(up)) \in Seq(List)
      <4>1. ul.hashers \in Seq(List)  BY <1>0 DEF Upload
      <4> QED  BY <3>2, <4>1, AppendProperties
    <3>4. ul' \in Upload /\ ul'.cur = ul.cur /\ ul'.pos = ul.pos /\ ul'.files = ul.files
      BY <1>0, <3>1, <3>3, Zenon DEF Upload
    <3>5. ul' \in GoodUpload  BY <1>0, <3>4 DEF GoodUpload
    <3> QED  BY <1>0, <1>6, <3>1, <3>2, <3>5 DEF FileListReceived
  <2> QED  BY <2>1, <2>2
<1>7. CASE ListVerified
  <2>1. PICK begin \in {FALSE, ul.waiting} : Becomes(ListVerifiedMakes(begin))
    BY <1>7 DEF ListVerified, ListVerifiedMakes, WithOffsets
  <2>2. begin \in BOOLEAN  BY <1>0 DEF Upload
  <2>3. Ends
    BY <1>0, <1>7, <2>1, <2>2, ListVerifiedType, BecomesType DEF ListVerified
  <2> QED  BY <1>0, <1>7, <2>3 DEF ListVerified
<1>8. CASE Drained
  <2> DEFINE u == [ul EXCEPT !.drained = @ - 1]
  <2>1. u \in GoodUpload
    <3>1. ul.drained - 1 \in Nat  BY <1>0, <1>8 DEF Drained, Upload
    <3>2. u \in Upload /\ u.cur = ul.cur /\ u.pos = ul.pos /\ u.files = ul.files
      BY <1>0, <3>1, Zenon DEF Upload
    <3> HIDE DEF u
    <3> QED  BY <1>0, <3>2 DEF GoodUpload
  <2>2. Close \/ Becomes(DoUpload(u))  BY <1>8 DEF Drained
  <2> HIDE DEF u
  <2>3. Ends
    BY <1>0, <2>1, <2>2, CloseType, BecomesType, DoUploadType
  <2> QED  BY <1>0, <1>8, <2>3 DEF Drained
<1>9. CASE Begin
  <2>1. Ends
    BY <1>0, <1>9, BeginTransferType, BecomesType DEF Begin
  <2> QED  BY <1>0, <1>9, <2>1 DEF Begin
<1>10. CASE Reaped
  BY <1>0, <1>10, CloseType DEF Reaped
<1>11. ASSUME NEW k \in 0..Len(out), Transmit(k)
       PROVE  Ends /\ Rest
  <2>1. Len(out) \in Nat  BY <1>0, LenProperties
  <2>2. SubSeq(out, 1, k) \in Seq(Message) /\ SubSeq(out, k + 1, Len(out)) \in Seq(Message)
    BY <1>0, <2>1, SubSeqProperties
  <2>3. wire' \in Seq(Message)  BY <1>0, <1>11, <2>2, ConcatProperties DEF Transmit
  <2>4. ul' \in GoodUpload
    <3> DEFINE u == [ul EXCEPT !.drained = @ + ul.asked, !.asked = 0]
    <3>1. ul.drained + ul.asked \in Nat /\ 0 \in Nat  BY <1>0 DEF Upload
    <3>2. u \in Upload /\ u.cur = ul.cur /\ u.pos = ul.pos /\ u.files = ul.files
      BY <1>0, <3>1, Zenon DEF Upload
    <3>3. ul' \in {u, ul}  BY <1>11 DEF Transmit
    <3> HIDE DEF u
    <3>4. u \in GoodUpload  BY <1>0, <3>2 DEF GoodUpload
    <3> QED  BY <1>0, <3>3, <3>4
  <2> QED  BY <1>0, <1>11, <2>2, <2>3, <2>4 DEF Transmit
<1>12. ASSUME NEW input, Trouble(input)
       PROVE  trouble' \in 0..MaxTrouble
  BY <1>0, <1>12, BoundAssumption DEF Trouble
<1>13. CASE RequeueTransfer
  <2>1. ul' \in Upload /\ ul'.cur = ul.cur /\ ul'.pos = ul.pos /\ ul'.files = ul.files
    BY <1>0, <1>13 DEF RequeueTransfer, Upload
  <2>2. ul' \in GoodUpload  BY <1>0, <2>1 DEF GoodUpload
  <2> QED  BY <1>0, <1>12, <1>13, <2>2 DEF RequeueTransfer
<1>14. CASE UploadAborted
  BY <1>0, <1>12, <1>14, CloseType DEF UploadAborted
<1>15. CASE ConnectionLost
  <2>1. PICK k \in 0..Len(wire) : wire' = Append(SubSeq(wire, 1, k), [kind |-> "end"])
    BY <1>15 DEF ConnectionLost
  <2>2. Len(wire) \in Nat  BY <1>0, LenProperties
  <2>3. SubSeq(wire, 1, k) \in Seq(Message)  BY <1>0, <2>2, SubSeqProperties
  <2>4. wire' \in Seq(Message)  BY <2>1, <2>3, EndType, AppendProperties
  <2> QED  BY <1>0, <1>12, <1>15, <2>4, NoUploadType DEF ConnectionLost
<1>16. CASE Halt
  BY <1>0, <1>12, <1>16, AbortType, HangupType DEF Halt
<1>17. CASE Resume
  BY <1>0, <1>12, <1>17, RestartType, HangupType DEF Resume
<1>18. CASE ProgramRestarted
  <2>1. dl' \in Download
    <3>1. -1 \in Int /\ 0 \in Nat /\ 1 \in Nat /\ dl.orig \in SUBSET File  BY <1>0 DEF Download
    <3> QED  BY <1>18, <3>1, Zenon DEF ProgramRestarted, Download
  <2> QED  BY <1>0, <1>12, <1>18, <2>1, HangupType DEF ProgramRestarted
<1>19. ASSUME NEW f \in File, ShareRemoved(f)
       PROVE  Ends /\ Rest
  BY <1>0, <1>12, <1>19 DEF ShareRemoved
<1>20. ASSUME NEW f \in File, NEW v \in Version, ShareReplaced(f, v)
       PROVE  Ends /\ Rest
  BY <1>0, <1>12, <1>20 DEF ShareReplaced
<1>21. ASSUME NEW f \in File, LocalRemoved(f)
       PROVE  Ends /\ Rest
  <2>1. local' \in [File -> Seq(Copy)]  BY <1>0, <1>21, CopiesType DEF LocalRemoved
  <2> QED  BY <1>0, <1>12, <1>21, <2>1 DEF LocalRemoved
<1>22. CASE UNCHANGED vars
  BY <1>0, <1>22 DEF vars
<1> HIDE DEF Ends, Rest
<1> QED
  BY <1>1, <1>2, <1>3, <1>4, <1>5, <1>6, <1>7, <1>8, <1>9, <1>10, <1>11, <1>13, <1>14, <1>15,
     <1>16, <1>17, <1>18, <1>19, <1>20, <1>21, <1>22
     DEF Next, DownloadStep, UploadStep, Network, Interruption

\* TypeOK holds throughout: in particular an upload (DoUpload) never reads past
\* the end of its file.
THEOREM TypeCorrect == Spec => []TypeOK
<1>1. TypeInv => TypeOK  BY DEF TypeInv
<1> QED  BY <1>1, TypeInit, TypeStep, PTL DEF Spec

-----------------------------------------------------------------------------
(***************************************************************************)
(* What is on its way to the downloader.  The file under way counts as a   *)
(* header that says where it has got to, so that a message received makes  *)
(* the stream shorter and leaves it a stream.                              *)
(***************************************************************************)
Mark(f, n) == [kind |-> "header", file |-> f, start |-> n]
Lead(cur, done) == IF cur = None THEN <<>> ELSE <<Mark(cur, done)>>
Incoming(cur, done, w, o) == (Lead(cur, done) \o w) \o o

\* Between (i) and (k) there is nothing but data of the file announced at (i).
Segment(T, i, k) ==
  i < k /\ T[i].kind = "header" /\ \A j \in (i + 1)..(k - 1) : T[j].kind = "data"
Reach(T, i, k) == T[i].start + (k - i - 1)

\* Data belongs to a header, the end comes last, no file is sent past its end,
\* and the next one is announced when it has got there.
Orderly(T) ==
  /\ Len(T) > 0 => T[1].kind # "data"
  /\ \A i \in 1..Len(T) : T[i].kind = "end" => i = Len(T)
  /\ \A i \in 1..Len(T), k \in 1..(Len(T) + 1) :
       Segment(T, i, k) =>
         /\ Reach(T, i, k) <= Size[T[i].file]
         /\ k <= Len(T) /\ T[k].kind = "header" => Reach(T, i, k) = Size[T[i].file]

\* What (m) announces goes on from what is there, if that is of version (v).
Continues(m, v, have) ==
  m.start > 0 => Len(have[m.file]) = m.start /\ \A n \in 1..m.start : have[m.file][n] = v

\* A header that will be taken: those of files due, and the file under way.
Awaited(T, i, due, cur) == T[i].file \in due \/ (i = 1 /\ T[i].file = cur)

\* Of a file that is awaited all chunks, there and to come, are of one version.
Faithful(T, due, cur, have) ==
  \A i \in 1..Len(T), k \in 1..(Len(T) + 1) :
    Segment(T, i, k) /\ Awaited(T, i, due, cur) =>
      \E v \in Version : /\ Continues(T[i], v, have)
                         /\ \A j \in (i + 1)..(k - 1) : T[j].version = v

Stream(T, due, cur, have) ==
  /\ T \in Seq(Message) /\ Orderly(T) /\ Faithful(T, due, cur, have)
  /\ cur # None => Len(T) > 0

NoEnd(T) == \A i \in 1..Len(T) : T[i].kind # "end"

\* The last file of the stream has been sent to its end.
Closed(T) ==
  Len(T) > 0 => \E l \in 1..Len(T) : Segment(T, l, Len(T) + 1)
                                     /\ Reach(T, l, Len(T) + 1) = Size[T[l].file]

\* The last file of the stream is the one the upload has open, at its position.
Open(T, u, due, cur, have) ==
  \E l \in 1..Len(T) :
    /\ Segment(T, l, Len(T) + 1)
    /\ T[l].file = u.cur /\ u.pos = Reach(T, l, Len(T) + 1)
    /\ \A j \in (l + 1)..Len(T) : T[j].version = u.version
    /\ Awaited(T, l, due, cur) => Continues(T[l], u.version, have)

Tip(T, u, due, cur, have) ==
  IF u.cur # None /\ u.version # 0 THEN Open(T, u, due, cur, have) ELSE Closed(T)

\* Where an upload is to start is where the download has got to.
Offsets(u, due, have, shr) ==
  \A f \in due : u.files[f] > 0 =>
    /\ Len(have[f]) = u.files[f]
    /\ shr[f] # 0 => \A n \in 1..u.files[f] : have[f][n] = shr[f]

LEMMA MessageAt ==
  ASSUME NEW T \in Seq(Message), NEW i \in 1..Len(T)
  PROVE  /\ T[i].kind \in {"header", "data", "end"}
         /\ T[i].kind = "header" => T[i].file \in File /\ T[i].start \in Nat /\ Size[T[i].file] \in Nat
         /\ T[i].kind = "data" => T[i].version \in Version
<1>1. T[i] \in Message  BY ElementOfSeq
<1>2. T[i].kind \in {"header", "data", "end"}  BY <1>1 DEF Message
<1>3. T[i].kind = "data" => T[i].version \in Version  BY <1>1 DEF Message
<1>4. T[i].kind = "header" => T[i].file \in File /\ T[i].start \in Nat  BY <1>1 DEF Message
<1> QED  BY <1>2, <1>3, <1>4, ConstantTypes

\* The connection breaks: the stream is cut and ended.
LEMMA StreamCut ==
  ASSUME NEW T, NEW due, NEW cur, NEW have, Stream(T, due, cur, have), NoEnd(T),
         NEW n \in 0..Len(T), NEW R \in Seq(Message), Len(R) = n + 1,
         \A i \in 1..n : R[i] = T[i], R[n + 1].kind = "end"
  PROVE  Stream(R, due, cur, have)
<1>0. T \in Seq(Message) /\ Len(T) \in Nat /\ n \in Nat  BY LenProperties DEF Stream
<1>1. ASSUME NEW i \in 1..Len(R), NEW k \in 1..(Len(R) + 1), Segment(R, i, k)
      PROVE  /\ i \in 1..Len(T) /\ k \in 1..(Len(T) + 1) /\ k <= n + 1
             /\ i <= n /\ Segment(T, i, k) /\ R[i] = T[i]
             /\ \A j \in (i + 1)..(k - 1) : R[j] = T[j]
             /\ k <= Len(R) /\ R[k].kind = "header" => k <= Len(T) /\ R[k] = T[k]
  <2>1. i <= n  BY <1>0, <1>1 DEF Segment
  <2>2. k <= n + 1
    <3> SUFFICES ASSUME k = n + 2 PROVE FALSE  BY <1>0
    <3>1. n + 1 \in (i + 1)..(k - 1)  BY <1>0, <2>1
    <3> QED  BY <1>1, <3>1 DEF Segment
  <2>3. \A j \in (i + 1)..(k - 1) : j \in 1..n  BY <1>0, <2>2
  <2>4. \A j \in (i + 1)..(k - 1) : R[j] = T[j]  BY <2>3
  <2>5. i \in 1..n /\ R[i] = T[i]  BY <1>0, <2>1
  <2>6. i \in 1..Len(T) /\ k \in 1..(Len(T) + 1)  BY <1>0, <2>1, <2>2
  <2>7. Segment(T, i, k)
    <3>1. i < k /\ R[i].kind = "header" /\ \A j \in (i + 1)..(k - 1) : R[j].kind = "data"
      BY Zenon, <1>1 DEF Segment
    <3>2. \A j \in (i + 1)..(k - 1) : T[j].kind = "data"  BY Zenon, <2>4, <3>1
    <3> QED  BY Zenon, <2>5, <3>1, <3>2 DEF Segment
  <2>8. ASSUME k <= Len(R), R[k].kind = "header" PROVE k <= Len(T) /\ R[k] = T[k]
    <3>1. k # n + 1  BY <2>8
    <3>2. k \in 1..n  BY <1>0, <2>2, <3>1
    <3> QED  BY <1>0, <3>2
  <2> QED  BY <2>1, <2>2, <2>4, <2>5, <2>6, <2>7, <2>8
<1>2. Orderly(R)
  <2>1. R[1].kind # "data"  BY <1>0 DEF Stream, Orderly
  <2>2. \A i \in 1..Len(R) : R[i].kind = "end" => i = Len(R)  BY <1>0 DEF NoEnd
  <2>3. ASSUME NEW i \in 1..Len(R), NEW k \in 1..(Len(R) + 1), Segment(R, i, k)
        PROVE  /\ Reach(R, i, k) <= Size[R[i].file]
               /\ k <= Len(R) /\ R[k].kind = "header" => Reach(R, i, k) = Size[R[i].file]
    BY SMTT(40), <1>1, <2>3 DEF Stream, Orderly, Reach
  <2> QED  BY <2>1, <2>2, <2>3 DEF Orderly
<1>3. Faithful(R, due, cur, have)
  <2> SUFFICES ASSUME NEW i \in 1..Len(R), NEW k \in 1..(Len(R) + 1), Segment(R, i, k), Awaited(R, i, due, cur)
               PROVE  \E v \in Version : /\ Continues(R[i], v, have)
                                         /\ \A j \in (i + 1)..(k - 1) : R[j].version = v
    BY DEF Faithful
  <2>1. PICK v \in Version : /\ Continues(T[i], v, have)
                             /\ \A j \in (i + 1)..(k - 1) : T[j].version = v
    BY <1>1 DEF Stream, Faithful, Awaited
  <2> QED  BY <1>1, <2>1
<1> QED  BY <1>0, <1>2, <1>3 DEF Stream

\* Headers are sent when the last file is: each but the last is of a file that
\* is there already.
LEMMA StreamHeaders ==
  ASSUME NEW T, NEW due, NEW cur, NEW have, Stream(T, due, cur, have), NoEnd(T), Closed(T),
         NEW n \in Nat, NEW R \in Seq(Message), Len(R) = Len(T) + n,
         \A i \in 1..Len(T) : R[i] = T[i],
         \A i \in (Len(T) + 1)..Len(R) :
           /\ R[i].kind = "header" /\ R[i].start <= Size[R[i].file]
           /\ i < Len(R) => R[i].start = Size[R[i].file]
           /\ R[i].file \in due => \E v \in Version : Continues(R[i], v, have)
  PROVE  Stream(R, due, cur, have) /\ NoEnd(R)
<1>0. T \in Seq(Message) /\ Len(T) \in Nat /\ Len(R) \in Nat  BY LenProperties DEF Stream
<1>1. NoEnd(R)  BY <1>0 DEF NoEnd
<1>2. ASSUME NEW i \in 1..Len(R), NEW k \in 1..(Len(R) + 1), Segment(R, i, k), i <= Len(T)
      PROVE  /\ i \in 1..Len(T) /\ k \in 1..(Len(T) + 1) /\ Segment(T, i, k)
             /\ R[i] = T[i] /\ \A j \in (i + 1)..(k - 1) : R[j] = T[j]
  <2>1. k <= Len(T) + 1
    <3> SUFFICES ASSUME k > Len(T) + 1 PROVE FALSE  BY <1>0
    <3>1. Len(T) + 1 \in (i + 1)..(k - 1) /\ Len(T) + 1 \in (Len(T) + 1)..Len(R)  BY <1>0, <1>2
    <3>2. R[Len(T) + 1].kind = "header"  BY <3>1
    <3> QED  BY <1>2, <3>1, <3>2 DEF Segment
  <2>2. \A j \in (i + 1)..(k - 1) : j \in 1..Len(T)  BY <1>0, <1>2, <2>1
  <2> QED  BY <1>0, <1>2, <2>1, <2>2 DEF Segment
<1>3. ASSUME NEW i \in 1..Len(R), NEW k \in 1..(Len(R) + 1), Segment(R, i, k), i > Len(T)
      PROVE  k = i + 1
  <2> SUFFICES ASSUME k > i + 1 PROVE FALSE  BY <1>0, <1>3 DEF Segment
  <2>1. i + 1 \in (i + 1)..(k - 1) /\ i + 1 \in (Len(T) + 1)..Len(R)  BY <1>0, <1>3
  <2>2. R[i + 1].kind = "header"  BY <2>1
  <2> QED  BY <1>3, <2>1, <2>2 DEF Segment
<1>4. Orderly(R)
  <2>1. Len(R) > 0 => R[1].kind # "data"
    <3>1. CASE Len(T) > 0  BY <1>0, <3>1 DEF Stream, Orderly
    <3>2. CASE Len(T) = 0
      <4>1. Len(R) > 0 => 1 \in (Len(T) + 1)..Len(R)  BY <1>0, <3>2
      <4> QED  BY <4>1
    <3> QED  BY <1>0, <3>1, <3>2
  <2>2. ASSUME NEW i \in 1..Len(R), NEW k \in 1..(Len(R) + 1), Segment(R, i, k)
        PROVE  /\ Reach(R, i, k) <= Size[R[i].file]
               /\ k <= Len(R) /\ R[k].kind = "header" => Reach(R, i, k) = Size[R[i].file]
    <3>1. CASE i <= Len(T)
      <4>1. /\ i \in 1..Len(T) /\ k \in 1..(Len(T) + 1) /\ Segment(T, i, k) /\ R[i] = T[i]
            /\ Reach(R, i, k) = Reach(T, i, k)
        BY <1>2, <2>2, <3>1 DEF Reach
      <4>2. k <= Len(T) => R[k] = T[k]  BY <4>1
      <4>3. Reach(T, i, k) <= Size[T[i].file]  BY <4>1 DEF Stream, Orderly
      <4>4. k <= Len(T) /\ T[k].kind = "header" => Reach(T, i, k) = Size[T[i].file]
        BY <4>1 DEF Stream, Orderly
      <4>5. k = Len(T) + 1 => Reach(T, i, k) = Size[T[i].file]
        <5> SUFFICES ASSUME k = Len(T) + 1 PROVE Reach(T, i, k) = Size[T[i].file]  OBVIOUS
        <5>1. PICK l \in 1..Len(T) : Segment(T, l, Len(T) + 1)
                                     /\ Reach(T, l, Len(T) + 1) = Size[T[l].file]
          BY <1>0, <4>1 DEF Closed
        <5>2. ~(i < l)
          <6> SUFFICES ASSUME i < l PROVE FALSE  OBVIOUS
          <6>1. l \in (i + 1)..(k - 1)  BY <1>0, <4>1
          <6> QED  BY <4>1, <5>1, <6>1 DEF Segment
        <5>3. ~(l < i)
          <6> SUFFICES ASSUME l < i PROVE FALSE  OBVIOUS
          <6>1. i \in (l + 1)..(Len(T) + 1 - 1)  BY <1>0, <4>1
          <6> QED  BY <4>1, <5>1, <6>1 DEF Segment
        <5>4. i = l  BY <4>1, <5>2, <5>3
        <5> QED  BY <5>1, <5>4
      <4> QED  BY <1>0, <4>1, <4>2, <4>3, <4>4, <4>5
    <3>2. CASE i > Len(T)
      <4>1. k = i + 1 /\ i \in (Len(T) + 1)..Len(R)  BY <1>0, <1>3, <2>2, <3>2
      <4>2. R[i].kind = "header" /\ R[i].start \in Nat  BY <4>1, MessageAt
      <4>3. Reach(R, i, k) = R[i].start  BY <4>1, <4>2 DEF Reach
      <4>4. R[i].start <= Size[R[i].file] /\ (i < Len(R) => R[i].start = Size[R[i].file])  BY <4>1
      <4> QED  BY <1>0, <4>1, <4>3, <4>4
    <3> QED  BY <1>0, <3>1, <3>2
  <2> QED  BY <1>1, <2>1, <2>2 DEF Orderly, NoEnd
<1>5. Faithful(R, due, cur, have)
  <2> SUFFICES ASSUME NEW i \in 1..Len(R), NEW k \in 1..(Len(R) + 1), Segment(R, i, k), Awaited(R, i, due, cur)
               PROVE  \E v \in Version : /\ Continues(R[i], v, have)
                                         /\ \A j \in (i + 1)..(k - 1) : R[j].version = v
    BY DEF Faithful
  <2>1. CASE i <= Len(T)
    <3>1. PICK v \in Version : /\ Continues(T[i], v, have)
                               /\ \A j \in (i + 1)..(k - 1) : T[j].version = v
      BY <1>2, <2>1 DEF Stream, Faithful, Awaited
    <3> QED  BY <1>2, <2>1, <3>1
  <2>2. CASE i > Len(T)
    <3>1. k = i + 1 /\ i \in (Len(T) + 1)..Len(R)  BY <1>0, <1>3, <2>2
    <3>2. R[i].file \in due
      <4> SUFFICES ASSUME i = 1, R[i].file = cur PROVE FALSE  BY DEF Awaited
      <4>1. Len(T) = 0  BY <1>0, <2>2
      <4>2. R[i].file \in File  BY <3>1, MessageAt
      <4> QED  BY <4>1, <4>2, ConstantTypes DEF Stream
    <3>3. PICK v \in Version : Continues(R[i], v, have)  BY <3>1, <3>2
    <3> QED  BY <3>1, <3>3
  <2> QED  BY <1>0, <2>1, <2>2
<1> QED  BY <1>0, <1>1, <1>4, <1>5 DEF Stream

\* A place of the stream belongs to one file only.
LEMMA OneSegment ==
  ASSUME NEW T, NEW i \in Nat, NEW l \in Nat, NEW k \in Nat, Segment(T, i, k), Segment(T, l, k)
  PROVE  i = l
<1>1. i < k /\ l < k  BY DEF Segment
<1>2. ASSUME i < l PROVE FALSE
  <2>1. l \in (i + 1)..(k - 1)  BY <1>1, <1>2
  <2> QED  BY <2>1 DEF Segment
<1>3. ASSUME l < i PROVE FALSE
  <2>1. i \in (l + 1)..(k - 1)  BY <1>1, <1>3
  <2> QED  BY <2>1 DEF Segment
<1> QED  BY <1>2, <1>3

\* A chunk is sent of the file that is open.
LEMMA StreamData ==
  ASSUME NEW T, NEW due, NEW cur, NEW have, Stream(T, due, cur, have), NoEnd(T),
         NEW u, Open(T, u, due, cur, have), u.version \in Version, u.pos < Size[u.cur],
         NEW w, w.cur = u.cur, w.version = u.version, w.pos = u.pos + 1,
         NEW R \in Seq(Message), Len(R) = Len(T) + 1,
         \A i \in 1..Len(T) : R[i] = T[i], R[Len(T) + 1] = Data(u.version)
  PROVE  Stream(R, due, cur, have) /\ NoEnd(R) /\ Open(R, w, due, cur, have)
<1> DEFINE e == Len(T) + 1
<1>0. T \in Seq(Message) /\ Len(T) \in Nat /\ Len(R) \in Nat /\ e \in Nat  BY LenProperties DEF Stream
<1>a. R[e].kind = "data" /\ R[e].version = u.version  BY DEF Data
<1>1. PICK l \in 1..Len(T) : /\ Segment(T, l, e) /\ T[l].file = u.cur /\ u.pos = Reach(T, l, e)
                             /\ \A j \in (l + 1)..Len(T) : T[j].version = u.version
                             /\ Awaited(T, l, due, cur) => Continues(T[l], u.version, have)
  BY DEF Open
<1> HIDE DEF e
<1>b. e = Len(T) + 1  BY DEF e
<1>2. NoEnd(R)
  <2>1. \A i \in 1..Len(R) : i = e \/ i \in 1..Len(T)  BY <1>0, <1>b
  <2> QED  BY <1>a, <2>1 DEF NoEnd
<1>3. ASSUME NEW i \in 1..Len(R), NEW k \in 1..(Len(R) + 1), Segment(R, i, k)
      PROVE  /\ i \in 1..Len(T) /\ R[i] = T[i]
             /\ k <= e => /\ k \in 1..(Len(T) + 1) /\ Segment(T, i, k) /\ \A j \in (i + 1)..(k - 1) : R[j] = T[j]
             /\ k > e => k = e + 1 /\ i = l
  <2>1. i \in 1..Len(T) /\ R[i] = T[i]
    <3>1. i # e  BY <1>a, <1>3 DEF Segment
    <3>2. i \in 1..Len(T)  BY <1>0, <1>b, <3>1
    <3> QED  BY <3>2
  <2>2. ASSUME k <= e
        PROVE  k \in 1..(Len(T) + 1) /\ Segment(T, i, k) /\ \A j \in (i + 1)..(k - 1) : R[j] = T[j]
    <3>1. \A j \in (i + 1)..(k - 1) : j \in 1..Len(T)  BY <1>0, <1>b, <2>1, <2>2
    <3> QED  BY <1>0, <1>b, <1>3, <2>1, <2>2, <3>1 DEF Segment
  <2>3. ASSUME k > e
        PROVE  k = e + 1 /\ i = l
    <3>1. k = e + 1  BY <1>0, <1>b, <2>3
    <3>2. \A j \in (i + 1)..(e - 1) : j \in 1..Len(T) /\ j \in (i + 1)..(k - 1)  BY <1>0, <1>b, <2>1, <3>1
    <3>3. Segment(T, i, e)  BY <1>0, <1>b, <1>3, <2>1, <3>2 DEF Segment
    <3> QED  BY <1>0, <1>1, <2>1, <3>1, <3>3, OneSegment
  <2> QED  BY <2>1, <2>2, <2>3
<1>4. /\ T[l].kind = "header" /\ T[l].file \in File /\ T[l].start \in Nat /\ Size[T[l].file] \in Nat
      /\ l \in 1..Len(R) /\ R[l] = T[l]
  BY <1>0, <1>1, MessageAt DEF Segment
<1>5. Reach(R, l, e + 1) = u.pos + 1 /\ u.pos + 1 <= Size[u.cur]
  <2>1. Reach(R, l, e + 1) = Reach(T, l, e) + 1 /\ Reach(T, l, e) \in Int  BY <1>0, <1>4 DEF Reach
  <2> QED  BY <1>1, <1>4, <2>1
<1>6. Orderly(R)
  <2>1. R[1].kind # "data"  BY <1>0, <1>1 DEF Stream, Orderly
  <2>2. ASSUME NEW i \in 1..Len(R), NEW k \in 1..(Len(R) + 1), Segment(R, i, k)
        PROVE  /\ Reach(R, i, k) <= Size[R[i].file]
               /\ k <= Len(R) /\ R[k].kind = "header" => Reach(R, i, k) = Size[R[i].file]
    <3>1. CASE k > e
      BY <1>0, <1>1, <1>3, <1>4, <1>5, <1>b, <2>2, <3>1
    <3>2. CASE k <= e
      <4>1. i \in 1..Len(T) /\ k \in 1..(Len(T) + 1) /\ Segment(T, i, k) /\ R[i] = T[i]
        BY <1>3, <2>2, <3>2
      <4>2. Reach(R, i, k) = Reach(T, i, k)  BY <4>1 DEF Reach
      <4>3. Reach(T, i, k) <= Size[T[i].file]  BY <4>1 DEF Stream, Orderly
      <4>4. k <= Len(T) /\ T[k].kind = "header" => Reach(T, i, k) = Size[T[i].file]
        BY <4>1 DEF Stream, Orderly
      <4>5. k <= Len(T) => R[k] = T[k]  BY <4>1
      <4>6. k = e => R[k].kind # "header"  BY <1>a
      <4>7. ASSUME k <= Len(R), R[k].kind = "header" PROVE Reach(T, i, k) = Size[T[i].file]
        <5>1. k # e  BY <4>6, <4>7
        <5>2. k <= Len(T)  BY <1>0, <1>b, <3>2, <4>1, <5>1
        <5> QED  BY <4>4, <4>5, <4>7, <5>2
      <4> QED  BY <4>1, <4>2, <4>3, <4>7
    <3> QED  BY <1>0, <3>1, <3>2
  <2> QED  BY <1>2, <2>1, <2>2 DEF Orderly, NoEnd
<1>7. \A j \in (l + 1)..e : R[j].version = u.version
  <2> TAKE j \in (l + 1)..e
  <2>1. CASE j = e  BY <1>a, <2>1
  <2>2. CASE j # e
    <3>1. j \in (l + 1)..Len(T) /\ j \in 1..Len(T)  BY <1>0, <1>b, <2>2
    <3> QED  BY <1>1, <3>1
  <2> QED  BY <2>1, <2>2
<1>8. Faithful(R, due, cur, have)
  <2> SUFFICES ASSUME NEW i \in 1..Len(R), NEW k \in 1..(Len(R) + 1), Segment(R, i, k), Awaited(R, i, due, cur)
               PROVE  \E v \in Version : /\ Continues(R[i], v, have)
                                         /\ \A j \in (i + 1)..(k - 1) : R[j].version = v
    BY DEF Faithful
  <2>1. CASE k <= e
    <3>1. PICK v \in Version : /\ Continues(T[i], v, have)
                               /\ \A j \in (i + 1)..(k - 1) : T[j].version = v
      BY <1>3, <2>1 DEF Stream, Faithful, Awaited
    <3> QED  BY ZenonT(60), <1>3, <2>1, <3>1
  <2>2. CASE k > e
    <3>1. i = l /\ k = e + 1 /\ Awaited(T, l, due, cur)  BY <1>3, <1>4, <2>2 DEF Awaited
    <3>2. Continues(R[l], u.version, have)  BY <1>1, <1>4, <3>1
    <3>3. (k - 1) = e  BY <1>0, <3>1
    <3> QED  BY <1>7, <3>1, <3>2, <3>3
  <2> QED  BY <1>0, <2>1, <2>2
<1>9. Open(R, w, due, cur, have)
  <2>1. Segment(R, l, e + 1)
    <3>1. \A j \in (l + 1)..(e + 1 - 1) : R[j].kind = "data"
      <4> TAKE j \in (l + 1)..(e + 1 - 1)
      <4>1. j = e \/ (j \in (l + 1)..(e - 1) /\ j \in 1..Len(T))  BY <1>0, <1>b
      <4> QED  BY <1>1, <1>a, <4>1 DEF Segment
    <3> QED  BY <1>0, <1>b, <1>4, <3>1 DEF Segment
  <2>2. Awaited(R, l, due, cur) => Continues(R[l], w.version, have)
    BY <1>1, <1>4 DEF Awaited
  <2>3. Len(R) = e  BY <1>b
  <2> QED  BY <1>1, <1>4, <1>5, <1>7, <2>1, <2>2, <2>3 DEF Open
<1> QED  BY <1>0, <1>2, <1>6, <1>8, <1>9 DEF Stream

\* A stream (R) is the stream (T) without its first (n) messages.
Shifted(R, T, n, i, k) ==
  /\ i + n \in 1..Len(T) /\ k + n \in 1..(Len(T) + 1) /\ R[i] = T[i + n]
  /\ Segment(R, i, k) <=> Segment(T, i + n, k + n)
  /\ Segment(R, i, k) => Reach(R, i, k) = Reach(T, i + n, k + n)
  /\ \A j \in (i + 1)..(k - 1) : j + n \in (i + n + 1)..(k + n - 1) /\ R[j] = T[j + n]
  /\ i < k /\ k <= Len(R) => R[k] = T[k + n]

LEMMA SegmentShift ==
  ASSUME NEW T \in Seq(Message), NEW n \in Nat, NEW R \in Seq(Message), Len(R) + n = Len(T),
         NEW i \in 1..Len(R), NEW k \in 1..(Len(R) + 1),
         \A j \in i..Len(R) : R[j] = T[j + n]
  PROVE  Shifted(R, T, n, i, k)
<1>0. Len(T) \in Nat /\ Len(R) \in Nat  BY LenProperties
<1>1. i + n \in 1..Len(T) /\ k + n \in 1..(Len(T) + 1)  BY <1>0
<1>2. R[i] = T[i + n]  BY <1>0
<1>3. \A j \in (i + 1)..(k - 1) : j + n \in (i + n + 1)..(k + n - 1) /\ R[j] = T[j + n]
  BY <1>0
<1>4. \A j \in (i + n + 1)..(k + n - 1) : j - n \in (i + 1)..(k - 1) /\ R[j - n] = T[j]
  <2> TAKE j \in (i + n + 1)..(k + n - 1)
  <2>1. j - n \in (i + 1)..(k - 1) /\ j - n + n = j  BY SMTT(40), <1>0
  <2> QED  BY <1>3, <2>1
<1>5. Segment(R, i, k) <=> Segment(T, i + n, k + n)
  <2>1. i < k <=> i + n < k + n  BY <1>0
  <2>2. (\A j \in (i + 1)..(k - 1) : R[j].kind = "data")
          <=> (\A j \in (i + n + 1)..(k + n - 1) : T[j].kind = "data")
    <3>1. ASSUME \A j \in (i + 1)..(k - 1) : R[j].kind = "data", NEW j \in (i + n + 1)..(k + n - 1)
          PROVE  T[j].kind = "data"
      BY <1>4, <3>1
    <3>2. ASSUME \A j \in (i + n + 1)..(k + n - 1) : T[j].kind = "data", NEW j \in (i + 1)..(k - 1)
          PROVE  R[j].kind = "data"
      BY <1>3, <3>2
    <3> QED  BY <3>1, <3>2
  <2> DEFINE DataIn(S, a, b) == \A j \in (a + 1)..(b - 1) : S[j].kind = "data"
  <2>3. Segment(R, i, k) <=> (i < k /\ R[i].kind = "header" /\ DataIn(R, i, k))
    BY Zenon DEF Segment
  <2>4. Segment(T, i + n, k + n) <=> (i + n < k + n /\ T[i + n].kind = "header" /\ DataIn(T, i + n, k + n))
    BY Zenon DEF Segment
  <2>5. DataIn(R, i, k) <=> DataIn(T, i + n, k + n)  BY <2>2
  <2> HIDE DEF DataIn
  <2> QED  BY Zenon, <1>2, <2>1, <2>3, <2>4, <2>5
<1>6. ASSUME Segment(R, i, k) PROVE Reach(R, i, k) = Reach(T, i + n, k + n)
  <2>1. R[i].start \in Nat  BY <1>6, MessageAt DEF Segment
  <2>2. (k - i - 1) = (k + n - (i + n) - 1)  BY <1>0
  <2> QED  BY <1>2, <2>1, <2>2 DEF Reach
<1>7. i < k /\ k <= Len(R) => R[k] = T[k + n]  BY <1>0
<1> QED  BY <1>1, <1>2, <1>3, <1>5, <1>6, <1>7 DEF Shifted

\* What is left of (T) when a message has been taken, and the download is at
\* (due, cur, hv), is as good a stream.
Carried(T, due, cur, have, R, less, now, hv) ==
  /\ Stream(R, less, now, hv)
  /\ NoEnd(T) => NoEnd(R)
  /\ \A u : Tip(T, u, due, cur, have) => Tip(R, u, less, now, hv)
  /\ \A u, shr : Offsets(u, due, have, shr) => Offsets(u, less, hv, shr)

\* A header is taken: the file it announces takes the place of the one under
\* way, if there was one (n = 1).
LEMMA StreamTake ==
  ASSUME NEW T, NEW due, NEW cur, NEW have, Stream(T, due, cur, have),
         NEW n \in {0, 1}, n + 1 <= Len(T), T[n + 1].kind = "header",
         NEW f, f = T[n + 1].file, f \in due,
         NEW R \in Seq(Message), Len(R) + n = Len(T), \A i \in 1..Len(R) : R[i] = T[i + n],
         NEW hv, \A g \in due \ {f} : hv[g] = have[g],
         hv[f] = have[f] \/ T[n + 1].start = 0
  PROVE  Carried(T, due, cur, have, R, due \ {f}, f, hv)
<1>0. T \in Seq(Message) /\ Len(T) \in Nat /\ Len(R) \in Nat /\ n \in Nat /\ Len(R) > 0
  BY LenProperties DEF Stream
<1>1. ASSUME NEW i \in 1..Len(R), NEW k \in 1..(Len(R) + 1)
      PROVE  Shifted(R, T, n, i, k)
  <2>1. \A j \in i..Len(R) : R[j] = T[j + n]  BY <1>0
  <2> QED  BY <1>0, <2>1, SegmentShift
<1>2. R[1] = T[n + 1] /\ R[1].file = f  BY <1>0
\* What is awaited still was so before, and what it continues is the same.
<1>3. ASSUME NEW i \in 1..Len(R), Awaited(R, i, due \ {f}, f)
      PROVE  /\ Awaited(T, i + n, due, cur)
             /\ \A v : Continues(T[i + n], v, have) => Continues(R[i], v, hv)
  <2>0. R[i] = T[i + n]  BY <1>0
  <2>1. CASE i = 1
    <3>1. R[i].file = f /\ T[i + n].file = f /\ T[i + n] = T[n + 1]  BY <1>0, <1>2, <2>0, <2>1
    <3> QED  BY <2>0, <3>1 DEF Awaited, Continues
  <2>2. CASE i # 1
    <3>1. R[i].file \in due \ {f}  BY <1>3, <2>2 DEF Awaited
    <3> QED  BY <2>0, <3>1 DEF Awaited, Continues
  <2> QED  BY <2>1, <2>2
<1>4. Orderly(R)
  <2>1. \A i \in 1..Len(R) : R[i].kind = "end" => i = Len(R)
    <3> TAKE i \in 1..Len(R)
    <3>1. i + n \in 1..Len(T) /\ R[i] = T[i + n]  BY <1>0
    <3>2. T[i + n].kind = "end" => i + n = Len(T)  BY <3>1 DEF Stream, Orderly
    <3> QED  BY <1>0, <3>1, <3>2
  <2>2. ASSUME NEW i \in 1..Len(R), NEW k \in 1..(Len(R) + 1), Segment(R, i, k)
        PROVE  /\ Reach(R, i, k) <= Size[R[i].file]
               /\ k <= Len(R) /\ R[k].kind = "header" => Reach(R, i, k) = Size[R[i].file]
    <3>1. /\ Reach(T, i + n, k + n) <= Size[T[i + n].file]
          /\ k + n <= Len(T) /\ T[k + n].kind = "header" => Reach(T, i + n, k + n) = Size[T[i + n].file]
      BY <1>1, <2>2 DEF Stream, Orderly, Shifted
    <3>2. i < k  BY <2>2 DEF Segment
    <3>3. k <= Len(R) => k + n <= Len(T) /\ R[k] = T[k + n]  BY <1>0, <1>1, <3>2 DEF Shifted
    <3> QED  BY <1>1, <2>2, <3>1, <3>3 DEF Shifted
  <2> QED  BY <1>2, <2>1, <2>2 DEF Orderly
<1>5. Faithful(R, due \ {f}, f, hv)
  <2> SUFFICES ASSUME NEW i \in 1..Len(R), NEW k \in 1..(Len(R) + 1), Segment(R, i, k),
                      Awaited(R, i, due \ {f}, f)
               PROVE  \E v \in Version : /\ Continues(R[i], v, hv)
                                         /\ \A j \in (i + 1)..(k - 1) : R[j].version = v
    BY DEF Faithful
  <2> DEFINE p == i + n
             q == k + n
  <2>0. /\ p \in 1..Len(T) /\ q \in 1..(Len(T) + 1) /\ Segment(T, p, q)
        /\ \A j \in (i + 1)..(k - 1) : j + n \in (p + 1)..(q - 1) /\ R[j] = T[j + n]
    BY <1>1 DEF Shifted
  <2>2. Awaited(T, p, due, cur) /\ \A v : Continues(T[p], v, have) => Continues(R[i], v, hv)
    BY <1>3
  <2> HIDE DEF p, q
  <2>1. PICK v \in Version : /\ Continues(T[p], v, have)
                             /\ \A j \in (p + 1)..(q - 1) : T[j].version = v
    BY <2>0, <2>2 DEF Stream, Faithful
  <2>3. \A j \in (i + 1)..(k - 1) : R[j].version = v  BY <2>0, <2>1
  <2> QED  BY <2>1, <2>2, <2>3
<1>6. NoEnd(T) => NoEnd(R)
  <2>1. \A i \in 1..Len(R) : i + n \in 1..Len(T) /\ R[i] = T[i + n]  BY <1>0
  <2> QED  BY <2>1 DEF NoEnd
\* The last header is not the one that makes room.
<1>7. ASSUME NEW l \in 1..Len(T), Segment(T, l, Len(T) + 1)
      PROVE  l - n \in 1..Len(R) /\ R[l - n] = T[l] /\ Segment(R, l - n, Len(R) + 1)
  <2>1. ~(n = 1 /\ l = 1)
    <3> SUFFICES ASSUME n = 1, l = 1 PROVE FALSE  OBVIOUS
    <3>1. 2 \in (l + 1)..(Len(T) + 1 - 1)  BY <1>0
    <3> QED  BY <1>7, <3>1 DEF Segment
  <2> DEFINE m == l - n
  <2>2. m \in 1..Len(R) /\ m + n = l
    <3>1. CASE n = 0  BY <1>0, <3>1
    <3>2. CASE n = 1  BY <1>0, <2>1, <3>2
    <3> QED  BY <3>1, <3>2
  <2>3. Len(R) + 1 + n = Len(T) + 1 /\ Len(R) + 1 \in 1..(Len(R) + 1)  BY <1>0
  <2> HIDE DEF m
  <2>4. Shifted(R, T, n, m, Len(R) + 1)  BY <1>1, <2>2, <2>3
  <2>5. R[m] = T[l] /\ Segment(R, m, Len(R) + 1)  BY <1>7, <2>2, <2>3, <2>4 DEF Shifted
  <2> QED  BY <2>2, <2>5 DEF m
<1>8. ASSUME Closed(T) PROVE Closed(R)
  <2>1. PICK l \in 1..Len(T) : Segment(T, l, Len(T) + 1)
                               /\ Reach(T, l, Len(T) + 1) = Size[T[l].file]
    BY <1>0, <1>8 DEF Closed
  <2> DEFINE m == l - n
  <2>2. m \in 1..Len(R) /\ R[m] = T[l] /\ Segment(R, m, Len(R) + 1)  BY <1>7, <2>1
  <2>3. m + n = l /\ Len(R) + 1 + n = Len(T) + 1  BY <1>0
  <2>4. Reach(R, m, Len(R) + 1) = Reach(T, l, Len(T) + 1)
    <3> HIDE DEF m
    <3>1. Len(R) + 1 \in 1..(Len(R) + 1)  BY <1>0
    <3>2. Reach(R, m, Len(R) + 1) = Reach(T, m + n, Len(R) + 1 + n)  BY <1>1, <2>2, <3>1 DEF Shifted
    <3> QED  BY <2>3, <3>2
  <2> HIDE DEF m
  <2> QED  BY <2>1, <2>2, <2>4 DEF Closed
<1>9. ASSUME NEW u, Open(T, u, due, cur, have) PROVE Open(R, u, due \ {f}, f, hv)
  <2>1. PICK l \in 1..Len(T) : /\ Segment(T, l, Len(T) + 1)
                               /\ T[l].file = u.cur /\ u.pos = Reach(T, l, Len(T) + 1)
                               /\ \A j \in (l + 1)..Len(T) : T[j].version = u.version
                               /\ Awaited(T, l, due, cur) => Continues(T[l], u.version, have)
    BY <1>9 DEF Open
  <2> DEFINE m == l - n
  <2>2. m \in 1..Len(R) /\ R[m] = T[l] /\ Segment(R, m, Len(R) + 1)  BY <1>7, <2>1
  <2>3. m + n = l /\ Len(R) + 1 + n = Len(T) + 1  BY <1>0
  <2> HIDE DEF m
  <2>4. Reach(R, m, Len(R) + 1) = Reach(T, l, Len(T) + 1)
    <3>1. Len(R) + 1 \in 1..(Len(R) + 1)  BY <1>0
    <3>2. Reach(R, m, Len(R) + 1) = Reach(T, m + n, Len(R) + 1 + n)  BY <1>1, <2>2, <3>1 DEF Shifted
    <3> QED  BY <2>3, <3>2
  <2>5. \A j \in (m + 1)..Len(R) : R[j].version = u.version
    <3> TAKE j \in (m + 1)..Len(R)
    <3>1. j \in 1..Len(R) /\ j + n \in (l + 1)..Len(T)  BY <1>0, <2>2, <2>3
    <3> QED  BY <2>1, <3>1
  <2>6. Awaited(R, m, due \ {f}, f) => Continues(R[m], u.version, hv)
    BY <1>3, <2>1, <2>2, <2>3
  <2> QED  BY <2>1, <2>2, <2>4, <2>5, <2>6 DEF Open
<1>10. \A u, shr : Offsets(u, due, have, shr) => Offsets(u, due \ {f}, hv, shr)
  BY DEF Offsets
<1> QED  BY <1>0, <1>4, <1>5, <1>6, <1>8, <1>9, <1>10 DEF Carried, Stream, Tip

\* The stream when a chunk has been taken.
ChunkTaken(R, T, cur, done, m) ==
  /\ R \in Seq(Message) /\ Len(R) + 1 = Len(T) /\ \A i \in 2..Len(R) : R[i] = T[i + 1]
  /\ Len(T) >= 2 /\ T[2] = m /\ T[1] = Mark(cur, done) /\ R[1] = Mark(cur, done + 1)

\* A chunk is taken of the file under way.
LEMMA StreamChunk ==
  ASSUME NEW T, NEW due, NEW cur, NEW have, Stream(T, due, cur, have),
         T[2].kind = "data", cur \in File, cur \notin due,
         NEW done \in Nat, have[cur] \in Copy, Len(have[cur]) = done,
         NEW R, ChunkTaken(R, T, cur, done, T[2]),
         NEW hv, \A g \in due : hv[g] = have[g], hv[cur] = Append(have[cur], T[2].version)
  PROVE  Carried(T, due, cur, have, R, due, cur, hv) /\ done + 1 <= Size[cur]
<1>t. /\ R \in Seq(Message) /\ Len(R) + 1 = Len(T) /\ \A i \in 2..Len(R) : R[i] = T[i + 1]
      /\ Len(T) >= 2 /\ T[1] = Mark(cur, done) /\ R[1] = Mark(cur, done + 1)
  BY DEF ChunkTaken
<1> USE <1>t
<1>0. T \in Seq(Message) /\ Len(T) \in Nat /\ Len(R) \in Nat /\ Len(R) > 0 /\ 1 \in Nat
  BY LenProperties DEF Stream
<1>a. /\ T[1].kind = "header" /\ T[1].file = cur /\ T[1].start = done
      /\ R[1].kind = "header" /\ R[1].file = cur /\ R[1].start = done + 1
  BY DEF Mark
\* The place a segment of the shorter stream had in the longer one.
<1> DEFINE was(i) == IF i = 1 THEN 1 ELSE i + 1
<1>1. ASSUME NEW i \in 1..Len(R), NEW k \in 1..(Len(R) + 1)
      PROVE  /\ was(i) \in 1..Len(T) /\ k + 1 \in 1..(Len(T) + 1)
             /\ R[i].kind = T[was(i)].kind /\ R[i].file = T[was(i)].file
             /\ i # 1 => R[i] = T[was(i)]
             /\ Segment(R, i, k) => Segment(T, was(i), k + 1) /\ Reach(R, i, k) = Reach(T, was(i), k + 1)
             /\ Segment(R, i, k) => \A j \in (i + 1)..(k - 1) : R[j] = T[j + 1] /\ j + 1 \in (was(i) + 1)..(k + 1 - 1)
             /\ i < k /\ k <= Len(R) => R[k] = T[k + 1]
  <2>1. CASE i # 1
    <3>1. \A j \in i..Len(R) : R[j] = T[j + 1]  BY <1>0, <2>1
    <3>2. was(i) = i + 1  BY <2>1
    <3>3. /\ i + 1 \in 1..Len(T) /\ k + 1 \in 1..(Len(T) + 1)
          /\ Segment(R, i, k) => Segment(T, i + 1, k + 1) /\ Reach(R, i, k) = Reach(T, i + 1, k + 1)
          /\ \A j \in (i + 1)..(k - 1) : j + 1 \in (i + 1 + 1)..(k + 1 - 1) /\ R[j] = T[j + 1]
          /\ i < k /\ k <= Len(R) => R[k] = T[k + 1]
      <4>1. Shifted(R, T, 1, i, k)  BY <1>0, <3>1, SegmentShift
      <4> QED  BY <4>1 DEF Shifted
    <3>4. Segment(R, i, k) => i < k  BY DEF Segment
    <3>5. R[i] = T[i + 1]  BY <3>1
    <3> HIDE DEF was
    <3> QED  BY <3>2, <3>3, <3>4, <3>5
  <2>2. CASE i = 1
    <3>1. was(i) = 1  BY <2>2
    <3>2. 1 \in 1..Len(T) /\ k + 1 \in 1..(Len(T) + 1)  BY <1>0
    <3>3. i < k /\ k <= Len(R) => R[k] = T[k + 1]  BY <1>0, <2>2
    <3>4. \A j \in (i + 1)..(k - 1) : R[j] = T[j + 1] /\ j + 1 \in (1 + 1)..(k + 1 - 1)
      <4> TAKE j \in (i + 1)..(k - 1)
      <4>1. j \in 2..Len(R) /\ j + 1 \in (1 + 1)..(k + 1 - 1)  BY <1>0, <2>2
      <4> QED  BY <4>1
    <3>5. ASSUME Segment(R, i, k)
          PROVE  Segment(T, 1, k + 1) /\ Reach(R, i, k) = Reach(T, 1, k + 1)
      <4>1. i < k  BY <3>5 DEF Segment
      <4>2. ASSUME NEW j \in (1 + 1)..(k + 1 - 1) PROVE T[j].kind = "data"
        <5>1. CASE j = 2  BY <5>1
        <5>2. CASE j # 2
          <6> DEFINE x == j - 1
          <6>1. x \in (i + 1)..(k - 1) /\ x + 1 = j  BY <1>0, <2>2, <5>2
          <6> HIDE DEF x
          <6>2. R[x].kind = "data"  BY <3>5, <6>1 DEF Segment
          <6>3. R[x] = T[x + 1]  BY <3>4, <6>1
          <6> QED  BY <6>1, <6>2, <6>3
        <5> QED  BY <5>1, <5>2
      <4>3. Segment(T, 1, k + 1)  BY <1>0, <1>a, <4>2 DEF Segment
      <4>4. Reach(R, i, k) = done + 1 + (k - 1 - 1) /\ Reach(T, 1, k + 1) = done + (k + 1 - 1 - 1)
        BY <1>a, <2>2 DEF Reach
      <4> QED  BY <4>3, <4>4
    <3>6. R[i].kind = T[1].kind /\ R[i].file = T[1].file  BY <1>a, <2>2
    <3> HIDE DEF was
    <3> QED  BY <2>2, <3>1, <3>2, <3>3, <3>4, <3>5, <3>6
  <2> QED  BY <2>1, <2>2
<1>b. was(1) = 1 /\ \A i : i # 1 => was(i) = i + 1  OBVIOUS
<1> HIDE DEF was
<1>2. Orderly(R)
  <2>1. \A i \in 1..Len(R) : R[i].kind = "end" => i = Len(R)
    <3> TAKE i \in 1..Len(R)
    <3>1. was(i) \in 1..Len(T) /\ R[i].kind = T[was(i)].kind  BY <1>0, <1>1
    <3>2. T[was(i)].kind = "end" => was(i) = Len(T)  BY <3>1 DEF Stream, Orderly
    <3>3. i # 1 \/ R[i].kind # "end"  BY <1>a
    <3> QED  BY <1>0, <1>b, <3>1, <3>2, <3>3
  <2>2. ASSUME NEW i \in 1..Len(R), NEW k \in 1..(Len(R) + 1), Segment(R, i, k)
        PROVE  /\ Reach(R, i, k) <= Size[R[i].file]
               /\ k <= Len(R) /\ R[k].kind = "header" => Reach(R, i, k) = Size[R[i].file]
    <3> DEFINE p == was(i)
    <3>1. p \in 1..Len(T) /\ k + 1 \in 1..(Len(T) + 1) /\ Segment(T, p, k + 1)
          /\ Reach(R, i, k) = Reach(T, p, k + 1) /\ R[i].file = T[p].file
      BY <1>1, <2>2
    <3> HIDE DEF p
    <3>2. /\ Reach(T, p, k + 1) <= Size[T[p].file]
          /\ k + 1 <= Len(T) /\ T[k + 1].kind = "header" => Reach(T, p, k + 1) = Size[T[p].file]
      BY <3>1 DEF Stream, Orderly
    <3>3. i < k  BY <2>2 DEF Segment
    <3>4. k <= Len(R) => k + 1 <= Len(T) /\ R[k] = T[k + 1]  BY <1>0, <1>1, <3>3
    <3> QED  BY <3>1, <3>2, <3>4
  <2> QED  BY <1>a, <2>1, <2>2 DEF Orderly
\* A file whose chunks are all of version (v) still is so with one more of (v).
<1>3. ASSUME NEW i \in 1..Len(R), Awaited(R, i, due, cur)
      PROVE  /\ Awaited(T, was(i), due, cur)
             /\ \A v : Continues(T[was(i)], v, have) /\ (i = 1 => T[2].version = v) => Continues(R[i], v, hv)
  <2>0. R[i].file = T[was(i)].file /\ (i # 1 => R[i] = T[was(i)])  BY <1>0, <1>1
  <2>1. CASE i = 1
    <3>1. Awaited(T, was(i), due, cur)  BY <1>a, <1>b, <2>1 DEF Awaited
    <3>2. ASSUME NEW v, Continues(T[was(i)], v, have), T[2].version = v PROVE Continues(R[i], v, hv)
      <4>1. T[2].version \in Version
        <5>1. 2 \in 1..Len(T)  BY <1>0
        <5> QED  BY <1>0, <5>1, MessageAt
      <4>2. /\ Len(hv[cur]) = done + 1 /\ hv[cur][done + 1] = v
            /\ \A x \in 1..done : hv[cur][x] = have[cur][x]
        <5>1. have[cur] \in Seq({0} \cup Version) /\ T[2].version \in {0} \cup Version  BY <4>1 DEF Copy
        <5> QED  BY <3>2, <5>1, AppendProperties
      <4>3. done > 0 => \A x \in 1..done : have[cur][x] = v  BY <1>a, <1>b, <2>1, <3>2 DEF Continues
      <4>4. \A x \in 1..(done + 1) : hv[cur][x] = v
        <5> TAKE x \in 1..(done + 1)
        <5>1. x = done + 1 \/ (done > 0 /\ x \in 1..done)  OBVIOUS
        <5> QED  BY <4>2, <4>3, <5>1
      <4> QED  BY <1>a, <2>1, <4>2, <4>4 DEF Continues
    <3> QED  BY <2>1, <3>1, <3>2
  <2>2. CASE i # 1
    <3>1. R[i].file \in due  BY <1>3, <2>2 DEF Awaited
    <3> QED  BY <2>0, <2>2, <3>1 DEF Awaited, Continues
  <2> QED  BY <2>1, <2>2
<1>4. Faithful(R, due, cur, hv)
  <2> SUFFICES ASSUME NEW i \in 1..Len(R), NEW k \in 1..(Len(R) + 1), Segment(R, i, k), Awaited(R, i, due, cur)
               PROVE  \E v \in Version : /\ Continues(R[i], v, hv)
                                         /\ \A j \in (i + 1)..(k - 1) : R[j].version = v
    BY DEF Faithful
  <2> DEFINE p == was(i)
  <2>1. /\ p \in 1..Len(T) /\ k + 1 \in 1..(Len(T) + 1) /\ Segment(T, p, k + 1)
        /\ \A j \in (i + 1)..(k - 1) : R[j] = T[j + 1] /\ j + 1 \in (p + 1)..(k + 1 - 1)
    BY <1>1
  <2>2. Awaited(T, p, due, cur)  BY <1>3
  <2> DEFINE q == k + 1
  <2>6. q \in 1..(Len(T) + 1) /\ Segment(T, p, q)  BY <2>1
  <2> HIDE DEF p, q
  <2>7. PICK v \in Version : /\ Continues(T[p], v, have)
                             /\ \A j \in (p + 1)..(q - 1) : T[j].version = v
    BY <2>1, <2>2, <2>6 DEF Stream, Faithful
  <2>3. /\ Continues(T[p], v, have) /\ \A j \in (p + 1)..(k + 1 - 1) : T[j].version = v
    <3>1. k + 1 - 1 = q - 1  BY DEF q
    <3> QED  BY <2>7, <3>1, Zenon
  <2>4. i = 1 => T[2].version = v
    <3> SUFFICES ASSUME i = 1 PROVE T[2].version = v  OBVIOUS
    <3>1. p = 1 /\ k > 1  BY <1>b DEF Segment, p
    <3>2. 2 \in (p + 1)..(k + 1 - 1)  BY <3>1
    <3> QED  BY <2>3, <3>2
  <2>5. \A j \in (i + 1)..(k - 1) : R[j].version = v  BY <2>1, <2>3
  <2>8. Continues(R[i], v, hv)  BY <1>3, <2>3, <2>4 DEF p
  <2> QED  BY <2>5, <2>8
<1>5. done + 1 <= Size[cur]
  <2>1. Segment(T, 1, 3)
    <3>1. \A j \in (1 + 1)..(3 - 1) : j = 2  OBVIOUS
    <3> QED  BY <1>a, <3>1 DEF Segment
  <2>2. 1 \in 1..Len(T) /\ 3 \in 1..(Len(T) + 1)  BY <1>0
  <2>3. Reach(T, 1, 3) <= Size[T[1].file]  BY <2>1, <2>2 DEF Stream, Orderly
  <2> QED  BY <1>a, <2>3 DEF Reach
<1>6. NoEnd(T) => NoEnd(R)
  <2>1. \A i \in 1..Len(R) : was(i) \in 1..Len(T) /\ R[i].kind = T[was(i)].kind  BY <1>0, <1>1
  <2> QED  BY <2>1 DEF NoEnd
\* The last header stays the last.
<1>7. ASSUME NEW l \in 1..Len(T), Segment(T, l, Len(T) + 1)
      PROVE  \E m \in 1..Len(R) : was(m) = l /\ Segment(R, m, Len(R) + 1)
  <2>1. CASE l = 1
    <3>1. \A j \in (1 + 1)..(Len(R) + 1 - 1) : R[j].kind = "data"
      <4> TAKE j \in (1 + 1)..(Len(R) + 1 - 1)
      <4>1. j \in 2..Len(R) /\ j + 1 \in (l + 1)..(Len(T) + 1 - 1)  BY <1>0, <2>1
      <4> QED  BY <1>7, <4>1 DEF Segment
    <3>2. Segment(R, 1, Len(R) + 1) /\ 1 \in 1..Len(R)  BY <1>0, <1>a, <3>1 DEF Segment
    <3> QED  BY <1>b, <2>1, <3>2
  <2>2. CASE l # 1
    <3>1. l # 2  BY <1>7 DEF Segment
    <3> DEFINE m == l - 1
    <3>2. m \in 2..Len(R) /\ m \in 1..Len(R) /\ m + 1 = l /\ m # 1  BY <1>0, <2>2, <3>1
    <3> HIDE DEF m
    <3>3. \A j \in m..Len(R) : R[j] = T[j + 1]  BY <1>0, <3>2
    <3>4. Len(R) + 1 \in 1..(Len(R) + 1) /\ Len(R) + 1 + 1 = Len(T) + 1  BY <1>0
    <3>5. Segment(R, m, Len(R) + 1) <=> Segment(T, m + 1, Len(R) + 1 + 1)
      <4>1. Shifted(R, T, 1, m, Len(R) + 1)  BY <1>0, <3>2, <3>3, <3>4, SegmentShift
      <4> QED  BY <4>1 DEF Shifted
    <3> QED  BY <1>b, <1>7, <3>2, <3>4, <3>5
  <2> QED  BY <2>1, <2>2
<1>c. Len(R) + 1 \in 1..(Len(R) + 1) /\ Len(R) + 1 + 1 = Len(T) + 1  BY <1>0
<1>8. ASSUME Closed(T) PROVE Closed(R)
  <2>1. PICK l \in 1..Len(T) : Segment(T, l, Len(T) + 1)
                               /\ Reach(T, l, Len(T) + 1) = Size[T[l].file]
    BY <1>0, <1>8 DEF Closed
  <2>2. PICK m \in 1..Len(R) : was(m) = l /\ Segment(R, m, Len(R) + 1)  BY <1>7, <2>1
  <2>3. Reach(R, m, Len(R) + 1) = Reach(T, l, Len(T) + 1) /\ R[m].file = T[l].file
    BY <1>1, <1>c, <2>2
  <2> QED  BY <2>1, <2>2, <2>3 DEF Closed
<1>9. ASSUME NEW u, Open(T, u, due, cur, have) PROVE Open(R, u, due, cur, hv)
  <2>1. PICK l \in 1..Len(T) : /\ Segment(T, l, Len(T) + 1)
                               /\ T[l].file = u.cur /\ u.pos = Reach(T, l, Len(T) + 1)
                               /\ \A j \in (l + 1)..Len(T) : T[j].version = u.version
                               /\ Awaited(T, l, due, cur) => Continues(T[l], u.version, have)
    BY <1>9 DEF Open
  <2>2. PICK m \in 1..Len(R) : was(m) = l /\ Segment(R, m, Len(R) + 1)  BY <1>7, <2>1
  <2>3. Reach(R, m, Len(R) + 1) = Reach(T, l, Len(T) + 1) /\ R[m].file = T[l].file
    BY <1>1, <1>c, <2>2
  <2>4. \A j \in (m + 1)..Len(R) : R[j].version = u.version
    <3> TAKE j \in (m + 1)..Len(R)
    <3>1. j \in 2..Len(R)  BY <1>0
    <3>2. j + 1 \in (l + 1)..Len(T)
      <4>1. l = 1 \/ l = m + 1  BY <1>b, <2>2
      <4> QED  BY <1>0, <3>1, <4>1
    <3> QED  BY <2>1, <3>1, <3>2
  <2>5. Awaited(R, m, due, cur) => Continues(R[m], u.version, hv)
    <3>1. m = 1 => T[2].version = u.version
      <4> SUFFICES ASSUME m = 1 PROVE T[2].version = u.version  OBVIOUS
      <4>1. l = 1  BY <1>b, <2>2
      <4>2. 2 \in (l + 1)..Len(T)  BY <1>0, <4>1
      <4> QED  BY <2>1, <4>2
    <3> QED  BY <1>3, <2>1, <2>2, <3>1
  <2> QED  BY <2>1, <2>2, <2>3, <2>4, <2>5 DEF Open
<1>10. \A u, shr : Offsets(u, due, have, shr) => Offsets(u, due, hv, shr)
  BY DEF Offsets
<1> QED  BY <1>0, <1>2, <1>4, <1>5, <1>6, <1>8, <1>9, <1>10 DEF Carried, Stream, Tip

-----------------------------------------------------------------------------
(***************************************************************************)
(* DoUpload and the stream.                                                *)
(***************************************************************************)
\* An upload serves the download: what it has sent is a stream, where it is
\* and where it will start files fits it.
Serves(T, u, due, cur, have, shr) ==
  /\ Stream(T, due, cur, have) /\ NoEnd(T)
  /\ Tip(T, u, due, cur, have) /\ Offsets(u, due, have, shr)

LEMMA ServesSame ==
  ASSUME NEW T, NEW u, NEW w, NEW due, NEW cur, NEW have, NEW shr, Serves(T, u, due, cur, have, shr),
         w.cur = u.cur, w.pos = u.pos, w.version = u.version, w.files = u.files
  PROVE  Serves(T, w, due, cur, have, shr)
BY DEF Serves, Tip, Open, Offsets

\* The stream after the headers of the files (u) has come to, if all but the
\* last are of files that are there already.
LEMMA HeadersSent ==
  ASSUME ShareType, NEW u \in GoodUpload, NEW T, NEW due \in SUBSET File, NEW cur, NEW have,
         Stream(T, due, cur, have), NoEnd(T), Closed(T), Offsets(u, due, have, share),
         LET S == {f \in Visited(u) : share[f] # 0}
         IN  \A i \in 1..(Cardinality(S) - 1) : InOrder(S)[i] \notin Halting(u)
  PROVE  LET S == {f \in Visited(u) : share[f] # 0}
             n == Cardinality(S)
             R == T \o Headers(u)
         IN  /\ Stream(R, due, cur, have) /\ NoEnd(R)
             /\ Len(R) = Len(T) + n /\ n \in Nat
             /\ n = 0 => R = T
             /\ n > 0 => /\ R[Len(R)] = Header(u, InOrder(S)[n])
                         /\ InOrder(S)[n] \in S
                         /\ InOrder(S)[n] \in due =>
                              Continues(R[Len(R)], share[InOrder(S)[n]], have)
<1> DEFINE S == {f \in Visited(u) : share[f] # 0}
           n == Cardinality(S)
           H == Headers(u)
           R == T \o H
           names == InOrder(S)
<1>1. /\ S \in SUBSET File /\ Len(H) = n /\ n \in Nat /\ H \in Seq(Message)
      /\ \A i \in 1..n : names[i] \in S /\ H[i] = Header(u, names[i])
  BY HeadersShape
<1>2. \A i \in 1..(n - 1) : names[i] \notin Halting(u)
  OBVIOUS
<1>3. ASSUME NEW g \in S
      PROVE  /\ g \in File /\ u.files[g] \in Nat /\ u.files[g] <= Size[g] /\ share[g] \in Version
             /\ g \notin Halting(u) => u.files[g] = Size[g]
             /\ g \in due => Continues(Header(u, g), share[g], have)
  <2>1. g \in File /\ u.files[g] >= 0 /\ share[g] # 0  BY <1>1 DEF Visited, Ahead
  <2>2. u.files[g] \in Int /\ u.files[g] <= Size[g]  BY <2>1 DEF GoodUpload, Upload, Offset
  <2>3. share[g] \in Version  BY <2>1 DEF ShareType
  <2>4. g \notin Halting(u) => u.files[g] = Size[g]  BY PassedBy
  <2>5. g \in due => Continues(Header(u, g), share[g], have)
    <3>1. Header(u, g).file = g /\ Header(u, g).start = u.files[g]  BY DEF Header
    <3> QED  BY <2>1, <3>1 DEF Continues, Offsets
  <2> QED  BY <2>1, <2>2, <2>3, <2>4, <2>5
<1>4. T \in Seq(Message) /\ Len(T) \in Nat  BY LenProperties DEF Stream
<1> HIDE DEF H, names, S, n
<1>5. /\ R \in Seq(Message) /\ Len(R) = Len(T) + n
      /\ \A i \in 1..Len(T) : R[i] = T[i]
      /\ \A i \in 1..n : R[Len(T) + i] = H[i]
  <2>1. /\ R \in Seq(Message) /\ Len(R) = Len(T) + n
        /\ \A i \in 1..Len(T) + n : R[i] = IF i <= Len(T) THEN T[i] ELSE H[i - Len(T)]
    BY <1>1, <1>4, ConcatProperties
  <2> HIDE DEF R
  <2>2. \A i \in 1..Len(T) : R[i] = T[i]  BY <1>1, <1>4, <2>1
  <2>3. \A i \in 1..n : R[Len(T) + i] = H[i]
    <3> TAKE i \in 1..n
    <3>1. Len(T) + i \in 1..Len(T) + n /\ ~(Len(T) + i <= Len(T)) /\ Len(T) + i - Len(T) = i  BY <1>1, <1>4
    <3> QED  BY <2>1, <3>1
  <2> QED  BY <2>1, <2>2, <2>3
<1>6. n = 0 => R = T
  <2> SUFFICES ASSUME n = 0 PROVE R = T  OBVIOUS
  <2>1. H = <<>>  BY <1>1, EmptySeq
  <2> QED  BY <1>4, <2>1, ConcatEmptySeq
<1> HIDE DEF R
<1>7. ASSUME NEW i \in 1..n
      PROVE  /\ R[Len(T) + i] = Header(u, names[i])
             /\ names[i] \in S
  BY <1>1, <1>5
<1>8. ASSUME NEW i \in (Len(T) + 1)..Len(R)
      PROVE  /\ R[i].kind = "header" /\ R[i].start <= Size[R[i].file]
             /\ i < Len(R) => R[i].start = Size[R[i].file]
             /\ R[i].file \in due => \E v \in Version : Continues(R[i], v, have)
  <2> DEFINE x == i - Len(T)
             g == names[x]
  <2>1. x \in 1..n /\ Len(T) + x = i /\ (i < Len(R) => x \in 1..(n - 1))  BY <1>1, <1>4, <1>5
  <2> HIDE DEF x
  <2>2. R[i] = Header(u, g) /\ g \in S  BY <1>7, <2>1
  <2>3. i < Len(R) => g \notin Halting(u)  BY <1>2, <2>1
  <2> HIDE DEF g
  <2>4. R[i].kind = "header" /\ R[i].file = g /\ R[i].start = u.files[g]  BY <2>2 DEF Header
  <2>5. g \in due => Continues(R[i], share[g], have) /\ share[g] \in Version  BY <1>3, <2>2
  <2> QED  BY <1>3, <2>2, <2>3, <2>4, <2>5
<1>9. Stream(R, due, cur, have) /\ NoEnd(R)
  BY <1>1, <1>5, <1>8, StreamHeaders
<1>10. n > 0 => /\ R[Len(R)] = Header(u, names[n]) /\ names[n] \in S
                /\ names[n] \in due => Continues(R[Len(R)], share[names[n]], have)
  <2> SUFFICES ASSUME n > 0 PROVE /\ R[Len(R)] = Header(u, names[n]) /\ names[n] \in S
                                  /\ names[n] \in due => Continues(R[Len(R)], share[names[n]], have)
    OBVIOUS
  <2>1. n \in 1..n  BY <1>1
  <2>2. R[Len(R)] = Header(u, names[n]) /\ names[n] \in S  BY <1>5, <1>7, <2>1
  <2> QED  BY <1>3, <2>2
<1> QED  BY <1>1, <1>5, <1>6, <1>9, <1>10 DEF S, n, H, R, names

\* A stream that ends with a header.
LEMMA HeaderLast ==
  ASSUME NEW T \in Seq(Message), Len(T) > 0, T[Len(T)].kind = "header"
  PROVE  /\ Len(T) \in 1..Len(T) /\ Segment(T, Len(T), Len(T) + 1)
         /\ Reach(T, Len(T), Len(T) + 1) = T[Len(T)].start
         /\ T[Len(T)].file \in File
<1>1. Len(T) \in Nat /\ Len(T) \in 1..Len(T)  BY LenProperties
<1>2. T[Len(T)].file \in File /\ T[Len(T)].start \in Nat  BY <1>1, MessageAt
<1>3. \A j \in (Len(T) + 1)..(Len(T) + 1 - 1) : FALSE  BY <1>1
<1> QED  BY <1>1, <1>2, <1>3 DEF Segment, Reach

LEMMA NextFileServes ==
  ASSUME ShareType, NEW u \in GoodUpload, NEW T, NEW due \in SUBSET File, NEW cur, NEW have,
         Stream(T, due, cur, have), NoEnd(T), Closed(T), Offsets(u, due, have, share)
  PROVE  Serves(T \o NextFile(u).msgs, NextFile(u).u, due, cur, have, share)
<1> DEFINE S == {f \in Visited(u) : share[f] # 0}
           n == Cardinality(S)
           names == InOrder(S)
           H == Headers(u)
           R == T \o H
           f == Max(Visited(u))
           v == share[f]
<1>0. /\ S \in SUBSET File /\ n \in Nat /\ \A i \in 1..n : names[i] \in S
      /\ H \in Seq(Message) /\ T \in Seq(Message)
  BY HeadersShape DEF Stream
<1>1. ASSUME \A g \in S : g \notin Halting(u)
      PROVE  Stream(R, due, cur, have) /\ NoEnd(R) /\ Closed(R)
  <2>1. \A i \in 1..(n - 1) : names[i] \notin Halting(u)
    <3> HIDE DEF S, n, names
    <3>1. \A i \in 1..(n - 1) : i \in 1..n  BY <1>0
    <3> QED  BY <1>0, <1>1, <3>1
  <2>2. /\ Stream(R, due, cur, have) /\ NoEnd(R) /\ Len(R) = Len(T) + n
        /\ n = 0 => R = T
        /\ n > 0 => R[Len(R)] = Header(u, names[n]) /\ names[n] \in S
    BY <2>1, HeadersSent
  <2>3. CASE n = 0  BY <2>2, <2>3
  <2>4. CASE n > 0
    <3> DEFINE g == names[n]
    <3>1. g \in S /\ R[Len(R)] = Header(u, g)  BY <2>2, <2>4
    <3>2. g \in Visited(u) /\ g \notin Halting(u)  BY <1>1, <3>1
    <3> HIDE DEF g
    <3>3. u.files[g] = Size[g]  BY <3>2, PassedBy
    <3>4. R[Len(R)].kind = "header" /\ R[Len(R)].file = g /\ R[Len(R)].start = u.files[g]
      BY <3>1 DEF Header
    <3>5. R \in Seq(Message) /\ Len(R) > 0
      <4>1. Len(T) \in Nat  BY <1>0, LenProperties
      <4> QED  BY <1>0, <2>2, <2>4, <4>1 DEF Stream
    <3> HIDE DEF R
    <3>6. Closed(R)  BY <3>3, <3>4, <3>5, HeaderLast DEF Closed
    <3> QED  BY <2>2, <3>6
  <2> QED  BY <1>0, <2>3, <2>4
<1>2. CASE Halting(u) = {}
  <2>1. Stream(R, due, cur, have) /\ NoEnd(R) /\ Closed(R)  BY <1>1, <1>2
  <2> DEFINE a == Max({u.at} \cup Ahead(u))
             w == [u EXCEPT !.at = a, !.cur = None, !.finishing = TRUE, !.asked = @ + 1]
  <2>2. NextFile(u) = Uploading(w, H, FALSE)  BY <1>2 DEF NextFile
  <2> HIDE DEF a
  <2>3. w.cur = None /\ w.files = u.files  BY DEF GoodUpload, Upload
  <2>4. NextFile(u).msgs = H /\ NextFile(u).u = w  BY <2>2 DEF Uploading
  <2> HIDE DEF R, H, w
  <2>5. Serves(R, w, due, cur, have, share)  BY <2>1, <2>3 DEF Serves, Tip, Offsets
  <2> QED  BY <2>4, <2>5 DEF R
<1>3. CASE Halting(u) # {}
  <2>1. /\ f \in Halting(u) /\ f \in Visited(u)
        /\ \A g \in Visited(u) : f >= g /\ (g \in Halting(u) => g = f)
    <3>1. /\ f \in Halting(u) /\ f \in Visited(u)
          /\ \A g \in Visited(u) : g <= f /\ (g \in Halting(u) => g = f)
      BY <1>3, HaltsAtFirst
    <3>2. Visited(u) \subseteq Nat  BY ConstantTypes DEF Visited, Ahead
    <3> HIDE DEF f
    <3> QED  BY <3>1, <3>2
  <2>2. /\ f \in File /\ f # None /\ u.files[f] \in Nat
        /\ v \in {0} \cup Version /\ (v # 0 => u.files[f] < Size[f])
    <3> HIDE DEF f
    <3>1. f \in File /\ u.files[f] >= 0  BY <2>1 DEF Halting, Ahead
    <3>2. u.files[f] \in Int  BY <3>1 DEF GoodUpload, Upload, Offset
    <3> QED  BY <2>1, <3>1, <3>2, ConstantTypes DEF Halting, ShareType
  <2> DEFINE w1 == [u EXCEPT !.at = f, !.cur = f, !.version = v, !.pos = u.files[f]]
             w2 == [w1 EXCEPT !.pos = @ + 1, !.asked = @ + 1]
  <2>3. NextFile(u) = IF v = 0 THEN Uploading(w1, H, FALSE) ELSE Uploading(w2, Append(H, Data(v)), FALSE)
    BY <1>3 DEF NextFile
  <2>4. w1.cur = f /\ w1.files = u.files /\ w1.version = v /\ w1.pos = u.files[f]
    <3> HIDE DEF f, v
    <3> QED  BY DEF GoodUpload, Upload
  <2>5. w2.cur = f /\ w2.files = u.files /\ w2.version = v /\ w2.pos = u.files[f] + 1
    <3> HIDE DEF f, v
    <3> QED  BY DEF GoodUpload, Upload
  <2> HIDE DEF w1, w2
  <2>6. CASE v = 0
    <3>1. \A g \in S : g \notin Halting(u)
      <4> TAKE g \in S
      <4>1. g \in Visited(u) /\ share[g] # 0  OBVIOUS
      <4>2. g # f  BY <2>6, <4>1
      <4> QED  BY <2>1, <4>1, <4>2
    <3>2. Stream(R, due, cur, have) /\ NoEnd(R) /\ Closed(R)  BY <1>1, <3>1
    <3>3. NextFile(u).msgs = H /\ NextFile(u).u = w1  BY <2>3, <2>6 DEF Uploading
    <3> HIDE DEF R, H, v, f
    <3>4. Serves(R, w1, due, cur, have, share)  BY <2>4, <2>6, <3>2 DEF Serves, Tip, Offsets
    <3> QED  BY <3>3, <3>4 DEF R
  <2>7. CASE v # 0
    <3>1. f \in S /\ \A g \in S : f >= g  BY <2>1, <2>7
    <3>2. /\ n \in Nat \ {0} /\ names[n] = f
          /\ \A i \in 1..(n - 1) : names[i] \in S /\ names[i] < f
      <4>1. Counts(names, S)  BY <1>0, InOrderCounts
      <4>2. S \in SUBSET Nat /\ IsFiniteSet(S)  BY <1>0, FileSubsets, ConstantTypes
      <4> HIDE DEF S, names, f
      <4> QED  BY <3>1, <4>1, <4>2, CountingLast
    <3>3. \A i \in 1..(n - 1) : names[i] \notin Halting(u)
      <4> TAKE i \in 1..(n - 1)
      <4> DEFINE g == names[i]
      <4>1. g \in S /\ g < f  BY <3>2
      <4>4. g \in Visited(u)  BY <4>1
      <4>5. g \in Nat /\ f \in Nat  BY <1>0, <2>2, <4>1, ConstantTypes
      <4> HIDE DEF f, g
      <4>2. g \in Visited(u) /\ g # f  BY <4>1, <4>4, <4>5
      <4>3. g \notin Halting(u)  BY <2>1, <4>2
      <4> QED  BY <4>3 DEF g
    <3>4. /\ Stream(R, due, cur, have) /\ NoEnd(R) /\ Len(R) = Len(T) + n
          /\ R[Len(R)] = Header(u, f)
          /\ f \in due => Continues(R[Len(R)], v, have)
      <4>1. n > 0  BY <3>2
      <4>2. /\ Stream(R, due, cur, have) /\ NoEnd(R) /\ Len(R) = Len(T) + n
            /\ n > 0 => /\ R[Len(R)] = Header(u, names[n])
                        /\ names[n] \in due => Continues(R[Len(R)], share[names[n]], have)
        BY <3>3, HeadersSent
      <4> HIDE DEF R, n, names, f, H, S
      <4> QED  BY <3>2, <4>1, <4>2
    <3>5. R[Len(R)].kind = "header" /\ R[Len(R)].file = f /\ R[Len(R)].start = u.files[f]
      BY <3>4 DEF Header
    <3>6. R \in Seq(Message) /\ Len(T) \in Nat /\ Len(R) > 0 /\ Len(R) \in Nat
      <4>1. Len(T) \in Nat  BY <1>0, LenProperties
      <4> HIDE DEF n
      <4> QED  BY <3>2, <3>4, <4>1 DEF Stream
    <3>7. Open(R, w1, due, cur, have)
      <4>1. Awaited(R, Len(R), due, cur) => f \in due
        <5> SUFFICES ASSUME Len(R) = 1, R[Len(R)].file = cur PROVE FALSE
          BY <3>5 DEF Awaited
        <5>1. Len(T) = 0
          <6>1. n \in Nat /\ n # 0  BY <3>2
          <6>2. Len(R) = Len(T) + n /\ Len(R) = 1  BY <3>4
          <6>3. \A x, y, z \in Nat : x = y + z /\ x = 1 /\ z # 0 => y = 0  OBVIOUS
          <6> HIDE DEF n, R
          <6> QED  BY <3>6, <6>1, <6>2, <6>3, Zenon
        <5>2. cur # None  BY <2>2, <3>5
        <5> QED  BY <5>1, <5>2 DEF Stream
      <4> HIDE DEF R, f, v, n, H, S
      <4>2. \A j \in (Len(R) + 1)..Len(R) : FALSE  BY <3>6
      <4> QED  BY <2>4, <3>4, <3>5, <3>6, <4>1, <4>2, HeaderLast DEF Open
    <3> DEFINE Q == T \o Append(H, Data(v))
    <3>8. Q \in Seq(Message) /\ Len(Q) = Len(R) + 1 /\ Q[Len(R) + 1] = Data(v)
          /\ \A i \in 1..Len(R) : Q[i] = R[i]
      <4>1. Data(v) \in Message  BY <2>2, <2>7 DEF Data, Message
      <4>2. Append(H, Data(v)) = H \o <<Data(v)>>  BY <1>0, <4>1, AppendIsConcat
      <4>3. <<Data(v)>> \in Seq(Message)  BY <4>1
      <4>4. Q = R \o <<Data(v)>>  BY <1>0, <4>2, <4>3, ConcatAssociative
      <4>5. Q = Append(R, Data(v))  BY <3>6, <4>1, <4>4, AppendIsConcat
      <4> HIDE DEF Q, R
      <4> QED  BY <3>6, <4>1, <4>5, AppendProperties
    <3>9. NextFile(u).msgs = Append(H, Data(v)) /\ NextFile(u).u = w2  BY <2>3, <2>7 DEF Uploading
    <3> HIDE DEF Q, R, H, n, names, S, f
    <3>10. w1.version \in Version /\ w1.pos < Size[w1.cur] /\ Q[Len(R) + 1] = Data(w1.version)
           /\ w2.cur = w1.cur /\ w2.version = w1.version /\ w2.pos = w1.pos + 1
      <4> HIDE DEF v
      <4> QED  BY <2>2, <2>4, <2>5, <2>7, <3>8
    <3>11. Stream(Q, due, cur, have) /\ NoEnd(Q) /\ Open(Q, w2, due, cur, have)
      BY <3>4, <3>7, <3>8, <3>10, StreamData
    <3> HIDE DEF v
    <3>12. Serves(Q, w2, due, cur, have, share)  BY <2>2, <2>5, <2>7, <3>11 DEF Serves, Tip, Offsets
    <3> QED  BY <3>9, <3>12 DEF Q
  <2> QED  BY <2>6, <2>7
<1> QED  BY <1>2, <1>3

LEMMA DoUploadServes ==
  ASSUME ShareType, NEW u \in GoodUpload, NEW T, NEW due \in SUBSET File, NEW cur, NEW have,
         Serves(T, u, due, cur, have, share)
  PROVE  Serves(T \o DoUpload(u).msgs, DoUpload(u).u, due, cur, have, share)
<1>0. T \in Seq(Message) /\ T \o <<>> = T /\ Len(T) \in Nat
  BY ConcatEmptySeq, LenProperties DEF Serves, Stream
<1>1. CASE u.waiting \/ (u.cur # None /\ u.version = 0)
  <2>1. DoUpload(u).msgs = <<>> /\ DoUpload(u).u = u
    BY <1>1 DEF DoUpload, Uploading, GoodUpload, Upload
  <2> QED  BY <1>0, <2>1
<1>2. CASE ~u.waiting /\ (u.cur = None \/ (u.version # 0 /\ u.pos = Size[u.cur]))
  <2>1. DoUpload(u) = NextFile(u)  BY <1>2 DEF DoUpload, GoodUpload, Upload
  <2>2. Closed(T)
    <3>1. CASE u.cur = None  BY <3>1 DEF Serves, Tip
    <3>2. CASE u.cur # None
      <4>1. Open(T, u, due, cur, have) /\ u.pos = Size[u.cur]  BY <1>2, <3>2 DEF Serves, Tip
      <4> QED  BY <4>1 DEF Open, Closed
    <3> QED  BY <3>1, <3>2
  <2> QED  BY <2>1, <2>2, NextFileServes DEF Serves
<1>3. CASE ~u.waiting /\ u.cur # None /\ u.version # 0 /\ u.pos # Size[u.cur]
  <2> DEFINE w == [u EXCEPT !.pos = @ + 1, !.asked = @ + 1]
             Q == T \o <<Data(u.version)>>
  <2>1. DoUpload(u).msgs = <<Data(u.version)>> /\ DoUpload(u).u = w
    BY <1>3 DEF DoUpload, Uploading, GoodUpload, Upload
  <2>2. /\ u.version \in Version /\ u.pos < Size[u.cur]
        /\ w.cur = u.cur /\ w.version = u.version /\ w.pos = u.pos + 1 /\ w.files = u.files
    <3>1. u.cur \in File /\ u.pos \in Nat /\ u.pos <= Size[u.cur] /\ u.version \in Version
      BY <1>3 DEF GoodUpload, Upload
    <3>2. Size[u.cur] \in Nat  BY <3>1, ConstantTypes
    <3>3. w.cur = u.cur /\ w.version = u.version /\ w.pos = u.pos + 1 /\ w.files = u.files
      BY DEF GoodUpload, Upload
    <3> QED  BY <1>3, <3>1, <3>2, <3>3
  <2> HIDE DEF w
  <2>3. Data(u.version) \in Message  BY <2>2 DEF Data, Message
  <2>4. /\ Q \in Seq(Message) /\ Len(Q) = Len(T) + 1 /\ \A i \in 1..Len(T) : Q[i] = T[i]
        /\ Q[Len(T) + 1] = Data(u.version)
    <3>1. Q = Append(T, Data(u.version))  BY <1>0, <2>3, AppendIsConcat
    <3> QED  BY <1>0, <2>3, <3>1, AppendProperties
  <2>5. Open(T, u, due, cur, have)  BY <1>3 DEF Serves, Tip
  <2> HIDE DEF Q
  <2>6. Stream(Q, due, cur, have) /\ NoEnd(Q) /\ Open(Q, w, due, cur, have)
    BY <2>2, <2>4, <2>5, StreamData DEF Serves
  <2>7. Serves(Q, w, due, cur, have, share)
    BY <1>3, <2>2, <2>6 DEF Serves, Tip, Offsets
  <2> QED  BY <2>1, <2>7 DEF Q
<1> QED  BY <1>1, <1>2, <1>3 DEF GoodUpload, Upload

LEMMA BeginTransferServes ==
  ASSUME ShareType, NEW u \in GoodUpload, NEW T, NEW due \in SUBSET File, NEW cur, NEW have,
         Serves(T, u, due, cur, have, share)
  PROVE  Serves(T \o BeginTransfer(u).msgs, BeginTransfer(u).u, due, cur, have, share)
<1> DEFINE v == [u EXCEPT !.waiting = FALSE]
<1>1. v \in Upload /\ v.cur = u.cur /\ v.pos = u.pos /\ v.files = u.files /\ v.version = u.version
  BY DEF GoodUpload, Upload
<1>2. BeginTransfer(u) = IF \E f \in File : v.files[f] >= 0 THEN DoUpload(v) ELSE Uploading(v, <<>>, FALSE)
  BY DEF BeginTransfer
<1> HIDE DEF v
<1>3. v \in GoodUpload  BY <1>1 DEF GoodUpload
<1>4. Serves(T, v, due, cur, have, share)  BY <1>1, ServesSame
<1>5. CASE \E f \in File : v.files[f] >= 0
  BY <1>2, <1>3, <1>4, <1>5, DoUploadServes
<1>6. CASE ~\E f \in File : v.files[f] >= 0
  <2>1. BeginTransfer(u).u = v /\ BeginTransfer(u).msgs = <<>>  BY <1>2, <1>6 DEF Uploading
  <2>2. T \o <<>> = T  BY ConcatEmptySeq DEF Serves, Stream
  <2> QED  BY <1>4, <2>1, <2>2
<1> QED  BY <1>5, <1>6

\* What the lists that are still to be verified say of the files due.
Lists(q, due, have) ==
  \A i \in 1..Len(q) : \A f \in due : q[i][f] \in {Absent, <<>>, have[f]}

LEMMA ListVerifiedServes ==
  ASSUME ShareType, ul \in GoodUpload, ul.hashers # <<>>, NEW begin \in BOOLEAN,
         NEW T, NEW due \in SUBSET File, NEW cur, NEW have, \A f \in due : have[f] \in Copy,
         Serves(T, ul, due, cur, have, share), Lists(ul.hashers, due, have)
  PROVE  /\ Serves(T \o ListVerifiedMakes(begin).msgs, ListVerifiedMakes(begin).u, due, cur, have, share)
<1> DEFINE list == Head(ul.hashers)
           u == WithOffsets(ul, list)
           r == IF begin THEN BeginTransfer(u) ELSE Uploading(u, <<>>, FALSE)
           s == DoUpload(r.u)
           t == [s EXCEPT !.msgs = r.msgs \o @, !.fails = @ \/ r.fails]
<1>1. /\ u \in GoodUpload
      /\ u.cur = ul.cur /\ u.pos = ul.pos /\ u.version = ul.version
      /\ \A f \in File : u.files[f] = IF list[f] = Absent THEN ul.files[f] ELSE Verified(f, list[f])
  BY WithOffsetsType
<1>2. \A f \in due : list[f] \in {Absent, <<>>, have[f]}
  <2>1. ul.hashers \in Seq(List)  BY DEF GoodUpload, Upload
  <2>2. list = ul.hashers[1] /\ 1 \in 1..Len(ul.hashers)
    <3>1. Len(ul.hashers) \in Nat /\ Len(ul.hashers) # 0  BY <2>1, LenProperties, EmptySeq
    <3> QED  BY <2>1, <3>1
  <2> QED  BY <2>2 DEF Lists
<1> HIDE DEF list
<1>3. Offsets(u, due, have, share)
  <2> SUFFICES ASSUME NEW f \in due, u.files[f] > 0
               PROVE  /\ Len(have[f]) = u.files[f]
                      /\ share[f] # 0 => \A n \in 1..u.files[f] : have[f][n] = share[f]
    BY DEF Offsets
  <2>0. f \in File /\ have[f] \in Copy  OBVIOUS
  <2>1. CASE list[f] = Absent
    <3>1. u.files[f] = ul.files[f]  BY <1>1, <2>0, <2>1
    <3> QED  BY <3>1 DEF Serves, Offsets
  <2>2. CASE list[f] # Absent
    <3>1. u.files[f] = Verified(f, list[f])  BY <1>1, <2>0, <2>2
    <3>2. list[f] = <<>> \/ list[f] = have[f]  BY <1>2, <2>2
    <3>3. Verified(f, <<>>) = 0
      <4>1. Len(<<>>) = 0  OBVIOUS
      <4> QED  BY <4>1 DEF Verified
    <3>4. list[f] = have[f]  BY <3>1, <3>2, <3>3
    <3>5. have[f] \in Seq({0} \cup Version) /\ DOMAIN have[f] = 1..Len(have[f])
      BY <2>0, LenProperties DEF Copy
    <3>6. Verified(f, have[f]) > 0  BY <3>1, <3>4
    <3>7. Verified(f, have[f]) = Len(have[f]) /\ \A i \in DOMAIN have[f] : have[f][i] = share[f]
      BY <3>6 DEF Verified
    <3> QED  BY <3>1, <3>4, <3>5, <3>7
  <2> QED  BY <2>1, <2>2
<1>4. Serves(T, u, due, cur, have, share)
  <2> HIDE DEF u
  <2> QED  BY <1>1, <1>3 DEF Serves, Tip, Open
<1> HIDE DEF u
<1>5. /\ r.u \in GoodUpload /\ r.msgs \in Seq(Message)
      /\ Serves(T \o r.msgs, r.u, due, cur, have, share)
  <2>1. CASE begin  BY <1>1, <1>4, <2>1, BeginTransferType, BeginTransferServes
  <2>2. CASE ~begin
    <3>1. r.u = u /\ r.msgs = <<>>  BY <2>2 DEF Uploading
    <3>2. T \o <<>> = T  BY <1>4, ConcatEmptySeq DEF Serves, Stream
    <3>3. <<>> \in Seq(Message)  OBVIOUS
    <3> HIDE DEF r
    <3> QED  BY <1>1, <1>4, <3>1, <3>2, <3>3
  <2> QED  BY <2>1, <2>2
<1> HIDE DEF r
<1>6. s.u \in GoodUpload /\ s.msgs \in Seq(Message) /\ s.fails \in BOOLEAN
  BY <1>5, DoUploadType
<1>7. Serves((T \o r.msgs) \o s.msgs, s.u, due, cur, have, share)
  BY <1>5, DoUploadServes
<1>8. s = [u |-> s.u, msgs |-> s.msgs, fails |-> s.fails]
  <2> DEFINE x == r.u
  <2> HIDE DEF x
  <2>1. DoUpload(x) = [u |-> DoUpload(x).u, msgs |-> DoUpload(x).msgs, fails |-> DoUpload(x).fails]
    BY DEF DoUpload, NextFile, Uploading
  <2> QED  BY <2>1 DEF x
<1> HIDE DEF s
<1>9. t.u = s.u /\ t.msgs = r.msgs \o s.msgs  BY <1>8
<1>10. (T \o r.msgs) \o s.msgs = T \o (r.msgs \o s.msgs)
  <2>1. T \in Seq(Message)  BY DEF Serves, Stream
  <2>2. \A a, b, c \in Seq(Message) : (a \o b) \o c = a \o (b \o c)  BY ConcatAssociative
  <2> QED  BY <1>5, <1>6, <2>1, <2>2, Zenon
<1>11. ListVerifiedMakes(begin) = t  BY DEF ListVerifiedMakes, r, s, u, list
<1> HIDE DEF t
<1> QED  BY <1>7, <1>9, <1>10, <1>11

-----------------------------------------------------------------------------
(***************************************************************************)
(* The incoming stream as the connection and the transceiver change.       *)
(***************************************************************************)
Before(cur) == IF cur = None THEN 0 ELSE 1

Parts(T, n, cur, done, w, o) ==
  /\ T \in Seq(Message) /\ n \in {0, 1} /\ Len(T) = n + Len(w) + Len(o)
  /\ n = 1 <=> cur # None
  /\ Len(w) \in Nat /\ Len(o) \in Nat
  /\ cur # None => T[1] = Mark(cur, done)
  /\ \A i \in 1..Len(w) : T[n + i] = w[i]
  /\ \A i \in 1..Len(o) : T[n + Len(w) + i] = o[i]

LEMMA IncomingShape ==
  ASSUME NEW cur \in {None} \cup File, NEW done, cur # None => done \in Nat,
         NEW w \in Seq(Message), NEW o \in Seq(Message)
  PROVE  /\ Lead(cur, done) \in Seq(Message)
         /\ Parts(Incoming(cur, done, w, o), Before(cur), cur, done, w, o)
<1> DEFINE L == Lead(cur, done)
           n == Before(cur)
           T == Incoming(cur, done, w, o)
<1>0. Len(w) \in Nat /\ Len(o) \in Nat  BY LenProperties
<1>1. n \in {0, 1} /\ L \in Seq(Message) /\ Len(L) = n /\ (cur # None => L[1] = Mark(cur, done) /\ n = 1)
  <2>1. CASE cur = None  BY <2>1 DEF Lead, Before
  <2>2. CASE cur # None
    <3>1. Mark(cur, done) \in Message  BY <2>2 DEF Mark, Message
    <3> QED  BY <2>2, <3>1 DEF Lead, Before
  <2> QED  BY <2>1, <2>2
<1> HIDE DEF L, n
<1> DEFINE A == L \o w
<1>2. /\ A \in Seq(Message) /\ Len(A) = n + Len(w)
      /\ \A i \in 1..n + Len(w) : A[i] = IF i <= n THEN L[i] ELSE w[i - n]
  BY <1>1, ConcatProperties
<1>3. T = A \o o  BY DEF Incoming, L
<1> HIDE DEF A, T
<1>4. /\ T \in Seq(Message) /\ Len(T) = n + Len(w) + Len(o)
      /\ \A i \in 1..(n + Len(w) + Len(o)) : T[i] = IF i <= n + Len(w) THEN A[i] ELSE o[i - (n + Len(w))]
  <2>1. /\ A \o o \in Seq(Message) /\ Len(A \o o) = Len(A) + Len(o)
        /\ \A i \in 1..(Len(A) + Len(o)) : (A \o o)[i] = IF i <= Len(A) THEN A[i] ELSE o[i - Len(A)]
    BY <1>2, ConcatProperties
  <2> QED  BY <1>2, <1>3, <2>1, Zenon
<1>5. cur # None => T[1] = Mark(cur, done)
  <2> SUFFICES ASSUME cur # None PROVE T[1] = Mark(cur, done)  OBVIOUS
  <2>1. n = 1 /\ 1 \in 1..n + Len(w) /\ 1 \in 1..(n + Len(w) + Len(o))  BY <1>0, <1>1
  <2>2. T[1] = A[1]  BY <1>0, <1>4, <2>1
  <2>3. A[1] = L[1]  BY <1>2, <2>1
  <2> QED  BY <1>1, <2>2, <2>3
<1>6. \A i \in 1..Len(w) : T[n + i] = w[i]
  <2> TAKE i \in 1..Len(w)
  <2> DEFINE x == n + i
  <2> HIDE DEF x
  <2>2. x \in 1..(n + Len(w) + Len(o)) /\ x <= n + Len(w) /\ x \in 1..n + Len(w) /\ ~(x <= n) /\ x - n = i
    BY <1>0, <1>1 DEF x
  <2>3. T[x] = A[x]  BY <1>4, <2>2, Zenon
  <2>4. A[x] = w[i]  BY <1>2, <2>2, Zenon
  <2> QED  BY <2>3, <2>4 DEF x
<1>7. \A i \in 1..Len(o) : T[n + Len(w) + i] = o[i]
  <2> TAKE i \in 1..Len(o)
  <2> DEFINE x == n + Len(w) + i
  <2>2. x \in 1..(n + Len(w) + Len(o)) /\ ~(x <= n + Len(w)) /\ x - (n + Len(w)) = i
    BY <1>0, <1>1
  <2> HIDE DEF x
  <2>3. T[x] = o[i]  BY <1>4, <2>2, Zenon
  <2> QED  BY <2>3 DEF x
<1>8. n = 1 <=> cur # None  BY DEF n, Before
<1>9. Parts(T, n, cur, done, w, o)  BY <1>0, <1>1, <1>4, <1>5, <1>6, <1>7, <1>8 DEF Parts
<1> QED  BY <1>1, <1>9 DEF T, L, n

LEMMA Associative == \A a, b, c \in Seq(Message) : (a \o b) \o c = a \o (b \o c)
BY ConcatAssociative

LEMMA IncomingMove ==
  ASSUME NEW cur \in {None} \cup File, NEW done, cur # None => done \in Nat,
         NEW w \in Seq(Message), NEW o \in Seq(Message), NEW k \in 0..Len(o)
  PROVE  Incoming(cur, done, w \o SubSeq(o, 1, k), SubSeq(o, k + 1, Len(o))) = Incoming(cur, done, w, o)
<1> DEFINE a == SubSeq(o, 1, k)
           b == SubSeq(o, k + 1, Len(o))
<1>0. Len(o) \in Nat  BY LenProperties
<1>1. Lead(cur, done) \in Seq(Message)  BY IncomingShape
<1>2. a \in Seq(Message) /\ b \in Seq(Message)
  BY <1>0, SubSeqProperties
<1>3. a \o b = o
  <2>1. a \o b = SubSeq(o, 1, Len(o))
    <3>1. 1 \in 1..(Len(o) + 1) /\ k \in (1 - 1)..Len(o) /\ Len(o) \in k..Len(o)  BY <1>0
    <3> QED  BY <3>1, ConcatAdjacentSubSeq, Zenon
  <2> QED  BY <2>1, SubSeqFull
<1> HIDE DEF a, b
<1>4. Lead(cur, done) \o (w \o a) = (Lead(cur, done) \o w) \o a  BY <1>1, <1>2, Associative
<1>5. Lead(cur, done) \o w \in Seq(Message)  BY <1>1, ConcatProperties
<1>6. ((Lead(cur, done) \o w) \o a) \o b = (Lead(cur, done) \o w) \o (a \o b)  BY <1>2, <1>5, Associative
<1> QED  BY <1>3, <1>4, <1>6 DEF Incoming, a, b

\* The connection breaks after the first (k) messages of the wire.
LEMMA IncomingCut ==
  ASSUME NEW cur \in {None} \cup File, NEW done, cur # None => done \in Nat,
         NEW w \in Seq(Message), NEW o \in Seq(Message), NEW due, NEW have,
         Stream(Incoming(cur, done, w, o), due, cur, have), NoEnd(Incoming(cur, done, w, o)),
         NEW k \in 0..Len(w)
  PROVE  Stream(Incoming(cur, done, Append(SubSeq(w, 1, k), [kind |-> "end"]), <<>>), due, cur, have)
<1> DEFINE e == [kind |-> "end"]
           p == SubSeq(w, 1, k)
           x == Append(p, e)
           n == Before(cur)
           T == Incoming(cur, done, w, o)
           R == Incoming(cur, done, x, <<>>)
<1>0. Len(w) \in Nat /\ Len(o) \in Nat  BY LenProperties
<1>1. p \in Seq(Message) /\ Len(p) = k /\ \A i \in 1..k : p[i] = w[i]
  <2>1. \A i \in 1..k : w[i] \in Message  BY <1>0, ElementOfSeq
  <2>2. /\ p \in Seq(Message) /\ Len(p) = (IF 1 <= k THEN k - 1 + 1 ELSE 0)
        /\ \A i \in 1..(k - 1 + 1) : p[i] = w[1 + i - 1]
    BY <1>0, <2>1, SubSeqProperties
  <2> HIDE DEF p
  <2>3. \A i \in 1..k : i \in 1..(k - 1 + 1) /\ 1 + i - 1 = i  BY <1>0
  <2>4. \A i \in 1..k : p[i] = w[i]  BY <2>2, <2>3
  <2> QED  BY <1>0, <2>2, <2>4
<1> HIDE DEF p
<1>2. /\ x \in Seq(Message) /\ Len(x) = k + 1 /\ x[k + 1] = e /\ \A i \in 1..k : x[i] = w[i]
  BY <1>0, <1>1, EndType, AppendProperties
<1> HIDE DEF x, e
<1>3. /\ T \in Seq(Message) /\ n \in {0, 1} /\ Len(T) = n + Len(w) + Len(o)
      /\ cur # None => T[1] = Mark(cur, done)
      /\ \A i \in 1..Len(w) : T[n + i] = w[i]
  <2>1. Parts(T, n, cur, done, w, o)  BY IncomingShape
  <2> QED  BY <2>1 DEF Parts
<1>4. <<>> \in Seq(Message) /\ Len(<<>>) = 0  OBVIOUS
<1>5. /\ R \in Seq(Message) /\ Len(R) = n + (k + 1)
      /\ cur # None => R[1] = Mark(cur, done)
      /\ \A i \in 1..(k + 1) : R[n + i] = x[i]
  <2>1. Parts(R, n, cur, done, x, <<>>)  BY <1>2, <1>4, IncomingShape
  <2> HIDE DEF R, n
  <2>2. n \in Nat /\ k + 1 \in Nat  BY <1>0, <1>3
  <2> QED  BY <1>2, <1>4, <2>1, <2>2 DEF Parts
<1>6. n = 1 => cur # None  BY DEF Before
<1> HIDE DEF T, R, n
<1>7. \A i \in 1..(n + k) : R[i] = T[i]
  <2> TAKE i \in 1..(n + k)
  <2>1. CASE i <= n
    <3>1. n = 1 /\ i = 1  BY <1>0, <1>3, <2>1
    <3> QED  BY <1>3, <1>5, <1>6, <3>1
  <2>2. CASE i > n
    <3> DEFINE j == i - n
    <3>1. j \in 1..k /\ n + j = i /\ j \in 1..Len(w) /\ j \in 1..(k + 1)  BY <1>0, <1>3, <2>2
    <3> HIDE DEF j
    <3>2. R[n + j] = x[j] /\ T[n + j] = w[j] /\ x[j] = w[j]  BY <1>2, <1>3, <1>5, <3>1
    <3> QED  BY <3>1, <3>2
  <2> QED  BY <1>0, <1>3, <2>1, <2>2
<1>8. R[n + k + 1].kind = "end"
  <2>1. k + 1 \in 1..(k + 1) /\ n + (k + 1) = n + k + 1  BY <1>0, <1>3
  <2>2. R[n + (k + 1)] = x[k + 1]  BY <1>5, <2>1
  <2> QED  BY <1>2, <2>1, <2>2 DEF e
<1>9. n + k \in 0..Len(T) /\ Len(R) = n + k + 1  BY <1>0, <1>3, <1>5
<1>10. Stream(T, due, cur, have) /\ NoEnd(T)  BY DEF T
<1>11. Stream(R, due, cur, have)
  BY <1>5, <1>7, <1>8, <1>9, <1>10, StreamCut
<1> QED  BY <1>11 DEF R, x, p, e

-----------------------------------------------------------------------------
(***************************************************************************)
(* The invariant of the exchange.                                          *)
(***************************************************************************)
WholeIn(l) == {f \in File : \E i \in DOMAIN l[f] : \E v \in Version : l[f][i] = Complete(f, v)}

\* What there is of each file: of the one under way the copy written to, of
\* the others the copy under the file's own name.
HaveOf(l, cur, copy) ==
  [f \in File |-> IF f = cur THEN l[f][copy] ELSE IF l[f] = <<>> THEN <<>> ELSE l[f][1]]

\* The books of a connected download (d) agree with the folder (l).
Going(d, l) ==
  /\ d.due \subseteq d.orig
  /\ File \ (d.due \cup {d.cur}) \subseteq WholeIn(l)
  /\ d.index + Cardinality(d.due) = d.total
  /\ d.cur = None => d.done = -1 /\ d.size = -1
  /\ d.cur # None => /\ d.cur \notin d.due /\ d.copy \in 1..Len(l[d.cur])
                     /\ d.done = Len(l[d.cur][d.copy]) /\ d.size = Size[d.cur]
                     /\ d.done < d.size => d.cur \in d.orig

Books(d, l) ==
  /\ File \ d.orig \subseteq WholeIn(l)
  /\ d.phase = "queued" => /\ d.due = d.orig /\ d.cur = None /\ d.done = -1 /\ d.size = -1
                           /\ d.index = 0 /\ d.total = Cardinality(d.orig)
  /\ d.phase = "idle" /\ ~d.error => WholeIn(l) = File
  /\ d.phase = "connected" => Going(d, l)

\* What is under way between the two ends of a connection.
Moving(d, l, u, p, w, o, shr) ==
  LET T  == Incoming(d.cur, d.done, w, o)
      hv == HaveOf(l, d.cur, d.copy)
  IN  /\ Stream(T, d.due, d.cur, hv)
      /\ u.alive => Serves(T, u, d.due, d.cur, hv, shr)
      /\ Lists(p, d.due, hv) /\ Lists(u.hashers, d.due, hv)

Linked(d, l, u, p, w, o, shr) ==
  /\ u.alive => d.phase = "connected"
  /\ d.phase = "connected" => Moving(d, l, u, p, w, o, shr)

ExchangeInv ==
  TypeInv /\ Books(dl, local) /\ Linked(dl, local, ul, up, wire, out, share)

LEMMA WholeIsWhole == Whole = WholeIn(local)
BY DEF Whole, WholeIn

LEMMA CopyWhole ==
  ASSUME NEW f \in File, NEW c \in Copy, NEW v \in Version, Len(c) = Size[f],
         Size[f] > 0 => \A n \in 1..Len(c) : c[n] = v
  PROVE  c = Complete(f, v)
<1>1. c \in [1..Size[f] -> {0} \cup Version] /\ Size[f] \in Nat
  BY LenProperties, ConstantTypes DEF Copy
<1>2. \A n \in 1..Size[f] : c[n] = v  BY <1>1
<1> QED  BY <1>1, <1>2 DEF Complete

LEMMA HaveType ==
  ASSUME NEW l \in [File -> Seq(Copy)], NEW cur \in {None} \cup File, NEW copy,
         cur # None => copy \in 1..Len(l[cur])
  PROVE  /\ \A f \in File : HaveOf(l, cur, copy)[f] \in Copy
         /\ cur # None => HaveOf(l, cur, copy)[cur] = l[cur][copy]
         /\ \A f \in File \ {cur} : HaveOf(l, cur, copy)[f] = IF l[f] = <<>> THEN <<>> ELSE l[f][1]
<1>1. \A f \in File \ {cur} : HaveOf(l, cur, copy)[f] = IF l[f] = <<>> THEN <<>> ELSE l[f][1]
  BY DEF HaveOf
<1>2. cur # None => cur \in File /\ HaveOf(l, cur, copy)[cur] = l[cur][copy]
  BY DEF HaveOf
<1>3. ASSUME NEW f \in File PROVE HaveOf(l, cur, copy)[f] \in Copy
  <2>1. l[f] # <<>> => l[f][1] \in Copy  BY CopiesType
  <2>2. f = cur => l[f][copy] \in Copy
    <3> SUFFICES ASSUME f = cur PROVE l[f][copy] \in Copy  OBVIOUS
    <3>1. cur # None /\ copy \in 1..Len(l[f])  BY ConstantTypes
    <3> QED  BY <3>1, CopiesType
  <2> QED  BY <1>1, <1>2, <2>1, <2>2, AbsentType, ConstantTypes
<1> QED  BY <1>1, <1>2, <1>3

\* A step keeps the invariant, the whole copies and what was crossed off.
Kept ==
  /\ Books(dl', local') /\ Linked(dl', local', ul', up', wire', out', share')
  /\ WholeIn(local) \subseteq WholeIn(local') /\ dl'.orig \subseteq dl.orig
  /\ \A f \in File \ dl.orig : local'[f] = local[f]

\* What the invariant says while there is a connection.
LEMMA Connection ==
  ASSUME ExchangeInv, dl.phase = "connected"
  PROVE  LET T  == Incoming(dl.cur, dl.done, wire, out)
             hv == HaveOf(local, dl.cur, dl.copy)
         IN  /\ Going(dl, local) /\ Moving(dl, local, ul, up, wire, out, share)
             /\ dl.due \in SUBSET File /\ dl.cur \in {None} \cup File
             /\ dl.cur # None => dl.done \in Nat /\ dl.copy \in 1..Len(local[dl.cur])
             /\ wire \in Seq(Message) /\ out \in Seq(Message) /\ up \in Seq(List)
             /\ ul \in GoodUpload /\ local \in [File -> Seq(Copy)] /\ ShareType
             /\ \A f \in File : hv[f] \in Copy
             /\ Stream(T, dl.due, dl.cur, hv)
             /\ ul.alive => Serves(T, ul, dl.due, dl.cur, hv, share)
             /\ Parts(T, Before(dl.cur), dl.cur, dl.done, wire, out)
<1>1. /\ dl \in Download /\ wire \in Seq(Message) /\ out \in Seq(Message) /\ up \in Seq(List)
      /\ ul \in GoodUpload /\ local \in [File -> Seq(Copy)] /\ ShareType
  BY DEF ExchangeInv, TypeInv, TypeOK, ShareType
<1>2. dl.due \in SUBSET File /\ dl.cur \in {None} \cup File  BY <1>1 DEF Download
<1>3. Going(dl, local) /\ Moving(dl, local, ul, up, wire, out, share)
  BY DEF ExchangeInv, Books, Linked
<1>4. ASSUME dl.cur # None PROVE dl.done \in Nat /\ dl.copy \in 1..Len(local[dl.cur])
  <2>1. dl.cur \in File /\ dl.copy \in 1..Len(local[dl.cur]) /\ dl.done = Len(local[dl.cur][dl.copy])
    BY <1>2, <1>3, <1>4 DEF Going
  <2>2. local[dl.cur][dl.copy] \in Copy  BY <1>1, <2>1, CopiesType
  <2>3. Len(local[dl.cur][dl.copy]) \in Nat  BY <2>2, LenProperties DEF Copy
  <2> QED  BY <2>1, <2>3
<1>5. \A f \in File : HaveOf(local, dl.cur, dl.copy)[f] \in Copy
  BY <1>1, <1>2, <1>4, HaveType
<1>6. Parts(Incoming(dl.cur, dl.done, wire, out), Before(dl.cur), dl.cur, dl.done, wire, out)
  BY <1>1, <1>2, <1>4, IncomingShape
<1> QED  BY <1>1, <1>2, <1>3, <1>4, <1>5, <1>6 DEF Moving

\* The message at the head of the wire is the first after the file under way.
LEMMA NextMessage ==
  ASSUME NEW T, NEW n, NEW cur, NEW done, NEW w, NEW o, Parts(T, n, cur, done, w, o),
         w \in Seq(Message), w # <<>>
  PROVE  /\ n + 1 <= Len(T) /\ n + 1 \in 1..Len(T) /\ T[n + 1] = Head(w)
         /\ Tail(w) \in Seq(Message) /\ Len(Tail(w)) = Len(w) - 1
         /\ \A i \in 1..(Len(w) - 1) : Tail(w)[i] = w[i + 1]
<1>1. Len(w) \in Nat /\ Len(w) # 0  BY LenProperties, EmptySeq
<1>2. Head(w) = w[1]  OBVIOUS
<1>3. /\ Tail(w) \in Seq(Message) /\ Len(Tail(w)) = Len(w) - 1
      /\ \A i \in 1..(Len(w) - 1) : Tail(w)[i] = w[i + 1]
  BY HeadTailProperties
<1>4. 1 \in 1..Len(w) /\ n + 1 <= Len(T) /\ n + 1 \in 1..Len(T)  BY <1>1 DEF Parts
<1>5. T[n + 1] = w[1]  BY <1>4 DEF Parts
<1> QED  BY <1>2, <1>3, <1>4, <1>5

\* The file under way is whole when another one is announced, or when it has
\* the length of the file.
LEMMA ThenWhole ==
  ASSUME NEW l \in [File -> Seq(Copy)], NEW f \in File, NEW copy \in 1..Len(l[f]), NEW due,
         NEW w \in Seq(Message), NEW o \in Seq(Message), NEW done \in Nat, done = Len(l[f][copy]),
         Stream(Incoming(f, done, w, o), due, f, HaveOf(l, f, copy)),
         done >= Size[f] \/ (w # <<>> /\ Head(w).kind = "header")
  PROVE  f \in WholeIn(l)
<1> DEFINE T  == Incoming(f, done, w, o)
           hv == HaveOf(l, f, copy)
           c  == l[f][copy]
<1>1. /\ Stream(T, due, f, hv) /\ Parts(T, Before(f), f, done, w, o)
      /\ f # None /\ Size[f] \in Nat
  BY IncomingShape, ConstantTypes
<1> HIDE DEF T
<1>2. /\ Before(f) = 1 /\ T[1] = Mark(f, done) /\ Len(T) \in Nat /\ Len(T) > 0
      /\ T[1].kind = "header" /\ T[1].file = f /\ T[1].start = done
  <2>1. Before(f) = 1 /\ T[1] = Mark(f, done) /\ Len(T) = Before(f) + Len(w) + Len(o)
        /\ Len(w) \in Nat /\ Len(o) \in Nat
    BY <1>1 DEF Parts
  <2> QED  BY <2>1 DEF Mark
<1>3. 1 \in 1..Len(T) /\ 2 \in 1..(Len(T) + 1)  BY <1>2
<1>4. Segment(T, 1, 2)
  <2>1. \A j \in (1 + 1)..(2 - 1) : FALSE  OBVIOUS
  <2> QED  BY <1>2, <2>1 DEF Segment
<1>5. Reach(T, 1, 2) = done  BY <1>2 DEF Reach
<1>6. done <= Size[f]  BY <1>1, <1>2, <1>3, <1>4, <1>5 DEF Stream, Orderly
<1>7. done = Size[f]
  <2>1. CASE done >= Size[f]  BY <1>1, <1>6, <2>1
  <2>2. CASE w # <<>> /\ Head(w).kind = "header"
    <3>1. 1 + 1 <= Len(T) /\ T[1 + 1] = Head(w)  BY <1>1, <1>2, <2>2, NextMessage
    <3>2. 2 <= Len(T) /\ T[2].kind = "header"  BY <2>2, <3>1
    <3> QED  BY <1>1, <1>2, <1>3, <1>4, <1>5, <3>2 DEF Stream, Orderly
  <2> QED  BY <2>1, <2>2
<1>8. PICK v \in Version : Continues(T[1], v, hv)
  <2>1. Awaited(T, 1, due, f)  BY <1>2 DEF Awaited
  <2> QED  BY <1>1, <1>3, <1>4, <2>1 DEF Stream, Faithful
<1>9. hv[f] = c /\ c \in Copy
  <2>1. hv[f] = c  BY DEF HaveOf
  <2>2. c \in Copy  BY CopiesType
  <2> QED  BY <2>1, <2>2
<1> HIDE DEF hv
<1>10. Size[f] > 0 => \A n \in 1..Len(c) : c[n] = v
  BY <1>2, <1>7, <1>8, <1>9 DEF Continues
<1>11. c = Complete(f, v)  BY <1>7, <1>9, <1>10, CopyWhole
<1>12. copy \in DOMAIN l[f]
  <2>1. l[f] \in Seq(Copy)  OBVIOUS
  <2> QED  BY <2>1, LenProperties
<1> QED  BY <1>11, <1>12 DEF WholeIn

LEMMA UnderWayWhole ==
  ASSUME ExchangeInv, dl.phase = "connected", dl.cur # None,
         dl.done >= dl.size \/ (wire # <<>> /\ Head(wire).kind = "header")
  PROVE  dl.cur \in WholeIn(local)
<1>1. /\ local \in [File -> Seq(Copy)] /\ dl.cur \in File /\ dl.copy \in 1..Len(local[dl.cur])
      /\ wire \in Seq(Message) /\ out \in Seq(Message) /\ dl.done \in Nat
  BY Connection
<1>2. dl.done = Len(local[dl.cur][dl.copy]) /\ dl.size = Size[dl.cur]
  BY Connection DEF Going
<1>3. Stream(Incoming(dl.cur, dl.done, wire, out), dl.due, dl.cur, HaveOf(local, dl.cur, dl.copy))
  BY Connection
<1> QED  BY <1>1, <1>2, <1>3, ThenWhole

\* A download that leaves its connection with its books in order.
LEMMA RestartBooks ==
  ASSUME NEW d \in Download, NEW l, File \ d.orig \subseteq WholeIn(l)
  PROVE  /\ Books(RestartSession(d), l) /\ RestartSession(d).orig = d.orig
         /\ RestartSession(d).phase = "queued"
<1> DEFINE r == RestartSession(d)
<1>1. /\ r.phase = "queued" /\ r.due = d.orig /\ r.cur = None /\ r.done = -1 /\ r.size = -1
      /\ r.index = 0 /\ r.total = Cardinality(d.orig) /\ r.orig = d.orig
  BY Zenon DEF RestartSession, Download
<1> HIDE DEF r
<1>2. Books(r, l)  BY <1>1 DEF Books
<1> QED  BY <1>1, <1>2 DEF r

LEMMA AbortBooks ==
  ASSUME NEW d \in Download, NEW l, File \ d.orig \subseteq WholeIn(l), NEW force \in BOOLEAN
  PROVE  LET a == AbortSession(d, TRUE, force)
         IN  Books(a, l) /\ a.orig = d.orig /\ a.phase # "connected"
<1> DEFINE e == [d EXCEPT !.phase = "idle", !.done = -1, !.size = -1, !.auto = FALSE, !.error = TRUE]
<1>1. e.phase = "idle" /\ e.error = TRUE /\ e.orig = d.orig  BY Zenon DEF Download
<1>2. AbortSession(d, TRUE, force) \in {RestartSession(d), e}  BY DEF AbortSession
<1> HIDE DEF e
<1>3. Books(e, l)  BY <1>1 DEF Books
<1>4. /\ Books(RestartSession(d), l) /\ RestartSession(d).orig = d.orig
      /\ RestartSession(d).phase = "queued"
  BY RestartBooks
<1> QED  BY <1>1, <1>2, <1>3, <1>4

LEMMA HangupLinked ==
  ASSUME Hangup, dl'.phase # "connected"
  PROVE  Linked(dl', local', ul', up', wire', out', share')
<1>1. ul'.alive = FALSE  BY DEF Hangup, NoUpload
<1> QED  BY <1>1 DEF Linked

\* The stream when a header has been taken.
Taken(R, T, n, m) ==
  /\ R \in Seq(Message) /\ Len(R) + n = Len(T) /\ \A i \in 1..Len(R) : R[i] = T[i + n]
  /\ n \in {0, 1} /\ n + 1 <= Len(T) /\ T[n + 1] = m

LEMMA TakeShape ==
  ASSUME NEW cur \in {None} \cup File, NEW done, cur # None => done \in Nat,
         NEW w \in Seq(Message), NEW o \in Seq(Message), w # <<>>, Head(w).kind = "header"
  PROVE  Taken(Incoming(Head(w).file, Head(w).start, Tail(w), o),
               Incoming(cur, done, w, o), Before(cur), Head(w))
<1> DEFINE m == Head(w)
           T == Incoming(cur, done, w, o)
           R == Incoming(m.file, m.start, Tail(w), o)
           n == Before(cur)
<1>1. Parts(T, n, cur, done, w, o)  BY IncomingShape
<1>2. m \in Message /\ m.file \in File /\ m.start \in Nat  BY HeadMessage
<1>3. m = Mark(m.file, m.start)  BY <1>2 DEF Mark, Message
<1>4. /\ n + 1 <= Len(T) /\ n + 1 \in 1..Len(T) /\ T[n + 1] = m
      /\ Tail(w) \in Seq(Message) /\ Len(Tail(w)) = Len(w) - 1
      /\ \A i \in 1..(Len(w) - 1) : Tail(w)[i] = w[i + 1]
  BY <1>1, NextMessage
<1>5. Parts(R, Before(m.file), m.file, m.start, Tail(w), o)  BY <1>2, <1>4, IncomingShape
<1>6. Before(m.file) = 1  BY <1>2, ConstantTypes DEF Before
<1> HIDE DEF T, R, n, m
<1>7. /\ R \in Seq(Message) /\ Len(R) = 1 + (Len(w) - 1) + Len(o) /\ R[1] = Mark(m.file, m.start)
      /\ \A i \in 1..(Len(w) - 1) : R[1 + i] = Tail(w)[i]
      /\ \A i \in 1..Len(o) : R[1 + (Len(w) - 1) + i] = o[i]
  BY <1>2, <1>4, <1>5, <1>6, ConstantTypes DEF Parts
<1>8. /\ n \in {0, 1} /\ Len(T) = n + Len(w) + Len(o) /\ Len(w) \in Nat /\ Len(o) \in Nat
      /\ \A i \in 1..Len(w) : T[n + i] = w[i]
      /\ \A i \in 1..Len(o) : T[n + Len(w) + i] = o[i]
  BY <1>1 DEF Parts
<1>9. Len(R) + n = Len(T)  BY <1>7, <1>8
<1>10. ASSUME NEW i \in 1..Len(R) PROVE R[i] = T[i + n]
  <2>1. CASE i = 1
    <3>1. i + n = n + 1  BY <1>8, <2>1
    <3> QED  BY <1>3, <1>4, <1>7, <2>1, <3>1
  <2>2. CASE i # 1 /\ i <= Len(w)
    <3> DEFINE j == i - 1
    <3>1. j \in 1..(Len(w) - 1) /\ 1 + j = i /\ j + 1 = i /\ i \in 1..Len(w) /\ n + i = i + n
      BY <1>7, <1>8, <2>2
    <3> HIDE DEF j
    <3>2. R[1 + j] = Tail(w)[j] /\ Tail(w)[j] = w[j + 1]  BY <1>4, <1>7, <3>1
    <3>3. T[n + i] = w[i]  BY <1>8, <3>1
    <3> QED  BY <3>1, <3>2, <3>3
  <2>3. CASE i > Len(w)
    <3> DEFINE j == i - Len(w)
    <3>1. j \in 1..Len(o) /\ 1 + (Len(w) - 1) + j = i /\ n + Len(w) + j = i + n
      BY <1>7, <1>8, <2>3
    <3> HIDE DEF j
    <3>2. R[1 + (Len(w) - 1) + j] = o[j]  BY <1>7, <3>1
    <3>3. T[n + Len(w) + j] = o[j]  BY <1>8, <3>1
    <3> QED  BY <3>1, <3>2, <3>3
  <2> QED  BY <1>7, <1>8, <2>1, <2>2, <2>3
<1>11. Taken(R, T, n, m)  BY <1>4, <1>7, <1>8, <1>9, <1>10 DEF Taken
<1> QED  BY <1>11 DEF T, R, n, m

LEMMA ChunkShape ==
  ASSUME NEW cur \in File, NEW done \in Nat,
         NEW w \in Seq(Message), NEW o \in Seq(Message), w # <<>>
  PROVE  ChunkTaken(Incoming(cur, done + 1, Tail(w), o), Incoming(cur, done, w, o), cur, done, Head(w))
<1> DEFINE T == Incoming(cur, done, w, o)
           R == Incoming(cur, done + 1, Tail(w), o)
<1>0. cur # None /\ Before(cur) = 1 /\ done + 1 \in Nat  BY ConstantTypes DEF Before
<1>1. Parts(T, 1, cur, done, w, o)
  <2>1. Parts(T, Before(cur), cur, done, w, o)  BY IncomingShape
  <2> QED  BY <1>0, <2>1
<1>2. /\ 1 + 1 <= Len(T) /\ T[1 + 1] = Head(w)
      /\ Tail(w) \in Seq(Message) /\ Len(Tail(w)) = Len(w) - 1
      /\ \A i \in 1..(Len(w) - 1) : Tail(w)[i] = w[i + 1]
  BY <1>1, NextMessage
<1>3. Parts(R, 1, cur, done + 1, Tail(w), o)
  <2>1. Parts(R, Before(cur), cur, done + 1, Tail(w), o)  BY <1>0, <1>2, IncomingShape
  <2> QED  BY <1>0, <2>1
<1> HIDE DEF T, R
<1>4. /\ R \in Seq(Message) /\ Len(R) = 1 + (Len(w) - 1) + Len(o) /\ R[1] = Mark(cur, done + 1)
      /\ \A i \in 1..(Len(w) - 1) : R[1 + i] = Tail(w)[i]
      /\ \A i \in 1..Len(o) : R[1 + (Len(w) - 1) + i] = o[i]
  BY <1>0, <1>2, <1>3 DEF Parts
<1>5. /\ Len(T) = 1 + Len(w) + Len(o) /\ Len(w) \in Nat /\ Len(o) \in Nat /\ T[1] = Mark(cur, done)
      /\ \A i \in 1..Len(w) : T[1 + i] = w[i]
      /\ \A i \in 1..Len(o) : T[1 + Len(w) + i] = o[i]
  BY <1>0, <1>1 DEF Parts
<1>6. ASSUME NEW i \in 2..Len(R) PROVE R[i] = T[i + 1]
  <2>1. CASE i <= Len(w)
    <3> DEFINE j == i - 1
    <3>1. j \in 1..(Len(w) - 1) /\ 1 + j = i /\ j + 1 = i /\ i \in 1..Len(w) /\ 1 + i = i + 1
      BY <1>4, <1>5, <2>1
    <3> HIDE DEF j
    <3>2. R[1 + j] = Tail(w)[j] /\ Tail(w)[j] = w[j + 1]  BY <1>2, <1>4, <3>1
    <3>3. T[1 + i] = w[i]  BY <1>5, <3>1
    <3> QED  BY <3>1, <3>2, <3>3
  <2>2. CASE i > Len(w)
    <3> DEFINE j == i - Len(w)
    <3>1. j \in 1..Len(o) /\ 1 + (Len(w) - 1) + j = i /\ 1 + Len(w) + j = i + 1
      BY <1>4, <1>5, <2>2
    <3> HIDE DEF j
    <3>2. R[1 + (Len(w) - 1) + j] = o[j]  BY <1>4, <3>1
    <3>3. T[1 + Len(w) + j] = o[j]  BY <1>5, <3>1
    <3> QED  BY <3>1, <3>2, <3>3
  <2> QED  BY <1>4, <1>5, <2>1, <2>2
<1>7. Len(R) + 1 = Len(T) /\ Len(T) >= 2  BY <1>2, <1>4, <1>5
<1>8. T[2] = Head(w)  BY <1>2
<1>9. ChunkTaken(R, T, cur, done, Head(w))  BY <1>4, <1>5, <1>6, <1>7, <1>8 DEF ChunkTaken
<1> QED  BY <1>9 DEF T, R

\* Lists say the same of the files still due.
LEMMA ListsLess ==
  ASSUME NEW q, NEW due, NEW have, Lists(q, due, have),
         NEW less, less \subseteq due, NEW hv, \A f \in less : hv[f] = have[f]
  PROVE  Lists(q, less, hv)
BY DEF Lists

\* A new copy, or a longer one, leaves the others as they are.
LEMMA WholeNewCopy ==
  ASSUME NEW l \in [File -> Seq(Copy)], NEW f \in File
  PROVE  LET k == [l EXCEPT ![f] = Append(@, <<>>)]
         IN  /\ WholeIn(l) \subseteq WholeIn(k)
             /\ Len(k[f]) = Len(l[f]) + 1 /\ k[f][Len(l[f]) + 1] = <<>>
             /\ \A g \in File \ {f} : k[g] = l[g]
<1> DEFINE k == [l EXCEPT ![f] = Append(@, <<>>)]
<1>0. l[f] \in Seq(Copy) /\ Len(l[f]) \in Nat /\ DOMAIN l[f] = 1..Len(l[f])  BY LenProperties
<1>1. k[f] = Append(l[f], <<>>) /\ \A g \in File \ {f} : k[g] = l[g]  OBVIOUS
<1>2. /\ k[f] \in Seq(Copy) /\ Len(k[f]) = Len(l[f]) + 1
      /\ \A i \in 1..Len(l[f]) : k[f][i] = l[f][i]
      /\ k[f][Len(l[f]) + 1] = <<>>
  BY <1>0, <1>1, AbsentType, AppendProperties
<1>3. DOMAIN k[f] = 1..(Len(l[f]) + 1)  BY <1>2, LenProperties
<1> HIDE DEF k
<1>4. ASSUME NEW g \in WholeIn(l) PROVE g \in WholeIn(k)
  <2>1. PICK i \in DOMAIN l[g], v \in Version : l[g][i] = Complete(g, v)  BY DEF WholeIn
  <2>2. CASE g = f
    <3>1. i \in DOMAIN k[g] /\ k[g][i] = l[g][i]  BY <1>0, <1>2, <1>3, <2>1, <2>2
    <3> QED  BY <2>1, <3>1 DEF WholeIn
  <2>3. CASE g # f  BY <1>1, <2>1, <2>3 DEF WholeIn
  <2> QED  BY <2>2, <2>3
<1> QED  BY <1>1, <1>2, <1>4 DEF k

LEMMA HeaderKept ==
  ASSUME ExchangeInv, FileHeaderReceived
  PROVE  Kept
<1> DEFINE m      == Head(wire)
           f      == m.file
           copies == local[f]
           append == m.start > 0 /\ copies # <<>> /\ Len(copies[1]) = m.start
           prev   == IF OwnName THEN {dl.cur} ELSE {}
           copy   == IF append THEN 1 ELSE Len(copies) + 1
           T      == Incoming(dl.cur, dl.done, wire, out)
           have   == HaveOf(local, dl.cur, dl.copy)
           n      == Before(dl.cur)
<1>0. /\ TypeOK /\ dl \in Download /\ dl.phase = "connected" /\ wire # <<>> /\ m.kind = "header"
      /\ File \ dl.orig \subseteq WholeIn(local) /\ dl.orig \subseteq File
      /\ UNCHANGED <<share, trouble>>
  BY DEF ExchangeInv, TypeInv, TypeOK, FileHeaderReceived, Received, Books, Download
<1>1. f \in File /\ m.start \in Nat  BY <1>0, HeaderCases
<1>2. /\ Going(dl, local) /\ Moving(dl, local, ul, up, wire, out, share)
      /\ dl.due \in SUBSET File /\ dl.cur \in {None} \cup File
      /\ dl.cur # None => dl.done \in Nat /\ dl.copy \in 1..Len(local[dl.cur])
      /\ wire \in Seq(Message) /\ out \in Seq(Message) /\ local \in [File -> Seq(Copy)]
      /\ Stream(T, dl.due, dl.cur, have)
      /\ ul.alive => Serves(T, ul, dl.due, dl.cur, have, share)
  BY <1>0, Connection
<1>a. dl.cur # None => dl.done \in Nat  BY <1>2
<1>b. dl.cur # None => dl.copy \in 1..Len(local[dl.cur])  BY <1>2
<1>c. dl.cur \in {None} \cup File /\ wire \in Seq(Message) /\ out \in Seq(Message)
      /\ local \in [File -> Seq(Copy)]
  BY <1>2
<1>d. \A g \in File \ {dl.cur} : have[g] = IF local[g] = <<>> THEN <<>> ELSE local[g][1]
  BY DEF HaveOf
\* The file that was under way is whole.
<1>3. prev \subseteq WholeIn(local) \cup {None} /\ (dl.cur # None => dl.cur \in WholeIn(local))
  <2>1. dl.cur # None => dl.cur \in WholeIn(local)  BY <1>0, UnderWayWhole
  <2> QED  BY <2>1
<1>4. File \ (dl.orig \ prev) \subseteq WholeIn(local)
  <2> HIDE DEF prev
  <2>1. None \notin File  BY ConstantTypes
  <2> QED  BY <1>0, <1>3, <2>1
<1>5. CASE /\ dl' = AbortSession([dl EXCEPT !.cur = f], TRUE, FALSE) /\ Hangup /\ UNCHANGED local
  <2> DEFINE d == [dl EXCEPT !.cur = f]
  <2>1. d \in Download /\ d.orig = dl.orig  BY <1>0, <1>1, Zenon DEF Download
  <2> HIDE DEF d
  <2>2. Books(dl', local) /\ dl'.orig = dl.orig /\ dl'.phase # "connected"
    BY <1>0, <1>5, <2>1, AbortBooks DEF d
  <2> QED  BY <1>5, <2>2, HangupLinked DEF Kept
<1>6. CASE /\ dl' = AbortSession(Announced(dl, m, prev), TRUE, FALSE) /\ Hangup /\ UNCHANGED local
  <2> DEFINE d == Announced(dl, m, prev)
  <2>1. d \in Download /\ d.orig = dl.orig \ prev  BY <1>0, <1>1, AnnouncedFields
  <2> HIDE DEF d
  <2>2. Books(dl', local) /\ dl'.orig = d.orig /\ dl'.phase # "connected"
    BY <1>4, <1>6, <2>1, AbortBooks DEF d
  <2> QED  BY <1>6, <2>1, <2>2, HangupLinked DEF Kept
<1>7. CASE /\ f \in dl.due /\ dl' = Opened(dl, m, prev, copy)
           /\ local' = IF append THEN local ELSE [local EXCEPT ![f] = Append(@, <<>>)]
           /\ wire' = Tail(wire) /\ UNCHANGED <<ul, up, out>>
  <2>0. f # dl.cur /\ f \in dl.orig /\ dl.due \subseteq dl.orig /\ dl.cur \notin dl.due
    BY <1>1, <1>2, <1>7, ConstantTypes DEF Going
  <2>1. /\ dl'.phase = "connected" /\ dl'.orig = dl.orig \ prev /\ dl'.due = dl.due \ {f} /\ dl'.cur = f
        /\ dl'.size = Size[f] /\ dl'.copy = copy /\ dl'.done = m.start
        /\ dl'.index = dl.index + 1 /\ dl'.total = dl.total
    <3>1. copy \in Nat  BY <1>1, <1>2, CopiesType
    <3> HIDE DEF m, prev, copy, append
    <3>2. dl \in Download /\ dl.phase = "connected" /\ m.file \in File /\ m.start \in Nat
      BY <1>0, <1>1
    <3>3. dl' = Opened(dl, m, prev, copy)  BY <1>7
    <3>4. LET a == Opened(dl, m, prev, copy)
          IN  /\ a.phase = dl.phase /\ a.orig = dl.orig \ prev /\ a.due = dl.due \ {m.file}
              /\ a.cur = m.file /\ a.size = Size[m.file] /\ a.copy = copy /\ a.done = m.start
              /\ a.index = dl.index + 1 /\ a.total = dl.total
      BY <3>1, <3>2, OpenedFields
    <3> QED  BY <3>2, <3>3, <3>4
  <2> DEFINE R == Incoming(f, m.start, Tail(wire), out)
             hv == HaveOf(local', f, copy)
  <2>2. /\ R \in Seq(Message) /\ Len(R) + n = Len(T) /\ \A i \in 1..Len(R) : R[i] = T[i + n]
        /\ n \in {0, 1} /\ n + 1 <= Len(T) /\ T[n + 1] = m
    <3>1. Taken(R, T, n, m)  BY <1>0, <1>a, <1>c, TakeShape
    <3> QED  BY <3>1 DEF Taken
  <2>3. have[f] = IF local[f] = <<>> THEN <<>> ELSE local[f][1]
    BY <1>1, <1>d, <2>0
  <2> HIDE DEF T, R, n, have
  \* A header that starts within the file continues what is there.
  <2>4. m.start > 0 => append
    <3> SUFFICES ASSUME m.start > 0 PROVE append  OBVIOUS
    <3>1. Segment(T, n + 1, n + 2)
      <4>1. \A j \in (n + 1 + 1)..(n + 2 - 1) : FALSE  BY <2>2
      <4> QED  BY <1>0, <2>2, <4>1 DEF Segment
    <3>2. n + 1 \in 1..Len(T) /\ n + 2 \in 1..(Len(T) + 1)
      <4>1. Len(T) \in Nat  BY <1>2, LenProperties DEF Stream
      <4> QED  BY <2>2, <4>1
    <3>3. Awaited(T, n + 1, dl.due, dl.cur)  BY <1>7, <2>2 DEF Awaited
    <3>4. PICK v \in Version : Continues(T[n + 1], v, have)
      BY <1>2, <3>1, <3>2, <3>3 DEF Stream, Faithful
    <3>5. Len(have[f]) = m.start  BY <2>2, <3>4 DEF Continues
    <3>6. Len(<<>>) = 0  OBVIOUS
    <3>7. local[f] # <<>>  BY <2>3, <3>5, <3>6
    <3> QED  BY <2>3, <3>5, <3>7
  <2>5. /\ local' \in [File -> Seq(Copy)] /\ \A g \in File \ {f} : local'[g] = local[g]
        /\ WholeIn(local) \subseteq WholeIn(local')
        /\ copy \in 1..Len(local'[f]) /\ m.start = Len(local'[f][copy])
    <3>0. Len(local[f]) \in Nat /\ (local[f] # <<>> => 1 \in 1..Len(local[f]))  BY <1>1, <1>2, CopiesType
    <3>1. CASE append
      <4>1. local' = local /\ copy = 1  BY <1>7, <3>1
      <4> QED  BY <1>2, <3>0, <3>1, <4>1
    <3>2. CASE ~append
      <4>1. local' = [local EXCEPT ![f] = Append(@, <<>>)] /\ copy = Len(local[f]) + 1  BY <1>7, <3>2
      <4>2. m.start = 0  BY <1>1, <2>4, <3>2
      <4> HIDE DEF copy, append
      <4>3. /\ WholeIn(local) \subseteq WholeIn(local') /\ local' \in [File -> Seq(Copy)]
            /\ Len(local'[f]) = Len(local[f]) + 1 /\ local'[f][Len(local[f]) + 1] = <<>>
            /\ \A g \in File \ {f} : local'[g] = local[g]
        BY ZenonT(60), <1>1, <1>2, <4>1, WholeNewCopy, CopiesType
      <4>4. Len(<<>>) = 0  OBVIOUS
      <4>5. copy \in 1..Len(local'[f])  BY <3>0, <4>1, <4>3
      <4>6. local'[f][copy] = <<>>  BY <4>1, <4>3
      <4>7. m.start = Len(local'[f][copy])  BY <4>2, <4>4, <4>6
      <4> QED  BY <4>3, <4>5, <4>7
    <3> QED  BY <3>1, <3>2
  <2>6. /\ \A g \in dl.due \ {f} : hv[g] = have[g]
        /\ hv[f] = have[f] \/ m.start = 0
    <3>1. hv[f] = local'[f][copy] /\ \A g \in File \ {f} : hv[g] = IF local'[g] = <<>> THEN <<>> ELSE local'[g][1]
      <4> HIDE DEF copy
      <4> QED  BY <1>1, <2>5, HaveType, ConstantTypes
    <3>2. \A g \in File \ {dl.cur} : have[g] = IF local[g] = <<>> THEN <<>> ELSE local[g][1]
      BY <1>d
    <3>3. \A g \in dl.due \ {f} : hv[g] = have[g]
      <4> TAKE g \in dl.due \ {f}
      <4>1. g \in File \ {f} /\ g \in File \ {dl.cur}  BY <1>2, <2>0
      <4> HIDE DEF hv
      <4> QED  BY SMTT(40), <2>5, <3>1, <3>2, <4>1
    <3>4. ASSUME m.start # 0 PROVE hv[f] = have[f]
      <4>1. append  BY <1>1, <2>4, <3>4
      <4>2. local' = local /\ copy = 1 /\ local[f] # <<>>  BY <1>7, <4>1
      <4> HIDE DEF hv
      <4> QED  BY <2>3, <3>1, <4>2
    <3> QED  BY <3>3, <3>4
  <2> HIDE DEF hv
  <2>7. /\ Stream(R, dl.due \ {f}, f, hv)
        /\ NoEnd(T) => NoEnd(R)
        /\ \A u : Tip(T, u, dl.due, dl.cur, have) => Tip(R, u, dl.due \ {f}, f, hv)
        /\ \A u, shr : Offsets(u, dl.due, have, shr) => Offsets(u, dl.due \ {f}, hv, shr)
    <3>1. T[n + 1].kind = "header" /\ f = T[n + 1].file /\ f \in dl.due
      BY <1>0, <1>7, <2>2
    <3>2. hv[f] = have[f] \/ T[n + 1].start = 0  BY <2>2, <2>6
    <3> HIDE DEF f, m
    <3>3. Stream(T, dl.due, dl.cur, have)  BY <1>2
    <3>4. \A g \in dl.due \ {f} : hv[g] = have[g]  BY <2>6
    <3>5. Carried(T, dl.due, dl.cur, have, R, dl.due \ {f}, f, hv)
      BY <2>2, <3>1, <3>2, <3>3, <3>4, StreamTake
    <3> QED  BY <3>5 DEF Carried
  <2>8. ul.alive => Serves(R, ul, dl.due \ {f}, f, hv, share)
    BY <1>2, <2>7 DEF Serves
  <2>9. Lists(up, dl.due \ {f}, hv) /\ Lists(ul.hashers, dl.due \ {f}, hv)
    <3>1. Lists(up, dl.due, have) /\ Lists(ul.hashers, dl.due, have)  BY <1>2 DEF Moving, have
    <3> QED  BY <2>6, <3>1, ListsLess
  <2>10. Moving(dl', local', ul', up', wire', out', share')
    <3>1. Incoming(dl'.cur, dl'.done, wire', out') = R /\ HaveOf(local', dl'.cur, dl'.copy) = hv
      BY <1>7, <2>1 DEF R, hv
    <3> HIDE DEF f
    <3> QED  BY <1>0, <1>7, <2>1, <2>7, <2>8, <2>9, <3>1 DEF Moving
  <2>11. Linked(dl', local', ul', up', wire', out', share')
    BY <2>1, <2>10 DEF Linked
  <2>12. Going(dl', local')
    <3>1. dl'.due \subseteq dl'.orig
      <4>1. prev \subseteq {dl.cur}  OBVIOUS
      <4> HIDE DEF prev
      <4> QED  BY <2>0, <2>1, <4>1
    <3>2. File \ (dl'.due \cup {dl'.cur}) \subseteq WholeIn(local')
      <4>1. File \ (dl.due \cup {dl.cur}) \subseteq WholeIn(local)  BY <1>2 DEF Going
      <4> HIDE DEF f
      <4> QED  BY <1>3, <2>1, <2>5, <4>1, ConstantTypes
    <3>3. dl'.index + Cardinality(dl'.due) = dl'.total
      <4>1. dl.index + Cardinality(dl.due) = dl.total  BY <1>2 DEF Going
      <4>2. IsFiniteSet(dl.due)  BY <1>2, FileSubsets
      <4>3. Cardinality(dl.due) \in Nat /\ Cardinality(dl.due \ {f}) = Cardinality(dl.due) - 1
        BY <1>7, <4>2, OneLess
      <4>4. dl.index \in Nat  BY <1>0 DEF Download
      <4> HIDE DEF f
      <4> QED  BY <2>1, <4>1, <4>3, <4>4
    <3>4. f # None  BY <1>1, ConstantTypes
    <3>5. f \in dl.orig \ prev
      <4>1. prev \subseteq {dl.cur}  OBVIOUS
      <4> HIDE DEF prev
      <4> QED  BY <2>0, <4>1
    <3>6. f \notin dl'.due  BY <2>1
    <3> HIDE DEF f, prev, copy
    <3> QED  BY <2>1, <2>5, <3>1, <3>2, <3>3, <3>4, <3>5, <3>6 DEF Going
  <2>13. Books(dl', local')
    <3>1. File \ dl'.orig \subseteq WholeIn(local')
      <4> HIDE DEF prev
      <4> QED  BY <1>4, <2>1, <2>5
    <3> QED  BY <2>1, <2>12, <3>1 DEF Books
  <2>14. \A g \in File \ dl.orig : local'[g] = local[g]
    BY <2>0, <2>5
  <2>15. dl'.orig \subseteq dl.orig
    <3> HIDE DEF prev
    <3> QED  BY <2>1
  <2> QED  BY <2>5, <2>11, <2>13, <2>14, <2>15 DEF Kept
<1> QED  BY <1>0, <1>5, <1>6, <1>7, HeaderCases

LEMMA DataKept ==
  ASSUME ExchangeInv, FileDataReceived
  PROVE  Kept
<1> DEFINE f    == dl.cur
           c    == dl.copy
           v    == Head(wire).version
           T    == Incoming(f, dl.done, wire, out)
           have == HaveOf(local, f, c)
           o    == IF dl.done + 1 >= dl.size /\ OwnName THEN dl.orig \ {f} ELSE dl.orig
<1>0. /\ dl \in Download /\ dl.phase = "connected" /\ wire # <<>> /\ Head(wire).kind = "data"
      /\ File \ dl.orig \subseteq WholeIn(local)
  BY DEF ExchangeInv, TypeInv, TypeOK, FileDataReceived, Received, Books
<1>1. /\ Going(dl, local) /\ Moving(dl, local, ul, up, wire, out, share)
      /\ dl.due \in SUBSET File /\ f \in {None} \cup File
      /\ wire \in Seq(Message) /\ out \in Seq(Message) /\ local \in [File -> Seq(Copy)]
      /\ Stream(T, dl.due, f, have) /\ Parts(T, Before(f), f, dl.done, wire, out)
  BY <1>0, Connection
<1>2. f # None => dl.done \in Nat /\ c \in 1..Len(local[f])  BY <1>0, Connection
<1>3. ul.alive => Serves(T, ul, dl.due, f, have, share)  BY <1>0, Connection
\* Data belongs to a file.
<1>4. f \in File
  <2> SUFFICES ASSUME f = None PROVE FALSE  BY <1>1
  <2>1. Before(f) = 0  BY DEF Before
  <2>2. 0 + 1 <= Len(T) /\ T[0 + 1] = Head(wire)  BY <1>0, <1>1, <2>1, NextMessage
  <2>3. Len(T) > 0 /\ T[1].kind = "data"
    <3>1. Len(T) \in Nat  BY <1>1, LenProperties DEF Stream
    <3> QED  BY <1>0, <2>2, <3>1
  <2> QED  BY <1>1, <2>3 DEF Stream, Orderly
<1>5. f # None /\ dl.done \in Nat /\ c \in 1..Len(local[f]) /\ Size[f] \in Nat
  BY <1>2, <1>4, ConstantTypes
<1>6. /\ f \notin dl.due /\ dl.done = Len(local[f][c]) /\ dl.size = Size[f]
      /\ dl.done < dl.size => f \in dl.orig
      /\ dl.due \subseteq dl.orig /\ File \ (dl.due \cup {f}) \subseteq WholeIn(local)
      /\ dl.index + Cardinality(dl.due) = dl.total
  BY <1>1, <1>5 DEF Going
<1>7. v \in Version /\ Tail(wire) \in Seq(Message)  BY <1>0, <1>1, HeadMessage
<1>8. /\ local' = [local EXCEPT ![f][c] = Append(@, v)] /\ wire' = Tail(wire)
      /\ UNCHANGED <<share, ul, up, out>>
  BY DEF FileDataReceived
<1>9. /\ dl'.phase = "connected" /\ dl'.due = dl.due /\ dl'.cur = f /\ dl'.copy = c
      /\ dl'.done = dl.done + 1 /\ dl'.size = dl.size /\ dl'.index = dl.index /\ dl'.total = dl.total
      /\ dl'.orig = o
  <2>1. dl' = [dl EXCEPT !.done = @ + 1, !.auto = TRUE, !.orig = o]  BY DEF FileDataReceived
  <2> HIDE DEF o
  <2> QED  BY <1>0, <2>1, Zenon DEF Download
<1>10. /\ local' \in [File -> Seq(Copy)] /\ \A g \in File \ {f} : local'[g] = local[g]
       /\ Len(local'[f]) = Len(local[f])
       /\ \A i \in 1..Len(local[f]) : local'[f][i] = IF i = c THEN Append(local[f][c], v) ELSE local[f][i]
  BY SMTT(40), <1>1, <1>4, <1>5, <1>7, <1>8, ChunkType
<1>11. local[f][c] \in Copy /\ local'[f][c] = Append(local[f][c], v)
       /\ Len(local'[f][c]) = dl.done + 1
  <2>1. local[f][c] \in Copy  BY <1>1, <1>4, <1>5, CopiesType
  <2>2. local'[f][c] = Append(local[f][c], v)  BY <1>5, <1>10
  <2>3. Len(Append(local[f][c], v)) = Len(local[f][c]) + 1
    <3>1. local[f][c] \in Seq({0} \cup Version) /\ v \in {0} \cup Version  BY <1>7, <2>1 DEF Copy
    <3> QED  BY <3>1, AppendProperties
  <2> QED  BY <1>6, <2>1, <2>2, <2>3
<1> DEFINE R  == Incoming(f, dl.done + 1, Tail(wire), out)
           hv == HaveOf(local', f, c)
<1>12. Carried(T, dl.due, f, have, R, dl.due, f, hv) /\ dl.done + 1 <= Size[f]
  <2>0. ChunkTaken(R, T, f, dl.done, Head(wire))  BY <1>0, <1>1, <1>4, <1>5, ChunkShape
  <2>1. T[2] = Head(wire)  BY <2>0 DEF ChunkTaken
  <2>2. have[f] = local[f][c] /\ hv[f] = local'[f][c]  BY <1>4 DEF HaveOf
  <2>3. \A g \in dl.due : hv[g] = have[g]
    <3> TAKE g \in dl.due
    <3>1. g \in File \ {f} /\ local'[g] = local[g]  BY <1>1, <1>6, <1>10
    <3> QED  BY <3>1 DEF HaveOf
  <2>4. have[f] \in Copy /\ Len(have[f]) = dl.done /\ hv[f] = Append(have[f], T[2].version)
    BY <1>6, <1>11, <2>1, <2>2
  <2>5. T[2].kind = "data"  BY <1>0, <2>1
  <2> HIDE DEF T, R, have, hv, f
  <2>6. ChunkTaken(R, T, f, dl.done, T[2])  BY <2>0, <2>1
  <2>7. Stream(T, dl.due, f, have) /\ f \notin dl.due /\ dl.done \in Nat  BY <1>1, <1>5, <1>6
  <2> DEFINE e == dl.done
             x == dl.due
  <2> HIDE DEF e, x
  <2>8. /\ Stream(T, x, f, have) /\ f \notin x /\ e \in Nat /\ Len(have[f]) = e
        /\ ChunkTaken(R, T, f, e, T[2]) /\ \A g \in x : hv[g] = have[g]
    BY <2>3, <2>4, <2>6, <2>7 DEF e, x
  <2>9. have[f] \in Copy /\ hv[f] = Append(have[f], T[2].version)  BY <2>4
  <2>10. Carried(T, x, f, have, R, x, f, hv) /\ e + 1 <= Size[f]
    BY SMTT(60), <1>4, <2>5, <2>8, <2>9, StreamChunk
  <2> QED  BY <2>10 DEF e, x
<1>13. f \in dl.orig  BY <1>5, <1>6, <1>12
<1>14. Moving(dl', local', ul', up', wire', out', share')
  <2>1. Incoming(dl'.cur, dl'.done, wire', out') = R /\ HaveOf(local', dl'.cur, dl'.copy) = hv
    BY <1>8, <1>9
  <2>2. \A g \in dl.due : hv[g] = have[g]
    <3> TAKE g \in dl.due
    <3>1. g \in File \ {f} /\ local'[g] = local[g]  BY <1>1, <1>6, <1>10
    <3> QED  BY <3>1 DEF HaveOf
  <2>3. Lists(up, dl.due, have) /\ Lists(ul.hashers, dl.due, have)  BY <1>1 DEF Moving
  <2> HIDE DEF T, R, have, hv, f
  <2>4. Lists(up, dl.due, hv) /\ Lists(ul.hashers, dl.due, hv)  BY <2>2, <2>3, ListsLess
  <2>5. ul.alive => Serves(R, ul, dl.due, f, hv, share)  BY <1>3, <1>12 DEF Serves, Carried
  <2>6. Stream(R, dl.due, f, hv)  BY <1>12 DEF Carried
  <2> QED  BY <1>8, <1>9, <2>1, <2>4, <2>5, <2>6 DEF Moving
<1>15. WholeIn(local) \subseteq WholeIn(local')
  <2> SUFFICES ASSUME NEW g \in WholeIn(local) PROVE g \in WholeIn(local')  OBVIOUS
  <2>1. g \in File  BY DEF WholeIn
  <2>2. PICK i \in DOMAIN local[g], x \in Version : local[g][i] = Complete(g, x)  BY DEF WholeIn
  <2>3. CASE g # f
    <3>1. local'[g] = local[g]  BY <1>10, <2>1, <2>3
    <3> QED  BY <2>1, <2>2, <3>1 DEF WholeIn
  <2>4. CASE g = f
    <3>1. DOMAIN local[f] = 1..Len(local[f]) /\ DOMAIN local'[f] = 1..Len(local'[f])
      <4>1. local[f] \in Seq(Copy) /\ local'[f] \in Seq(Copy)  BY <1>1, <1>4, <1>10
      <4> QED  BY <4>1, LenProperties
    <3>2. i # c
      <4> SUFFICES ASSUME i = c PROVE FALSE  OBVIOUS
      <4>1. local[f][c] = [n \in 1..Size[f] |-> x]  BY <2>2, <2>4 DEF Complete
      <4>2. DOMAIN local[f][c] = 1..Size[f]  BY <4>1
      <4>3. DOMAIN local[f][c] = 1..dl.done
        <5>1. local[f][c] \in Seq({0} \cup Version)  BY <1>11 DEF Copy
        <5> QED  BY <1>6, <5>1, LenProperties
      <4>4. Size[f] \in 1..Size[f] /\ ~(Size[f] \in 1..dl.done)  BY <1>5, <1>12
      <4> QED  BY <4>2, <4>3, <4>4
    <3>3. i \in DOMAIN local'[f] /\ local'[f][i] = local[f][i]  BY <1>10, <2>2, <2>4, <3>1, <3>2
    <3> QED  BY <2>1, <2>2, <2>4, <3>3 DEF WholeIn
  <2> QED  BY <2>3, <2>4
<1>16. dl.done + 1 >= dl.size => f \in WholeIn(local')
  <2> SUFFICES ASSUME dl.done + 1 >= dl.size PROVE f \in WholeIn(local')  OBVIOUS
  <2>1. Stream(R, dl.due, f, hv)  BY <1>12 DEF Carried
  <2>2. c \in 1..Len(local'[f]) /\ dl.done + 1 = Len(local'[f][c]) /\ dl.done + 1 \in Nat
        /\ dl.done + 1 >= Size[f]
    <3>1. Len(local'[f]) = Len(local[f])  BY <1>10
    <3>2. c \in 1..Len(local[f]) /\ dl.done \in Nat /\ dl.size = Size[f]  BY <1>5, <1>6
    <3>3. Len(local'[f][c]) = dl.done + 1  BY <1>11
    <3> HIDE DEF f, c
    <3> QED  BY <3>1, <3>2, <3>3
  <2> DEFINE e == dl.done + 1
  <2> HIDE DEF f, c, e
  <2>3. Stream(Incoming(f, e, Tail(wire), out), dl.due, f, HaveOf(local', f, c))  BY <2>1 DEF e
  <2>4. e \in Nat /\ e = Len(local'[f][c]) /\ e >= Size[f]  BY <2>2 DEF e
  <2> QED  BY <1>1, <1>4, <1>7, <1>10, <2>2, <2>3, <2>4, ThenWhole
<1>17. File \ o \subseteq WholeIn(local') /\ o \subseteq dl.orig
       /\ (dl.done + 1 < dl.size => f \in o) /\ dl.due \subseteq o
  <2>1. dl.done + 1 < dl.size => ~(dl.done + 1 >= dl.size)  BY <1>5, <1>6
  <2> HIDE DEF f
  <2> QED  BY <1>0, <1>6, <1>13, <1>15, <1>16, <2>1 DEF f
<1>18. Going(dl', local')
  <2> HIDE DEF f, c, o
  <2>1. File \ (dl.due \cup {f}) \subseteq WholeIn(local')  BY <1>6, <1>15
  <2>2. c \in 1..Len(local'[f])  BY <1>5, <1>10
  <2> QED  BY <1>5, <1>6, <1>9, <1>11, <1>17, <2>1, <2>2 DEF Going
<1>19. Books(dl', local')
  <2> HIDE DEF o
  <2> QED  BY <1>9, <1>17, <1>18 DEF Books
<1>20. Linked(dl', local', ul', up', wire', out', share')  BY <1>9, <1>14 DEF Linked
<1>21. \A g \in File \ dl.orig : local'[g] = local[g]  BY <1>10, <1>13
<1> HIDE DEF o
<1> QED  BY <1>9, <1>15, <1>17, <1>19, <1>20, <1>21 DEF Kept

-----------------------------------------------------------------------------
(***************************************************************************)
(* Steps of the upload and of the network leave the books alone.           *)
(***************************************************************************)
LEMMA StillKept ==
  ASSUME ExchangeInv, UNCHANGED <<local, dl>>, dl.phase = "connected",
         Moving(dl, local, ul', up', wire', out', share')
  PROVE  Kept
<1>1. Books(dl', local')  BY DEF ExchangeInv
<1>2. Linked(dl, local, ul', up', wire', out', share')  BY DEF Linked
<1>3. Linked(dl', local', ul', up', wire', out', share')  BY <1>2
<1> QED  BY <1>1, <1>3 DEF Kept

LEMMA NoLists == \A due, have : Lists(<<>>, due, have)
<1>1. \A i \in 1..Len(<<>>) : FALSE  OBVIOUS
<1> QED  BY <1>1 DEF Lists

\* The connection ends, with the first (k) messages of the wire delivered.
LEMMA CutKept ==
  ASSUME ExchangeInv, ul.alive, UNCHANGED <<local, dl>>, ul' = NoUpload, up' = <<>>, out' = <<>>,
         NEW k \in 0..Len(wire), wire' = Append(SubSeq(wire, 1, k), [kind |-> "end"])
  PROVE  Kept
<1> DEFINE T  == Incoming(dl.cur, dl.done, wire, out)
           hv == HaveOf(local, dl.cur, dl.copy)
<1>1. dl.phase = "connected"  BY DEF ExchangeInv, Linked
<1>2. /\ dl.cur \in {None} \cup File /\ wire \in Seq(Message) /\ out \in Seq(Message)
      /\ Stream(T, dl.due, dl.cur, hv)
  BY <1>1, Connection
<1>3. dl.cur # None => dl.done \in Nat  BY <1>1, Connection
<1>4. NoEnd(T)
  <2>1. ul.alive => Serves(T, ul, dl.due, dl.cur, hv, share)  BY <1>1, Connection
  <2> QED  BY <2>1 DEF Serves
<1> HIDE DEF hv
<1>5. Stream(Incoming(dl.cur, dl.done, Append(SubSeq(wire, 1, k), [kind |-> "end"]), <<>>), dl.due, dl.cur, hv)
  BY <1>2, <1>3, <1>4, IncomingCut
<1>6. NoUpload.alive = FALSE /\ NoUpload.hashers = <<>>  BY DEF NoUpload
<1>7. Lists(<<>>, dl.due, hv)  BY NoLists
<1>8. Moving(dl, local, ul', up', wire', out', share')  BY <1>5, <1>6, <1>7 DEF Moving, hv
<1> QED  BY <1>1, <1>8, StillKept

LEMMA CloseKept ==
  ASSUME ExchangeInv, ul.alive, UNCHANGED <<local, dl>>, Close
  PROVE  Kept
<1>1. wire \in Seq(Message)  BY DEF ExchangeInv, TypeInv, TypeOK
<1>2. Len(wire) \in 0..Len(wire) /\ SubSeq(wire, 1, Len(wire)) = wire
  <2>1. Len(wire) \in Nat  BY <1>1, LenProperties
  <2> QED  BY <1>1, <2>1, SubSeqFull
<1>3. /\ ul' = NoUpload /\ up' = <<>> /\ out' = <<>>
      /\ wire' = Append(SubSeq(wire, 1, Len(wire)), [kind |-> "end"])
  BY <1>2 DEF Close
<1> QED  BY <1>2, <1>3, CutKept

\* DoUpload has sent what serves the download.
LEMMA BecomesKept ==
  ASSUME ExchangeInv, ul.alive, UNCHANGED <<local, dl, share>>, NEW r, Becomes(r),
         r.msgs \in Seq(Message),
         LET hv == HaveOf(local, dl.cur, dl.copy)
         IN  /\ Serves(Incoming(dl.cur, dl.done, wire, out) \o r.msgs, r.u, dl.due, dl.cur, hv, share)
             /\ Lists(r.u.hashers, dl.due, hv)
  PROVE  Kept
<1>1. CASE r.fails  BY <1>1, CloseKept DEF Becomes
<1>2. CASE ~r.fails
  <2> DEFINE hv == HaveOf(local, dl.cur, dl.copy)
             R  == Incoming(dl.cur, dl.done, wire, out) \o r.msgs
  <2>1. ul' = r.u /\ out' = out \o r.msgs /\ UNCHANGED <<up, wire>>  BY <1>2 DEF Becomes
  <2>2. dl.phase = "connected"  BY DEF ExchangeInv, Linked
  <2>3. dl.cur \in {None} \cup File /\ wire \in Seq(Message) /\ out \in Seq(Message)
    BY <2>2, Connection
  <2>4. dl.cur # None => dl.done \in Nat  BY <2>2, Connection
  <2>5. Incoming(dl.cur, dl.done, wire, out \o r.msgs) = R
    <3>1. Lead(dl.cur, dl.done) \in Seq(Message)  BY <2>3, <2>4, IncomingShape
    <3>2. Lead(dl.cur, dl.done) \o wire \in Seq(Message)  BY <2>3, <3>1, ConcatProperties
    <3> DEFINE L == Lead(dl.cur, dl.done) \o wire
               m == r.msgs
    <3>3. L \in Seq(Message) /\ m \in Seq(Message)  BY <3>2
    <3> HIDE DEF L, m
    <3>4. (L \o out) \o m = L \o (out \o m)  BY SMTT(40), <2>3, <3>3, Associative
    <3> QED  BY <3>4 DEF Incoming, L, m
  <2>6. Lists(up, dl.due, hv)  BY <2>2, Connection DEF Moving
  <2>7. Serves(R, r.u, dl.due, dl.cur, hv, share) /\ Lists(r.u.hashers, dl.due, hv)  OBVIOUS
  <2> HIDE DEF R, hv
  <2>8. Stream(R, dl.due, dl.cur, hv)  BY <2>7 DEF Serves
  <2>9. Moving(dl, local, ul', up', wire', out', share')
    BY <2>1, <2>5, <2>6, <2>7, <2>8 DEF Moving, hv
  <2> QED  BY <2>2, <2>9, StillKept
<1> QED  BY <1>1, <1>2

\* DoUpload does not touch the lists that wait to be verified.
LEMMA DoUploadHashers ==
  ASSUME NEW u \in GoodUpload
  PROVE  DoUpload(u).u.hashers = u.hashers
<1>0. u \in Upload  BY DEF GoodUpload
<1>1. NextFile(u).u.hashers = u.hashers
  <2>1. CASE Halting(u) = {}
    <3> DEFINE mx == Max({u.at} \cup Ahead(u))
    <3>1. NextFile(u).u = [u EXCEPT !.at = mx, !.cur = None, !.finishing = TRUE, !.asked = @ + 1]
      BY <2>1 DEF NextFile, Uploading
    <3> HIDE DEF mx
    <3> QED  BY <1>0, <3>1, Zenon DEF Upload
  <2>2. CASE Halting(u) # {}
    <3> DEFINE f == Max(Visited(u))
               v == share[f]
               w == [u EXCEPT !.at = f, !.cur = f, !.version = v, !.pos = u.files[f]]
               x == [w EXCEPT !.pos = @ + 1, !.asked = @ + 1]
    <3>1. NextFile(u).u = IF v = 0 THEN w ELSE x
      BY <2>2 DEF NextFile, Uploading
    <3> HIDE DEF f
    <3>2. w.hashers = u.hashers /\ x.hashers = u.hashers  BY <1>0, Zenon DEF Upload
    <3> HIDE DEF w, x
    <3> QED  BY <3>1, <3>2
  <2> QED  BY <2>1, <2>2
<1>2. DoUpload(u).u \in {u, NextFile(u).u, [u EXCEPT !.pos = @ + 1, !.asked = @ + 1]}
  BY DEF DoUpload, Uploading
<1>3. [u EXCEPT !.pos = @ + 1, !.asked = @ + 1].hashers = u.hashers  BY <1>0, Zenon DEF Upload
<1> QED  BY <1>1, <1>2, <1>3

LEMMA BeginTransferHashers ==
  ASSUME NEW u \in GoodUpload
  PROVE  BeginTransfer(u).u.hashers = u.hashers
<1> DEFINE v == [u EXCEPT !.waiting = FALSE]
<1>1. v \in Upload /\ v.cur = u.cur /\ v.pos = u.pos /\ v.files = u.files /\ v.hashers = u.hashers
  BY DEF GoodUpload, Upload
<1>2. BeginTransfer(u).u \in {DoUpload(v).u, v}  BY DEF BeginTransfer, Uploading
<1> HIDE DEF v
<1>3. v \in GoodUpload  BY <1>1 DEF GoodUpload
<1> QED  BY <1>1, <1>2, <1>3, DoUploadHashers

LEMMA ListVerifiedHashers ==
  ASSUME ShareType, ul \in GoodUpload, ul.hashers # <<>>, NEW begin \in BOOLEAN
  PROVE  ListVerifiedMakes(begin).u.hashers = Tail(ul.hashers)
<1> DEFINE u == WithOffsets(ul, Head(ul.hashers))
           r == IF begin THEN BeginTransfer(u) ELSE Uploading(u, <<>>, FALSE)
           s == DoUpload(r.u)
           t == [s EXCEPT !.msgs = r.msgs \o @, !.fails = @ \/ r.fails]
<1>1. u \in GoodUpload /\ u.hashers = Tail(ul.hashers)  BY WithOffsetsType
<1>2. ListVerifiedMakes(begin) = t  BY DEF ListVerifiedMakes
<1> HIDE DEF u
<1>3. r.u \in GoodUpload /\ r.u.hashers = u.hashers
  <2>1. CASE begin  BY <1>1, <2>1, BeginTransferType, BeginTransferHashers
  <2>2. CASE ~begin  BY <1>1, <2>2 DEF Uploading
  <2> QED  BY <2>1, <2>2
<1> DEFINE x == r.u
<1> HIDE DEF r
<1>4. DoUpload(x) = [u |-> DoUpload(x).u, msgs |-> DoUpload(x).msgs, fails |-> DoUpload(x).fails]
  <2> HIDE DEF x
  <2> QED  BY DEF DoUpload, NextFile, Uploading
<1>5. DoUpload(x).u.hashers = x.hashers  BY <1>3, DoUploadHashers
<1>6. s = DoUpload(x)  OBVIOUS
<1> HIDE DEF s
<1>7. t.u = s.u  BY <1>4, <1>6
<1> QED  BY <1>1, <1>2, <1>3, <1>5, <1>6, <1>7

\* A queue of lists with one taken from its head, or put at its end.
LEMMA ListsQueue ==
  ASSUME NEW q \in Seq(List), NEW due, NEW have, Lists(q, due, have)
  PROVE  /\ q # <<>> => Lists(Tail(q), due, have) /\ \A f \in due : Head(q)[f] \in {Absent, <<>>, have[f]}
         /\ \A list \in List : (\A f \in due : list[f] \in {Absent, <<>>, have[f]})
                                 => Lists(Append(q, list), due, have)
<1>0. Len(q) \in Nat  BY LenProperties
<1>1. ASSUME q # <<>>
      PROVE  Lists(Tail(q), due, have) /\ \A f \in due : Head(q)[f] \in {Absent, <<>>, have[f]}
  <2>1. Len(q) # 0  BY <1>1, EmptySeq
  <2>2. /\ Head(q) = q[1] /\ Len(Tail(q)) = Len(q) - 1
        /\ \A i \in 1..(Len(q) - 1) : Tail(q)[i] = q[i + 1]
    BY <1>1, HeadTailProperties
  <2>3. 1 \in 1..Len(q) /\ \A i \in 1..(Len(q) - 1) : i + 1 \in 1..Len(q)  BY <1>0, <2>1
  <2> QED  BY <2>2, <2>3 DEF Lists
<1>2. ASSUME NEW list \in List, \A f \in due : list[f] \in {Absent, <<>>, have[f]}
      PROVE  Lists(Append(q, list), due, have)
  <2>1. /\ Len(Append(q, list)) = Len(q) + 1 /\ Append(q, list)[Len(q) + 1] = list
        /\ \A i \in 1..Len(q) : Append(q, list)[i] = q[i]
    BY AppendProperties
  <2>2. ASSUME NEW i \in 1..(Len(q) + 1) PROVE i \in 1..Len(q) \/ i = Len(q) + 1  BY <1>0
  <2> QED  BY <1>2, <2>1, <2>2 DEF Lists
<1> QED  BY <1>1, <1>2

LEMMA FileListKept ==
  ASSUME ExchangeInv, FileListReceived
  PROVE  Kept
<1> DEFINE T  == Incoming(dl.cur, dl.done, wire, out)
           hv == HaveOf(local, dl.cur, dl.copy)
<1>0. ul.alive /\ up # <<>> /\ UNCHANGED <<share, local, dl>>  BY DEF FileListReceived
<1>1. CASE Close  BY <1>0, <1>1, CloseKept
<1>2. CASE ~Close
  <2>1. /\ ul' = [ul EXCEPT !.hashers = Append(@, Head(up))]
        /\ up' = Tail(up) /\ UNCHANGED <<out, wire>>
    BY <1>2 DEF FileListReceived
  <2>2. dl.phase = "connected"  BY <1>0 DEF ExchangeInv, Linked
  <2>3. /\ Moving(dl, local, ul, up, wire, out, share) /\ ul \in GoodUpload /\ up \in Seq(List)
        /\ Stream(T, dl.due, dl.cur, hv)
    BY <2>2, Connection
  <2>4. Serves(T, ul, dl.due, dl.cur, hv, share)  BY <1>0, <2>2, Connection
  <2>5. ul.hashers \in Seq(List)  BY <2>3 DEF GoodUpload, Upload
  <2>6. /\ ul'.cur = ul.cur /\ ul'.pos = ul.pos /\ ul'.version = ul.version /\ ul'.files = ul.files
        /\ ul'.hashers = Append(ul.hashers, Head(up))
    BY <2>1, <2>3, Zenon DEF GoodUpload, Upload
  <2>7. Lists(up, dl.due, hv) /\ Lists(ul.hashers, dl.due, hv)  BY <2>3 DEF Moving
  <2> HIDE DEF T, hv
  <2>8. Head(up) \in List  BY <1>0, <2>3, HeadList
  <2>9. Lists(Tail(up), dl.due, hv) /\ Lists(Append(ul.hashers, Head(up)), dl.due, hv)
    BY <1>0, <2>3, <2>5, <2>7, <2>8, ListsQueue
  <2>10. Serves(T, ul', dl.due, dl.cur, hv, share)  BY <2>4, <2>6, ServesSame
  <2>11. Moving(dl, local, ul', up', wire', out', share')
    BY <1>0, <2>1, <2>3, <2>6, <2>9, <2>10 DEF Moving, T, hv
  <2> QED  BY <1>0, <2>2, <2>11, StillKept
<1> QED  BY <1>1, <1>2

LEMMA ListVerifiedKept ==
  ASSUME ExchangeInv, ListVerified
  PROVE  Kept
<1> DEFINE T  == Incoming(dl.cur, dl.done, wire, out)
           hv == HaveOf(local, dl.cur, dl.copy)
<1>0. ul.alive /\ ul.hashers # <<>> /\ UNCHANGED <<share, local, dl>>  BY DEF ListVerified
<1>1. PICK begin \in {FALSE, ul.waiting} : Becomes(ListVerifiedMakes(begin))
  BY DEF ListVerified, ListVerifiedMakes, WithOffsets
<1>2. dl.phase = "connected"  BY <1>0 DEF ExchangeInv, Linked
<1>3. /\ ul \in GoodUpload /\ ShareType /\ dl.due \in SUBSET File /\ \A f \in File : hv[f] \in Copy
      /\ Moving(dl, local, ul, up, wire, out, share)
  BY <1>2, Connection
<1>4. Serves(T, ul, dl.due, dl.cur, hv, share)  BY <1>0, <1>2, Connection
<1>5. begin \in BOOLEAN /\ ul.hashers \in Seq(List)  BY <1>3 DEF GoodUpload, Upload
<1>6. Lists(ul.hashers, dl.due, hv)  BY <1>3 DEF Moving
<1> HIDE DEF T, hv
<1> DEFINE r == ListVerifiedMakes(begin)
<1>7. r.msgs \in Seq(Message)  BY <1>0, <1>3, <1>5, ListVerifiedType
<1>8. r.u.hashers = Tail(ul.hashers)  BY <1>0, <1>3, <1>5, ListVerifiedHashers
<1>9. Serves(T \o r.msgs, r.u, dl.due, dl.cur, hv, share)
  <2>1. \A f \in dl.due : hv[f] \in Copy  BY <1>3
  <2> QED  BY <1>0, <1>3, <1>4, <1>5, <1>6, <2>1, ListVerifiedServes
<1>10. Lists(r.u.hashers, dl.due, hv)
  BY <1>0, <1>5, <1>6, <1>8, ListsQueue
<1>11. Becomes(r)  BY <1>1
<1> HIDE DEF r
<1> QED  BY <1>0, <1>7, <1>9, <1>10, <1>11, BecomesKept DEF T, hv

LEMMA BeginKept ==
  ASSUME ExchangeInv, Begin
  PROVE  Kept
<1> DEFINE T  == Incoming(dl.cur, dl.done, wire, out)
           hv == HaveOf(local, dl.cur, dl.copy)
           r  == BeginTransfer(ul)
<1>0. ul.alive /\ Becomes(r) /\ UNCHANGED <<share, local, dl>>  BY DEF Begin
<1>1. dl.phase = "connected"  BY <1>0 DEF ExchangeInv, Linked
<1>2. /\ ul \in GoodUpload /\ ShareType /\ dl.due \in SUBSET File
      /\ Moving(dl, local, ul, up, wire, out, share)
  BY <1>1, Connection
<1>3. Serves(T, ul, dl.due, dl.cur, hv, share)  BY <1>0, <1>1, Connection
<1>4. Lists(ul.hashers, dl.due, hv)  BY <1>2 DEF Moving
<1> HIDE DEF T, hv
<1>5. r.msgs \in Seq(Message)  BY <1>2, BeginTransferType
<1>6. Serves(T \o r.msgs, r.u, dl.due, dl.cur, hv, share)  BY <1>2, <1>3, BeginTransferServes
<1>7. r.u.hashers = ul.hashers  BY <1>2, BeginTransferHashers
<1> HIDE DEF r
<1> QED  BY <1>0, <1>4, <1>5, <1>6, <1>7, BecomesKept DEF T, hv

LEMMA DrainedKept ==
  ASSUME ExchangeInv, Drained
  PROVE  Kept
<1> DEFINE T  == Incoming(dl.cur, dl.done, wire, out)
           hv == HaveOf(local, dl.cur, dl.copy)
           u  == [ul EXCEPT !.drained = @ - 1]
           r  == DoUpload(u)
<1>0. ul.alive /\ ul.drained > 0 /\ (Close \/ Becomes(r)) /\ UNCHANGED <<share, local, dl>>
  BY DEF Drained
<1>1. CASE Close  BY <1>0, <1>1, CloseKept
<1>2. CASE Becomes(r)
  <2>1. dl.phase = "connected"  BY <1>0 DEF ExchangeInv, Linked
  <2>2. /\ ul \in GoodUpload /\ ShareType /\ dl.due \in SUBSET File
        /\ Moving(dl, local, ul, up, wire, out, share)
    BY <2>1, Connection
  <2>3. Serves(T, ul, dl.due, dl.cur, hv, share)  BY <1>0, <2>1, Connection
  <2>4. Lists(ul.hashers, dl.due, hv)  BY <2>2 DEF Moving
  <2>5. /\ u \in Upload /\ u.cur = ul.cur /\ u.pos = ul.pos /\ u.files = ul.files
        /\ u.version = ul.version /\ u.hashers = ul.hashers
    <3>0. ul \in Upload  BY <2>2 DEF GoodUpload
    <3>1. ul.drained - 1 \in Nat  BY <1>0, <3>0 DEF Upload
    <3> QED  BY <3>0, <3>1, Zenon DEF Upload
  <2> HIDE DEF T, hv, u
  <2>6. u \in GoodUpload  BY <2>2, <2>5 DEF GoodUpload
  <2>7. Serves(T, u, dl.due, dl.cur, hv, share)  BY <2>3, <2>5, ServesSame
  <2>8. r.msgs \in Seq(Message)  BY <2>2, <2>6, DoUploadType
  <2>9. Serves(T \o r.msgs, r.u, dl.due, dl.cur, hv, share)  BY <2>2, <2>6, <2>7, DoUploadServes
  <2>10. r.u.hashers = ul.hashers  BY <2>5, <2>6, DoUploadHashers
  <2> HIDE DEF r
  <2> QED  BY <1>0, <1>2, <2>4, <2>8, <2>9, <2>10, BecomesKept DEF T, hv
<1> QED  BY <1>0, <1>1, <1>2

\* The upload changes in nothing that matters to the download.
LEMMA SameUploadKept ==
  ASSUME ExchangeInv, ul.alive, UNCHANGED <<local, dl, share, up>>,
         ul'.cur = ul.cur, ul'.pos = ul.pos, ul'.version = ul.version, ul'.files = ul.files,
         ul'.hashers = ul.hashers,
         Incoming(dl.cur, dl.done, wire', out') = Incoming(dl.cur, dl.done, wire, out)
  PROVE  Kept
<1> DEFINE T  == Incoming(dl.cur, dl.done, wire, out)
           hv == HaveOf(local, dl.cur, dl.copy)
<1>1. dl.phase = "connected"  BY DEF ExchangeInv, Linked
<1>2. Moving(dl, local, ul, up, wire, out, share) /\ Stream(T, dl.due, dl.cur, hv)
  BY <1>1, Connection
<1>3. Serves(T, ul, dl.due, dl.cur, hv, share)  BY <1>1, Connection
<1>4. Lists(up, dl.due, hv) /\ Lists(ul.hashers, dl.due, hv)  BY <1>2 DEF Moving
<1> HIDE DEF hv
<1>5. Serves(T, ul', dl.due, dl.cur, hv, share)
  <2> HIDE DEF T
  <2> QED  BY <1>3, ServesSame
<1>6. Incoming(dl.cur, dl.done, wire', out') = T  OBVIOUS
<1> HIDE DEF T
<1>7. Moving(dl, local, ul', up', wire', out', share')
  BY <1>2, <1>4, <1>5, <1>6 DEF Moving, hv
<1> QED  BY <1>1, <1>7, StillKept

LEMMA TransmitKept ==
  ASSUME ExchangeInv, NEW k \in 0..Len(out), Transmit(k)
  PROVE  Kept
<1>0. /\ ul.alive /\ UNCHANGED <<share, local, dl, up>>
      /\ wire' = wire \o SubSeq(out, 1, k) /\ out' = SubSeq(out, k + 1, Len(out))
      /\ ul' = IF k = Len(out) THEN [ul EXCEPT !.drained = @ + ul.asked, !.asked = 0] ELSE ul
  BY DEF Transmit
<1>1. dl.phase = "connected"  BY <1>0 DEF ExchangeInv, Linked
<1>2. dl.cur \in {None} \cup File /\ wire \in Seq(Message) /\ out \in Seq(Message) /\ ul \in GoodUpload
  BY <1>1, Connection
<1>3. dl.cur # None => dl.done \in Nat  BY <1>1, Connection
<1>4. Incoming(dl.cur, dl.done, wire', out') = Incoming(dl.cur, dl.done, wire, out)
  BY <1>0, <1>2, <1>3, IncomingMove
<1>5. /\ ul'.cur = ul.cur /\ ul'.pos = ul.pos /\ ul'.version = ul.version /\ ul'.files = ul.files
      /\ ul'.hashers = ul.hashers
  <2> DEFINE w == [ul EXCEPT !.drained = @ + ul.asked, !.asked = 0]
  <2>1. /\ w.cur = ul.cur /\ w.pos = ul.pos /\ w.version = ul.version /\ w.files = ul.files
        /\ w.hashers = ul.hashers
    BY <1>2, Zenon DEF GoodUpload, Upload
  <2>2. ul' \in {w, ul}  BY <1>0
  <2> HIDE DEF w
  <2> QED  BY <2>1, <2>2
<1> QED  BY <1>0, <1>4, <1>5, SameUploadKept

LEMMA RequeueKept ==
  ASSUME ExchangeInv, RequeueTransfer
  PROVE  Kept
<1>0. /\ ul.alive /\ ul' = [ul EXCEPT !.waiting = TRUE]
      /\ UNCHANGED <<share, local, dl, up, out, wire>>
  BY DEF RequeueTransfer
<1>1. ul \in GoodUpload  BY DEF ExchangeInv, TypeInv
<1>2. /\ ul'.cur = ul.cur /\ ul'.pos = ul.pos /\ ul'.version = ul.version /\ ul'.files = ul.files
      /\ ul'.hashers = ul.hashers
  BY <1>0, <1>1, Zenon DEF GoodUpload, Upload
<1>3. Incoming(dl.cur, dl.done, wire', out') = Incoming(dl.cur, dl.done, wire, out)  BY <1>0
<1> QED  BY <1>0, <1>2, <1>3, SameUploadKept

-----------------------------------------------------------------------------
(***************************************************************************)
(* The steps of the download, and interruptions.                           *)
(***************************************************************************)
\* The download leaves its connection: its books are in order, the rest is gone.
LEMMA LeftKept ==
  ASSUME ExchangeInv, UNCHANGED local, Hangup, Books(dl', local), dl'.phase # "connected",
         dl'.orig = dl.orig
  PROVE  Kept
BY HangupLinked DEF Kept

LEMMA NewStream ==
  ASSUME NEW done, NEW due, NEW have
  PROVE  Incoming(None, done, <<>>, <<>>) = <<>> /\ Stream(<<>>, due, None, have) /\ NoEnd(<<>>) /\ Closed(<<>>)
<1>1. Incoming(None, done, <<>>, <<>>) = <<>>
  <2>1. <<>> \in Seq(Message) /\ <<>> \o <<>> = <<>>  BY ConcatEmptySeq
  <2> QED  BY <2>1 DEF Incoming, Lead
<1>2. <<>> \in Seq(Message) /\ Len(<<>>) = 0 /\ \A i \in 1..Len(<<>>) : FALSE  OBVIOUS
<1>3. Orderly(<<>>) /\ Faithful(<<>>, due, None, have)  BY <1>2 DEF Orderly, Faithful
<1> QED  BY <1>1, <1>2, <1>3 DEF Stream, NoEnd, Closed

LEMMA ConnectKept ==
  ASSUME ExchangeInv, Connect
  PROVE  Kept
<1>0. /\ dl.phase = "queued" /\ UNCHANGED <<share, local>> /\ up' = <<>> /\ out' = <<>> /\ wire' = <<>>
      /\ dl \in Download /\ File \ dl.orig \subseteq WholeIn(local)
      /\ dl.due = dl.orig /\ dl.cur = None /\ dl.done = -1 /\ dl.size = -1
      /\ dl.index = 0 /\ dl.total = Cardinality(dl.orig)
  BY DEF Connect, ExchangeInv, TypeInv, TypeOK, Books
<1>1. /\ dl'.phase = "connected" /\ dl'.orig = dl.orig /\ dl'.due = dl.due /\ dl'.cur = dl.cur
      /\ dl'.done = dl.done /\ dl'.size = dl.size /\ dl'.index = dl.index /\ dl'.total = dl.total
  <2> DEFINE hs == dl.hashers \cup {[files |-> dl.due, cut |-> FALSE]}
  <2>1. dl' = [dl EXCEPT !.phase = "connected", !.hashers = hs]  BY DEF Connect
  <2> HIDE DEF hs
  <2> QED  BY <1>0, <2>1, Zenon DEF Download
<1>2. Going(dl', local')
  <2>1. Cardinality(dl.orig) \in Nat
    <3>1. dl.orig \in SUBSET File  BY <1>0 DEF Download
    <3> QED  BY <3>1, FileSubsets
  <2> QED  BY <1>0, <1>1, <2>1 DEF Going
<1>3. Books(dl', local')  BY <1>0, <1>1, <1>2 DEF Books
<1>4. /\ ul'.cur = None /\ ul'.hashers = <<>> /\ \A f \in File : ul'.files[f] = -1
  <2>1. ul' = [NoUpload EXCEPT !.alive = TRUE, !.waiting = TRUE]  BY DEF Connect
  <2>2. ul'.cur = NoUpload.cur /\ ul'.hashers = NoUpload.hashers /\ ul'.files = NoUpload.files
    <3>1. NoUpload \in Upload  BY NoUploadType DEF GoodUpload
    <3> QED  BY <2>1, <3>1, Zenon DEF Upload
  <2> QED  BY <2>2 DEF NoUpload
<1>5. Moving(dl', local', ul', up', wire', out', share')
  <2> DEFINE hv == HaveOf(local', dl'.cur, dl'.copy)
  <2> HIDE DEF hv
  <2>1. /\ Incoming(None, dl'.done, <<>>, <<>>) = <<>> /\ Stream(<<>>, dl'.due, None, hv)
        /\ NoEnd(<<>>) /\ Closed(<<>>)
    BY NewStream
  <2>2. Offsets(ul', dl'.due, hv, share')
    <3>1. dl'.due \subseteq File  BY <1>0, <1>1 DEF Download
    <3>2. ~(-1 > 0)  OBVIOUS
    <3> QED  BY <1>4, <3>1, <3>2 DEF Offsets
  <2>3. Serves(<<>>, ul', dl'.due, None, hv, share')  BY <1>4, <2>1, <2>2 DEF Serves, Tip
  <2>4. Lists(<<>>, dl'.due, hv)  BY NoLists
  <2>5. dl'.cur = None  BY <1>0, <1>1
  <2> QED  BY <1>0, <1>4, <2>1, <2>3, <2>4, <2>5 DEF Moving, hv
<1>6. Linked(dl', local', ul', up', wire', out', share')  BY <1>1, <1>5 DEF Linked
<1> QED  BY <1>0, <1>1, <1>3, <1>6 DEF Kept

LEMMA ListSentKept ==
  ASSUME ExchangeInv, NEW h \in dl.hashers, ListSent(h)
  PROVE  Kept
<1>0. /\ UNCHANGED <<share, local, ul, out, wire>> /\ dl \in Download /\ local \in [File -> Seq(Copy)]
      /\ Books(dl, local) /\ Linked(dl, local, ul, up, wire, out, share)
  BY DEF ListSent, ExchangeInv, TypeInv, TypeOK
<1>1. /\ dl'.phase = dl.phase /\ dl'.orig = dl.orig /\ dl'.due = dl.due /\ dl'.cur = dl.cur
      /\ dl'.copy = dl.copy /\ dl'.done = dl.done /\ dl'.size = dl.size /\ dl'.index = dl.index
      /\ dl'.total = dl.total /\ dl'.error = dl.error
  <2>1. dl' = [dl EXCEPT !.hashers = @ \ {h}]  BY DEF ListSent
  <2> QED  BY <1>0, <2>1, Zenon DEF Download
<1>2. Books(dl', local')  BY <1>0, <1>1 DEF Books, Going
<1>3. Linked(dl', local', ul', up', wire', out', share')
  <2>1. CASE dl.phase # "connected"  BY <1>0, <1>1, <2>1 DEF Linked
  <2>2. CASE dl.phase = "connected"
    <3> DEFINE hv == HaveOf(local, dl.cur, dl.copy)
    <3>1. PICK list : /\ list \in List
                      /\ \A f \in File : list[f] \in {Absent, <<>>} \/ (local[f] # <<>> /\ list[f] = local[f][1])
                      /\ up' = IF dl.phase = "connected" /\ ul.alive THEN Append(up, list) ELSE up
      BY <1>0, ListMade
    <3>2. dl.due \in SUBSET File /\ Going(dl, local) /\ Moving(dl, local, ul, up, wire, out, share)
          /\ up \in Seq(List)
      BY <2>2, Connection
    <3>3. \A f \in dl.due : list[f] \in {Absent, <<>>, hv[f]}
      <4> TAKE f \in dl.due
      <4>1. f \in File /\ f # dl.cur  BY <3>2, ConstantTypes DEF Going
      <4>2. local[f] # <<>> => hv[f] = local[f][1]  BY <4>1 DEF HaveOf
      <4> HIDE DEF hv
      <4> QED  BY <3>1, <4>1, <4>2
    <3>4. Lists(up, dl.due, hv)  BY <3>2 DEF Moving
    <3> HIDE DEF hv
    <3>5. Lists(up', dl.due, hv)
      <4>1. Lists(Append(up, list), dl.due, hv)  BY <3>1, <3>2, <3>3, <3>4, ListsQueue
      <4> QED  BY <3>1, <3>4, <4>1
    <3>6. Moving(dl', local', ul', up', wire', out', share')
      BY <1>0, <1>1, <3>2, <3>5 DEF Moving, hv
    <3> QED  BY <1>1, <2>2, <3>6 DEF Linked
  <2> QED  BY <2>1, <2>2
<1> QED  BY <1>0, <1>1, <1>2, <1>3 DEF Kept

\* Two counts and the length of the last file tell whether all is there.
LEMMA DisconnectedKept ==
  ASSUME ExchangeInv, Disconnected
  PROVE  Kept
<1> DEFINE error == dl.done < dl.size \/ dl.index < dl.total
           hs    == {[h EXCEPT !.cut = TRUE] : h \in dl.hashers}
           d     == [dl EXCEPT !.hashers = hs]
           e     == [d EXCEPT !.phase = "idle", !.auto = FALSE, !.error = @ \/ error]
<1>0. /\ dl \in Download /\ dl.phase = "connected" /\ UNCHANGED local /\ Hangup
      /\ File \ dl.orig \subseteq WholeIn(local) /\ dl.cur \in {None} \cup File
  BY DEF Disconnected, Received, ExchangeInv, TypeInv, TypeOK, Books, Download
<1>1. dl' = IF error /\ d.auto THEN RestartSession(d) ELSE e  BY DEF Disconnected
<1>2. d \in Download /\ d.orig = dl.orig /\ d.error = dl.error
  <2>1. hs \in SUBSET [files : SUBSET File, cut : BOOLEAN]
    <3>1. dl.hashers \in SUBSET [files : SUBSET File, cut : BOOLEAN]  BY <1>0, Zenon DEF Download
    <3>2. \A h \in [files : SUBSET File, cut : BOOLEAN] :
            [h EXCEPT !.cut = TRUE] \in [files : SUBSET File, cut : BOOLEAN]
      OBVIOUS
    <3>3. ASSUME NEW x \in hs PROVE x \in [files : SUBSET File, cut : BOOLEAN]
      <4>1. PICK h \in dl.hashers : x = [h EXCEPT !.cut = TRUE]  OBVIOUS
      <4>2. h \in [files : SUBSET File, cut : BOOLEAN]  BY <3>1, Zenon
      <4> QED  BY <3>2, <4>1, <4>2, Zenon
    <3> HIDE DEF hs
    <3> QED  BY <3>3, Zenon
  <2> HIDE DEF hs
  <2> QED  BY <1>0, <2>1, Zenon DEF Download
<1>3. error \in BOOLEAN  OBVIOUS
<1>4. ~error => WholeIn(local) = File
  <2> SUFFICES ASSUME ~error PROVE WholeIn(local) = File  OBVIOUS
  <2>1. /\ File \ (dl.due \cup {dl.cur}) \subseteq WholeIn(local)
        /\ dl.index + Cardinality(dl.due) = dl.total /\ dl.due \in SUBSET File
    BY <1>0, Connection DEF Going
  <2>2. dl.due = {}
    <3>1. IsFiniteSet(dl.due) /\ Cardinality(dl.due) \in Nat  BY <2>1, FileSubsets
    <3>2. dl.index \in Nat /\ dl.total \in Nat  BY <1>0 DEF Download
    <3>3. Cardinality(dl.due) = 0  BY <2>1, <3>1, <3>2
    <3> QED  BY <3>1, <3>3, FS_EmptySet
  <2>3. dl.cur # None => dl.cur \in WholeIn(local)
    <3>1. dl.done \in Int /\ dl.size \in Int  BY <1>0 DEF Download
    <3>2. dl.done >= dl.size  BY <3>1
    <3> QED  BY <1>0, <3>2, UnderWayWhole
  <2>4. WholeIn(local) \subseteq File /\ None \notin File  BY ConstantTypes DEF WholeIn
  <2> QED  BY <1>0, <2>1, <2>2, <2>3, <2>4
<1> HIDE DEF d, error
<1>5. e.phase = "idle" /\ e.orig = dl.orig /\ e.error = (dl.error \/ error)
  BY <1>2, <1>3, Zenon DEF Download
<1> HIDE DEF e
<1>6. Books(e, local)
  <2>1. e.phase = "idle" /\ ~e.error => WholeIn(local) = File  BY <1>4, <1>5
  <2> QED  BY <1>0, <1>5, <2>1 DEF Books
<1>7. /\ Books(RestartSession(d), local) /\ RestartSession(d).orig = d.orig
      /\ RestartSession(d).phase = "queued"
  BY <1>0, <1>2, RestartBooks
<1>8. Books(dl', local) /\ dl'.phase # "connected" /\ dl'.orig = dl.orig
  BY <1>1, <1>2, <1>5, <1>6, <1>7
<1> QED  BY <1>0, <1>8, LeftKept

LEMMA HaltKept ==
  ASSUME ExchangeInv, Halt \/ Resume \/ ProgramRestarted
  PROVE  Kept
<1>0. /\ dl \in Download /\ UNCHANGED local /\ Hangup /\ File \ dl.orig \subseteq WholeIn(local)
  BY DEF Halt, Resume, ProgramRestarted, ExchangeInv, TypeInv, TypeOK, Books
<1>1. CASE Halt
  <2>1. dl' = AbortSession(dl, TRUE, TRUE)  BY <1>1 DEF Halt
  <2>2. Books(dl', local) /\ dl'.orig = dl.orig /\ dl'.phase # "connected"
    BY <1>0, <2>1, AbortBooks
  <2> QED  BY <1>0, <2>2, LeftKept
<1>2. CASE Resume
  <2>1. dl' = RestartSession(dl)  BY <1>2 DEF Resume
  <2>2. Books(dl', local) /\ dl'.orig = dl.orig /\ dl'.phase # "connected"
    BY <1>0, <2>1, RestartBooks
  <2> QED  BY <1>0, <2>2, LeftKept
<1>3. CASE ProgramRestarted
  <2>1. dl'.phase = "idle" /\ dl'.orig = dl.orig /\ dl'.error = TRUE  BY <1>3 DEF ProgramRestarted
  <2>2. Books(dl', local)  BY <1>0, <2>1 DEF Books
  <2> QED  BY <1>0, <2>1, <2>2, LeftKept
<1> QED  BY <1>1, <1>2, <1>3

\* Another version, or none, of a file whose beginning has not been verified.
LEMMA ShareKept ==
  ASSUME ExchangeInv, NEW f \in File, NEW v,
         share' = [share EXCEPT ![f] = v], v = 0 \/ ul.files[f] <= 0,
         UNCHANGED <<local, dl, ul, up, out, wire>>
  PROVE  Kept
<1>0. /\ Books(dl, local) /\ Linked(dl, local, ul, up, wire, out, share)
      /\ share \in [File -> {0} \cup Version] /\ ul.files \in [File -> Int] /\ dl.due \in SUBSET File
  BY DEF ExchangeInv, TypeInv, TypeOK, Upload, Offset, Download
<1>1. share'[f] = v /\ \A g \in File \ {f} : share'[g] = share[g]  BY <1>0
<1>2. ASSUME NEW have, Offsets(ul, dl.due, have, share) PROVE Offsets(ul, dl.due, have, share')
  <2> SUFFICES ASSUME NEW g \in dl.due, ul.files[g] > 0
               PROVE  /\ Len(have[g]) = ul.files[g]
                      /\ share'[g] # 0 => \A n \in 1..ul.files[g] : have[g][n] = share'[g]
    BY DEF Offsets
  <2>1. Len(have[g]) = ul.files[g] /\ (share[g] # 0 => \A n \in 1..ul.files[g] : have[g][n] = share[g])
    BY <1>2 DEF Offsets
  <2>2. g \in File /\ ul.files[g] \in Int  BY <1>0
  <2>3. CASE g = f  BY <1>1, <2>1, <2>2, <2>3
  <2>4. CASE g # f  BY <1>1, <2>1, <2>2, <2>4
  <2> QED  BY <2>3, <2>4
<1>3. \A T, have : Serves(T, ul, dl.due, dl.cur, have, share) => Serves(T, ul, dl.due, dl.cur, have, share')
  BY <1>2 DEF Serves
<1>4. Linked(dl, local, ul, up, wire, out, share')  BY <1>0, <1>3 DEF Linked, Moving
<1>5. Linked(dl', local', ul', up', wire', out', share')  BY <1>4
<1> QED  BY <1>0, <1>5 DEF Kept

LEMMA LocalRemovedKept ==
  ASSUME ExchangeInv, NEW f \in File, LocalRemoved(f)
  PROVE  Kept
<1>0. /\ Books(dl, local) /\ Linked(dl, local, ul, up, wire, out, share) /\ local \in [File -> Seq(Copy)]
      /\ dl.phase # "connected" /\ f \notin WholeIn(local) /\ local' = [local EXCEPT ![f] = <<>>]
      /\ UNCHANGED <<share, dl, ul, up, out, wire>>
  BY WholeIsWhole DEF ExchangeInv, TypeInv, TypeOK, LocalRemoved
<1>1. \A g \in File \ {f} : local'[g] = local[g]  BY <1>0
<1>2. WholeIn(local) \subseteq WholeIn(local')
  <2> SUFFICES ASSUME NEW g \in WholeIn(local) PROVE g \in WholeIn(local')  OBVIOUS
  <2>1. g \in File \ {f} /\ local'[g] = local[g]  BY <1>0, <1>1 DEF WholeIn
  <2> QED  BY <2>1 DEF WholeIn
<1>3. f \in dl.orig /\ File \ dl.orig \subseteq WholeIn(local)  BY <1>0 DEF Books
<1>4. ~(dl.phase = "idle" /\ ~dl.error)  BY <1>0 DEF Books
<1>5. Books(dl', local')
  <2>1. dl' = dl  BY <1>0
  <2>2. Books(dl, local')  BY <1>0, <1>2, <1>3, <1>4 DEF Books
  <2> QED  BY <2>1, <2>2
<1>6. Linked(dl', local', ul', up', wire', out', share')  BY <1>0 DEF Linked
<1>7. \A g \in File \ dl.orig : local'[g] = local[g]  BY <1>1, <1>3
<1>8. dl'.orig \subseteq dl.orig  BY <1>0
<1> QED  BY <1>2, <1>5, <1>6, <1>7, <1>8 DEF Kept

LEMMA UnchangedKept ==
  ASSUME ExchangeInv, UNCHANGED vars
  PROVE  Kept
BY DEF ExchangeInv, Kept, vars

LEMMA StepKept ==
  ASSUME ExchangeInv, [Next]_vars
  PROVE  Kept
<1>1. CASE Connect  BY <1>1, ConnectKept
<1>2. CASE \E h \in dl.hashers : ListSent(h)  BY <1>2, ListSentKept
<1>3. CASE FileHeaderReceived  BY <1>3, HeaderKept
<1>4. CASE FileDataReceived  BY <1>4, DataKept
<1>5. CASE Disconnected  BY <1>5, DisconnectedKept
<1>6. CASE FileListReceived  BY <1>6, FileListKept
<1>7. CASE ListVerified  BY <1>7, ListVerifiedKept
<1>8. CASE Drained  BY <1>8, DrainedKept
<1>9. CASE Reaped  BY <1>9, CloseKept DEF Reaped, Stalled
<1>10. CASE Begin  BY <1>10, BeginKept
<1>11. CASE Network  BY <1>11, TransmitKept DEF Network
<1>12. CASE RequeueTransfer  BY <1>12, RequeueKept
<1>13. CASE UploadAborted  BY <1>13, CloseKept DEF UploadAborted
<1>14. CASE ConnectionLost
  <2>1. PICK k \in 0..Len(wire) : wire' = Append(SubSeq(wire, 1, k), [kind |-> "end"])
    BY <1>14 DEF ConnectionLost
  <2> QED  BY <1>14, <2>1, CutKept DEF ConnectionLost
<1>15. CASE Halt \/ Resume \/ ProgramRestarted  BY <1>15, HaltKept
<1>16. ASSUME NEW f \in File, ShareRemoved(f) PROVE Kept
  <2>1. share' = [share EXCEPT ![f] = 0] /\ UNCHANGED <<local, dl, ul, up, out, wire>>
    BY <1>16 DEF ShareRemoved
  <2> QED  BY <2>1, ShareKept
<1>17. ASSUME NEW f \in File, NEW v \in Version, ShareReplaced(f, v) PROVE Kept
  <2>1. /\ share' = [share EXCEPT ![f] = v] /\ ul.files[f] <= 0
        /\ UNCHANGED <<local, dl, ul, up, out, wire>>
    BY <1>17 DEF ShareReplaced
  <2> QED  BY <2>1, ShareKept
<1>18. ASSUME NEW f \in File, LocalRemoved(f) PROVE Kept  BY <1>18, LocalRemovedKept
<1>19. CASE UNCHANGED vars  BY <1>19, UnchangedKept
<1> QED
  BY <1>1, <1>2, <1>3, <1>4, <1>5, <1>6, <1>7, <1>8, <1>9, <1>10, <1>11, <1>12, <1>13, <1>14,
     <1>15, <1>16, <1>17, <1>18, <1>19
     DEF Next, DownloadStep, UploadStep, Network, Interruption

LEMMA ExchangeInit == Init => ExchangeInv
<1> SUFFICES ASSUME Init PROVE ExchangeInv  OBVIOUS
<1>1. TypeInv  BY TypeInit
<1>2. /\ dl.phase = "queued" /\ dl.orig = File /\ dl.due = File /\ dl.cur = None /\ dl.done = -1
      /\ dl.size = -1 /\ dl.index = 0 /\ dl.total = Cardinality(File)
  BY DEF Init
<1>3. Books(dl, local)  BY <1>2 DEF Books
<1>4. ul.alive = FALSE  BY DEF Init, NoUpload
<1>5. Linked(dl, local, ul, up, wire, out, share)  BY <1>2, <1>4 DEF Linked
<1> QED  BY <1>1, <1>3, <1>5 DEF ExchangeInv

LEMMA ExchangeStep == ExchangeInv /\ [Next]_vars => ExchangeInv'
<1> SUFFICES ASSUME ExchangeInv, [Next]_vars PROVE ExchangeInv'  OBVIOUS
<1>1. TypeInv'  BY TypeStep DEF ExchangeInv
<1>2. Kept  BY StepKept
<1> QED  BY <1>1, <1>2 DEF ExchangeInv, Kept

LEMMA ExchangeAlways == Spec => []ExchangeInv
BY ExchangeInit, ExchangeStep, PTL DEF Spec

-----------------------------------------------------------------------------
\* A download that the SESSION_DISCONNECTED handler lets end without an error
\* has a whole copy of all it was asked for, whatever interruptions, restarts
\* and changes of the shared files there have been.
THEOREM FinishedDownloadIsWhole == Spec => []FinishedMeansWhole
<1>1. ExchangeInv => FinishedMeansWhole
  BY WholeIsWhole DEF ExchangeInv, Books, FinishedMeansWhole
<1> QED  BY <1>1, ExchangeAlways, PTL

\* What the FILE_HEADER and FILE_DATA handlers have crossed off _origFileSet is
\* neither written to nor removed again.
THEOREM CrossedOffIsLeftAlone == Spec => NotTouchedAgain
<1>1. ExchangeInv /\ [Next]_vars => [\A f \in File \ dl.orig : local'[f] = local[f]]_vars
  BY StepKept DEF Kept
<1> QED  BY <1>1, ExchangeAlways, PTL DEF Spec, NotTouchedAgain

\* The download implements FileDelivery: each step delivers some files whole
\* and crosses off no file that is not, or changes neither set.
THEOREM DownloadDelivers == Spec => Delivers
<1>1. Init => Abstract!Init
  <2> SUFFICES ASSUME Init PROVE Abstract!Init  OBVIOUS
  <2>1. dl.orig = File  BY DEF Init
  <2> QED  BY <2>1 DEF Abstract!Init, Whole
<1>2. ExchangeInv /\ [Next]_vars => [Abstract!Deliver]_<<dl.orig, Whole>>
  <2> SUFFICES ASSUME ExchangeInv, [Next]_vars PROVE Abstract!Deliver
    OBVIOUS
  <2>1. Kept  BY StepKept
  <2>2. Whole = WholeIn(local) /\ Whole' = WholeIn(local')  BY DEF Whole, WholeIn
  <2>3. /\ Whole \subseteq Whole' /\ Whole' \subseteq File /\ dl'.orig \subseteq dl.orig
        /\ File \ dl'.orig \subseteq Whole'
    BY <2>1, <2>2 DEF Kept, Books, WholeIn
  <2>4. dl.orig \subseteq File  BY DEF ExchangeInv, TypeInv, TypeOK, Download
  <2> DEFINE off == dl.orig \ dl'.orig
  <2>5. off \in SUBSET File /\ Whole' \in SUBSET File  BY <2>3, <2>4
  <2>6. Whole' = Whole \cup Whole' /\ off \subseteq Whole' /\ dl'.orig = dl.orig \ off
    BY <2>3, <2>4
  <2> HIDE DEF off
  <2> QED  BY <2>5, <2>6 DEF Abstract!Deliver
<1> QED  BY <1>1, <1>2, ExchangeAlways, PTL DEF Spec, Delivers, Abstract!Spec

=============================================================================
